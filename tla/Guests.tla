------------------------------- MODULE Guests -------------------------------
(***************************************************************************)
(* Commands in guests (util/mm: ExecC2Command) and mounts of their file    *)
(* systems (web/mount.go, api/vm/mount.go). minimega has one filter per    *)
(* namespace for the guests that a command goes to: a command is two calls *)
(* to minimega, the filter and the command, under one mutex. A mount is    *)
(* shared by its users, who are counted, and read under its own lock.      *)
(*                                                                         *)
(* A guest is known by its name and, until it is launched anew, by its     *)
(* UUID. Names of files and what a command does are left out.              *)
(***************************************************************************)
EXTENDS Integers, FiniteSets

CONSTANTS
    Guests,         \* VMs of one experiment
    GuestRequests,  \* requests that are handled at once
    MaxGuestOps,    \* bound on requests
    MaxEvents,      \* bound on what happens to the VMs
    NoRequest

ASSUME GuestsAssumption ==
    /\ MaxGuestOps \in Nat /\ MaxEvents \in Nat /\ NoRequest \notin GuestRequests \cup Guests

VARIABLES
    uuid,       \* of each VM, as a count of its launches
    connected,  \* VMs whose agent has registered
    ccMu,       \* who holds the mutex
    filter,     \* the namespace's filter
    at,         \* what each request is at
    op,         \* what each request does, and to which VM
    target,     \* whom it addresses
    sent,       \* history: commands, whom they were for and the filter
    replied,    \* requests whose last command was responded to
    mounts,     \* activeMounts: users and lock of each mount
    mountsMu,   \* who holds activeMountsMu for writing
    readers,    \* readers[q]: the mount, if any, that q holds for reading
    closed,     \* locks of mounts that are held for writing
    attached,   \* VMs whose file system is mounted in fact
    disturbed,  \* history: VMs whose mount was ended by something else
    guestOps, events

guestVars == <<uuid, connected, ccMu, filter, at, op, target, sent, replied, mounts, mountsMu, readers,
               closed, attached, disturbed, guestOps, events>>

NoLock == [vm |-> NoRequest, by |-> NoRequest, at |-> 0]
Absent == [there |-> FALSE, users |-> 0, lock |-> NoLock]
NoOp == [kind |-> "none", vm |-> NoRequest]

GuestsTypeOK ==
    /\ connected \subseteq Guests /\ attached \subseteq Guests
    /\ ccMu \in GuestRequests \cup {NoRequest} /\ mountsMu \in GuestRequests \cup {NoRequest}
    /\ at \in [GuestRequests -> {"idle", "client", "filter", "send", "await", "entry", "drain", "rlock", "reading"}]
    /\ \A q \in GuestRequests :
        /\ at[q] = "idle" <=> op[q] = NoOp
        /\ mountsMu = q => op[q].kind \in {"mount", "unmount"}
    /\ \A v \in Guests : mounts[v].there => mounts[v].users >= 0 - MaxGuestOps

GuestsInit ==
    /\ uuid = [v \in Guests |-> 1] /\ connected = {} /\ ccMu = NoRequest /\ filter = <<>>
    /\ at = [q \in GuestRequests |-> "idle"] /\ op = [q \in GuestRequests |-> NoOp]
    /\ target = [q \in GuestRequests |-> <<>>] /\ sent = {} /\ replied = {}
    /\ mounts = [v \in Guests |-> Absent] /\ mountsMu = NoRequest
    /\ readers = [q \in GuestRequests |-> NoLock] /\ closed = {} /\ attached = {} /\ disturbed = {}
    /\ guestOps = 0 /\ events = 0

ToAt(q, p) == at' = [at EXCEPT ![q] = p]
Asked(q) == op[q].kind
Of(q) == op[q].vm

\* Fault: a writer keeps the mounts.
KeepsMounts(q) ==
    /\ ToAt(q, "idle") /\ op' = [op EXCEPT ![q] = NoOp] /\ target' = [target EXCEPT ![q] = <<>>]
    /\ UNCHANGED mountsMu

\* The request is over; a writer lets go of the mounts.
Done(q) ==
    /\ ToAt(q, "idle") /\ op' = [op EXCEPT ![q] = NoOp] /\ target' = [target EXCEPT ![q] = <<>>]
    /\ mountsMu' = IF mountsMu = q THEN NoRequest ELSE mountsMu

inGuestVars == <<uuid, connected, events>>
mountVars == <<mounts, closed, attached, disturbed>>

BeginRequest(q, v, kind) ==
    /\ at[q] = "idle" /\ guestOps < MaxGuestOps /\ guestOps' = guestOps + 1
    /\ op' = [op EXCEPT ![q] = [kind |-> kind, vm |-> v]] /\ replied' = replied \ {q}
    /\ ToAt(q, IF kind \in {"exec", "send"} THEN "client" ELSE "entry")
    /\ UNCHANGED <<ccMu, filter, target, sent, mountsMu, readers>> /\ UNCHANGED <<inGuestVars, mountVars>>

----------------------------------------------------------------------------
(* Commands.                                                               *)

\* c2Client: the agent is registered; the UUID is the one of now.
C2Client(q) ==
    /\ at[q] = "client" /\ Of(q) \in connected /\ ToAt(q, "filter")
    /\ target' = [target EXCEPT ![q] = <<Of(q), uuid[Of(q)]>>]
    /\ UNCHANGED <<ccMu, filter, op, sent, replied, mountsMu, readers, guestOps>> /\ UNCHANGED <<inGuestVars, mountVars>>

\* It is not, until the timeout (ErrC2ClientNotActive), or the context ends.
C2NotActive(q) ==
    /\ at[q] = "client" /\ Done(q)
    /\ UNCHANGED <<ccMu, filter, sent, replied, readers, guestOps>> /\ UNCHANGED <<inGuestVars, mountVars>>

\* Fault: the filter is set without the mutex.
FiltersUnlocked(q) ==
    /\ at[q] = "filter" /\ ToAt(q, "send") /\ ccMu' = q
    /\ filter' = target[q]

\* cc filter, under the mutex.
SetFilter(q) ==
    /\ at[q] = "filter" /\ ccMu = NoRequest /\ ccMu' = q /\ ToAt(q, "send")
    /\ filter' = target[q]

Filters(q) ==
    /\ SetFilter(q)
    /\ UNCHANGED <<op, target, sent, replied, mountsMu, readers, guestOps>> /\ UNCHANGED <<inGuestVars, mountVars>>

Issue(q) == sent' = sent \cup {[kind |-> Asked(q), for |-> target[q], filter |-> filter]}

\* cc exec, cc send: then the response is awaited.
SendCommand(q) ==
    /\ at[q] = "send" /\ Asked(q) \in {"exec", "send"} /\ ToAt(q, "await")
    /\ Issue(q) /\ ccMu' = NoRequest
    /\ UNCHANGED <<filter, op, target, replied, mountsMu, readers, guestOps>> /\ UNCHANGED <<inGuestVars, mountVars>>

\* minimega refuses the filter or the command.
CommandFails(q) ==
    /\ at[q] = "send" /\ ccMu' = NoRequest /\ Done(q)
    \* UnmountVM: the lock is let go; the count is not restored.
    /\ closed' = IF Asked(q) = "unmount" THEN closed \ {mounts[Of(q)].lock} ELSE closed
    /\ UNCHANGED <<filter, sent, replied, readers, guestOps, mounts, attached, disturbed>> /\ UNCHANGED inGuestVars

\* The guest that the filter named responds, as long as it is the same.
Respond(q) ==
    /\ at[q] = "await" /\ target[q][1] \in connected /\ target[q][2] = uuid[target[q][1]] /\ q \notin replied
    /\ replied' = replied \cup {q}
    /\ UNCHANGED <<ccMu, filter, at, op, target, sent, mountsMu, readers, guestOps>> /\ UNCHANGED <<inGuestVars, mountVars>>

\* waitForResponse: a file that was sent is followed by its command.
WaitForResponse(q) ==
    /\ at[q] = "await" /\ q \in replied /\ replied' = replied \ {q}
    /\ IF Asked(q) = "send"
       THEN ToAt(q, "filter") /\ op' = [op EXCEPT ![q].kind = "exec"] /\ UNCHANGED <<target, mountsMu>>
       ELSE Done(q)
    /\ UNCHANGED <<ccMu, filter, sent, readers, guestOps>> /\ UNCHANGED <<inGuestVars, mountVars>>

ResponseTimeout(q) ==
    /\ at[q] = "await" /\ Done(q)
    /\ UNCHANGED <<ccMu, filter, sent, replied, readers, guestOps>> /\ UNCHANGED <<inGuestVars, mountVars>>

----------------------------------------------------------------------------
(* Mounts.                                                                 *)

\* MountVM: one more user, or the first, whose command mounts.
MountVM(q) ==
    /\ at[q] = "entry" /\ Asked(q) = "mount" /\ mountsMu = NoRequest
    /\ IF mounts[Of(q)].there
       THEN mounts' = [mounts EXCEPT ![Of(q)].users = @ + 1] /\ Done(q)
       ELSE mountsMu' = q /\ ToAt(q, "client") /\ UNCHANGED <<mounts, op, target>>
    /\ UNCHANGED <<ccMu, filter, sent, replied, readers, guestOps, closed, attached, disturbed>> /\ UNCHANGED inGuestVars

\* The lock of a new mount: no other has it, as a request mounts once.
NewLock(q) == [vm |-> Of(q), by |-> q, at |-> guestOps]

\* MountFilesystem: cc mount; a file system that is mounted stays so.
MountFilesystem(q) ==
    LET v == Of(q)
    IN  /\ at[q] = "send" /\ Asked(q) = "mount"
        /\ Issue(q) /\ ccMu' = NoRequest /\ Done(q)
        /\ mounts' = [mounts EXCEPT ![v] = [there |-> TRUE, users |-> 1, lock |-> NewLock(q)]]
        /\ attached' = attached \cup {v} /\ disturbed' = disturbed \ {v}
        /\ UNCHANGED <<filter, replied, readers, guestOps, closed>> /\ UNCHANGED inGuestVars

\* UnmountVM: the last user's command unmounts, once nobody reads.
UnmountVM(q) ==
    LET v == Of(q)
    IN  /\ at[q] = "entry" /\ Asked(q) = "unmount" /\ mountsMu = NoRequest
        /\ IF mounts[v].there THEN mounts' = [mounts EXCEPT ![v].users = @ - 1] ELSE UNCHANGED mounts
        /\ IF mounts[v].there /\ mounts[v].users = 1
           THEN mountsMu' = q /\ ToAt(q, "drain") /\ UNCHANGED <<op, target>>
           ELSE Done(q)
        /\ UNCHANGED <<ccMu, filter, sent, replied, readers, guestOps, closed, attached, disturbed>> /\ UNCHANGED inGuestVars

\* The mount's lock, for writing; the VM is addressed by its name.
LockMount(q) ==
    /\ at[q] = "drain" /\ ToAt(q, "filter")
    /\ \A p \in GuestRequests : readers[p] # mounts[Of(q)].lock
    /\ closed' = closed \cup {mounts[Of(q)].lock}
    /\ target' = [target EXCEPT ![q] = <<Of(q), 0>>]
    /\ UNCHANGED <<ccMu, filter, op, sent, replied, mounts, mountsMu, readers, attached, disturbed, guestOps>>
    /\ UNCHANGED inGuestVars

\* UnmountFilesystem: clear cc mount. The entry goes; its lock stays held.
UnmountFilesystem(q) ==
    LET v == Of(q)
    IN  /\ at[q] = "send" /\ Asked(q) = "unmount"
        /\ Issue(q) /\ ccMu' = NoRequest /\ Done(q)
        /\ mounts' = [mounts EXCEPT ![v] = Absent] /\ attached' = attached \ {v}
        /\ UNCHANGED <<filter, replied, readers, guestOps, closed, disturbed>> /\ UNCHANGED inGuestVars

\* GetMountFiles, DownloadMountFile, UploadMountFile and
\* CopyExperimentFileToMount: the mount is looked up ...
FindMount(q) ==
    /\ at[q] = "entry" /\ Asked(q) = "read" /\ mountsMu = NoRequest
    /\ IF mounts[Of(q)].there
       THEN /\ ToAt(q, "rlock") /\ target' = [target EXCEPT ![q] = <<mounts[Of(q)].lock>>]
            /\ UNCHANGED <<op, mountsMu>>
       ELSE Done(q)
    /\ UNCHANGED <<ccMu, filter, sent, replied, readers, guestOps>> /\ UNCHANGED <<inGuestVars, mountVars>>

\* ... then locked for reading, unless it is locked for writing.
RLock(q) == target[q][1] \notin closed

ReadMount(q) ==
    /\ at[q] = "rlock" /\ RLock(q) /\ ToAt(q, "reading")
    /\ readers' = [readers EXCEPT ![q] = target[q][1]]
    /\ UNCHANGED <<ccMu, filter, op, target, sent, replied, mountsMu, guestOps>> /\ UNCHANGED <<inGuestVars, mountVars>>

ReadDone(q) ==
    /\ at[q] = "reading" /\ readers' = [readers EXCEPT ![q] = NoLock] /\ Done(q)
    /\ UNCHANGED <<ccMu, filter, sent, replied, guestOps>> /\ UNCHANGED <<inGuestVars, mountVars>>

----------------------------------------------------------------------------
(* What else happens to VMs and mounts.                                    *)

Event == events < MaxEvents /\ events' = events + 1
eventRest == <<ccMu, filter, at, op, target, sent, replied, mounts, mountsMu, readers, closed, guestOps>>

Connect(v) ==
    /\ v \notin connected /\ connected' = connected \cup {v}
    /\ UNCHANGED <<uuid, attached, disturbed, events>> /\ UNCHANGED eventRest

\* The VM is launched anew, with another UUID and nothing mounted.
Relaunch(v) ==
    /\ Event /\ uuid' = [uuid EXCEPT ![v] = @ + 1] /\ connected' = connected \ {v}
    /\ attached' = attached \ {v} /\ disturbed' = disturbed \cup {v}
    /\ UNCHANGED eventRest

\* unmountExperiment, when the experiment stops; also phenix vm unmount.
\* activeMounts does not know.
UnmountExperiment ==
    /\ Event /\ attached' = {} /\ disturbed' = disturbed \cup attached
    /\ UNCHANGED <<uuid, connected>> /\ UNCHANGED eventRest

GuestsNext ==
    \/ UnmountExperiment
    \/ \E v \in Guests : Connect(v) \/ Relaunch(v)
    \/ \E q \in GuestRequests :
        \/ \E v \in Guests, kind \in {"exec", "send", "mount", "unmount", "read"} : BeginRequest(q, v, kind)
        \/ C2Client(q) \/ C2NotActive(q) \/ Filters(q) \/ SendCommand(q) \/ CommandFails(q) \/ Respond(q)
        \/ WaitForResponse(q) \/ ResponseTimeout(q)
        \/ MountVM(q) \/ MountFilesystem(q) \/ UnmountVM(q) \/ LockMount(q) \/ UnmountFilesystem(q)
        \/ FindMount(q) \/ ReadMount(q) \/ ReadDone(q)

GuestsSpec == GuestsInit /\ [][GuestsNext]_guestVars

----------------------------------------------------------------------------

\* A command only goes to the guest that it is for: the filter that is set
\* when minimega takes the command is the one of the same request, however
\* the calls of others, to the same namespace, lie in between, and the second
\* command of a request is no exception. A guest that was launched anew is
\* not sent what was meant for the one before.
CommandsReachTheirGuest == \A c \in sent : c.filter = c.for

\* A request that reads or writes files in a mount does so while the VM's
\* file system is there, and never in the bare directory on the head node
\* that the last user's unmount leaves behind, unless the mount was ended by
\* the end of the VM or of the experiment.
ReadsMounted == \A q \in GuestRequests : at[q] = "reading" => Of(q) \in attached \cup disturbed

\* Requests to guests do not get in each other's way: both.
GuestsKeptApart == CommandsReachTheirGuest /\ ReadsMounted
=============================================================================
