--------------------------- MODULE VirtualMachines ---------------------------
(***************************************************************************)
(* The VMs of one running experiment: the web handlers (each holding the   *)
(* VM's lock of the cache while it works, except DELETE and the captures), *)
(* the vm command (which knows no lock), and minimega, of which a command  *)
(* is a step: its state of every VM and the one `vm config` of the         *)
(* namespace, from which redeploys and restores launch.                    *)
(*                                                                         *)
(* A lock ends at its timeout whether its holder has finished or not, and  *)
(* the holder's deferred unlock deletes whatever lock is there then.       *)
(* Broadcasts, screenshots and progress reports are left out.              *)
(***************************************************************************)
EXTENDS Integers, FiniteSets

CONSTANTS
    VMs,
    VMRequests,   \* handlers and commands at work at the same time
    MaxVMOps,     \* bound on handlers and commands
    MaxVMFaults,  \* bound on minimega commands that fail
    MaxExpiries,  \* bound on locks that time out
    NoVM

ASSUME VMsAssumption ==
    /\ NoVM \notin VMs
    /\ MaxVMOps \in Nat /\ MaxVMFaults \in Nat /\ MaxExpiries \in Nat

VARIABLES
    vmState,    \* minimega's state of each VM
    launched,   \* the configuration each VM was launched from
    nsConfig,   \* the namespace's vm config: VM it was cloned from, memory state set
    savedVMs,   \* VMs with a snapshot among the experiment's files
    images,     \* VMs whose disk has been committed to a new image
    capturing,  \* VMs with packet captures
    vmLock,     \* VMs whose lock is held
    vmReq,      \* what each request is doing
    overlapped, \* a redeploy or restore cloned while another had yet to launch
    expiries, vmOps, vmFaults   \* counts (bounds)

vmVars == <<vmState, launched, nsConfig, savedVMs, images, capturing, vmLock, vmReq,
            overlapped, expiries, vmOps, vmFaults>>

Working == [op : {"start", "stop", "restart", "shutdown", "reset", "redeploy", "snapshot",
                  "restore", "commit", "dump", "pause", "delete"},
            vm : VMs, web : BOOLEAN,
            at : {"begin", "waiting", "offline", "cloned", "killed", "flushed", "saving",
                  "starting", "shutting", "moving", "dumping"}]
Resting == [op |-> "none", vm |-> NoVM, web |-> FALSE, at |-> "resting"]
Configs == [of : VMs \cup {NoVM}, state : BOOLEAN]

VMsTypeOK ==
    /\ vmState \in [VMs -> {"building", "running", "paused", "quit", "gone"}]
    /\ launched \in [VMs -> Configs] /\ nsConfig \in Configs
    /\ savedVMs \subseteq VMs /\ images \subseteq VMs /\ capturing \subseteq VMs
    /\ vmLock \subseteq VMs
    /\ vmReq \in [VMRequests -> Working \cup {Resting}]
    /\ overlapped \in BOOLEAN
    /\ expiries \in 0 .. MaxExpiries /\ vmOps \in 0 .. MaxVMOps /\ vmFaults \in 0 .. MaxVMFaults

VMsInit ==
    /\ vmState = [v \in VMs |-> "running"]
    /\ launched = [v \in VMs |-> [of |-> v, state |-> FALSE]]
    /\ nsConfig = [of |-> NoVM, state |-> FALSE]
    /\ savedVMs = {} /\ images = {} /\ capturing = {} /\ vmLock = {}
    /\ vmReq = [r \in VMRequests |-> Resting]
    /\ overlapped = FALSE /\ expiries = 0 /\ vmOps = 0 /\ vmFaults = 0

----------------------------------------------------------------------------
Op(r) == vmReq[r].op
VM(r) == vmReq[r].vm
AtVM(r, ops, label) == Op(r) \in ops /\ vmReq[r].at = label
Exists(v) == vmState[v] # "gone"
Running(v) == vmState[v] = "running"

Goes(r, label) ==
    /\ vmReq' = [vmReq EXCEPT ![r].at = label]
    /\ UNCHANGED vmLock

\* The handler returns: its deferred UnlockVM deletes the lock. DELETE and
\* the command line took none.
Returns(r) ==
    /\ vmReq' = [vmReq EXCEPT ![r] = Resting]
    /\ vmLock' = IF vmReq[r].web /\ Op(r) # "delete" THEN vmLock \ {VM(r)} ELSE vmLock

Counts == UNCHANGED <<expiries, vmOps, vmFaults>>

Begins(r, op, v, web) ==
    /\ vmReq[r] = Resting /\ vmOps < MaxVMOps
    /\ vmOps' = vmOps + 1
    /\ vmReq' = [vmReq EXCEPT ![r] = [op |-> op, vm |-> v, web |-> web, at |-> "begin"]]
    /\ UNCHANGED <<vmState, launched, nsConfig, savedVMs, images, capturing, overlapped, expiries, vmFaults>>

\* A handler that finds the VM locked answers 409 and changes nothing.
HandlesVM(r, op, v) ==
    /\ v \notin vmLock
    /\ Begins(r, op, v, TRUE) /\ vmLock' = vmLock \cup {v}

StartVM(r, v) == HandlesVM(r, "start", v)
StopVM(r, v) == HandlesVM(r, "stop", v)
RestartVM(r, v) == HandlesVM(r, "restart", v)
ShutdownVM(r, v) == HandlesVM(r, "shutdown", v)
ResetVM(r, v) == HandlesVM(r, "reset", v)
RedeployVM(r, v) == HandlesVM(r, "redeploy", v)
SnapshotVM(r, v) == HandlesVM(r, "snapshot", v)
RestoreVM(r, v) == HandlesVM(r, "restore", v)
CommitVM(r, v) == HandlesVM(r, "commit", v)
CreateVMMemorySnapshot(r, v) == HandlesVM(r, "dump", v)

\* The one handler that changes a VM's state without its lock.
DeleteVM(r, v) == Begins(r, "delete", v, TRUE) /\ UNCHANGED vmLock

\* The vm command takes no lock.
VMCommand(r, op, v) == Begins(r, op, v, FALSE) /\ UNCHANGED vmLock
PowerCmd(r, v) == \E op \in {"pause", "start", "restart", "reset"} : VMCommand(r, op, v)
RedeployCmd(r, v) == VMCommand(r, "redeploy", v)
EndCmd(r, v) == \E op \in {"shutdown", "delete"} : VMCommand(r, op, v)
MemorySnapshotCmd(r, v) == VMCommand(r, "dump", v)

\* A command of minimega fails: the operation ends there.
MinimegaFails(r) ==
    /\ vmReq[r] # Resting /\ vmFaults < MaxVMFaults
    /\ vmFaults' = vmFaults + 1
    /\ Returns(r)
    /\ UNCHANGED <<vmState, launched, nsConfig, savedVMs, images, capturing, overlapped, expiries, vmOps>>

LockExpires(v) ==
    /\ v \in vmLock /\ expiries < MaxExpiries
    /\ vmLock' = vmLock \ {v} /\ expiries' = expiries + 1
    /\ UNCHANGED <<vmState, launched, nsConfig, savedVMs, images, capturing, vmReq, overlapped, vmOps, vmFaults>>

----------------------------------------------------------------------------
(* Operations on one VM. minimega refuses them for a VM it does not have.  *)

\* vm start. After a snapshot the saved files are still to be moved.
StartsVM(r) ==
    /\ AtVM(r, {"start"}, "begin") \/ vmReq[r].at = "starting"
    /\ IF Exists(VM(r))
       THEN /\ vmState' = [vmState EXCEPT ![VM(r)] = "running"]
            /\ IF Op(r) = "snapshot" THEN Goes(r, "moving") ELSE Returns(r)
       ELSE UNCHANGED vmState /\ Returns(r)
    /\ UNCHANGED <<launched, nsConfig, savedVMs, images, capturing, overlapped>> /\ Counts

\* vm stop: from the web as it is, from the command line after StopCaptures.
StopsVM(r) ==
    /\ AtVM(r, {"stop", "pause"}, "begin")
    /\ vmState' = IF Running(VM(r)) THEN [vmState EXCEPT ![VM(r)] = "paused"] ELSE vmState
    /\ capturing' = IF Op(r) = "pause" THEN capturing \ {VM(r)} ELSE capturing
    /\ Returns(r)
    /\ UNCHANGED <<launched, nsConfig, savedVMs, images, overlapped>> /\ Counts

\* A VM that has quit is started, any other is reset as it is.
RestartsVM(r) ==
    /\ AtVM(r, {"restart"}, "begin")
    /\ vmState' = IF vmState[VM(r)] = "quit" THEN [vmState EXCEPT ![VM(r)] = "running"] ELSE vmState
    /\ Returns(r)
    /\ UNCHANGED <<launched, nsConfig, savedVMs, images, capturing, overlapped>> /\ Counts

\* CommitToDisk begins: the VM's disk, the backing image and the VM's state
\* are looked up, and a VM that has not quit is shut down.
CommitBegins(r) ==
    /\ AtVM(r, {"commit"}, "begin")
    /\ IF Exists(VM(r))
       THEN Goes(r, IF vmState[VM(r)] = "quit" THEN "offline" ELSE "shutting")
       ELSE Returns(r)
    /\ UNCHANGED <<vmState, launched, nsConfig, savedVMs, images, capturing, overlapped>> /\ Counts

\* Shutdown, on its own or for a commit: captures end and the VM is told to
\* power down; one that does not exist, or has quit, is left alone.
ShutsDown(r) ==
    /\ AtVM(r, {"shutdown"}, "begin") \/ AtVM(r, {"commit"}, "shutting")
    /\ \/ ~Exists(VM(r)) /\ Returns(r) /\ UNCHANGED capturing
       \/ /\ vmState[VM(r)] = "quit" /\ UNCHANGED capturing
          /\ IF Op(r) = "commit" THEN Goes(r, "offline") ELSE Returns(r)
       \/ /\ Exists(VM(r)) /\ vmState[VM(r)] # "quit"
          /\ capturing' = capturing \ {VM(r)}
          /\ Goes(r, "waiting")
    /\ UNCHANGED <<vmState, launched, nsConfig, savedVMs, images, overlapped>> /\ Counts

\* The VM is down by itself or is killed after thirty seconds.
IsDown(r) ==
    /\ vmReq[r].at = "waiting"
    /\ vmState' = IF Exists(VM(r)) THEN [vmState EXCEPT ![VM(r)] = "quit"] ELSE vmState
    /\ IF Op(r) = "commit" /\ Exists(VM(r)) THEN Goes(r, "offline") ELSE Returns(r)
    /\ UNCHANGED <<launched, nsConfig, savedVMs, images, capturing, overlapped>> /\ Counts

\* ResetDiskState: a running VM is killed; one that is paused is not.
ResetsDisk(r) ==
    /\ AtVM(r, {"reset"}, "begin")
    /\ IF Running(VM(r))
       THEN /\ capturing' = capturing \ {VM(r)}
            /\ vmState' = [vmState EXCEPT ![VM(r)] = "quit"]
       ELSE UNCHANGED <<capturing, vmState>>
    /\ IF Exists(VM(r)) THEN Goes(r, "offline") ELSE Returns(r)
    /\ UNCHANGED <<launched, nsConfig, savedVMs, images, overlapped>> /\ Counts

\* The disk snapshot is made anew and moved into place.
MovesDisk(r) ==
    /\ AtVM(r, {"reset"}, "offline")
    /\ Goes(r, "starting")
    /\ UNCHANGED <<vmState, launched, nsConfig, savedVMs, images, capturing, overlapped>> /\ Counts

\* CommitToDisk: copies of the base image and the snapshots are rebased and
\* committed to the new image. When that fails the VM stays shut down.
CommitsDisk(r) ==
    /\ AtVM(r, {"commit"}, "offline")
    /\ images' = images \cup {VM(r)}
    /\ Goes(r, "starting")
    /\ UNCHANGED <<vmState, launched, nsConfig, savedVMs, capturing, overlapped>> /\ Counts

\* vm save pauses the VM until the snapshot is complete.
SavesVM(r) ==
    /\ AtVM(r, {"snapshot"}, "begin")
    /\ IF Running(VM(r))
       THEN vmState' = [vmState EXCEPT ![VM(r)] = "paused"] /\ Goes(r, "saving")
       ELSE UNCHANGED vmState /\ Returns(r)
    /\ UNCHANGED <<launched, nsConfig, savedVMs, images, capturing, overlapped>> /\ Counts

\* The status has no row for a VM that is gone: indexing it panics, which
\* ends the handler.
SaveCompletes(r) ==
    /\ vmReq[r].at = "saving"
    /\ IF Exists(VM(r)) THEN Goes(r, "starting") ELSE Returns(r)
    /\ UNCHANGED <<vmState, launched, nsConfig, savedVMs, images, capturing, overlapped>> /\ Counts

MovesSnapshot(r) ==
    /\ vmReq[r].at = "moving"
    /\ savedVMs' = savedVMs \cup {VM(r)}
    /\ Returns(r)
    /\ UNCHANGED <<vmState, launched, nsConfig, images, capturing, overlapped>> /\ Counts

\* MemorySnapshot: dump-guest-memory, then its status until it is complete.
DumpsMemory(r) ==
    /\ AtVM(r, {"dump"}, "begin") \/ vmReq[r].at = "dumping"
    /\ IF vmReq[r].at = "begin" /\ Exists(VM(r)) THEN Goes(r, "dumping") ELSE Returns(r)
    /\ UNCHANGED <<vmState, launched, nsConfig, savedVMs, images, capturing, overlapped>> /\ Counts

\* Captures take no lock. A subnet's are started on every VM in it that
\* runs, and stopped likewise.
Captures(vs) ==
    /\ vmOps < MaxVMOps /\ vmOps' = vmOps + 1
    /\ capturing' = vs
    /\ UNCHANGED <<vmState, launched, nsConfig, savedVMs, images, vmLock, vmReq, overlapped, expiries, vmFaults>>

StartVMCapture(v) == Running(v) /\ v \notin capturing /\ Captures(capturing \cup {v})
StopVMCaptures(v) == v \in capturing /\ Captures(capturing \ {v})
CaptureSubnet(vs) == Captures(capturing \cup {v \in vs : Running(v)})
StopCaptureSubnet(vs) == Captures(capturing \ {v \in vs : Running(v)})

----------------------------------------------------------------------------
(* Redeploy and restore: clone the VM into the namespace's configuration,  *)
(* kill and flush it, launch it again from that configuration.             *)

\* A request has cloned and has yet to launch.
Configuring(r) == vmReq[r].at \in {"cloned", "killed", "flushed"} /\ Op(r) # "delete"

\* Fault: the configuration of the last redeploy is taken to be this VM's.
ClonesOnce(r) ==
    /\ AtVM(r, {"redeploy", "restore"}, "begin")
    /\ nsConfig' = [of |-> IF nsConfig.of = NoVM THEN VM(r) ELSE nsConfig.of, state |-> Op(r) = "restore"]
    /\ overlapped' = (overlapped \/ \E q \in VMRequests : Configuring(q))
    /\ Goes(r, "cloned")
    /\ UNCHANGED <<vmState, launched, savedVMs, images, capturing>> /\ Counts

\* A redeploy clears the memory state, a restore sets it to the snapshot's.
ClonesConfig(r) ==
    /\ AtVM(r, {"redeploy", "restore"}, "begin")
    /\ IF Exists(VM(r)) /\ (Op(r) = "restore" => VM(r) \in savedVMs)
       THEN /\ nsConfig' = [of |-> VM(r), state |-> Op(r) = "restore"]
            /\ overlapped' = (overlapped \/ \E q \in VMRequests : Configuring(q))
            /\ Goes(r, "cloned")
       ELSE UNCHANGED <<nsConfig, overlapped>> /\ Returns(r)
    /\ UNCHANGED <<vmState, launched, savedVMs, images, capturing>> /\ Counts

KillsVM(r) ==
    /\ AtVM(r, {"redeploy", "restore"}, "cloned") \/ AtVM(r, {"delete"}, "begin")
    /\ IF Exists(VM(r))
       THEN vmState' = [vmState EXCEPT ![VM(r)] = "quit"] /\ Goes(r, "killed")
       ELSE UNCHANGED vmState /\ Returns(r)
    /\ UNCHANGED <<launched, nsConfig, savedVMs, images, capturing, overlapped>> /\ Counts

\* vm flush: every VM that has quit goes, whichever it is; a restore names
\* its own.
FlushesVMs(r) ==
    /\ vmReq[r].at = "killed"
    /\ vmState' = [v \in VMs |->
                     IF vmState[v] = "quit" /\ (Op(r) = "restore" => v = VM(r)) THEN "gone" ELSE vmState[v]]
    /\ IF Op(r) = "delete" THEN Returns(r) ELSE Goes(r, "flushed")
    /\ UNCHANGED <<launched, nsConfig, savedVMs, images, capturing, overlapped>> /\ Counts

LaunchesVM(r) ==
    /\ vmReq[r].at = "flushed"
    /\ IF Exists(VM(r))
       THEN UNCHANGED <<vmState, launched>> /\ Returns(r)
       ELSE /\ vmState' = [vmState EXCEPT ![VM(r)] = "building"]
            /\ launched' = [launched EXCEPT ![VM(r)] = nsConfig]
            /\ Goes(r, "starting")
    /\ UNCHANGED <<nsConfig, savedVMs, images, capturing, overlapped>> /\ Counts

VMStep(r) ==
    \/ StartsVM(r) \/ StopsVM(r) \/ RestartsVM(r) \/ ShutsDown(r) \/ IsDown(r)
    \/ ResetsDisk(r) \/ MovesDisk(r) \/ CommitBegins(r) \/ CommitsDisk(r) \/ SavesVM(r) \/ SaveCompletes(r) \/ MovesSnapshot(r)
    \/ DumpsMemory(r) \/ ClonesConfig(r) \/ KillsVM(r) \/ FlushesVMs(r) \/ LaunchesVM(r)

VMsNext ==
    \/ \E r \in VMRequests, v \in VMs :
        \/ StartVM(r, v) \/ StopVM(r, v) \/ RestartVM(r, v) \/ ShutdownVM(r, v) \/ ResetVM(r, v)
        \/ RedeployVM(r, v) \/ SnapshotVM(r, v) \/ RestoreVM(r, v) \/ CommitVM(r, v)
        \/ CreateVMMemorySnapshot(r, v) \/ DeleteVM(r, v)
        \/ PowerCmd(r, v) \/ RedeployCmd(r, v) \/ EndCmd(r, v) \/ MemorySnapshotCmd(r, v)
    \/ \E r \in VMRequests : VMStep(r) \/ MinimegaFails(r)
    \/ \E v \in VMs : LockExpires(v) \/ StartVMCapture(v) \/ StopVMCaptures(v)
    \/ \E vs \in SUBSET VMs : CaptureSubnet(vs) \/ StopCaptureSubnet(vs)

VMsSpec == VMsInit /\ [][VMsNext]_vmVars

----------------------------------------------------------------------------
\* A VM runs the configuration it was deployed with, from memory only if
\* that was saved: nothing that stops, kills, flushes or fails in between
\* makes a redeploy or restore launch another VM's (RedeployVM, Restore). The
\* one way there is two of them at once in the namespace, which share its
\* configuration while their locks are of different VMs.
RunsOwnConfig ==
    overlapped \/ \A v \in VMs :
        Exists(v) => launched[v].of = v /\ (launched[v].state => v \in savedVMs)

=============================================================================
