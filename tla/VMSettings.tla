----------------------------- MODULE VMSettings -----------------------------
(***************************************************************************)
(* The settings of one experiment's VMs: what the stored experiment says   *)
(* of them, what minimega runs, and the handlers and commands that change  *)
(* the one, the other or both. An update reads the stored experiment,      *)
(* changes minimega's side when it runs, and saves the specification it    *)
(* read, whole; nothing locks it out of the others or of a start.          *)
(*                                                                         *)
(* Packet captures are here for the interface they are on: a command names *)
(* it as the topology does, minimega by its position. The power state of a *)
(* VM is the business of VirtualMachines: one that is launched runs.       *)
(***************************************************************************)
EXTENDS Integers, Sequences, FiniteSets

CONSTANTS
    Topology,      \* the VMs in the topology's order, each with its interfaces
    WiredAs,       \* minimega's order of a VM's interfaces
    SettingUsers,  \* handlers and commands at work at the same time
    SettingChanges,       \* the changes asked for: [size, tags, append, net]
    LANs,          \* VLANs of the topology
    TagKeys, Untagged,
    MaxSettings,   \* bound on handlers and commands
    SettingFaults, \* bound on commands of minimega that fail
    NoChange       \* a setting that is left alone

Nodes == {Topology[n].vm : n \in 1 .. Len(Topology)}
IfacesOf(v) == Topology[CHOOSE n \in 1 .. Len(Topology) : Topology[n].vm = v].ifaces
Positions(v) == 1 .. Len(IfacesOf(v))

ASSUME SettingsAssumption ==
    /\ \A v \in Nodes : Len(IfacesOf(v)) \in Nat
    /\ \A v \in Nodes : \A i \in Positions(v) : IfacesOf(v)[i].vlan \in LANs
    /\ \A v \in Nodes : {WiredAs[v][i] : i \in Positions(v)} = Positions(v)
    /\ \A c \in SettingChanges :
        /\ c.size # NoChange => c.size \in Nat \ {0}
        /\ c.tags # NoChange => c.tags = [k \in TagKeys |-> c.tags[k]]
    /\ Untagged = [k \in TagKeys |-> Untagged[k]]
    /\ MaxSettings \in Nat /\ SettingFaults \in Nat

VARIABLES
    stored,     \* the stored experiment: running, and each VM's size and tags
    live,       \* minimega's VMs: size, tags, VLAN of each position
    captures,   \* captures: VM, position, and the name it was asked for
    starting,   \* the specification a start has read, while it is under way
    user,       \* what each handler or command is doing
    moved,      \* VMs with an interface connected to a VLAN not its own
    crossed,    \* an update ran while another update or a start did
    settings, setFaults   \* counts (bounds)

settingVars == <<stored, live, captures, starting, user, moved, crossed, settings, setFaults>>

RedeploySize == 2
Unnamed == "unnamed"
NotLaunched == [size |-> 0, tags |-> Untagged, nets |-> << >>]
Rested == [at |-> "rest"]
Launched(v) == live[v] # NotLaunched

TagMaps == [TagKeys -> {c.tags[k] : c \in {d \in SettingChanges : d.tags # NoChange}, k \in TagKeys} \cup {Untagged[k] : k \in TagKeys}]

SettingsTypeOK ==
    /\ stored.up \in BOOLEAN
    /\ \A v \in Nodes : stored.spec[v].size \in Nat /\ stored.spec[v].tags \in TagMaps
    /\ \A v \in Nodes : Launched(v) =>
        /\ live[v].tags \in TagMaps
        /\ \A i \in Positions(v) : live[v].nets[i] \in LANs \cup {"disconnected"}
    /\ \A c \in captures : Launched(c.vm) /\ c.pos \in Positions(c.vm)
    /\ moved \subseteq Nodes /\ crossed \in BOOLEAN
    /\ settings \in 0 .. MaxSettings /\ setFaults \in 0 .. SettingFaults

SettingsInit ==
    /\ stored = [up |-> FALSE, spec |-> [v \in Nodes |-> [size |-> 1, tags |-> Untagged]]]
    /\ live = [v \in Nodes |-> NotLaunched]
    /\ captures = {} /\ starting = NoChange
    /\ user = [r \in SettingUsers |-> Rested]
    /\ moved = {} /\ crossed = FALSE /\ settings = 0 /\ setFaults = 0

----------------------------------------------------------------------------
(* What a user is shown (vm.List, vm.Get).                                 *)

\* Get: the settings of a VM, minimega's where it runs.
Details(v) == IF stored.up /\ Launched(v) THEN [size |-> live[v].size, tags |-> live[v].tags] ELSE stored.spec[v]

\* List: of an experiment that runs only the VMs that minimega has.
List == SelectSeq([n \in 1 .. Len(Topology) |-> Topology[n].vm], LAMBDA v : stored.up => Launched(v))

\* The topology's name of the interface on a VLAN: a map, in which the last
\* of two on the same VLAN stays.
NameByVLAN(v, vlan) ==
    LET on == {i \in Positions(v) : IfacesOf(v)[i].vlan = vlan}
    IN IF on = {} THEN Unnamed ELSE IfacesOf(v)[CHOOSE i \in on : \A j \in on : j <= i].name

\* minimega decides the order of a VM's interfaces; their names follow it by
\* the VLAN each is on.
IfaceNames(v) == [i \in Positions(v) |-> NameByVLAN(v, live[v].nets[i])]

\* The first interface of that name.
ResolveInterface(v, name) ==
    LET named == {i \in Positions(v) : IfaceNames(v)[i] = name}
    IN IF named = {} THEN 0 ELSE CHOOSE i \in named : \A j \in named : i <= j

\* The VMs with a tag, as they are listed when the command is given.
ListVMsByLabel(k) == SelectSeq(List, LAMBDA v : Details(v).tags[k] # Untagged[k])

----------------------------------------------------------------------------
(* Updates.                                                                *)

Others(r) == {q \in SettingUsers \ {r} : user[q].at \notin {"rest", "capture"}}
SetCounts == UNCHANGED <<settings, setFaults>>
Target(r) == Head(user[r].todo)

BeginsUpdate(r, vs, c) ==
    /\ user[r] = Rested /\ vs # << >> /\ settings < MaxSettings
    /\ settings' = settings + 1
    /\ user' = [user EXCEPT ![r] = [at |-> "get", todo |-> vs, change |-> c, copy |-> NoChange, tags |-> NoChange, up |-> FALSE]]
    /\ crossed' = (crossed \/ Others(r) # {} \/ starting # NoChange)
    /\ UNCHANGED <<stored, live, captures, starting, moved, setFaults>>

UpdateVM(r, v, c) == BeginsUpdate(r, <<v>>, c)

\* Several VMs in one request, one after the other: tags are not looked at.
UpdateVMs(r, c) == c.tags = NoChange /\ BeginsUpdate(r, [n \in 1 .. Len(Topology) |-> Topology[n].vm], c)

\* The set command: no interfaces, at most 8 CPUs; a VM or those with a tag.
SetCmd(r, v, k, c) ==
    /\ c.net = NoChange /\ (c.size # NoChange => c.size \in 1 .. 8)
    /\ \E vs \in {<<v>>, ListVMsByLabel(k)} : BeginsUpdate(r, vs, c)

\* An error ends the request; what it did to earlier VMs stays.
UpdateFails(r) == user' = [user EXCEPT ![r] = Rested]

\* The next VM of the request, or its end.
NextTarget(r) ==
    user' = [user EXCEPT ![r] = IF Len(@.todo) = 1 THEN Rested ELSE [@ EXCEPT !.at = "get", !.todo = Tail(user[r].todo)]]

\* Appending keeps the labels the VM has, except where the new ones say.
MergesTags(c, old) ==
    IF c.tags # NoChange /\ c.append
    THEN [k \in TagKeys |-> IF c.tags[k] = Untagged[k] THEN old[k] ELSE c.tags[k]]
    ELSE c.tags

ReadsSettings(r) ==
    /\ user[r].at = "get"
    /\ user' = [user EXCEPT ![r].at = "check", ![r].copy = stored.spec,
                            ![r].tags = MergesTags(user[r].change, stored.spec[Target(r)].tags)]
    /\ UNCHANGED <<stored, live, captures, starting, moved, crossed>> /\ SetCounts

\* The labels put into the copy of the specification.
Labelled(r) == [user[r].copy EXCEPT ![Target(r)].tags = user[r].tags]

\* The copy with the change in it, of an experiment that does not run.
Changed(r) ==
    [user[r].copy EXCEPT ![Target(r)] =
        [size |-> IF user[r].change.size = NoChange THEN @.size ELSE user[r].change.size,
         tags |-> IF user[r].tags = NoChange THEN @.tags ELSE user[r].tags]]

\* Fault: a change of a VM's size is accepted while it runs.
ChecksNothing(r) ==
    /\ user[r].at = "check"
    /\ IF stored.up /\ user[r].change.net # NoChange THEN user' = [user EXCEPT ![r].at = "net"]
       ELSE IF stored.up /\ user[r].tags # NoChange THEN user' = [user EXCEPT ![r].at = "clear"]
       ELSE user' = [user EXCEPT ![r].at = "save", ![r].copy = Changed(r)]
    /\ UNCHANGED <<stored, live, captures, starting, moved, crossed>> /\ SetCounts

\* A second read tells whether the experiment runs: then only interfaces and
\* tags can be changed. Otherwise an interface is not looked at.
ChecksRunning(r) ==
    /\ user[r].at = "check"
    /\ IF ~stored.up THEN user' = [user EXCEPT ![r].at = "save", ![r].copy = Changed(r)]
       ELSE IF user[r].change.size # NoChange THEN UpdateFails(r)
       ELSE IF user[r].change.net # NoChange THEN user' = [user EXCEPT ![r].at = "net"]
       ELSE IF user[r].tags # NoChange THEN user' = [user EXCEPT ![r].at = "clear"]
       ELSE UpdateFails(r)
    /\ UNCHANGED <<stored, live, captures, starting, moved, crossed>> /\ SetCounts

\* minimega moves an interface to a VLAN, or to none.
Reconnected(v, pos, vlan) ==
    /\ live' = [live EXCEPT ![v].nets[pos] = vlan]
    /\ moved' = IF vlan \in {"disconnected", IfacesOf(v)[WiredAs[v][pos]].vlan} THEN moved ELSE moved \cup {v}

Connects(r) ==
    /\ user[r].at = "net"
    /\ IF ~Launched(Target(r)) THEN UpdateFails(r) /\ UNCHANGED <<live, moved>>
       ELSE /\ Reconnected(Target(r), user[r].change.net.pos, user[r].change.net.vlan)
            /\ IF user[r].tags # NoChange THEN user' = [user EXCEPT ![r].at = "clear"] ELSE NextTarget(r)
    /\ UNCHANGED <<stored, captures, starting, crossed>> /\ SetCounts

\* SetVMTags: all tags are cleared, then set one at a time.
ClearsTags(r) ==
    /\ user[r].at = "clear"
    /\ IF ~Launched(Target(r)) THEN UpdateFails(r) /\ UNCHANGED live
       ELSE live' = [live EXCEPT ![Target(r)].tags = Untagged] /\ user' = [user EXCEPT ![r].at = "tag"]
    /\ UNCHANGED <<stored, captures, starting, moved, crossed>> /\ SetCounts

Unset(r) == {k \in TagKeys : live[Target(r)].tags[k] # user[r].tags[k] /\ user[r].tags[k] # Untagged[k]}

SetsTag(r) ==
    /\ user[r].at = "tag"
    /\ IF ~Launched(Target(r)) THEN UpdateFails(r) /\ UNCHANGED live
       ELSE \/ \E k \in Unset(r) :
                live' = [live EXCEPT ![Target(r)].tags[k] = user[r].tags[k]] /\ UNCHANGED user
            \/ /\ Unset(r) = {} /\ UNCHANGED live
               /\ user' = [user EXCEPT ![r].at = "save", ![r].copy = Labelled(r)]
    /\ UNCHANGED <<stored, captures, starting, moved, crossed>> /\ SetCounts

\* Save reads the experiment again and writes it with the copy as its
\* specification.
SaveReads(r) ==
    /\ user[r].at = "save"
    /\ user' = [user EXCEPT ![r].at = "write", ![r].up = stored.up]
    /\ UNCHANGED <<stored, live, captures, starting, moved, crossed>> /\ SetCounts

SaveWrites(r) ==
    /\ user[r].at = "write"
    /\ stored' = [up |-> user[r].up, spec |-> user[r].copy]
    /\ NextTarget(r)
    /\ UNCHANGED <<live, captures, starting, moved, crossed>> /\ SetCounts

\* A command of minimega, or the store, fails.
SettingFails(r) ==
    /\ user[r].at \in {"net", "clear", "tag", "write", "capture"} /\ setFaults < SettingFaults
    /\ setFaults' = setFaults + 1
    /\ UpdateFails(r)
    /\ UNCHANGED <<stored, live, captures, starting, moved, crossed, settings>>

\* The net command goes to minimega at once.
NetConnectCmd(v, pos, vlan) ==
    /\ Launched(v) /\ settings < MaxSettings /\ settings' = settings + 1
    /\ Reconnected(v, pos, vlan)
    /\ UNCHANGED <<stored, captures, starting, user, crossed, setFaults>>
NetDisconnectCmd(v, pos) ==
    /\ Launched(v) /\ settings < MaxSettings /\ settings' = settings + 1
    /\ Reconnected(v, pos, "disconnected")
    /\ UNCHANGED <<stored, captures, starting, user, crossed, setFaults>>

\* A redeploy may give the VM another size; the specification keeps its own.
Redeploy(v, size) ==
    /\ Launched(v) /\ settings < MaxSettings /\ settings' = settings + 1
    /\ live' = [live EXCEPT ![v].size = size]
    /\ captures' = {c \in captures : c.vm # v}
    /\ UNCHANGED <<stored, starting, user, moved, crossed, setFaults>>

----------------------------------------------------------------------------
(* The experiment starts and stops (see Lifecycle for the steps of both).  *)

StartReadsSpec ==
    /\ ~stored.up /\ starting = NoChange /\ settings < MaxSettings
    /\ settings' = settings + 1
    /\ starting' = stored.spec
    /\ crossed' = (crossed \/ \E r \in SettingUsers : user[r].at \notin {"rest", "capture"})
    /\ UNCHANGED <<stored, live, captures, user, moved, setFaults>>

Boots(v, s) == [size |-> s.size, tags |-> s.tags, nets |-> [i \in Positions(v) |-> IfacesOf(v)[WiredAs[v][i]].vlan]]

StartLaunches ==
    /\ starting # NoChange
    /\ live' = [v \in Nodes |-> Boots(v, starting[v])]
    /\ stored' = [up |-> TRUE, spec |-> starting]
    /\ starting' = NoChange
    /\ UNCHANGED <<captures, user, moved, crossed>> /\ SetCounts

EndsExperiment ==
    /\ stored.up /\ settings < MaxSettings
    /\ settings' = settings + 1
    /\ stored' = [stored EXCEPT !.up = FALSE]
    /\ live' = [v \in Nodes |-> NotLaunched]
    /\ captures' = {} /\ moved' = {}
    /\ crossed' = (crossed \/ \E r \in SettingUsers : user[r].at \notin {"rest", "capture"})
    /\ UNCHANGED <<starting, user, setFaults>>

----------------------------------------------------------------------------
(* Captures.                                                               *)

\* The VM's details are fetched, the interface found and checked in them,
\* and only then minimega told to capture at that position.
StartsCapture(r, v, pos, name) ==
    /\ user[r] = Rested /\ settings < MaxSettings
    /\ settings' = settings + 1
    /\ stored.up /\ Launched(v) /\ pos \in Positions(v)
    /\ live[v].nets[pos] # "disconnected"
    /\ user' = [user EXCEPT ![r] = [at |-> "capture", vm |-> v, pos |-> pos, name |-> IF v \in moved THEN Unnamed ELSE name]]
    /\ UNCHANGED <<stored, live, captures, starting, moved, crossed, setFaults>>

\* POST .../captures names a position, the command an interface.
StartCapturePost(r, v, pos) == StartsCapture(r, v, pos, Unnamed)
StartCaptureCmd(r, v, name) == StartsCapture(r, v, ResolveInterface(v, name), name)

Capturing(r) ==
    /\ user[r].at = "capture"
    /\ captures' = IF Launched(user[r].vm) /\ \A c \in captures : <<c.vm, c.pos>> # <<user[r].vm, user[r].pos>>
                   THEN captures \cup {[vm |-> user[r].vm, pos |-> user[r].pos, name |-> user[r].name]}
                   ELSE captures
    /\ UpdateFails(r)
    /\ UNCHANGED <<stored, live, starting, moved, crossed>> /\ SetCounts

StopsCaptures(gone) ==
    /\ gone # {} /\ settings < MaxSettings
    /\ settings' = settings + 1
    /\ captures' = captures \ gone
    /\ UNCHANGED <<stored, live, starting, user, moved, crossed, setFaults>>

\* All captures of a VM, or the one at a position.
StopCapturesDelete(v, pos) == StopsCaptures({c \in captures : c.vm = v /\ pos \in {0, c.pos}})
StopCapturesCmd(v, name) == StopsCaptures({c \in captures : c.vm = v /\ c.pos = ResolveInterface(v, name)})

\* Every interface with an address in the subnet, of the VMs asked for. The
\* address shown is the one the topology has for the VLAN.
InSubnet(vs, lans) ==
    {p \in vs \X UNION {Positions(v) : v \in Nodes} :
        /\ Launched(p[1]) /\ p[2] \in Positions(p[1]) /\ live[p[1]].nets[p[2]] \in lans
        /\ NameByVLAN(p[1], live[p[1]].nets[p[2]]) # Unnamed}
CapturesSubnet(vs, lans) ==
    /\ stored.up /\ settings < MaxSettings
    /\ settings' = settings + 1
    /\ captures' = captures \cup {[vm |-> p[1], pos |-> p[2], name |-> Unnamed] :
                                    p \in {q \in InSubnet(vs, lans) : \A c \in captures : <<c.vm, c.pos>> # q}}
    /\ UNCHANGED <<stored, live, starting, user, moved, crossed, setFaults>>
StartSubnetPost(vs, lans) == CapturesSubnet(vs, lans)
StartSubnetCmd(k, lans) == CapturesSubnet({v \in Nodes : Details(v).tags[k] # Untagged[k]}, lans)

\* Stopping ends every capture of a VM with one interface in the subnet.
StopsSubnet(vs, lans) ==
    /\ stored.up
    /\ StopsCaptures({c \in captures : \E p \in InSubnet(vs, lans) : p[1] = c.vm})
StopSubnetPost(vs, lans) == StopsSubnet(vs, lans)
StopSubnetCmd(k, lans) == StopsSubnet({v \in Nodes : Details(v).tags[k] # Untagged[k]}, lans)
StopAllCmd == stored.up /\ StopsCaptures(captures)

----------------------------------------------------------------------------
SettingStep(r) ==
    \/ ReadsSettings(r) \/ ChecksRunning(r) \/ Connects(r) \/ ClearsTags(r) \/ SetsTag(r)
    \/ SaveReads(r) \/ SaveWrites(r) \/ Capturing(r) \/ SettingFails(r)

SettingsNext ==
    \/ \E r \in SettingUsers, c \in SettingChanges :
        \/ UpdateVMs(r, c)
        \/ \E v \in Nodes : UpdateVM(r, v, c) \/ \E k \in TagKeys : SetCmd(r, v, k, c)
    \/ \E r \in SettingUsers : SettingStep(r)
    \/ StartReadsSpec \/ StartLaunches \/ EndsExperiment \/ StopAllCmd
    \/ \E v \in Nodes : Redeploy(v, RedeploySize) \/ StopCapturesDelete(v, 0)
    \/ \E v \in Nodes : \E i \in Positions(v) :
        \/ NetDisconnectCmd(v, i) \/ StopCapturesDelete(v, i) \/ StopCapturesCmd(v, IfacesOf(v)[i].name)
        \/ \E vlan \in LANs : NetConnectCmd(v, i, vlan)
        \/ \E r \in SettingUsers : StartCapturePost(r, v, i) \/ StartCaptureCmd(r, v, IfacesOf(v)[i].name)
    \/ \E lan \in LANs, vs \in SUBSET Nodes : StartSubnetPost(vs, {lan}) \/ StopSubnetPost(vs, {lan})
    \/ \E lan \in LANs, k \in TagKeys : StartSubnetCmd(k, {lan}) \/ StopSubnetCmd(k, {lan})

SettingsSpec == SettingsInit /\ [][SettingsNext]_settingVars

----------------------------------------------------------------------------
\* Updates, starts and stops that do not overlap and do not fail leave the
\* stored experiment and minimega at one about every VM's tags, appended or
\* replaced; and the size a VM was launched with is still the specification's
\* (vm.Update refuses it while the experiment runs), redeploys aside.
SettingsAgree ==
    (stored.up /\ ~crossed /\ setFaults = 0 /\ \A r \in SettingUsers : user[r].at \in {"rest", "capture"}) =>
        \A v \in Nodes :
            /\ live[v].tags = stored.spec[v].tags
            /\ live[v].size \in {stored.spec[v].size, RedeploySize}

\* A capture asked for by an interface's name is on the interface the
\* topology gives that name, whatever order minimega has them in and whatever
\* is disconnected meanwhile (ResolveInterface): unless two interfaces of the
\* VM share a VLAN, or one had been moved to another's when it was asked for.
CapturesNamed ==
    \A c \in captures :
        (c.name # Unnamed /\ \A i, j \in Positions(c.vm) : i # j => IfacesOf(c.vm)[i].vlan # IfacesOf(c.vm)[j].vlan) =>
            IfacesOf(c.vm)[WiredAs[c.vm][c.pos]].name = c.name

\* What the specification says of a VM is what minimega has: both.
SettingsConsistent == SettingsAgree /\ CapturesNamed
=============================================================================
