------------------------------ MODULE Placement ------------------------------
(***************************************************************************)
(* Will this diagram run, and where? The preflight checks of a draft (four *)
(* at once, each with a time limit, over what the caller's role may read), *)
(* the listing of disk images that requests share, the disk handlers that  *)
(* change it under them, and the schedulers that place an experiment's VMs *)
(* on the hosts.                                                           *)
(*                                                                         *)
(* Wording, locations of issues and the bridges' names are left out; a     *)
(* missing bridge is only a warning. Time is ticks. What a schedule does   *)
(* to the experiment's record beside other requests is in Lifecycle.       *)
(***************************************************************************)
EXTENDS Integers, Sequences, FiniteSets, FiniteSetsExt

CONSTANTS
    Devices,      \* the diagram's devices, in its order: [external, cpus, mem, ifaces, image, container]
    Aliases,      \* VLAN IDs the diagram's networks ask for
    Scenarios,    \* scenarios the diagram lists
    MeshHosts,        \* the cluster's hosts
    HostSize,     \* [cpus, mem] of each
    Rivals,       \* other experiments,
    RivalIs,      \* [host, cpus, mem, vms, vlan] of each
    Ranges,       \* VLAN ranges the experiment may be given; <<0, 0>> is none
    Roles,        \* what callers may read: sources, and hosts, experiments and so on by name
    Pins,         \* schedules made by hand
    ImageFiles,   \* names of image files
    Askers,       \* requests for the disk images beside the preflight's
    TTL,          \* ticks a listing of disk images stays in use
    LastTick,     \* bounds: time,
    DiskChanges, ClusterChanges,  \* changes of the files, of the rest
    Nowhere

Checks == {"capacity", "network", "disks", "apps"}
Sources == {"hosts", "experiment", "experiments", "disks", "applications"}
\* preflightDevices: an external device is not started.
Started == {n \in 1 .. Len(Devices) : ~Devices[n].external}

ASSUME PlacementAssumption ==
    /\ Nowhere \notin MeshHosts \cup ImageFiles /\ "preflight" \notin Askers /\ Started # {}
    /\ TTL \in Nat \ {0} /\ LastTick \in Nat /\ DiskChanges \in Nat /\ ClusterChanges \in Nat
    /\ Len(Devices) \in Nat /\ \A n \in 1 .. Len(Devices) : Devices[n].mem \in Nat /\ Devices[n].cpus \in Nat
    /\ IsFiniteSet(MeshHosts) /\ \A h \in MeshHosts : HostSize[h].mem \in Nat /\ HostSize[h].cpus \in Nat
    /\ IsFiniteSet(Rivals)
    /\ \A x \in Rivals : RivalIs[x].cpus \in Nat /\ RivalIs[x].mem \in Nat /\ RivalIs[x].vms \in Nat
    /\ Pins \subseteq [1 .. Len(Devices) -> MeshHosts \cup {Nowhere, "gone"}]

VARIABLES
    running,     \* other experiments that run
    vlanRange,   \* the experiment's VLAN range
    scenarios,   \* the listed scenarios' configs: gone, or naming an app the server has or lacks
    role,        \* what the caller may read
    files,       \* image files: container or VM, backing file
    tick,        \* the time
    shown,       \* images that could be listed: in some moment, in every moment of each tick
    lister,      \* the listing under way, and the last that succeeded
    asker,       \* requests for the images
    check,       \* how far each preflight check is
    hostsRead,   \* the hosts, read once for all checks of the request
    verdict,     \* what the report says of each check
    held,        \* what has been true of the environment since the request came
    schedules,   \* host of each VM
    placing,     \* the scheduler at work
    placeChanges \* count (bound)

placementVars == <<running, vlanRange, scenarios, role, files, tick, shown, lister, asker, check, hostsRead,
                   verdict, held, schedules, placing, placeChanges>>
cluster == <<running, vlanRange, scenarios, role>>
disks == <<files, shown>>
listing == <<lister, asker>>
preflight == <<check, hostsRead, verdict, held>>
scheduling == <<schedules, placing>>

----------------------------------------------------------------------------
(* Disk images.                                                            *)

NoFile == [there |-> FALSE, container |-> FALSE, backing |-> Nowhere]

\* disk info follows the backing files: one that is missing hides the image,
\* and so does a loop. So what resolves is in each set that has whatever
\* is there and has no backing file, or one that the set has.
ResolvesIn(f) ==
    LET Follows(S) == \A n \in ImageFiles : f[n].there /\ (f[n].backing = Nowhere \/ f[n].backing \in S) => n \in S
    IN  {n \in ImageFiles : \A S \in SUBSET ImageFiles : Follows(S) => n \in S}
Listable == ResolvesIn(files)
Sees(now) == shown' = [shown EXCEPT ![tick] = [some |-> @.some \cup now, all |-> @.all \cap now]]

ChangesFiles(f) ==
    /\ placeChanges < DiskChanges /\ placeChanges' = placeChanges + 1
    /\ files' = f /\ Sees(ResolvesIn(f))
    /\ UNCHANGED <<tick, lister, asker>> /\ UNCHANGED cluster /\ UNCHANGED preflight /\ UNCHANGED scheduling

\* None of these looks whether the new name is taken, or the old one in use.
UploadDisk(n) == ChangesFiles([files EXCEPT ![n] = [there |-> TRUE, container |-> FALSE, backing |-> Nowhere]])
SnapshotDisk(n, new) ==
    /\ files[n].there /\ n # new
    /\ ChangesFiles([files EXCEPT ![new] = [there |-> TRUE, container |-> FALSE, backing |-> n]])
RebaseDisk(n, backing) ==
    /\ files[n].there /\ files[backing].there /\ n # backing
    /\ ChangesFiles([files EXCEPT ![n].backing = backing])
CloneDisk(n, new) == files[n].there /\ n # new /\ ChangesFiles([files EXCEPT ![new] = files[n]])
RenameDisk(n, new) == files[n].there /\ n # new /\ ChangesFiles([files EXCEPT ![new] = files[n], ![n] = NoFile])
DeleteDisk(n) == files[n].there /\ ChangesFiles([files EXCEPT ![n] = NoFile])

----------------------------------------------------------------------------
(* The shared listing.                                                     *)

NoListing == [began |-> 0, todo |-> {}, found |-> {}]
NotAsking == [at |-> "idle"]

\* A listing that succeeded less than TTL ago is the answer; else the request
\* waits for the one under way, or begins one.
Asks(a) ==
    IF lister.hasLast /\ tick - lister.lastAt < TTL
    THEN /\ asker' = [asker EXCEPT ![a] = [at |-> "answered", asked |-> tick, began |-> lister.last.began,
                                           ended |-> lister.lastAt, images |-> lister.last.found]]
         /\ UNCHANGED lister
    ELSE /\ asker' = [asker EXCEPT ![a] = [at |-> "waiting", asked |-> tick]]
         /\ lister' = IF lister.busy THEN lister
                      ELSE [lister EXCEPT !.busy = TRUE,
                                          !.now = [began |-> tick, todo |-> {n \in ImageFiles : files[n].there}, found |-> {}]]

AsksImages(a) ==
    /\ a \in Askers /\ asker[a] = NotAsking
    /\ Asks(a)
    /\ UNCHANGED <<tick, placeChanges>> /\ UNCHANGED cluster /\ UNCHANGED disks /\ UNCHANGED preflight /\ UNCHANGED scheduling

\* GetImages: the directory is listed at once, then each image is looked at.
ResolveImage(n) ==
    /\ lister.busy /\ n \in lister.now.todo
    /\ LET now == lister.now
           found == IF n \in Listable THEN now.found \cup {n} ELSE now.found
       IN  lister' = [lister EXCEPT !.now = [began |-> now.began, todo |-> now.todo \ {n}, found |-> found]]
    /\ UNCHANGED <<asker, tick, placeChanges>> /\ UNCHANGED cluster /\ UNCHANGED disks /\ UNCHANGED preflight /\ UNCHANGED scheduling

Answered(a, ok) ==
    IF ok THEN [at |-> "answered", asked |-> asker[a].asked, began |-> lister.now.began, ended |-> tick, images |-> lister.now.found]
    ELSE [at |-> "refused"]

\* The listing ends, well or with an error: every request that waits goes on.
Finish(ok) ==
    /\ lister.busy /\ (ok => lister.now.todo = {})
    /\ lister' = IF ok THEN [busy |-> FALSE, now |-> NoListing, hasLast |-> TRUE, last |-> lister.now, lastAt |-> tick]
                 ELSE [lister EXCEPT !.busy = FALSE, !.now = NoListing]
    /\ asker' = [a \in DOMAIN asker |-> IF asker[a].at = "waiting" THEN Answered(a, ok) ELSE asker[a]]
    /\ UNCHANGED <<tick, placeChanges>> /\ UNCHANGED cluster /\ UNCHANGED disks /\ UNCHANGED preflight /\ UNCHANGED scheduling

\* A request waits only so long.
GivesUp(a) ==
    /\ asker[a].at = "waiting" /\ tick > asker[a].asked
    /\ asker' = [asker EXCEPT ![a] = [at |-> "refused"]]
    /\ UNCHANGED <<lister, tick, placeChanges>> /\ UNCHANGED cluster /\ UNCHANGED disks /\ UNCHANGED preflight /\ UNCHANGED scheduling

Ticks ==
    /\ tick < LastTick
    /\ tick' = tick + 1
    /\ shown' = [shown EXCEPT ![tick + 1] = [some |-> Listable, all |-> Listable]]
    /\ UNCHANGED <<files, placeChanges>> /\ UNCHANGED cluster /\ UNCHANGED listing /\ UNCHANGED preflight /\ UNCHANGED scheduling

----------------------------------------------------------------------------
(* What the diagram needs, and what the environment has.                   *)

On(h) == {x \in running : RivalIs[x].host = h}

\* The sum of f over S.
Total(f, S) == MapThenSumSet(LAMBDA x : f[x], S)

\* GetClusterHosts: each host with what its VMs take. It clears and fills a
\* namespace of its own first, so that a call beside it may find no host.
ClusterHosts == [h \in MeshHosts |-> [cpus |-> Total([x \in Rivals |-> RivalIs[x].cpus], On(h)),
                                 mem |-> Total([x \in Rivals |-> RivalIs[x].mem], On(h)),
                                 vms |-> Total([x \in Rivals |-> RivalIs[x].vms], On(h))]]
NoHosts == << >>
HostsRead == {ClusterHosts, NoHosts}

\* No device larger than every host, and memory for all of them together;
\* CPUs are shared, so too few are only a warning.
DeviceFit(n, hs) == \E h \in hs : Devices[n].cpus <= HostSize[h].cpus /\ Devices[n].mem <= HostSize[h].mem
MemOf(ns) == Total([n \in 1 .. Len(Devices) |-> Devices[n].mem], ns)
NeededMem == MemOf(Started)
NeededCPUs == Total([n \in 1 .. Len(Devices) |-> Devices[n].cpus], Started)
CapacityFails(read, hs) ==
    \/ \E n \in Started : ~DeviceFit(n, hs)
    \/ NeededMem > Total([h \in MeshHosts |-> Max({HostSize[h].mem - read[h].mem, 0})], hs)

\* An interface connected on the canvas is on that network, any other on the
\* VLAN its spec names, if any.
HandleNetwork(i) == IF i.network # "" THEN i.network ELSE i.vlan
NetworkNeeds == UNION {{HandleNetwork(Devices[n].ifaces[k]) : k \in 1 .. Len(Devices[n].ifaces)} : n \in Started} \ {""}

\* A range counts when both ends are set.
VLANRangeIssues(r) ==
    /\ r[1] > 0 /\ r[2] > 0
    /\ \/ Cardinality(NetworkNeeds) > Max({r[2] - r[1] + 1, 0})
       \/ \E id \in Aliases : id < r[1] \/ id > r[2]

\* Experiments the caller may not list are not compared.
VLANsInUse == {RivalIs[x].vlan : x \in running \cap role}
ImageFits(n, images) ==
    \/ Devices[n].image = Nowhere
    \/ Devices[n].image \in images /\ files[Devices[n].image].container = Devices[n].container

\* What is so now, whoever looks.
Facts ==
    (IF CapacityFails(ClusterHosts, MeshHosts) THEN {} ELSE {"capacity"})
    \cup (IF VLANRangeIssues(vlanRange) THEN {} ELSE {"range"})
    \cup (IF Aliases \cap VLANsInUse = {} THEN {"aliases"} ELSE {})
    \cup {s \in Scenarios : scenarios[s] = "runs"}

----------------------------------------------------------------------------
(* A preflight request: the checks side by side.                           *)

Unread == "unread"
Idle == [at |-> "idle", notes |-> {}, todo |-> {}]

PreflightDraft ==
    /\ \A c \in Checks : check[c] = Idle /\ verdict[c] = "none"
    /\ check' = [c \in Checks |-> [at |-> "begin", notes |-> {}, todo |-> Scenarios]]
    /\ held' = Facts
    /\ UNCHANGED <<hostsRead, verdict, tick, placeChanges>> /\ UNCHANGED cluster /\ UNCHANGED disks /\ UNCHANGED listing /\ UNCHANGED scheduling

Notes(c, label, notes) == check' = [check EXCEPT ![c] = [at |-> label, notes |-> @.notes \cup notes, todo |-> @.todo]]
Reads == UNCHANGED <<verdict, held, tick, placeChanges>> /\ UNCHANGED cluster /\ UNCHANGED disks /\ UNCHANGED scheduling

\* The hosts are read once, by the first check that needs them
\* (sync.OnceValues), and filtered by the role.
SchedulableHosts == IF hostsRead = {} THEN {{hs} : hs \in HostsRead} ELSE {hostsRead}
Visible(read) == UNION {DOMAIN hs : hs \in read} \cap role
Bridges(read) == Visible(read)

CapacityCheck ==
    /\ check["capacity"].at = "begin"
    /\ IF "hosts" \notin role THEN Notes("capacity", "done", {Unread}) /\ UNCHANGED hostsRead
       ELSE /\ hostsRead' \in SchedulableHosts
            /\ Notes("capacity", "done",
                     IF Visible(hostsRead') = {} THEN {Unread}
                     ELSE IF CapacityFails(CHOOSE hs \in hostsRead' : TRUE, Visible(hostsRead')) THEN {"error"} ELSE {})
    /\ UNCHANGED listing /\ Reads

ExperimentRange == IF "experiment" \in role THEN {vlanRange} ELSE {}

\* The experiment's range, then the running experiments' VLANs, then bridges.
NetworkRange ==
    /\ check["network"].at = "begin"
    /\ Notes("network", "aliases",
             IF ExperimentRange = {} THEN {Unread} ELSE IF \E r \in ExperimentRange : VLANRangeIssues(r) THEN {"error"} ELSE {})
    /\ UNCHANGED hostsRead /\ UNCHANGED listing /\ Reads

AliasesInUse ==
    /\ check["network"].at = "aliases"
    /\ Notes("network", "bridges",
             IF Aliases = {} THEN {} ELSE IF "experiments" \notin role THEN {Unread}
             ELSE IF Aliases \cap VLANsInUse # {} THEN {"error"} ELSE {})
    /\ UNCHANGED hostsRead /\ UNCHANGED listing /\ Reads

MissingBridges ==
    /\ check["network"].at = "bridges"
    /\ IF "hosts" \notin role THEN Notes("network", "done", {Unread}) /\ UNCHANGED hostsRead
       ELSE /\ hostsRead' \in SchedulableHosts
            /\ Notes("network", "done", IF Bridges(hostsRead') = {} THEN {Unread} ELSE {})
    /\ UNCHANGED listing /\ Reads

DiskImages(answer) == IF answer.at = "refused" THEN {} ELSE answer.images \cap role

DisksAsk ==
    /\ check["disks"].at = "begin"
    /\ IF "disks" \notin role THEN Notes("disks", "done", {Unread}) /\ UNCHANGED listing
       ELSE Notes("disks", "asked", {}) /\ Asks("preflight")
    /\ UNCHANGED hostsRead /\ Reads

\* No images at all means that minimega did not answer.
DisksCheck ==
    /\ check["disks"].at = "asked" /\ asker["preflight"].at \in {"answered", "refused"}
    /\ Notes("disks", "done",
             IF DiskImages(asker["preflight"]) = {} THEN {Unread}
             ELSE IF \E n \in Started : ~ImageFits(n, DiskImages(asker["preflight"])) THEN {"error"} ELSE {})
    /\ UNCHANGED hostsRead /\ UNCHANGED listing /\ Reads

\* One scenario after the other; one that does not exist is an error, one
\* that may not be read is not looked up.
MayList == "applications" \in role
ScenarioApps(s) == IF s \in role THEN scenarios[s] ELSE Unread
ScenarioIssue(s) == CASE ScenarioApps(s) = Unread -> {Unread} [] ScenarioApps(s) = "runs" -> {} [] OTHER -> {"error"}
AppsCheck(s) ==
    /\ check["apps"].at = "begin" /\ MayList /\ s \in check["apps"].todo
    /\ check' = [check EXCEPT !["apps"] = [at |-> "begin", notes |-> @.notes \cup ScenarioIssue(s), todo |-> @.todo \ {s}]]
    /\ UNCHANGED hostsRead /\ UNCHANGED listing /\ Reads
AppsDone ==
    /\ check["apps"].at = "begin" /\ (check["apps"].todo = {} \/ ~MayList)
    /\ Notes("apps", "done", IF MayList \/ Scenarios = {} THEN {} ELSE {Unread})
    /\ UNCHANGED hostsRead /\ UNCHANGED listing /\ Reads

\* failed with an error, else unavailable with something unread.
PreflightResult(notes) ==
    IF "error" \in notes THEN "failed" ELSE IF Unread \in notes THEN "unavailable" ELSE "passed"

Reported(c, v) ==
    /\ verdict' = [verdict EXCEPT ![c] = v]
    /\ UNCHANGED <<check, hostsRead, held, tick, placeChanges>> /\ UNCHANGED cluster /\ UNCHANGED disks /\ UNCHANGED listing /\ UNCHANGED scheduling

\* The check's result, or its time is up first: then what it finds later is
\* dropped.
RunPreflightCheck(c) == verdict[c] = "none" /\ check[c].at = "done" /\ Reported(c, PreflightResult(check[c].notes))
CheckTimesOut(c) == verdict[c] = "none" /\ check[c].at \notin {"idle", "done"} /\ Reported(c, "unavailable")

----------------------------------------------------------------------------
(* Schedulers. Each reads the hosts, places the VMs in the topology's order *)
(* on its own copy of their use, and Schedule stores what came of it. The  *)
(* sorts are not stable: of two equal hosts either may come first.         *)

NotPlacing == [by |-> "none"]
PinnedTo(plan, h) == {n \in DOMAIN plan : plan[n] = h}
SchedulerOnly == UNCHANGED <<tick, placeChanges>> /\ UNCHANGED cluster /\ UNCHANGED disks /\ UNCHANGED listing /\ UNCHANGED preflight
FirstVLAN(n) == HandleNetwork(Devices[n].ifaces[1])
VLANs == {FirstVLAN(n) : n \in 1 .. Len(Devices)}

\* vlans: the hosts each VLAN has been given, in order. Without hosts
\* round-robin and subnet-compute index an empty list and the others fail:
\* nothing is stored.
BeginsPlacing(by, use, vlans) ==
    /\ placing = NotPlacing
    /\ placing' = [by |-> by, at |-> "placing", use |-> use, read |-> ClusterHosts, vlans |-> vlans, plan |-> schedules]
    /\ UNCHANGED schedules /\ SchedulerOnly

\* VMs placed by hand count on their hosts.
RoundRobin == BeginsPlacing("round-robin", [h \in MeshHosts |-> [ClusterHosts[h] EXCEPT !.vms = @ + Cardinality(PinnedTo(schedules, h))]], << >>)
Isolate == BeginsPlacing("isolate", ClusterHosts, << >>)
UserScheduler == BeginsPlacing("user", ClusterHosts, << >>)
PinnedIn(v) == {n \in DOMAIN schedules : schedules[n] \in MeshHosts /\ FirstVLAN(n) = v}
SubnetCompute ==
    LET Orders == UNION {Bijection(1 .. Cardinality(PinnedIn(v)), PinnedIn(v)) : v \in VLANs}
    IN  \E order \in [VLANs -> Orders] :
            /\ \A v \in VLANs : order[v] \in Bijection(1 .. Cardinality(PinnedIn(v)), PinnedIn(v))
            /\ BeginsPlacing("subnet-compute",
                   [h \in MeshHosts |-> [ClusterHosts[h] EXCEPT !.mem = @ + MemOf(PinnedTo(schedules, h))]],
                   [v \in VLANs |-> [k \in DOMAIN order[v] |-> schedules[order[v][k]]]])

Waiting == {n \in Started : placing.plan[n] = Nowhere}
NextVM == Min(Waiting)
StillPlacing(by) == placing.by = by /\ placing.at = "placing" /\ Waiting # {}
Least(f) == {h \in MeshHosts : \A g \in MeshHosts : placing.use[h][f] <= placing.use[g][f]}
Places(h, f, amount, vlans) ==
    /\ placing' = [placing EXCEPT !.plan[NextVM] = h, !.use[h][f] = @ + amount, !.vlans = vlans]
    /\ UNCHANGED schedules /\ SchedulerOnly

\* Fault: the copy of the hosts' use is not brought up to date.
RobinForgets(h) == StillPlacing("round-robin") /\ h \in Least("vms") /\ Places(h, "vms", 0, placing.vlans)

\* The host with the fewest VMs.
PlacesRobin(h) == StillPlacing("round-robin") /\ h \in Least("vms") /\ Places(h, "vms", 1, placing.vlans)

\* The first host given to the VM's first VLAN that has the memory; else the
\* one with the least memory committed, whether it has the memory or not.
PlacesBySubnet(h) ==
    /\ StillPlacing("subnet-compute")
    /\ LET v == FirstVLAN(NextVM)
           given == placing.vlans[v]
           roomy == {k \in 1 .. Len(given) : placing.use[given[k]].mem + Devices[NextVM].mem < HostSize[given[k]].mem}
       IN IF roomy # {} THEN h = given[Min(roomy)] /\ Places(h, "mem", Devices[NextVM].mem, placing.vlans)
          ELSE h \in Least("mem") /\ Places(h, "mem", Devices[NextVM].mem, [placing.vlans EXCEPT ![v] = Append(@, h)])

AllOn(h) ==
    /\ placing' = [placing EXCEPT !.at = "done", !.plan = [n \in DOMAIN @ |-> IF n \in Started THEN h ELSE @[n]]]
    /\ UNCHANGED schedules /\ SchedulerOnly

\* The host of the first VM by hand if nothing runs there; else an unused one
\* on which everything fits, by unallocated memory; else any unused one.
FirstPin == placing.plan[Min(Started)]
Unused == {h \in MeshHosts : placing.use[h].vms = 0}
Fitting == {h \in Unused : NeededMem + placing.use[h].mem < HostSize[h].mem /\ NeededCPUs + placing.use[h].cpus < HostSize[h].cpus}
FreeMem(h) == HostSize[h].mem - placing.use[h].mem
MostFree(hs) == {h \in hs : \A g \in hs : FreeMem(g) <= FreeMem(h)}
PlacesIsolated(h) ==
    /\ placing.by = "isolate" /\ placing.at = "placing"
    /\ h \in IF FirstPin \in Unused THEN {FirstPin} ELSE MostFree(IF Fitting # {} THEN Fitting ELSE Unused)
    /\ AllOn(h)

\* A user's program answers what it likes.
PlacesByUser(h) == placing.by = "user" /\ placing.at = "placing" /\ AllOn(h)

\* The experiment's record is written; with an error it stays as it was.
Schedule ==
    /\ placing.by # "none"
    /\ \/ /\ placing.at = "done" \/ (placing.by \in {"round-robin", "subnet-compute"} /\ Waiting = {})
          /\ schedules' = placing.plan
       \/ placing.by = "isolate" /\ placing.at = "placing" /\ Unused = {} /\ UNCHANGED schedules
    /\ placing' = NotPlacing
    /\ SchedulerOnly

----------------------------------------------------------------------------
(* The environment, and the whole.                                         *)

RivalChanges(x) ==
    /\ placeChanges < ClusterChanges /\ placeChanges' = placeChanges + 1
    /\ running' = IF x \in running THEN running \ {x} ELSE running \cup {x}
    /\ UNCHANGED <<vlanRange, scenarios, role, tick, check, hostsRead, verdict>>
    /\ UNCHANGED disks /\ UNCHANGED listing /\ UNCHANGED scheduling
    /\ held' = held \cup Facts'

ConfigChanges ==
    /\ placeChanges < ClusterChanges /\ placeChanges' = placeChanges + 1
    /\ \/ vlanRange' \in Ranges \ {vlanRange} /\ UNCHANGED scenarios
       \/ UNCHANGED vlanRange /\ \E s \in Scenarios, to \in {"gone", "runs", "lacks"} : scenarios' = [scenarios EXCEPT ![s] = to]
    /\ UNCHANGED <<running, role, tick, check, hostsRead, verdict>>
    /\ UNCHANGED disks /\ UNCHANGED listing /\ UNCHANGED scheduling
    /\ held' = held \cup Facts'

PlacementTypeOK ==
    /\ running \subseteq Rivals /\ vlanRange \in Ranges
    /\ lister.busy \in BOOLEAN /\ lister.now.todo \subseteq ImageFiles
    /\ \A c \in Checks : verdict[c] \in {"none", "passed", "failed", "unavailable"}
    /\ schedules \in [1 .. Len(Devices) -> MeshHosts \cup {Nowhere, "gone"}]
    /\ tick \in 0 .. LastTick /\ placeChanges <= DiskChanges + ClusterChanges

PlacementInit ==
    /\ running = {} /\ vlanRange \in Ranges /\ role \in Roles
    /\ scenarios = [s \in Scenarios |-> "runs"]
    /\ files = [n \in ImageFiles |-> IF n \in {Devices[d].image : d \in 1 .. Len(Devices)}
                                     THEN [there |-> TRUE, container |-> FALSE, backing |-> Nowhere] ELSE NoFile]
    /\ tick = 0 /\ shown = [t \in 0 .. LastTick |-> [some |-> Listable, all |-> Listable]]
    /\ lister = [busy |-> FALSE, now |-> NoListing, hasLast |-> FALSE, last |-> NoListing, lastAt |-> 0]
    /\ asker = [a \in Askers \cup {"preflight"} |-> NotAsking]
    /\ check = [c \in Checks |-> Idle] /\ hostsRead = {} /\ verdict = [c \in Checks |-> "none"] /\ held = {}
    /\ schedules \in Pins /\ placing = NotPlacing /\ placeChanges = 0

DiskSteps ==
    \/ \E n \in ImageFiles : UploadDisk(n) \/ DeleteDisk(n) \/ ResolveImage(n)
    \/ \E n, m \in ImageFiles : SnapshotDisk(n, m) \/ RebaseDisk(n, m) \/ CloneDisk(n, m) \/ RenameDisk(n, m)
    \/ \E a \in Askers \cup {"preflight"} : AsksImages(a) \/ GivesUp(a)
    \/ Finish(TRUE) \/ Finish(FALSE) \/ Ticks

\* The disks check goes with the disks, the others with the cluster.
DisksPreflight == PreflightDraft \/ DisksAsk \/ DisksCheck \/ RunPreflightCheck("disks") \/ CheckTimesOut("disks")

PreflightSteps ==
    \/ PreflightDraft \/ CapacityCheck \/ NetworkRange \/ AliasesInUse \/ MissingBridges
    \/ AppsDone \/ ConfigChanges
    \/ \E s \in Scenarios : AppsCheck(s)
    \/ \E c \in Checks \ {"disks"} : RunPreflightCheck(c) \/ CheckTimesOut(c)
    \/ \E x \in Rivals : RivalChanges(x)

SchedulerSteps ==
    \/ RoundRobin \/ SubnetCompute \/ Isolate \/ UserScheduler \/ Schedule
    \/ \E h \in MeshHosts : PlacesRobin(h) \/ PlacesBySubnet(h) \/ PlacesIsolated(h) \/ PlacesByUser(h)
    \/ \E x \in Rivals : RivalChanges(x)

PlacementNext == DiskSteps \/ DisksPreflight \/ PreflightSteps \/ SchedulerSteps
PlacementSpec == PlacementInit /\ [][PlacementNext]_placementVars

----------------------------------------------------------------------------
\* A request is told of every image that could be listed all the time from
\* the beginning of the listing it got to its answer, and of none that never
\* could; and that listing ended less than TTL before it asked
\* (builderDiskLister.images): whoever shared or cached it, and whatever
\* failed before.
ListingFresh ==
    \A a \in DOMAIN asker : asker[a].at = "answered" =>
        /\ asker[a].asked - asker[a].ended < TTL
        /\ \A n \in ImageFiles :
            /\ n \in asker[a].images => \E t \in asker[a].began .. asker[a].ended : n \in shown[t].some
            /\ (\A t \in asker[a].began .. asker[a].ended : n \in shown[t].all) => n \in asker[a].images

\* A check is reported as passed only if each thing it checks was so at some
\* moment since the request came, or for images since the listing it was
\* given began: whatever may not be read, changes between two reads, or is
\* answered late (RunPreflight).
PassedWhenTrue ==
    /\ verdict["capacity"] = "passed" => "capacity" \in held
    /\ verdict["network"] = "passed" => {"range", "aliases"} \subseteq held
    /\ verdict["apps"] = "passed" => Scenarios \subseteq held
    /\ verdict["disks"] = "passed" =>
        \A n \in Started : Devices[n].image # Nowhere =>
            \E t \in asker["preflight"].began .. asker["preflight"].ended : Devices[n].image \in shown[t].some

\* What the schedulers promise, against the hosts as they read them: VMs
\* placed by hand stay unless the experiment is isolated; no host that
\* round-robin gave a VM is two VMs ahead of another; a VM that
\* subnet-compute put apart from a host of its VLAN did not fit there; an
\* isolated experiment is on one host on which nothing ran.
SchedulesFair ==
    placing.by # "none" =>
        LET given == {n \in Started : schedules[n] = Nowhere /\ placing.plan[n] # Nowhere}
            vms(h) == placing.read[h].vms + Cardinality(PinnedTo(placing.plan, h))
            mem(h) == placing.read[h].mem + MemOf(PinnedTo(placing.plan, h))
        IN /\ placing.by \in {"round-robin", "subnet-compute"} =>
                \A n \in DOMAIN schedules : schedules[n] # Nowhere => placing.plan[n] = schedules[n]
           /\ placing.by = "round-robin" => \A n \in given, h \in MeshHosts : vms(placing.plan[n]) <= vms(h) + 1
           /\ placing.by = "subnet-compute" =>
                \A n, m \in given : m < n /\ FirstVLAN(m) = FirstVLAN(n) /\ placing.plan[m] # placing.plan[n] =>
                    \/ mem(placing.plan[m]) + Devices[n].mem >= HostSize[placing.plan[m]].mem
                    \/ \E k \in DOMAIN placing.plan \ {m} : FirstVLAN(k) = FirstVLAN(n) /\ placing.plan[k] = placing.plan[n] /\ k # n
           /\ placing.by = "isolate" /\ placing.at = "done" =>
                \E h \in MeshHosts : placing.read[h].vms = 0 /\ \A n \in Started : placing.plan[n] = h

\* What is told of a placement, and the placement, are right of what was
\* read: all three.
PlacementSound == ListingFresh /\ PassedWhenTrue /\ SchedulesFair
=============================================================================
