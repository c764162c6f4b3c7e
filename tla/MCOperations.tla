---------------------------- MODULE MCOperations ----------------------------
(***************************************************************************)
(* What users do with an experiment, on small instances: VM operations and *)
(* settings, a scorch pipeline, its terminals and output, a state of       *)
(* health run, guest commands and mounts, and the placement of VMs with    *)
(* the disks it looks at. They share no variable, so each is explored by   *)
(* itself: `focus` names the one that moves, the others stay at rest.      *)
(***************************************************************************)
EXTENDS VirtualMachines, Scorch, StateOfHealth, Guests, VMSettings, Terminals, Placement, TLC

CONSTANTS x1, x2  \* experiments that run beside

VARIABLE focus

-----------------------------------------------------------------------------
(* The pipeline: a tap, a pause in the background, and a nested loop with  *)
(* a break and a command.                                                  *)

MCPlan == << [configure |-> <<>>, start |-> <<"t", "p">>, stop |-> <<"t">>, cleanup |-> <<>>],
             [configure |-> <<>>, start |-> <<"k">>, stop |-> <<"u">>, cleanup |-> <<>>] >>

MCKind == [u |-> "user", t |-> "tap", p |-> "pause", k |-> "break"]

-----------------------------------------------------------------------------
(* The health checks: each of them, spread over two hosts.                 *)

MCChecks == {Order[i] : i \in DOMAIN Order}

MCListed == [c \in MCChecks |-> IF c \in {"files", "ports"} THEN {"h1", "h2"}
                                ELSE IF c = "custom" THEN {"h1"} ELSE {}]

MCProfiled == [c \in MCChecks |-> IF c = "ports" THEN {"h1"} ELSE {}]

MCCustom == {<<"h1", "h2">>}

-----------------------------------------------------------------------------
(* The settings: a VM with two interfaces, which minimega lists the other  *)
(* way around, and one with one; changes of size, of tags that are         *)
(* replaced or appended, of an interface's network.                        *)

MCTopology == << [vm |-> "a", ifaces |-> <<[name |-> "if0", vlan |-> "x"], [name |-> "if1", vlan |-> "y"]>>],
                 [vm |-> "b", ifaces |-> <<[name |-> "if0", vlan |-> "x"]>>] >>

MCWiredAs == [v \in {"a", "b"} |-> IF v = "a" THEN <<2, 1>> ELSE <<1>>]

MCUntagged == [k \in {"k", "l"} |-> "-"]

Tagged(k, t, append, net) ==
    [size |-> NoChange, tags |-> [MCUntagged EXCEPT ![k] = t], append |-> append, net |-> net]

MCChanges ==
    {[size |-> 3, tags |-> NoChange, append |-> FALSE, net |-> NoChange],
     [Tagged("k", "p", FALSE, NoChange) EXCEPT !.size = 9],
     Tagged("l", "p", TRUE, NoChange), Tagged("k", "q", FALSE, NoChange),
     Tagged("k", "p", TRUE, [pos |-> 1, vlan |-> "y"]),
     [size |-> NoChange, tags |-> NoChange, append |-> FALSE, net |-> [pos |-> 1, vlan |-> "disconnected"]]}

-----------------------------------------------------------------------------
(* The placement: VMs with one and two networks, an external device and a  *)
(* container, on two hosts that other experiments may use; requests that   *)
(* may read everything, or not a host, an experiment, a scenario.          *)

Device(cpus, mem, ifaces, image) ==
    [external |-> FALSE, cpus |-> cpus, mem |-> mem, ifaces |-> ifaces, image |-> image, container |-> FALSE]
To(network, vlan) == [network |-> network, vlan |-> vlan]

MCDevices == << Device(1, 2, <<To("a", "b")>>, "base"),
                Device(1, 1, <<To("", "a"), To("", "")>>, "own"),
                [Device(9, 9, <<To("", "b")>>, Nowhere) EXCEPT !.external = TRUE],
                [Device(2, 2, <<To("", "b")>>, Nowhere) EXCEPT !.container = TRUE] >>

MCHostSize == [h \in MeshHosts |-> IF h = "h1" THEN [cpus |-> 4, mem |-> 6] ELSE [cpus |-> 5, mem |-> 4]]

MCRivalIs == [x \in Rivals |-> IF x = x1 THEN [host |-> "h1", cpus |-> 1, mem |-> 3, vms |-> 1, vlan |-> 7]
                               ELSE [host |-> "h2", cpus |-> 1, mem |-> 4, vms |-> 2, vlan |-> 9]]

Everything == Sources \cup MeshHosts \cup Rivals \cup Scenarios \cup ImageFiles
MCRoles == {Everything, Everything \ {x1, "h2", "s"}, Everything \ {"experiments", "t", "h2"}}

Unpinned == [n \in 1 .. 4 |-> Nowhere]
MCPins == {Unpinned, [Unpinned EXCEPT ![2] = "h1", ![3] = "h2"], [Unpinned EXCEPT ![1] = "h2", ![4] = "gone"]}

MCRanges == {<<0, 0>>, <<7, 8>>}

-----------------------------------------------------------------------------
MCInit ==
    /\ focus \in {"vms", "scorch", "soh", "guests", "settings",
                  "terminal", "output", "consoles", "disks", "preflight", "schedule"}
    /\ VMsInit /\ ScorchInit /\ SohInit /\ GuestsInit
    /\ SettingsInit /\ TerminalsInit /\ PlacementInit
    /\ focus # "schedule" => schedules = Unpinned
    /\ focus # "preflight" => (vlanRange = <<0, 0>> /\ role = Everything)

MCNext ==
    /\ UNCHANGED focus
    /\ \/ focus = "vms" /\ VMsNext
          /\ UNCHANGED <<scorchVars, sohVars, guestVars, settingVars, terminalsVars, placementVars>>
       \/ focus = "scorch" /\ ScorchNext
          /\ UNCHANGED <<vmVars, sohVars, guestVars, settingVars, terminalsVars, placementVars>>
       \/ focus = "soh" /\ SohNext
          /\ UNCHANGED <<vmVars, scorchVars, guestVars, settingVars, terminalsVars, placementVars>>
       \/ focus = "guests" /\ GuestsNext
          /\ UNCHANGED <<vmVars, scorchVars, sohVars, settingVars, terminalsVars, placementVars>>
       \/ focus = "settings" /\ SettingsNext
          /\ UNCHANGED <<vmVars, scorchVars, sohVars, guestVars, terminalsVars, placementVars>>
       \/ /\ \/ focus = "terminal" /\ TerminalSteps
             \/ focus = "output" /\ ComponentSteps
             \/ focus = "consoles" /\ ConsoleSteps
          /\ UNCHANGED <<vmVars, scorchVars, sohVars, guestVars, settingVars, placementVars>>
       \/ /\ \/ focus = "disks" /\ (DiskSteps \/ DisksPreflight)
             \/ focus = "preflight" /\ PreflightSteps
             \/ focus = "schedule" /\ SchedulerSteps
          /\ UNCHANGED <<vmVars, scorchVars, sohVars, guestVars, settingVars, terminalsVars>>

MCSpec ==
    MCInit /\ [][MCNext]_<<vmVars, scorchVars, sohVars, guestVars, settingVars,
                          terminalsVars, placementVars, focus>>

\* The types of all of them, each where it moves.
OpsTypeOK ==
    /\ focus = "vms" => VMsTypeOK
    /\ focus = "scorch" => ScorchTypeOK
    /\ focus = "soh" => SohTypeOK
    /\ focus = "guests" => GuestsTypeOK
    /\ focus = "settings" => SettingsTypeOK
    /\ focus \in {"terminal", "output", "consoles"} => TerminalsTypeOK
    /\ focus \in {"disks", "preflight", "schedule"} => PlacementTypeOK

\* VMs, guests, executions and the clients of a terminal are the same model
\* values, never compared with each other, so that one permutation serves
\* them all; and so are the requests of VMs, guests and settings, viewers and
\* consoles.
Symmetric == Permutations(VMs) \cup Permutations(VMRequests)

\* Three VM operations or changes of settings are explored while nothing
\* fails and no lock expires, two of them when something does; and a reset of
\* the experiment while no start has replaced the canceler of another.
Bounded ==
    /\ vmFaults + expiries > 0 => vmOps <= 2
    /\ setFaults > 0 => settings <= 2
    /\ resets = 0 \/ overwritten = {}
=============================================================================
