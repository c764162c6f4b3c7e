--------------------------- MODULE StateOfHealth ---------------------------
(***************************************************************************)
(* One run of the state of health app (api/soh): every host's networking   *)
(* is awaited, then the checks follow one another, each a group of         *)
(* commands run in the guests at once (mm.ScheduleC2ParallelCommand) and   *)
(* awaited together. A command may be repeated, and the answer to one may  *)
(* schedule the next; a verdict that comes after the group was awaited is  *)
(* lost.                                                                   *)
(*                                                                         *)
(* What a command is, and what a verdict says, is left out: an answer is   *)
(* as expected, not yet as expected, or wrong.                             *)
(***************************************************************************)
EXTENDS Integers, Sequences, FiniteSets

CONSTANTS
    Hosts,      \* hosts of the topology that boot and are not skipped
    Dhcp,       \* those whose address comes by DHCP
    Gateways,   \* those with a gateway
    Reachability, \* "off", "sample" or "full"
    Custom,     \* pairs of the custom reachability tests
    Listed,     \* Listed[check]: hosts with tests of the check
    Profiled,   \* Profiled[check]: hosts with tests in the profile of an app
    SohChecks,  \* the checks of this run
    MaxTries    \* bound on repeats of a command

Order == <<"network-config", "reachability", "files", "files-absent", "services", "processes",
           "ports", "docker", "custom", "cpu-load", "flows">>

ASSUME SohAssumption ==
    /\ IsFiniteSet(Hosts) /\ IsFiniteSet(Custom)
    /\ Dhcp \subseteq Hosts /\ Gateways \subseteq Hosts \ Dhcp /\ MaxTries \in Nat
    /\ Reachability \in {"off", "sample", "full"}
    /\ SohChecks \subseteq {Order[i] : i \in DOMAIN Order}

VARIABLES
    turn,        \* the check at hand
    begun,       \* its group was scheduled
    waiting,     \* the group's counter (sync.WaitGroup)
    commands,    \* commands at work
    verdicts,    \* the group's states
    c2Hosts,     \* hosts not known to be without C2
    failedNet,   \* hosts whose networking failed
    addressed,   \* hosts whose address is known
    recorded,    \* verdicts in the stored status
    asked,       \* tests begun in this run
    sohErrs,     \* a check failed
    sohEnd,      \* "none" | "ok" | "errors" | "cancelled"
    ctxDone,     \* the run's context is cancelled
    initialized  \* the stored status says so

sohVars == <<turn, begun, waiting, commands, verdicts, c2Hosts, failedNet, addressed, recorded, asked,
             sohErrs, sohEnd, ctxDone, initialized>>

Test(check, h, t) == [check |-> check, host |-> h, target |-> t]
Command(test) == [test |-> test, tries |-> 0]

SohTypeOK ==
    /\ turn \in 1 .. Len(Order) + 1 /\ begun \in BOOLEAN /\ waiting \in Nat
    /\ \A c \in commands : c.test.host \in Hosts /\ c.tries \in 0 .. MaxTries
    /\ c2Hosts \subseteq Hosts /\ failedNet \subseteq Hosts /\ addressed \subseteq Hosts
    /\ recorded \subseteq asked
    /\ sohErrs \in BOOLEAN /\ ctxDone \in BOOLEAN /\ initialized \in BOOLEAN
    /\ sohEnd \in {"none", "ok", "errors", "cancelled"}
    /\ initialized <=> sohEnd \in {"ok", "errors"}

----------------------------------------------------------------------------
(* Groups.                                                                 *)

\* Scheduled as commands; refused at once, with an error, are the tests of
\* refused.
BeginsTests(tests, refused) ==
    /\ commands' = {Command(t) : t \in tests}
    /\ waiting' = Cardinality(tests)
    /\ verdicts' = {[test |-> t, err |-> "error"] : t \in refused}
    /\ asked' = asked \cup tests \cup refused

\* Fault: a command that is scheduled from another is not counted.
SchedulesUncounted(c, next) == commands' = (commands \ {c}) \cup next /\ waiting' = waiting - 1

\* ScheduleC2ParallelCommand, from within c: the next are added to the group
\* before c is done.
Schedules(c, next) ==
    /\ commands' = (commands \ {c}) \cup next
    /\ waiting' = waiting + Cardinality(next) - 1

Verdict(test, err) == verdicts' = verdicts \cup {[test |-> test, err |-> err]}

\* What follows an answer as expected (isNetworkingConfigured): the address,
\* then the gateway, then whether it is up. DHCP has its own goroutine.
Follows(test) ==
    CASE test.check = "network-config" /\ test.target = "ip" /\ test.host \in Gateways ->
            {Test("network-config", test.host, "gateway")}
      [] test.check = "network-config" /\ test.target = "gateway" ->
            {Test("network-config", test.host, "up")}
      [] OTHER -> {}

\* Those that are asked again until they answer as expected; pingTest,
\* connTest, customTest and the CPU load are asked once.
Repeats(test) == test.check \notin {"reachability", "custom", "cpu-load", "flows"}

SohRest == <<turn, begun, c2Hosts, failedNet, recorded, sohErrs, sohEnd, ctxDone, initialized>>

\* The answer is as expected.
AnsweredWell(c) ==
    LET next == Follows(c.test)
    IN  /\ c \in commands
        /\ Verdict(c.test, "none")
        /\ Schedules(c, {Command(t) : t \in next})
        /\ asked' = asked \cup next
        /\ addressed' = IF c.test.target = "dhcp" THEN addressed \cup {c.test.host} ELSE addressed
        /\ UNCHANGED SohRest

\* Not yet: the command is scheduled once more after a delay.
AnsweredNotYet(c) ==
    /\ c \in commands /\ Repeats(c.test) /\ c.tries < MaxTries /\ ~ctxDone
    /\ Schedules(c, {[c EXCEPT !.tries = @ + 1]})
    /\ UNCHANGED <<verdicts, asked, addressed>> /\ UNCHANGED SohRest

\* The wrong answer, or the time or the retries are up.
AnsweredWrong(c) ==
    /\ c \in commands
    /\ Verdict(c.test, "error")
    /\ Schedules(c, {})
    /\ UNCHANGED <<asked, addressed>> /\ UNCHANGED SohRest

\* ExecC2Command: there is no C2 client in the host.
NotActive(c) ==
    /\ c \in commands /\ c.test.target # "dhcp"
    /\ Verdict(c.test, "c2")
    /\ Schedules(c, {})
    /\ UNCHANGED <<asked, addressed>> /\ UNCHANGED SohRest

\* The delay, or the wait for DHCP, ends with the context: no verdict.
Abandons(c) ==
    /\ c \in commands /\ ctxDone
    /\ Schedules(c, {})
    /\ UNCHANGED <<verdicts, asked, addressed>> /\ UNCHANGED SohRest

----------------------------------------------------------------------------
(* The tests of each check.                                                *)

\* runChecks: networking of every host.
NetworkTests == {Test("network-config", h, IF h \in Dhcp THEN "dhcp" ELSE "ip") : h \in Hosts}

\* A host without C2, or without networking, is not sent a test; nor is one
\* sent to a host without networking. Both are errors.
Tests(check, pairs) == {Test(check, p[1], p[2]) : p \in pairs}
Unfit(p) == p[1] \notin c2Hosts \/ p[1] \in failedNet

\* waitForReachabilityTest, ICMP: to every address, or to one that is fit.
\* A sample may also miss all the fit ones.
PingTargets ==
    CASE Reachability = "off" -> {{}}
      [] Reachability = "full" -> {Hosts \X addressed}
      [] Reachability = "sample" ->
            IF addressed = {} THEN {{}} ELSE {{<<h, f[h]>> : h \in Hosts} : f \in [Hosts -> addressed]}
PingRefused(pairs) == {p \in pairs : p[2] \in failedNet \/ Unfit(p)}

\* The custom ones.
CustomRefused == {p \in Custom : Unfit(p)}

\* The other checks: of hosts in the configuration, as far as they have C2
\* ...
ListedTests(check) == {Test(check, h, "listed") : h \in Listed[check] \cap c2Hosts}

\* waitForFileExistenceTest, for files and files-absent.
FileTests(check) == ListedTests(check)
ServiceTests == ListedTests("services")
ContainerTests == ListedTests("docker")

\* ... and also of hosts in the profile of an app.
ProfiledTests(check) == {Test(check, h, "profile") : h \in Profiled[check] \cap c2Hosts}
ProcTests == ListedTests("processes") \cup ProfiledTests("processes")
PortTests == ListedTests("ports") \cup ProfiledTests("ports")

\* waitForCustomTest; one without a script or an expectation is an error.
CustomTests == ListedTests("custom") \cup ProfiledTests("custom")

\* waitForCPULoad: all hosts with C2.
CPUTests == {Test("cpu-load", h, "load") : h \in c2Hosts}

\* The group of a check.
BeginsGroup(check) ==
    IF check \notin SohChecks \/ check = "flows" THEN BeginsTests({}, {}) ELSE
    CASE check = "reachability" ->
            \E pairs \in PingTargets :
                LET pings == PingRefused(pairs)
                IN  BeginsTests(Tests(check, pairs \ pings) \cup Tests("custom-reachability", Custom \ CustomRefused),
                           Tests(check, pings) \cup Tests("custom-reachability", CustomRefused))
      [] check \in {"files", "files-absent"} -> BeginsTests(FileTests(check), {})
      [] check = "services" -> BeginsTests(ServiceTests, {})
      [] check = "docker" -> BeginsTests(ContainerTests, {})
      [] check = "processes" -> BeginsTests(ProcTests, {})
      [] check = "ports" -> BeginsTests(PortTests, {})
      [] check = "custom" -> \E bad \in SUBSET CustomTests : BeginsTests(CustomTests \ bad, bad)
      [] check = "cpu-load" -> BeginsTests(CPUTests, {})

SohInit ==
    /\ turn = 1 /\ begun = TRUE /\ verdicts = {}
    /\ commands = IF "network-config" \in SohChecks THEN {Command(t) : t \in NetworkTests} ELSE {}
    /\ waiting = Cardinality(commands)
    /\ c2Hosts = Hosts /\ failedNet = {} /\ recorded = {}
    /\ addressed = IF "network-config" \in SohChecks THEN Hosts \ Dhcp ELSE {}
    /\ asked = {c.test : c \in commands}
    /\ sohErrs = FALSE /\ sohEnd = "none" /\ ctxDone = FALSE /\ initialized = FALSE

\* The group is over (wg.Wait): its verdicts are recorded and stored, and a
\* cancelled run returns, without the verdicts on networking.
Records ==
    LET failing == {v \in verdicts : v.err # "none"}
        cut == turn = 1 /\ ctxDone
    IN  /\ sohEnd = "none" /\ begun /\ waiting = 0
        /\ recorded' = IF cut THEN recorded ELSE recorded \cup {v.test : v \in verdicts}
        /\ c2Hosts' = c2Hosts \ {v.test.host : v \in {w \in failing : w.err = "c2"}}
        /\ failedNet' = IF turn = 1 THEN {v.test.host : v \in {w \in failing : w.err = "error"}} ELSE failedNet
        /\ sohErrs' = (sohErrs \/ failing # {})
        /\ sohEnd' = IF ctxDone THEN "cancelled" ELSE "none"
        /\ turn' = turn + 1 /\ begun' = FALSE
        /\ UNCHANGED <<waiting, commands, verdicts, addressed, asked, ctxDone, initialized>>

\* The next check.
BeginsCheck ==
    /\ sohEnd = "none" /\ ~begun /\ turn <= Len(Order)
    /\ BeginsGroup(Order[turn])
    /\ begun' = TRUE
    /\ UNCHANGED <<turn, c2Hosts, failedNet, addressed, recorded, sohErrs, sohEnd, ctxDone, initialized>>

\* writeInitialized, and the result.
SohReturns ==
    /\ sohEnd = "none" /\ turn > Len(Order)
    /\ initialized' = TRUE
    /\ sohEnd' = IF sohErrs THEN "errors" ELSE "ok"
    /\ UNCHANGED <<turn, begun, waiting, commands, verdicts, c2Hosts, failedNet, addressed, recorded, asked, sohErrs, ctxDone>>

\* The experiment is stopped, or the app's trigger cancelled.
SohCancelled ==
    /\ sohEnd = "none" /\ ~ctxDone /\ ctxDone' = TRUE
    /\ UNCHANGED <<turn, begun, waiting, commands, verdicts, c2Hosts, failedNet, addressed, recorded, asked, sohErrs, sohEnd, initialized>>

SohNext ==
    \/ Records \/ BeginsCheck \/ SohReturns \/ SohCancelled
    \/ \E c \in commands :
        AnsweredWell(c) \/ AnsweredNotYet(c) \/ AnsweredWrong(c) \/ NotActive(c) \/ Abandons(c)

SohSpec == SohInit /\ [][SohNext]_sohVars

----------------------------------------------------------------------------

\* No verdict is lost: once a group was awaited, every test that it began,
\* those that a repeat or the answer to another test brought included, has
\* its verdict in the stored status, unless the run was cancelled; nothing
\* of it is still at work, to write to the status of a later check; and a
\* host that failed is not taken for healthy.
VerdictsComplete ==
    /\ sohEnd = "none" /\ ~begun /\ ~ctxDone => asked = recorded /\ commands = {}
    /\ initialized /\ ~ctxDone => asked = recorded
    /\ sohEnd = "ok" => c2Hosts = Hosts /\ failedNet = {}
=============================================================================
