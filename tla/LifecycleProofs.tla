--------------------------- MODULE LifecycleProofs ---------------------------
(***************************************************************************)
(* Proofs about Lifecycle, for any number of requests and starts, whatever *)
(* they ask for and whatever fails.                                        *)
(***************************************************************************)
EXTENDS Lifecycle, SequenceTheorems, TLAPS

Labels == RequestLabels \cup LauncherLabels \cup FinisherLabels \cup PeriodicLabels
Memory == Status \cup {NoConfig}

----------------------------------------------------------------------------
(* Types. A request's label tells which phase it is in, and so what its    *)
(* plan begins with; a plan that makes a start has the start's number.     *)

StartLabels == {"spawn", "startWait", "register", "periodic"}
CliLabels == {"cliGet", "cliWait"}

\* A plan: a restart that reads the experiment again goes on to a locked phase.
WellFormed(plan) ==
    /\ plan \in Seq(Phases)
    /\ \A i \in 1 .. Len(plan) :
        plan[i] = "reread" => i + 1 \in 1 .. Len(plan) /\ plan[i + 1] \in LockStatuses

\* The label, the plan and the start of a request agree.
Agrees(label, plan, n) ==
    /\ label # "idle" => plan # <<>>
    /\ label \in {"add", "lookup"} => Head(plan) \in LockStatuses
    /\ label = "reread" => Head(plan) = "reread"
    /\ label \in StartLabels => Head(plan) = "start"
    /\ label \in CliLabels => Head(plan) = "cli"
    /\ \A i \in 1 .. Len(plan) : plan[i] \in {"start", "cli"} => n \in Starts

Typed ==
    /\ LockTypeOK
    /\ status \in Memory
    /\ vms \in 0 .. MaxStarts
    /\ cancelers \subseteq Contexts /\ waiter \in 0 .. MaxStarts /\ cancelled \subseteq Contexts
    /\ groupLost \in BOOLEAN /\ overlapped \in BOOLEAN
    /\ pc \in [Procs -> Labels]
    /\ exp \in [Procs -> Memory]
    /\ run \in [Requests -> 0 .. MaxStarts]
    /\ taken \in [Requests -> 0 .. MaxStarts]
    /\ starts \in 0 .. MaxStarts
    /\ sync \subseteq Starts

Planned ==
    /\ todo \in [Requests -> Seq(Phases)]
    /\ \A r \in Requests : WellFormed(todo[r]) /\ Agrees(pc[r], todo[r], run[r])

TInv == Typed /\ Planned

----------------------------------------------------------------------------
(* The wait groups. Without two locked phases at once, the periodic runs   *)
(* of a start are in the wait group that the server keeps, or in the one   *)
(* that a stop has taken and waits for.                                    *)

\* At most one request is in a locked phase.
OneLocked ==
    ~overlapped => \A q, r \in Requests : Locked(q) /\ Locked(r) => q = r

\* The command line's starts are known as such while they are awaited.
CliKnown == \A r \in Requests : pc[r] = "cliWait" => run[r] \in sync

GroupsKept ==
    ~overlapped /\ ~groupLost =>
        \A n \in Starts \ sync :
            Live(n) => waiter = n \/ \E r \in Requests : pc[r] = "wait" /\ taken[r] = n

\* A stop has emptied the place of the wait group; a start has filled it.
PlaceEmptied ==
    ~overlapped => \A r \in Requests : pc[r] \in {"wait"} \cup StopLabels => waiter = 0
PlaceFilled ==
    ~overlapped => \A r \in Requests : pc[r] = "periodic" => waiter = run[r]

Coord == OneLocked /\ CliKnown /\ GroupsKept /\ PlaceEmptied /\ PlaceFilled

Inv == TInv /\ Coord

----------------------------------------------------------------------------
(* VMs without a recorded start. The server's creates, deletes, starts and *)
(* stops alone, without an app; stops wait until starts have finished, and *)
(* minimega clears what it is asked to. Under these hypotheses a start is  *)
(* the only locked phase while it deploys, and the goroutine that finishes *)
(* it works on the start that is recorded.                                 *)

BasicOps == {"create", "delete", "start", "stop"}

Undisturbed == App = FALSE /\ Patient /\ "clear" \notin Faults /\ Ops \subseteq BasicOps

StopTail == {"stopGet", "stopClear", "stopPut", "stopPutErr"}
StopPhase == {"take", "wait"} \cup StopTail
Deploys == {"pre1", "launch", "fork", "stamp", "update"}
Answering == {"fetch", "sendOk", "sendNone"}
Awaited == {"track", "startGet", "failed", "sendErr"} \cup Deploys \cup Answering

BasicPlans == \A r \in Requests : todo[r] = <<>> \/ \E op \in BasicOps : todo[r] = <<op>>

BasicLabels ==
    /\ \A r \in Requests :
        pc[r] \in {"idle", "add", "lookup", "create", "delCheck", "delDo", "spawn", "startWait",
                   "register", "periodic", "unlockOk", "unlockErr"} \cup StopPhase
    /\ \A n \in Starts :
        /\ pc[Launcher(n)] \in {"none", "resend", "done"} \cup Awaited
        /\ pc[Finisher(n)] \in {"none", "delay", "delayFailed", "post", "report", "done"} \cup StopTail
        /\ pc[Periodic(n)] = "none"
    /\ sync = {}

\* A start is made by one request, which has its goroutines still to spawn.
StartsFresh ==
    /\ \A r \in Requests : run[r] <= starts
    /\ \A q, r \in Requests : run[q] = run[r] /\ run[q] # 0 => q = r
    /\ \A n \in Starts : n > starts => pc[Launcher(n)] = "none" /\ pc[Finisher(n)] = "none"
    /\ \A r \in Requests :
        pc[r] \in {"add", "lookup", "spawn"} /\ run[r] # 0 =>
            pc[Launcher(run[r])] = "none" /\ pc[Finisher(run[r])] = "none"

Basic == BasicPlans /\ BasicLabels /\ StartsFresh

\* A start in progress has a request that waits for it, under the lock.
LauncherAwaited ==
    \A n \in Starts : pc[Launcher(n)] \in Awaited => \E r \in Requests : pc[r] = "startWait" /\ run[r] = n

\* What is deployed is not recorded as running yet.
DeploysStopped ==
    \A n \in Starts :
        /\ pc[Launcher(n)] \in Deploys => status = 0
        /\ pc[Launcher(n)] = "update" => exp[Launcher(n)] = n

\* The start that a goroutine finishes is about to be recorded, or recorded.
FinishesRecorded ==
    \A n \in Starts : pc[Finisher(n)] \notin {"none", "done"} =>
        \/ pc[Launcher(n)] \in {"stamp", "update"} /\ pc[Finisher(n)] \notin StopTail
        \/ pc[Launcher(n)] \in Answering \cup {"done"} /\ status = n

\* A stop of the server finds the starts finished.
StopsAlone ==
    \A r \in Requests, n \in Starts : pc[r] \in StopPhase => pc[Finisher(n)] \in {"none", "done"}

\* What a stop is about to record has happened; what is deleted is stopped.
StopsCleared ==
    \A a \in Requests \cup Finishers : pc[a] \in {"stopPut", "stopPutErr"} => vms = 0
DeletesStopped == \A r \in Requests : pc[r] = "delDo" => ~IsRunning

Deployed == vms # 0 => IsRunning \/ \E n \in Starts : pc[Launcher(n)] \in {"fork", "stamp", "update"}

Orderly ==
    ~overlapped =>
        /\ LauncherAwaited /\ DeploysStopped /\ FinishesRecorded
        /\ StopsAlone /\ StopsCleared /\ DeletesStopped /\ Deployed

OInv == Basic /\ Orderly

----------------------------------------------------------------------------
(* Labels, phases and plans.                                               *)

LEMMA Processes ==
    /\ \A n \in Starts : Launcher(n) \in Procs /\ Finisher(n) \in Procs /\ Periodic(n) \in Procs
    /\ \A n \in Starts :
        Launcher(n) \notin Requests /\ Finisher(n) \notin Requests /\ Periodic(n) \notin Requests
    /\ Requests \subseteq Procs /\ Finishers \subseteq Procs
    /\ Requests \cap Finishers = {}
BY ProcsAssumption DEF Procs, Launchers, Finishers, Periodics

LEMMA Entries ==
    ASSUME NEW phase \in Phases
    PROVE  /\ EntryOf[phase] \in {"add", "updGet", "schedCheck", "trigGet", "cliGet", "reread", "deferred"}
           /\ EntryOf[phase] = "add" => phase \in LockStatuses
           /\ EntryOf[phase] = "reread" => phase = "reread"
           /\ EntryOf[phase] = "cliGet" => phase = "cli"
BY DEF EntryOf, Phases, LockStatuses

LEMMA Insides ==
    ASSUME NEW phase \in LockStatuses
    PROVE  /\ InsideOf[phase] \in {"create", "create1", "delCheck", "spawn", "take", "wfPut"}
           /\ InsideOf[phase] = "spawn" => phase = "start"
BY DEF InsideOf, LockStatuses

LEMMA LabelsOfPhases ==
    /\ {"add", "updGet", "schedCheck", "trigGet", "cliGet", "reread", "deferred", "idle"} \subseteq Labels
    /\ {"create", "create1", "delCheck", "spawn", "take", "wfPut"} \subseteq Labels
BY DEF Labels, RequestLabels, LockedLabels

\* The rest of a plan is a plan.
LEMMA RestOfPlan ==
    ASSUME NEW plan, WellFormed(plan), plan # <<>>
    PROVE  /\ Head(plan) \in Phases /\ Len(plan) \in Nat \ {0} /\ Head(plan) = plan[1]
           /\ WellFormed(Tail(plan))
           /\ Len(Tail(plan)) = Len(plan) - 1
           /\ \A i \in 1 .. Len(Tail(plan)) : Tail(plan)[i] = plan[i + 1]
           /\ Head(plan) = "reread" => Tail(plan) # <<>> /\ Head(Tail(plan)) \in LockStatuses
<1>1. /\ plan \in Seq(Phases) /\ Head(plan) \in Phases /\ Len(plan) \in Nat \ {0}
      /\ Head(plan) = plan[1]
    BY DEF WellFormed
<1>2. Tail(plan) \in Seq(Phases) /\ Len(Tail(plan)) = Len(plan) - 1
    BY <1>1
<1>3. \A i \in 1 .. Len(Tail(plan)) : Tail(plan)[i] = plan[i + 1]
    BY <1>1
<1>4. \A i \in 1 .. Len(Tail(plan)) : i + 1 \in 1 .. Len(plan)
    BY <1>1, <1>2
<1>5. WellFormed(Tail(plan))
    <2> SUFFICES ASSUME NEW i \in 1 .. Len(Tail(plan)), Tail(plan)[i] = "reread"
                 PROVE  i + 1 \in 1 .. Len(Tail(plan)) /\ Tail(plan)[i + 1] \in LockStatuses
        BY <1>2 DEF WellFormed
    <2>1. plan[i + 1] = "reread" /\ i + 1 \in 1 .. Len(plan)
        BY <1>3, <1>4
    <2>2. (i + 1) + 1 \in 1 .. Len(plan) /\ plan[(i + 1) + 1] \in LockStatuses
        BY <2>1 DEF WellFormed
    <2>3. i + 1 \in 1 .. Len(Tail(plan))
        BY <1>1, <1>2, <2>2
    <2>. QED BY <1>3, <2>2, <2>3
<1>6. Head(plan) = "reread" => Tail(plan) # <<>> /\ Head(Tail(plan)) \in LockStatuses
    <2> SUFFICES ASSUME Head(plan) = "reread"
                 PROVE  Tail(plan) # <<>> /\ Head(Tail(plan)) \in LockStatuses
        OBVIOUS
    <2>1. 1 + 1 \in 1 .. Len(plan) /\ plan[1 + 1] \in LockStatuses
        BY <1>1 DEF WellFormed
    <2>2. 1 \in 1 .. Len(Tail(plan)) /\ Tail(plan)[1] = plan[1 + 1]
        BY <1>1, <1>2, <1>3, <2>1
    <2>3. Tail(plan) # <<>>
        <3>1. Len(Tail(plan)) # 0
            BY <1>1, <1>2, <2>2
        <3>2. Len(<<>>) = 0
            OBVIOUS
        <3>. QED BY <3>1, <3>2
    <2>4. Head(Tail(plan)) = Tail(plan)[1]
        BY <1>2, <2>3
    <2>. QED BY <2>1, <2>2, <2>3, <2>4
<1>. QED BY <1>1, <1>2, <1>3, <1>5, <1>6

\* A plan that a request is given is one.
LEMMA PlansAreWellFormed ==
    ASSUME NEW plan \in Plans
    PROVE  WellFormed(plan) /\ plan # <<>>
<1>1. CASE \E op \in Ops \ {"workflow"} : plan = <<op>>
    <2>1. PICK op \in Ops \ {"workflow"} : plan = <<op>>
        BY <1>1
    <2>2. op \in Phases /\ op # "reread"
        BY OpsAssumption DEF AllOps, Phases
    <2>3. plan \in Seq(Phases) /\ Len(plan) = 1 /\ plan[1] = op
        BY <2>1, <2>2
    <2>. QED BY <2>2, <2>3 DEF WellFormed
<1>2. CASE plan \in WorkflowPlans
    <2>1. CASE plan = <<"create">>
        BY <2>1 DEF WellFormed, Phases
    <2>2. CASE plan = <<"create", "start", "deferred">>
        BY <2>2 DEF WellFormed, Phases
    <2>3. CASE plan = <<"stop", "reread", "wfUpdate", "start", "deferred">>
        BY <2>3 DEF WellFormed, Phases, LockStatuses
    <2>4. CASE plan = <<"wfUpdate">>
        BY <2>4 DEF WellFormed, Phases
    <2>5. CASE plan = <<"wfUpdate", "start", "deferred">>
        BY <2>5 DEF WellFormed, Phases
    <2>. QED BY <1>2, <2>1, <2>2, <2>3, <2>4, <2>5 DEF WorkflowPlans
<1>. QED BY <1>1, <1>2 DEF Plans

----------------------------------------------------------------------------
(* Type correctness.                                                       *)

LEMMA InitTyped == ASSUME Init PROVE TInv
<1>1. \A p \in Procs : (IF p \in Requests THEN "idle" ELSE "none") \in Labels
    BY DEF Labels, RequestLabels, LauncherLabels
<1>2. pc \in [Procs -> Labels]
    BY <1>1 DEF Init
<1>3. status \in Memory /\ exp \in [Procs -> Memory] /\ 0 \in 0 .. MaxStarts
    BY MaxStartsAssumption DEF Init, Memory, Status
<1>4. Typed
    BY <1>2, <1>3 DEF Init, Typed, LockInit, LockTypeOK
<1>5. WellFormed(<<>>) /\ Agrees("idle", <<>>, 0)
    BY DEF WellFormed, Agrees, StartLabels, CliLabels
<1>6. Planned
    BY <1>5, Processes DEF Init, Planned, WellFormed
<1>. QED BY <1>4, <1>6 DEF TInv

LEMMA Relabelled ==
    ASSUME pc \in [Procs -> Labels], NEW p, NEW label \in Labels, Goto(p, label)
    PROVE  /\ pc' \in [Procs -> Labels]
           /\ p \in Procs => pc'[p] = label
           /\ \A q \in Procs \ {p} : pc'[q] = pc[q]
BY DEF Goto

\* A request that leaves its phase goes to the entry of the next, or is idle.
LEMMA Leaving ==
    ASSUME TInv, NEW r \in Requests, NEW ok, pc[r] # "idle", Leave(r, ok)
    PROVE  /\ Planned'
           /\ pc' \in [Procs -> Labels] /\ exp' \in [Procs -> Memory]
           /\ run' \in [Requests -> 0 .. MaxStarts] /\ taken' \in [Requests -> 0 .. MaxStarts]
           /\ UNCHANGED <<starts, sync>>
           /\ pc'[r] \in {"add", "updGet", "schedCheck", "trigGet", "cliGet", "reread", "deferred", "idle"}
           /\ \A q \in Procs \ {r} : pc'[q] = pc[q] /\ exp'[q] = exp[q]
           /\ \A q \in Requests \ {r} : run'[q] = run[q] /\ taken'[q] = taken[q]
<1> DEFINE rest == IF ok \/ Head(todo[r]) = "start" THEN Tail(todo[r]) ELSE <<>>
           label == IF rest = <<>> THEN "idle" ELSE EntryOf[Head(rest)]
           n == IF rest = <<>> THEN 0 ELSE run[r]
<1>1. /\ todo' = [todo EXCEPT ![r] = rest]
      /\ Goto(r, label)
      /\ run' = [run EXCEPT ![r] = IF rest = <<>> THEN 0 ELSE run[r]]
      /\ exp' = [exp EXCEPT ![r] = IF rest = <<>> THEN NoConfig ELSE exp[r]]
      /\ taken' = [taken EXCEPT ![r] = 0]
      /\ UNCHANGED <<starts, sync>>
    BY DEF Leave
<1>2. WellFormed(todo[r]) /\ Agrees(pc[r], todo[r], run[r]) /\ todo[r] # <<>>
    BY DEF TInv, Planned, Agrees
<1>3. WellFormed(<<>>)
    BY DEF WellFormed
<1>4. WellFormed(rest)
    BY <1>2, <1>3, RestOfPlan
<1>5. rest # <<>> => Head(rest) \in Phases /\ Head(rest) = rest[1] /\ Len(rest) \in Nat \ {0}
    BY <1>4, RestOfPlan
<1>6. /\ label \in {"add", "updGet", "schedCheck", "trigGet", "cliGet", "reread", "deferred", "idle"}
      /\ label = "idle" <=> rest = <<>>
      /\ label = "add" => Head(rest) \in LockStatuses
      /\ label = "reread" => Head(rest) = "reread"
      /\ label = "cliGet" => Head(rest) = "cli"
    <2> HIDE DEF rest
    <2>1. CASE rest = <<>>
        BY <2>1
    <2>2. CASE rest # <<>>
        BY <2>2, <1>5, Entries
    <2>. QED BY <2>1, <2>2
<1>7. \A i \in 1 .. Len(rest) : rest[i] \in {"start", "cli"} => n \in Starts
    <2>1. CASE rest = <<>>
        <3>1. Len(rest) = 0
            BY <2>1
        <3>. QED BY <3>1
    <2>2. CASE rest # <<>>
        <3>1. rest = Tail(todo[r])
            BY <2>2
        <3>2. \A i \in 1 .. Len(rest) : i + 1 \in 1 .. Len(todo[r]) /\ rest[i] = todo[r][i + 1]
            BY <3>1, <1>2, RestOfPlan
        <3>3. \A i \in 1 .. Len(todo[r]) : todo[r][i] \in {"start", "cli"} => run[r] \in Starts
            BY <1>2 DEF Agrees
        <3>. QED BY <2>2, <3>2, <3>3
    <2>. QED BY <2>1, <2>2
<1> HIDE DEF rest, label, n
<1>8. Agrees(label, rest, n)
    BY <1>6, <1>7 DEF Agrees, StartLabels, CliLabels
<1>9. label \in Labels
    BY <1>6, LabelsOfPhases
<1>10. r \in Procs /\ pc \in [Procs -> Labels] /\ exp \in [Procs -> Memory] /\ NoConfig \in Memory
    BY Processes DEF TInv, Typed, Memory
<1>11. pc' \in [Procs -> Labels] /\ pc'[r] = label /\ \A q \in Procs \ {r} : pc'[q] = pc[q]
    BY <1>1, <1>9, <1>10, Relabelled
<1>12. exp' \in [Procs -> Memory] /\ \A q \in Procs \ {r} : exp'[q] = exp[q]
    BY <1>1, <1>10
<1>13. /\ run \in [Requests -> 0 .. MaxStarts] /\ taken \in [Requests -> 0 .. MaxStarts]
       /\ 0 \in 0 .. MaxStarts
    BY MaxStartsAssumption DEF TInv, Typed
<1>14. /\ run' \in [Requests -> 0 .. MaxStarts] /\ run'[r] = n
       /\ \A q \in Requests \ {r} : run'[q] = run[q]
    BY <1>1, <1>13 DEF n
<1>15. taken' \in [Requests -> 0 .. MaxStarts] /\ \A q \in Requests \ {r} : taken'[q] = taken[q]
    BY <1>1, <1>13
<1>16. /\ todo' \in [Requests -> Seq(Phases)] /\ todo'[r] = rest
       /\ \A q \in Requests \ {r} : todo'[q] = todo[q]
    BY <1>1, <1>4 DEF TInv, Planned, WellFormed
<1>17. ASSUME NEW q \in Requests
       PROVE  WellFormed(todo'[q]) /\ Agrees(pc'[q], todo'[q], run'[q])
    <2>1. CASE q = r
        BY <2>1, <1>4, <1>8, <1>11, <1>14, <1>16
    <2>2. CASE q # r
        <3>1. WellFormed(todo[q]) /\ Agrees(pc[q], todo[q], run[q])
            BY DEF TInv, Planned
        <3>2. todo'[q] = todo[q] /\ pc'[q] = pc[q] /\ run'[q] = run[q]
            BY <2>2, <1>11, <1>14, <1>16, Processes
        <3>. QED BY <3>1, <3>2
    <2>. QED BY <2>1, <2>2
<1>18. Planned'
    BY <1>16, <1>17 DEF Planned, WellFormed, Agrees
<1>. QED BY <1>1, <1>6, <1>11, <1>12, <1>14, <1>15, <1>18

\* A request that moves within a phase.
LEMMA MovingInPhase ==
    ASSUME TInv, NEW r \in Requests, pc[r] # "idle", NEW label, pc'[r] = label,
           label \notin {"idle", "add", "lookup", "reread"} \cup CliLabels,
           label \in StartLabels => pc[r] \in StartLabels,
           \A q \in Requests \ {r} : pc'[q] = pc[q],
           UNCHANGED <<todo, run>>
    PROVE  Planned'
<1>1. todo' \in [Requests -> Seq(Phases)]
    BY DEF TInv, Planned
<1>2. ASSUME NEW q \in Requests
      PROVE  WellFormed(todo'[q]) /\ Agrees(pc'[q], todo'[q], run'[q])
    <2>1. WellFormed(todo[q]) /\ Agrees(pc[q], todo[q], run[q])
        BY DEF TInv, Planned
    <2>2. CASE q # r
        BY <2>1, <2>2
    <2>3. CASE q = r
        <3>1. Agrees(pc'[r], todo[r], run[r])
            BY <2>1, <2>3 DEF Agrees
        <3>. QED BY <2>1, <2>3, <3>1
    <2>. QED BY <2>2, <2>3
<1>. QED BY <1>1, <1>2 DEF Planned, WellFormed, Agrees

\* A step of another process.
LEMMA RequestsStay ==
    ASSUME TInv, \A q \in Requests : pc'[q] = pc[q], UNCHANGED <<todo, run>>
    PROVE  Planned'
BY DEF TInv, Planned, WellFormed, Agrees

\* The two ways to move: a request within its phase, another process anywhere.
LEMMA RequestGoes ==
    ASSUME TInv, NEW r \in Requests, pc[r] # "idle", NEW label \in Labels, Goto(r, label),
           label \notin {"idle", "add", "lookup", "reread"} \cup CliLabels,
           label \in StartLabels => pc[r] \in StartLabels,
           UNCHANGED <<todo, run>>
    PROVE  pc' \in [Procs -> Labels] /\ Planned'
<1>1. pc \in [Procs -> Labels] /\ Requests \subseteq Procs
    BY Processes DEF TInv, Typed
<1>2. pc' \in [Procs -> Labels] /\ pc'[r] = label /\ \A q \in Requests \ {r} : pc'[q] = pc[q]
    BY <1>1, Relabelled
<1>. QED BY <1>2, MovingInPhase

LEMMA OtherGoes ==
    ASSUME TInv, NEW p, p \notin Requests, NEW label \in Labels, Goto(p, label),
           UNCHANGED <<todo, run>>
    PROVE  pc' \in [Procs -> Labels] /\ Planned'
<1>1. pc \in [Procs -> Labels] /\ Requests \subseteq Procs
    BY Processes DEF TInv, Typed
<1>2. pc' \in [Procs -> Labels] /\ \A q \in Requests : pc'[q] = pc[q]
    BY <1>1, Relabelled
<1>. QED BY <1>2, RequestsStay

LEMMA StoredInMemory ==
    ASSUME TInv
    PROVE  /\ Stored(0) \in Memory /\ NoConfig \in Memory /\ 0 \in Memory
           /\ \A p \in Procs : exp[p] \in Memory /\ Stored(exp[p]) \in Memory
           /\ \A n \in Starts : n \in Memory
BY MaxStartsAssumption DEF TInv, Typed, Stored, Memory, Status, Starts

LEMMA SubmitTyped ==
    ASSUME TInv, NEW r \in Requests, Submit(r)
    PROVE  TInv'
<1>1. PICK plan \in Plans :
        /\ MakesStart(plan) => starts < MaxStarts
        /\ todo' = [todo EXCEPT ![r] = plan]
        /\ Goto(r, EntryOf[Head(plan)])
        /\ starts' = IF MakesStart(plan) THEN starts + 1 ELSE starts
        /\ run' = [run EXCEPT ![r] = IF MakesStart(plan) THEN starts + 1 ELSE 0]
        /\ exp' = [exp EXCEPT ![r] = IF Head(plan) = "wfUpdate" THEN status ELSE NoConfig]
    BY DEF Submit
<1>2. UNCHANGED <<lock, status, vms, registry, taken, sync, overlapped>>
    BY DEF Submit
<1>3. WellFormed(plan) /\ plan # <<>>
    BY PlansAreWellFormed
<1>4. Head(plan) \in Phases
    BY <1>3, RestOfPlan
<1> DEFINE label == EntryOf[Head(plan)]
           n == IF MakesStart(plan) THEN starts + 1 ELSE 0
<1>5. label \in Labels /\ r \in Procs /\ pc \in [Procs -> Labels]
    BY <1>4, Entries, LabelsOfPhases, Processes DEF TInv, Typed
<1>6. pc' \in [Procs -> Labels] /\ pc'[r] = label /\ \A q \in Procs \ {r} : pc'[q] = pc[q]
    BY <1>1, <1>5, Relabelled
<1>7. starts \in 0 .. MaxStarts /\ (MakesStart(plan) => starts + 1 \in Starts)
    BY <1>1, MaxStartsAssumption DEF TInv, Typed, Starts
<1>8. n \in 0 .. MaxStarts /\ starts' \in 0 .. MaxStarts /\ (MakesStart(plan) => n \in Starts)
    BY <1>1, <1>7, MaxStartsAssumption DEF Starts
<1>9. \A i \in 1 .. Len(plan) : plan[i] \in {"start", "cli"} => MakesStart(plan)
    BY <1>3 DEF MakesStart, WellFormed
<1>10. Agrees(label, plan, n)
    BY <1>3, <1>4, <1>8, <1>9, Entries DEF Agrees, StartLabels, CliLabels
<1> HIDE DEF label
<1>11. run' \in [Requests -> 0 .. MaxStarts] /\ run'[r] = n /\ \A q \in Requests \ {r} : run'[q] = run[q]
    BY <1>1, <1>8 DEF TInv, Typed
<1>12. exp' \in [Procs -> Memory]
    BY <1>1, StoredInMemory DEF TInv, Typed
<1>13. Typed'
    BY <1>2, <1>6, <1>8, <1>11, <1>12 DEF TInv, Typed, LockTypeOK, registry
<1>14. /\ todo' \in [Requests -> Seq(Phases)] /\ todo'[r] = plan
       /\ \A q \in Requests \ {r} : todo'[q] = todo[q]
    BY <1>1, <1>3 DEF TInv, Planned, WellFormed
<1> HIDE DEF n
<1>15. ASSUME NEW q \in Requests
       PROVE  WellFormed(todo'[q]) /\ Agrees(pc'[q], todo'[q], run'[q])
    <2>1. CASE q = r
        BY <2>1, <1>3, <1>6, <1>10, <1>11, <1>14
    <2>2. CASE q # r
        BY <2>2, <1>6, <1>11, <1>14, Processes DEF TInv, Planned
    <2>. QED BY <2>1, <2>2
<1>16. Planned'
    BY <1>14, <1>15 DEF Planned, WellFormed, Agrees
<1>. QED BY <1>13, <1>16 DEF TInv

\* Add, Lookup, and what both do: Enter.
LEMMA EnterTyped ==
    ASSUME TInv, NEW r \in Requests, pc[r] \in {"add", "lookup"}, Enter(r), UNCHANGED <<todo, run>>
    PROVE  /\ pc' \in [Procs -> Labels] /\ Planned' /\ overlapped' \in BOOLEAN
           /\ pc'[r] \in {"create", "create1", "delCheck", "spawn", "take", "wfPut"}
           /\ \A q \in Procs \ {r} : pc'[q] = pc[q]
<1> DEFINE label == InsideOf[Head(todo[r])]
<1>1. Head(todo[r]) \in LockStatuses /\ todo[r] # <<>> /\ Agrees(pc[r], todo[r], run[r])
    BY DEF TInv, Planned, Agrees
<1>2. /\ label \in {"create", "create1", "delCheck", "spawn", "take", "wfPut"}
      /\ label = "spawn" => Head(todo[r]) = "start"
    BY <1>1, Insides
<1>3. Goto(r, label) /\ overlapped' \in BOOLEAN
    BY DEF Enter, TInv, Typed
<1> HIDE DEF label
<1>4. pc' \in [Procs -> Labels] /\ pc'[r] = label /\ \A q \in Procs \ {r} : pc'[q] = pc[q]
    BY <1>2, <1>3, LabelsOfPhases, Processes, Relabelled DEF TInv, Typed
<1>5. Agrees(label, todo[r], run[r])
    BY <1>1, <1>2 DEF Agrees, StartLabels, CliLabels
<1>6. ASSUME NEW q \in Requests
      PROVE  WellFormed(todo'[q]) /\ Agrees(pc'[q], todo'[q], run'[q])
    <2>1. WellFormed(todo[q]) /\ Agrees(pc[q], todo[q], run[q])
        BY DEF TInv, Planned
    <2>2. CASE q = r
        BY <2>1, <2>2, <1>4, <1>5
    <2>3. CASE q # r
        BY <2>1, <2>3, <1>4, Processes
    <2>. QED BY <2>2, <2>3
<1>7. Planned'
    BY <1>6 DEF TInv, Planned, WellFormed, Agrees
<1>. QED BY <1>2, <1>3, <1>4, <1>7

LEMMA LockingTyped ==
    ASSUME TInv, NEW r \in Requests, Add(r) \/ Lookup(r) \/ UnlockExperiment(r) \/ DeferredUnlock(r)
    PROVE  TInv'
<1>1. CASE Add(r)
    <2>1. pc[r] = "add" /\ UNCHANGED <<status, vms, registry, exp, requests>>
        BY <1>1 DEF Add
    <2>2. lock' \in LockStatuses \cup {NoLock}
        BY <1>1 DEF Add, AddLock, AddRefused, TInv, Typed, LockTypeOK, Planned, Agrees
    <2>3. pc' \in [Procs -> Labels] /\ Planned' /\ overlapped' \in BOOLEAN
        <3>1. CASE Enter(r)
            BY <2>1, <3>1, EnterTyped DEF requests
        <3>2. CASE Goto(r, "lookup") /\ UNCHANGED overlapped
            <4>1. /\ pc' \in [Procs -> Labels] /\ pc'[r] = "lookup"
                  /\ \A q \in Procs \ {r} : pc'[q] = pc[q]
                BY <3>2, Processes, Relabelled DEF Labels, RequestLabels, TInv, Typed
            <4>2. ASSUME NEW q \in Requests
                  PROVE  WellFormed(todo'[q]) /\ Agrees(pc'[q], todo'[q], run'[q])
                BY <2>1, <4>1, Processes
                    DEF TInv, Planned, Agrees, requests, StartLabels, CliLabels
            <4>3. Planned'
                BY <2>1, <4>2 DEF TInv, Planned, WellFormed, Agrees, requests
            <4>. QED BY <3>2, <4>1, <4>3 DEF TInv, Typed
        <3>. QED BY <1>1, <3>1, <3>2 DEF Add
    <2>. QED BY <2>1, <2>2, <2>3 DEF TInv, Typed, LockTypeOK, registry, requests
<1>2. CASE Lookup(r)
    <2>1. pc[r] = "lookup" /\ UNCHANGED <<lock, status, vms, registry>>
        BY <1>2 DEF Lookup, LookupMissed, LookupFound
    <2>2. CASE Enter(r) /\ UNCHANGED <<exp, requests>>
        <3>1. pc' \in [Procs -> Labels] /\ Planned' /\ overlapped' \in BOOLEAN
            BY <2>1, <2>2, EnterTyped DEF requests
        <3>. QED BY <2>1, <2>2, <3>1 DEF TInv, Typed, LockTypeOK, registry, requests
    <2>3. CASE Leave(r, FALSE) /\ UNCHANGED overlapped
        <3>1. /\ Planned' /\ pc' \in [Procs -> Labels] /\ exp' \in [Procs -> Memory]
              /\ run' \in [Requests -> 0 .. MaxStarts] /\ taken' \in [Requests -> 0 .. MaxStarts]
              /\ UNCHANGED <<starts, sync>>
            BY <2>1, <2>3, Leaving
        <3>. QED BY <2>1, <2>3, <3>1 DEF TInv, Typed, LockTypeOK, registry
    <2>. QED BY <1>2, <2>2, <2>3 DEF Lookup
<1>3. CASE UnlockExperiment(r) \/ DeferredUnlock(r)
    <2>1. /\ pc[r] # "idle" /\ UNCHANGED <<status, vms, registry, overlapped>> /\ lock' = NoLock
          /\ Leave(r, pc[r] = "unlockOk") \/ Leave(r, TRUE)
        BY <1>3 DEF UnlockExperiment, DeferredUnlock, Unlock
    <2>2. /\ Planned' /\ pc' \in [Procs -> Labels] /\ exp' \in [Procs -> Memory]
          /\ run' \in [Requests -> 0 .. MaxStarts] /\ taken' \in [Requests -> 0 .. MaxStarts]
          /\ UNCHANGED <<starts, sync>>
        BY <2>1, Leaving
    <2>. QED BY <2>1, <2>2 DEF TInv, Typed, LockTypeOK, registry
<1>. QED BY <1>1, <1>2, <1>3

LEMMA CreateDeleteTyped ==
    ASSUME TInv, NEW r \in Requests, Create(r) \/ DeleteExperiment(r)
    PROVE  TInv'
<1>1. PICK label \in {"create2", "create", "unlockOk", "unlockErr", "delDo"} : Goto(r, label)
    BY DEF Create, DeleteExperiment, Delete
<1>2. /\ status' \in Memory
      /\ UNCHANGED <<lock, vms, registry, exp, requests, overlapped>>
      /\ pc[r] # "idle"
    BY StoredInMemory DEF Create, DeleteExperiment, Delete, TInv, Typed
<1>3. label \in Labels
    BY DEF Labels, RequestLabels, LockedLabels
<1>4. pc' \in [Procs -> Labels] /\ Planned'
    BY <1>1, <1>2, <1>3, RequestGoes DEF requests, StartLabels, CliLabels
<1>. QED BY <1>2, <1>4 DEF TInv, Typed, LockTypeOK, registry, requests

LEMMA StartExperimentTyped ==
    ASSUME TInv, NEW r \in Requests, StartExperiment(r)
    PROVE  TInv'
<1>1. /\ pc \in [Procs -> Labels] /\ Requests \subseteq Procs
      /\ run[r] \in 0 .. MaxStarts
      /\ Launcher(run[r]) \notin Requests /\ Periodic(run[r]) \notin Requests
    <2>1. pc[r] \in StartLabels
        BY DEF StartExperiment, Spawn, ReceiveResult, Register, PeriodicallyRunApps, StartLabels
    <2>2. WellFormed(todo[r]) /\ Agrees(pc[r], todo[r], run[r]) /\ todo[r] # <<>>
        BY <2>1 DEF TInv, Planned, Agrees, StartLabels
    <2>3. todo[r][1] = "start" /\ 1 \in 1 .. Len(todo[r])
        BY <2>1, <2>2, RestOfPlan DEF Agrees
    <2>4. run[r] \in Starts
        BY <2>2, <2>3 DEF Agrees
    <2>. QED BY <2>4, Processes DEF TInv, Typed
<1>2. pc[r] # "idle" /\ UNCHANGED <<lock, status, vms, exp, requests, overlapped>>
    BY DEF StartExperiment, Spawn, ReceiveResult, Register, PeriodicallyRunApps, registry
<1>3. /\ pc' \in [Procs -> Labels]
      /\ pc'[r] \in {"startWait", "unlockErr", "register", "periodic", "unlockOk"}
      /\ \A q \in Requests \ {r} : pc'[q] = pc[q]
    <2>1. {"startWait", "unlockErr", "register", "periodic", "unlockOk", "track", "resend", "done",
           "pInit"} \subseteq Labels
        BY DEF Labels, RequestLabels, LockedLabels, LauncherLabels, PeriodicLabels
    <2>2. CASE Spawn(r)
        BY <1>1, <2>1, <2>2 DEF Spawn
    <2>3. CASE ReceiveResult(r)
        BY <1>1, <2>1, <2>3 DEF ReceiveResult
    <2>4. CASE Register(r)
        BY <1>1, <2>1, <2>4 DEF Register, Goto
    <2>5. CASE PeriodicallyRunApps(r)
        BY <1>1, <2>1, <2>5 DEF PeriodicallyRunApps
    <2>. QED BY <2>2, <2>3, <2>4, <2>5 DEF StartExperiment
<1>4. pc'[r] \in StartLabels => pc[r] \in StartLabels
    BY DEF StartExperiment, Spawn, ReceiveResult, Register, PeriodicallyRunApps, StartLabels
<1>5. Planned'
    BY <1>2, <1>3, <1>4, MovingInPhase DEF requests, CliLabels
<1>6. cancelers' \subseteq Contexts /\ waiter' \in 0 .. MaxStarts /\ groupLost' \in BOOLEAN
      /\ UNCHANGED cancelled
    <2>1. CASE Register(r)
        <3>1. AppsCtx(run[r]) \in Contexts
            <4>1. WellFormed(todo[r]) /\ Agrees(pc[r], todo[r], run[r]) /\ pc[r] = "register"
                BY <2>1 DEF Register, TInv, Planned
            <4>2. Head(todo[r]) = "start" /\ todo[r] # <<>>
                BY <4>1 DEF Agrees, StartLabels
            <4>3. 1 \in 1 .. Len(todo[r]) /\ todo[r][1] = "start"
                BY <4>1, <4>2, RestOfPlan
            <4>. QED BY <4>1, <4>3 DEF Agrees, Contexts
        <3>. QED BY <2>1, <3>1, <1>1 DEF Register, TInv, Typed
    <2>2. CASE ~Register(r)
        BY <2>2 DEF StartExperiment, Spawn, ReceiveResult, PeriodicallyRunApps, registry, TInv, Typed
    <2>. QED BY <2>1, <2>2
<1>. QED BY <1>2, <1>3, <1>5, <1>6 DEF TInv, Typed, LockTypeOK, requests

\* experiment.Stop, for the request and for the goroutine that finishes a start.
LEMMA StopTyped ==
    ASSUME TInv, NEW a \in Requests \cup Finishers, Stop(a)
    PROVE  TInv'
<1>1. a \in Procs /\ (a \in Requests => a \notin Finishers)
    BY Processes
<1>2. PICK label \in StopLabels \cup {"unlockOk", "unlockErr", "done"} :
            Goto(a, label) /\ (a \in Requests => label # "done")
    <2>1. CASE StopGet(a)
        BY <1>1, <2>1 DEF StopGet, StopReturn, StopLabels
    <2>2. CASE StopCleanup(a)
        BY <2>2 DEF StopCleanup, StopLabels
    <2>3. CASE StopClear(a)
        BY <2>3 DEF StopClear, Outcome, StopLabels
    <2>4. CASE StopPut(a)
        BY <1>1, <2>4 DEF StopPut, StopReturn, StopLabels
    <2>. QED BY <2>1, <2>2, <2>3, <2>4 DEF Stop
<1>3. pc[a] # "idle" /\ UNCHANGED <<lock, registry, requests, overlapped>>
    BY DEF Stop, StopGet, StopCleanup, StopClear, StopPut
<1>4. status' \in Memory /\ exp' \in [Procs -> Memory] /\ vms' \in 0 .. MaxStarts
    <2>1. status' \in Memory
        BY <1>1, StoredInMemory DEF Stop, StopGet, StopCleanup, StopClear, StopPut, TInv, Typed
    <2>2. exp' \in [Procs -> Memory]
        BY StoredInMemory DEF Stop, StopGet, StopCleanup, StopClear, StopPut, Forget, TInv, Typed
    <2>3. vms' = 0 \/ UNCHANGED vms
        BY DEF Stop, StopGet, StopCleanup, StopClear, StopPut
    <2>4. vms' \in 0 .. MaxStarts
        BY <2>3, MaxStartsAssumption DEF TInv, Typed
    <2>. QED BY <2>1, <2>2, <2>4
<1>5. label \in Labels
    BY DEF Labels, RequestLabels, LockedLabels, StopLabels, FinisherLabels
<1>6. pc' \in [Procs -> Labels] /\ Planned'
    <2>1. CASE a \in Requests
        BY <1>2, <1>3, <1>5, <2>1, RequestGoes DEF requests, StartLabels, CliLabels, StopLabels
    <2>2. CASE a \notin Requests
        BY <1>2, <1>3, <1>5, <2>2, OtherGoes DEF requests
    <2>. QED BY <2>1, <2>2
<1>. QED BY <1>3, <1>4, <1>6 DEF TInv, Typed, LockTypeOK, registry, requests

LEMMA StopExperimentTyped ==
    ASSUME TInv, NEW r \in Requests, TakeCancelers(r) \/ WaitForApps(r)
    PROVE  TInv'
<1>1. PICK label \in {"wait", "stopGet"} : Goto(r, label)
    BY DEF TakeCancelers, WaitForApps
<1>2. pc[r] # "idle" /\ label \in Labels
    BY DEF TakeCancelers, WaitForApps, Labels, RequestLabels, LockedLabels, StopLabels
<1>3. UNCHANGED <<lock, status, vms, exp, todo, run, starts, sync, overlapped, groupLost>>
    BY DEF TakeCancelers, WaitForApps, registry, requests
<1>4. pc' \in [Procs -> Labels] /\ Planned'
    BY <1>1, <1>2, <1>3, RequestGoes DEF StartLabels, CliLabels
<1>5. /\ cancelers' \subseteq Contexts /\ cancelled' \subseteq Contexts
      /\ waiter' \in 0 .. MaxStarts /\ taken' \in [Requests -> 0 .. MaxStarts]
    BY MaxStartsAssumption DEF TakeCancelers, WaitForApps, registry, requests, TInv, Typed
<1>. QED BY <1>3, <1>4, <1>5 DEF TInv, Typed, LockTypeOK

LEMMA LaterRequestsTyped ==
    ASSUME TInv, NEW r \in Requests,
           \/ ScheduleCheck(r) \/ UpdateGet(r) \/ UpdatePut(r) \/ TriggerExperimentApps(r)
           \/ WorkflowPut(r) \/ Reconfigure(r) \/ ConfigUpdate(r)
    PROVE  TInv'
<1>1. /\ pc[r] # "idle" /\ UNCHANGED <<lock, vms, registry, overlapped>> /\ status' \in Memory
    BY StoredInMemory, Processes
        DEF ScheduleCheck, UpdateGet, UpdatePut, TriggerExperimentApps, TriggerGet, TriggerMark,
            TriggerReload, TriggerPut, WorkflowPut, Reconfigure, ConfigUpdate, WriteToStore, TInv, Typed
<1>2. \/ \E ok \in BOOLEAN : Leave(r, ok)
      \/ /\ UNCHANGED requests /\ exp' \in [Procs -> Memory]
         /\ \E label \in {"updGet", "updPut", "trigMark", "trigRun", "trigPut", "unlockErr", "reGet",
                          "reApp1", "reApp2", "reCheck", "rePut", "unlockOk", "reCreate", "reDelete"} :
                Goto(r, label)
    BY Processes
        DEF ScheduleCheck, UpdateGet, UpdatePut, TriggerExperimentApps, TriggerGet, TriggerMark,
            TriggerReload, TriggerPut, WorkflowPut, Reconfigure, ConfigUpdate, WriteToStore, TInv, Typed
<1>3. /\ Planned' /\ pc' \in [Procs -> Labels] /\ exp' \in [Procs -> Memory]
      /\ run' \in [Requests -> 0 .. MaxStarts] /\ taken' \in [Requests -> 0 .. MaxStarts]
      /\ UNCHANGED <<starts, sync>>
    <2>1. CASE \E ok \in BOOLEAN : Leave(r, ok)
        BY <1>1, <2>1, Leaving
    <2>2. CASE /\ UNCHANGED requests /\ exp' \in [Procs -> Memory]
               /\ \E label \in {"updGet", "updPut", "trigMark", "trigRun", "trigPut", "unlockErr", "reGet",
                                "reApp1", "reApp2", "reCheck", "rePut", "unlockOk", "reCreate", "reDelete"} :
                    Goto(r, label)
        <3>1. PICK label \in {"updGet", "updPut", "trigMark", "trigRun", "trigPut", "unlockErr", "reGet",
                              "reApp1", "reApp2", "reCheck", "rePut", "unlockOk", "reCreate", "reDelete"} :
                Goto(r, label)
            BY <2>2
        <3>2. label \in Labels
            BY DEF Labels, RequestLabels, LockedLabels
        <3>3. pc' \in [Procs -> Labels] /\ Planned'
            BY <1>1, <2>2, <3>1, <3>2, RequestGoes DEF requests, StartLabels, CliLabels
        <3>. QED BY <2>2, <3>3 DEF TInv, Typed, requests
    <2>. QED BY <1>2, <2>1, <2>2
<1>. QED BY <1>1, <1>3 DEF TInv, Typed, LockTypeOK, registry

LEMMA RereadTyped ==
    ASSUME TInv, NEW r \in Requests, Reread(r)
    PROVE  TInv'
<1>1. pc[r] = "reread" /\ UNCHANGED <<lock, status, vms, registry, overlapped>>
    BY DEF Reread
<1>2. CASE Leave(r, FALSE)
    <2>1. /\ Planned' /\ pc' \in [Procs -> Labels] /\ exp' \in [Procs -> Memory]
          /\ run' \in [Requests -> 0 .. MaxStarts] /\ taken' \in [Requests -> 0 .. MaxStarts]
          /\ UNCHANGED <<starts, sync>>
        BY <1>1, <1>2, Leaving
    <2>. QED BY <1>1, <2>1 DEF TInv, Typed, LockTypeOK, registry
<1>3. CASE /\ exp' = [exp EXCEPT ![r] = status]
           /\ todo' = [todo EXCEPT ![r] = Tail(@)]
           /\ Goto(r, "add")
           /\ UNCHANGED <<run, taken, starts, sync>>
    <2>1. WellFormed(todo[r]) /\ Agrees(pc[r], todo[r], run[r]) /\ todo[r] # <<>>
        BY <1>1 DEF TInv, Planned, Agrees
    <2> DEFINE rest == Tail(todo[r])
    <2>2. WellFormed(rest) /\ rest # <<>> /\ Head(rest) \in LockStatuses
        BY <1>1, <2>1, RestOfPlan DEF Agrees
    <2>3. \A i \in 1 .. Len(rest) : i + 1 \in 1 .. Len(todo[r]) /\ rest[i] = todo[r][i + 1]
        BY <2>1, RestOfPlan
    <2>4. \A i \in 1 .. Len(rest) : rest[i] \in {"start", "cli"} => run[r] \in Starts
        BY <2>1, <2>3 DEF Agrees
    <2> HIDE DEF rest
    <2>5. Agrees("add", rest, run[r])
        BY <2>2, <2>4 DEF Agrees, StartLabels, CliLabels
    <2>6. pc' \in [Procs -> Labels] /\ pc'[r] = "add" /\ \A q \in Procs \ {r} : pc'[q] = pc[q]
        BY <1>3, LabelsOfPhases, Processes, Relabelled DEF TInv, Typed
    <2>7. /\ todo' \in [Requests -> Seq(Phases)] /\ todo'[r] = rest
          /\ \A q \in Requests \ {r} : todo'[q] = todo[q]
        BY <1>3, <2>2 DEF TInv, Planned, WellFormed, rest
    <2>8. ASSUME NEW q \in Requests
          PROVE  WellFormed(todo'[q]) /\ Agrees(pc'[q], todo'[q], run'[q])
        <3>1. CASE q = r
            BY <3>1, <1>3, <2>2, <2>5, <2>6, <2>7
        <3>2. CASE q # r
            BY <3>2, <1>3, <2>6, <2>7, Processes DEF TInv, Planned
        <3>. QED BY <3>1, <3>2
    <2>9. Planned'
        BY <2>7, <2>8 DEF Planned, WellFormed, Agrees
    <2>10. exp' \in [Procs -> Memory]
        BY <1>3 DEF TInv, Typed
    <2>. QED BY <1>1, <1>3, <2>6, <2>9, <2>10 DEF TInv, Typed, LockTypeOK, registry
<1>. QED BY <1>2, <1>3 DEF Reread

\* The request of the command line has a start of its own.
LEMMA CliHasStart ==
    ASSUME TInv, NEW r \in Requests, pc[r] \in CliLabels \cup StartLabels
    PROVE  run[r] \in Starts /\ (pc[r] \in CliLabels => Head(todo[r]) = "cli")
<1>1. WellFormed(todo[r]) /\ Agrees(pc[r], todo[r], run[r]) /\ todo[r] # <<>>
    BY DEF TInv, Planned, Agrees, CliLabels, StartLabels
<1>2. 1 \in 1 .. Len(todo[r]) /\ todo[r][1] = Head(todo[r])
    BY <1>1, RestOfPlan
<1>. QED BY <1>1, <1>2 DEF Agrees

LEMMA CliTyped ==
    ASSUME TInv, NEW r \in Requests, CliGet(r) \/ CliStarted(r)
    PROVE  TInv'
<1>1. /\ pc[r] \in CliLabels
      /\ UNCHANGED <<lock, status, vms, registry, overlapped>>
    BY DEF CliGet, CliStarted, CliLabels
<1> DEFINE n == run[r]
<1>2. n \in Starts /\ Head(todo[r]) = "cli"
    BY <1>1, CliHasStart
<1>3. /\ Launcher(n) \in Procs \ Requests /\ Periodic(n) \in Procs \ Requests
      /\ pc \in [Procs -> Labels] /\ exp \in [Procs -> Memory] /\ r \in Procs
    BY <1>2, Processes DEF TInv, Typed
<1>4. CASE /\ exp' = [exp EXCEPT ![r] = status]
           /\ sync' = sync \cup {n}
           /\ pc' = [pc EXCEPT ![r] = "cliWait", ![Launcher(n)] = "startGet"]
           /\ UNCHANGED <<todo, run, taken, starts>>
    <2>1. {"cliWait", "startGet"} \subseteq Labels
        BY DEF Labels, RequestLabels, LauncherLabels
    <2>2. /\ pc' \in [Procs -> Labels] /\ pc'[r] = "cliWait"
          /\ \A q \in Requests \ {r} : pc'[q] = pc[q]
        BY <1>3, <1>4, <2>1, Processes
    <2>3. exp' \in [Procs -> Memory] /\ sync' \subseteq Starts
        BY <1>2, <1>3, <1>4 DEF TInv, Typed
    <2>4. ASSUME NEW q \in Requests
          PROVE  WellFormed(todo'[q]) /\ Agrees(pc'[q], todo'[q], run'[q])
        BY <1>1, <1>2, <1>4, <2>2 DEF TInv, Planned, Agrees, CliLabels, StartLabels
    <2>5. Planned'
        BY <1>4, <2>4 DEF TInv, Planned, WellFormed, Agrees
    <2>. QED BY <1>1, <1>4, <2>2, <2>3, <2>5 DEF TInv, Typed, LockTypeOK, registry
<1>5. CASE Leave(r, FALSE)
    <2>1. /\ Planned' /\ pc' \in [Procs -> Labels] /\ exp' \in [Procs -> Memory]
          /\ run' \in [Requests -> 0 .. MaxStarts] /\ taken' \in [Requests -> 0 .. MaxStarts]
          /\ UNCHANGED <<starts, sync>>
        BY <1>1, <1>5, Leaving DEF CliLabels
    <2>. QED BY <1>1, <2>1 DEF TInv, Typed, LockTypeOK, registry
<1>6. CASE CliStarted(r)
    <2>1. {"idle", "done", "pInit"} \subseteq Labels
        BY DEF Labels, RequestLabels, LauncherLabels, PeriodicLabels
    <2>2. /\ pc' \in [Procs -> Labels] /\ pc'[r] = "idle"
          /\ \A q \in Requests \ {r} : pc'[q] = pc[q]
        BY <1>3, <1>6, <2>1, Processes DEF CliStarted
    <2>3. exp' \in [Procs -> Memory] /\ run' \in [Requests -> 0 .. MaxStarts]
        <3>1. (IF App THEN exp[r] ELSE NoConfig) \in Memory /\ NoConfig \in Memory
            BY <1>3, StoredInMemory
        <3>2. exp' = [exp EXCEPT ![Periodic(n)] = IF App THEN exp[r] ELSE NoConfig, ![r] = NoConfig]
            BY <1>6 DEF CliStarted
        <3>3. exp' \in [Procs -> Memory]
            BY <1>3, <3>1, <3>2
        <3>4. run' = [run EXCEPT ![r] = 0] /\ run \in [Requests -> 0 .. MaxStarts]
            BY <1>6 DEF CliStarted, TInv, Typed
        <3>. QED BY <3>3, <3>4, MaxStartsAssumption
    <2>4. /\ todo' = [todo EXCEPT ![r] = <<>>] /\ run' = [run EXCEPT ![r] = 0]
          /\ UNCHANGED <<taken, starts, sync>>
        BY <1>6 DEF CliStarted
    <2>5. WellFormed(<<>>) /\ Agrees("idle", <<>>, 0)
        BY DEF WellFormed, Agrees, StartLabels, CliLabels
    <2>6. ASSUME NEW q \in Requests
          PROVE  WellFormed(todo'[q]) /\ Agrees(pc'[q], todo'[q], run'[q])
        <3>1. CASE q = r
            <4>1. todo'[q] = <<>> /\ pc'[q] = "idle" /\ run'[q] = 0
                BY <3>1, <2>2, <2>4 DEF TInv, Typed, Planned
            <4>. QED BY <4>1, <2>5
        <3>2. CASE q # r
            <4>1. todo'[q] = todo[q] /\ pc'[q] = pc[q] /\ run'[q] = run[q]
                BY <3>2, <2>2, <2>4 DEF TInv, Typed, Planned
            <4>. QED BY <4>1 DEF TInv, Planned
        <3>. QED BY <3>1, <3>2
    <2>7. Planned'
        BY <2>4, <2>5, <2>6 DEF TInv, Planned, WellFormed, Agrees
    <2>. QED BY <1>1, <2>2, <2>3, <2>4, <2>7 DEF TInv, Typed, LockTypeOK, registry
<1>. QED BY <1>4, <1>5, <1>6 DEF CliGet

LEMMA RequestStepTyped ==
    ASSUME TInv, NEW r \in Requests, RequestStep(r)
    PROVE  TInv'
<1>1. CASE Add(r) \/ Lookup(r) \/ UnlockExperiment(r) \/ DeferredUnlock(r)
    BY <1>1, LockingTyped
<1>2. CASE Create(r) \/ DeleteExperiment(r)
    BY <1>2, CreateDeleteTyped
<1>3. CASE StartExperiment(r)
    BY <1>3, StartExperimentTyped
<1>4. CASE StopExperiment(r)
    BY <1>4, StopExperimentTyped, StopTyped DEF StopExperiment
<1>5. CASE \/ ScheduleCheck(r) \/ UpdateGet(r) \/ UpdatePut(r) \/ TriggerExperimentApps(r)
           \/ WorkflowPut(r) \/ Reconfigure(r) \/ ConfigUpdate(r)
    BY <1>5, LaterRequestsTyped
<1>6. CASE Reread(r)
    BY <1>6, RereadTyped
<1>7. CASE CliGet(r) \/ CliStarted(r)
    BY <1>7, CliTyped
<1>. QED BY <1>1, <1>2, <1>3, <1>4, <1>5, <1>6, <1>7 DEF RequestStep

\* A goroutine of a start touches no request.
LEMMA StartsGoroutine ==
    ASSUME TInv, NEW n \in Starts
    PROVE  /\ Launcher(n) \in Procs \ Requests /\ Finisher(n) \in Procs \ Requests
           /\ Periodic(n) \in Procs \ Requests
           /\ StartCtx(n) \in Contexts /\ AppsCtx(n) \in Contexts /\ n \in 0 .. MaxStarts
BY Processes, MaxStartsAssumption DEF Contexts, Starts

LEMMA LaunchTyped ==
    ASSUME TInv, NEW n \in Starts, Launch(n)
    PROVE  TInv'
<1> DEFINE l == Launcher(n)
<1>1. l \in Procs \ Requests /\ pc \in [Procs -> Labels]
    BY StartsGoroutine DEF TInv, Typed
<1>2. {"stamp", "delay", "report"} \subseteq Labels /\ LauncherLabels \subseteq Labels
      /\ Outcome("cc", "delay", "report") \subseteq Labels
    <2>1. {"stamp", "delay", "report"} \subseteq Labels /\ LauncherLabels \subseteq Labels
        BY DEF Labels, LauncherLabels, FinisherLabels
    <2>. QED BY <2>1 DEF Outcome
<1>3. pc' \in [Procs -> Labels] /\ Planned'
    <2>1. UNCHANGED <<todo, run>>
        BY DEF Launch, Track, StartGet, PreStart, LaunchVMs, Fork, FinishInline, Stamp, RecordStart,
            Fetch, StartFailed, requests
    <2>2. CASE \E label \in LauncherLabels : Goto(l, label)
        BY <1>1, <1>2, <2>1, <2>2, OtherGoes
    <2>3. CASE Fork(n) /\ n \notin sync
        <3>1. PICK next \in Outcome("cc", "delay", "report") :
                pc' = [pc EXCEPT ![l] = "stamp", ![Finisher(n)] = next]
            BY <2>3 DEF Fork
        <3>2. pc' \in [Procs -> Labels] /\ \A q \in Requests : pc'[q] = pc[q]
            BY <1>1, <1>2, <3>1, StartsGoroutine, Processes
        <3>. QED BY <2>1, <3>2, RequestsStay
    <2>4. (\E label \in LauncherLabels : Goto(l, label)) \/ (Fork(n) /\ n \notin sync)
        BY DEF Launch, Track, StartGet, PreStart, LaunchVMs, Fork, FinishInline, Stamp, RecordStart,
            Fetch, StartFailed, LauncherLabels, Outcome
    <2>. QED BY <2>2, <2>3, <2>4
<1>4. UNCHANGED <<lock, waiter, groupLost, todo, run, taken, starts, sync, overlapped>>
    BY DEF Launch, Track, StartGet, PreStart, LaunchVMs, Fork, FinishInline, Stamp, RecordStart,
        Fetch, StartFailed, requests, registry
<1>5. status' \in Memory
    BY <1>1, StoredInMemory
        DEF Launch, Track, StartGet, PreStart, LaunchVMs, Fork, FinishInline, Stamp, RecordStart,
            Fetch, StartFailed, TInv, Typed
<1>6. vms' \in 0 .. MaxStarts
    BY StartsGoroutine, MaxStartsAssumption
        DEF Launch, Track, StartGet, PreStart, LaunchVMs, Fork, FinishInline, Stamp, RecordStart,
            Fetch, StartFailed, Cleared, Outcome, TInv, Typed
<1>7. exp' \in [Procs -> Memory]
    BY <1>1, StoredInMemory
        DEF Launch, Track, StartGet, PreStart, LaunchVMs, Fork, FinishInline, Stamp, RecordStart,
            Fetch, StartFailed, TInv, Typed
<1>8. cancelers' \subseteq Contexts /\ cancelled' \subseteq Contexts
    BY StartsGoroutine
        DEF Launch, Track, StartGet, PreStart, LaunchVMs, Fork, FinishInline, Stamp, RecordStart,
            Fetch, StartFailed, registry, TInv, Typed
<1>. QED BY <1>3, <1>4, <1>5, <1>6, <1>7, <1>8 DEF TInv, Typed, LockTypeOK

LEMMA FinishTyped ==
    ASSUME TInv, NEW n \in Starts, HandleDelayedVMs(n) \/ PostStart(n) \/ ReportError(n)
    PROVE  TInv'
<1> DEFINE f == Finisher(n)
<1>1. f \in Procs \ Requests /\ Launcher(n) \in Procs
    BY StartsGoroutine
<1>2. PICK label \in {"post", "delayFailed", "done", "stopGet", "report", "post1", "post1w", "post2",
                      "post2w"} : Goto(f, label)
    <2>1. CASE HandleDelayedVMs(n)
        BY <2>1 DEF HandleDelayedVMs
    <2>2. CASE PostStart(n)
        BY <2>2 DEF PostStart, Outcome
    <2>3. CASE ReportError(n)
        BY <2>3 DEF ReportError
    <2>. QED BY <2>1, <2>2, <2>3
<1>3. label \in Labels
    BY DEF Labels, FinisherLabels, StopLabels
<1>4. UNCHANGED <<lock, registry, requests, overlapped>>
    BY DEF HandleDelayedVMs, PostStart, ReportError
<1>5. status' \in Memory
    BY <1>1, StoredInMemory DEF HandleDelayedVMs, PostStart, ReportError, TInv, Typed
<1>6. vms' \in 0 .. MaxStarts
    BY MaxStartsAssumption DEF HandleDelayedVMs, PostStart, ReportError, Cleared, Outcome, TInv, Typed
<1>7. exp' \in [Procs -> Memory]
    BY <1>1, StoredInMemory DEF HandleDelayedVMs, PostStart, ReportError, Forget, TInv, Typed
<1>8. pc' \in [Procs -> Labels] /\ Planned'
    BY <1>1, <1>2, <1>3, <1>4, OtherGoes DEF requests
<1>. QED BY <1>4, <1>5, <1>6, <1>7, <1>8 DEF TInv, Typed, LockTypeOK, registry, requests

LEMMA PeriodicTyped ==
    ASSUME TInv, NEW n \in Starts, PeriodicStep(n) \/ PeriodicRuns(n) \/ Interrupt(n)
    PROVE  TInv'
<1>1. CASE PeriodicStep(n) \/ PeriodicRuns(n)
    <2> DEFINE p == Periodic(n)
    <2>1. p \in Procs \ Requests
        BY StartsGoroutine
    <2>2. PICK label \in {"pWait", "pRun", "done"} : Goto(p, label)
        BY <1>1 DEF PeriodicStep, PeriodicBegins, PeriodicRuns, PeriodicRan, PeriodicEnds
    <2>3. label \in Labels
        BY DEF Labels, PeriodicLabels
    <2>4. UNCHANGED <<lock, vms, registry, requests, overlapped>> /\ status' \in Memory
          /\ exp' \in [Procs -> Memory]
        BY <1>1, <2>1, StoredInMemory
            DEF PeriodicStep, PeriodicBegins, PeriodicRuns, PeriodicRan, PeriodicEnds, Forget,
                WriteToStore, TInv, Typed
    <2>5. pc' \in [Procs -> Labels] /\ Planned'
        BY <2>1, <2>2, <2>3, <2>4, OtherGoes DEF requests
    <2>. QED BY <2>4, <2>5 DEF TInv, Typed, LockTypeOK, registry, requests
<1>2. CASE Interrupt(n)
    <2>1. UNCHANGED <<lock, status, vms, cancelers, waiter, groupLost, pc, exp, requests, overlapped>>
          /\ cancelled' \subseteq Contexts
        BY <1>2, StartsGoroutine DEF Interrupt, TInv, Typed
    <2>. QED BY <2>1, RequestsStay DEF TInv, Typed, LockTypeOK, requests
<1>. QED BY <1>1, <1>2

LEMMA StepTyped == ASSUME TInv, [Next]_vars PROVE TInv'
<1>1. CASE LockExpires
    <2>1. lock' = NoLock /\ UNCHANGED <<status, vms, registry, pc, exp, requests, overlapped>>
        BY <1>1 DEF LockExpires, Expire
    <2>. QED BY <2>1, RequestsStay DEF TInv, Typed, LockTypeOK, registry, requests
<1>2. CASE \E r \in Requests : Submit(r) \/ RequestStep(r)
    BY <1>2, SubmitTyped, RequestStepTyped
<1>3. CASE \E n \in Starts : Launch(n)
    BY <1>3, LaunchTyped
<1>4. CASE \E n \in Starts : Finish(n)
    BY <1>4, FinishTyped, StopTyped DEF Finish, Finishers
<1>5. CASE \E n \in Starts : PeriodicStep(n) \/ PeriodicRuns(n) \/ Interrupt(n)
    BY <1>5, PeriodicTyped
<1>6. CASE UNCHANGED vars
    BY <1>6, RequestsStay DEF vars, TInv, Typed, LockTypeOK, registry, requests
<1>. QED BY <1>1, <1>2, <1>3, <1>4, <1>5, <1>6 DEF Next

\* The state has its types at all times, and a request's label, its plan
\* and the start it makes agree.
THEOREM LifecycleTypes == Spec => []TInv
BY InitTyped, StepTyped, PTL DEF Spec

\* The type invariant of the lifecycle: what the store, the server's
\* registry and every goroutine keep stays within its type.
THEOREM LifecycleTypeOK == Spec => []TypeOK
<1>1. TInv => TypeOK
    BY DEF TInv, Typed, Planned, TypeOK, Labels, Memory
<1>. QED BY <1>1, LifecycleTypes, PTL

----------------------------------------------------------------------------
(* Deleted stays deleted.                                                  *)

\* Every write but that of a create and that of the rename is an update,
\* which fails when there is no config.
LEMMA UpdatesNeedConfig ==
    ASSUME status = NoConfig, NEW s
    PROVE  Stored(s) = NoConfig
BY DEF Stored

LEMMA StopKeepsDeleted ==
    ASSUME NEW a, status = NoConfig, Stop(a)
    PROVE  status' = NoConfig
BY DEF Stop, StopGet, StopCleanup, StopClear, StopPut, Stored

LEMMA RequestKeepsDeleted ==
    ASSUME TInv, NEW r \in Requests, RequestStep(r), status = NoConfig, status' # NoConfig
    PROVE  pc[r] \in {"create", "reCreate"} /\ Locked(r)'
<1>1. Create(r) \/ ConfigUpdate(r)
    <2>1. CASE Add(r) \/ Lookup(r) \/ UnlockExperiment(r) \/ DeferredUnlock(r) \/ DeleteExperiment(r)
        BY <2>1 DEF Add, Lookup, UnlockExperiment, DeferredUnlock, DeleteExperiment, Delete
    <2>2. CASE StartExperiment(r) \/ TakeCancelers(r) \/ WaitForApps(r)
        BY <2>2 DEF StartExperiment, Spawn, ReceiveResult, Register, PeriodicallyRunApps,
            TakeCancelers, WaitForApps
    <2>3. CASE Stop(r)
        BY <2>3, StopKeepsDeleted
    <2>4. CASE ScheduleCheck(r) \/ UpdateGet(r) \/ UpdatePut(r) \/ TriggerExperimentApps(r)
        BY <2>4 DEF ScheduleCheck, UpdateGet, UpdatePut, TriggerExperimentApps, TriggerGet, TriggerMark,
            TriggerReload, TriggerPut, WriteToStore, Stored
    <2>5. CASE Reread(r) \/ WorkflowPut(r) \/ Reconfigure(r) \/ CliGet(r) \/ CliStarted(r)
        BY <2>5 DEF Reread, WorkflowPut, Reconfigure, CliGet, CliStarted, Stored
    <2>. QED BY <2>1, <2>2, <2>3, <2>4, <2>5 DEF RequestStep, StopExperiment
<1>2. \/ pc[r] = "create" /\ Goto(r, "unlockOk")
      \/ pc[r] = "reCreate" /\ Goto(r, "reDelete")
    <2>1. CASE Create(r)
        BY <2>1 DEF Create, Stored
    <2>2. CASE ConfigUpdate(r)
        BY <2>2 DEF ConfigUpdate, Stored
    <2>. QED BY <1>1, <2>1, <2>2
<1>3. pc'[r] \in {"unlockOk", "reDelete"}
    BY <1>2, Processes DEF Goto, TInv, Typed
<1>. QED BY <1>2, <1>3 DEF Locked, LockedLabels

LEMMA GoroutineKeepsDeleted ==
    ASSUME NEW n \in Starts, status = NoConfig,
           Launch(n) \/ Finish(n) \/ PeriodicStep(n) \/ PeriodicRuns(n) \/ Interrupt(n)
    PROVE  status' = NoConfig
<1>1. CASE Launch(n)
    BY <1>1, UpdatesNeedConfig
        DEF Launch, Track, StartGet, PreStart, LaunchVMs, Fork, FinishInline, Stamp, RecordStart,
            Fetch, StartFailed
<1>2. CASE Finish(n)
    <2>1. CASE HandleDelayedVMs(n) \/ PostStart(n) \/ ReportError(n)
        BY <2>1 DEF HandleDelayedVMs, PostStart, ReportError, Stored
    <2>. QED BY <1>2, <2>1, StopKeepsDeleted DEF Finish
<1>3. CASE PeriodicStep(n) \/ PeriodicRuns(n) \/ Interrupt(n)
    BY <1>3, UpdatesNeedConfig
        DEF PeriodicStep, PeriodicBegins, PeriodicRuns, PeriodicRan, PeriodicEnds, Interrupt, WriteToStore
<1>. QED BY <1>1, <1>2, <1>3

\* However many requests and starts are in flight, and however long a
\* goroutine has kept the experiment in memory: once it is deleted, only a
\* create under the lock, or the rename that config.Update believes in,
\* stores it again (Experiment.WriteToStore, store.Update).
THEOREM NothingRevives == Spec => DeletedStaysDeleted
<1>1. ASSUME TInv, [Next]_vars, status = NoConfig, status' # NoConfig
      PROVE  \E r \in Requests : pc[r] \in {"create", "reCreate"} /\ Locked(r)'
    <2>1. CASE LockExpires
        BY <1>1, <2>1 DEF LockExpires
    <2>2. CASE \E r \in Requests : Submit(r)
        BY <1>1, <2>2 DEF Submit
    <2>3. CASE \E r \in Requests : RequestStep(r)
        BY <1>1, <2>3, RequestKeepsDeleted
    <2>4. CASE \E n \in Starts :
                Launch(n) \/ Finish(n) \/ PeriodicStep(n) \/ PeriodicRuns(n) \/ Interrupt(n)
        BY <1>1, <2>4, GoroutineKeepsDeleted
    <2>5. CASE UNCHANGED vars
        BY <1>1, <2>5 DEF vars
    <2>. QED BY <1>1, <2>1, <2>2, <2>3, <2>4, <2>5 DEF Next
<1>2. TInv /\ [Next]_vars =>
        [status = NoConfig /\ status' # NoConfig =>
            \E r \in Requests : pc[r] \in {"create", "reCreate"} /\ Locked(r)']_vars
    BY <1>1
<1>. QED BY <1>2, LifecycleTypes, PTL DEF Spec, DeletedStaysDeleted

----------------------------------------------------------------------------
(* The wait groups.                                                        *)

\* What most steps do: request r moves, but not into a phase's locked part,
\* nor into or out of a wait for the periodic runs, and no run begins.
Quiet(r) ==
    /\ pc[r] # "wait"
    /\ pc'[r] \notin {"wait", "periodic", "cliWait"}
    /\ pc'[r] \in StopLabels => pc[r] \in StopLabels
    /\ pc'[r] \in LockedLabels => pc[r] \in LockedLabels
    /\ \A q \in Requests \ {r} : pc'[q] = pc[q] /\ run'[q] = run[q] /\ taken'[q] = taken[q]
    /\ \A n \in Starts : Live(n)' => Live(n)
    /\ UNCHANGED <<waiter, sync, groupLost, overlapped>>

LEMMA QuietCoord ==
    ASSUME Coord, NEW r \in Requests, Quiet(r)
    PROVE  Coord'
<1>1. OneLocked'
    BY DEF Coord, OneLocked, Quiet, Locked
<1>2. CliKnown'
    BY DEF Coord, CliKnown, Quiet
<1>3. GroupsKept'
    <2> SUFFICES ASSUME ~overlapped, ~groupLost, NEW n \in Starts \ sync, Live(n)'
                 PROVE  waiter = n \/ \E q \in Requests : pc'[q] = "wait" /\ taken'[q] = n
        BY DEF GroupsKept, Quiet
    <2>1. waiter = n \/ \E q \in Requests : pc[q] = "wait" /\ taken[q] = n
        BY DEF Coord, GroupsKept, Quiet
    <2>. QED BY <2>1 DEF Quiet
<1>4. PlaceEmptied'
    BY DEF Coord, PlaceEmptied, Quiet
<1>5. PlaceFilled'
    BY DEF Coord, PlaceFilled, Quiet
<1>. QED BY <1>1, <1>2, <1>3, <1>4, <1>5 DEF Coord

\* A step that moves no request.
LEMMA OthersCoord ==
    ASSUME Coord, \A q \in Requests : pc'[q] = pc[q], \A n \in Starts : Live(n)' => Live(n),
           UNCHANGED <<waiter, sync, groupLost, overlapped, run, taken>>
    PROVE  Coord'
<1>1. OneLocked' /\ CliKnown'
    BY DEF Coord, OneLocked, CliKnown, Locked
<1>2. GroupsKept'
    BY DEF Coord, GroupsKept
<1>3. PlaceEmptied' /\ PlaceFilled'
    BY DEF Coord, PlaceEmptied, PlaceFilled
<1>. QED BY <1>1, <1>2, <1>3 DEF Coord

\* A process that is no periodic run leaves the periodic runs alone.
LEMMA PeriodicsApart ==
    /\ \A n \in Starts : Periodic(n) \in Procs \ Requests
    /\ \A n, m \in Starts : Periodic(n) # Launcher(m) /\ Periodic(n) # Finisher(m)
    /\ \A n, m \in Starts : Periodic(n) = Periodic(m) => n = m
    /\ \A n \in Starts : Periodic(n) \notin Finishers
BY ProcsAssumption DEF Procs, Launchers, Finishers, Periodics, Launcher, Finisher, Periodic

LEMMA LeavingCoord ==
    ASSUME TInv, Coord, NEW r \in Requests, NEW ok, pc[r] \notin {"idle", "wait"}, Leave(r, ok),
           UNCHANGED <<waiter, groupLost, overlapped>>
    PROVE  Coord'
<1>1. /\ UNCHANGED <<starts, sync>>
      /\ pc'[r] \in {"add", "updGet", "schedCheck", "trigGet", "cliGet", "reread", "deferred", "idle"}
      /\ \A q \in Procs \ {r} : pc'[q] = pc[q] /\ exp'[q] = exp[q]
      /\ \A q \in Requests \ {r} : run'[q] = run[q] /\ taken'[q] = taken[q]
    BY Leaving
<1>2. Quiet(r)
    BY <1>1, PeriodicsApart, Processes DEF Quiet, Live, LockedLabels, StopLabels
<1>. QED BY <1>2, QuietCoord

\* A request that goes on within its phase.
LEMMA GoingCoord ==
    ASSUME TInv, Coord, NEW r \in Requests, NEW label, Goto(r, label),
           pc[r] # "wait", label \notin {"wait", "periodic", "cliWait"},
           label \in StopLabels => pc[r] \in StopLabels,
           label \in LockedLabels => pc[r] \in LockedLabels,
           UNCHANGED <<waiter, sync, groupLost, overlapped, run, taken>>
    PROVE  Coord'
<1>1. pc'[r] = label /\ \A q \in Procs \ {r} : pc'[q] = pc[q]
    BY Processes DEF Goto, TInv, Typed
<1>2. Quiet(r)
    BY <1>1, PeriodicsApart, Processes DEF Quiet, Live
<1>. QED BY <1>2, QuietCoord

\* The request that gets the lock, or believes so.
LEMMA EnterCoord ==
    ASSUME TInv, Coord, NEW r \in Requests, pc[r] \in {"add", "lookup"}, Enter(r),
           UNCHANGED <<waiter, sync, groupLost, todo, run, taken>>
    PROVE  Coord'
<1>1. /\ pc'[r] \in {"create", "create1", "delCheck", "spawn", "take", "wfPut"}
      /\ \A q \in Procs \ {r} : pc'[q] = pc[q]
    BY EnterTyped
<1>2. overlapped' = (overlapped \/ \E q \in Requests \ {r} : Locked(q))
    BY DEF Enter
<1>3. \A n \in Starts : Live(n)' => Live(n)
    BY <1>1, PeriodicsApart DEF Live
<1>4. OneLocked'
    <2> SUFFICES ASSUME ~overlapped', NEW p \in Requests, NEW q \in Requests, Locked(p)', Locked(q)'
                 PROVE  p = q
        BY DEF OneLocked
    <2>1. \A s \in Requests \ {r} : ~Locked(s)'
        BY <1>1, <1>2, Processes DEF Locked
    <2>. QED BY <2>1
<1>5. CliKnown'
    BY <1>1, Processes DEF Coord, CliKnown
<1>6. GroupsKept'
    <2> SUFFICES ASSUME ~overlapped, ~groupLost, NEW n \in Starts \ sync, Live(n)'
                 PROVE  waiter = n \/ \E q \in Requests : pc'[q] = "wait" /\ taken[q] = n
        BY <1>2 DEF GroupsKept
    <2>1. waiter = n \/ \E q \in Requests : pc[q] = "wait" /\ taken[q] = n
        BY <1>3 DEF Coord, GroupsKept
    <2>. QED BY <1>1, <2>1, Processes
<1>7. PlaceEmptied' /\ PlaceFilled'
    BY <1>1, <1>2, Processes DEF Coord, PlaceEmptied, PlaceFilled, StopLabels
<1>. QED BY <1>4, <1>5, <1>6, <1>7 DEF Coord

\* The start keeps its wait group: nobody else is in a locked phase.
LEMMA RegisterCoord ==
    ASSUME TInv, Coord, NEW r \in Requests, Register(r)
    PROVE  Coord'
<1>1. /\ pc[r] = "register" /\ pc'[r] = "periodic" /\ \A q \in Procs \ {r} : pc'[q] = pc[q]
      /\ waiter' = run[r] /\ groupLost' = (groupLost \/ waiter # 0)
      /\ UNCHANGED <<run, taken, sync, overlapped>>
    BY Processes DEF Register, requests, Goto, TInv, Typed
<1>2. OneLocked'
    BY <1>1, Processes DEF Coord, OneLocked, Locked, LockedLabels
<1>3. ~overlapped => \A q \in Requests \ {r} : pc[q] \notin LockedLabels
    BY <1>1 DEF Coord, OneLocked, Locked, LockedLabels
<1>4. CliKnown'
    BY <1>1, Processes DEF Coord, CliKnown
<1>5. GroupsKept'
    <2> SUFFICES ASSUME ~overlapped, ~groupLost, waiter = 0, NEW n \in Starts \ sync, Live(n)'
                 PROVE  \E q \in Requests : pc'[q] = "wait" /\ taken'[q] = n
        BY <1>1 DEF GroupsKept
    <2>1. Live(n) /\ n # 0
        BY <1>1, PeriodicsApart DEF Live, Starts
    <2>2. PICK q \in Requests : pc[q] = "wait" /\ taken[q] = n
        BY <2>1 DEF Coord, GroupsKept
    <2>. QED BY <1>1, <2>2, Processes
<1>6. PlaceEmptied'
    BY <1>1, <1>3, Processes DEF PlaceEmptied, StopLabels, LockedLabels
<1>7. PlaceFilled'
    BY <1>1, <1>3, Processes DEF PlaceFilled, LockedLabels
<1>. QED BY <1>2, <1>4, <1>5, <1>6, <1>7 DEF Coord

\* The periodic runs begin in the wait group that is kept.
LEMMA RunsBeginCoord ==
    ASSUME TInv, Coord, NEW r \in Requests, PeriodicallyRunApps(r)
    PROVE  Coord'
<1>1. pc[r] = "periodic" /\ UNCHANGED <<registry, requests, overlapped>>
    BY DEF PeriodicallyRunApps
<1>2. run[r] \in Starts
    BY <1>1, CliHasStart DEF StartLabels
<1>3. /\ pc'[r] = "unlockOk" /\ \A q \in Requests \ {r} : pc'[q] = pc[q]
      /\ \A n \in Starts \ {run[r]} : pc'[Periodic(n)] = pc[Periodic(n)]
    BY <1>2, Processes, PeriodicsApart DEF PeriodicallyRunApps, TInv, Typed
<1>4. OneLocked'
    BY <1>1, <1>3 DEF Coord, OneLocked, Locked, LockedLabels
<1>5. CliKnown'
    BY <1>1, <1>3 DEF Coord, CliKnown, requests
<1>6. GroupsKept'
    <2> SUFFICES ASSUME ~overlapped, ~groupLost, NEW n \in Starts \ sync, Live(n)'
                 PROVE  waiter = n \/ \E q \in Requests : pc'[q] = "wait" /\ taken[q] = n
        BY <1>1 DEF GroupsKept, registry, requests
    <2>1. CASE n = run[r]
        BY <1>1, <2>1 DEF Coord, PlaceFilled
    <2>2. CASE n # run[r]
        <3>1. Live(n)
            BY <1>3, <2>2 DEF Live
        <3>2. waiter = n \/ \E q \in Requests : pc[q] = "wait" /\ taken[q] = n
            BY <3>1 DEF Coord, GroupsKept
        <3>. QED BY <1>1, <1>3, <3>2
    <2>. QED BY <2>1, <2>2
<1>7. PlaceEmptied' /\ PlaceFilled'
    BY <1>1, <1>3 DEF Coord, PlaceEmptied, PlaceFilled, registry, requests, StopLabels
<1>. QED BY <1>4, <1>5, <1>6, <1>7 DEF Coord

\* A stop takes the wait group.
LEMMA TakeCoord ==
    ASSUME TInv, Coord, NEW r \in Requests, TakeCancelers(r)
    PROVE  Coord'
<1>1. /\ pc[r] = "take" /\ pc'[r] = "wait" /\ \A q \in Procs \ {r} : pc'[q] = pc[q]
      /\ waiter' = 0 /\ taken'[r] = waiter /\ \A q \in Requests \ {r} : taken'[q] = taken[q]
      /\ UNCHANGED <<run, sync, groupLost, overlapped>>
    BY Processes DEF TakeCancelers, Goto, TInv, Typed
<1>2. OneLocked'
    BY <1>1, Processes DEF Coord, OneLocked, Locked, LockedLabels
<1>3. ~overlapped => \A q \in Requests \ {r} : pc[q] \notin LockedLabels
    BY <1>1 DEF Coord, OneLocked, Locked, LockedLabels
<1>4. CliKnown'
    BY <1>1, Processes DEF Coord, CliKnown
<1>5. GroupsKept'
    <2> SUFFICES ASSUME ~overlapped, ~groupLost, NEW n \in Starts \ sync, Live(n)'
                 PROVE  \E q \in Requests : pc'[q] = "wait" /\ taken'[q] = n
        BY <1>1 DEF GroupsKept
    <2>1. Live(n)
        BY <1>1, PeriodicsApart DEF Live
    <2>2. waiter = n \/ \E q \in Requests : pc[q] = "wait" /\ taken[q] = n
        BY <2>1 DEF Coord, GroupsKept
    <2>. QED BY <1>1, <2>2, Processes
<1>6. PlaceEmptied' /\ PlaceFilled'
    BY <1>1, <1>3, Processes DEF PlaceEmptied, PlaceFilled, LockedLabels
<1>. QED BY <1>2, <1>4, <1>5, <1>6 DEF Coord

\* The runs of the group that was taken have ended.
LEMMA WaitCoord ==
    ASSUME TInv, Coord, NEW r \in Requests, WaitForApps(r)
    PROVE  Coord'
<1>1. /\ pc[r] = "wait" /\ pc'[r] = "stopGet" /\ \A q \in Procs \ {r} : pc'[q] = pc[q]
      /\ taken[r] # 0 => Ended(Periodic(taken[r]))
      /\ UNCHANGED <<waiter, run, taken, sync, groupLost, overlapped>>
    BY Processes DEF WaitForApps, registry, requests, Goto, TInv, Typed
<1>2. OneLocked'
    BY <1>1, Processes DEF Coord, OneLocked, Locked, LockedLabels
<1>3. CliKnown'
    BY <1>1, Processes DEF Coord, CliKnown
<1>4. GroupsKept'
    <2> SUFFICES ASSUME ~overlapped, ~groupLost, NEW n \in Starts \ sync, Live(n)'
                 PROVE  waiter = n \/ \E q \in Requests : pc'[q] = "wait" /\ taken[q] = n
        BY <1>1 DEF GroupsKept
    <2>1. Live(n) /\ n # 0
        BY <1>1, PeriodicsApart DEF Live, Starts
    <2>2. waiter = n \/ \E q \in Requests : pc[q] = "wait" /\ taken[q] = n
        BY <2>1 DEF Coord, GroupsKept
    <2>3. ~(pc[r] = "wait" /\ taken[r] = n)
        BY <1>1, <2>1 DEF Live, Ended
    <2>. QED BY <1>1, <2>2, <2>3, Processes
<1>5. PlaceEmptied' /\ PlaceFilled'
    BY <1>1, Processes DEF Coord, PlaceEmptied, PlaceFilled
<1>. QED BY <1>2, <1>3, <1>4, <1>5 DEF Coord

\* experiment.Stop.
LEMMA StopCoord ==
    ASSUME TInv, Coord, NEW a \in Requests \cup Finishers, Stop(a)
    PROVE  Coord'
<1>1. UNCHANGED <<registry, requests, overlapped>> /\ pc[a] \in StopLabels
    BY DEF Stop, StopGet, StopCleanup, StopClear, StopPut, StopLabels
<1>2. PICK label \in StopLabels \cup {"unlockOk", "unlockErr", "done"} :
            Goto(a, label) /\ (a \in Requests => label # "done")
    <2>1. CASE StopGet(a)
        BY <2>1, Processes DEF StopGet, StopReturn, StopLabels
    <2>2. CASE StopCleanup(a)
        BY <2>2 DEF StopCleanup, StopLabels
    <2>3. CASE StopClear(a)
        BY <2>3 DEF StopClear, Outcome, StopLabels
    <2>4. CASE StopPut(a)
        BY <2>4, Processes DEF StopPut, StopReturn, StopLabels
    <2>. QED BY <2>1, <2>2, <2>3, <2>4 DEF Stop
<1>3. CASE a \in Requests
    BY <1>1, <1>2, <1>3, GoingCoord DEF registry, requests, StopLabels, LockedLabels
<1>4. CASE a \in Finishers
    <2>1. (\A q \in Requests : pc'[q] = pc[q]) /\ \A n \in Starts : Live(n)' => Live(n)
        BY <1>2, <1>4, Processes, PeriodicsApart DEF Goto, Live, TInv, Typed
    <2>. QED BY <1>1, <2>1, OthersCoord DEF registry, requests
<1>. QED BY <1>3, <1>4

LEMMA CliCoord ==
    ASSUME TInv, Coord, NEW r \in Requests, CliGet(r) \/ CliStarted(r)
    PROVE  Coord'
<1> DEFINE n == run[r]
<1>1. pc[r] \in {"cliGet", "cliWait"} /\ UNCHANGED <<registry, overlapped>>
    BY DEF CliGet, CliStarted
<1>2. n \in Starts
    BY <1>1, CliHasStart DEF CliLabels
<1>3. CASE Leave(r, FALSE)
    BY <1>1, <1>3, LeavingCoord DEF registry
<1>4. CASE /\ sync' = sync \cup {n}
           /\ pc' = [pc EXCEPT ![r] = "cliWait", ![Launcher(n)] = "startGet"]
           /\ UNCHANGED <<todo, run, taken, starts>>
    <2>1. /\ pc'[r] = "cliWait" /\ \A q \in Requests \ {r} : pc'[q] = pc[q]
          /\ \A m \in Starts : Live(m)' => Live(m)
        BY <1>2, <1>4, Processes, PeriodicsApart DEF Live, TInv, Typed
    <2>2. OneLocked'
        BY <1>1, <2>1 DEF Coord, OneLocked, Locked, LockedLabels, StopLabels
    <2>3. CliKnown'
        BY <1>4, <2>1 DEF Coord, CliKnown
    <2>4. GroupsKept'
        <3> SUFFICES ASSUME ~overlapped, ~groupLost, NEW m \in Starts \ sync, Live(m)'
                     PROVE  waiter = m \/ \E q \in Requests : pc'[q] = "wait" /\ taken[q] = m
            BY <1>1, <1>4 DEF GroupsKept, registry
        <3>1. waiter = m \/ \E q \in Requests : pc[q] = "wait" /\ taken[q] = m
            BY <2>1 DEF Coord, GroupsKept
        <3>. QED BY <1>1, <2>1, <3>1
    <2>5. PlaceEmptied' /\ PlaceFilled'
        BY <1>1, <1>4, <2>1 DEF Coord, PlaceEmptied, PlaceFilled, registry, StopLabels
    <2>. QED BY <2>2, <2>3, <2>4, <2>5 DEF Coord
<1>5. CASE CliStarted(r)
    <2>1. n \in sync /\ pc[r] = "cliWait"
        BY <1>5 DEF CliStarted, Coord, CliKnown
    <2>2. /\ pc'[r] = "idle" /\ \A q \in Requests \ {r} : pc'[q] = pc[q]
          /\ \A m \in Starts \ {n} : Live(m)' => Live(m)
        BY <1>2, <1>5, Processes, PeriodicsApart DEF CliStarted, Live, TInv, Typed
    <2>3. /\ \A q \in Requests \ {r} : run'[q] = run[q]
          /\ UNCHANGED <<taken, sync>>
        BY <1>5 DEF CliStarted, TInv, Typed
    <2>4. OneLocked'
        BY <1>1, <2>2 DEF Coord, OneLocked, Locked, LockedLabels, StopLabels
    <2>5. CliKnown'
        BY <2>2, <2>3 DEF Coord, CliKnown
    <2>6. GroupsKept'
        <3> SUFFICES ASSUME ~overlapped, ~groupLost, NEW m \in Starts \ sync, Live(m)'
                     PROVE  waiter = m \/ \E q \in Requests : pc'[q] = "wait" /\ taken[q] = m
            BY <1>1, <2>3 DEF GroupsKept, registry
        <3>1. waiter = m \/ \E q \in Requests : pc[q] = "wait" /\ taken[q] = m
            BY <2>1, <2>2 DEF Coord, GroupsKept
        <3>. QED BY <1>1, <2>2, <3>1
    <2>7. PlaceEmptied' /\ PlaceFilled'
        BY <1>1, <2>2, <2>3 DEF Coord, PlaceEmptied, PlaceFilled, registry, StopLabels
    <2>. QED BY <2>4, <2>5, <2>6, <2>7 DEF Coord
<1>. QED BY <1>3, <1>4, <1>5 DEF CliGet

LEMMA LaterRequestsCoord ==
    ASSUME TInv, Coord, NEW r \in Requests,
           \/ Create(r) \/ DeleteExperiment(r) \/ ScheduleCheck(r) \/ UpdateGet(r) \/ UpdatePut(r)
           \/ TriggerExperimentApps(r) \/ Reread(r) \/ WorkflowPut(r) \/ Reconfigure(r) \/ ConfigUpdate(r)
    PROVE  Coord'
<1> DEFINE Lock == {"create1", "create2", "create", "delCheck", "delDo", "wfPut", "reGet", "reApp1",
                    "reApp2", "reCheck", "rePut", "reCreate", "reDelete"}
           Free == {"schedCheck", "updGet", "updPut", "trigGet", "trigMark", "trigRun", "trigPut", "reread"}
           After == {"create2", "create", "delDo", "reGet", "reApp1", "reApp2", "reCheck", "rePut",
                     "reCreate", "reDelete", "unlockOk", "unlockErr"}
           Later == {"updGet", "updPut", "trigMark", "trigRun", "trigPut", "add"}
<1>1. pc[r] \in Lock \cup Free /\ UNCHANGED <<registry, overlapped>>
    BY DEF Create, DeleteExperiment, Delete, ScheduleCheck, UpdateGet, UpdatePut, TriggerExperimentApps,
        TriggerGet, TriggerMark, TriggerReload, TriggerPut, Reread, WorkflowPut, Reconfigure, ConfigUpdate
<1>2. \/ \E ok \in BOOLEAN : Leave(r, ok)
      \/ /\ UNCHANGED <<run, taken, starts, sync>>
         /\ \/ pc[r] \in Lock /\ \E label \in After : Goto(r, label)
            \/ \E label \in Later : Goto(r, label)
    <2>1. CASE Create(r) \/ DeleteExperiment(r)
        BY <2>1 DEF Create, DeleteExperiment, Delete, requests
    <2>2. CASE ScheduleCheck(r) \/ UpdateGet(r) \/ UpdatePut(r) \/ TriggerExperimentApps(r) \/ Reread(r)
        BY <2>2 DEF ScheduleCheck, UpdateGet, UpdatePut, TriggerExperimentApps, TriggerGet, TriggerMark,
            TriggerReload, TriggerPut, Reread, requests
    <2>3. CASE WorkflowPut(r) \/ Reconfigure(r) \/ ConfigUpdate(r)
        BY <2>3 DEF WorkflowPut, Reconfigure, ConfigUpdate, requests
    <2>. QED BY <2>1, <2>2, <2>3
<1>3. CASE \E ok \in BOOLEAN : Leave(r, ok)
    BY <1>1, <1>3, LeavingCoord DEF registry
<1>4. CASE /\ UNCHANGED <<run, taken, starts, sync>>
           /\ pc[r] \in Lock /\ \E label \in After : Goto(r, label)
    BY <1>1, <1>4, GoingCoord DEF registry, LockedLabels, StopLabels
<1>5. CASE /\ UNCHANGED <<run, taken, starts, sync>>
           /\ \E label \in Later : Goto(r, label)
    BY <1>1, <1>5, GoingCoord DEF registry, LockedLabels, StopLabels
<1>. QED BY <1>2, <1>3, <1>4, <1>5

LEMMA RequestCoord ==
    ASSUME TInv, Coord, NEW r \in Requests, RequestStep(r)
    PROVE  Coord'
<1>1. CASE Add(r)
    <2>1. pc[r] = "add" /\ UNCHANGED <<registry, requests>>
        BY <1>1 DEF Add
    <2>2. CASE Enter(r)
        BY <2>1, <2>2, EnterCoord DEF registry, requests
    <2>3. CASE Goto(r, "lookup") /\ UNCHANGED overlapped
        BY <2>1, <2>3, GoingCoord DEF registry, requests, LockedLabels, StopLabels
    <2>. QED BY <1>1, <2>2, <2>3 DEF Add
<1>2. CASE Lookup(r)
    <2>1. pc[r] = "lookup" /\ UNCHANGED registry
        BY <1>2 DEF Lookup
    <2>2. CASE Enter(r) /\ UNCHANGED <<exp, requests>>
        BY <2>1, <2>2, EnterCoord DEF registry, requests
    <2>3. CASE Leave(r, FALSE) /\ UNCHANGED overlapped
        BY <2>1, <2>3, LeavingCoord DEF registry
    <2>. QED BY <1>2, <2>2, <2>3 DEF Lookup
<1>3. CASE UnlockExperiment(r) \/ DeferredUnlock(r)
    <2>1. /\ pc[r] \in {"unlockOk", "unlockErr", "deferred"} /\ UNCHANGED <<registry, overlapped>>
          /\ \E ok : Leave(r, ok)
        BY <1>3 DEF UnlockExperiment, DeferredUnlock
    <2>. QED BY <2>1, LeavingCoord DEF registry
<1>4. CASE Spawn(r) \/ ReceiveResult(r)
    <2>1. /\ pc[r] \in {"spawn", "startWait"} /\ UNCHANGED <<registry, requests, overlapped>>
        BY <1>4 DEF Spawn, ReceiveResult
    <2>2. run[r] \in Starts
        BY <2>1, CliHasStart DEF StartLabels
    <2>3. /\ pc'[r] \in {"startWait", "unlockErr", "register"}
          /\ \A q \in Requests \ {r} : pc'[q] = pc[q]
          /\ \A n \in Starts : Live(n)' => Live(n)
        <3>1. CASE Spawn(r)
            BY <2>2, <3>1, Processes, PeriodicsApart DEF Spawn, Live, TInv, Typed
        <3>2. CASE ReceiveResult(r)
            BY <2>2, <3>2, Processes, PeriodicsApart DEF ReceiveResult, Live, TInv, Typed
        <3>. QED BY <1>4, <3>1, <3>2
    <2>4. Quiet(r)
        BY <2>1, <2>3 DEF Quiet, registry, requests, LockedLabels, StopLabels
    <2>. QED BY <2>4, QuietCoord
<1>5. CASE Register(r)
    BY <1>5, RegisterCoord
<1>6. CASE PeriodicallyRunApps(r)
    BY <1>6, RunsBeginCoord
<1>7. CASE StopExperiment(r)
    BY <1>7, TakeCoord, WaitCoord, StopCoord DEF StopExperiment
<1>8. CASE CliGet(r) \/ CliStarted(r)
    BY <1>8, CliCoord
<1>. QED BY <1>1, <1>2, <1>3, <1>4, <1>5, <1>6, <1>7, <1>8, LaterRequestsCoord
        DEF RequestStep, StartExperiment

LEMMA GoroutineCoord ==
    ASSUME TInv, Coord, NEW n \in Starts,
           Launch(n) \/ Finish(n) \/ PeriodicStep(n) \/ PeriodicRuns(n) \/ Interrupt(n)
    PROVE  Coord'
<1>1. CASE Launch(n)
    <2>1. /\ UNCHANGED <<waiter, sync, groupLost, overlapped, run, taken>>
          /\ \/ \E label : Goto(Launcher(n), label)
             \/ \E next : pc' = [pc EXCEPT ![Launcher(n)] = "stamp", ![Finisher(n)] = next]
        BY <1>1 DEF Launch, Track, StartGet, PreStart, LaunchVMs, Fork, FinishInline, Stamp, RecordStart,
            Fetch, StartFailed, registry, requests
    <2>2. (\A q \in Requests : pc'[q] = pc[q]) /\ \A m \in Starts : Live(m)' => Live(m)
        BY <2>1, StartsGoroutine, Processes, PeriodicsApart DEF Goto, Live, TInv, Typed
    <2>. QED BY <2>1, <2>2, OthersCoord
<1>2. CASE HandleDelayedVMs(n) \/ PostStart(n) \/ ReportError(n)
    <2>1. /\ UNCHANGED <<waiter, sync, groupLost, overlapped, run, taken>>
          /\ \E label : Goto(Finisher(n), label)
        BY <1>2 DEF HandleDelayedVMs, PostStart, ReportError, registry, requests
    <2>2. (\A q \in Requests : pc'[q] = pc[q]) /\ \A m \in Starts : Live(m)' => Live(m)
        BY <2>1, StartsGoroutine, Processes, PeriodicsApart DEF Goto, Live, TInv, Typed
    <2>. QED BY <2>1, <2>2, OthersCoord
<1>3. CASE Stop(Finisher(n))
    BY <1>3, StopCoord DEF Finishers
<1>4. CASE PeriodicStep(n) \/ PeriodicRuns(n)
    <2>1. /\ UNCHANGED <<waiter, sync, groupLost, overlapped, run, taken>> /\ Live(n)
          /\ \E label : Goto(Periodic(n), label)
        BY <1>4 DEF PeriodicStep, PeriodicBegins, PeriodicRan, PeriodicEnds, PeriodicRuns, Live,
            registry, requests
    <2>2. (\A q \in Requests : pc'[q] = pc[q]) /\ \A m \in Starts : Live(m)' => Live(m)
        BY <2>1, StartsGoroutine, Processes, PeriodicsApart DEF Goto, Live, TInv, Typed
    <2>. QED BY <2>1, <2>2, OthersCoord
<1>5. CASE Interrupt(n)
    BY <1>5, OthersCoord DEF Interrupt, requests, Live
<1>. QED BY <1>1, <1>2, <1>3, <1>4, <1>5 DEF Finish

LEMMA InitCoord == ASSUME Init PROVE Coord
<1>1. \A r \in Requests : pc[r] = "idle"
    BY Processes DEF Init
<1>2. \A n \in Starts : ~Live(n)
    BY PeriodicsApart DEF Init, Live
<1>. QED BY <1>1, <1>2
        DEF Coord, OneLocked, CliKnown, GroupsKept, PlaceEmptied, PlaceFilled, Locked, LockedLabels, StopLabels

LEMMA SubmitCoord ==
    ASSUME TInv, Coord, NEW r \in Requests, Submit(r)
    PROVE  Coord'
<1>1. PICK plan \in Plans :
        /\ Goto(r, EntryOf[Head(plan)])
        /\ run' = [run EXCEPT ![r] = IF MakesStart(plan) THEN starts + 1 ELSE 0]
    BY DEF Submit
<1>2. UNCHANGED <<registry, taken, sync, overlapped>> /\ pc[r] = "idle"
    BY DEF Submit
<1>3. EntryOf[Head(plan)] \in
        {"add", "updGet", "schedCheck", "trigGet", "cliGet", "reread", "deferred"}
    BY PlansAreWellFormed, RestOfPlan, Entries
<1>4. pc'[r] = EntryOf[Head(plan)] /\ \A q \in Procs \ {r} : pc'[q] = pc[q]
    BY <1>1, Processes DEF Goto, TInv, Typed
<1>5. Quiet(r)
    BY <1>1, <1>2, <1>3, <1>4, Processes, PeriodicsApart
        DEF Quiet, Live, LockedLabels, StopLabels, registry, TInv, Typed
<1>. QED BY <1>5, QuietCoord

LEMMA StepCoord == ASSUME TInv, Coord, [Next]_vars PROVE Coord'
<1>1. CASE LockExpires
    BY <1>1, OthersCoord DEF LockExpires, registry, requests, Live
<1>2. CASE \E r \in Requests : Submit(r) \/ RequestStep(r)
    BY <1>2, SubmitCoord, RequestCoord
<1>3. CASE \E n \in Starts : Launch(n) \/ Finish(n) \/ PeriodicStep(n) \/ PeriodicRuns(n) \/ Interrupt(n)
    BY <1>3, GoroutineCoord
<1>4. CASE UNCHANGED vars
    BY <1>4, OthersCoord DEF vars, registry, requests, Live
<1>. QED BY <1>1, <1>2, <1>3, <1>4 DEF Next

\* While a stop of the web server reads, clears and writes the status, no
\* periodic run of the web server is left that could write it (stopExperiment
\* cancels the runs and waits for the wait group it took), provided no two
\* locked phases overlapped and no start replaced a wait group still kept.
THEOREM AppsAreQuiet == Spec => []AppsQuietInStop
<1>1. Init => TInv /\ Coord
    BY InitTyped, InitCoord
<1>2. TInv /\ Coord /\ [Next]_vars => (TInv /\ Coord)'
    BY StepTyped, StepCoord
<1>3. TInv /\ Coord => AppsQuietInStop
    <2> SUFFICES ASSUME TInv, Coord, ~overlapped, ~groupLost,
                        NEW r \in Requests, NEW n \in Starts \ sync, pc[r] \in StopLabels, Live(n)
                 PROVE  FALSE
        BY DEF AppsQuietInStop
    <2>1. waiter = 0 /\ n # 0
        BY DEF Coord, PlaceEmptied, Starts
    <2>2. PICK q \in Requests : pc[q] = "wait" /\ taken[q] = n
        BY <2>1 DEF Coord, GroupsKept
    <2>3. q = r
        BY <2>2 DEF Coord, OneLocked, Locked, LockedLabels
    <2>. QED BY <2>2, <2>3 DEF StopLabels
<1>. QED BY <1>1, <1>2, <1>3, PTL DEF Spec

----------------------------------------------------------------------------
(* No orphaned VMs. First the labels: under the hypotheses only the steps  *)
(* of creates, deletes, starts and stops are taken.                        *)

\* The goroutines of the starts are all different.
LEMMA Apart ==
    /\ \A n, m \in Starts :
        /\ Launcher(n) # Finisher(m) /\ Launcher(n) # Periodic(m) /\ Finisher(n) # Periodic(m)
        /\ Launcher(n) = Launcher(m) => n = m
        /\ Finisher(n) = Finisher(m) => n = m
    /\ \A n \in Starts : Launcher(n) \notin Finishers /\ Finisher(n) \in Finishers
    /\ \A f \in Finishers : \E n \in Starts : f = Finisher(n)
BY DEF Launcher, Finisher, Periodic, Finishers

LEMMA BasicPlan ==
    ASSUME Basic, NEW r \in Requests, todo[r] # <<>>
    PROVE  /\ Head(todo[r]) \in BasicOps /\ Tail(todo[r]) = <<>>
           /\ Head(todo[r]) \in LockStatuses
<1>1. PICK op \in BasicOps : todo[r] = <<op>>
    BY DEF Basic, BasicPlans
<1>2. Head(<<op>>) = op /\ Tail(<<op>>) = <<>>
    OBVIOUS
<1>. QED BY <1>1, <1>2 DEF BasicOps, LockStatuses

\* A request that leaves its phase is done.
LEMMA BasicLeave ==
    ASSUME TInv, Basic, NEW r \in Requests, NEW ok, pc[r] # "idle", Leave(r, ok)
    PROVE  /\ pc' = [pc EXCEPT ![r] = "idle"]
           /\ todo' = [todo EXCEPT ![r] = <<>>] /\ run' = [run EXCEPT ![r] = 0]
           /\ \A p \in Procs \ {r} : exp'[p] = exp[p]
           /\ UNCHANGED <<starts, sync>>
<1>1. todo[r] # <<>>
    BY DEF TInv, Planned, Agrees
<1>2. (IF ok \/ Head(todo[r]) = "start" THEN Tail(todo[r]) ELSE <<>>) = <<>>
    BY <1>1, BasicPlan
<1>. QED BY <1>2 DEF Leave, Goto, TInv, Typed

\* A request that moves, with no other process.
LEMMA BasicMove ==
    ASSUME TInv, Basic, NEW r \in Requests, NEW label,
           label \in {"idle", "lookup", "create", "delCheck", "delDo", "spawn", "startWait", "register",
                      "periodic", "unlockOk", "unlockErr"} \cup StopPhase,
           label \in {"lookup", "spawn"} => pc[r] \in {"add", "lookup"},
           pc' = [pc EXCEPT ![r] = label],
           todo' = [todo EXCEPT ![r] = <<>>] \/ UNCHANGED todo,
           run' = [run EXCEPT ![r] = 0] \/ UNCHANGED run,
           UNCHANGED <<starts, sync>>
    PROVE  Basic'
<1>1. /\ pc'[r] = label /\ \A p \in Procs \ {r} : pc'[p] = pc[p]
      /\ \A n \in Starts : pc'[Launcher(n)] = pc[Launcher(n)] /\ pc'[Finisher(n)] = pc[Finisher(n)]
                           /\ pc'[Periodic(n)] = pc[Periodic(n)]
    BY Processes DEF TInv, Typed
<1>2. BasicPlans'
    BY DEF TInv, Planned, Basic, BasicPlans
<1>3. BasicLabels'
    BY <1>1, Processes DEF Basic, BasicLabels
<1>4. /\ run \in [Requests -> 0 .. MaxStarts] /\ starts \in 0 .. MaxStarts
      /\ run' \in [Requests -> 0 .. MaxStarts]
      /\ \A q \in Requests : run'[q] \in {0, run[q]} /\ (q # r => run'[q] = run[q])
    <2>1. run \in [Requests -> 0 .. MaxStarts] /\ starts \in 0 .. MaxStarts /\ 0 \in 0 .. MaxStarts
        BY MaxStartsAssumption DEF TInv, Typed
    <2>2. CASE run' = [run EXCEPT ![r] = 0]
        BY <2>1, <2>2
    <2>3. CASE UNCHANGED run
        BY <2>1, <2>3
    <2>. QED BY <2>1, <2>2, <2>3
<1>5. StartsFresh'
    <2>1. \A q \in Requests : run'[q] <= starts'
        BY <1>4, MaxStartsAssumption DEF Basic, StartsFresh
    <2>2. \A p, q \in Requests : run'[p] = run'[q] /\ run'[p] # 0 => p = q
        BY <1>4 DEF Basic, StartsFresh
    <2>3. \A n \in Starts : n > starts' => pc'[Launcher(n)] = "none" /\ pc'[Finisher(n)] = "none"
        BY <1>1 DEF Basic, StartsFresh
    <2>4. ASSUME NEW q \in Requests, pc'[q] \in {"add", "lookup", "spawn"}, run'[q] # 0
          PROVE  pc'[Launcher(run'[q])] = "none" /\ pc'[Finisher(run'[q])] = "none"
        <3>1. run'[q] = run[q] /\ run[q] \in Starts
            BY <1>4, <2>4, MaxStartsAssumption DEF Starts
        <3>2. pc[q] \in {"add", "lookup", "spawn"}
            BY <1>1, <2>4, Processes DEF StopPhase, StopTail
        <3>3. pc[Launcher(run[q])] = "none" /\ pc[Finisher(run[q])] = "none"
            BY <2>4, <3>1, <3>2 DEF Basic, StartsFresh
        <3>. QED BY <1>1, <3>1, <3>3
    <2>. QED BY <2>1, <2>2, <2>3, <2>4 DEF StartsFresh
<1>. QED BY <1>2, <1>3, <1>5 DEF Basic

\* A goroutine of start n that moves on, and perhaps the one that finishes it.
LEMMA BasicGoroutine ==
    ASSUME TInv, Basic, NEW n \in Starts,
           \A q \in Requests : pc'[q] = pc[q],
           \A m \in Starts : pc'[Periodic(m)] = pc[Periodic(m)],
           \A m \in Starts \ {n} : pc'[Launcher(m)] = pc[Launcher(m)] /\ pc'[Finisher(m)] = pc[Finisher(m)],
           pc'[Launcher(n)] \in {"none", "resend", "done"} \cup Awaited,
           pc'[Finisher(n)] \in {"none", "delay", "delayFailed", "post", "report", "done"} \cup StopTail,
           pc[Launcher(n)] # "none" \/ pc[Finisher(n)] # "none",
           UNCHANGED <<todo, run, starts, sync>>
    PROVE  Basic'
<1>1. BasicPlans'
    BY DEF Basic, BasicPlans
<1>2. BasicLabels'
    BY DEF Basic, BasicLabels
<1>3. StartsFresh'
    <2>1. \A q \in Requests : run'[q] <= starts'
        BY DEF Basic, StartsFresh
    <2>2. \A p, q \in Requests : run'[p] = run'[q] /\ run'[p] # 0 => p = q
        BY DEF Basic, StartsFresh
    <2>3. \A m \in Starts : m > starts' => pc'[Launcher(m)] = "none" /\ pc'[Finisher(m)] = "none"
        BY DEF Basic, StartsFresh
    <2>4. ASSUME NEW q \in Requests, pc'[q] \in {"add", "lookup", "spawn"}, run'[q] # 0
          PROVE  pc'[Launcher(run'[q])] = "none" /\ pc'[Finisher(run'[q])] = "none"
        <3>1. run[q] \in Starts
            BY <2>4, MaxStartsAssumption DEF TInv, Typed, Starts
        <3>2. pc[Launcher(run[q])] = "none" /\ pc[Finisher(run[q])] = "none"
            BY <2>4 DEF Basic, StartsFresh
        <3>3. run[q] # n
            BY <3>2
        <3>. QED BY <3>1, <3>2, <3>3
    <2>. QED BY <2>1, <2>2, <2>3, <2>4 DEF StartsFresh
<1>. QED BY <1>1, <1>2, <1>3 DEF Basic

\* A request that arrives takes the next start.
LEMMA BasicSubmit ==
    ASSUME Undisturbed, TInv, Basic, NEW r \in Requests, Submit(r)
    PROVE  Basic' /\ pc' = [pc EXCEPT ![r] = "add"]
<1>1. PICK plan \in Plans :
        /\ MakesStart(plan) => starts < MaxStarts
        /\ todo' = [todo EXCEPT ![r] = plan]
        /\ Goto(r, EntryOf[Head(plan)])
        /\ starts' = IF MakesStart(plan) THEN starts + 1 ELSE starts
        /\ run' = [run EXCEPT ![r] = IF MakesStart(plan) THEN starts + 1 ELSE 0]
    BY DEF Submit
<1>2. UNCHANGED sync
    BY DEF Submit
<1>3. PICK op \in BasicOps : plan = <<op>>
    BY DEF Undisturbed, Plans, BasicOps
<1>4. Head(<<op>>) = op /\ EntryOf[op] = "add"
    BY DEF EntryOf, BasicOps
<1>5. pc' = [pc EXCEPT ![r] = "add"]
    BY <1>1, <1>3, <1>4 DEF Goto
<1>6. /\ pc'[r] = "add" /\ \A p \in Procs \ {r} : pc'[p] = pc[p]
      /\ \A n \in Starts : pc'[Launcher(n)] = pc[Launcher(n)] /\ pc'[Finisher(n)] = pc[Finisher(n)]
                           /\ pc'[Periodic(n)] = pc[Periodic(n)]
    BY <1>5, Processes DEF TInv, Typed
<1>7. /\ run \in [Requests -> 0 .. MaxStarts] /\ starts \in 0 .. MaxStarts
      /\ run'[r] \in {0, starts + 1} /\ (run'[r] # 0 => starts' = starts + 1 /\ starts + 1 \in Starts)
      /\ starts' \in {starts, starts + 1}
      /\ \A q \in Requests \ {r} : run'[q] = run[q]
    BY <1>1, MaxStartsAssumption DEF TInv, Typed, Starts
<1>8. BasicPlans'
    BY <1>1, <1>3 DEF TInv, Planned, Basic, BasicPlans
<1>9. BasicLabels'
    BY <1>2, <1>6, Processes DEF Basic, BasicLabels
<1>10. StartsFresh'
    <2>1. \A q \in Requests : run'[q] <= starts'
        BY <1>7, MaxStartsAssumption DEF Basic, StartsFresh
    <2>2. \A p, q \in Requests : run'[p] = run'[q] /\ run'[p] # 0 => p = q
        <3>1. \A q \in Requests : run[q] \in Nat /\ run[q] <= starts
            BY <1>7, MaxStartsAssumption DEF Basic, StartsFresh
        <3>. QED BY <1>7, <3>1, MaxStartsAssumption DEF Basic, StartsFresh
    <2>3. \A n \in Starts : n > starts' => pc'[Launcher(n)] = "none" /\ pc'[Finisher(n)] = "none"
        BY <1>6, <1>7, MaxStartsAssumption DEF Basic, StartsFresh, Starts
    <2>4. ASSUME NEW q \in Requests, pc'[q] \in {"add", "lookup", "spawn"}, run'[q] # 0
          PROVE  pc'[Launcher(run'[q])] = "none" /\ pc'[Finisher(run'[q])] = "none"
        <3>1. CASE q = r
            <4>1. run'[q] = starts + 1 /\ starts + 1 \in Starts /\ starts + 1 > starts
                BY <2>4, <3>1, <1>7
            <4>. QED BY <4>1, <1>6 DEF Basic, StartsFresh
        <3>2. CASE q # r
            <4>1. run'[q] = run[q] /\ run[q] \in Starts /\ pc[q] = pc'[q]
                BY <2>4, <3>2, <1>6, <1>7, Processes, MaxStartsAssumption DEF Starts
            <4>2. pc[Launcher(run[q])] = "none" /\ pc[Finisher(run[q])] = "none"
                BY <2>4, <4>1 DEF Basic, StartsFresh
            <4>. QED BY <4>1, <4>2, <1>6
        <3>. QED BY <3>1, <3>2
    <2>. QED BY <2>1, <2>2, <2>3, <2>4 DEF StartsFresh
<1>. QED BY <1>5, <1>8, <1>9, <1>10 DEF Basic

----------------------------------------------------------------------------
(* Who works alone. OneLocked leaves a start in progress no other locked   *)
(* phase, and so no other start.                                           *)

LEMMA DeploysAlone ==
    ASSUME TInv, OneLocked, OInv, ~overlapped, NEW n \in Starts, pc[Launcher(n)] \in Awaited
    PROVE  /\ \E r \in Requests : pc[r] = "startWait" /\ run[r] = n
           /\ \A q \in Requests : pc[q] \notin StopPhase \cup {"delDo"}
           /\ \A m \in Starts \ {n} : pc[Launcher(m)] \notin Awaited
<1>1. PICK r \in Requests : pc[r] = "startWait" /\ run[r] = n
    BY DEF OInv, Orderly, LauncherAwaited
<1>2. \A q \in Requests \ {r} : pc[q] \notin LockedLabels
    BY <1>1 DEF OneLocked, Locked, LockedLabels
<1>3. StopPhase \cup {"delDo", "startWait"} \subseteq LockedLabels
    BY DEF StopPhase, StopTail, LockedLabels, StopLabels
<1>4. \A q \in Requests : pc[q] \notin StopPhase \cup {"delDo"}
    BY <1>1, <1>2, <1>3 DEF StopPhase, StopTail
<1>5. \A m \in Starts \ {n} : pc[Launcher(m)] \notin Awaited
    <2> SUFFICES ASSUME NEW m \in Starts, m # n, pc[Launcher(m)] \in Awaited
                 PROVE  FALSE
        OBVIOUS
    <2>1. PICK q \in Requests : pc[q] = "startWait" /\ run[q] = m
        BY DEF OInv, Orderly, LauncherAwaited
    <2>. QED BY <1>1, <1>2, <1>3, <2>1
<1>. QED BY <1>1, <1>4, <1>5

\* A request in a locked phase other than the wait for a start has no start
\* in progress beside it.
LEMMA LockedAlone ==
    ASSUME TInv, OneLocked, OInv, ~overlapped, NEW r \in Requests, Locked(r), pc[r] # "startWait"
    PROVE  /\ \A n \in Starts : pc[Launcher(n)] \notin Awaited
           /\ \A q \in Requests \ {r} : ~Locked(q)
<1>1. \A q \in Requests \ {r} : ~Locked(q)
    BY DEF OneLocked
<1>2. \A n \in Starts : pc[Launcher(n)] \notin Awaited
    <2> SUFFICES ASSUME NEW n \in Starts, pc[Launcher(n)] \in Awaited
                 PROVE  FALSE
        OBVIOUS
    <2>1. PICK q \in Requests : pc[q] = "startWait" /\ run[q] = n
        BY DEF OInv, Orderly, LauncherAwaited
    <2>. QED BY <1>1, <2>1 DEF Locked, LockedLabels
<1>. QED BY <1>1, <1>2

\* A request that moves, with no other process: what it may do to the status
\* and to the VMs without disturbing the order.
LEMMA OrderlyMove ==
    ASSUME TInv, OneLocked, OInv, NEW r \in Requests, NEW label,
           label \in {"idle", "add", "lookup", "create", "delCheck", "delDo", "spawn", "register",
                      "periodic", "unlockOk", "unlockErr"} \cup StopPhase,
           pc' = [pc EXCEPT ![r] = label], pc[r] # "startWait",
           \A q \in Requests \ {r} : run'[q] = run[q],
           \A p \in Procs \ {r} : exp'[p] = exp[p],
           overlapped => overlapped',
           ~overlapped /\ label \in StopPhase /\ pc[r] \notin StopPhase =>
                \A n \in Starts : pc[Finisher(n)] \in {"none", "done"},
           label \in {"stopPut", "stopPutErr"} => vms' = 0,
           label = "delDo" => ~IsRunning',
           vms' \in {0, vms},
           ~overlapped => \/ UNCHANGED status
                          \/ /\ Locked(r) /\ status' \in {0, NoConfig}
                             /\ \/ ~IsRunning
                                \/ pc[r] \in {"stopPut", "stopPutErr"}
    PROVE  Orderly'
<1> SUFFICES ASSUME ~overlapped'
             PROVE  /\ LauncherAwaited' /\ DeploysStopped' /\ FinishesRecorded'
                    /\ StopsAlone' /\ StopsCleared' /\ DeletesStopped' /\ Deployed'
    BY DEF Orderly
<1>1. ~overlapped
    OBVIOUS
<1>2. /\ LauncherAwaited /\ DeploysStopped /\ FinishesRecorded
      /\ StopsAlone /\ StopsCleared /\ DeletesStopped /\ Deployed
    BY <1>1 DEF OInv, Orderly
<1>3. /\ pc'[r] = label /\ \A p \in Procs \ {r} : pc'[p] = pc[p]
      /\ \A n \in Starts : pc'[Launcher(n)] = pc[Launcher(n)] /\ pc'[Finisher(n)] = pc[Finisher(n)]
                           /\ exp'[Launcher(n)] = exp[Launcher(n)]
      /\ \A f \in Finishers : pc'[f] = pc[f]
    BY Processes DEF TInv, Typed
<1>4. LauncherAwaited'
    <2> SUFFICES ASSUME NEW n \in Starts, pc'[Launcher(n)] \in Awaited
                 PROVE  \E q \in Requests : pc'[q] = "startWait" /\ run'[q] = n
        BY DEF LauncherAwaited
    <2>1. PICK q \in Requests : pc[q] = "startWait" /\ run[q] = n
        BY <1>2, <1>3 DEF LauncherAwaited
    <2>. QED BY <1>3, <2>1, Processes
<1>5. CASE UNCHANGED status
    <2>1. DeploysStopped' /\ FinishesRecorded'
        BY <1>2, <1>3, <1>5 DEF DeploysStopped, FinishesRecorded
    <2>2. StopsAlone'
        BY <1>1, <1>2, <1>3, Processes DEF StopsAlone
    <2>3. StopsCleared'
        BY <1>2, <1>3, Processes DEF StopsCleared
    <2>4. DeletesStopped'
        BY <1>2, <1>3, <1>5, Processes DEF DeletesStopped, IsRunning
    <2>5. Deployed'
        BY <1>2, <1>3, <1>5 DEF Deployed, IsRunning
    <2>. QED BY <1>4, <2>1, <2>2, <2>3, <2>4, <2>5
<1>6. CASE /\ Locked(r) /\ status' \in {0, NoConfig}
           /\ \/ ~IsRunning
              \/ pc[r] \in {"stopPut", "stopPutErr"}
    <2>1. /\ \A n \in Starts : pc[Launcher(n)] \notin Awaited
          /\ \A q \in Requests \ {r} : ~Locked(q)
        BY <1>1, <1>6, LockedAlone
    <2>2. ~IsRunning \/ \A n \in Starts : pc[Finisher(n)] \in {"none", "done"}
        BY <1>2, <1>6 DEF StopsAlone, StopPhase, StopTail
    <2>3. DeploysStopped'
        BY <1>3, <2>1 DEF DeploysStopped, Awaited, Deploys
    <2>4. \A n \in Starts : pc[Finisher(n)] \in {"none", "done"}
        <3>1. CASE ~IsRunning
            <4>1. \A n \in Starts : status # n
                BY <3>1, NoConfigAssumption DEF IsRunning, Starts, Status
            <4>2. "stamp" \in Awaited /\ "update" \in Awaited
                BY DEF Awaited, Deploys
            <4>. QED BY <1>2, <2>1, <4>1, <4>2 DEF FinishesRecorded
        <3>. QED BY <2>2, <3>1
    <2>5. FinishesRecorded'
        BY <1>3, <2>4 DEF FinishesRecorded
    <2>6. StopsAlone'
        BY <1>3, <2>4 DEF StopsAlone
    <2>7. StopsCleared'
        BY <1>2, <1>3, Processes DEF StopsCleared
    <2>8. DeletesStopped' /\ ~IsRunning'
        BY <1>6 DEF DeletesStopped, IsRunning
    <2>9. vms' = 0
        <3>1. CASE ~IsRunning
            <4>1. {"fork", "stamp", "update"} \subseteq Awaited
                BY DEF Awaited, Deploys
            <4>. QED BY <1>2, <2>1, <3>1, <4>1 DEF Deployed
        <3>2. CASE pc[r] \in {"stopPut", "stopPutErr"}
            BY <1>2, <3>2 DEF StopsCleared
        <3>. QED BY <1>6, <3>1, <3>2
    <2>10. Deployed'
        BY <2>9 DEF Deployed
    <2>. QED BY <1>4, <2>3, <2>5, <2>6, <2>7, <2>8, <2>10
<1>. QED BY <1>1, <1>5, <1>6

\* A step of the start in progress, on its way or to its end: what is left
\* to show is what it does to the VMs and the status.
LEMMA OrderlyLaunch ==
    ASSUME TInv, OneLocked, OInv, ~overlapped, NEW n \in Starts, pc[Launcher(n)] \in Awaited,
           NEW label \in Awaited, pc'[Launcher(n)] = label,
           \A q \in Requests : pc'[q] = pc[q],
           \A m \in Starts \ {n} : pc'[Launcher(m)] = pc[Launcher(m)] /\ pc'[Finisher(m)] = pc[Finisher(m)],
           pc'[Finisher(n)] = pc[Finisher(n)] \/ pc'[Finisher(n)] \notin StopTail,
           UNCHANGED run,
           \A m \in Starts \ {n} : status' = status \/ status = 0,
           label \in Deploys => status' = 0,
           label = "update" => exp'[Launcher(n)] = n,
           pc'[Finisher(n)] \notin {"none", "done"} =>
                \/ label \in {"stamp", "update"} /\ pc'[Finisher(n)] \notin StopTail
                \/ label \in Answering /\ status' = n,
           vms' = 0 \/ vms' = vms \/ status = 0,
           vms' # 0 => IsRunning' \/ label \in {"fork", "stamp", "update"}
    PROVE  LauncherAwaited' /\ DeploysStopped' /\ FinishesRecorded'
           /\ StopsAlone' /\ StopsCleared' /\ DeletesStopped' /\ Deployed'
<1>1. /\ \E r \in Requests : pc[r] = "startWait" /\ run[r] = n
      /\ \A q \in Requests : pc[q] \notin StopPhase \cup {"delDo"}
      /\ \A m \in Starts \ {n} : pc[Launcher(m)] \notin Awaited
    BY DeploysAlone
<1>2. LauncherAwaited'
    BY <1>1 DEF LauncherAwaited
<1>3. DeploysStopped'
    BY <1>1 DEF DeploysStopped, Awaited, Deploys
<1>4. FinishesRecorded'
    <2> SUFFICES ASSUME NEW m \in Starts \ {n}, pc[Finisher(m)] \notin {"none", "done"}
                 PROVE  pc[Launcher(m)] \in Answering \cup {"done"} /\ status' = m
        BY DEF FinishesRecorded
    <2>1. pc[Launcher(m)] \notin {"stamp", "update"}
        BY <1>1 DEF Awaited, Deploys
    <2>2. pc[Launcher(m)] \in Answering \cup {"done"} /\ status = m
        BY <2>1 DEF OInv, Orderly, FinishesRecorded
    <2>3. m # 0
        BY DEF Starts
    <2>. QED BY <2>2, <2>3
<1>5. StopsAlone' /\ DeletesStopped'
    BY <1>1 DEF StopsAlone, DeletesStopped
<1>6. StopsCleared'
    <2> SUFFICES ASSUME NEW a \in Requests \cup Finishers, pc'[a] \in {"stopPut", "stopPutErr"}
                 PROVE  vms' = 0
        BY DEF StopsCleared
    <2>1. PICK m \in Starts : a = Finisher(m)
        BY <1>1, Apart DEF StopPhase, StopTail
    <2>2. pc'[Finisher(m)] = pc[Finisher(m)]
        BY <2>1 DEF StopTail
    <2>3. vms = 0
        BY <2>1, <2>2, Apart DEF OInv, Orderly, StopsCleared
    <2>4. status = m /\ m # 0
        BY <2>1, <2>2 DEF OInv, Orderly, FinishesRecorded, StopTail, Starts
    <2>. QED BY <2>3, <2>4
<1>7. Deployed'
    BY DEF Deployed
<1>. QED BY <1>2, <1>3, <1>4, <1>5, <1>6, <1>7

\* What Launch(n) comes to under the hypotheses.
LEMMA LaunchBasic ==
    ASSUME Undisturbed, TInv, Basic, NEW n \in Starts, Launch(n)
    PROVE  /\ pc[Launcher(n)] \in Awaited /\ pc'[Launcher(n)] \in Awaited
           /\ \A q \in Requests : pc'[q] = pc[q]
           /\ \A m \in Starts : pc'[Periodic(m)] = pc[Periodic(m)]
           /\ \A m \in Starts \ {n} : /\ pc'[Launcher(m)] = pc[Launcher(m)]
                                      /\ pc'[Finisher(m)] = pc[Finisher(m)]
           /\ \/ pc'[Finisher(n)] = pc[Finisher(n)]
              \/ pc[Launcher(n)] = "fork" /\ pc'[Finisher(n)] \in {"delay", "report"}
           /\ UNCHANGED <<todo, run, starts, sync, overlapped>>
<1>1. n \notin sync
    BY DEF Basic, BasicLabels
<1>2. UNCHANGED <<todo, run, starts, sync, overlapped>>
    BY DEF Launch, Track, StartGet, PreStart, LaunchVMs, Fork, FinishInline, Stamp, RecordStart,
        Fetch, StartFailed, requests
<1>3. \/ Track(n) \/ StartGet(n) \/ PreStart(n) \/ LaunchVMs(n) \/ Stamp(n) \/ RecordStart(n)
      \/ Fetch(n) \/ StartFailed(n) \/ Fork(n)
    BY DEF Launch, FinishInline, Basic, BasicLabels, Awaited, Deploys, Answering
<1>4. CASE Fork(n)
    <2>1. PICK next \in {"delay", "report"} :
            pc' = [pc EXCEPT ![Launcher(n)] = "stamp", ![Finisher(n)] = next]
        BY <1>1, <1>4 DEF Fork, Outcome
    <2>2. /\ pc'[Launcher(n)] = "stamp" /\ pc'[Finisher(n)] = next
          /\ \A q \in Requests : pc'[q] = pc[q]
          /\ \A m \in Starts : pc'[Periodic(m)] = pc[Periodic(m)]
          /\ \A m \in Starts \ {n} : /\ pc'[Launcher(m)] = pc[Launcher(m)]
                                     /\ pc'[Finisher(m)] = pc[Finisher(m)]
        BY <2>1, Processes, Apart DEF TInv, Typed
    <2>. QED BY <1>2, <1>4, <2>2 DEF Fork, Awaited, Deploys
<1>5. CASE \/ Track(n) \/ StartGet(n) \/ PreStart(n) \/ LaunchVMs(n) \/ Stamp(n) \/ RecordStart(n)
           \/ Fetch(n) \/ StartFailed(n)
    <2>1. pc[Launcher(n)] \in Awaited
        BY <1>5 DEF Track, StartGet, PreStart, LaunchVMs, Stamp, RecordStart, Fetch, StartFailed,
            Basic, BasicLabels, Awaited, Deploys, Answering
    <2>2. PICK label \in {"startGet", "failed", "pre1", "launch", "fork", "update", "fetch", "sendOk",
                          "sendNone", "sendErr"} : Goto(Launcher(n), label)
        <3>1. CASE PreStart(n)
            BY <3>1 DEF PreStart, Undisturbed, Basic, BasicLabels, Awaited, Deploys, Answering
        <3>2. CASE \/ Track(n) \/ StartGet(n) \/ LaunchVMs(n) \/ Stamp(n)
                   \/ RecordStart(n) \/ Fetch(n) \/ StartFailed(n)
            BY <1>1, <3>2 DEF Track, StartGet, LaunchVMs, Stamp, RecordStart, Fetch, StartFailed
        <3>. QED BY <1>5, <3>1, <3>2
    <2>3. label \in Awaited
        BY DEF Awaited, Deploys, Answering
    <2>4. /\ pc'[Launcher(n)] = label
          /\ \A q \in Requests : pc'[q] = pc[q]
          /\ \A m \in Starts : pc'[Periodic(m)] = pc[Periodic(m)] /\ pc'[Finisher(m)] = pc[Finisher(m)]
          /\ \A m \in Starts \ {n} : pc'[Launcher(m)] = pc[Launcher(m)]
        BY <2>2, Processes, Apart DEF Goto, TInv, Typed
    <2>. QED BY <1>2, <2>1, <2>3, <2>4
<1>. QED BY <1>3, <1>4, <1>5

LEMMA LaunchOrderly ==
    ASSUME Undisturbed, TInv, OneLocked, OInv, NEW n \in Starts, Launch(n)
    PROVE  OInv'
<1> DEFINE l == Launcher(n)
<1>1. /\ pc[l] \in Awaited /\ pc'[l] \in Awaited
      /\ \A q \in Requests : pc'[q] = pc[q]
      /\ \A m \in Starts : pc'[Periodic(m)] = pc[Periodic(m)]
      /\ \A m \in Starts \ {n} : pc'[Launcher(m)] = pc[Launcher(m)] /\ pc'[Finisher(m)] = pc[Finisher(m)]
      /\ \/ pc'[Finisher(n)] = pc[Finisher(n)]
         \/ pc[l] = "fork" /\ pc'[Finisher(n)] \in {"delay", "report"}
      /\ UNCHANGED <<todo, run, starts, sync, overlapped>>
    BY LaunchBasic DEF OInv
<1>2. Basic'
    BY <1>1, BasicGoroutine DEF OInv, Basic, BasicLabels, Awaited, Deploys, Answering
<1> SUFFICES ASSUME ~overlapped
             PROVE  LauncherAwaited' /\ DeploysStopped' /\ FinishesRecorded'
                    /\ StopsAlone' /\ StopsCleared' /\ DeletesStopped' /\ Deployed'
    BY <1>1, <1>2 DEF OInv, Orderly
<1>3. /\ pc[l] \in Deploys => status = 0
      /\ pc[l] = "update" => exp[l] = n
      /\ pc[Finisher(n)] \notin {"none", "done"} =>
            \/ pc[l] \in {"stamp", "update"} /\ pc[Finisher(n)] \notin StopTail
            \/ pc[l] \in Answering \cup {"done"} /\ status = n
      /\ vms # 0 => IsRunning \/ \E m \in Starts : pc[Launcher(m)] \in {"fork", "stamp", "update"}
    BY DEF OInv, Orderly, DeploysStopped, FinishesRecorded, Deployed
<1>4. \A m \in Starts \ {n} : pc[Launcher(m)] \notin {"fork", "stamp", "update"}
    BY <1>1, DeploysAlone DEF Awaited, Deploys
<1>5. vms # 0 => IsRunning \/ pc[l] \in {"fork", "stamp", "update"}
    BY <1>3, <1>4
<1>6. n \notin sync /\ n # 0 /\ n # NoConfig /\ l \in Procs /\ exp \in [Procs -> Memory]
      /\ pc \in [Procs -> Labels]
    BY NoConfigAssumption, Processes DEF OInv, Basic, BasicLabels, Starts, Status, TInv, Typed
<1>7. CASE Track(n)
    <2>1. pc[l] = "track" /\ pc'[l] = "startGet" /\ UNCHANGED <<status, vms>>
        BY <1>6, <1>7 DEF Track, Goto
    <2>. QED BY <1>1, <1>3, <1>5, <2>1, OrderlyLaunch DEF Deploys, Answering, IsRunning
<1>8. CASE StartGet(n)
    <2>1. pc[l] = "startGet" /\ UNCHANGED <<status, vms>>
          /\ \/ pc'[l] = "pre1" /\ status = 0
             \/ pc'[l] = "failed"
        BY <1>6, <1>8 DEF StartGet, Goto, IsRunning
    <2>. QED BY <1>1, <1>3, <1>5, <2>1, OrderlyLaunch DEF Deploys, Answering, IsRunning
<1>9. CASE PreStart(n)
    <2>1. pc[l] = "pre1" /\ pc'[l] \in {"failed", "launch"} /\ UNCHANGED <<status, vms>>
        BY <1>1, <1>6, <1>9 DEF PreStart, Goto, Undisturbed, Awaited, Deploys, Answering
    <2>. QED BY <1>1, <1>3, <1>5, <2>1, OrderlyLaunch DEF Deploys, Answering, IsRunning
<1>10. CASE LaunchVMs(n)
    <2>1. /\ pc[l] = "launch" /\ UNCHANGED status
          /\ \/ pc'[l] = "fork" /\ vms' = n
             \/ pc'[l] = "failed" /\ vms' = 0
        BY <1>6, <1>10 DEF LaunchVMs, Goto, Cleared, Outcome, Undisturbed
    <2>. QED BY <1>1, <1>3, <1>5, <2>1, OrderlyLaunch DEF Deploys, Answering, IsRunning
<1>11. CASE Fork(n)
    <2>1. pc[l] = "fork" /\ UNCHANGED <<status, vms>>
          /\ pc'[l] = "stamp" /\ pc'[Finisher(n)] \in {"delay", "report"}
        <3>1. PICK next \in {"delay", "report"} :
                pc' = [pc EXCEPT ![l] = "stamp", ![Finisher(n)] = next]
            BY <1>6, <1>11 DEF Fork, Outcome
        <3>. QED BY <1>6, <1>11, <3>1, Processes, Apart DEF Fork
    <2>2. pc'[Finisher(n)] \notin StopTail
        BY <2>1 DEF StopTail
    <2>. QED BY <1>1, <1>3, <1>5, <2>1, <2>2, OrderlyLaunch DEF Deploys, Answering, IsRunning
<1>12. CASE Stamp(n)
    <2>1. pc[l] = "stamp" /\ pc'[l] = "update" /\ exp'[l] = n /\ UNCHANGED <<status, vms>>
        BY <1>6, <1>12 DEF Stamp, Goto
    <2>. QED BY <1>1, <1>3, <1>5, <2>1, OrderlyLaunch DEF Deploys, Answering, IsRunning
<1>13. CASE RecordStart(n)
    <2>1. pc[l] = "update" /\ status = 0 /\ exp[l] = n
        BY <1>3, <1>13 DEF RecordStart, Deploys
    <2>2. 0 # NoConfig
        BY NoConfigAssumption, MaxStartsAssumption DEF Status
    <2>3. pc'[l] = "fetch" /\ status' = n /\ vms' = vms
        BY <1>6, <1>13, <2>1, <2>2 DEF RecordStart, Goto, Stored
    <2>4. IsRunning'
        BY <1>6, <2>3 DEF IsRunning
    <2>. QED BY <1>1, <1>3, <2>1, <2>3, <2>4, OrderlyLaunch DEF Deploys, Answering
<1>14. CASE Fetch(n)
    <2>1. pc[l] = "fetch" /\ pc'[l] \in {"sendNone", "sendOk"} /\ UNCHANGED <<status, vms>>
        BY <1>6, <1>14 DEF Fetch, Goto
    <2>. QED BY <1>1, <1>3, <1>5, <2>1, OrderlyLaunch DEF Deploys, Answering, IsRunning
<1>15. CASE StartFailed(n)
    <2>1. pc[l] = "failed" /\ pc'[l] = "sendErr" /\ UNCHANGED <<status, vms>>
        BY <1>6, <1>15 DEF StartFailed, Goto
    <2>. QED BY <1>1, <1>3, <1>5, <2>1, OrderlyLaunch DEF Deploys, Answering, IsRunning
<1>16. ~FinishInline(n)
    BY <1>1 DEF FinishInline, Awaited, Deploys, Answering
<1>. QED BY <1>7, <1>8, <1>9, <1>10, <1>11, <1>12, <1>13, <1>14, <1>15, <1>16 DEF Launch

\* The goroutine that finishes a start moves on.
LEMMA OrderlyFinish ==
    ASSUME TInv, OInv, NEW n \in Starts, pc[Finisher(n)] \notin {"none", "done"},
           NEW label, label \in {"delayFailed", "post", "report", "done"} \cup StopTail,
           Goto(Finisher(n), label),
           ~overlapped /\ label \in StopTail => pc[Launcher(n)] \notin {"stamp", "update"},
           label \in {"stopPut", "stopPutErr"} => vms' = 0,
           vms' \in {0, vms},
           UNCHANGED <<requests, overlapped>>,
           \A m \in Starts : exp'[Launcher(m)] = exp[Launcher(m)],
           \/ UNCHANGED status
           \/ pc[Finisher(n)] \in {"stopPut", "stopPutErr"} /\ label = "done" /\ status' = Stored(0)
    PROVE  OInv'
<1> DEFINE f == Finisher(n)
<1>1. /\ pc'[f] = label /\ \A q \in Requests : pc'[q] = pc[q]
      /\ \A m \in Starts : pc'[Launcher(m)] = pc[Launcher(m)] /\ pc'[Periodic(m)] = pc[Periodic(m)]
      /\ \A m \in Starts \ {n} : pc'[Finisher(m)] = pc[Finisher(m)]
    BY Processes, Apart DEF Goto, TInv, Typed
<1>2. Basic'
    BY <1>1, BasicGoroutine DEF OInv, Basic, BasicLabels, requests
<1> SUFFICES ASSUME ~overlapped
             PROVE  LauncherAwaited' /\ DeploysStopped' /\ FinishesRecorded'
                    /\ StopsAlone' /\ StopsCleared' /\ DeletesStopped' /\ Deployed'
    BY <1>1, <1>2 DEF OInv, Orderly
<1>3. /\ LauncherAwaited /\ DeploysStopped /\ FinishesRecorded
      /\ StopsAlone /\ StopsCleared /\ DeletesStopped /\ Deployed
    BY DEF OInv, Orderly
<1>4. LauncherAwaited'
    BY <1>1, <1>3 DEF LauncherAwaited, requests
<1>5. StopsAlone'
    BY <1>1, <1>3 DEF StopsAlone
<1>6. StopsCleared'
    <2> SUFFICES ASSUME NEW a \in Requests \cup Finishers, pc'[a] \in {"stopPut", "stopPutErr"}
                 PROVE  vms' = 0
        BY DEF StopsCleared
    <2>1. CASE a = f
        BY <1>1, <2>1
    <2>2. CASE a # f
        <3>1. pc'[a] = pc[a]
            BY <1>1, <2>2, Apart
        <3>. QED BY <1>3, <3>1 DEF StopsCleared
    <2>. QED BY <2>1, <2>2
<1>7. CASE UNCHANGED status
    <2>1. DeploysStopped' /\ DeletesStopped' /\ Deployed'
        BY <1>1, <1>3, <1>7 DEF DeploysStopped, DeletesStopped, Deployed, IsRunning
    <2>2. FinishesRecorded'
        BY <1>1, <1>3, <1>7 DEF FinishesRecorded, StopTail
    <2>. QED BY <1>4, <1>5, <1>6, <2>1, <2>2
<1>8. CASE pc[f] \in {"stopPut", "stopPutErr"} /\ label = "done" /\ status' = Stored(0)
    <2>1. status = n /\ n # 0 /\ n # NoConfig
        BY <1>3, <1>8, NoConfigAssumption DEF FinishesRecorded, StopTail, Starts, Status
    <2>2. status' = 0 /\ vms' = 0
        BY <1>3, <1>8, <2>1, Processes DEF Stored, StopsCleared, Finishers
    <2>3. DeploysStopped' /\ DeletesStopped' /\ Deployed'
        BY <1>1, <1>3, <2>2 DEF DeploysStopped, DeletesStopped, Deployed, IsRunning
    <2>4. FinishesRecorded'
        <3> SUFFICES ASSUME NEW m \in Starts \ {n}, pc[Finisher(m)] \notin {"none", "done"}
                     PROVE  FALSE
            BY <1>1, <1>8 DEF FinishesRecorded
        <3>1. pc[Launcher(m)] \notin {"stamp", "update"}
            BY <1>3, <2>1 DEF DeploysStopped, Deploys
        <3>. QED BY <1>3, <2>1, <3>1 DEF FinishesRecorded
    <2>. QED BY <1>4, <1>5, <1>6, <2>3, <2>4
<1>. QED BY <1>7, <1>8

LEMMA FinishOrderly ==
    ASSUME Undisturbed, TInv, OInv, NEW n \in Starts, Finish(n)
    PROVE  OInv'
<1> DEFINE f == Finisher(n)
<1>1. f \in Procs /\ f \in Finishers /\ f \notin Requests /\ exp \in [Procs -> Memory]
    BY Processes, Apart DEF TInv, Typed
<1>2. \A m \in Starts : Launcher(m) # f /\ Launcher(m) \in Procs
    BY Processes, Apart
<1>3. pc[f] \in {"none", "delay", "delayFailed", "post", "report", "done"} \cup StopTail
    BY DEF OInv, Basic, BasicLabels
<1>4. CASE HandleDelayedVMs(n)
    <2>1. PICK label \in {"post", "delayFailed", "done", "stopGet"} :
            /\ Goto(f, label)
            /\ label = "stopGet" => ErrorsRead(n)
        BY <1>4 DEF HandleDelayedVMs
    <2>2. /\ pc[f] \in {"delay", "delayFailed"} /\ vms' \in {0, vms}
          /\ UNCHANGED <<requests, overlapped, status, exp>>
        BY <1>4 DEF HandleDelayedVMs, Cleared, Outcome, Undisturbed
    <2>. QED BY <2>1, <2>2, OrderlyFinish DEF ErrorsRead, StopTail
<1>5. CASE PostStart(n)
    <2>1. /\ pc[f] = "post" /\ UNCHANGED <<vms, requests, overlapped, status, exp>>
          /\ \E label \in {"report", "done"} : Goto(f, label)
        BY <1>3, <1>5 DEF PostStart, Outcome, Undisturbed, StopTail
    <2>. QED BY <2>1, OrderlyFinish DEF StopTail
<1>6. CASE ReportError(n)
    <2>1. /\ pc[f] = "report" /\ UNCHANGED <<vms, requests, overlapped, status, exp>>
          /\ Goto(f, "stopGet") /\ ErrorsRead(n)
        BY <1>6 DEF ReportError
    <2>. QED BY <2>1, OrderlyFinish DEF StopTail, ErrorsRead
<1>7. CASE Stop(f)
    <2>1. pc[f] \in StopTail /\ UNCHANGED <<requests, overlapped>>
        BY <1>3, <1>7 DEF Stop, StopGet, StopCleanup, StopClear, StopPut, StopTail
    <2>2. \A m \in Starts : exp'[Launcher(m)] = exp[Launcher(m)]
        BY <1>1, <1>2, <1>7 DEF Stop, StopGet, StopCleanup, StopClear, StopPut, Forget
    <2>3. ~overlapped => pc[Launcher(n)] \notin {"stamp", "update"}
        BY <2>1 DEF OInv, Orderly, FinishesRecorded, StopTail, Answering
    <2>4. CASE StopGet(f)
        <3>1. \E label \in {"done", "stopClear"} : Goto(f, label)
            BY <1>1, <2>4 DEF StopGet, StopReturn, Undisturbed
        <3>2. UNCHANGED <<status, vms>>
            BY <2>4 DEF StopGet
        <3>. QED BY <2>1, <2>2, <2>3, <3>1, <3>2, OrderlyFinish DEF StopTail
    <2>5. CASE StopClear(f)
        <3>1. \E label \in {"stopPut", "stopPutErr"} : Goto(f, label)
            BY <2>5 DEF StopClear, Outcome, Undisturbed
        <3>2. UNCHANGED status /\ vms' = 0
            BY <2>5 DEF StopClear, Undisturbed
        <3>. QED BY <2>1, <2>2, <2>3, <3>1, <3>2, OrderlyFinish DEF StopTail
    <2>6. CASE StopPut(f)
        <3>1. pc[f] \in {"stopPut", "stopPutErr"} /\ Goto(f, "done") /\ status' = Stored(0)
              /\ UNCHANGED vms
            BY <1>1, <2>6 DEF StopPut, StopReturn
        <3>. QED BY <2>1, <2>2, <2>3, <3>1, OrderlyFinish DEF StopTail
    <2>7. ~StopCleanup(f)
        BY <2>1 DEF StopCleanup, StopTail
    <2>. QED BY <1>7, <2>4, <2>5, <2>6, <2>7 DEF Stop
<1>. QED BY <1>4, <1>5, <1>6, <1>7 DEF Finish

\* The requests: submitting, locking, leaving.
LEMMA RequestOrderly ==
    ASSUME Undisturbed, TInv, OneLocked, OInv, NEW r \in Requests,
           NEW label,
           label \in {"idle", "lookup", "create", "delCheck", "delDo", "spawn", "register",
                      "periodic", "unlockOk", "unlockErr"} \cup StopPhase,
           label \in {"lookup", "spawn"} => pc[r] \in {"add", "lookup"},
           pc' = [pc EXCEPT ![r] = label], pc[r] # "startWait",
           todo' = [todo EXCEPT ![r] = <<>>] \/ UNCHANGED todo,
           run' = [run EXCEPT ![r] = 0] \/ UNCHANGED run,
           UNCHANGED <<starts, sync>>,
           \A p \in Procs \ {r} : exp'[p] = exp[p],
           overlapped => overlapped',
           ~overlapped /\ label \in StopPhase /\ pc[r] \notin StopPhase =>
                \A n \in Starts : pc[Finisher(n)] \in {"none", "done"},
           label \in {"stopPut", "stopPutErr"} => vms' = 0,
           label = "delDo" => ~IsRunning',
           vms' \in {0, vms},
           ~overlapped => \/ UNCHANGED status
                          \/ /\ Locked(r) /\ status' \in {0, NoConfig}
                             /\ \/ ~IsRunning
                                \/ pc[r] \in {"stopPut", "stopPutErr"}
    PROVE  OInv'
<1>1. Basic'
    BY BasicMove DEF OInv
<1>2. \A q \in Requests \ {r} : run'[q] = run[q]
    BY DEF TInv, Typed
<1>3. Orderly'
    BY <1>2, OrderlyMove
<1>. QED BY <1>1, <1>3 DEF OInv

LEMMA LeaveOrderly ==
    ASSUME Undisturbed, TInv, OneLocked, OInv, NEW r \in Requests, NEW ok,
           pc[r] \notin {"idle", "startWait"}, Leave(r, ok), UNCHANGED <<status, vms, overlapped>>
    PROVE  OInv'
<1>1. /\ pc' = [pc EXCEPT ![r] = "idle"]
      /\ todo' = [todo EXCEPT ![r] = <<>>] /\ run' = [run EXCEPT ![r] = 0]
      /\ \A p \in Procs \ {r} : exp'[p] = exp[p]
      /\ UNCHANGED <<starts, sync>>
    BY BasicLeave DEF OInv
<1>. QED BY <1>1, RequestOrderly DEF StopPhase, StopTail

LEMMA EnterOrderly ==
    ASSUME Undisturbed, TInv, OneLocked, OInv, NEW r \in Requests, pc[r] \in {"add", "lookup"},
           Enter(r), UNCHANGED <<status, vms, exp, requests>>
    PROVE  OInv'
<1> DEFINE label == InsideOf[Head(todo[r])]
<1>1. todo[r] # <<>>
    BY DEF TInv, Planned, Agrees
<1>2. Head(todo[r]) \in BasicOps
    BY <1>1, BasicPlan DEF OInv
<1>3. /\ label \in {"create", "delCheck", "spawn", "take"}
      /\ label = "take" => Head(todo[r]) = "stop"
    BY <1>2 DEF InsideOf, BasicOps, Undisturbed
<1>4. Goto(r, label) /\ (overlapped => overlapped')
      /\ (Patient /\ Head(todo[r]) = "stop" => StartsFinished)
    BY DEF Enter
<1>5. label = "take" => StartsFinished
    BY <1>3, <1>4 DEF Undisturbed
<1>6. ~overlapped /\ StartsFinished => \A n \in Starts : pc[Finisher(n)] \in {"none", "done"}
    BY DEF StartsFinished, OInv, Orderly, FinishesRecorded, Answering
<1> HIDE DEF label
<1>7. label \in StopPhase => label = "take"
    BY <1>3 DEF StopPhase, StopTail
<1>. QED BY <1>3, <1>4, <1>5, <1>6, <1>7, RequestOrderly DEF Goto, requests, StopPhase

LEMMA SubmitOrderly ==
    ASSUME Undisturbed, TInv, OneLocked, OInv, NEW r \in Requests, Submit(r)
    PROVE  OInv'
<1>1. Basic' /\ pc' = [pc EXCEPT ![r] = "add"]
    BY BasicSubmit DEF OInv
<1>2. pc[r] = "idle" /\ UNCHANGED <<status, vms, overlapped>>
      /\ (\A q \in Requests \ {r} : run'[q] = run[q]) /\ (\A p \in Procs \ {r} : exp'[p] = exp[p])
    BY DEF Submit, TInv, Typed
<1>3. Orderly'
    BY <1>1, <1>2, OrderlyMove DEF StopPhase, StopTail
<1>. QED BY <1>1, <1>3 DEF OInv

\* The handler starts its goroutine.
LEMMA SpawnOrderly ==
    ASSUME Undisturbed, TInv, OneLocked, OInv, NEW r \in Requests, Spawn(r)
    PROVE  OInv'
<1> DEFINE n == run[r]
<1>1. pc[r] = "spawn" /\ UNCHANGED <<status, vms, exp, requests, overlapped>>
    BY DEF Spawn
<1>2. n \in Starts /\ n <= starts /\ pc[Launcher(n)] = "none" /\ pc[Finisher(n)] = "none"
    BY <1>1, CliHasStart DEF OInv, Basic, StartsFresh, StartLabels, Starts
<1>3. /\ pc'[r] = "startWait" /\ pc'[Launcher(n)] = "track"
      /\ \A q \in Requests \ {r} : pc'[q] = pc[q]
      /\ \A m \in Starts \ {n} : pc'[Launcher(m)] = pc[Launcher(m)]
      /\ \A m \in Starts : pc'[Finisher(m)] = pc[Finisher(m)] /\ pc'[Periodic(m)] = pc[Periodic(m)]
      /\ \A f \in Finishers : pc'[f] = pc[f]
    BY <1>2, Processes, Apart DEF Spawn, TInv, Typed
<1>4. Basic'
    <2>1. BasicPlans' /\ BasicLabels'
        BY <1>1, <1>3 DEF OInv, Basic, BasicPlans, BasicLabels, requests, Awaited
    <2>2. ASSUME NEW q \in Requests, pc'[q] \in {"add", "lookup", "spawn"}, run[q] # 0
          PROVE  pc'[Launcher(run[q])] = "none" /\ pc'[Finisher(run[q])] = "none"
        <3>1. q # r /\ pc[q] = pc'[q] /\ run[q] \in Starts
            BY <1>3, <2>2, MaxStartsAssumption DEF TInv, Typed, Starts
        <3>2. run[q] # n
            BY <1>2, <2>2, <3>1 DEF OInv, Basic, StartsFresh
        <3>3. pc[Launcher(run[q])] = "none" /\ pc[Finisher(run[q])] = "none"
            BY <2>2, <3>1 DEF OInv, Basic, StartsFresh
        <3>. QED BY <1>3, <3>1, <3>2, <3>3
    <2>3. \A m \in Starts : m > starts => pc'[Launcher(m)] = "none" /\ pc'[Finisher(m)] = "none"
        <3>1. ~(n > starts)
            BY <1>2 DEF Starts, TInv, Typed
        <3>. QED BY <1>3, <3>1 DEF OInv, Basic, StartsFresh
    <2>4. StartsFresh'
        BY <1>1, <2>2, <2>3 DEF OInv, Basic, StartsFresh, requests
    <2>. QED BY <2>1, <2>4 DEF Basic
<1> SUFFICES ASSUME ~overlapped
             PROVE  LauncherAwaited' /\ DeploysStopped' /\ FinishesRecorded'
                    /\ StopsAlone' /\ StopsCleared' /\ DeletesStopped' /\ Deployed'
    BY <1>1, <1>4 DEF OInv, Orderly
<1>5. \A m \in Starts : pc[Launcher(m)] \notin Awaited
    BY <1>1, LockedAlone DEF Locked, LockedLabels
<1>6. LauncherAwaited'
    BY <1>1, <1>3, <1>5 DEF LauncherAwaited, requests
<1>7. DeploysStopped' /\ Deployed'
    BY <1>1, <1>3, <1>5 DEF OInv, Orderly, DeploysStopped, Deployed, IsRunning, Awaited, Deploys
<1>8. FinishesRecorded'
    BY <1>1, <1>2, <1>3 DEF OInv, Orderly, FinishesRecorded
<1>9. StopsAlone' /\ DeletesStopped'
    BY <1>1, <1>3 DEF OInv, Orderly, StopsAlone, DeletesStopped, IsRunning, StopPhase, StopTail
<1>10. StopsCleared'
    BY <1>1, <1>3 DEF OInv, Orderly, StopsCleared
<1>. QED BY <1>6, <1>7, <1>8, <1>9, <1>10

\* The handler receives its result: the start is over.
LEMMA ReceiveOrderly ==
    ASSUME Undisturbed, TInv, OneLocked, OInv, NEW r \in Requests, ReceiveResult(r)
    PROVE  OInv'
<1> DEFINE n == run[r]
<1>1. pc[r] = "startWait" /\ UNCHANGED <<status, vms, exp, requests, overlapped>>
    BY DEF ReceiveResult
<1>2. n \in Starts
    BY <1>1, CliHasStart DEF StartLabels
<1>3. /\ pc'[r] \in {"unlockErr", "register"}
      /\ \/ pc[Launcher(n)] = "sendErr" /\ pc'[Launcher(n)] = "resend"
         \/ pc[Launcher(n)] \in {"sendNone", "sendOk"} /\ pc'[Launcher(n)] = "done"
      /\ \A q \in Requests \ {r} : pc'[q] = pc[q]
      /\ \A m \in Starts \ {n} : pc'[Launcher(m)] = pc[Launcher(m)]
      /\ \A m \in Starts : pc'[Finisher(m)] = pc[Finisher(m)] /\ pc'[Periodic(m)] = pc[Periodic(m)]
      /\ \A f \in Finishers : pc'[f] = pc[f]
    BY <1>2, Processes, Apart DEF ReceiveResult, TInv, Typed
<1>4. Basic'
    <2>1. BasicPlans' /\ BasicLabels'
        BY <1>1, <1>3 DEF OInv, Basic, BasicPlans, BasicLabels, requests
    <2>2. ASSUME NEW q \in Requests, pc'[q] \in {"add", "lookup", "spawn"}, run[q] # 0
          PROVE  pc'[Launcher(run[q])] = "none" /\ pc'[Finisher(run[q])] = "none"
        <3>1. q # r /\ pc[q] = pc'[q] /\ run[q] \in Starts
            BY <1>3, <2>2, MaxStartsAssumption DEF TInv, Typed, Starts
        <3>2. pc[Launcher(run[q])] = "none" /\ pc[Finisher(run[q])] = "none"
            BY <2>2, <3>1 DEF OInv, Basic, StartsFresh
        <3>3. run[q] # n
            BY <1>3, <3>2
        <3>. QED BY <1>3, <3>1, <3>2, <3>3
    <2>3. \A m \in Starts : m > starts => pc'[Launcher(m)] = "none" /\ pc'[Finisher(m)] = "none"
        BY <1>3 DEF OInv, Basic, StartsFresh
    <2>4. StartsFresh'
        BY <1>1, <2>2, <2>3 DEF OInv, Basic, StartsFresh, requests
    <2>. QED BY <2>1, <2>4 DEF Basic
<1> SUFFICES ASSUME ~overlapped
             PROVE  LauncherAwaited' /\ DeploysStopped' /\ FinishesRecorded'
                    /\ StopsAlone' /\ StopsCleared' /\ DeletesStopped' /\ Deployed'
    BY <1>1, <1>4 DEF OInv, Orderly
<1>5. LauncherAwaited'
    <2> SUFFICES ASSUME NEW m \in Starts, pc'[Launcher(m)] \in Awaited
                 PROVE  \E q \in Requests : pc'[q] = "startWait" /\ run[q] = m
        BY <1>1 DEF LauncherAwaited, requests
    <2>1. m # n /\ pc[Launcher(m)] \in Awaited
        BY <1>3 DEF Awaited, Deploys, Answering
    <2>2. PICK q \in Requests : pc[q] = "startWait" /\ run[q] = m
        BY <2>1 DEF OInv, Orderly, LauncherAwaited
    <2>. QED BY <1>3, <2>1, <2>2
<1>6. DeploysStopped' /\ Deployed'
    BY <1>1, <1>3 DEF OInv, Orderly, DeploysStopped, Deployed, IsRunning, Deploys
<1>7. FinishesRecorded'
    BY <1>1, <1>3 DEF OInv, Orderly, FinishesRecorded, Answering
<1>8. StopsAlone' /\ DeletesStopped'
    BY <1>1, <1>3 DEF OInv, Orderly, StopsAlone, DeletesStopped, IsRunning, StopPhase, StopTail
<1>9. StopsCleared'
    BY <1>1, <1>3 DEF OInv, Orderly, StopsCleared
<1>. QED BY <1>5, <1>6, <1>7, <1>8, <1>9

LEMMA RequestsOrderly ==
    ASSUME Undisturbed, TInv, OneLocked, OInv, NEW r \in Requests, RequestStep(r)
    PROVE  OInv'
<1>1. /\ pc[r] \in {"idle", "add", "lookup", "create", "delCheck", "delDo", "spawn", "startWait",
                    "register", "periodic", "unlockOk", "unlockErr"} \cup StopPhase
      /\ \A n \in Starts : pc[Periodic(n)] = "none"
    BY DEF OInv, Basic, BasicLabels
<1>2. /\ r \in Procs /\ r \notin Finishers /\ exp \in [Procs -> Memory]
      /\ 0 # NoConfig
    BY Processes, NoConfigAssumption, MaxStartsAssumption DEF TInv, Typed, Status
<1>3. CASE Add(r)
    <2>1. pc[r] = "add" /\ UNCHANGED <<status, vms, exp, requests>>
        BY <1>3 DEF Add
    <2>2. CASE Enter(r)
        BY <2>1, <2>2, EnterOrderly
    <2>3. CASE Goto(r, "lookup") /\ UNCHANGED overlapped
        BY <2>1, <2>3, RequestOrderly DEF Goto, requests, StopPhase, StopTail
    <2>. QED BY <1>3, <2>2, <2>3 DEF Add
<1>4. CASE Lookup(r)
    <2>1. pc[r] = "lookup" /\ UNCHANGED <<status, vms>>
        BY <1>4 DEF Lookup
    <2>2. CASE Enter(r) /\ UNCHANGED <<exp, requests>>
        BY <2>1, <2>2, EnterOrderly
    <2>3. CASE Leave(r, FALSE) /\ UNCHANGED overlapped
        BY <2>1, <2>3, LeaveOrderly
    <2>. QED BY <1>4, <2>2, <2>3 DEF Lookup
<1>5. CASE UnlockExperiment(r)
    <2>1. pc[r] \in {"unlockOk", "unlockErr"} /\ UNCHANGED <<status, vms, overlapped>>
          /\ Leave(r, pc[r] = "unlockOk")
        BY <1>5 DEF UnlockExperiment
    <2>. QED BY <2>1, LeaveOrderly
<1>6. CASE Create(r)
    <2>1. pc[r] = "create" /\ UNCHANGED <<vms, exp, requests, overlapped>>
          /\ \/ status = NoConfig /\ status' = 0 /\ Goto(r, "unlockOk")
             \/ UNCHANGED status /\ Goto(r, "unlockErr")
        BY <1>1, <1>6 DEF Create, StopPhase, StopTail
    <2>2. Locked(r)
        BY <2>1 DEF Locked, LockedLabels
    <2>. QED BY <2>1, <2>2, RequestOrderly DEF Goto, requests, StopPhase, StopTail, IsRunning
<1>7. CASE DeleteExperiment(r)
    <2>1. UNCHANGED <<vms, exp, requests, overlapped>>
        BY <1>7 DEF DeleteExperiment, Delete
    <2>2. CASE pc[r] = "delCheck"
        <3>1. /\ UNCHANGED status
              /\ Goto(r, "unlockErr") \/ (Goto(r, "delDo") /\ ~IsRunning')
            BY <1>7, <2>2 DEF DeleteExperiment, Delete, IsRunning
        <3>. QED BY <2>1, <2>2, <3>1, RequestOrderly DEF Goto, requests, StopPhase, StopTail
    <2>3. CASE pc[r] = "delDo"
        <3>1. /\ status' = NoConfig
              /\ \E label \in {"unlockErr", "unlockOk"} : Goto(r, label)
            BY <1>7, <2>3 DEF DeleteExperiment, Delete
        <3>2. Locked(r) /\ (~overlapped => ~IsRunning)
            BY <2>3 DEF Locked, LockedLabels, OInv, Orderly, DeletesStopped
        <3>. QED BY <2>1, <2>3, <3>1, <3>2, RequestOrderly DEF Goto, requests, StopPhase, StopTail
    <2>. QED BY <1>7, <2>2, <2>3 DEF DeleteExperiment, Delete
<1>8. CASE StartExperiment(r)
    <2>1. CASE Register(r)
        <3>1. pc[r] = "register" /\ UNCHANGED <<status, vms, exp, requests, overlapped>>
              /\ Goto(r, "periodic")
            BY <2>1 DEF Register
        <3>. QED BY <3>1, RequestOrderly DEF Goto, requests, StopPhase, StopTail
    <2>2. CASE PeriodicallyRunApps(r)
        <3>1. pc[r] = "periodic" /\ UNCHANGED <<status, vms, exp, requests, overlapped>>
            BY <2>2 DEF PeriodicallyRunApps
        <3>2. run[r] \in Starts
            BY <3>1, CliHasStart DEF StartLabels
        <3>3. pc' = [pc EXCEPT ![r] = "unlockOk"]
            <4>1. pc' = [pc EXCEPT ![r] = "unlockOk", ![Periodic(run[r])] = @]
                BY <2>2 DEF PeriodicallyRunApps, Undisturbed
            <4>2. Periodic(run[r]) # r
                BY <3>2, Processes
            <4>. QED BY <1>2, <4>1, <4>2 DEF TInv, Typed
        <3>. QED BY <3>1, <3>3, RequestOrderly DEF requests, StopPhase, StopTail
    <2>. QED BY <1>8, <2>1, <2>2, SpawnOrderly, ReceiveOrderly DEF StartExperiment
<1>9. CASE TakeCancelers(r)
    <2>1. pc[r] = "take" /\ Goto(r, "wait") /\ UNCHANGED <<status, vms, exp, todo, run, starts, sync, overlapped>>
        BY <1>9 DEF TakeCancelers
    <2>. QED BY <2>1, RequestOrderly DEF Goto, StopPhase, StopTail
<1>10. CASE WaitForApps(r)
    <2>1. pc[r] = "wait" /\ Goto(r, "stopGet") /\ UNCHANGED <<status, vms, exp, requests, overlapped>>
        BY <1>10 DEF WaitForApps
    <2>. QED BY <2>1, RequestOrderly DEF Goto, requests, StopPhase, StopTail
<1>11. CASE Stop(r)
    <2>1. pc[r] \in StopTail /\ UNCHANGED <<requests, overlapped>>
        BY <1>1, <1>11 DEF Stop, StopGet, StopCleanup, StopClear, StopPut, StopPhase, StopTail
    <2>2. \A p \in Procs \ {r} : exp'[p] = exp[p]
        BY <1>2, <1>11 DEF Stop, StopGet, StopCleanup, StopClear, StopPut, Forget
    <2>3. CASE StopGet(r)
        <3>1. \E label \in {"unlockErr", "stopClear"} : Goto(r, label)
            BY <1>2, <2>3 DEF StopGet, StopReturn, Undisturbed
        <3>2. UNCHANGED <<status, vms>>
            BY <2>3 DEF StopGet
        <3>. QED BY <2>1, <2>2, <3>1, <3>2, RequestOrderly DEF Goto, requests, StopPhase, StopTail
    <2>4. CASE StopClear(r)
        <3>1. \E label \in {"stopPut", "stopPutErr"} : Goto(r, label)
            BY <2>4 DEF StopClear, Outcome, Undisturbed
        <3>2. UNCHANGED status /\ vms' = 0
            BY <2>4 DEF StopClear, Undisturbed
        <3>. QED BY <2>1, <2>2, <3>1, <3>2, RequestOrderly DEF Goto, requests, StopPhase, StopTail
    <2>5. CASE StopPut(r)
        <3>1. /\ pc[r] \in {"stopPut", "stopPutErr"} /\ UNCHANGED vms
              /\ \E label \in {"unlockErr", "unlockOk"} : Goto(r, label)
              /\ status' \in {0, NoConfig}
            BY <1>2, <2>5 DEF StopPut, StopReturn, Stored
        <3>2. Locked(r)
            BY <3>1 DEF Locked, LockedLabels, StopLabels
        <3>. QED BY <2>1, <2>2, <3>1, <3>2, RequestOrderly DEF Goto, requests, StopPhase, StopTail
    <2>6. ~StopCleanup(r)
        BY <2>1 DEF StopCleanup, StopTail
    <2>. QED BY <1>11, <2>3, <2>4, <2>5, <2>6 DEF Stop
<1>12. /\ ~DeferredUnlock(r) /\ ~ScheduleCheck(r) /\ ~UpdateGet(r) /\ ~UpdatePut(r)
       /\ ~TriggerExperimentApps(r) /\ ~Reread(r) /\ ~WorkflowPut(r)
    BY <1>1 DEF DeferredUnlock, ScheduleCheck, UpdateGet, UpdatePut, TriggerExperimentApps, TriggerGet,
        TriggerMark, TriggerReload, TriggerPut, Reread, WorkflowPut, StopPhase, StopTail
<1>13. ~Reconfigure(r) /\ ~ConfigUpdate(r) /\ ~CliGet(r) /\ ~CliStarted(r)
    BY <1>1 DEF Reconfigure, ConfigUpdate, CliGet, CliStarted, StopPhase, StopTail
<1>. QED BY <1>3, <1>4, <1>5, <1>6, <1>7, <1>8, <1>9, <1>10, <1>11, <1>12, <1>13
        DEF RequestStep, StopExperiment

LEMMA InitOrderly == ASSUME Init PROVE OInv
<1>1. /\ \A r \in Requests : pc[r] = "idle" /\ todo[r] = <<>> /\ run[r] = 0
      /\ \A n \in Starts : pc[Launcher(n)] = "none" /\ pc[Finisher(n)] = "none" /\ pc[Periodic(n)] = "none"
      /\ \A f \in Finishers : pc[f] = "none"
      /\ vms = 0 /\ sync = {} /\ starts = 0
    BY Processes DEF Init
<1>2. Basic
    BY <1>1 DEF Basic, BasicPlans, BasicLabels, StartsFresh
<1>3. Orderly
    BY <1>1 DEF Orderly, LauncherAwaited, DeploysStopped, FinishesRecorded, StopsAlone, StopsCleared,
        DeletesStopped, Deployed, Awaited, Deploys, Answering, StopPhase, StopTail
<1>. QED BY <1>2, <1>3 DEF OInv

LEMMA StepOrderly ==
    ASSUME Undisturbed, TInv, OneLocked, OInv, [Next]_vars
    PROVE  OInv'
<1>1. CASE UNCHANGED <<status, vms, pc, exp, requests, overlapped>>
    <2>1. Basic'
        BY <1>1 DEF OInv, Basic, BasicPlans, BasicLabels, StartsFresh, requests
    <2>2. Orderly'
        BY <1>1 DEF OInv, Orderly, LauncherAwaited, DeploysStopped, FinishesRecorded, StopsAlone,
            StopsCleared, DeletesStopped, Deployed, IsRunning, requests
    <2>. QED BY <2>1, <2>2 DEF OInv
<1>2. CASE LockExpires \/ UNCHANGED vars
    BY <1>1, <1>2 DEF LockExpires, vars
<1>3. CASE \E r \in Requests : Submit(r) \/ RequestStep(r)
    BY <1>3, SubmitOrderly, RequestsOrderly
<1>4. CASE \E n \in Starts : Launch(n)
    BY <1>4, LaunchOrderly
<1>5. CASE \E n \in Starts : Finish(n)
    BY <1>5, FinishOrderly
<1>6. CASE \E n \in Starts : PeriodicStep(n) \/ PeriodicRuns(n) \/ Interrupt(n)
    BY <1>6 DEF PeriodicStep, PeriodicBegins, PeriodicRan, PeriodicEnds, PeriodicRuns, Interrupt,
        OInv, Basic, BasicLabels
<1>. QED BY <1>2, <1>3, <1>4, <1>5, <1>6 DEF Next

\* However many creates, deletes, starts and stops the web server is asked
\* for, and whatever else fails: VMs in the namespace belong to a start that
\* is recorded or about to be. The hypotheses are those under which the code
\* keeps to it: no app, whose writes of the status undo the start time; stops
\* once the start has finished; a namespace that minimega clears; none of the
\* requests that write the status without the lock (experiment.Start, Stop
\* and Delete under the web's lock).
THEOREM NoOrphans ==
    ASSUME Undisturbed
    PROVE  Spec => []NoOrphanVMs
<1>1. Init => TInv /\ Coord /\ OInv
    BY InitTyped, InitCoord, InitOrderly
<1>2. TInv /\ Coord /\ OInv /\ [Next]_vars => (TInv /\ Coord /\ OInv)'
    BY StepTyped, StepCoord, StepOrderly DEF Coord
<1>3. TInv /\ Coord /\ OInv => NoOrphanVMs
    BY DEF OInv, Orderly, Deployed, NoOrphanVMs, Deploying
<1>. QED BY <1>1, <1>2, <1>3, PTL DEF Spec
=============================================================================
