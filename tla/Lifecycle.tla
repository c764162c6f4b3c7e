------------------------------ MODULE Lifecycle ------------------------------
(***************************************************************************)
(* The life of one experiment: the requests of the web server and of the   *)
(* command line that create, start, stop, update and delete it, and the    *)
(* goroutines that a start leaves behind.                                  *)
(*                                                                         *)
(* The experiment's config is kept in the config store. Every access is a  *)
(* Get or an Update of the whole config under the store's lock, and no     *)
(* operation holds that lock from its Get to its Update. Of the config the *)
(* model keeps the start that its status records: 0 is the empty start     *)
(* time, n the time of the n-th start. The rest of the status, such as the *)
(* marks of the apps that are running, is left out, but each write of it   *)
(* is a step, since it writes the start time that the writer has in        *)
(* memory. Experiment.WriteToStore reads the config back before its Update *)
(* only to keep the spec, so the model's write is the Update.              *)
(*                                                                         *)
(* Processes are labelled by where they stand in the code:                 *)
(*   a request          a web handler, or a run of `phenix experiment'     *)
(*   Launcher(n)        experiment.Start of the n-th start                 *)
(*   Finisher(n)        the goroutine that Start leaves to finish it       *)
(*   Periodic(n)        the goroutine that runs the app periodically       *)
(* exp[p] is the experiment that p has in memory. Finisher(n) and          *)
(* Launcher(n) share exp[Launcher(n)].                                     *)
(***************************************************************************)
EXTENDS LockCache, Integers, Sequences

CONSTANTS
    Requests,   \* requests and command-line runs in flight
    Ops,        \* kinds of request issued
    Faults,     \* steps that may fail
    App,        \* whether the scenario has an app (run periodically)
    Patient,    \* whether stops are only asked for once a start has finished
    MaxStarts,  \* bound on the starts of one behaviour
    NoConfig    \* the store has no config for the experiment

AllOps == {"create", "delete", "start", "stop", "update", "schedule", "trigger",
           "workflow", "cli"}
AllFaults ==
    {"configure", "prestart", "launch", "cc", "delay", "poststart", "cleanup", "clear"}

ASSUME OpsAssumption == Ops \subseteq AllOps
ASSUME FaultsAssumption == Faults \subseteq AllFaults
ASSUME FlagsAssumption == App \in BOOLEAN /\ Patient \in BOOLEAN
ASSUME MaxStartsAssumption == MaxStarts \in Nat

Starts == 1 .. MaxStarts

Launcher(n) == <<n, "launcher">>
Finisher(n) == <<n, "finisher">>
Periodic(n) == <<n, "periodic">>

Launchers == {Launcher(n) : n \in Starts}
Finishers == {Finisher(n) : n \in Starts}
Periodics == {Periodic(n) : n \in Starts}
Procs == Requests \cup Launchers \cup Finishers \cup Periodics

Status == 0 .. MaxStarts

ASSUME NoConfigAssumption == NoConfig \notin Status
ASSUME ProcsAssumption == Requests \cap (Launchers \cup Finishers \cup Periodics) = {}

\* The context of a start, and that of the periodic runs it schedules.
StartCtx(n) == <<n, "start">>
AppsCtx(n) == <<n, "apps">>
Contexts == {StartCtx(n) : n \in Starts} \cup {AppsCtx(n) : n \in Starts}

VARIABLES
    status,      \* status of the stored config, or NoConfig
    vms,         \* start whose VMs are in the minimega namespace, or 0
    cancelers,   \* contexts whose cancel functions the web server keeps
    waiter,      \* start whose wait group the web server keeps, or 0
    cancelled,   \* contexts that have been cancelled
    pc,          \* label of each process
    exp,         \* experiment each process has in memory
    todo,        \* phases each request has still to go through
    run,         \* start that each request makes, or 0
    taken,       \* wait group that each stop took, or 0
    starts,      \* starts requested so far
    sync,        \* starts made without an error channel (command line)
    groupLost,   \* whether a start ever replaced a wait group that was still kept
    overlapped   \* whether two locked phases were ever in progress at once

registry == <<cancelers, waiter, cancelled, groupLost>>
requests == <<todo, run, taken, starts, sync>>
vars == <<lock, status, vms, registry, pc, exp, requests, overlapped>>

----------------------------------------------------------------------------
(* Labels. A request that holds (or believes it holds) the lock is in one  *)
(* of the locked labels.                                                   *)

StopLabels == {"stopGet", "stopApp1", "stopApp2", "stopClear", "stopPut", "stopPutErr"}

LockedLabels ==
    StopLabels \cup
    {"create", "create1", "create2", "delCheck", "delDo", "spawn", "startWait", "register",
     "periodic", "take", "wait", "wfPut", "reGet", "reApp1", "reApp2", "reCheck",
     "rePut", "reCreate", "reDelete",
     "unlockOk", "unlockErr"}

RequestLabels ==
    LockedLabels \cup
    {"idle", "add", "lookup", "reread", "deferred", "schedCheck", "updGet", "updPut",
     "trigGet", "trigMark", "trigRun", "trigPut", "cliGet", "cliWait"}

LauncherLabels ==
    {"none", "track", "startGet", "pre1", "pre2", "launch", "fork", "sync", "syncPost1",
     "syncPost2", "clean1", "clean2", "stamp", "update", "fetch", "failed", "sendErr",
     "sendOk", "sendNone", "resend", "done"}

FinisherLabels ==
    StopLabels \cup
    {"none", "delay", "delayFailed", "post", "report", "post1", "post1w", "post2", "post2w",
     "done"}

PeriodicLabels == {"none", "pInit", "pWait", "pRun", "done"}

Phases == {"create", "delete", "start", "stop", "update", "schedule", "trigger", "cli",
           "reread", "wfUpdate", "deferred"}

TypeOK ==
    /\ LockTypeOK
    /\ status \in Status \cup {NoConfig}
    /\ vms \in 0 .. MaxStarts
    /\ cancelers \subseteq Contexts
    /\ waiter \in 0 .. MaxStarts
    /\ cancelled \subseteq Contexts
    /\ pc \in [Procs -> RequestLabels \cup LauncherLabels \cup FinisherLabels \cup PeriodicLabels]
    /\ exp \in [Procs -> Status \cup {NoConfig}]
    /\ todo \in [Requests -> Seq(Phases)]
    /\ run \in [Requests -> 0 .. MaxStarts]
    /\ taken \in [Requests -> 0 .. MaxStarts]
    /\ starts \in 0 .. MaxStarts
    /\ sync \subseteq Starts
    /\ groupLost \in BOOLEAN
    /\ overlapped \in BOOLEAN

Init ==
    /\ LockInit
    /\ status \in {NoConfig, 0}
    /\ vms = 0
    /\ cancelers = {} /\ waiter = 0 /\ cancelled = {}
    /\ pc = [p \in Procs |-> IF p \in Requests THEN "idle" ELSE "none"]
    /\ exp = [p \in Procs |-> NoConfig]
    /\ todo = [r \in Requests |-> <<>>]
    /\ run = [r \in Requests |-> 0]
    /\ taken = [r \in Requests |-> 0]
    /\ starts = 0
    /\ sync = {}
    /\ groupLost = FALSE
    /\ overlapped = FALSE

----------------------------------------------------------------------------
(* The config store and the steps that requests have in common.            *)

IsRunning == status \notin {NoConfig, 0}

\* Fault: the store writes the config whether it is there or not.
Upserted(s) == s

\* store.Update of the config with status s, which fails if there is none.
Stored(s) == IF status = NoConfig THEN NoConfig ELSE s

Goto(p, label) == pc' = [pc EXCEPT ![p] = label]

\* The value after a step that may fail.
Outcome(fault, ok, err) == {ok} \cup (IF fault \in Faults THEN {err} ELSE {})

\* mm.ClearNamespace where v's VMs are, when its error is ignored.
Cleared(v) == Outcome("clear", 0, v)

\* What p has in memory is not used any more.
Forget(p) == exp' = [exp EXCEPT ![p] = NoConfig]

Locked(r) == pc[r] \in LockedLabels

\* The label at which a phase begins, and that of its first step under the lock.
EntryOf ==
    [create |-> "add", delete |-> "add", start |-> "add", stop |-> "add", wfUpdate |-> "add",
     update |-> "updGet", schedule |-> "schedCheck", trigger |-> "trigGet", cli |-> "cliGet",
     reread |-> "reread", deferred |-> "deferred"]

InsideOf ==
    [create |-> IF App THEN "create1" ELSE "create", delete |-> "delCheck",
     start |-> "spawn", stop |-> "take", wfUpdate |-> "wfPut"]

\* The request leaves its phase, for the next one or for good. A workflow
\* whose start fails still runs the Unlock it deferred before; any other
\* failure ends the request.
Leave(r, ok) ==
    LET rest == IF ok \/ Head(todo[r]) = "start" THEN Tail(todo[r]) ELSE <<>>
    IN  /\ todo' = [todo EXCEPT ![r] = rest]
        /\ Goto(r, IF rest = <<>> THEN "idle" ELSE EntryOf[Head(rest)])
        /\ run' = [run EXCEPT ![r] = IF rest = <<>> THEN 0 ELSE @]
        /\ exp' = [exp EXCEPT ![r] = IF rest = <<>> THEN NoConfig ELSE @]
        /\ taken' = [taken EXCEPT ![r] = 0]
        /\ UNCHANGED <<starts, sync>>

\* NewPlan, from the experiment as it is stored now. A restart runs
\* stopExperiment and startExperiment; a start comes after an explicit
\* Unlock and before the deferred one.
WorkflowPlans ==
    CASE status = NoConfig -> {<<"create">>, <<"create", "start", "deferred">>}
      [] IsRunning -> {<<"stop", "reread", "wfUpdate", "start", "deferred">>}
      [] OTHER -> {<<"wfUpdate">>, <<"wfUpdate", "start", "deferred">>}

Plans ==
    {<<op>> : op \in Ops \ {"workflow"}}
        \cup (IF "workflow" \in Ops THEN WorkflowPlans ELSE {})

MakesStart(plan) == \E i \in DOMAIN plan : plan[i] \in {"start", "cli"}

\* A request arrives. planWorkflow keeps the experiment it planned from.
Submit(r) ==
    /\ pc[r] = "idle"
    /\ \E plan \in Plans :
        /\ MakesStart(plan) => starts < MaxStarts
        /\ todo' = [todo EXCEPT ![r] = plan]
        /\ Goto(r, EntryOf[Head(plan)])
        /\ starts' = IF MakesStart(plan) THEN starts + 1 ELSE starts
        /\ run' = [run EXCEPT ![r] = IF MakesStart(plan) THEN starts + 1 ELSE 0]
        /\ exp' = [exp EXCEPT ![r] = IF Head(plan) = "wfUpdate" THEN status ELSE NoConfig]
    /\ UNCHANGED <<lock, status, vms, registry, taken, sync, overlapped>>

\* The goroutines that finish starts have all ended (see Patient), or block
\* for ever because their Start failed.
StartsFinished ==
    \A n \in Starts :
        \/ pc[Finisher(n)] \in {"none", "done"}
        \/ pc[Finisher(n)] \in {"report", "delayFailed"} /\ pc[Launcher(n)] = "resend"

\* The request begins its critical phase, with or without an entry.
Enter(r) ==
    /\ Patient /\ Head(todo[r]) = "stop" => StartsFinished
    /\ Goto(r, InsideOf[Head(todo[r])])
    /\ overlapped' = (overlapped \/ \E q \in Requests \ {r} : Locked(q))

\* cache.LockExperimentFor... : Add, and Get when Add is refused.
Add(r) ==
    /\ pc[r] = "add"
    /\ \/ AddLock(Head(todo[r])) /\ Enter(r)
       \/ AddRefused /\ Goto(r, "lookup") /\ UNCHANGED overlapped
    /\ UNCHANGED <<status, vms, registry, exp, requests>>

Lookup(r) ==
    /\ pc[r] = "lookup"
    /\ \/ LookupMissed /\ Enter(r) /\ UNCHANGED <<exp, requests>>
       \/ LookupFound /\ Leave(r, FALSE) /\ UNCHANGED overlapped
    /\ UNCHANGED <<status, vms, registry>>

\* The Unlock a locked phase ends with.
UnlockExperiment(r) ==
    /\ pc[r] \in {"unlockOk", "unlockErr"}
    /\ Unlock
    /\ Leave(r, pc[r] = "unlockOk")
    /\ UNCHANGED <<status, vms, registry, overlapped>>

\* The Unlock that createFromWorkflow and updateFromWorkflow deferred before
\* they unlocked for the start: it runs when the start has returned.
DeferredUnlock(r) ==
    /\ pc[r] = "deferred"
    /\ Unlock
    /\ Leave(r, TRUE)
    /\ UNCHANGED <<status, vms, registry, overlapped>>

LockExpires ==
    /\ Expire
    /\ UNCHANGED <<status, vms, registry, pc, exp, requests, overlapped>>

----------------------------------------------------------------------------
(* Create and delete.                                                      *)

\* experiment.Create. The create hook runs the configure stage, which writes
\* to whatever config has the name, before store.Create looks for one.
Create(r) ==
    /\ \/ /\ pc[r] = "create1"
          /\ status' = Stored(0)
          /\ Goto(r, "create2")
       \/ /\ pc[r] = "create2"
          /\ status' = Stored(0)
          /\ Goto(r, "create")
       \/ /\ pc[r] = "create" /\ status = NoConfig
          /\ status' = 0
          /\ Goto(r, "unlockOk")
       \/ /\ pc[r] = "create" /\ (status # NoConfig \/ "configure" \in Faults)
          /\ Goto(r, "unlockErr")
          /\ UNCHANGED status
    /\ UNCHANGED <<lock, vms, registry, exp, requests, overlapped>>

\* experiment.Delete: the check that it is not running, then the delete.
Delete(r) ==
    /\ \/ /\ pc[r] = "delCheck"
          /\ Goto(r, IF status = NoConfig \/ IsRunning THEN "unlockErr" ELSE "delDo")
          /\ UNCHANGED status
       \/ /\ pc[r] = "delDo"
          /\ status' = NoConfig
          /\ Goto(r, IF status = NoConfig THEN "unlockErr" ELSE "unlockOk")
    /\ UNCHANGED <<lock, vms, registry, exp, requests, overlapped>>

----------------------------------------------------------------------------
(* startExperiment of the web server.                                      *)

Spawn(r) ==
    /\ pc[r] = "spawn"
    /\ pc' = [pc EXCEPT ![r] = "startWait", ![Launcher(run[r])] = "track"]
    /\ UNCHANGED <<lock, status, vms, registry, exp, requests, overlapped>>

\* The handler receives the launcher's result. After a failed Start the
\* launcher goes on to fetch the experiment and to send once more, with
\* nobody left to receive.
ReceiveResult(r) ==
    LET l == Launcher(run[r])
    IN  /\ pc[r] = "startWait"
        /\ \/ pc[l] = "sendErr"
              /\ pc' = [pc EXCEPT ![r] = "unlockErr", ![l] = "resend"]
           \/ pc[l] = "sendNone"
              /\ pc' = [pc EXCEPT ![r] = "unlockErr", ![l] = "done"]
           \/ pc[l] = "sendOk"
              /\ pc' = [pc EXCEPT ![r] = "register", ![l] = "done"]
        /\ UNCHANGED <<lock, status, vms, registry, exp, requests, overlapped>>

\* The cancel function and the wait group of the periodic runs are kept.
Register(r) ==
    /\ pc[r] = "register"
    /\ cancelers' = cancelers \cup {AppsCtx(run[r])}
    /\ waiter' = run[r]
    /\ groupLost' = (groupLost \/ waiter # 0)
    /\ Goto(r, "periodic")
    /\ UNCHANGED <<lock, status, vms, cancelled, exp, requests, overlapped>>

PeriodicallyRunApps(r) ==
    /\ pc[r] = "periodic"
    /\ pc' = [pc EXCEPT ![r] = "unlockOk", ![Periodic(run[r])] = IF App THEN "pInit" ELSE @]
    /\ UNCHANGED <<lock, status, vms, registry, exp, requests, overlapped>>

----------------------------------------------------------------------------
(* stopExperiment of the web server, and experiment.Stop, which it shares  *)
(* with the goroutine that finishes a start.                               *)

\* Fault: the cancel functions are dropped without a call.
DropCancelers(r) ==
    /\ pc[r] = "take"
    /\ cancelers' = {}
    /\ taken' = [taken EXCEPT ![r] = waiter]
    /\ waiter' = 0
    /\ Goto(r, "wait")
    /\ UNCHANGED <<lock, status, vms, cancelled, groupLost, exp, todo, run, starts, sync, overlapped>>

TakeCancelers(r) ==
    /\ pc[r] = "take"
    /\ cancelled' = cancelled \cup cancelers
    /\ cancelers' = {}
    /\ taken' = [taken EXCEPT ![r] = waiter]
    /\ waiter' = 0
    /\ Goto(r, "wait")
    /\ UNCHANGED <<lock, status, vms, groupLost, exp, todo, run, starts, sync, overlapped>>

Ended(p) == pc[p] \in {"none", "done"}

\* Fault: the stop does not wait for the periodic runs to end.
CancelWithoutWait(r) ==
    /\ pc[r] = "wait"
    /\ Goto(r, "stopGet")
    /\ UNCHANGED <<lock, status, vms, registry, exp, requests, overlapped>>

\* wg.Wait: the group counts the goroutines that were added and have not ended.
WaitForApps(r) ==
    /\ pc[r] = "wait"
    /\ taken[r] # 0 => Ended(Periodic(taken[r]))
    /\ Goto(r, "stopGet")
    /\ UNCHANGED <<lock, status, vms, registry, exp, requests, overlapped>>

StopReturn(a, ok) ==
    Goto(a, IF a \in Finishers THEN "done" ELSE IF ok THEN "unlockOk" ELSE "unlockErr")

StopGet(a) ==
    /\ pc[a] = "stopGet"
    /\ \/ /\ IsRunning
          /\ exp' = [exp EXCEPT ![a] = status]
          /\ Goto(a, IF App THEN "stopApp1" ELSE "stopClear")
       \/ /\ ~IsRunning
          /\ StopReturn(a, FALSE)
          /\ UNCHANGED exp
    /\ UNCHANGED <<lock, status, vms, registry, requests, overlapped>>

\* The cleanup stage of the app writes the whole status twice.
StopCleanup(a) ==
    /\ \/ /\ pc[a] = "stopApp1"
          /\ status' = Stored(exp[a])
          /\ Goto(a, "stopApp2")
       \/ /\ pc[a] = "stopApp2"
          /\ status' = Stored(exp[a])
          /\ Goto(a, "stopClear")
    /\ UNCHANGED <<lock, vms, registry, exp, requests, overlapped>>

StopClear(a) ==
    /\ pc[a] = "stopClear"
    /\ \/ vms' = 0 /\ \E next \in Outcome("cleanup", "stopPut", "stopPutErr") : Goto(a, next)
       \/ "clear" \in Faults /\ UNCHANGED vms /\ Goto(a, "stopPutErr")
    /\ UNCHANGED <<lock, status, registry, exp, requests, overlapped>>

\* The start time is emptied even when something failed before.
StopPut(a) ==
    /\ pc[a] \in {"stopPut", "stopPutErr"}
    /\ status' = Stored(0)
    /\ StopReturn(a, pc[a] = "stopPut" /\ status # NoConfig)
    /\ Forget(a)
    /\ UNCHANGED <<lock, vms, registry, requests, overlapped>>

Stop(a) == StopGet(a) \/ StopCleanup(a) \/ StopClear(a) \/ StopPut(a)

----------------------------------------------------------------------------
(* experiment.Start. The web server runs it in a goroutine of its own and  *)
(* gives it an error channel; the command line runs it to its end (sync).  *)

Track(n) ==
    /\ pc[Launcher(n)] = "track"
    /\ cancelers' = cancelers \cup {StartCtx(n)}
    /\ Goto(Launcher(n), "startGet")
    /\ UNCHANGED <<lock, status, vms, waiter, cancelled, groupLost, exp, requests, overlapped>>

StartGet(n) ==
    /\ pc[Launcher(n)] = "startGet"
    /\ \/ /\ status # NoConfig /\ ~IsRunning
          /\ exp' = [exp EXCEPT ![Launcher(n)] = status]
          /\ Goto(Launcher(n), "pre1")
       \/ /\ status = NoConfig \/ IsRunning
          /\ Goto(Launcher(n), "failed")
          /\ UNCHANGED exp
    /\ UNCHANGED <<lock, status, vms, registry, requests, overlapped>>

Cancelled(n) == StartCtx(n) \in cancelled

\* The pre-start stage; the app's marks are written with the rest.
PreStart(n) ==
    LET l == Launcher(n)
    IN  /\ \/ /\ pc[l] = "pre1" /\ (Cancelled(n) \/ "prestart" \in Faults)
              /\ Goto(l, "failed")
              /\ UNCHANGED status
           \/ /\ pc[l] = "pre1" /\ ~Cancelled(n) /\ ~App
              /\ Goto(l, "launch")
              /\ UNCHANGED status
           \/ /\ pc[l] = "pre1" /\ ~Cancelled(n) /\ App
              /\ status' = Stored(exp[l])
              /\ Goto(l, "pre2")
           \/ /\ pc[l] = "pre2"
              /\ status' = Stored(exp[l])
              /\ \E next \in Outcome("prestart", "launch", "failed") : Goto(l, next)
        /\ UNCHANGED <<lock, vms, registry, exp, requests, overlapped>>

\* Fault: a failed launch leaves the VMs that came up.
LaunchWithoutClear(n) ==
    /\ pc[Launcher(n)] = "launch"
    /\ \/ vms' = n /\ Goto(Launcher(n), "fork")
       \/ "launch" \in Faults /\ vms' = n /\ Goto(Launcher(n), "failed")
    /\ UNCHANGED <<lock, status, registry, exp, requests, overlapped>>

\* The minimega script and the launch of the VMs; on failure what was
\* launched is cleared.
LaunchVMs(n) ==
    /\ pc[Launcher(n)] = "launch"
    /\ \/ vms' = n /\ Goto(Launcher(n), "fork")
       \/ "launch" \in Faults /\ vms' \in Cleared(n) /\ Goto(Launcher(n), "failed")
    /\ UNCHANGED <<lock, status, registry, exp, requests, overlapped>>

\* With an error channel a goroutine finishes the start while Start goes on
\* to record it; without one Start finishes it first. The goroutine begins
\* with the commands of the cc script.
Fork(n) ==
    /\ pc[Launcher(n)] = "fork"
    /\ \/ n \in sync /\ Goto(Launcher(n), "sync")
       \/ /\ n \notin sync
          /\ \E next \in Outcome("cc", "delay", "report") :
                pc' = [pc EXCEPT ![Launcher(n)] = "stamp", ![Finisher(n)] = next]
    /\ UNCHANGED <<lock, status, vms, registry, exp, requests, overlapped>>

\* The rest of a start without an error channel: commands and delayed VMs,
\* the post-start stage and, when that fails, the cleanup stage.
FinishInline(n) ==
    LET l == Launcher(n)
    IN  /\ \/ /\ pc[l] = "sync"
              /\ \/ /\ ~Cancelled(n)
                    /\ Goto(l, IF App THEN "syncPost1" ELSE "stamp")
                    /\ UNCHANGED vms
                 \/ /\ Faults \cap {"cc", "delay"} # {} \/ Cancelled(n)
                    /\ vms' \in Cleared(vms)
                    /\ Goto(l, "failed")
                 \/ /\ "poststart" \in Faults \/ Cancelled(n)
                    /\ Goto(l, "clean1")
                    /\ UNCHANGED vms
              /\ UNCHANGED status
           \/ /\ pc[l] = "syncPost1"
              /\ status' = Stored(exp[l])
              /\ Goto(l, "syncPost2")
              /\ UNCHANGED vms
           \/ /\ pc[l] = "syncPost2"
              /\ status' = Stored(exp[l])
              /\ \E next \in Outcome("poststart", "stamp", "clean1") : Goto(l, next)
              /\ UNCHANGED vms
           \/ /\ pc[l] = "clean1"
              /\ status' = IF App THEN Stored(exp[l]) ELSE status
              /\ Goto(l, "clean2")
              /\ UNCHANGED vms
           \/ /\ pc[l] = "clean2"
              /\ status' = IF App THEN Stored(exp[l]) ELSE status
              /\ vms' \in Cleared(vms)
              /\ Goto(l, "failed")
        /\ UNCHANGED <<lock, registry, exp, requests, overlapped>>

\* Fault: the start is recorded under the number of the next one.
StampNext(n) ==
    /\ pc[Launcher(n)] = "stamp"
    /\ exp' = [exp EXCEPT ![Launcher(n)] = n + 1]
    /\ Goto(Launcher(n), "update")
    /\ UNCHANGED <<lock, status, vms, registry, requests, overlapped>>

Stamp(n) ==
    /\ pc[Launcher(n)] = "stamp"
    /\ exp' = [exp EXCEPT ![Launcher(n)] = n]
    /\ Goto(Launcher(n), "update")
    /\ UNCHANGED <<lock, status, vms, registry, requests, overlapped>>

RecordStart(n) ==
    LET l == Launcher(n)
    IN  /\ pc[l] = "update"
        /\ status' = Stored(exp[l])
        /\ vms' \in IF status = NoConfig THEN Cleared(vms) ELSE {vms}
        /\ Goto(l, IF status = NoConfig THEN "failed" ELSE IF n \in sync THEN "sendOk" ELSE "fetch")
        /\ UNCHANGED <<lock, registry, exp, requests, overlapped>>

\* After Start the web server reads the experiment again; the periodic runs
\* use what it finds.
Fetch(n) ==
    /\ pc[Launcher(n)] = "fetch"
    /\ exp' = [exp EXCEPT ![Periodic(n)] = IF App THEN status ELSE NoConfig]
    /\ Goto(Launcher(n), IF status = NoConfig THEN "sendNone" ELSE "sendOk")
    /\ UNCHANGED <<lock, status, vms, registry, requests, overlapped>>

\* Start returned an error: the web server cancels its context and drops
\* every cancel function it keeps for the experiment.
StartFailed(n) ==
    /\ pc[Launcher(n)] = "failed"
    /\ IF n \in sync
       THEN UNCHANGED <<cancelled, cancelers>>
       ELSE /\ cancelled' = cancelled \cup {StartCtx(n)}
            /\ cancelers' = {}
    /\ Goto(Launcher(n), "sendErr")
    /\ UNCHANGED <<lock, status, vms, waiter, groupLost, exp, requests, overlapped>>

----------------------------------------------------------------------------
(* The goroutine that finishes a start.                                    *)

\* Its errors go to a channel that the web server only reads once Start has
\* returned without an error: until then the send blocks.
ErrorsRead(n) == pc[Launcher(n)] \in {"fetch", "sendOk", "sendNone", "done"}

\* The error is sent; the goroutine goes on to stop the experiment.
ReportError(n) ==
    /\ pc[Finisher(n)] = "report"
    /\ ErrorsRead(n)
    /\ Goto(Finisher(n), "stopGet")
    /\ UNCHANGED <<lock, status, vms, registry, exp, requests, overlapped>>

\* handleDelayedVMs; after an error, which is sent, the test of the context.
HandleDelayedVMs(n) ==
    LET f == Finisher(n)
    IN  /\ \/ pc[f] = "delay" /\ Goto(f, "post") /\ UNCHANGED vms
           \/ pc[f] = "delay" /\ Cancelled(n) /\ Goto(f, "delayFailed") /\ UNCHANGED vms
           \/ /\ pc[f] = "delay" /\ ~Cancelled(n) /\ "delay" \in Faults
              /\ vms' \in Cleared(vms)
              /\ Goto(f, "delayFailed")
           \/ /\ pc[f] = "delayFailed" /\ ErrorsRead(n)
              /\ Goto(f, IF Cancelled(n) THEN "done" ELSE "stopGet")
              /\ UNCHANGED vms
        /\ UNCHANGED <<lock, status, registry, exp, requests, overlapped>>

\* The post-start stage. ApplyApps returns the context's error, and every
\* error leads to Stop. WriteToStore takes a copy of the status that is
\* shared with Start and then stores it.
PostStart(n) ==
    LET f == Finisher(n)
        l == Launcher(n)
        Copy == exp' = [exp EXCEPT ![f] = exp[l]]
    IN  /\ \/ /\ pc[f] = "post" /\ Cancelled(n)
              /\ Goto(f, "report")
              /\ UNCHANGED <<status, exp>>
           \/ /\ pc[f] = "post" /\ ~Cancelled(n)
              /\ \E next \in Outcome("poststart", IF App THEN "post1" ELSE "done", "report") :
                    Goto(f, next)
              /\ UNCHANGED <<status, exp>>
           \/ pc[f] = "post1" /\ Copy /\ Goto(f, "post1w") /\ UNCHANGED status
           \/ pc[f] = "post2" /\ Copy /\ Goto(f, "post2w") /\ UNCHANGED status
           \/ pc[f] = "post1w" /\ status' = Stored(exp[f]) /\ Goto(f, "post2") /\ Forget(f)
           \/ /\ pc[f] = "post2w"
              /\ status' = Stored(exp[f])
              /\ \E next \in Outcome("poststart", "done", "report") : Goto(f, next)
              /\ Forget(f)
        /\ UNCHANGED <<lock, vms, registry, requests, overlapped>>

Finish(n) ==
    HandleDelayedVMs(n) \/ PostStart(n) \/ ReportError(n) \/ Stop(Finisher(n))

Launch(n) ==
    \/ Track(n) \/ StartGet(n) \/ PreStart(n) \/ LaunchVMs(n) \/ Fork(n) \/ FinishInline(n)
    \/ Stamp(n) \/ RecordStart(n) \/ Fetch(n) \/ StartFailed(n)

----------------------------------------------------------------------------
(* The goroutine that runs the app periodically. It works on the           *)
(* experiment it was given, which nobody else changes.                     *)

\* Every write is of the whole status that the goroutine has in memory.
WriteToStore(p) == status' = Stored(exp[p])

PeriodicBegins(n) ==
    /\ pc[Periodic(n)] = "pInit"
    /\ WriteToStore(Periodic(n))
    /\ Goto(Periodic(n), "pWait")
    /\ UNCHANGED <<lock, vms, registry, exp, requests, overlapped>>

\* The timer fires. The mark that is tested is the one in memory, which only
\* this goroutine sets.
PeriodicRuns(n) ==
    /\ pc[Periodic(n)] = "pWait"
    /\ WriteToStore(Periodic(n))
    /\ Goto(Periodic(n), "pRun")
    /\ UNCHANGED <<lock, vms, registry, exp, requests, overlapped>>

PeriodicRan(n) ==
    /\ pc[Periodic(n)] = "pRun"
    /\ WriteToStore(Periodic(n))
    /\ Goto(Periodic(n), "pWait")
    /\ UNCHANGED <<lock, vms, registry, exp, requests, overlapped>>

PeriodicEnds(n) ==
    /\ pc[Periodic(n)] = "pWait"
    /\ AppsCtx(n) \in cancelled
    /\ WriteToStore(Periodic(n))
    /\ Goto(Periodic(n), "done")
    /\ Forget(Periodic(n))
    /\ UNCHANGED <<lock, vms, registry, requests, overlapped>>

----------------------------------------------------------------------------
(* Requests that work on a copy of the status without the lock.            *)

\* ScheduleExperiment only looks whether somebody holds the lock.
ScheduleCheck(r) ==
    /\ pc[r] = "schedCheck"
    /\ \/ lock = NoLock /\ Goto(r, "updGet") /\ UNCHANGED <<exp, requests>>
       \/ lock # NoLock /\ Leave(r, FALSE)
    /\ UNCHANGED <<lock, status, vms, registry, overlapped>>

\* UpdateExperiment and experiment.Schedule change the spec of an experiment
\* that is not running, and write the status they read back with it.
UpdateGet(r) ==
    /\ pc[r] = "updGet"
    /\ \/ /\ status # NoConfig /\ ~IsRunning
          /\ exp' = [exp EXCEPT ![r] = status]
          /\ Goto(r, "updPut")
          /\ UNCHANGED requests
       \/ (status = NoConfig \/ IsRunning) /\ Leave(r, FALSE)
    /\ UNCHANGED <<lock, status, vms, registry, overlapped>>

UpdatePut(r) ==
    /\ pc[r] = "updPut"
    /\ status' = Stored(exp[r])
    /\ Leave(r, TRUE)
    /\ UNCHANGED <<lock, vms, registry, overlapped>>

\* TriggerRunning: the app's running stage on demand. It is skipped when the
\* experiment that was read is not running, or has the app marked (a part of
\* the status that is left out: either may happen).
TriggerGet(r) ==
    /\ pc[r] = "trigGet"
    /\ \/ /\ IsRunning
          /\ exp' = [exp EXCEPT ![r] = status]
          /\ Goto(r, "trigMark")
          /\ UNCHANGED requests
       \/ Leave(r, FALSE)
    /\ UNCHANGED <<lock, status, vms, registry, overlapped>>

TriggerMark(r) ==
    /\ pc[r] = "trigMark"
    /\ WriteToStore(r)
    /\ Goto(r, "trigRun")
    /\ UNCHANGED <<lock, vms, registry, exp, requests, overlapped>>

\* The stage has run; the experiment is read again (kept if that fails).
TriggerReload(r) ==
    /\ pc[r] = "trigRun"
    /\ exp' = [exp EXCEPT ![r] = IF status = NoConfig THEN @ ELSE status]
    /\ Goto(r, "trigPut")
    /\ UNCHANGED <<lock, status, vms, registry, requests, overlapped>>

TriggerPut(r) ==
    /\ pc[r] = "trigPut"
    /\ status' = Stored(exp[r])
    /\ Leave(r, TRUE)
    /\ UNCHANGED <<lock, vms, registry, overlapped>>

----------------------------------------------------------------------------
(* Applying a workflow: updateFromWorkflow.                                *)

\* After its stop a restart reads the experiment again.
Reread(r) ==
    /\ pc[r] = "reread"
    /\ \/ /\ status # NoConfig
          /\ exp' = [exp EXCEPT ![r] = status]
          /\ todo' = [todo EXCEPT ![r] = Tail(@)]
          /\ Goto(r, "add")
          /\ UNCHANGED <<run, taken, starts, sync>>
       \/ status = NoConfig /\ Leave(r, FALSE)
    /\ UNCHANGED <<lock, status, vms, registry, overlapped>>

\* WriteToStore(false) of the experiment the plan was made from.
WorkflowPut(r) ==
    /\ pc[r] = "wfPut"
    /\ status' = Stored(exp[r])
    /\ Goto(r, IF status = NoConfig THEN "unlockErr" ELSE "reGet")
    /\ UNCHANGED <<lock, vms, registry, exp, requests, overlapped>>

\* experiment.Reconfigure: refused when running; the configure stage writes
\* the status that was read, and config.Update the whole config.
Reconfigure(r) ==
    /\ \/ /\ pc[r] = "reGet" /\ status # NoConfig /\ ~IsRunning
          /\ exp' = [exp EXCEPT ![r] = status]
          /\ Goto(r, IF App THEN "reApp1" ELSE "reCheck")
          /\ UNCHANGED status
       \/ /\ pc[r] = "reGet" /\ (status = NoConfig \/ IsRunning)
          /\ Goto(r, "unlockErr")
          /\ UNCHANGED <<exp, status>>
       \/ /\ pc[r] = "reApp1"
          /\ status' = Stored(exp[r])
          /\ Goto(r, "reApp2")
          /\ UNCHANGED exp
       \/ /\ pc[r] = "reApp2"
          /\ status' = Stored(exp[r])
          /\ Goto(r, "reCheck")
          /\ UNCHANGED exp
       \/ /\ pc[r] = "reCheck" /\ "configure" \in Faults
          /\ Goto(r, "unlockErr")
          /\ UNCHANGED <<exp, status>>
    /\ UNCHANGED <<lock, vms, registry, requests, overlapped>>

\* config.Update. When the config has gone since the first look at it, the
\* update is taken for a change of name: the config is created under its new
\* name and deleted under its old one, which here are the same.
ConfigUpdate(r) ==
    /\ \/ /\ pc[r] = "reCheck"
          /\ Goto(r, IF status = NoConfig THEN "unlockErr" ELSE "rePut")
          /\ UNCHANGED status
       \/ /\ pc[r] = "rePut"
          /\ status' = Stored(exp[r])
          /\ Goto(r, IF status = NoConfig THEN "reCreate" ELSE "unlockOk")
       \/ /\ pc[r] = "reCreate"
          /\ status' = IF status = NoConfig THEN exp[r] ELSE status
          /\ Goto(r, IF status = NoConfig THEN "reDelete" ELSE "unlockErr")
       \/ /\ pc[r] = "reDelete"
          /\ status' = NoConfig
          /\ Goto(r, IF status = NoConfig THEN "unlockErr" ELSE "unlockOk")
    /\ UNCHANGED <<lock, vms, registry, exp, requests, overlapped>>

----------------------------------------------------------------------------
(* phenix experiment start --honor-run-periodically: no lock, no error     *)
(* channel, a process of its own that ends with Ctrl+c.                    *)

CliGet(r) ==
    /\ pc[r] = "cliGet"
    /\ \/ /\ status # NoConfig /\ ~IsRunning
          /\ exp' = [exp EXCEPT ![r] = status]
          /\ sync' = sync \cup {run[r]}
          /\ pc' = [pc EXCEPT ![r] = "cliWait", ![Launcher(run[r])] = "startGet"]
          /\ UNCHANGED <<todo, run, taken, starts>>
       \/ (status = NoConfig \/ IsRunning) /\ Leave(r, FALSE)
    /\ UNCHANGED <<lock, status, vms, registry, overlapped>>

\* The periodic runs are given the experiment read before the start.
CliStarted(r) ==
    LET n == run[r]
    IN  /\ pc[r] = "cliWait"
        /\ pc[Launcher(n)] \in {"sendErr", "sendOk"}
        /\ pc' = [pc EXCEPT ![r] = "idle", ![Launcher(n)] = "done",
                            ![Periodic(n)] =
                                IF App /\ pc[Launcher(n)] = "sendOk" THEN "pInit" ELSE @]
        /\ exp' = [exp EXCEPT ![Periodic(n)] = IF App THEN exp[r] ELSE NoConfig, ![r] = NoConfig]
        /\ todo' = [todo EXCEPT ![r] = <<>>]
        /\ run' = [run EXCEPT ![r] = 0]
        /\ UNCHANGED <<lock, status, vms, registry, taken, starts, sync, overlapped>>

\* Ctrl+c: Start and the periodic runs have the same context.
Interrupt(n) ==
    /\ n \in sync /\ StartCtx(n) \notin cancelled
    /\ ~Ended(Launcher(n)) \/ ~Ended(Periodic(n))
    /\ cancelled' = cancelled \cup {StartCtx(n), AppsCtx(n)}
    /\ UNCHANGED <<lock, status, vms, cancelers, waiter, groupLost, pc, exp, requests, overlapped>>

----------------------------------------------------------------------------
\* The handlers, once they have the lock they want.
DeleteExperiment(r) == Delete(r)
StartExperiment(r) == Spawn(r) \/ ReceiveResult(r) \/ Register(r) \/ PeriodicallyRunApps(r)
StopExperiment(r) == TakeCancelers(r) \/ WaitForApps(r) \/ Stop(r)
TriggerExperimentApps(r) == TriggerGet(r) \/ TriggerMark(r) \/ TriggerReload(r) \/ TriggerPut(r)

RequestStep(r) ==
    \/ Add(r) \/ Lookup(r) \/ UnlockExperiment(r) \/ DeferredUnlock(r)
    \/ Create(r) \/ DeleteExperiment(r)
    \/ StartExperiment(r) \/ StopExperiment(r)
    \/ ScheduleCheck(r) \/ UpdateGet(r) \/ UpdatePut(r)
    \/ TriggerExperimentApps(r)
    \/ Reread(r) \/ WorkflowPut(r) \/ Reconfigure(r) \/ ConfigUpdate(r)
    \/ CliGet(r) \/ CliStarted(r)

PeriodicStep(n) == PeriodicBegins(n) \/ PeriodicRan(n) \/ PeriodicEnds(n)

Next ==
    \/ LockExpires
    \/ \E r \in Requests : Submit(r) \/ RequestStep(r)
    \/ \E n \in Starts :
        Launch(n) \/ Finish(n) \/ PeriodicStep(n) \/ PeriodicRuns(n) \/ Interrupt(n)

\* Requests may stop coming, timers need not fire before the stop and locks
\* need not expire; every goroutine that can take a step eventually does.
\* The select of a periodic run chooses at random between its timer and a
\* cancelled context: the timer does not win for ever.
Fairness ==
    /\ \A r \in Requests : WF_vars(RequestStep(r))
    /\ \A n \in Starts :
        /\ WF_vars(Launch(n)) /\ WF_vars(Finish(n)) /\ WF_vars(PeriodicStep(n))
        /\ SF_vars(PeriodicEnds(n))

Spec == Init /\ [][Next]_vars

FairSpec == Spec /\ Fairness

----------------------------------------------------------------------------
Live(n) == pc[Periodic(n)] \in {"pInit", "pWait", "pRun"}

Deploying(n) ==
    pc[Launcher(n)] \in {"fork", "sync", "syncPost1", "syncPost2", "clean1", "clean2",
                          "stamp", "update"}

\* VMs in the namespace belong to an experiment that is recorded as running,
\* or to a start that is about to record it: nobody is left with VMs that
\* stop refuses to stop and delete leaves behind. Two locked phases at once
\* void the claim (experiment.Start, Stop and Delete under the web's lock).
NoOrphanVMs ==
    ~overlapped /\ vms # 0 => IsRunning \/ \E n \in Starts : Deploying(n)

\* While a stop of the web server is in experiment.Stop, and so between its
\* read of the status and its write, no periodic run of the web server can
\* write the status (stopExperiment cancels them and waits). A start that
\* replaces a wait group voids the claim: the stop waits for the new one only.
AppsQuietInStop ==
    ~overlapped /\ ~groupLost =>
        \A r \in Requests, n \in Starts \ sync : pc[r] \in StopLabels => ~Live(n)

\* Every request comes to its end (startExperiment, stopExperiment).
RequestsReturn == \A r \in Requests : pc[r] # "idle" ~> pc[r] = "idle"

\* Once an experiment has been deleted, no late goroutine or request that
\* still has it in memory stores it again (Experiment.WriteToStore,
\* store.Update). Only a create brings it back, and for a moment the rename
\* that config.Update believes in, which deletes it again.
DeletedStaysDeleted ==
    [][status = NoConfig /\ status' # NoConfig =>
        \E r \in Requests : pc[r] \in {"create", "reCreate"} /\ Locked(r)']_vars

\* A goroutine that runs an app periodically can be cancelled: the web
\* server keeps its cancel function until it has been called.
PeriodicRunsCancelable ==
    \A n \in Starts : Live(n) /\ n \notin sync => AppsCtx(n) \in cancelers \cup cancelled

\* A start that was cancelled leaves the stop to the request that cancelled
\* it: its goroutine is never inside experiment.Stop together with a request.
CancelledStartsDontStop ==
    \A n \in Starts, r \in Requests :
        ~(Cancelled(n) /\ pc[Finisher(n)] \in StopLabels /\ pc[r] \in StopLabels)

\* Applying a workflow does not write an old status back over a newer one.
WorkflowKeepsStatus ==
    [][\A r \in Requests :
        WorkflowPut(r) /\ status # NoConfig => status' = status]_vars

\* An experiment that the command line started goes on running while its
\* apps are run periodically, and after that is interrupted.
CliStartLasts ==
    \A n \in sync : pc[Periodic(n)] # "none" /\ vms = n => IsRunning
==============================================================================
