------------------------------- MODULE Scorch -------------------------------
(***************************************************************************)
(* Scorch runs of one experiment (api/scorch, web/scorch): the requests    *)
(* that start and cancel a run, the executor that takes a run and its      *)
(* nested loops through configure, start, stop and cleanup, the components *)
(* in the background, taps and terminals, and the pipeline of each run and *)
(* loop that the web server shows.                                         *)
(*                                                                         *)
(* A component is "user" (a command), "pause", "tap" or "break"; "soh"     *)
(* takes the steps of "pause". A loop is entered once; output, files and   *)
(* the pipeline's edges are left out.                                      *)
(***************************************************************************)
EXTENDS Integers, Sequences, FiniteSets

CONSTANTS
    Execs,      \* requests that start a run
    RunIds,     \* runs of the experiment
    Plan,       \* Plan[loop][stage]: the components, in order
    Kind,       \* Kind[component]
    Background, \* components configured to run in the background
    MaxResets,  \* bound on updates of the experiment
    NoExec

CompStages == {"configure", "start", "stop", "cleanup"}
Nesting == DOMAIN Plan
Inmost == CHOOSE l \in Nesting : \A k \in Nesting : k <= l

ASSUME ScorchAssumption ==
    /\ Inmost \in Nat \ {0} /\ Nesting = 1 .. Inmost /\ MaxResets \in Nat /\ NoExec \notin Execs
    /\ \A l \in Nesting, s \in CompStages : Plan[l][s] \in Seq(DOMAIN Kind)
    /\ \A c \in DOMAIN Kind : Kind[c] \in {"user", "pause", "tap", "break"}

VARIABLES
    execs,        \* per request: where it is, and the experiment it holds
    cancelers,    \* scorchexe.cancelers
    status,       \* the stored status: running, and recorded taps
    hostTaps,     \* taps on the head node: <<exec, component>>
    inBackground, \* components at work in the background
    backgrounded, \* cancel functions, found by stage and name
    nodes,        \* pipeline: status of each component
    stages,       \* pipeline: status of each stage
    terminals,    \* execs whose break has a web terminal
    apart,        \* execs that had no other beside them, and no reset
    overwritten,  \* execs whose canceler another start replaced
    resets        \* updates of the experiment

scorchVars == <<execs, cancelers, status, hostTaps, inBackground, backgrounded, nodes, stages,
                terminals, apart, overwritten, resets>>

Pipes == RunIds \X Nesting
InStage(l, s) == {Plan[l][s][i] : i \in DOMAIN Plan[l][s]}
First(l, s) == [loop |-> l, stage |-> s, i |-> 1]
AtWork(x) == execs[x].at \in {"begin", "end", "wrapup"}
Over == {"success", "failure"}

ScorchTypeOK ==
    /\ \A x \in Execs : execs[x].at \in {"idle", "checked", "added", "begin", "end", "wrapup", "done"}
    /\ cancelers \in [RunIds -> Execs \cup {NoExec}]
    /\ \A t \in hostTaps : t[1] \in Execs /\ Kind[t[2]] = "tap"
    /\ \A b \in inBackground : b.name \in Background /\ b.stage \in {"configure", "start"}
    /\ \A b, d \in backgrounded : b.stage = d.stage /\ b.name = d.name => b = d
    /\ \A p \in Pipes, s \in CompStages : \A c \in InStage(p[2], s) :
            nodes[p][s][c] \in {"unknown", "running", "unstable", "background"} \cup Over
    /\ \A p \in Pipes : stages[p].done \in {"unknown", "running", "success"}
    /\ terminals \subseteq Execs

\* newPipeline
NewStages == [s \in CompStages \cup {"loop", "done"} |-> "unknown"]

\* getPipeline: a node per component.
NewNodes(l) == [s \in CompStages |-> [c \in InStage(l, s) |-> "unknown"]]

ScorchInit ==
    /\ execs = [x \in Execs |->
            [at |-> "idle", run |-> 0, seen |-> FALSE, taps |-> {}, cancelled |-> FALSE, failed |-> {},
             short |-> {}, pos |-> First(1, "configure"), kept |-> {}]]
    /\ cancelers = [r \in RunIds |-> NoExec]
    /\ status = [running |-> FALSE, taps |-> {}]
    /\ hostTaps = {} /\ inBackground = {} /\ backgrounded = {}
    /\ nodes = [p \in Pipes |-> NewNodes(p[2])]
    /\ stages = [p \in Pipes |-> NewStages]
    /\ terminals = {} /\ apart = Execs /\ overwritten = {} /\ resets = 0

----------------------------------------------------------------------------
(* The pipeline of a run and loop.                                         *)

\* setStageStatus
SetStage(f, r, l, s, st) == [f EXCEPT ![<<r, l>>] = [@ EXCEPT ![s] = st]]

\* The components of a stop or cleanup are through.
StageOver(n) == \A k \in DOMAIN n : n[k] \in Over

\* Fault: a component that fails does not end its configure or start.
FailsUnshown(s, n, was, c) ==
    IF s \in {"configure", "start"} THEN IF StageOver(n) THEN "success" ELSE "running"
    ELSE IF StageOver(n) THEN IF \E k \in DOMAIN n : n[k] = "failure" THEN "failure" ELSE "success" ELSE was

\* updateNodeStatus: the status of a stage, was before, whose components are
\* as in n after an update of c.
StageShown(s, n, was, c) ==
    LET begun == IF n[c] \in {"running", "unstable"} THEN "running" ELSE was
        through == \A k \in DOMAIN n : n[k] \in {"background", "success"}
    IN  IF s \in {"configure", "start"}
        THEN CASE n[c] = "failure" -> "failure"
               [] n[c] \in {"background", "success"} /\ through -> "success"
               [] n[c] = "background" /\ ~through -> "running"
               [] OTHER -> begun
        ELSE IF StageOver(n)
             THEN IF \E k \in DOMAIN n : n[k] = "failure" THEN "failure" ELSE "success"
             ELSE begun

\* updatePipeline for component c of stage s: the nodes.
NodesUpdated(f, r, l, s, c, st) ==
    IF c \notin InStage(l, s) THEN f
    ELSE [f EXCEPT ![<<r, l>>][s][c] = IF Kind[c] = "break" /\ st = "running" THEN "unstable" ELSE st]

\* And the stages, once the nodes are n. A break that waits for its user is
\* unstable, and so are the loops around it.
StagesUpdated(f, n, r, l, s, c, st) ==
    [p \in Pipes |->
        IF p = <<r, l>> /\ c \in InStage(l, s) THEN [f[p] EXCEPT ![s] = StageShown(s, n[p][s], @, c)]
        ELSE IF p[1] = r /\ p[2] < l /\ Kind[c] = "break"
        THEN [f[p] EXCEPT !.loop = IF st = "running" THEN "unstable" ELSE "running"]
        ELSE f[p]]

\* The hooks of an update of the experiment, or of its start, drop its
\* pipelines (DeletePipeline). It is stopped then: runs still at work were
\* cancelled, but for those whose canceler is lost.
DeletePipeline ==
    /\ \A x \in Execs : execs[x].at \in {"idle", "done"} \/ execs[x].cancelled \/ x \in overwritten
    /\ resets < MaxResets /\ resets' = resets + 1
    /\ nodes' = [p \in Pipes |-> NewNodes(p[2])]
    /\ stages' = [p \in Pipes |-> NewStages]
    /\ apart' = apart \ {x \in Execs : AtWork(x)}
    /\ UNCHANGED <<execs, cancelers, status, hostTaps, inBackground, backgrounded, terminals, overwritten>>

----------------------------------------------------------------------------
(* Requests.                                                               *)

\* StartPipeline reads the experiment and looks for a run at work ...
StartPipeline(x, r) ==
    /\ execs[x].at = "idle" /\ cancelers[r] = NoExec
    /\ execs' = [execs EXCEPT ![x] = [@ EXCEPT !.at = "checked", !.run = r, !.seen = status.running]]
    /\ UNCHANGED <<cancelers, status, hostTaps, inBackground, backgrounded, nodes, stages,
                   terminals, apart, overwritten, resets>>

\* ... and adds its canceler, over one that came in between.
AddCanceler(x) ==
    /\ execs[x].at = "checked"
    /\ execs' = [execs EXCEPT ![x].at = "added"]
    /\ overwritten' = overwritten \cup ({cancelers[execs[x].run]} \ {NoExec})
    /\ cancelers' = [cancelers EXCEPT ![execs[x].run] = x]
    /\ UNCHANGED <<status, hostTaps, inBackground, backgrounded, nodes, stages, terminals, apart, resets>>

\* A cancel takes the canceler (GetCanceler) and cancels its context.
GetCanceler(r) == cancelers' = [cancelers EXCEPT ![r] = NoExec]

\* What is in the background ends with the context of its run.
Outlive(x) == {b \in inBackground : b.exec # x}

\* Fault: the canceler is dropped, not called.
DropsCanceler(r) ==
    /\ cancelers[r] # NoExec
    /\ GetCanceler(r)
    /\ UNCHANGED <<execs, status, hostTaps, inBackground, backgrounded, nodes, stages, terminals,
                   apart, overwritten, resets>>

\* CancelPipeline
CancelPipeline(r) ==
    /\ cancelers[r] # NoExec
    /\ GetCanceler(r)
    /\ execs' = [execs EXCEPT ![cancelers[r]].cancelled = TRUE]
    /\ inBackground' = Outlive(cancelers[r])
    /\ UNCHANGED <<status, hostTaps, backgrounded, nodes, stages, terminals, apart, overwritten, resets>>

\* The stop of the experiment (GetExperimentCancelers) cancels every run.
StopExperiment ==
    LET hit == {cancelers[r] : r \in RunIds} \ {NoExec}
    IN  /\ hit # {}
        /\ cancelers' = [r \in RunIds |-> NoExec]
        /\ execs' = [x \in Execs |-> IF x \in hit THEN [execs[x] EXCEPT !.cancelled = TRUE] ELSE execs[x]]
        /\ inBackground' = {b \in inBackground : b.exec \notin hit}
        /\ UNCHANGED <<status, hostTaps, backgrounded, nodes, stages, terminals, apart, overwritten, resets>>

\* Execute: what the request read must not say that Scorch runs; the status
\* is stored, and the first executor drops the run's pipelines.
Execute(x) ==
    LET r == execs[x].run
        others == {y \in Execs \ {x} : AtWork(y)}
    IN  /\ execs[x].at = "added"
        /\ IF execs[x].seen
           THEN /\ execs' = [execs EXCEPT ![x].at = "wrapup"]
                /\ UNCHANGED <<status, nodes, stages, apart>>
           ELSE /\ execs' = [execs EXCEPT ![x].at = "begin"]
                /\ status' = [running |-> TRUE, taps |-> {}]
                /\ nodes' = [p \in Pipes |-> IF p[1] = r THEN NewNodes(p[2]) ELSE nodes[p]]
                /\ stages' = [p \in Pipes |-> IF p[1] = r THEN NewStages ELSE stages[p]]
                /\ apart' = IF others = {} THEN apart ELSE apart \ (others \cup {x})
        /\ UNCHANGED <<cancelers, hostTaps, inBackground, backgrounded, terminals, overwritten, resets>>

----------------------------------------------------------------------------
(* The executor.                                                           *)

Place(x) == execs[x].pos
StageList(x) == Plan[Place(x).loop][Place(x).stage]
Comp(x) == StageList(x)[Place(x).i]
FailFast(s) == s \in {"configure", "start"}
InBack(x) == Comp(x) \in Background /\ FailFast(Place(x).stage)

\* Where the executor goes after a stage of loop l. A failed configure goes
\* to cleanup, a failed start to stop; a loop that ends goes on with the stop
\* of the one around it.
AfterStage(l, s, short) ==
    CASE s = "configure" -> First(l, IF l \in short THEN "cleanup" ELSE "start")
      [] s = "start" -> IF l \in short \/ l = Inmost THEN First(l, "stop") ELSE First(l + 1, "configure")
      [] s = "stop" -> First(l, "cleanup")
      [] s = "cleanup" -> First(l - 1, "stop")

\* The status of the loop around, and of the done stage, as an executor goes
\* on after stage s.
StagesAfter(f, r, l, s, failed, short) ==
    CASE s = "start" /\ l \notin short /\ l < Inmost -> SetStage(f, r, l, "loop", "running")
      [] s = "cleanup" /\ l > 1 ->
            SetStage(IF l \in short THEN f ELSE SetStage(f, r, l, "done", "success"),
                     r, l - 1, "loop", IF l \in failed THEN "failure" ELSE "success")
      [] OTHER -> f

\* After a component: the next one, the next stage, or the end of the run.
\* The stages of the pipeline are f now; e is the exec, with what it did.
GoesOn(x, e, f, ok) ==
    LET l == e.pos.loop
        s == e.pos.stage
        short == IF ~ok /\ FailFast(s) THEN e.short \cup {l} ELSE e.short
        failed == IF ok THEN e.failed ELSE e.failed \cup {l}
        more == e.pos.i < Len(StageList(x)) /\ (ok \/ ~FailFast(s))
    IN  IF more
        THEN /\ execs' = [execs EXCEPT ![x] = [e EXCEPT !.at = "begin", !.pos.i = @ + 1, !.failed = failed]]
             /\ stages' = f
        ELSE IF s = "cleanup" /\ l = 1
        THEN /\ execs' = [execs EXCEPT ![x] = [e EXCEPT !.at = "wrapup", !.failed = failed]]
             /\ stages' = SetStage(f, e.run, 1, "done", "running")
        ELSE /\ execs' = [execs EXCEPT ![x] =
                    [e EXCEPT !.at = "begin", !.pos = AfterStage(l, s, short), !.short = short,
                              !.failed = IF s = "cleanup" /\ l \in failed THEN failed \cup {l - 1} ELSE failed]]
             /\ stages' = StagesAfter(f, e.run, l, s, failed, short)

\* ExecuteComponent: the component at hand is called.
ExecuteComponent(x, kinds) == execs[x].at = "end" /\ Kind[Comp(x)] \in kinds

\* shellOut: a command fails, for one when the run is cancelled.
ShellOut(x, ok) == execs[x].cancelled => ~ok

\* CreateWebTerminal starts nothing for a cancelled run.
CreateWebTerminal(x) == terminals' = IF execs[x].cancelled THEN terminals ELSE terminals \cup {x}

\* runStage, of a stage without components.
EmptyStage(x) ==
    /\ execs[x].at = "begin" /\ StageList(x) = <<>>
    /\ GoesOn(x, execs[x], SetStage(stages, execs[x].run, Place(x).loop, Place(x).stage, "success"), TRUE)
    /\ UNCHANGED <<cancelers, status, hostTaps, inBackground, backgrounded, nodes, terminals,
                   apart, overwritten, resets>>

\* runStage shows the component as running and calls it; a break opens its
\* terminal, unless the run is cancelled.
BeginComponent(x) ==
    LET st == IF InBack(x) THEN "background" ELSE "running"
        n == NodesUpdated(nodes, execs[x].run, Place(x).loop, Place(x).stage, Comp(x), st)
    IN  /\ execs[x].at = "begin" /\ StageList(x) # <<>>
        /\ execs' = [execs EXCEPT ![x].at = "end"]
        /\ nodes' = n
        /\ stages' = StagesUpdated(stages, n, execs[x].run, Place(x).loop, Place(x).stage, Comp(x), st)
        /\ IF Kind[Comp(x)] = "break" THEN CreateWebTerminal(x) ELSE UNCHANGED terminals
        /\ UNCHANGED <<cancelers, status, hostTaps, inBackground, backgrounded, apart, overwritten, resets>>

\* The component returned; e is the exec with what it did, n and f the
\* pipeline. One in the background is not shown as finished.
Returned(x, e, n, f, ok) ==
    LET st == IF ok THEN "success" ELSE "failure"
        silent == ok /\ InBack(x)
        m == IF silent THEN n ELSE NodesUpdated(n, e.run, e.pos.loop, e.pos.stage, Comp(x), st)
    IN  /\ nodes' = m
        /\ GoesOn(x, e, IF silent THEN f ELSE StagesUpdated(f, m, e.run, e.pos.loop, e.pos.stage, Comp(x), st), ok)

\* The stage whose background components a stop or cleanup ends.
Paired == [configure |-> "none", start |-> "none", stop |-> "start", cleanup |-> "configure"]
Handled(x) == {b \in backgrounded : b.stage = Paired[Place(x).stage] /\ b.name = Comp(x)}

\* handleBackgrounded: cancelled, shown as a success, forgotten.
HandleBackgrounded(x) ==
    /\ backgrounded' = backgrounded \ Handled(x)
    /\ inBackground' = inBackground \ Handled(x)
HandledNodes(x) ==
    IF Handled(x) = {} THEN nodes
    ELSE NodesUpdated(nodes, execs[x].run, Place(x).loop, Paired[Place(x).stage], Comp(x), "success")
HandledStages(x) ==
    IF Handled(x) = {} THEN stages
    ELSE StagesUpdated(stages, HandledNodes(x), execs[x].run, Place(x).loop, Paired[Place(x).stage], Comp(x), "success")

\* background, for Configure and Start: a goroutine with a context of its own.
GoesToBackground(x) ==
    LET b == [exec |-> x, loop |-> Place(x).loop, stage |-> Place(x).stage, name |-> Comp(x)]
        user == Kind[Comp(x)] = "user"
    IN  /\ ExecuteComponent(x, {"user", "pause"}) /\ InBack(x)
        /\ backgrounded' = {k \in backgrounded : ~(k.stage = b.stage /\ k.name = b.name)} \cup {b}
        /\ \E ok \in BOOLEAN :
            /\ IF user THEN ShellOut(x, ok) ELSE ok
            /\ inBackground' = IF execs[x].cancelled \/ ~ok THEN inBackground ELSE inBackground \cup {b}
            /\ Returned(x, execs[x], nodes, stages, ok)
        /\ UNCHANGED <<cancelers, status, hostTaps, terminals, apart, overwritten, resets>>

\* Pause and SOH: one in the background ends, and that is all there is to
\* do; else it takes its time, fails, or is cancelled.
RunsPause(x) ==
    /\ ExecuteComponent(x, {"pause"}) /\ ~InBack(x)
    /\ HandleBackgrounded(x)
    /\ \E ok \in BOOLEAN :
        /\ Handled(x) # {} => ok
        /\ execs[x].cancelled /\ Handled(x) = {} => ~ok
        /\ Returned(x, execs[x], HandledNodes(x), HandledStages(x), ok)
    /\ UNCHANGED <<cancelers, status, hostTaps, terminals, apart, overwritten, resets>>

\* A command ends one in the background and runs nevertheless.
RunsUser(x) ==
    /\ ExecuteComponent(x, {"user"}) /\ ~InBack(x)
    /\ HandleBackgrounded(x)
    /\ \E ok \in BOOLEAN :
        /\ ShellOut(x, ok)
        /\ Returned(x, execs[x], HandledNodes(x), HandledStages(x), ok)
    /\ UNCHANGED <<cancelers, status, hostTaps, terminals, apart, overwritten, resets>>

\* breakPoint: until the terminal is gone or the run is cancelled.
RunsBreak(x) ==
    /\ ExecuteComponent(x, {"break"})
    /\ execs[x].cancelled \/ x \notin terminals
    /\ Returned(x, execs[x], nodes, stages, ~execs[x].cancelled)
    /\ UNCHANGED <<cancelers, status, hostTaps, inBackground, backgrounded, terminals, apart, overwritten, resets>>

\* KillTerminal
KillTerminal(x) ==
    /\ x \in terminals
    /\ terminals' = terminals \ {x}
    /\ UNCHANGED <<execs, cancelers, status, hostTaps, inBackground, backgrounded, nodes, stages,
                   apart, overwritten, resets>>

\* ExitTerminal: the user leaves it. For a cancelled run a goroutine kills it.
ExitTerminal(x) == ~execs[x].cancelled /\ KillTerminal(x)
TerminalCancelled(x) == execs[x].cancelled /\ KillTerminal(x)

\* The experiment at hand is stored whole, with its taps.
RecordsTaps(taps) == status' = [running |-> TRUE, taps |-> taps]

\* Tap.Start creates one on the head node and records it.
StartsTap(x) ==
    LET e == [execs[x] EXCEPT !.taps = @ \cup {Comp(x)}]
    IN  /\ ExecuteComponent(x, {"tap"}) /\ Place(x).stage = "start"
        /\ \/ /\ hostTaps' = hostTaps \cup {<<x, Comp(x)>>}
              /\ RecordsTaps(e.taps)
              /\ Returned(x, e, nodes, stages, TRUE)
           \/ Returned(x, execs[x], nodes, stages, FALSE) /\ UNCHANGED <<hostTaps, status>>
        /\ UNCHANGED <<cancelers, inBackground, backgrounded, terminals, apart, overwritten, resets>>

\* deleteTap, for Stop and Cleanup: a recorded one is deleted.
DeletesTap(x) ==
    LET c == Comp(x)
        e == [execs[x] EXCEPT !.taps = @ \ {c}]
    IN  /\ ExecuteComponent(x, {"tap"}) /\ Place(x).stage # "start"
        /\ \/ /\ c \in execs[x].taps /\ Place(x).stage # "configure"
              /\ \/ /\ hostTaps' = hostTaps \ {<<x, c>>}
                    /\ RecordsTaps(e.taps)
                    /\ Returned(x, e, nodes, stages, TRUE)
                 \/ Returned(x, execs[x], nodes, stages, FALSE) /\ UNCHANGED <<hostTaps, status>>
           \/ /\ c \notin execs[x].taps \/ Place(x).stage = "configure"
              /\ Returned(x, execs[x], nodes, stages, TRUE) /\ UNCHANGED <<hostTaps, status>>
        /\ UNCHANGED <<cancelers, inBackground, backgrounded, terminals, apart, overwritten, resets>>

\* The end of Running, which archives what the run left.
RunDone(r) == SetStage(stages, r, 1, "done", "success")

\* The exec of a run that is over and could not delete the taps in kept.
Ended(e, kept) == [e EXCEPT !.at = "done", !.taps = {}, !.kept = kept]

\* Running is over: the pipeline is done; Execute reads the status again,
\* deletes the taps that are recorded, as far as the head node does (kept are
\* the ones it does not), and stores that Scorch does not run. The goroutine
\* of StartPipeline then calls the canceler that is there now.
WrapsUp(x) ==
    LET r == execs[x].run
    IN  /\ execs[x].at = "wrapup"
        /\ GetCanceler(r)
        /\ inBackground' = Outlive(cancelers[r])
        /\ \E kept \in IF execs[x].seen THEN {{}} ELSE SUBSET status.taps :
            /\ hostTaps' = IF execs[x].seen THEN hostTaps ELSE hostTaps \ {<<x, c>> : c \in status.taps \ kept}
            /\ execs' = [y \in Execs |->
                    LET e == IF y = cancelers[r] THEN [execs[y] EXCEPT !.cancelled = TRUE] ELSE execs[y]
                    IN  IF y = x THEN Ended(e, kept) ELSE e]
        /\ status' = IF execs[x].seen THEN status ELSE [running |-> FALSE, taps |-> {}]
        /\ stages' = IF execs[x].seen THEN stages ELSE RunDone(r)
        /\ UNCHANGED <<backgrounded, nodes, terminals, apart, overwritten, resets>>

ScorchNext ==
    \/ DeletePipeline \/ StopExperiment
    \/ \E r \in RunIds : CancelPipeline(r) \/ \E x \in Execs : StartPipeline(x, r)
    \/ \E x \in Execs :
        \/ AddCanceler(x) \/ Execute(x) \/ WrapsUp(x) \/ ExitTerminal(x) \/ TerminalCancelled(x)
        \/ EmptyStage(x) \/ BeginComponent(x) \/ GoesToBackground(x)
        \/ RunsPause(x) \/ RunsUser(x) \/ RunsBreak(x) \/ StartsTap(x) \/ DeletesTap(x)

ScorchSpec == ScorchInit /\ [][ScorchNext]_scorchVars

----------------------------------------------------------------------------

\* A run at work can be cancelled: its cancel function stays where a cancel,
\* or the stop of the experiment, looks for it, until it is called; the only
\* way to lose it is a second start of the run that passed HasCanceler
\* before this one's AddCanceler.
RunsCancelable ==
    \A x \in Execs :
        AtWork(x) /\ ~execs[x].cancelled /\ x \notin overwritten => cancelers[execs[x].run] = x

\* When a run is over, however it went (a failed stage, a cancel in a nested
\* loop), no stage or loop of its pipelines is left as running or unstable,
\* unless a run went on beside it.
PipelineSettles ==
    \A p \in Pipes :
        LET ran == {x \in Execs : execs[x].run = p[1] /\ (AtWork(x) \/ execs[x].at = "done") /\ ~execs[x].seen}
        IN  (\A x \in ran : execs[x].at = "done" /\ x \in apart) =>
                \A s \in DOMAIN stages[p] : stages[p][s] \notin {"running", "unstable"}

\* A run that is over leaves nothing behind, if no other ran beside it: no
\* tap on the head node, but those it would not delete, nothing in the
\* background, no terminal but one about to be killed for the cancel.
RunsLeaveNothing ==
    \A x \in apart : execs[x].at = "done" /\ ~execs[x].seen =>
        /\ \A t \in hostTaps : t[1] = x => t[2] \in execs[x].kept
        /\ x \notin overwritten => \A b \in inBackground : b.exec # x
        /\ x \in terminals => execs[x].cancelled

\* However a run ends, it is over in every respect: both.
RunsSettle == PipelineSettles /\ RunsLeaveNothing
=============================================================================
