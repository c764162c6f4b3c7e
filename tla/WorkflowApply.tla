--------------------------- MODULE WorkflowApply ---------------------------
(***************************************************************************)
(* phenix workflow apply: a command that dry-runs its configs and its      *)
(* workflow config, stages its injects next to the server, upserts the     *)
(* configs and applies the workflow, and then says what it changed. Runs   *)
(* of the command go on at once and to the same name; each may be          *)
(* interrupted or killed, its requests may be answered, refused or lost,   *)
(* and any call to the file system may fail.                               *)
(*                                                                         *)
(* A tree of injects is named by the run that staged it. What the server   *)
(* does to the experiment is in Lifecycle in detail; here a request stops, *)
(* updates and starts it in steps that may fail.                           *)
(***************************************************************************)
EXTENDS Integers, Sequences, FiniteSets

CONSTANTS
    ApplyRuns,       \* runs of the command
    Files,           \* Files[r]: the configs of r, in upsert order
    AutoFor,         \* AutoFor[r]: what its workflow config allows
    Forced,          \* runs with -f
    TopologyOf, ScenarioOf, \* what its experiment is made from; "none" is no scenario
    Includes,        \* Includes[c]: topologies that topology c includes
    DrawnFrom,       \* DrawnFrom[c]: scenarios that scenario c takes settings from
    FirstConfigs,    \* configs that may be stored at first
    MaxApplyFaults,  \* bound on failures, interrupts and kills
    MaxUserSteps,    \* bound on what others do to the experiment
    NoTree, FirstTree

ASSUME WorkflowApplyAssumption ==
    /\ Forced \subseteq ApplyRuns
    /\ \A r \in ApplyRuns :
        /\ Files[r] \in Seq({Files[r][i] : i \in DOMAIN Files[r]})
        /\ AutoFor[r] \subseteq {"create", "update", "restart"}
    /\ MaxApplyFaults \in Nat /\ MaxUserSteps \in Nat
    /\ NoTree \notin ApplyRuns /\ FirstTree \notin ApplyRuns \cup {NoTree}

VARIABLES
    step,        \* what each run is at
    file,        \* the file of it that is at hand
    plan,        \* the action that its dry run planned
    staged,      \* runs that know their injects to be staged
    upserted,    \* configs that each run knows to be stored
    refused,     \* runs with a config that was rejected
    interrupted, \* runs whose context has ended
    report,      \* what each run said at its end
    replied,      \* the server's answer to the request of each run
    doing,        \* what the server does for each run
    destination, \* the tree at <injects>/<name>
    copyOf,      \* each run's .tmp sibling: "none", "partial" or "whole"
    oldOf,       \* each run's .old sibling
    storedConfigs, mapped, \* the server's configs and the mapped experiment
    changes,     \* history: what each run changed
    applyFaults, userSteps

applyVars == <<step, file, plan, staged, upserted, refused, interrupted, report, replied, doing,
               destination, copyOf, oldOf, storedConfigs, mapped, changes, applyFaults, userSteps>>

PlanActions == {"none", "create", "createAndStart", "update", "updateAndStart", "restart"}
Trees == ApplyRuns \cup {FirstTree, NoTree}
AllConfigs == UNION {{Files[r][i] : i \in DOMAIN Files[r]} : r \in ApplyRuns}
RunOver(r) == step[r] \in {"ended", "killed"}

\* says: "none" | "complete" | "unchanged" | "failed"; perhaps: the server may
\* have done, or may still do, what was asked; names: the error names what
\* is left next to the destination; of: the request that failed.
NoReport == [says |-> "none", perhaps |-> FALSE, names |-> {}, of |-> "none"]

WorkflowTypeOK ==
    /\ step \in [ApplyRuns -> {"check", "files", "configs", "plan", "stage", "copy", "aside", "in", "back", "clean", "old",
                               "upsert", "upserting", "apply", "applying", "ended", "killed"}]
    /\ plan \in [ApplyRuns -> PlanActions] /\ staged \subseteq ApplyRuns /\ refused \subseteq ApplyRuns
    /\ doing \in [ApplyRuns -> {"none", "upsert", "apply", "stop", "change", "start"}]
    /\ replied \in [ApplyRuns -> {"none", "ok", "refused"}]
    /\ destination \in Trees /\ oldOf \in [ApplyRuns -> Trees]
    /\ storedConfigs \subseteq AllConfigs \cup FirstConfigs
    /\ mapped \in {"none", "stopped", "running"}
    /\ \A r \in ApplyRuns :
        /\ upserted[r] \subseteq AllConfigs
        /\ report[r].says # "none" <=> step[r] = "ended"
        /\ doing[r] # "none" /\ ~RunOver(r) => step[r] \in {"upserting", "applying"}

Fault == applyFaults < MaxApplyFaults /\ applyFaults' = applyFaults + 1

RunAt(r, s) == step' = [step EXCEPT ![r] = s]

\* The run returns.
Ends(r, says, perhaps, names, of) ==
    /\ RunAt(r, "ended")
    /\ report' = [report EXCEPT ![r] = [says |-> says, perhaps |-> perhaps, names |-> names, of |-> of]]

serverVars == <<replied, doing, storedConfigs, mapped, userSteps>>
treeVars == <<destination, copyOf, oldOf>>
runVars == <<file, plan, staged, upserted, refused>>

WorkflowInit ==
    /\ step = [r \in ApplyRuns |-> "check"] /\ file = [r \in ApplyRuns |-> 1]
    /\ plan = [r \in ApplyRuns |-> "none"] /\ staged = {} /\ refused = {} /\ interrupted = {}
    /\ upserted = [r \in ApplyRuns |-> {}] /\ report = [r \in ApplyRuns |-> NoReport]
    /\ replied = [r \in ApplyRuns |-> "none"] /\ doing = [r \in ApplyRuns |-> "none"]
    /\ destination = FirstTree /\ copyOf = [r \in ApplyRuns |-> "none"] /\ oldOf = [r \in ApplyRuns |-> NoTree]
    /\ storedConfigs \in SUBSET FirstConfigs /\ mapped \in {"none", "stopped", "running"}
    /\ changes = [r \in ApplyRuns |-> {}] /\ applyFaults = 0 /\ userSteps = 0

----------------------------------------------------------------------------
(* The plan (api/workflow).                                                *)

PlanCreate(r) ==
    IF "create" \notin AutoFor[r] THEN "none" ELSE IF "restart" \in AutoFor[r] THEN "createAndStart" ELSE "create"

PlanUpdate(r) ==
    IF "update" \notin AutoFor[r] THEN "none"
    ELSE IF mapped = "running" THEN IF "restart" \in AutoFor[r] THEN "restart" ELSE "none"
    ELSE IF "restart" \in AutoFor[r] THEN "updateAndStart" ELSE "update"

NewPlan(r) == IF mapped = "none" THEN PlanCreate(r) ELSE PlanUpdate(r)

\* PendingRef, pendingConfigs: the configs of the run, which the dry run
\* does not find in the store, with what they refer to.
PendingConfigs(r) == {Files[r][i] : i \in DOMAIN Files[r]}

\* readConfig: the config is stored, and so is what decoding it reads.
ReadConfig(c, refers) == {c} \cup refers[c] \subseteq storedConfigs

CheckPendingIncludes(c, pending) == Includes[c] \subseteq pending \cup storedConfigs
CheckPendingScenario(c, pending) == DrawnFrom[c] \subseteq pending \cup storedConfigs

ResolveTopology(c, pending) ==
    IF c \in pending THEN CheckPendingIncludes(c, pending) ELSE ReadConfig(c, Includes)

ResolveScenario(c, pending) ==
    CASE c = "none" -> TRUE
      [] c \in pending -> CheckPendingScenario(c, pending)
      [] OTHER -> ReadConfig(c, DrawnFrom)

\* Prepare: what the plan needs is stored, or pending.
Prepare(r, action, pending) ==
    action # "none" => ResolveTopology(TopologyOf[r], pending) /\ ResolveScenario(ScenarioOf[r], pending)

CheckExpected(r, action) == action = plan[r]

----------------------------------------------------------------------------
(* Before anything is changed.                                             *)

\* newApplyRun, and checkServer: the server answers and supports dry runs.
CheckServer(r) ==
    /\ step[r] = "check" /\ r \notin interrupted /\ RunAt(r, "files")
    /\ UNCHANGED <<report, interrupted, changes, applyFaults>> /\ UNCHANGED <<runVars, serverVars, treeVars>>

\* preflight: the destination may be replaced, and the files parse.
Preflight(r) ==
    /\ step[r] = "files" /\ RunAt(r, "configs")
    /\ UNCHANGED <<report, interrupted, changes, applyFaults>> /\ UNCHANGED <<runVars, serverVars, treeVars>>

\* dryRunConfigs.
DryRunConfigs(r) ==
    /\ step[r] = "configs" /\ r \notin interrupted /\ RunAt(r, "plan")
    /\ UNCHANGED <<report, interrupted, changes, applyFaults>> /\ UNCHANGED <<runVars, serverVars, treeVars>>

\* dryRunWorkflow, with the run's own configs as pending; a restart needs
\* -f.
DryRunWorkflow(r) ==
    LET action == NewPlan(r)
    IN  /\ step[r] = "plan" /\ r \notin interrupted
        /\ Prepare(r, action, PendingConfigs(r))
        /\ plan' = [plan EXCEPT ![r] = action]
        /\ IF action = "restart" /\ r \notin Forced
           THEN Ends(r, "unchanged", FALSE, {}, "none")
           ELSE RunAt(r, "stage") /\ UNCHANGED report
        /\ UNCHANGED <<file, staged, upserted, refused, interrupted, changes, applyFaults>>
        /\ UNCHANGED <<serverVars, treeVars>>

\* A preflight check, or a dry run, fails: nothing was changed.
DryRunFails(r) ==
    /\ step[r] \in {"check", "files", "configs", "plan"}
    /\ \/ r \in interrupted /\ step[r] # "files" /\ UNCHANGED applyFaults
       \/ step[r] = "plan" /\ ~Prepare(r, NewPlan(r), PendingConfigs(r)) /\ UNCHANGED applyFaults
       \/ Fault
    /\ Ends(r, "unchanged", FALSE, {}, "none")
    /\ UNCHANGED <<interrupted, changes>> /\ UNCHANGED <<runVars, serverVars, treeVars>>

----------------------------------------------------------------------------
(* Staging (StageInjectsWithOptions, swapDir). It does not watch the       *)
(* context.                                                                *)

stageRest == <<file, plan, upserted, refused, interrupted>>

\* checkDestination once more, and the copy begins.
StageBegins(r) ==
    /\ step[r] = "stage"
    /\ IF r \in interrupted
       THEN Ends(r, "unchanged", FALSE, {}, "none") /\ UNCHANGED copyOf
       ELSE RunAt(r, "copy") /\ copyOf' = [copyOf EXCEPT ![r] = "partial"] /\ UNCHANGED report
    /\ UNCHANGED <<destination, oldOf, staged, changes, applyFaults>> /\ UNCHANGED <<stageRest, serverVars>>

CopyTree(r) ==
    /\ step[r] = "copy" /\ RunAt(r, "aside")
    /\ copyOf' = [copyOf EXCEPT ![r] = "whole"]
    /\ UNCHANGED <<destination, oldOf, staged, report, changes, applyFaults>> /\ UNCHANGED <<stageRest, serverVars>>

\* The copy, or moving the destination aside, fails.
StagingFails(r) ==
    /\ step[r] \in {"copy", "aside"} /\ Fault /\ RunAt(r, "clean")
    /\ UNCHANGED <<report, staged, changes>> /\ UNCHANGED <<stageRest, treeVars, serverVars>>

\* removeStaging, and the error, which names what stays behind.
RemoveStaging(r) ==
    LET kept == IF oldOf[r] = NoTree THEN {} ELSE {"old"}
    IN  /\ step[r] = "clean"
        /\ \/ /\ copyOf' = [copyOf EXCEPT ![r] = "none"] /\ Ends(r, "failed", FALSE, kept, "stage")
              /\ UNCHANGED applyFaults
           \/ Fault /\ UNCHANGED copyOf /\ Ends(r, "failed", FALSE, kept \cup {"copy"}, "stage")
        /\ UNCHANGED <<destination, oldOf, staged, changes>> /\ UNCHANGED <<stageRest, serverVars>>

\* rename(dest, old); a destination that is not there is not an error.
MoveAside(r) ==
    /\ step[r] = "aside" /\ RunAt(r, "in")
    /\ oldOf' = [oldOf EXCEPT ![r] = destination] /\ destination' = NoTree
    /\ UNCHANGED <<copyOf, staged, report, changes, applyFaults>> /\ UNCHANGED <<stageRest, serverVars>>

\* rename(tmp, dest); a directory that is there by now refuses it.
MoveIn(r) ==
    /\ step[r] = "in"
    /\ IF destination = NoTree
       THEN /\ destination' = r /\ copyOf' = [copyOf EXCEPT ![r] = "none"]
            /\ RunAt(r, "old") /\ changes' = [changes EXCEPT ![r] = @ \cup {"injects"}]
       ELSE RunAt(r, "back") /\ UNCHANGED <<destination, copyOf, changes>>
    /\ UNCHANGED <<oldOf, staged, report, applyFaults>> /\ UNCHANGED <<stageRest, serverVars>>

MoveInFails(r) ==
    /\ step[r] = "in" /\ Fault /\ RunAt(r, "back")
    /\ UNCHANGED <<report, staged, changes>> /\ UNCHANGED <<stageRest, treeVars, serverVars>>

\* Fault: the previous copy is removed in any case.
RemovesPrevious(r) ==
    /\ step[r] = "back" /\ RunAt(r, "clean") /\ oldOf' = [oldOf EXCEPT ![r] = NoTree]
    /\ UNCHANGED <<destination, copyOf, report, staged, changes, applyFaults>> /\ UNCHANGED <<stageRest, serverVars>>

\* The previous copy is put back; where that fails it stays.
PutBack(r) ==
    /\ step[r] = "back" /\ RunAt(r, "clean")
    /\ IF oldOf[r] # NoTree /\ destination = NoTree
       THEN \/ /\ destination' = oldOf[r] /\ oldOf' = [oldOf EXCEPT ![r] = NoTree] /\ UNCHANGED applyFaults
            \/ Fault /\ UNCHANGED <<destination, oldOf>>
       ELSE UNCHANGED <<destination, oldOf, applyFaults>>
    /\ UNCHANGED <<copyOf, report, staged, changes>> /\ UNCHANGED <<stageRest, serverVars>>

\* removeAll(old). What cannot be removed is named in a warning.
RemoveOld(r) ==
    /\ step[r] = "old" /\ RunAt(r, "upsert")
    /\ staged' = staged \cup {r}
    /\ \/ oldOf' = [oldOf EXCEPT ![r] = NoTree] /\ UNCHANGED applyFaults
       \/ oldOf[r] # NoTree /\ Fault /\ UNCHANGED oldOf
    /\ UNCHANGED <<destination, copyOf, report, changes>> /\ UNCHANGED <<stageRest, serverVars>>

----------------------------------------------------------------------------
(* Requests.                                                               *)

\* The context ends: an interrupt.
Interrupt(r) ==
    /\ ~RunOver(r) /\ r \notin interrupted /\ Fault
    /\ interrupted' = interrupted \cup {r}
    /\ UNCHANGED <<step, report, changes>> /\ UNCHANGED <<runVars, serverVars, treeVars>>

Kill(r) ==
    /\ ~RunOver(r) /\ Fault /\ RunAt(r, "killed")
    /\ UNCHANGED <<report, interrupted, changes>> /\ UNCHANGED <<runVars, serverVars, treeVars>>

requestRest == <<plan, staged, interrupted, changes, storedConfigs, mapped, userSteps>>

\* interruptedBefore: the request was not sent. changedError lists what was
\* done.
NotSent(r) ==
    /\ step[r] \in {"upsert", "apply"} /\ r \in interrupted
    /\ Ends(r, "failed", FALSE, {}, "none")
    /\ UNCHANGED <<applyFaults, replied, doing, file, upserted, refused>> /\ UNCHANGED <<requestRest, treeVars>>

SendUpsert(r) ==
    /\ step[r] = "upsert" /\ r \notin interrupted /\ file[r] <= Len(Files[r])
    /\ RunAt(r, "upserting")
    /\ doing' = [doing EXCEPT ![r] = "upsert"] /\ replied' = [replied EXCEPT ![r] = "none"]
    /\ UNCHANGED <<applyFaults, report, file, upserted, refused>> /\ UNCHANGED <<requestRest, treeVars>>

Upserted(r) ==
    /\ step[r] = "upserting" /\ replied[r] # "none"
    /\ RunAt(r, "upsert") /\ file' = [file EXCEPT ![r] = @ + 1]
    /\ IF replied[r] = "ok"
       THEN upserted' = [upserted EXCEPT ![r] = @ \cup {Files[r][file[r]]}] /\ UNCHANGED refused
       ELSE refused' = refused \cup {r} /\ UNCHANGED upserted
    /\ UNCHANGED <<applyFaults, report, replied, doing>> /\ UNCHANGED <<requestRest, treeVars>>

\* All configs were sent; a rejected one ends the run.
UpsertsOver(r) ==
    /\ step[r] = "upsert" /\ file[r] > Len(Files[r])
    /\ IF r \in refused
       THEN Ends(r, "failed", FALSE, {}, "none")
       ELSE RunAt(r, "apply") /\ UNCHANGED report
    /\ UNCHANGED <<applyFaults, replied, doing, file, upserted, refused>> /\ UNCHANGED <<requestRest, treeVars>>

SendApply(r) ==
    /\ step[r] = "apply" /\ r \notin interrupted
    /\ RunAt(r, "applying")
    /\ doing' = [doing EXCEPT ![r] = "apply"] /\ replied' = [replied EXCEPT ![r] = "none"]
    /\ UNCHANGED <<applyFaults, report, file, upserted, refused>> /\ UNCHANGED <<requestRest, treeVars>>

Applied(r) ==
    /\ step[r] = "applying" /\ replied[r] # "none"
    /\ IF replied[r] = "ok" THEN Ends(r, "complete", FALSE, {}, "none")
       ELSE Ends(r, "failed", r \in interrupted, {}, "apply")
    /\ UNCHANGED <<applyFaults, replied, doing, file, upserted, refused>> /\ UNCHANGED <<requestRest, treeVars>>

\* mayStillFinish.
MayStillFinish(r) == r \in interrupted

\* The interrupt ends a request that the server goes on with.
RequestInterrupted(r) ==
    /\ step[r] \in {"upserting", "applying"} /\ r \in interrupted
    /\ Ends(r, "failed", MayStillFinish(r), {}, IF step[r] = "applying" THEN "apply" ELSE "none")
    /\ UNCHANGED <<applyFaults, replied, doing, file, upserted, refused>> /\ UNCHANGED <<requestRest, treeVars>>

\* No answer (errServerUnreachable): the server never had the request, does
\* it still, or went down with it.
ConnectionLost(r) ==
    /\ step[r] \in {"upserting", "applying"} /\ Fault
    /\ Ends(r, "failed", TRUE, {}, IF step[r] = "applying" THEN "apply" ELSE "none")
    /\ doing' \in {doing, [doing EXCEPT ![r] = "none"]}
    /\ UNCHANGED <<replied, file, upserted, refused>> /\ UNCHANGED <<requestRest, treeVars>>

----------------------------------------------------------------------------
(* The server (web/workflow.go).                                           *)

serverRest == <<step, report, interrupted, file, plan, staged, upserted, refused, destination, copyOf, oldOf, userSteps>>

Replies(r, a) == doing' = [doing EXCEPT ![r] = "none"] /\ replied' = [replied EXCEPT ![r] = a]
Proceeds(r, w) == doing' = [doing EXCEPT ![r] = w] /\ UNCHANGED replied
Changes(r, what) == changes' = [changes EXCEPT ![r] = @ \cup {what}]

\* WorkflowUpsertConfig.
UpsertConfig(r) ==
    LET c == Files[r][file[r]]
    IN  /\ doing[r] = "upsert"
        /\ storedConfigs' = storedConfigs \cup {c} /\ Changes(r, c) /\ Replies(r, "ok")
        /\ UNCHANGED <<mapped, applyFaults>> /\ UNCHANGED serverRest

\* ApplyWorkflow: the plan, what it needs, and the expected action.
ApplyWorkflow(r) ==
    LET action == NewPlan(r)
    IN  /\ doing[r] = "apply"
        /\ IF ~Prepare(r, action, {}) \/ ~CheckExpected(r, action) THEN Replies(r, "refused")
           ELSE CASE action = "none" -> Replies(r, "ok")
                  [] action = "restart" -> Proceeds(r, "stop")
                  [] OTHER -> Proceeds(r, "change")
        /\ UNCHANGED <<storedConfigs, mapped, changes, applyFaults>> /\ UNCHANGED serverRest

\* updateFromWorkflow: stopExperiment, which refuses one that is not running.
StopsExperiment(r) ==
    /\ doing[r] = "stop"
    /\ IF mapped = "running"
       THEN mapped' = "stopped" /\ Proceeds(r, "change") /\ Changes(r, "stopped")
       ELSE Replies(r, "refused") /\ UNCHANGED <<mapped, changes>>
    /\ UNCHANGED <<storedConfigs, applyFaults>> /\ UNCHANGED serverRest

\* createFromWorkflow, updateFromWorkflow: the experiment is created, or
\* written with the status that the plan's copy of it has, and reconfigured.
ChangesExperiment(r) ==
    /\ doing[r] = "change"
    /\ IF plan[r] \in {"create", "createAndStart"} /\ mapped # "none"
       THEN Replies(r, "refused") /\ UNCHANGED <<mapped, changes>>
       ELSE /\ mapped' = "stopped" /\ Changes(r, "experiment")
            /\ IF plan[r] \in {"create", "update"} THEN Replies(r, "ok") ELSE Proceeds(r, "start")
    /\ UNCHANGED <<storedConfigs, applyFaults>> /\ UNCHANGED serverRest

\* startExperiment.
StartsExperiment(r) ==
    /\ doing[r] = "start" /\ Replies(r, IF mapped = "stopped" THEN "ok" ELSE "refused")
    /\ mapped' = IF mapped = "stopped" THEN "running" ELSE mapped
    /\ UNCHANGED <<storedConfigs, changes, applyFaults>> /\ UNCHANGED serverRest

\* A check, the store or a step of the experiment fails.
ServerRefuses(r) ==
    /\ doing[r] # "none" /\ Fault /\ Replies(r, "refused")
    /\ UNCHANGED <<storedConfigs, mapped, changes>> /\ UNCHANGED serverRest

\* Others start and stop the experiment.
OthersUse ==
    /\ userSteps < MaxUserSteps /\ userSteps' = userSteps + 1
    /\ mapped # "none" /\ mapped' = IF mapped = "running" THEN "stopped" ELSE "running"
    /\ UNCHANGED <<step, file, plan, staged, upserted, refused, interrupted, report, replied, doing,
                   destination, copyOf, oldOf, storedConfigs, changes, applyFaults>>

WorkflowNext ==
    \/ OthersUse
    \/ \E r \in ApplyRuns :
        \/ CheckServer(r) \/ Preflight(r) \/ DryRunConfigs(r) \/ DryRunWorkflow(r) \/ DryRunFails(r)
        \/ StageBegins(r) \/ CopyTree(r) \/ StagingFails(r) \/ MoveAside(r) \/ MoveIn(r) \/ MoveInFails(r)
        \/ PutBack(r) \/ RemoveStaging(r) \/ RemoveOld(r)
        \/ Interrupt(r) \/ Kill(r) \/ NotSent(r) \/ SendUpsert(r) \/ Upserted(r) \/ UpsertsOver(r)
        \/ SendApply(r) \/ Applied(r) \/ RequestInterrupted(r) \/ ConnectionLost(r)
        \/ UpsertConfig(r) \/ ApplyWorkflow(r) \/ StopsExperiment(r) \/ ChangesExperiment(r)
        \/ StartsExperiment(r) \/ ServerRefuses(r)

WorkflowSpec == WorkflowInit /\ [][WorkflowNext]_applyVars

----------------------------------------------------------------------------
\* The dry run tells: when the plan is still the one of the dry run, a real
\* apply that follows the upserts of the run finds all that it needs, though
\* the dry run had to find the same among configs that were not stored yet.
DryRunPredicts ==
    \A r \in ApplyRuns :
        doing[r] = "apply" /\ CheckExpected(r, NewPlan(r)) => Prepare(r, NewPlan(r), {})

\* Injects are never lost: at any moment, killed runs and runs that stage
\* under the same name included, a whole tree is at the destination or in
\* the .old sibling of a run, and a run that returns while its .old sibling
\* is there has named it, unless its tree replaced that one.
StagedTreeKept ==
    /\ destination # NoTree \/ \E r \in ApplyRuns : oldOf[r] # NoTree
    /\ \A r \in ApplyRuns : step[r] = "ended" /\ oldOf[r] # NoTree => r \in staged \/ "old" \in report[r].names
    /\ destination = NoTree => \E r \in ApplyRuns :
            step[r] \in {"in", "back", "clean", "killed"} \/ "old" \in report[r].names

\* What a run says of its changes is so, also after it returned, when the
\* server may still be at its request: a run that says that nothing was
\* changed has changed nothing, and one that fails lists all of its changes,
\* says that the server may have done more, or fails with the answer to the
\* apply itself.
ReportsTrue ==
    \A r \in ApplyRuns : step[r] = "ended" =>
        LET listed == upserted[r] \cup (IF r \in staged THEN {"injects"} ELSE {})
        IN  /\ report[r].says = "unchanged" => changes[r] = {}
            /\ report[r].says = "failed" =>
                \/ changes[r] \subseteq listed \/ report[r].perhaps
                \/ report[r].of = "apply" /\ changes[r] \subseteq listed \cup {"stopped", "experiment"}

\* An apply keeps what it must, and what it tells its user beforehand and
\* afterwards is so: all three.
AppliesTold == StagedTreeKept /\ ReportsTrue /\ DryRunPredicts
=============================================================================
