---------------------------- MODULE ConfigsProofs ----------------------------
(***************************************************************************)
(* Proofs about the configs and about the command that applies files of    *)
(* them, for any number of requests, of runs of the command and of names,  *)
(* and whatever fails, is interrupted or is killed.                        *)
(*                                                                         *)
(* What a run of the command says when it returns is about things that     *)
(* other runs and the server go on changing. So its invariant follows three *)
(* things from the first step of a run: who holds the previous tree of     *)
(* injects while there is none at the destination, what the run has changed *)
(* against what it would list now, and what its dry run found, which stays *)
(* found because configs are only added.                                   *)
(*                                                                         *)
(* A rename of a config is two transactions on the store, with any number  *)
(* of others between them. So the invariant of Configs says which of the   *)
(* names of a config is its home: the one that no rename under way made.   *)
(* A config that is not deleted has one home, and one that is deleted has  *)
(* none, or the old name of a rename that will still delete it.            *)
(***************************************************************************)
EXTENDS WorkflowApply, Configs, FiniteSetTheorems, TLAPS

Reports == [says : {"none", "complete", "unchanged", "failed"}, perhaps : BOOLEAN, names : SUBSET {"old", "copy"},
            of : {"none", "stage", "apply"}]

\* Where a run is.
Unplanned == {"check", "files", "configs", "plan"}
Copying == {"stage", "copy", "aside"}
Moving == {"in", "back", "clean"}
Sending == {"upsert", "upserting", "apply", "applying"}
Staging == Copying \cup Moving \cup {"old"}
ServerSteps == {"none", "upsert", "apply", "stop", "change", "start"}

Listed(r) == upserted[r] \cup (IF r \in staged THEN {"injects"} ELSE {})

\* The functions of runs, and what all runs share.
Shaped ==
    /\ step = [r \in ApplyRuns |-> step[r]] /\ file = [r \in ApplyRuns |-> file[r]]
    /\ plan = [r \in ApplyRuns |-> plan[r]] /\ upserted = [r \in ApplyRuns |-> upserted[r]]
    /\ report = [r \in ApplyRuns |-> report[r]] /\ replied = [r \in ApplyRuns |-> replied[r]]
    /\ doing = [r \in ApplyRuns |-> doing[r]] /\ oldOf = [r \in ApplyRuns |-> oldOf[r]]
    /\ changes = [r \in ApplyRuns |-> changes[r]]
    /\ staged \subseteq ApplyRuns /\ refused \subseteq ApplyRuns
    /\ destination \in Trees
    /\ storedConfigs \subseteq AllConfigs \cup FirstConfigs
    /\ mapped \in {"none", "stopped", "running"}

\* What one run is at, and the server for it.
RunTyped(r) ==
    /\ step[r] \in Unplanned \cup Staging \cup Sending \cup {"ended", "killed"}
    /\ plan[r] \in PlanActions /\ report[r] \in Reports /\ oldOf[r] \in Trees
    /\ doing[r] \in ServerSteps /\ replied[r] \in {"none", "ok", "refused"}
    /\ upserted[r] \subseteq AllConfigs /\ file[r] \in Nat \ {0}
    /\ report[r].says # "none" <=> step[r] = "ended"
    /\ doing[r] # "none" /\ ~RunOver(r) => step[r] \in {"upserting", "applying"}
    /\ step[r] = "upserting" \/ doing[r] = "upsert" => file[r] \in DOMAIN Files[r]
    /\ step[r] \in Unplanned \cup Staging => file[r] = 1

\* Where a run that is under way has put the previous tree.
RunHolds(r) ==
    /\ step[r] \in Unplanned \cup Copying => oldOf[r] = NoTree
    /\ step[r] \in Sending => r \in staged
    /\ "old" \in report[r].names => step[r] = "ended"
    /\ step[r] = "ended" /\ oldOf[r] # NoTree => r \in staged \/ "old" \in report[r].names

\* Who still has it when there is none at the destination.
Keeper(r) == oldOf[r] # NoTree /\ (step[r] \in Moving \cup {"killed"} \/ "old" \in report[r].names)
TreesHeld == destination = NoTree => \E r \in ApplyRuns : Keeper(r)

\* What a run changed, and will tell.
RunTells(r) ==
    /\ step[r] \in Unplanned \cup Copying \cup Moving => changes[r] = {}
    /\ step[r] = "old" => changes[r] \subseteq {"injects"}
    /\ step[r] \in {"upsert", "apply"} => changes[r] \subseteq Listed(r)
    /\ step[r] = "upserting" =>
        /\ doing[r] \in {"none", "upsert"} /\ (doing[r] = "none" <=> replied[r] # "none")
        /\ changes[r] \subseteq Listed(r) \cup (IF replied[r] = "ok" THEN {Files[r][file[r]]} ELSE {})
    /\ step[r] = "applying" =>
        /\ doing[r] # "upsert" /\ (doing[r] = "none" <=> replied[r] # "none")
        /\ changes[r] \subseteq Listed(r) \cup {"stopped", "experiment"}
    /\ step[r] = "ended" =>
        /\ doing[r] # "none" => report[r].perhaps /\ report[r].says = "failed"
        /\ report[r].says = "unchanged" => changes[r] = {}
        /\ report[r].says = "failed" =>
            \/ changes[r] \subseteq Listed(r) \/ report[r].perhaps
            \/ report[r].of = "apply" /\ changes[r] \subseteq Listed(r) \cup {"stopped", "experiment"}

\* What a run knows to be stored is, and its dry run found the rest.
RunKnows(r) ==
    /\ upserted[r] \subseteq storedConfigs
    /\ step[r] = "upserting" /\ replied[r] = "ok" => Files[r][file[r]] \in storedConfigs
    /\ step[r] \in {"upsert", "upserting"} /\ r \notin refused =>
        \A i \in 1 .. (file[r] - 1) : i \in DOMAIN Files[r] => Files[r][i] \in upserted[r]
    /\ step[r] \in Staging \cup Sending \/ doing[r] = "apply" => Prepare(r, plan[r], PendingConfigs(r))
    /\ step[r] \in {"apply", "applying"} \/ doing[r] = "apply" => PendingConfigs(r) \subseteq storedConfigs

RunInv(r) == RunTyped(r) /\ RunHolds(r) /\ RunTells(r) /\ RunKnows(r)
ApplyInv == Shaped /\ TreesHeld /\ \A r \in ApplyRuns : RunInv(r)

----------------------------------------------------------------------------
(* A step of one run leaves the others as they are.                        *)

Stays(q) ==
    /\ step'[q] = step[q] /\ file'[q] = file[q] /\ plan'[q] = plan[q] /\ report'[q] = report[q]
    /\ replied'[q] = replied[q] /\ doing'[q] = doing[q] /\ upserted'[q] = upserted[q]
    /\ changes'[q] = changes[q] /\ oldOf'[q] = oldOf[q]
    /\ (q \in staged' <=> q \in staged) /\ (q \in refused' <=> q \in refused)

Alone(r) == Shaped' /\ storedConfigs \subseteq storedConfigs' /\ \A q \in ApplyRuns : q # r => Stays(q)

LEMMA PreparesStill ==
    ASSUME NEW r, NEW a, NEW P, storedConfigs \subseteq storedConfigs', Prepare(r, a, P)
    PROVE  Prepare(r, a, P)'
BY DEF Prepare, ResolveTopology, ResolveScenario, CheckPendingIncludes, CheckPendingScenario, ReadConfig

LEMMA StaysInv ==
    ASSUME NEW q \in ApplyRuns, RunInv(q), Stays(q), storedConfigs \subseteq storedConfigs'
    PROVE  RunInv(q)'
<1>1. RunTyped(q)'
    BY DEF RunInv, RunTyped, Stays, RunOver
<1>2. RunHolds(q)'
    BY DEF RunInv, RunHolds, Stays
<1>3. RunTells(q)'
    BY DEF RunInv, RunTells, Stays, Listed
<1>4. RunKnows(q)'
  <2>1. Prepare(q, plan[q], PendingConfigs(q)) => Prepare(q, plan[q], PendingConfigs(q))'
    BY PreparesStill DEF Stays, PendingConfigs
  <2>. QED BY <2>1 DEF RunInv, RunKnows, Stays, PendingConfigs
<1>. QED BY <1>1, <1>2, <1>3, <1>4 DEF RunInv

\* What a run does by itself, and what it asks of the server and is told.
Works(r) ==
    \/ CheckServer(r) \/ Preflight(r) \/ DryRunConfigs(r) \/ DryRunWorkflow(r) \/ DryRunFails(r)
    \/ StageBegins(r) \/ CopyTree(r) \/ StagingFails(r) \/ MoveAside(r) \/ MoveIn(r) \/ MoveInFails(r)
    \/ PutBack(r) \/ RemoveStaging(r) \/ RemoveOld(r)
Asks(r) ==
    \/ Interrupt(r) \/ Kill(r) \/ NotSent(r) \/ SendUpsert(r) \/ Upserted(r) \/ UpsertsOver(r)
    \/ SendApply(r) \/ Applied(r) \/ RequestInterrupted(r) \/ ConnectionLost(r)
Served(r) ==
    \/ UpsertConfig(r) \/ ApplyWorkflow(r) \/ StopsExperiment(r) \/ ChangesExperiment(r)
    \/ StartsExperiment(r) \/ ServerRefuses(r)

LEMMA FileOfRun ==
    ASSUME NEW r \in ApplyRuns, NEW i \in DOMAIN Files[r]
    PROVE  Files[r][i] \in PendingConfigs(r) /\ Files[r][i] \in AllConfigs
BY DEF PendingConfigs, AllConfigs

LEMMA WorksAlone ==
    ASSUME Shaped, NEW r \in ApplyRuns, RunTyped(r), Works(r)
    PROVE  Alone(r)
<1>. USE DEF Shaped, Alone, Stays, RunAt, Ends, runVars, treeVars, serverVars, stageRest, Trees
<1>1. CASE CheckServer(r) \/ Preflight(r) \/ DryRunConfigs(r) \/ DryRunFails(r)
    BY <1>1 DEF CheckServer, Preflight, DryRunConfigs, DryRunFails
<1>2. CASE DryRunWorkflow(r)
    BY <1>2 DEF DryRunWorkflow
<1>3. CASE StageBegins(r) \/ CopyTree(r) \/ StagingFails(r)
    BY <1>3 DEF StageBegins, CopyTree, StagingFails
<1>4. CASE MoveAside(r) \/ MoveIn(r) \/ MoveInFails(r)
    BY <1>4 DEF MoveAside, MoveIn, MoveInFails
<1>5. CASE PutBack(r)
  <2>1. oldOf[r] \in Trees
    BY DEF RunTyped
  <2>. QED BY <1>5, <2>1 DEF PutBack
<1>6. CASE RemoveStaging(r) \/ RemoveOld(r)
    BY <1>6 DEF RemoveStaging, RemoveOld
<1>. QED BY <1>1, <1>2, <1>3, <1>4, <1>5, <1>6 DEF Works

LEMMA AsksAlone ==
    ASSUME Shaped, NEW r \in ApplyRuns, Asks(r)
    PROVE  Alone(r)
<1>. USE DEF Shaped, Alone, Stays, RunAt, Ends, runVars, treeVars, serverVars, requestRest
<1>1. CASE Interrupt(r) \/ Kill(r) \/ NotSent(r)
    BY <1>1 DEF Interrupt, Kill, NotSent
<1>2. CASE SendUpsert(r) \/ UpsertsOver(r) \/ SendApply(r)
    BY <1>2 DEF SendUpsert, UpsertsOver, SendApply
<1>3. CASE Upserted(r)
    BY <1>3 DEF Upserted
<1>4. CASE Applied(r) \/ RequestInterrupted(r) \/ ConnectionLost(r)
    BY <1>4 DEF Applied, RequestInterrupted, ConnectionLost
<1>. QED BY <1>1, <1>2, <1>3, <1>4 DEF Asks

LEMMA ServedAlone ==
    ASSUME Shaped, NEW r \in ApplyRuns, RunTyped(r), Served(r)
    PROVE  Alone(r)
<1>. USE DEF Shaped, Alone, Stays, serverRest, Replies, Proceeds, Changes
<1>1. CASE UpsertConfig(r)
  <2>1. Files[r][file[r]] \in AllConfigs
    BY <1>1, FileOfRun DEF UpsertConfig, RunTyped
  <2>. QED BY <1>1, <2>1 DEF UpsertConfig
<1>2. CASE ApplyWorkflow(r)
    BY <1>2 DEF ApplyWorkflow
<1>3. CASE StopsExperiment(r) \/ ChangesExperiment(r)
    BY <1>3 DEF StopsExperiment, ChangesExperiment
<1>4. CASE StartsExperiment(r) \/ ServerRefuses(r)
    BY <1>4 DEF StartsExperiment, ServerRefuses
<1>. QED BY <1>1, <1>2, <1>3, <1>4 DEF Served

----------------------------------------------------------------------------
(* The run itself. Most of its steps take it to its next label, or to its  *)
(* end, and leave the rest of it alone.                                    *)

SameRest(r) ==
    /\ file'[r] = file[r] /\ plan'[r] = plan[r] /\ replied'[r] = replied[r] /\ upserted'[r] = upserted[r]
    /\ changes'[r] = changes[r] /\ oldOf'[r] = oldOf[r]
    /\ (r \in staged' <=> r \in staged) /\ (r \in refused' <=> r \in refused)
Walks(r, s) == SameRest(r) /\ step'[r] = s /\ report'[r] = report[r] /\ doing'[r] = doing[r]
EndsAs(r, says, perhaps, names, of) ==
    /\ SameRest(r) /\ step'[r] = "ended"
    /\ report'[r] = [says |-> says, perhaps |-> perhaps, names |-> names, of |-> of]

\* The labels a run goes through before it may change anything but its trees.
EarlyWalks == {<<"check", "files">>, <<"files", "configs">>, <<"configs", "plan">>, <<"stage", "copy">>,
               <<"copy", "aside">>, <<"copy", "clean">>, <<"aside", "clean">>, <<"in", "back">>, <<"back", "clean">>}

LEMMA WalkInv ==
    ASSUME NEW r \in ApplyRuns, RunInv(r), storedConfigs \subseteq storedConfigs', NEW s, Walks(r, s),
           \/ <<step[r], s>> \in EarlyWalks
           \/ step[r] = "upsert" /\ s = "apply" /\ PendingConfigs(r) \subseteq storedConfigs
           \/ ~RunOver(r) /\ s = "killed"
    PROVE  RunInv(r)'
<1>. USE DEF Walks, SameRest, RunInv
<1>1. \/ step[r] \in Unplanned \cup Copying \cup Moving /\ s \in Unplanned \cup Copying \cup Moving
         /\ (step[r] \in Unplanned <=> s \in Unplanned) /\ (step[r] \notin Copying => s \notin Copying)
      \/ step[r] = "upsert" /\ s = "apply" /\ PendingConfigs(r) \subseteq storedConfigs
      \/ ~RunOver(r) /\ s = "killed"
    BY DEF EarlyWalks, Unplanned, Copying, Moving
<1>2. RunTyped(r)'
    BY <1>1 DEF RunTyped, RunOver, Unplanned, Copying, Moving, Staging, Sending
<1>3. RunHolds(r)'
  <2>1. step[r] # "ended" /\ s # "ended"
    BY <1>1 DEF RunOver, Unplanned, Copying, Moving
  <2>2. s \in Unplanned \cup Copying => step[r] \in Unplanned \cup Copying
    BY <1>1 DEF Unplanned, Copying, Moving
  <2>3. s \in Sending => step[r] \in Sending
    BY <1>1 DEF Unplanned, Copying, Moving, Sending
  <2>. QED BY <2>1, <2>2, <2>3 DEF RunHolds
<1>4. RunTells(r)'
    BY <1>1 DEF RunTells, Unplanned, Copying, Moving, Listed
<1>5. RunKnows(r)'
  <2>1. Prepare(r, plan[r], PendingConfigs(r)) => Prepare(r, plan[r], PendingConfigs(r))'
    BY PreparesStill DEF PendingConfigs
  <2>2. step[r] \in Staging \cup Sending \/ doing[r] = "apply" => Prepare(r, plan[r], PendingConfigs(r))
    BY DEF RunKnows
  <2>3. s \in Staging \cup Sending => step[r] \in Staging \cup Sending
    BY <1>1 DEF Staging, Unplanned, Copying, Moving, Sending
  <2>4. PendingConfigs(r)' = PendingConfigs(r)
    BY DEF PendingConfigs
  <2>5. s \notin {"upsert", "upserting", "applying"}
    BY <1>1 DEF Unplanned, Copying, Moving
  <2>. QED BY <1>1, <2>1, <2>2, <2>3, <2>4, <2>5 DEF RunKnows, Unplanned, Copying, Moving
<1>. QED BY <1>2, <1>3, <1>4, <1>5

LEMMA ReportIs ==
    ASSUME NEW says \in {"complete", "unchanged", "failed"}, NEW perhaps \in BOOLEAN,
           NEW names \in SUBSET {"old", "copy"}, NEW of \in {"none", "stage", "apply"},
           NEW told, told = [says |-> says, perhaps |-> perhaps, names |-> names, of |-> of]
    PROVE  told \in Reports /\ told.says = says /\ told.perhaps = perhaps /\ told.names = names /\ told.of = of
<1>1. told.says = says /\ told.perhaps = perhaps /\ told.names = names /\ told.of = of
    OBVIOUS
<1>2. told \in Reports
    BY DEF Reports
<1>. QED BY <1>1, <1>2

LEMMA EndInv ==
    ASSUME NEW r \in ApplyRuns, RunInv(r), storedConfigs \subseteq storedConfigs', ~RunOver(r),
           NEW says \in {"complete", "unchanged", "failed"}, NEW perhaps \in BOOLEAN,
           NEW names \in SUBSET {"old", "copy"}, NEW of \in {"none", "stage", "apply"},
           EndsAs(r, says, perhaps, names, of), doing'[r] \in {doing[r], "none"},
           step[r] # "old", step[r] \in Moving /\ oldOf[r] # NoTree => "old" \in names,
           says = "unchanged" => step[r] \in Unplanned \cup Copying,
           says = "failed" =>
            \/ step[r] \in Moving \cup {"upsert", "apply"} \/ perhaps
            \/ of = "apply" /\ step[r] = "applying" /\ replied[r] # "none",
           says = "complete" => step[r] = "applying" /\ replied[r] # "none"
    PROVE  RunInv(r)'
<1>. USE DEF EndsAs, SameRest, RunInv
<1>1. /\ report'[r] \in Reports /\ report'[r].says = says /\ report'[r].perhaps = perhaps
      /\ report'[r].names = names /\ report'[r].of = of
    BY ReportIs
<1>2. RunTyped(r)'
  <2>1. report'[r] \in Reports
    BY <1>1
  <2>2. doing'[r] \in ServerSteps /\ (doing'[r] = "upsert" => doing[r] = "upsert")
    BY DEF RunTyped, ServerSteps
  <2>3. RunOver(r)' /\ step'[r] # "upserting" /\ step'[r] \notin Unplanned \cup Staging /\ says # "none"
    BY DEF RunOver, Unplanned, Copying, Moving, Staging
  <2>. QED BY <1>1, <2>1, <2>2, <2>3 DEF RunTyped
<1>3. RunHolds(r)'
  <2>1. step[r] \in Unplanned \cup Copying \cup Moving \cup Sending
    BY DEF RunTyped, RunOver, Staging
  <2>. QED BY <1>1, <2>1 DEF RunHolds, Unplanned, Copying, Sending
<1>4. RunTells(r)'
  <2>1. doing'[r] # "none" => doing[r] # "none" /\ step[r] \in {"upserting", "applying"}
    BY DEF RunTyped
  <2>2. doing'[r] # "none" => says = "failed" /\ perhaps
    BY <2>1 DEF RunTells, Unplanned, Copying, Moving
  <2>3. says = "unchanged" => changes[r] = {}
    BY DEF RunTells
  <2>4. says = "failed" => \/ changes[r] \subseteq Listed(r) \/ perhaps
                           \/ of = "apply" /\ changes[r] \subseteq Listed(r) \cup {"stopped", "experiment"}
    BY DEF RunTells
  <2>5. Listed(r)' = Listed(r)
    BY DEF Listed
  <2>. QED BY <1>1, <2>2, <2>3, <2>4, <2>5 DEF RunTells, Unplanned, Copying, Moving
<1>5. RunKnows(r)'
  <2>1. Prepare(r, plan[r], PendingConfigs(r)) => Prepare(r, plan[r], PendingConfigs(r))'
    BY PreparesStill DEF PendingConfigs
  <2>2. PendingConfigs(r)' = PendingConfigs(r)
    BY DEF PendingConfigs
  <2>. QED BY <2>1, <2>2 DEF RunKnows, Staging, Sending, Copying, Moving
<1>. QED BY <1>2, <1>3, <1>4, <1>5

\* The steps that only walk on.
LEMMA WalksInv ==
    ASSUME Shaped, NEW r \in ApplyRuns, RunInv(r),
           \/ CheckServer(r) \/ Preflight(r) \/ DryRunConfigs(r) \/ CopyTree(r) \/ StagingFails(r)
           \/ MoveInFails(r) \/ Kill(r)
           \/ StageBegins(r) /\ r \notin interrupted
           \/ MoveIn(r) /\ destination # NoTree
    PROVE  RunInv(r)'
<1>. USE DEF Shaped, Walks, SameRest, RunAt, runVars, treeVars, serverVars, stageRest
<1>1. storedConfigs \subseteq storedConfigs'
    BY DEF CheckServer, Preflight, DryRunConfigs, CopyTree, StagingFails, MoveInFails, Kill, StageBegins, MoveIn
<1>2. CASE CheckServer(r)
  <2>1. Walks(r, "files") /\ <<step[r], "files">> \in EarlyWalks
    BY <1>2 DEF CheckServer, EarlyWalks
  <2>. QED BY <2>1, <1>1, WalkInv
<1>3. CASE Preflight(r)
  <2>1. Walks(r, "configs") /\ <<step[r], "configs">> \in EarlyWalks
    BY <1>3 DEF Preflight, EarlyWalks
  <2>. QED BY <2>1, <1>1, WalkInv
<1>4. CASE DryRunConfigs(r)
  <2>1. Walks(r, "plan") /\ <<step[r], "plan">> \in EarlyWalks
    BY <1>4 DEF DryRunConfigs, EarlyWalks
  <2>. QED BY <2>1, <1>1, WalkInv
<1>5. CASE CopyTree(r)
  <2>1. Walks(r, "aside") /\ <<step[r], "aside">> \in EarlyWalks
    BY <1>5 DEF CopyTree, EarlyWalks
  <2>. QED BY <2>1, <1>1, WalkInv
<1>6. CASE StagingFails(r)
  <2>1. Walks(r, "clean") /\ <<step[r], "clean">> \in EarlyWalks
    BY <1>6 DEF StagingFails, EarlyWalks
  <2>. QED BY <2>1, <1>1, WalkInv
<1>7. CASE MoveInFails(r)
  <2>1. Walks(r, "back") /\ <<step[r], "back">> \in EarlyWalks
    BY <1>7 DEF MoveInFails, EarlyWalks
  <2>. QED BY <2>1, <1>1, WalkInv
<1>8. CASE Kill(r)
  <2>1. Walks(r, "killed") /\ ~RunOver(r)
    BY <1>8 DEF Kill
  <2>. QED BY <2>1, <1>1, WalkInv
<1>9. CASE StageBegins(r) /\ r \notin interrupted
  <2>1. Walks(r, "copy") /\ <<step[r], "copy">> \in EarlyWalks
    BY <1>9 DEF StageBegins, EarlyWalks
  <2>. QED BY <2>1, <1>1, WalkInv
<1>10. CASE MoveIn(r) /\ destination # NoTree
  <2>1. Walks(r, "back") /\ <<step[r], "back">> \in EarlyWalks
    BY <1>10 DEF MoveIn, EarlyWalks
  <2>. QED BY <2>1, <1>1, WalkInv
<1>. QED BY <1>2, <1>3, <1>4, <1>5, <1>6, <1>7, <1>8, <1>9, <1>10

\* The steps that end it.
LEMMA EndsInv ==
    ASSUME Shaped, NEW r \in ApplyRuns, RunInv(r),
           \/ DryRunFails(r) \/ RemoveStaging(r) \/ NotSent(r) \/ Applied(r) \/ RequestInterrupted(r)
           \/ ConnectionLost(r)
           \/ StageBegins(r) /\ r \in interrupted
           \/ UpsertsOver(r) /\ r \in refused
    PROVE  RunInv(r)'
<1>. USE DEF RunOver
<1>1. storedConfigs \subseteq storedConfigs' /\ doing'[r] \in {doing[r], "none"}
    BY DEF Shaped, runVars, treeVars, serverVars, stageRest, requestRest,
           DryRunFails, RemoveStaging, NotSent, Applied, RequestInterrupted, ConnectionLost, StageBegins, UpsertsOver
<1>2. CASE DryRunFails(r) \/ (StageBegins(r) /\ r \in interrupted)
  <2>1. EndsAs(r, "unchanged", FALSE, {}, "none") /\ step[r] \in Unplanned \cup {"stage"}
    BY <1>2 DEF DryRunFails, StageBegins, Unplanned,
           Shaped, EndsAs, SameRest, Ends, RunAt, runVars, treeVars, serverVars, stageRest, requestRest
  <2>2. /\ step[r] # "old" /\ ~RunOver(r) /\ step[r] \notin Moving /\ step[r] \in Unplanned \cup Copying
    BY <2>1 DEF Unplanned, Moving, Copying
  <2>. QED BY <2>1, <2>2, <1>1, EndInv
<1>3. CASE RemoveStaging(r)
  <2>. DEFINE kept == IF oldOf[r] = NoTree THEN {} ELSE {"old"}
  <2>1. PICK names \in {kept, kept \cup {"copy"}} : EndsAs(r, "failed", FALSE, names, "stage")
    BY <1>3 DEF RemoveStaging,
       Shaped, EndsAs, SameRest, Ends, RunAt, runVars, treeVars, serverVars, stageRest, requestRest
  <2>2. step[r] # "old" /\ ~RunOver(r) /\ step[r] \in Moving
    BY <1>3 DEF RemoveStaging, Moving
  <2>3. names \in SUBSET {"old", "copy"} /\ (oldOf[r] # NoTree => "old" \in names)
    OBVIOUS
  <2>. QED BY <2>1, <2>2, <2>3, <1>1, EndInv
<1>4. CASE NotSent(r) \/ (UpsertsOver(r) /\ r \in refused)
  <2>1. EndsAs(r, "failed", FALSE, {}, "none") /\ step[r] \in {"upsert", "apply"}
    BY <1>4 DEF NotSent, UpsertsOver,
           Shaped, EndsAs, SameRest, Ends, RunAt, runVars, treeVars, serverVars, stageRest, requestRest
  <2>2. step[r] # "old" /\ ~RunOver(r) /\ step[r] \notin Moving
    BY <2>1 DEF Moving
  <2>. QED BY <2>1, <2>2, <1>1, EndInv
<1>5. CASE Applied(r)
  <2>1. step[r] = "applying" /\ replied[r] # "none" /\ step[r] \notin Moving /\ ~RunOver(r)
    BY <1>5 DEF Applied, Moving
  <2>2. CASE replied[r] = "ok"
    <3>1. EndsAs(r, "complete", FALSE, {}, "none")
      BY <1>5, <2>2 DEF Applied,
             Shaped, EndsAs, SameRest, Ends, RunAt, runVars, treeVars, serverVars, stageRest, requestRest
    <3>. QED BY <3>1, <2>1, <1>1, EndInv
  <2>3. CASE replied[r] # "ok"
    <3>1. EndsAs(r, "failed", TRUE, {}, "apply") \/ EndsAs(r, "failed", FALSE, {}, "apply")
      BY <1>5, <2>3 DEF Applied,
         Shaped, EndsAs, SameRest, Ends, RunAt, runVars, treeVars, serverVars, stageRest, requestRest
    <3>. QED BY <3>1, <2>1, <1>1, EndInv
  <2>. QED BY <2>2, <2>3
<1>6. CASE RequestInterrupted(r) \/ ConnectionLost(r)
  <2>1. PICK of \in {"none", "apply"} : EndsAs(r, "failed", TRUE, {}, of) /\ step[r] \in {"upserting", "applying"}
    BY <1>6 DEF RequestInterrupted, ConnectionLost, MayStillFinish,
           Shaped, EndsAs, SameRest, Ends, RunAt, runVars, treeVars, serverVars, stageRest, requestRest
  <2>2. step[r] # "old" /\ ~RunOver(r) /\ step[r] \notin Moving
    BY <2>1 DEF Moving
  <2>. QED BY <2>1, <2>2, <1>1, EndInv
<1>. QED BY <1>2, <1>3, <1>4, <1>5, <1>6

\* The steps that plan, and that move the trees.
LEMMA PlansInv ==
    ASSUME Shaped, NEW r \in ApplyRuns, RunInv(r), DryRunWorkflow(r)
    PROVE  RunInv(r)'
<1>0. PICK action : action = NewPlan(r)
    OBVIOUS
<1>1. /\ step[r] = "plan" /\ plan'[r] = action /\ action \in PlanActions /\ Prepare(r, action, PendingConfigs(r))
      /\ storedConfigs' = storedConfigs /\ file'[r] = file[r] /\ replied'[r] = replied[r]
      /\ doing'[r] = doing[r] /\ upserted'[r] = upserted[r] /\ changes'[r] = changes[r] /\ oldOf'[r] = oldOf[r]
      /\ staged' = staged /\ refused' = refused
    BY <1>0 DEF DryRunWorkflow, Shaped, NewPlan, PlanCreate, PlanUpdate, PlanActions, serverVars, treeVars
<1>2. doing[r] = "none" /\ changes[r] = {} /\ oldOf[r] = NoTree /\ file[r] = 1
    BY <1>1 DEF RunInv, RunTyped, RunTells, RunHolds, RunOver, Unplanned, Staging
<1>3. PendingConfigs(r)' = PendingConfigs(r) /\ Prepare(r, plan[r], PendingConfigs(r))'
  <2>1. Prepare(r, action, PendingConfigs(r))'
    BY <1>1, PreparesStill DEF PendingConfigs
  <2>. QED BY <1>1, <2>1 DEF PendingConfigs
<1>4. Listed(r)' = Listed(r)
    BY <1>1 DEF Listed
<1>5. CASE step'[r] = "stage" /\ report'[r] = report[r]
  <2>1. RunTyped(r)'
    BY <1>1, <1>2, <1>5 DEF RunInv, RunTyped, RunOver, Unplanned, Copying, Moving, Staging, Sending, ServerSteps
  <2>2. RunHolds(r)' /\ RunTells(r)'
    BY <1>1, <1>2, <1>5 DEF RunInv, RunHolds, RunTells, Unplanned, Copying, Moving, Sending
  <2>3. RunKnows(r)'
    BY <1>1, <1>2, <1>3, <1>5 DEF RunInv, RunKnows
  <2>. QED BY <2>1, <2>2, <2>3 DEF RunInv
<1>6. CASE step'[r] = "ended" /\ report'[r] = [says |-> "unchanged", perhaps |-> FALSE, names |-> {}, of |-> "none"]
  <2>1. /\ report'[r] \in Reports /\ report'[r].says = "unchanged" /\ report'[r].perhaps = FALSE
        /\ report'[r].names = {} /\ report'[r].of = "none"
    <3>1. report'[r] \in Reports
      BY <1>6 DEF Reports
    <3>. QED BY <1>6, <3>1
  <2>2. RunTyped(r)'
    BY <1>1, <1>2, <1>6, <2>1
       DEF RunInv, RunTyped, RunOver, Unplanned, Copying, Moving, Staging, Sending, ServerSteps
  <2>3. RunHolds(r)' /\ RunTells(r)'
    BY <1>1, <1>2, <1>6, <2>1 DEF RunInv, RunHolds, RunTells, Unplanned, Copying, Moving, Sending
  <2>4. RunKnows(r)'
    BY <1>1, <1>2, <1>3, <1>6
       DEF RunInv, RunKnows, Unplanned, Copying, Moving, Staging, Sending
  <2>. QED BY <2>2, <2>3, <2>4 DEF RunInv
<1>7. \/ step'[r] = "stage" /\ report'[r] = report[r]
      \/ step'[r] = "ended" /\ report'[r] = [says |-> "unchanged", perhaps |-> FALSE, names |-> {}, of |-> "none"]
    BY DEF DryRunWorkflow, Shaped, Ends, RunAt
<1>. QED BY <1>5, <1>6, <1>7

LEMMA TreesInv ==
    ASSUME Shaped, NEW r \in ApplyRuns, RunInv(r),
           \/ MoveAside(r) \/ PutBack(r) \/ RemoveOld(r)
           \/ MoveIn(r) /\ destination = NoTree
    PROVE  RunInv(r)'
<1>1. /\ storedConfigs' = storedConfigs /\ file'[r] = file[r] /\ plan'[r] = plan[r] /\ replied'[r] = replied[r]
      /\ doing'[r] = doing[r] /\ upserted'[r] = upserted[r] /\ refused' = refused /\ report'[r] = report[r]
    BY DEF MoveAside, PutBack, RemoveOld, MoveIn, stageRest, serverVars
<1>2. \/ /\ step[r] = "aside" /\ step'[r] = "in" /\ oldOf'[r] = destination
         /\ changes'[r] = changes[r] /\ staged' = staged
      \/ /\ step[r] = "back" /\ step'[r] = "clean" /\ oldOf'[r] \in {oldOf[r], NoTree}
         /\ changes'[r] = changes[r] /\ staged' = staged
      \/ /\ step[r] = "in" /\ step'[r] = "old" /\ oldOf'[r] = oldOf[r]
         /\ changes'[r] = changes[r] \cup {"injects"} /\ staged' = staged
      \/ /\ step[r] = "old" /\ step'[r] = "upsert" /\ oldOf'[r] \in {oldOf[r], NoTree}
         /\ changes'[r] = changes[r] /\ staged' = staged \cup {r}
    BY DEF MoveAside, PutBack, RemoveOld, MoveIn, Shaped, RunAt
<1>3. RunTyped(r)'
    BY <1>1, <1>2 DEF RunInv, RunTyped, Shaped, RunOver, Unplanned, Copying, Moving, Staging, Sending, Trees
<1>4. RunHolds(r)'
    BY <1>1, <1>2 DEF RunInv, RunHolds, Unplanned, Copying, Sending
<1>5. RunTells(r)'
    BY <1>1, <1>2 DEF RunInv, RunTells, Listed, Unplanned, Copying, Moving
<1>6. RunKnows(r)'
  <2>1. Prepare(r, plan[r], PendingConfigs(r)) /\ file[r] = 1
    BY <1>2 DEF RunInv, RunKnows, RunTyped, Staging, Copying, Moving
  <2>2. PendingConfigs(r)' = PendingConfigs(r) /\ Prepare(r, plan[r], PendingConfigs(r))'
    BY <1>1, <2>1, PreparesStill DEF PendingConfigs
  <2>3. 1 .. (file'[r] - 1) = {}
    BY <1>1, <2>1
  <2>4. doing[r] # "apply" /\ step'[r] \notin {"upserting", "apply", "applying"}
    BY <1>2 DEF RunInv, RunTyped, RunOver
  <2>. QED BY <1>1, <2>2, <2>3, <2>4 DEF RunInv, RunKnows
<1>. QED BY <1>3, <1>4, <1>5, <1>6 DEF RunInv

\* The requests, and their answers.
LEMMA SendsInv ==
    ASSUME Shaped, NEW r \in ApplyRuns, RunInv(r), SendUpsert(r) \/ SendApply(r)
    PROVE  RunInv(r)'
<1>1. /\ storedConfigs' = storedConfigs /\ file'[r] = file[r] /\ plan'[r] = plan[r] /\ oldOf'[r] = oldOf[r]
      /\ upserted'[r] = upserted[r] /\ refused' = refused /\ report'[r] = report[r] /\ staged' = staged
      /\ changes'[r] = changes[r] /\ replied'[r] = "none"
    BY DEF SendUpsert, SendApply, Shaped, requestRest, treeVars
<1>2. \/ step[r] = "upsert" /\ step'[r] = "upserting" /\ doing'[r] = "upsert" /\ file[r] <= Len(Files[r])
      \/ step[r] = "apply" /\ step'[r] = "applying" /\ doing'[r] = "apply"
    BY DEF SendUpsert, SendApply, Shaped, RunAt
<1>3. RunTyped(r)'
  <2>1. step'[r] = "upserting" => file[r] \in DOMAIN Files[r]
    <3>1. DOMAIN Files[r] = 1 .. Len(Files[r]) /\ Len(Files[r]) \in Nat
      BY WorkflowApplyAssumption
    <3>. QED BY <1>2, <3>1 DEF RunInv, RunTyped
  <2>. QED BY <1>1, <1>2, <2>1 DEF RunInv, RunTyped, RunOver, Sending, Unplanned, Copying, Moving, Staging, ServerSteps
<1>4. RunHolds(r)' /\ RunTells(r)'
    BY <1>1, <1>2 DEF RunInv, RunHolds, RunTells, Listed, Unplanned, Copying, Moving, Sending
<1>5. RunKnows(r)'
  <2>1. Prepare(r, plan[r], PendingConfigs(r))
    BY <1>2 DEF RunInv, RunKnows, Sending
  <2>2. PendingConfigs(r)' = PendingConfigs(r) /\ Prepare(r, plan[r], PendingConfigs(r))'
    BY <1>1, <2>1, PreparesStill DEF PendingConfigs
  <2>. QED BY <1>1, <1>2, <2>2 DEF RunInv, RunKnows
<1>. QED BY <1>3, <1>4, <1>5 DEF RunInv

LEMMA UpsertedInv ==
    ASSUME Shaped, NEW r \in ApplyRuns, RunInv(r), Upserted(r)
    PROVE  RunInv(r)'
<1>. DEFINE c == Files[r][file[r]]
<1>1. /\ storedConfigs' = storedConfigs /\ plan'[r] = plan[r] /\ oldOf'[r] = oldOf[r] /\ doing'[r] = doing[r]
      /\ report'[r] = report[r] /\ staged' = staged /\ changes'[r] = changes[r] /\ replied'[r] = replied[r]
      /\ step[r] = "upserting" /\ replied[r] # "none" /\ step'[r] = "upsert" /\ file'[r] = file[r] + 1
    BY DEF Upserted, Shaped, RunAt, requestRest, treeVars
<1>2. \/ replied[r] = "ok" /\ upserted'[r] = upserted[r] \cup {c} /\ refused' = refused
      \/ replied[r] # "ok" /\ upserted'[r] = upserted[r] /\ r \in refused'
    BY DEF Upserted, Shaped
<1>3. c \in AllConfigs /\ (replied[r] = "ok" => c \in storedConfigs) /\ file[r] \in Nat /\ doing[r] = "none"
    BY <1>1, FileOfRun DEF RunInv, RunTyped, RunKnows, RunTells
<1>4. changes[r] \subseteq Listed(r) \cup (IF replied[r] = "ok" THEN {c} ELSE {})
    BY <1>1 DEF RunInv, RunTells
<1>5. r \notin refused => \A i \in 1 .. (file[r] - 1) : i \in DOMAIN Files[r] => Files[r][i] \in upserted[r]
    BY <1>1 DEF RunInv, RunKnows
<1>6. r \notin refused' => \A i \in 1 .. (file'[r] - 1) : i \in DOMAIN Files[r] => Files[r][i] \in upserted'[r]
  <2>. SUFFICES ASSUME r \notin refused', NEW i \in 1 .. (file'[r] - 1), i \in DOMAIN Files[r]
                PROVE  Files[r][i] \in upserted'[r]
      OBVIOUS
  <2>1. i = file[r] \/ i \in 1 .. (file[r] - 1)
      BY <1>1, <1>3
  <2>2. CASE i = file[r]
      BY <1>2, <2>2
  <2>3. CASE i \in 1 .. (file[r] - 1)
    <3>. HIDE DEF c
    <3>. QED BY <1>2, <1>5, <2>3
  <2>. QED BY <2>1, <2>2, <2>3
<1>. HIDE DEF c
<1>7. RunTyped(r)'
    BY <1>1, <1>2, <1>3 DEF RunInv, RunTyped, RunOver, Sending, Unplanned, Copying, Moving, Staging
<1>8. RunHolds(r)'
    BY <1>1 DEF RunInv, RunHolds, Sending, Unplanned, Copying
<1>9. RunTells(r)'
    BY <1>1, <1>2, <1>4 DEF RunTells, Listed, Unplanned, Copying, Moving
<1>10. RunKnows(r)'
  <2>1. Prepare(r, plan[r], PendingConfigs(r))
    BY <1>1 DEF RunInv, RunKnows, Sending
  <2>2. PendingConfigs(r)' = PendingConfigs(r) /\ Prepare(r, plan[r], PendingConfigs(r))'
    BY <1>1, <2>1, PreparesStill DEF PendingConfigs
  <2>. QED BY <1>1, <1>2, <1>3, <1>6, <2>2 DEF RunInv, RunKnows
<1>. QED BY <1>7, <1>8, <1>9, <1>10 DEF RunInv

\* Once all configs are sent, and none was refused, all are stored.
LEMMA UpsertsOverInv ==
    ASSUME Shaped, NEW r \in ApplyRuns, RunInv(r), UpsertsOver(r), r \notin refused
    PROVE  RunInv(r)'
<1>1. Walks(r, "apply") /\ step[r] = "upsert" /\ file[r] > Len(Files[r]) /\ storedConfigs' = storedConfigs
    BY DEF UpsertsOver, Shaped, Walks, SameRest, RunAt, requestRest, treeVars
<1>2. PendingConfigs(r) \subseteq storedConfigs
  <2>. SUFFICES ASSUME NEW i \in DOMAIN Files[r]
                PROVE  Files[r][i] \in storedConfigs
      BY DEF PendingConfigs
  <2>1. DOMAIN Files[r] = 1 .. Len(Files[r]) /\ Len(Files[r]) \in Nat
      BY WorkflowApplyAssumption
  <2>2. i \in 1 .. (file[r] - 1)
      BY <1>1, <2>1 DEF RunInv, RunTyped
  <2>3. Files[r][i] \in upserted[r]
      BY <1>1, <2>2 DEF RunInv, RunKnows
  <2>. QED BY <2>3 DEF RunInv, RunKnows
<1>. QED BY <1>1, <1>2, WalkInv

\* The server, for a run that waits, or for one that is over.
LEMMA ServedInv ==
    ASSUME Shaped, NEW r \in ApplyRuns, RunInv(r), Served(r)
    PROVE  RunInv(r)'
<1>1. /\ step' = step /\ report' = report /\ file' = file /\ plan' = plan /\ staged' = staged
      /\ upserted' = upserted /\ refused' = refused /\ oldOf' = oldOf
    BY DEF Served, UpsertConfig, ApplyWorkflow, StopsExperiment, ChangesExperiment, StartsExperiment, ServerRefuses,
           serverRest
<1>2. doing[r] # "none"
    BY DEF Served, UpsertConfig, ApplyWorkflow, StopsExperiment, ChangesExperiment, StartsExperiment, ServerRefuses
<1>3. \/ step[r] = "upserting" /\ doing[r] = "upsert"
      \/ step[r] = "applying" /\ doing[r] # "upsert"
      \/ step[r] = "killed"
      \/ step[r] = "ended" /\ report[r].perhaps /\ report[r].says = "failed"
    BY <1>2 DEF RunInv, RunTyped, RunTells, RunOver
<1>4. Listed(r)' = Listed(r) /\ PendingConfigs(r)' = PendingConfigs(r)
    BY <1>1 DEF Listed, PendingConfigs
<1>5. CASE UpsertConfig(r)
  <2>. DEFINE c == Files[r][file[r]]
  <2>1. /\ doing[r] = "upsert" /\ doing'[r] = "none" /\ replied'[r] = "ok"
        /\ storedConfigs' = storedConfigs \cup {c} /\ changes'[r] = changes[r] \cup {c}
    BY <1>5 DEF UpsertConfig, Shaped, Replies, Changes
  <2>2. step[r] = "upserting" => replied[r] = "none"
    BY <1>2 DEF RunInv, RunTells, RunTyped
  <2>3. RunTyped(r)'
    BY <1>1, <2>1 DEF RunInv, RunTyped, RunOver, ServerSteps
  <2>4. RunHolds(r)'
    BY <1>1 DEF RunInv, RunHolds
  <2>5. RunTells(r)'
    BY <1>1, <1>3, <1>4, <2>1, <2>2 DEF RunInv, RunTells, Unplanned, Copying, Moving
  <2>6. RunKnows(r)'
    <3>1. Prepare(r, plan[r], PendingConfigs(r)) => Prepare(r, plan[r], PendingConfigs(r))'
      BY <1>1, <2>1, PreparesStill DEF PendingConfigs
    <3>. HIDE DEF c
    <3>2. step'[r] = "upserting" /\ replied'[r] = "ok" => Files[r][file'[r]] \in storedConfigs'
      BY <1>1, <2>1 DEF c
    <3>. QED BY <1>1, <1>4, <2>1, <3>1, <3>2 DEF RunInv, RunKnows
  <2>. QED BY <2>3, <2>4, <2>5, <2>6 DEF RunInv
<1>6. CASE ~UpsertConfig(r)
  <2>1. /\ storedConfigs' = storedConfigs /\ doing'[r] \in {"none", "stop", "change", "start"}
        /\ changes'[r] \in {changes[r], changes[r] \cup {"stopped"}, changes[r] \cup {"experiment"}}
        /\ \/ doing'[r] = "none" /\ replied'[r] \in {"ok", "refused"}
           \/ doing'[r] # "none" /\ replied'[r] = replied[r]
        /\ doing[r] = "upsert" => doing'[r] = "none" /\ replied'[r] = "refused" /\ changes'[r] = changes[r]
    BY <1>6 DEF Served, ApplyWorkflow, StopsExperiment, ChangesExperiment, StartsExperiment, ServerRefuses,
                Shaped, Replies, Proceeds, Changes
  <2>2. step[r] \in {"upserting", "applying"} => replied[r] = "none"
    BY <1>2 DEF RunInv, RunTells, RunTyped
  <2>3. RunTyped(r)'
    BY <1>1, <1>2, <2>1 DEF RunInv, RunTyped, RunOver, ServerSteps
  <2>4. RunHolds(r)'
    BY <1>1 DEF RunInv, RunHolds
  <2>5. RunTells(r)'
    BY <1>1, <1>3, <1>4, <2>1, <2>2 DEF RunInv, RunTells, Unplanned, Copying, Moving
  <2>6. RunKnows(r)'
    <3>1. Prepare(r, plan[r], PendingConfigs(r)) => Prepare(r, plan[r], PendingConfigs(r))'
      BY <1>1, <2>1, PreparesStill DEF PendingConfigs
    <3>2. ~(step'[r] = "upserting" /\ replied'[r] = "ok") /\ doing'[r] # "apply"
      BY <1>1, <1>2, <1>3, <2>1, <2>2
    <3>. QED BY <1>1, <1>4, <2>1, <3>1, <3>2 DEF RunInv, RunKnows
  <2>. QED BY <2>3, <2>4, <2>5, <2>6 DEF RunInv
<1>. QED BY <1>5, <1>6

\* The run itself, whatever it does.
LEMMA OwnStepInv ==
    ASSUME Shaped, NEW r \in ApplyRuns, RunInv(r), Works(r) \/ Asks(r) \/ Served(r)
    PROVE  RunInv(r)'
<1>1. CASE Works(r)
    BY <1>1, WalksInv, EndsInv, PlansInv, TreesInv DEF Works
<1>2. CASE Asks(r)
  <2>1. CASE Interrupt(r)
    <3>1. Stays(r) /\ storedConfigs' = storedConfigs
      BY <2>1 DEF Interrupt, Stays, runVars, serverVars, treeVars
    <3>. QED BY <3>1, StaysInv
  <2>. QED BY <1>2, <2>1, WalksInv, EndsInv, SendsInv, UpsertedInv, UpsertsOverInv DEF Asks
<1>3. CASE Served(r)
    BY <1>3, ServedInv
<1>. QED BY <1>1, <1>2, <1>3

----------------------------------------------------------------------------
(* The previous tree. While there is none at the destination, a run that   *)
(* is between its two renames, was killed there, or named its .old sibling *)
(* when it returned, has it.                                               *)

\* What a step does to the destination and to the keeper.
LEMMA KeeperSteps ==
    ASSUME Shaped, NEW r \in ApplyRuns, RunInv(r), Works(r) \/ Asks(r) \/ Served(r), destination' = NoTree
    PROVE  Keeper(r) \/ destination # NoTree => Keeper(r)'
<1>. USE DEF Keeper
<1>1. CASE MoveAside(r)
  <2>1. oldOf'[r] = destination /\ step'[r] = "in" /\ oldOf[r] = NoTree
    BY <1>1 DEF MoveAside, Shaped, RunAt, RunInv, RunHolds, Copying
  <2>2. ~Keeper(r)
    BY <2>1
  <2>. QED BY <2>1, <2>2 DEF Moving
<1>2. CASE MoveIn(r)
  <2>1. destination # NoTree /\ destination' = destination
    BY <1>2, WorkflowApplyAssumption DEF MoveIn
  <2>. QED BY <2>1
<1>3. CASE PutBack(r)
  <2>1. oldOf'[r] = oldOf[r] /\ step'[r] = "clean" /\ step[r] = "back" /\ destination' = destination
    BY <1>3 DEF PutBack, Shaped, RunAt
  <2>. QED BY <2>1 DEF Moving
<1>4. CASE RemoveStaging(r)
  <2>1. destination' = destination /\ oldOf'[r] = oldOf[r]
    BY <1>4 DEF RemoveStaging
  <2>2. oldOf[r] # NoTree => "old" \in report'[r].names
    <3>. DEFINE kept == IF oldOf[r] = NoTree THEN {} ELSE {"old"}
    <3>1. PICK names \in {kept, kept \cup {"copy"}} : EndsAs(r, "failed", FALSE, names, "stage")
      BY <1>4 DEF RemoveStaging, Shaped, EndsAs, SameRest, Ends, RunAt, stageRest, serverVars
    <3>. QED BY <3>1 DEF EndsAs
  <2>. QED BY <2>1, <2>2
<1>5. CASE RemoveOld(r)
  <2>1. step[r] = "old" /\ destination' = destination
    BY <1>5 DEF RemoveOld
  <2>2. "old" \notin report[r].names
    BY <2>1 DEF RunInv, RunHolds
  <2>. QED BY <2>1, <2>2 DEF Moving
<1>6. CASE MoveInFails(r) \/ Kill(r)
  <2>1. /\ destination' = destination /\ oldOf' = oldOf /\ report' = report
        /\ step[r] \in Moving \cup {"killed"} => step'[r] \in Moving \cup {"killed"}
    BY <1>6 DEF MoveInFails, Kill, Shaped, RunAt, treeVars, Moving
  <2>. QED BY <2>1
<1>7. CASE Interrupt(r) \/ Served(r)
  <2>1. destination' = destination /\ oldOf' = oldOf /\ report' = report /\ step' = step
    BY <1>7 DEF Served, UpsertConfig, ApplyWorkflow, StopsExperiment, ChangesExperiment, StartsExperiment, ServerRefuses,
                serverRest, Interrupt, treeVars
  <2>. QED BY <2>1
<1>8. CASE \/ CheckServer(r) \/ Preflight(r) \/ DryRunConfigs(r) \/ DryRunWorkflow(r) \/ DryRunFails(r)
           \/ StageBegins(r) \/ CopyTree(r) \/ StagingFails(r)
  <2>1. step[r] \in Unplanned \cup Copying /\ destination' = destination
    BY <1>8 DEF CheckServer, Preflight, DryRunConfigs, DryRunWorkflow, DryRunFails, StageBegins, CopyTree, StagingFails,
                treeVars, Unplanned, Copying
  <2>2. oldOf[r] = NoTree
    BY <2>1 DEF RunInv, RunHolds
  <2>. QED BY <2>1, <2>2
<1>9. CASE \/ NotSent(r) \/ SendUpsert(r) \/ Upserted(r) \/ UpsertsOver(r)
           \/ SendApply(r) \/ Applied(r) \/ RequestInterrupted(r) \/ ConnectionLost(r)
  <2>1. step[r] \in Sending /\ destination' = destination
    BY <1>9 DEF NotSent, SendUpsert, Upserted, UpsertsOver, SendApply, Applied, RequestInterrupted, ConnectionLost,
                treeVars, Sending
  <2>2. step[r] \notin Moving \cup {"killed"} /\ "old" \notin report[r].names
    BY <2>1 DEF RunInv, RunHolds, Sending, Moving
  <2>. QED BY <2>1, <2>2
<1>. QED BY <1>1, <1>2, <1>3, <1>4, <1>5, <1>6, <1>7, <1>8, <1>9 DEF Works, Asks

LEMMA TreesStayHeld ==
    ASSUME Shaped, TreesHeld, NEW r \in ApplyRuns, RunInv(r), Alone(r), Works(r) \/ Asks(r) \/ Served(r)
    PROVE  TreesHeld'
<1>. SUFFICES ASSUME destination' = NoTree
              PROVE  \E q \in ApplyRuns : Keeper(q)'
    BY DEF TreesHeld
<1>1. CASE Keeper(r) \/ destination # NoTree
    BY <1>1, KeeperSteps
<1>2. CASE ~Keeper(r) /\ destination = NoTree
  <2>1. PICK q \in ApplyRuns : Keeper(q)
    BY <1>2 DEF TreesHeld
  <2>2. Stays(q)
    BY <1>2, <2>1 DEF Alone
  <2>. QED BY <2>1, <2>2 DEF Stays, Keeper
<1>. QED BY <1>1, <1>2

----------------------------------------------------------------------------
LEMMA InitApplyInv ==
    ASSUME WorkflowInit
    PROVE  ApplyInv
<1>1. Shaped
    BY DEF WorkflowInit, Shaped, Trees
<1>2. TreesHeld
    BY WorkflowApplyAssumption DEF WorkflowInit, TreesHeld
<1>3. ASSUME NEW r \in ApplyRuns PROVE RunInv(r)
  <2>1. /\ step[r] = "check" /\ file[r] = 1 /\ plan[r] = "none" /\ upserted[r] = {} /\ report[r] = NoReport
        /\ replied[r] = "none" /\ doing[r] = "none" /\ oldOf[r] = NoTree /\ changes[r] = {}
    BY DEF WorkflowInit
  <2>2. NoReport \in Reports /\ NoReport.says = "none" /\ NoReport.names = {}
    BY DEF NoReport, Reports
  <2>3. RunTyped(r)
    BY <2>1, <2>2 DEF RunTyped, RunOver, Unplanned, PlanActions, Trees, ServerSteps
  <2>4. RunHolds(r)
    BY <2>1, <2>2 DEF RunHolds, Sending
  <2>5. RunTells(r)
    BY <2>1 DEF RunTells
  <2>6. RunKnows(r)
    BY <2>1 DEF RunKnows, Staging, Sending, Copying, Moving
  <2>. QED BY <2>3, <2>4, <2>5, <2>6 DEF RunInv
<1>. QED BY <1>1, <1>2, <1>3 DEF ApplyInv

LEMMA NextApplyInv ==
    ASSUME ApplyInv, [WorkflowNext]_applyVars
    PROVE  ApplyInv'
<1>1. CASE OthersUse \/ UNCHANGED applyVars
  <2>1. /\ step' = step /\ file' = file /\ plan' = plan /\ staged' = staged /\ upserted' = upserted
        /\ refused' = refused /\ report' = report /\ replied' = replied /\ doing' = doing
        /\ destination' = destination /\ oldOf' = oldOf /\ storedConfigs' = storedConfigs /\ changes' = changes
        /\ mapped' = mapped \/ mapped' \in {"running", "stopped"}
    BY <1>1 DEF OthersUse, applyVars
  <2>2. Shaped'
    BY <2>1 DEF ApplyInv, Shaped
  <2>3. TreesHeld'
    BY <2>1 DEF ApplyInv, TreesHeld, Keeper
  <2>4. ASSUME NEW q \in ApplyRuns PROVE RunInv(q)'
    <3>1. Stays(q)
      BY <2>1 DEF Stays
    <3>. QED BY <2>1, <3>1, StaysInv DEF ApplyInv
  <2>. QED BY <2>2, <2>3, <2>4 DEF ApplyInv
<1>2. ASSUME NEW r \in ApplyRuns, Works(r) \/ Asks(r) \/ Served(r)
      PROVE  ApplyInv'
  <2>1. Shaped /\ TreesHeld /\ RunInv(r) /\ RunTyped(r)
    BY DEF ApplyInv, RunInv
  <2>2. Alone(r)
    BY <1>2, <2>1, WorksAlone, AsksAlone, ServedAlone
  <2>3. RunInv(r)'
    BY <1>2, <2>1, OwnStepInv
  <2>4. TreesHeld'
    BY <1>2, <2>1, <2>2, TreesStayHeld
  <2>5. ASSUME NEW q \in ApplyRuns, q # r PROVE RunInv(q)'
    <3>1. Stays(q) /\ storedConfigs \subseteq storedConfigs' /\ RunInv(q)
      BY <2>2, <2>5 DEF Alone, ApplyInv
    <3>. QED BY <3>1, StaysInv
  <2>6. Shaped'
    BY <2>2 DEF Alone
  <2>. QED BY <2>3, <2>4, <2>5, <2>6 DEF ApplyInv
<1>3. OthersUse \/ UNCHANGED applyVars \/ \E r \in ApplyRuns : Works(r) \/ Asks(r) \/ Served(r)
    BY DEF WorkflowNext, Works, Asks, Served
<1>. QED BY <1>1, <1>2, <1>3

\* Types: a run has an end to report exactly when it has returned, and the
\* server is at a request only of a run that waits for it or is over.
THEOREM WorkflowTypes == WorkflowSpec => []WorkflowTypeOK
<1>1. WorkflowInit => ApplyInv
    BY InitApplyInv
<1>2. ApplyInv /\ [WorkflowNext]_applyVars => ApplyInv'
    BY NextApplyInv
<1>3. ApplyInv => WorkflowTypeOK
  <2>. SUFFICES ASSUME ApplyInv PROVE WorkflowTypeOK
    OBVIOUS
  <2>1. Shaped /\ \A r \in ApplyRuns : RunTyped(r)
    BY DEF ApplyInv, RunInv
  <2>. QED BY <2>1 DEF Shaped, RunTyped, WorkflowTypeOK, Unplanned, Copying, Moving, Staging, Sending, ServerSteps
<1>. QED BY <1>1, <1>2, <1>3, PTL DEF WorkflowSpec

\* Injects are kept, reports are true and the dry run tells, for any runs:
\* StageInjectsWithOptions, changedError and DryRunWorkflow.
THEOREM AppliesAreTold == WorkflowSpec => []AppliesTold
<1>1. WorkflowInit => ApplyInv
    BY InitApplyInv
<1>2. ApplyInv /\ [WorkflowNext]_applyVars => ApplyInv'
    BY NextApplyInv
<1>3. ApplyInv => AppliesTold
  <2>. SUFFICES ASSUME ApplyInv PROVE AppliesTold
    OBVIOUS
  <2>1. TreesHeld /\ \A r \in ApplyRuns : RunInv(r)
    BY DEF ApplyInv
  <2>2. StagedTreeKept
    BY <2>1 DEF TreesHeld, Keeper, RunInv, RunHolds, StagedTreeKept, Moving
  <2>3. ReportsTrue
    BY <2>1 DEF RunInv, RunTells, ReportsTrue, Listed
  <2>4. DryRunPredicts
    <3>. SUFFICES ASSUME NEW r \in ApplyRuns, doing[r] = "apply", plan[r] = NewPlan(r)
                  PROVE  Prepare(r, plan[r], {})
      BY DEF DryRunPredicts, CheckExpected
    <3>1. Prepare(r, plan[r], PendingConfigs(r)) /\ PendingConfigs(r) \subseteq storedConfigs
      BY <2>1 DEF RunInv, RunKnows
    <3>. QED BY <3>1 DEF Prepare, ResolveTopology, ResolveScenario, CheckPendingIncludes, CheckPendingScenario,
                         ReadConfig
  <2>. QED BY <2>2, <2>3, <2>4 DEF AppliesTold
<1>. QED BY <1>1, <1>2, <1>3, PTL DEF WorkflowSpec

----------------------------------------------------------------------------
(* Configs. What the store and the requests keep.                          *)

Named == Configs \cup {"builder"}
ConfRecords == [born : Nat, named : Configs \cup {"none"}, dir : Configs \cup {"none"}, bridge : Bridges, running : BOOLEAN]
\* An experiment's record bears the name of its config, and its directory too.
Own(k, rec) == rec \in ConfRecords /\ (k \in ExpConfigs => rec.named = k /\ rec.dir = k)

\* What the startup hooks are given.
Rows == {row \in [key : Configs, rec : ConfRecords] : Own(row.key, row.rec)}
Updating == {"put", "make", "drop", "undo"}
CreqSteps == {"rest", "next", "create", "topology", "edit", "again", "delete", "ready", "default", "hooks"} \cup Updating
CreqOps == {"none", "create", "update", "reconfigure", "delete", "init"}

ConfRequestTypes ==
    [at : CreqSteps, key : Configs \cup {"none"}, to : Configs \cup {"none"}, rec : ConfRecords \cup {NoConf},
     born : Nat, todo : Seq(Named) \cup Seq(Rows), op : CreqOps]

LEMMA RecordFields ==
    /\ NoConf.born = 0
    /\ \A rec \in ConfRecords :
        rec.born \in Nat /\ rec.named \in Configs \cup {"none"} /\ rec.dir \in Configs \cup {"none"} /\ rec.bridge \in Bridges /\ rec.running \in BOOLEAN
BY DEF ConfRecords, NoConf

\* What an edit of a record keeps.
LEMMA BornEdits ==
    ASSUME NEW k, NEW rec, Own(k, rec), NEW b \in Nat, NEW t, t = [rec EXCEPT !.born = b]
    PROVE  Own(k, t) /\ t.born = b
<1>1. rec \in ConfRecords /\ (k \in ExpConfigs => rec.named = k /\ rec.dir = k)
    BY DEF Own
<1>2. t \in ConfRecords /\ t.born = b /\ t.named = rec.named /\ t.dir = rec.dir
    BY <1>1 DEF ConfRecords
<1>. QED BY <1>1, <1>2 DEF Own

LEMMA RunningEdits ==
    ASSUME NEW k, NEW rec, Own(k, rec), NEW t, t = [rec EXCEPT !.running = ~@]
    PROVE  Own(k, t) /\ t.born = rec.born
<1>1. rec \in ConfRecords /\ (k \in ExpConfigs => rec.named = k /\ rec.dir = k)
    BY DEF Own
<1>2. t \in ConfRecords /\ t.born = rec.born /\ t.named = rec.named /\ t.dir = rec.dir
  <2>1. CASE rec.running
    BY <1>1, <2>1 DEF ConfRecords
  <2>2. CASE ~rec.running
    BY <1>1, <2>2 DEF ConfRecords
  <2>. QED BY <2>1, <2>2
<1>. QED BY <1>1, <1>2 DEF Own

LEMMA HookCreateOwns ==
    ASSUME NEW k \in Configs, NEW b \in Bridges,
           NEW rec, rec = [born |-> 0, named |-> "none", dir |-> "none", bridge |-> b, running |-> FALSE]
    PROVE  Own(k, HookCreate(k, rec))
<1>1. rec \in ConfRecords
    BY DEF ConfRecords
<1>2. CASE k \in ExpConfigs
  <2>1. PICK t : t = [rec EXCEPT !.named = k, !.dir = k]
    OBVIOUS
  <2>2. t \in ConfRecords /\ t.named = k /\ t.dir = k
    BY <1>1, <2>1 DEF ConfRecords
  <2>. QED BY <1>2, <2>1, <2>2 DEF HookCreate, Own
<1>3. CASE k \notin ExpConfigs
    BY <1>1, <1>3 DEF HookCreate, Own
<1>. QED BY <1>2, <1>3

\* The reset of the name and the update hook.
LEMMA HookUpdateOwns ==
    ASSUME NEW k \in Configs, NEW to \in Configs, k \in ExpConfigs <=> to \in ExpConfigs, NEW rec, Own(k, rec),
           NEW s, s = IF k \in ExpConfigs THEN [rec EXCEPT !.named = k] ELSE rec
    PROVE  Own(to, HookUpdate(to, s))
<1>1. rec \in ConfRecords /\ (k \in ExpConfigs => rec.named = k /\ rec.dir = k)
    BY DEF Own
<1>2. CASE k \notin ExpConfigs
    BY <1>1, <1>2 DEF HookUpdate, Own
<1>3. CASE k \in ExpConfigs
  <2>1. s \in ConfRecords /\ s.named = k /\ s.dir = k
    BY <1>1, <1>3 DEF ConfRecords
  <2>2. CASE k = to
    BY <1>3, <2>1, <2>2 DEF HookUpdate, Own
  <2>3. CASE k # to
    <3>1. PICK t : t = [s EXCEPT !.named = to, !.dir = IF s.dir = s.named THEN to ELSE @]
      OBVIOUS
    <3>2. t \in ConfRecords /\ t.named = to /\ t.dir = to
      BY <2>1, <3>1 DEF ConfRecords
    <3>. QED BY <1>3, <2>1, <2>3, <3>1, <3>2 DEF HookUpdate, Own
  <2>. QED BY <2>2, <2>3
<1>. QED BY <1>2, <1>3

----------------------------------------------------------------------------
(* What a request keeps from one step to the next.                         *)

LEMMA RequestFields ==
    /\ \A q \in ConfRequestTypes :
        /\ q.at \in CreqSteps /\ q.key \in Configs \cup {"none"} /\ q.to \in Configs \cup {"none"} /\ q.rec \in ConfRecords \cup {NoConf}
        /\ q.born \in Nat /\ q.todo \in Seq(Named) \cup Seq(Rows) /\ q.op \in CreqOps
    /\ AtRest \in ConfRequestTypes /\ AtRest.at = "rest" /\ AtRest.todo = << >>
<1>1. << >> \in Seq(Named) \cup Seq(Rows)
    OBVIOUS
<1>. QED BY <1>1 DEF ConfRequestTypes, AtRest, CreqSteps, CreqOps

\* What is left of a list of names.
LEMMA Remaining ==
    ASSUME NEW S, NEW s \in Seq(S), s # << >>
    PROVE  Head(s) \in S /\ Tail(s) \in Seq(S) /\ (Tail(s) = << >> => Len(s) = 1)
<1>1. Len(s) \in Nat /\ Len(s) # 0
    OBVIOUS
<1>2. Head(s) = s[1] /\ s[1] \in S
    BY <1>1
<1>3. Tail(s) \in Seq(S) /\ Len(Tail(s)) = Len(s) - 1
    BY <1>1
<1>4. Len(<< >>) = 0
    OBVIOUS
<1>. QED BY <1>1, <1>2, <1>3, <1>4

----------------------------------------------------------------------------
(* Types. What each request is at tells what it works on.                  *)

RequestFits(q, n) ==
    /\ q.at = "next" =>
        /\ q.todo # << >>
        /\ \/ q.op = "create" /\ q.todo \in Seq(Named)
           \/ q.op = "delete" /\ q.todo \in Seq(Configs)
           \/ q.op = "init" /\ q.todo \in Seq(DefaultConfigs)
    /\ q.at = "create" => q.key \in Configs /\ Own(q.key, q.rec) /\ q.todo \in Seq(Named) /\ q.op = "create"
    /\ q.at = "topology" => q.op = "create" /\ q.todo # << >> /\ q.todo \in Seq(Named)
    /\ q.at = "edit" =>
        q.key \in Configs /\ q.to \in Configs /\ (q.key \in ExpConfigs <=> q.to \in ExpConfigs) /\ Own(q.key, q.rec) /\ q.todo = << >>
    /\ q.at \in Updating => q.key \in Configs /\ q.to \in Configs /\ Own(q.to, q.rec) /\ q.born \in 1 .. n /\ q.todo = << >>
    /\ q.at = "again" => q.to \in Configs /\ q.todo = << >>
    /\ q.at = "delete" => q.key \in Configs /\ q.todo \in Seq(Configs) /\ q.op = "delete"
    /\ q.at = "default" => q.todo # << >> /\ q.todo \in Seq(DefaultConfigs) /\ q.op = "init"
    /\ q.at = "hooks" => q.todo \in Seq(Rows)

StoredTypes ==
    /\ births \in Nat /\ dead \subseteq 1 .. births /\ excused \in BOOLEAN
    /\ stored \in [Configs -> ConfRecords \cup {NoConf}]
    /\ \A k \in Configs : stored[k] = NoConf \/ (Own(k, stored[k]) /\ stored[k].born \in 1 .. births)

CreqTypes == creq \in [ConfigRequests -> ConfRequestTypes] /\ \A r \in ConfigRequests : RequestFits(creq[r], births)

ConfigTypes == StoredTypes /\ CreqTypes

\* A config is there when its record was born.
LEMMA ThereWhenBorn ==
    ASSUME StoredTypes, NEW k \in Configs
    PROVE  /\ Exists(k) <=> stored[k].born # 0
           /\ stored[k].born \in 0 .. births
           /\ Exists(k) => Own(k, stored[k]) /\ stored[k] \in ConfRecords /\ stored[k].born \in 1 .. births
BY RecordFields DEF StoredTypes, Exists, Own

LEMMA StepTypes ==
    ASSUME ConfigTypes, NEW r \in ConfigRequests, NEW q \in ConfRequestTypes,
           creq' = [creq EXCEPT ![r] = q], births' \in Nat, births <= births', RequestFits(q, births')
    PROVE  CreqTypes'
<1>1. creq' \in [ConfigRequests -> ConfRequestTypes]
    BY DEF ConfigTypes, CreqTypes
<1>2. ASSUME NEW x \in ConfigRequests
      PROVE  RequestFits(creq'[x], births')
  <2>1. CASE x = r
    BY <2>1 DEF ConfigTypes, CreqTypes
  <2>2. CASE x # r
    <3>1. creq'[x] = creq[x] /\ RequestFits(creq[x], births) /\ births \in Nat
      BY <2>2 DEF ConfigTypes, CreqTypes, StoredTypes
    <3>. QED BY <3>1 DEF RequestFits
  <2>. QED BY <2>1, <2>2
<1>. QED BY <1>1, <1>2 DEF CreqTypes

LEMMA StoreTypes ==
    ASSUME StoredTypes, NEW k \in Configs, NEW c, stored' = [stored EXCEPT ![k] = c],
           births' \in Nat, births <= births', c = NoConf \/ (Own(k, c) /\ c.born \in 1 .. births'),
           dead' \subseteq 1 .. births', excused' \in BOOLEAN
    PROVE  StoredTypes'
<1>1. c \in ConfRecords \cup {NoConf}
    BY DEF Own
<1>2. stored' \in [Configs -> ConfRecords \cup {NoConf}]
    BY <1>1 DEF StoredTypes
<1>3. ASSUME NEW j \in Configs
      PROVE  stored'[j] = NoConf \/ (Own(j, stored'[j]) /\ stored'[j].born \in 1 .. births')
    BY DEF StoredTypes
<1>. QED BY <1>2, <1>3 DEF StoredTypes

\* The requests after a step of one of them.
Becomes(r, q) == q \in ConfRequestTypes /\ creq' = [creq EXCEPT ![r] = q]

LEMMA FailsTo ==
    ASSUME NEW r \in ConfigRequests, Fail(r)
    PROVE  \E q : Becomes(r, q) /\ q.at = "rest" /\ \A n : RequestFits(q, n)
BY RequestFields DEF Fail, Enter, Becomes, RequestFits, Updating

LEMMA FinishesTo ==
    ASSUME NEW r \in ConfigRequests, CreqTypes, Finish2(r),
           creq[r].todo # << >> => \/ creq[r].op = "create" /\ creq[r].todo \in Seq(Named)
                                   \/ creq[r].op = "delete" /\ creq[r].todo \in Seq(Configs)
    PROVE  \E q : Becomes(r, q) /\ q.at \in {"rest", "next"} /\ \A n : RequestFits(q, n)
<1>1. CASE creq[r].todo = << >>
    BY <1>1, RequestFields DEF Finish2, Enter, Becomes, RequestFits, Updating
<1>2. CASE creq[r].todo # << >>
  <2>1. PICK q : q = [AtRest EXCEPT !.at = "next", !.op = creq[r].op, !.todo = creq[r].todo]
    OBVIOUS
  <2>2. creq[r].todo \in Seq(Named) /\ creq[r].op \in CreqOps /\ "next" \in CreqSteps
    <3>1. Seq(Configs) \subseteq Seq(Named)
      BY DEF Named
    <3>. QED BY <1>2, <3>1 DEF CreqOps, CreqSteps
  <2>3. q \in ConfRequestTypes /\ q.at = "next" /\ q.op = creq[r].op /\ q.todo = creq[r].todo
    BY <2>1, <2>2, RequestFields DEF ConfRequestTypes
  <2>4. \A n : RequestFits(q, n)
    BY <1>2, <2>3 DEF RequestFits, Updating
  <2>5. creq' = [creq EXCEPT ![r] = q]
    BY <1>2, <2>1 DEF Finish2, Enter
  <2>. QED BY <2>3, <2>4, <2>5 DEF Becomes
<1>. QED BY <1>1, <1>2

\* A request that only walks on keeps all it has.
LEMMA StepsTo ==
    ASSUME NEW r \in ConfigRequests, CreqTypes, NEW a \in CreqSteps, Step(r, a)
    PROVE  \E q : /\ Becomes(r, q) /\ q.at = a /\ q.key = creq[r].key /\ q.to = creq[r].to /\ q.rec = creq[r].rec
                  /\ q.born = creq[r].born /\ q.todo = creq[r].todo /\ q.op = creq[r].op
<1>1. PICK q : q = [creq[r] EXCEPT !.at = a]
    OBVIOUS
<1>2. creq[r] \in ConfRequestTypes
    BY DEF CreqTypes
<1>3. creq' = [creq EXCEPT ![r] = q]
    BY <1>1 DEF Step, Enter
<1>4. /\ q \in ConfRequestTypes /\ q.at = a /\ q.key = creq[r].key /\ q.to = creq[r].to /\ q.rec = creq[r].rec
      /\ q.born = creq[r].born /\ q.todo = creq[r].todo /\ q.op = creq[r].op
    BY <1>1, <1>2 DEF ConfRequestTypes
<1>. QED BY <1>3, <1>4 DEF Becomes

LEMMA StoreKept ==
    ASSUME StoredTypes, UNCHANGED <<stored, births, dead>>, excused' \in BOOLEAN
    PROVE  StoredTypes'
BY DEF StoredTypes

LEMMA StepEnds ==
    ASSUME ConfigTypes, NEW r \in ConfigRequests, NEW q, Becomes(r, q), births <= births', RequestFits(q, births'), StoredTypes'
    PROVE  ConfigTypes'
<1>1. births' \in Nat
    BY DEF StoredTypes
<1>. QED BY <1>1, StepTypes DEF Becomes, ConfigTypes

\* A step that leaves the store and what is excused.
LEMMA QuietTypes ==
    ASSUME ConfigTypes, NEW r \in ConfigRequests, NEW q, Becomes(r, q), UNCHANGED <<stored, births, dead>>, excused' \in BOOLEAN,
           RequestFits(q, births)
    PROVE  ConfigTypes'
<1>1. StoredTypes' /\ births <= births' /\ births' = births
    BY StoreKept DEF ConfigTypes, StoredTypes
<1>. QED BY <1>1, StepEnds

LEMMA OrdersAreLists ==
    ASSUME NEW S, IsFiniteSet(S), NEW o \in Orders(S)
    PROVE  o \in Seq(S) /\ (S # {} => o # << >>)
<1>1. Cardinality(S) \in Nat /\ (S # {} => Cardinality(S) # 0)
    BY FS_CardinalityType, FS_EmptySet
<1>2. PICK n \in Nat : n = Cardinality(S)
    BY <1>1
<1>3. o \in [1 .. n -> S]
    BY <1>2 DEF Orders
<1>4. o \in Seq(S) /\ Len(o) = n
    BY <1>3
<1>. QED BY <1>1, <1>2, <1>4

LEMMA BeginsTo ==
    ASSUME NEW r \in ConfigRequests, NEW o \in CreqOps, NEW a \in {"next", "topology"}, NEW s \in Seq(Named), s # << >>,
           Enter(r, [AtRest EXCEPT !.at = a, !.op = o, !.todo = s]),
           o = "create" \/ (a = "next" /\ ((o = "delete" /\ s \in Seq(Configs)) \/ (o = "init" /\ s \in Seq(DefaultConfigs))))
    PROVE  \E q : Becomes(r, q) /\ q.at = a /\ \A n : RequestFits(q, n)
<1>1. PICK q : q = [AtRest EXCEPT !.at = a, !.op = o, !.todo = s]
    OBVIOUS
<1>2. a \in CreqSteps
    BY DEF CreqSteps
<1>3. q \in ConfRequestTypes /\ q.at = a /\ q.op = o /\ q.todo = s
    BY <1>1, <1>2, RequestFields DEF ConfRequestTypes
<1>4. creq' = [creq EXCEPT ![r] = q]
    BY <1>1 DEF Enter
<1>5. \A n : RequestFits(q, n)
    BY <1>3 DEF RequestFits, Updating
<1>. QED BY <1>3, <1>4, <1>5 DEF Becomes

LEMMA ReadsTo ==
    ASSUME ConfigTypes, NEW r \in ConfigRequests, NEW k \in Configs, NEW to \in Configs, GetConfig(r, k, to)
    PROVE  \E q : Becomes(r, q) /\ q.at = "edit" /\ \A n : RequestFits(q, n)
<1>1. PICK q : q = [AtRest EXCEPT !.at = "edit", !.op = "update", !.key = k, !.to = to, !.rec = stored[k]]
    OBVIOUS
<1>2. Own(k, stored[k]) /\ stored[k] \in ConfRecords
    BY ThereWhenBorn DEF ConfigTypes, GetConfig
<1>3. q \in ConfRequestTypes /\ q.at = "edit" /\ q.key = k /\ q.to = to /\ q.rec = stored[k] /\ q.todo = << >>
    BY <1>1, <1>2, RequestFields DEF ConfRequestTypes, CreqSteps, CreqOps
<1>4. creq' = [creq EXCEPT ![r] = q] /\ (k \in ExpConfigs <=> to \in ExpConfigs)
    BY <1>1 DEF Enter, GetConfig
<1>5. \A n : RequestFits(q, n)
    BY <1>2, <1>3, <1>4 DEF RequestFits, Updating
<1>. QED BY <1>3, <1>4, <1>5 DEF Becomes

\* The commands: what a request begins with.
LEMMA CommandsTo ==
    ASSUME ConfigTypes, NEW r \in ConfigRequests, ConfigCommand(r)
    PROVE  /\ creq[r].at = "rest" /\ UNCHANGED <<stored, births, dead, excused>>
           /\ \E q : Becomes(r, q) /\ q.at \in {"next", "topology", "edit"} /\ \A n : RequestFits(q, n)
<1>. USE ConfigsAssumption
<1>0. Seq(Configs) \subseteq Seq(Named) /\ DefaultConfigs \subseteq Configs /\ ExpConfigs \subseteq Configs /\ OtherConfigs \subseteq Configs
    BY DEF Named, Configs
<1>1. ASSUME NEW s \in Seq(Named), s # << >>, CreateConfig(r, s)
      PROVE  /\ creq[r].at = "rest" /\ UNCHANGED <<stored, births, dead, excused>>
             /\ \E q : Becomes(r, q) /\ q.at \in {"next", "topology", "edit"} /\ \A n : RequestFits(q, n)
    BY <1>1, BeginsTo DEF CreateConfig, CreqOps
<1>2. ASSUME NEW s \in Seq(Configs), s # << >>, DeleteConfig(r, s)
      PROVE  /\ creq[r].at = "rest" /\ UNCHANGED <<stored, births, dead, excused>>
             /\ \E q : Becomes(r, q) /\ q.at \in {"next", "topology", "edit"} /\ \A n : RequestFits(q, n)
  <2>1. s \in Seq(Named) /\ "delete" \in CreqOps
    BY <1>0 DEF CreqOps
  <2>. QED BY <1>2, <2>1, BeginsTo DEF DeleteConfig
<1>3. ASSUME NEW k \in Configs, CreateConfig(r, <<k>>) \/ CreateConfig(r, <<"builder", k>>)
      PROVE  \E s \in Seq(Named) : s # << >> /\ CreateConfig(r, s)
  <2>1. <<k>> \in Seq(Named) /\ <<k>> # << >> /\ <<"builder", k>> \in Seq(Named) /\ <<"builder", k>> # << >>
    BY DEF Named
  <2>. QED BY <1>3, <2>1
<1>4. ASSUME NEW k \in ExpConfigs, CreateExperiment(r, k)
      PROVE  /\ creq[r].at = "rest" /\ UNCHANGED <<stored, births, dead, excused>>
             /\ \E q : Becomes(r, q) /\ q.at \in {"next", "topology", "edit"} /\ \A n : RequestFits(q, n)
  <2>1. <<k>> \in Seq(Named) /\ <<k>> # << >>
    BY DEF Named, Configs
  <2>. QED BY <1>4, <2>1, BeginsTo DEF CreateExperiment, CreqOps
<1>5. ASSUME NEW t \in OtherConfigs, NEW k \in ExpConfigs, ExperimentCreateCmd(r, t, k)
      PROVE  /\ creq[r].at = "rest" /\ UNCHANGED <<stored, births, dead, excused>>
             /\ \E q : Becomes(r, q) /\ q.at \in {"next", "topology", "edit"} /\ \A n : RequestFits(q, n)
  <2>1. <<t, k>> \in Seq(Named) /\ <<t, k>> # << >>
    BY DEF Named, Configs
  <2>. QED BY <1>5, <2>1, BeginsTo DEF ExperimentCreateCmd, CreqOps
<1>6. ASSUME NEW k \in Configs, NEW to \in Configs, GetConfig(r, k, to)
      PROVE  /\ creq[r].at = "rest" /\ UNCHANGED <<stored, births, dead, excused>>
             /\ \E q : Becomes(r, q) /\ q.at \in {"next", "topology", "edit"} /\ \A n : RequestFits(q, n)
    BY <1>6, ReadsTo DEF GetConfig
<1>7. ASSUME NEW S, S \subseteq Configs, NEW ks \in Orders(S), ks # << >>, DeleteConfig(r, ks)
      PROVE  \E s \in Seq(Configs) : s # << >> /\ DeleteConfig(r, s)
  <2>1. IsFiniteSet(S)
    BY <1>7, FS_Subset
  <2>2. ks \in Seq(S)
    BY <1>7, <2>1, OrdersAreLists
  <2>3. ks \in Seq(Configs)
    BY <1>7, <2>2
  <2>. QED BY <1>7, <2>3
<1>8. ASSUME NEW o \in Orders(DefaultConfigs), InitConfigs(r, o)
      PROVE  /\ creq[r].at = "rest" /\ UNCHANGED <<stored, births, dead, excused>>
             /\ \E q : Becomes(r, q) /\ q.at \in {"next", "topology", "edit"} /\ \A n : RequestFits(q, n)
  <2>1. IsFiniteSet(DefaultConfigs)
    BY <1>0, FS_Subset
  <2>2. o \in Seq(DefaultConfigs) /\ o # << >>
    BY <1>8, <2>1, OrdersAreLists
  <2>3. o \in Seq(Named)
    BY <1>0, <2>2
  <2>. QED BY <1>8, <2>2, <2>3, BeginsTo DEF InitConfigs, CreqOps
<1>9. ASSUME NEW k \in Configs, DeleteConfig(r, <<k>>)
      PROVE  \E s \in Seq(Configs) : s # << >> /\ DeleteConfig(r, s)
  <2>1. <<k>> \in Seq(Configs) /\ <<k>> # << >>
    OBVIOUS
  <2>. QED BY <1>9, <2>1
<1>10. CASE \E ks \in Orders({k \in Configs : Exists(k)}) : ks # << >> /\ DeleteConfig(r, ks)
    BY <1>2, <1>7, <1>10
<1>11. CASE \E ks \in Orders({k \in ExpConfigs : Exists(k)}) : ks # << >> /\ ExperimentDeleteCmd(r, ks)
    BY <1>0, <1>2, <1>7, <1>11 DEF ExperimentDeleteCmd
<1>12. CASE \E k, to \in Configs : Exists(k) /\ (GetConfig(r, k, to) \/ \E f \in BOOLEAN : Edit(r, k, to, f))
    BY <1>6, <1>12 DEF Edit
<1>. QED BY <1>1, <1>2, <1>3, <1>4, <1>5, <1>8, <1>9, <1>10, <1>11, <1>12 DEF ConfigCommand

\* The steps of a request: what it is at next fits.
LEMMA QuietSteps ==
    ASSUME ConfigTypes, NEW r \in ConfigRequests,
           TopologyRead(r) \/ SkipBuilderFile(r) \/ (\E b \in Bridges : CreateHooked(r, b)) \/ ReconfigureGets(r)
           \/ DeleteGets(r) \/ WalkDefaults(r) \/ StartupLists(r) \/ InitializeComponent(r)
    PROVE  /\ creq[r].at \notin Updating /\ UNCHANGED <<stored, births, dead, excused>>
           /\ \E q : Becomes(r, q) /\ q.at \notin Updating /\ \A n : RequestFits(q, n)
<1>0. PICK q : q = creq[r]
    OBVIOUS
<1>1. q \in ConfRequestTypes /\ RequestFits(q, births) /\ StoredTypes /\ CreqTypes /\ creq[r] = q
    BY <1>0 DEF ConfigTypes, CreqTypes
<1>2. ASSUME NEW p \in ConfRequestTypes, creq' = [creq EXCEPT ![r] = p], p.at \notin Updating, \A n : RequestFits(p, n)
      PROVE  \E p2 : Becomes(r, p2) /\ p2.at \notin Updating /\ \A n : RequestFits(p2, n)
    BY <1>2 DEF Becomes
<1>3. ASSUME Fail(r)
      PROVE  \E p : Becomes(r, p) /\ p.at \notin Updating /\ \A n : RequestFits(p, n)
    BY <1>3, FailsTo DEF Updating
<1>4. \A s \in Seq(Configs) : s \in Seq(Named)
    BY DEF Named
<1>5. CASE TopologyRead(r)
  <2>1. q.at = "topology" /\ q.op = "create" /\ q.todo # << >> /\ q.todo \in Seq(Named)
    BY <1>1, <1>5 DEF TopologyRead, RequestFits
  <2>2. CASE Step(r, "next")
    <3>1. "next" \in CreqSteps
      BY DEF CreqSteps
    <3>2. PICK p : Becomes(r, p) /\ p.at = "next" /\ p.todo = q.todo /\ p.op = q.op
      BY <1>1, <2>2, <3>1, StepsTo
    <3>3. \A n : RequestFits(p, n)
      BY <2>1, <3>2 DEF RequestFits, Updating
    <3>. QED BY <1>5, <2>1, <3>2, <3>3 DEF TopologyRead, Updating, Becomes
  <2>. QED BY <1>1, <1>3, <1>5, <2>1, <2>2 DEF TopologyRead, Updating
<1>6. CASE SkipBuilderFile(r)
  <2>1. q.at = "next" /\ q.op = "create" /\ q.todo # << >> /\ q.todo \in Seq(Named)
    BY <1>1, <1>6 DEF SkipBuilderFile, RequestFits
  <2>2. CASE Len(q.todo) # 1 /\ Enter(r, [q EXCEPT !.todo = Tail(@)])
    <3>1. PICK p : p = [q EXCEPT !.todo = Tail(q.todo)]
      OBVIOUS
    <3>2. Tail(q.todo) \in Seq(Named) /\ Tail(q.todo) # << >>
      BY <2>1, <2>2, Remaining
    <3>3. p \in ConfRequestTypes /\ p.at = "next" /\ p.op = "create" /\ p.todo = Tail(q.todo)
      BY <1>1, <2>1, <3>1, <3>2 DEF ConfRequestTypes
    <3>4. \A n : RequestFits(p, n)
      BY <3>2, <3>3 DEF RequestFits, Updating
    <3>5. creq' = [creq EXCEPT ![r] = p]
      BY <2>2, <3>1 DEF Enter
    <3>. QED BY <1>1, <1>2, <1>6, <2>1, <3>3, <3>4, <3>5 DEF SkipBuilderFile, Updating
  <2>3. CASE Enter(r, AtRest)
    BY <1>1, <1>3, <1>6, <2>1, <2>3 DEF Fail, SkipBuilderFile, Updating
  <2>. QED BY <1>1, <1>3, <1>6, <2>1, <2>2, <2>3 DEF SkipBuilderFile, Updating
<1>7. ASSUME NEW b \in Bridges, CreateHooked(r, b)
      PROVE  /\ creq[r].at \notin Updating /\ UNCHANGED <<stored, births, dead, excused>>
             /\ \E p : Becomes(r, p) /\ p.at \notin Updating /\ \A n : RequestFits(p, n)
  <2>1. q.at = "next" /\ q.op = "create" /\ q.todo # << >> /\ q.todo \in Seq(Named) /\ Head(q.todo) # "builder"
    BY <1>1, <1>7 DEF CreateHooked, RequestFits
  <2>2. Head(q.todo) \in Configs /\ Tail(q.todo) \in Seq(Named)
    BY <2>1, Remaining DEF Named
  <2>3. PICK h : h = HookCreate(Head(q.todo), [born |-> 0, named |-> "none", dir |-> "none", bridge |-> b, running |-> FALSE])
    OBVIOUS
  <2>4. Own(Head(q.todo), h) /\ h \in ConfRecords
    BY <2>2, <2>3, HookCreateOwns DEF Own
  <2>5. PICK p : p = [q EXCEPT !.at = "create", !.key = Head(q.todo), !.todo = Tail(q.todo), !.rec = h]
    OBVIOUS
  <2>6. p \in ConfRequestTypes /\ p.at = "create" /\ p.op = "create" /\ p.key = Head(q.todo) /\ p.todo = Tail(q.todo) /\ p.rec = h
    BY <1>1, <2>1, <2>2, <2>4, <2>5 DEF ConfRequestTypes, CreqSteps
  <2>7. \A n : RequestFits(p, n)
    BY <2>2, <2>4, <2>6 DEF RequestFits, Updating
  <2>8. Fail(r) \/ creq' = [creq EXCEPT ![r] = p]
    BY <1>1, <1>7, <2>3, <2>5 DEF CreateHooked, Enter
  <2>. QED BY <1>1, <1>2, <1>3, <1>7, <2>1, <2>6, <2>7, <2>8 DEF CreateHooked, Updating
<1>8. CASE ReconfigureGets(r)
  <2>1. q.at = "again" /\ q.to \in Configs /\ q.todo = << >>
    BY <1>1, <1>8 DEF ReconfigureGets, RequestFits
  <2>2. CASE Exists(q.to) /\ ~Fail(r)
    <3>1. Own(q.to, stored[q.to]) /\ stored[q.to] \in ConfRecords
      BY <1>1, <2>1, <2>2, ThereWhenBorn
    <3>2. PICK p : p = [q EXCEPT !.op = "reconfigure", !.at = "edit", !.key = q.to, !.rec = stored[q.to]]
      OBVIOUS
    <3>3. p \in ConfRequestTypes /\ p.at = "edit" /\ p.key = q.to /\ p.to = q.to /\ p.rec = stored[q.to] /\ p.todo = << >>
      BY <1>1, <2>1, <3>1, <3>2 DEF ConfRequestTypes, CreqSteps, CreqOps
    <3>4. \A n : RequestFits(p, n)
      BY <2>1, <3>1, <3>3 DEF RequestFits, Updating
    <3>5. creq' = [creq EXCEPT ![r] = p]
      BY <1>1, <1>8, <2>2, <3>2 DEF ReconfigureGets, Enter
    <3>. QED BY <1>1, <1>2, <1>8, <2>1, <3>3, <3>4, <3>5 DEF ReconfigureGets, Updating
  <2>. QED BY <1>1, <1>3, <1>8, <2>1, <2>2 DEF ReconfigureGets, Updating
<1>9. CASE DeleteGets(r)
  <2>1. q.at = "next" /\ q.op = "delete" /\ q.todo # << >> /\ q.todo \in Seq(Configs)
    BY <1>1, <1>9 DEF DeleteGets, RequestFits
  <2>2. Head(q.todo) \in Configs /\ Tail(q.todo) \in Seq(Configs)
    BY <2>1, Remaining
  <2>3. PICK p : p = [q EXCEPT !.at = "delete", !.key = Head(q.todo), !.todo = Tail(q.todo)]
    OBVIOUS
  <2>4. p \in ConfRequestTypes /\ p.at = "delete" /\ p.op = "delete" /\ p.key = Head(q.todo) /\ p.todo = Tail(q.todo)
    BY <1>1, <1>4, <2>1, <2>2, <2>3 DEF ConfRequestTypes, CreqSteps
  <2>5. \A n : RequestFits(p, n)
    BY <2>2, <2>4 DEF RequestFits, Updating
  <2>6. Fail(r) \/ creq' = [creq EXCEPT ![r] = p]
    BY <1>1, <1>9, <2>3 DEF DeleteGets, Enter
  <2>. QED BY <1>1, <1>2, <1>3, <1>9, <2>1, <2>4, <2>5, <2>6 DEF DeleteGets, Updating
<1>10. CASE WalkDefaults(r)
  <2>1. q.at = "next" /\ q.op = "init" /\ q.todo # << >> /\ q.todo \in Seq(DefaultConfigs)
    BY <1>1, <1>10 DEF WalkDefaults, RequestFits
  <2>2. /\ Tail(q.todo) \in Seq(DefaultConfigs) /\ (Len(q.todo) # 1 => Tail(q.todo) # << >>)
        /\ \A s \in Seq(DefaultConfigs) : s \in Seq(Named)
    <3>1. DefaultConfigs \subseteq Named
      BY ConfigsAssumption DEF Named, Configs
    <3>. QED BY <2>1, <3>1, Remaining
  <2>3. PICK a : a = IF Len(q.todo) = 1 THEN "ready" ELSE "next"
    OBVIOUS
  <2>4. PICK p : p = [q EXCEPT !.todo = Tail(q.todo), !.at = a]
    OBVIOUS
  <2>5. p \in ConfRequestTypes /\ p.at = a /\ p.op = "init" /\ p.todo = Tail(q.todo)
    BY <1>1, <2>1, <2>2, <2>3, <2>4 DEF ConfRequestTypes, CreqSteps
  <2>6. \A n : RequestFits(p, n)
    BY <2>2, <2>3, <2>5 DEF RequestFits, Updating
  <2>7. PICK p2 : p2 = [q EXCEPT !.at = "default"]
    OBVIOUS
  <2>8. p2 \in ConfRequestTypes /\ p2.at = "default" /\ p2.op = "init" /\ p2.todo = q.todo
    BY <1>1, <2>1, <2>7 DEF ConfRequestTypes, CreqSteps
  <2>9. \A n : RequestFits(p2, n)
    BY <2>1, <2>8 DEF RequestFits, Updating
  <2>10. creq' = [creq EXCEPT ![r] = p] \/ creq' = [creq EXCEPT ![r] = p2]
    BY <1>1, <1>10, <2>1, <2>3, <2>4, <2>7 DEF WalkDefaults, Enter
  <2>11. p.at \notin Updating /\ p2.at \notin Updating
    BY <2>3, <2>5, <2>8 DEF Updating
  <2>. QED BY <1>1, <1>2, <1>10, <2>1, <2>5, <2>6, <2>8, <2>9, <2>10, <2>11 DEF WalkDefaults, Updating
<1>11. CASE StartupLists(r)
  <2>1. q.at = "ready"
    BY <1>1, <1>11 DEF StartupLists
  <2>2. PICK S : S = {k \in Configs : Exists(k)}
    OBVIOUS
  <2>3. PICK o \in Orders(S) : creq' = [creq EXCEPT ![r] = [creq[r] EXCEPT !.at = "hooks",
                      !.todo = [i \in DOMAIN o |-> [key |-> o[i], rec |-> stored[o[i]]]]]]
    BY <1>11, <2>2 DEF StartupLists, Enter
  <2>4. o \in Seq(S)
    BY <2>2, ConfigsAssumption, FS_Subset, OrdersAreLists
  <2>5. PICK rows : rows = [i \in DOMAIN o |-> [key |-> o[i], rec |-> stored[o[i]]]]
    OBVIOUS
  <2>6. rows \in Seq(Rows)
    <3>1. ASSUME NEW i \in DOMAIN o
          PROVE  rows[i] \in Rows
      <4>1. o[i] \in Configs /\ Exists(o[i])
        BY <2>2, <2>4
      <4>2. Own(o[i], stored[o[i]]) /\ stored[o[i]] \in ConfRecords
        BY <1>1, <4>1, ThereWhenBorn
      <4>. QED BY <2>5, <4>1, <4>2 DEF Rows
    <3>2. Len(o) \in Nat /\ DOMAIN o = 1 .. Len(o)
      BY <2>4
    <3>3. rows \in [1 .. Len(o) -> Rows]
      BY <2>5, <3>1, <3>2
    <3>. QED BY <3>2, <3>3
  <2>7. PICK p : p = [q EXCEPT !.at = "hooks", !.todo = rows]
    OBVIOUS
  <2>8. p \in ConfRequestTypes /\ p.at = "hooks" /\ p.todo = rows
    BY <1>1, <2>6, <2>7 DEF ConfRequestTypes, CreqSteps
  <2>9. \A n : RequestFits(p, n)
    BY <2>6, <2>8 DEF RequestFits, Updating
  <2>10. creq' = [creq EXCEPT ![r] = p]
    BY <1>1, <2>3, <2>5, <2>7
  <2>. QED BY <1>1, <1>2, <1>11, <2>1, <2>8, <2>9, <2>10 DEF StartupLists, Updating
<1>12. CASE InitializeComponent(r)
    BY <1>1, <1>3, <1>12 DEF InitializeComponent, Updating
<1>. QED BY <1>5, <1>6, <1>7, <1>8, <1>9, <1>10, <1>11, <1>12

\* A record put under a name: the types, and what is told by births.
LEMMA PutsUnder ==
    ASSUME StoredTypes, NEW k \in Configs, NEW c, c = NoConf \/ (Own(k, c) /\ c.born \in 1 .. births'),
           stored' = [stored EXCEPT ![k] = c], births' \in Nat, births <= births',
           dead' \subseteq 1 .. births', excused' \in BOOLEAN
    PROVE  StoredTypes' /\ stored'[k] = c /\ \A j \in Configs \ {k} : stored'[j] = stored[j]
<1>1. StoredTypes'
    BY StoreTypes
<1>. QED BY <1>1 DEF StoredTypes

LEMMA UpdateConfigStep ==
    ASSUME ConfigTypes, NEW r \in ConfigRequests, UpdateConfig(r)
    PROVE  /\ ConfigTypes' /\ creq[r].at = "edit" /\ UNCHANGED <<stored, births, dead>>
           /\ excused' = (excused \/ TakesMade(creq[r].key) \/ MadeAndGone(creq[r].key))
           /\ \E p : /\ Becomes(r, p) /\ p.at \in {"rest", "put"}
                     /\ p.at = "put" => p.key = creq[r].key /\ p.to = creq[r].to /\ Exists(p.key) /\ p.born = stored[p.key].born
<1>0. PICK q : q = creq[r]
    OBVIOUS
<1>1. q \in ConfRequestTypes /\ RequestFits(q, births) /\ StoredTypes /\ CreqTypes /\ creq[r] = q
    BY <1>0 DEF ConfigTypes, CreqTypes
<1>2. /\ q.at = "edit" /\ UNCHANGED <<stored, births, dead>>
      /\ excused' = (excused \/ TakesMade(q.key) \/ MadeAndGone(q.key))
    BY <1>1 DEF UpdateConfig
<1>3. q.key \in Configs /\ q.to \in Configs /\ (q.key \in ExpConfigs <=> q.to \in ExpConfigs) /\ Own(q.key, q.rec) /\ q.todo = << >>
    BY <1>1, <1>2 DEF RequestFits
<1>4. excused' \in BOOLEAN
    BY <1>1, <1>2 DEF StoredTypes, TakesMade, MadeAndGone
<1>5. CASE Fail(r)
  <2>1. PICK p : Becomes(r, p) /\ p.at = "rest" /\ RequestFits(p, births)
    BY <1>5, FailsTo
  <2>. QED BY <1>1, <1>2, <1>4, <2>1, QuietTypes
<1>6. CASE ~Fail(r)
  <2>1. PICK s : s = IF q.key \in ExpConfigs THEN [q.rec EXCEPT !.named = q.key] ELSE q.rec
    OBVIOUS
  <2>2. PICK h : h = HookUpdate(q.to, s)
    OBVIOUS
  <2>3. Own(q.to, h) /\ h \in ConfRecords
    BY <1>3, <2>1, <2>2, HookUpdateOwns DEF Own
  <2>4. Exists(q.key)
    BY <1>1, <1>6 DEF UpdateConfig
  <2>5. stored[q.key].born \in 1 .. births /\ stored[q.key].born \in Nat
    BY <1>1, <1>3, <2>4, ThereWhenBorn
  <2>6. PICK p : p = [q EXCEPT !.at = "put", !.born = stored[q.key].born, !.rec = h]
    OBVIOUS
  <2>7. "put" \in CreqSteps
    BY DEF CreqSteps, Updating
  <2>8. p \in ConfRequestTypes /\ p.at = "put" /\ p.key = q.key /\ p.to = q.to /\ p.born = stored[q.key].born /\ p.rec = h /\ p.todo = << >>
    BY <1>1, <1>3, <2>3, <2>5, <2>6, <2>7 DEF ConfRequestTypes
  <2>9. creq' = [creq EXCEPT ![r] = p]
    BY <1>1, <1>6, <2>1, <2>2, <2>6 DEF UpdateConfig, Enter
  <2>10. RequestFits(p, births)
    BY <1>3, <2>3, <2>5, <2>8 DEF RequestFits, Updating
  <2>11. Becomes(r, p)
    BY <2>8, <2>9 DEF Becomes
  <2>12. ConfigTypes'
    BY <1>2, <1>4, <2>10, <2>11, QuietTypes
  <2>. QED BY <1>1, <1>2, <2>4, <2>8, <2>11, <2>12
<1>. QED BY <1>5, <1>6

\* A config is created under a name that is free, with a birth of its own.
LEMMA NewBirthStep ==
    ASSUME ConfigTypes, NEW r \in ConfigRequests, StoreCreate(r) \/ CreateDefault(r)
    PROVE  /\ ConfigTypes' /\ creq[r].at \notin Updating /\ dead' = dead
           /\ \E p : Becomes(r, p) /\ p.at \notin Updating
           /\ \/ UNCHANGED <<stored, births, excused>>
              \/ \E k \in Configs :
                   /\ ~Exists(k) /\ births' = births + 1 /\ stored'[k].born = births + 1
                   /\ \A j \in Configs \ {k} : stored'[j] = stored[j]
                   /\ excused' = (excused \/ Tangles(k, r))
<1>0. PICK q : q = creq[r]
    OBVIOUS
<1>1. q \in ConfRequestTypes /\ RequestFits(q, births) /\ StoredTypes /\ CreqTypes /\ creq[r] = q /\ births \in Nat
    BY <1>0 DEF ConfigTypes, CreqTypes, StoredTypes
<1>2. births + 1 \in Nat /\ births <= births + 1 /\ dead \subseteq 1 .. births + 1 /\ births + 1 \in 1 .. births + 1
    BY <1>1 DEF StoredTypes
<1>3. \A k : (excused \/ Tangles(k, r)) \in BOOLEAN
    BY <1>1 DEF StoredTypes, Tangles
<1>4. ASSUME Fail(r), UNCHANGED <<stored, births, excused, dead>>
      PROVE  ConfigTypes' /\ \E p : Becomes(r, p) /\ p.at \notin Updating
  <2>1. PICK p : Becomes(r, p) /\ p.at = "rest" /\ RequestFits(p, births)
    BY <1>4, FailsTo
  <2>2. excused' \in BOOLEAN
    BY <1>1, <1>4 DEF StoredTypes
  <2>3. ConfigTypes'
    BY <1>4, <2>1, <2>2, QuietTypes
  <2>. QED BY <2>1, <2>3 DEF Updating
<1>5. CASE StoreCreate(r)
  <2>1. q.at = "create" /\ q.key \in Configs /\ Own(q.key, q.rec) /\ q.todo \in Seq(Named) /\ q.op = "create" /\ dead' = dead
    BY <1>1, <1>5 DEF StoreCreate, RequestFits
  <2>2. CASE Exists(q.key)
    BY <1>1, <1>4, <1>5, <2>1, <2>2 DEF StoreCreate, Updating
  <2>3. CASE ~Exists(q.key)
    <3>1. PICK c : c = [q.rec EXCEPT !.born = births + 1]
      OBVIOUS
    <3>2. /\ Finish2(r) /\ births' = births + 1 /\ stored' = [stored EXCEPT ![q.key] = c]
          /\ excused' = (excused \/ Tangles(q.key, r))
      BY <1>1, <1>5, <2>3, <3>1 DEF StoreCreate
    <3>3. Own(q.key, c) /\ c.born = births + 1
      BY <1>2, <2>1, <3>1, BornEdits
    <3>4. StoredTypes' /\ stored'[q.key] = c /\ \A j \in Configs \ {q.key} : stored'[j] = stored[j]
      BY <1>1, <1>2, <1>3, <2>1, <3>2, <3>3, PutsUnder
    <3>5. PICK p : Becomes(r, p) /\ p.at \in {"rest", "next"} /\ RequestFits(p, births')
      BY <1>1, <2>1, <3>2, FinishesTo
    <3>6. ConfigTypes'
      BY <1>2, <3>2, <3>4, <3>5, StepEnds
    <3>. QED BY <1>1, <2>1, <2>3, <3>2, <3>3, <3>4, <3>5, <3>6 DEF Updating
  <2>. QED BY <2>2, <2>3
<1>6. CASE CreateDefault(r)
  <2>1. q.at = "default" /\ q.todo # << >> /\ q.todo \in Seq(DefaultConfigs) /\ q.op = "init" /\ dead' = dead
    BY <1>1, <1>6 DEF CreateDefault, RequestFits
  <2>2. PICK k : k = Head(q.todo)
    OBVIOUS
  <2>3. /\ k \in Configs /\ k \notin ExpConfigs /\ Tail(q.todo) \in Seq(DefaultConfigs) /\ (Len(q.todo) # 1 => Tail(q.todo) # << >>)
        /\ Tail(q.todo) \in Seq(Named)
    <3>1. DefaultConfigs \subseteq Named /\ DefaultConfigs \subseteq Configs /\ DefaultConfigs \cap ExpConfigs = {}
      BY ConfigsAssumption DEF Named, Configs
    <3>. QED BY <2>1, <2>2, <3>1, Remaining
  <2>4. CASE Exists(k)
    BY <1>1, <1>4, <1>6, <2>1, <2>2, <2>4 DEF CreateDefault, Updating
  <2>5. CASE ~Exists(k)
    <3>1. PICK c : c = [born |-> births + 1, named |-> "none", dir |-> "none", bridge |-> DefaultBridge, running |-> FALSE]
      OBVIOUS
    <3>2. PICK a : a = IF Len(q.todo) = 1 THEN "ready" ELSE "next"
      OBVIOUS
    <3>3. PICK p : p = [q EXCEPT !.todo = Tail(q.todo), !.at = a]
      OBVIOUS
    <3>4. /\ births' = births + 1 /\ stored' = [stored EXCEPT ![k] = c]
          /\ excused' = (excused \/ Tangles(k, r)) /\ creq' = [creq EXCEPT ![r] = p]
      BY <1>1, <1>6, <2>2, <2>5, <3>1, <3>2, <3>3 DEF CreateDefault, Enter
    <3>0. a \in CreqSteps
      BY <3>2 DEF CreqSteps
    <3>5. p \in ConfRequestTypes /\ p.at = a /\ p.op = "init" /\ p.todo = Tail(q.todo)
      BY <1>1, <2>1, <2>3, <3>0, <3>3 DEF ConfRequestTypes
    <3>6. c.born = births + 1 /\ c \in ConfRecords
      BY <1>2, <3>1, ConfigsAssumption DEF ConfRecords, DefaultBridge
    <3>7. Own(k, c)
      BY <2>3, <3>6 DEF Own
    <3>8. StoredTypes' /\ stored'[k] = c /\ \A j \in Configs \ {k} : stored'[j] = stored[j]
      BY <1>1, <1>2, <1>3, <2>1, <2>3, <3>4, <3>6, <3>7, PutsUnder
    <3>9. RequestFits(p, births') /\ p.at \notin Updating
      BY <2>3, <3>2, <3>5 DEF RequestFits, Updating
    <3>10. Becomes(r, p)
      BY <3>4, <3>5 DEF Becomes
    <3>11. ConfigTypes'
      BY <1>2, <3>4, <3>8, <3>9, <3>10, StepEnds
    <3>. QED BY <1>1, <2>1, <2>3, <2>5, <3>4, <3>6, <3>8, <3>9, <3>10, <3>11 DEF Updating
  <2>. QED BY <2>4, <2>5
<1>. QED BY <1>5, <1>6

\* The same request a step further.
Same(p, q) == p.key = q.key /\ p.to = q.to /\ p.born = q.born

LEMMA ReconfiguresTo ==
    ASSUME CreqTypes, NEW r \in ConfigRequests, ThenReconfigure(r), creq[r].to \in Configs, creq[r].todo = << >>
    PROVE  \E p : Becomes(r, p) /\ p.at \notin Updating /\ \A n : RequestFits(p, n)
<1>1. CASE Step(r, "again")
  <2>1. "again" \in CreqSteps
    BY DEF CreqSteps
  <2>2. PICK p : Becomes(r, p) /\ p.at = "again" /\ p.to = creq[r].to /\ p.todo = creq[r].todo
    BY <1>1, <2>1, StepsTo
  <2>3. \A n : RequestFits(p, n)
    BY <2>2 DEF RequestFits, Updating
  <2>. QED BY <2>2, <2>3 DEF Updating
<1>2. CASE Finish2(r)
  <2>1. PICK p : Becomes(r, p) /\ p.at \in {"rest", "next"} /\ \A n : RequestFits(p, n)
    BY <1>2, FinishesTo
  <2>. QED BY <2>1 DEF Updating
<1>. QED BY <1>1, <1>2 DEF ThenReconfigure

LEMMA StoreUpdateStep ==
    ASSUME ConfigTypes, NEW r \in ConfigRequests, StoreUpdate(r)
    PROVE  /\ ConfigTypes' /\ creq[r].at = "put" /\ UNCHANGED <<births, dead, excused>>
           /\ \A k \in Configs : stored'[k].born = stored[k].born
           /\ \E p : Becomes(r, p) /\ (p.at \notin Updating \/ (p.at = "make" /\ Same(p, creq[r])))
<1>0. PICK q : q = creq[r]
    OBVIOUS
<1>1. q \in ConfRequestTypes /\ RequestFits(q, births) /\ StoredTypes /\ CreqTypes /\ creq[r] = q /\ births \in Nat /\ excused \in BOOLEAN
    BY <1>0 DEF ConfigTypes, CreqTypes, StoredTypes
<1>2. q.at = "put" /\ UNCHANGED <<births, dead, excused>>
    BY <1>1 DEF StoreUpdate
<1>3. q.key \in Configs /\ q.to \in Configs /\ Own(q.to, q.rec) /\ q.born \in 1 .. births /\ q.todo = << >>
    BY <1>1, <1>2 DEF RequestFits, Updating
<1>4. CASE Exists(q.to)
  <2>1. PICK c : c = [q.rec EXCEPT !.born = stored[q.to].born]
    OBVIOUS
  <2>2. stored[q.to].born \in 1 .. births /\ stored[q.to].born \in Nat
    BY <1>1, <1>3, <1>4, ThereWhenBorn
  <2>3. Own(q.to, c) /\ c.born = stored[q.to].born
    BY <1>3, <2>1, <2>2, BornEdits
  <2>4. ThenReconfigure(r) /\ stored' = [stored EXCEPT ![q.to] = c]
    BY <1>1, <1>4, <2>1 DEF StoreUpdate
  <2>5. dead' \subseteq 1 .. births' /\ births' \in Nat /\ births <= births' /\ c.born \in 1 .. births' /\ excused' \in BOOLEAN
    BY <1>1, <1>2, <2>2, <2>3 DEF StoredTypes
  <2>6. StoredTypes' /\ stored'[q.to] = c /\ \A j \in Configs \ {q.to} : stored'[j] = stored[j]
    BY <1>1, <1>3, <2>3, <2>4, <2>5, PutsUnder
  <2>7. PICK p : Becomes(r, p) /\ p.at \notin Updating /\ \A n : RequestFits(p, n)
    BY <1>1, <1>3, <2>4, ReconfiguresTo
  <2>8. ConfigTypes'
    BY <2>5, <2>6, <2>7, StepEnds
  <2>. QED BY <1>1, <1>2, <2>3, <2>6, <2>7, <2>8
<1>5. CASE ~Exists(q.to)
  <2>1. Step(r, "make") /\ stored' = stored /\ "make" \in CreqSteps
    BY <1>1, <1>5 DEF StoreUpdate, CreqSteps, Updating
  <2>2. PICK p : Becomes(r, p) /\ p.at = "make" /\ p.key = q.key /\ p.to = q.to /\ p.rec = q.rec /\ p.born = q.born /\ p.todo = q.todo
    BY <1>1, <2>1, StepsTo
  <2>3. RequestFits(p, births)
    BY <1>3, <2>2 DEF RequestFits, Updating
  <2>4. ConfigTypes'
    BY <1>1, <1>2, <2>1, <2>2, <2>3, QuietTypes
  <2>. QED BY <1>1, <1>2, <2>1, <2>2, <2>4 DEF Same
<1>. QED BY <1>4, <1>5

LEMMA RenameCreatesStep ==
    ASSUME ConfigTypes, NEW r \in ConfigRequests, RenameCreates(r)
    PROVE  /\ ConfigTypes' /\ creq[r].at = "make" /\ UNCHANGED <<births, dead>>
           /\ \E p : /\ Becomes(r, p)
                     /\ \/ p.at \notin Updating /\ UNCHANGED <<stored, excused>>
                        \/ /\ p.at = "drop" /\ Same(p, creq[r]) /\ ~Exists(p.to)
                           /\ stored'[p.to].born = p.born /\ \A j \in Configs \ {p.to} : stored'[j] = stored[j]
                           /\ excused' = (excused \/ Tangles(p.to, r))
<1>0. PICK q : q = creq[r]
    OBVIOUS
<1>1. q \in ConfRequestTypes /\ RequestFits(q, births) /\ StoredTypes /\ CreqTypes /\ creq[r] = q /\ births \in Nat /\ excused \in BOOLEAN
    BY <1>0 DEF ConfigTypes, CreqTypes, StoredTypes
<1>2. q.at = "make" /\ UNCHANGED <<births, dead>>
    BY <1>1 DEF RenameCreates
<1>3. q.key \in Configs /\ q.to \in Configs /\ Own(q.to, q.rec) /\ q.born \in 1 .. births /\ q.todo = << >>
    BY <1>1, <1>2 DEF RequestFits, Updating
<1>4. CASE Exists(q.to)
  <2>1. Fail(r) /\ UNCHANGED <<stored, excused>>
    BY <1>1, <1>4 DEF RenameCreates
  <2>2. PICK p : Becomes(r, p) /\ p.at = "rest" /\ RequestFits(p, births)
    BY <2>1, FailsTo
  <2>3. ConfigTypes'
    BY <1>1, <1>2, <2>1, <2>2, QuietTypes
  <2>. QED BY <1>1, <1>2, <2>1, <2>2, <2>3 DEF Updating
<1>5. CASE ~Exists(q.to)
  <2>1. PICK c : c = [q.rec EXCEPT !.born = q.born]
    OBVIOUS
  <2>2. Own(q.to, c) /\ c.born = q.born
    BY <1>1, <1>3, <2>1, BornEdits, RequestFields
  <2>3. /\ Step(r, "drop") /\ "drop" \in CreqSteps /\ stored' = [stored EXCEPT ![q.to] = c]
        /\ excused' = (excused \/ Tangles(q.to, r))
    BY <1>1, <1>5, <2>1 DEF RenameCreates, CreqSteps, Updating
  <2>4. dead' \subseteq 1 .. births' /\ births' \in Nat /\ births <= births' /\ c.born \in 1 .. births' /\ excused' \in BOOLEAN
    BY <1>1, <1>2, <1>3, <2>2, <2>3 DEF StoredTypes, Tangles
  <2>5. StoredTypes' /\ stored'[q.to] = c /\ \A j \in Configs \ {q.to} : stored'[j] = stored[j]
    BY <1>1, <1>3, <2>2, <2>3, <2>4, PutsUnder
  <2>6. PICK p : Becomes(r, p) /\ p.at = "drop" /\ p.key = q.key /\ p.to = q.to /\ p.rec = q.rec /\ p.born = q.born /\ p.todo = q.todo
    BY <1>1, <2>3, StepsTo
  <2>7. RequestFits(p, births')
    BY <1>2, <1>3, <2>6 DEF RequestFits, Updating
  <2>8. ConfigTypes'
    BY <2>4, <2>5, <2>6, <2>7, StepEnds
  <2>. QED BY <1>1, <1>2, <1>5, <2>2, <2>3, <2>5, <2>6, <2>8 DEF Same
<1>. QED BY <1>4, <1>5

LEMMA RenameDeletesStep ==
    ASSUME ConfigTypes, NEW r \in ConfigRequests, RenameDeletes(r)
    PROVE  /\ ConfigTypes' /\ creq[r].at = "drop" /\ UNCHANGED <<births, dead, excused>>
           /\ \E p : /\ Becomes(r, p)
                     /\ \/ /\ p.at \notin Updating /\ Exists(creq[r].key) /\ stored'[creq[r].key] = NoConf
                           /\ \A j \in Configs \ {creq[r].key} : stored'[j] = stored[j]
                        \/ p.at = "undo" /\ Same(p, creq[r]) /\ ~Exists(creq[r].key) /\ stored' = stored
<1>0. PICK q : q = creq[r]
    OBVIOUS
<1>1. q \in ConfRequestTypes /\ RequestFits(q, births) /\ StoredTypes /\ CreqTypes /\ creq[r] = q /\ births \in Nat /\ excused \in BOOLEAN
    BY <1>0 DEF ConfigTypes, CreqTypes, StoredTypes
<1>2. q.at = "drop" /\ UNCHANGED <<births, dead, excused>>
    BY <1>1 DEF RenameDeletes
<1>3. q.key \in Configs /\ q.to \in Configs /\ Own(q.to, q.rec) /\ q.born \in 1 .. births /\ q.todo = << >>
    BY <1>1, <1>2 DEF RequestFits, Updating
<1>4. CASE Exists(q.key)
  <2>1. ThenReconfigure(r) /\ stored' = [stored EXCEPT ![q.key] = NoConf]
    BY <1>1, <1>4 DEF RenameDeletes
  <2>2. dead' \subseteq 1 .. births' /\ births' \in Nat /\ births <= births' /\ excused' \in BOOLEAN
    BY <1>1, <1>2 DEF StoredTypes
  <2>3. StoredTypes' /\ stored'[q.key] = NoConf /\ \A j \in Configs \ {q.key} : stored'[j] = stored[j]
    BY <1>1, <1>3, <2>1, <2>2, PutsUnder
  <2>4. PICK p : Becomes(r, p) /\ p.at \notin Updating /\ \A n : RequestFits(p, n)
    BY <1>1, <1>3, <2>1, ReconfiguresTo
  <2>5. ConfigTypes'
    BY <2>2, <2>3, <2>4, StepEnds
  <2>. QED BY <1>1, <1>2, <1>4, <2>3, <2>4, <2>5
<1>5. CASE ~Exists(q.key)
  <2>1. Step(r, "undo") /\ stored' = stored /\ "undo" \in CreqSteps
    BY <1>1, <1>5 DEF RenameDeletes, CreqSteps, Updating
  <2>2. PICK p : Becomes(r, p) /\ p.at = "undo" /\ p.key = q.key /\ p.to = q.to /\ p.rec = q.rec /\ p.born = q.born /\ p.todo = q.todo
    BY <1>1, <2>1, StepsTo
  <2>3. RequestFits(p, births)
    BY <1>3, <2>2 DEF RequestFits, Updating
  <2>4. ConfigTypes'
    BY <1>1, <1>2, <2>1, <2>2, <2>3, QuietTypes
  <2>. QED BY <1>1, <1>2, <1>5, <2>1, <2>2, <2>4 DEF Same
<1>. QED BY <1>4, <1>5

LEMMA RenameUndoneStep ==
    ASSUME ConfigTypes, NEW r \in ConfigRequests, RenameUndone(r)
    PROVE  /\ ConfigTypes' /\ creq[r].at = "undo" /\ UNCHANGED <<births, dead, excused>>
           /\ stored'[creq[r].to] = NoConf /\ \A j \in Configs \ {creq[r].to} : stored'[j] = stored[j]
           /\ \E p : Becomes(r, p) /\ p.at \notin Updating
<1>0. PICK q : q = creq[r]
    OBVIOUS
<1>1. q \in ConfRequestTypes /\ RequestFits(q, births) /\ StoredTypes /\ CreqTypes /\ creq[r] = q /\ births \in Nat /\ excused \in BOOLEAN
    BY <1>0 DEF ConfigTypes, CreqTypes, StoredTypes
<1>2. q.at = "undo" /\ UNCHANGED <<births, dead, excused>> /\ stored' = [stored EXCEPT ![q.to] = NoConf] /\ Fail(r)
    BY <1>1 DEF RenameUndone
<1>3. q.to \in Configs
    BY <1>1, <1>2 DEF RequestFits, Updating
<1>4. dead' \subseteq 1 .. births' /\ births' \in Nat /\ births <= births' /\ excused' \in BOOLEAN
    BY <1>1, <1>2 DEF StoredTypes
<1>5. StoredTypes' /\ stored'[q.to] = NoConf /\ \A j \in Configs \ {q.to} : stored'[j] = stored[j]
    BY <1>1, <1>2, <1>3, <1>4, PutsUnder
<1>6. PICK p : Becomes(r, p) /\ p.at = "rest" /\ RequestFits(p, births')
    BY <1>2, FailsTo
<1>7. ConfigTypes'
    BY <1>4, <1>5, <1>6, StepEnds
<1>. QED BY <1>1, <1>2, <1>5, <1>6, <1>7 DEF Updating

LEMMA StoreDeleteStep ==
    ASSUME ConfigTypes, NEW r \in ConfigRequests, StoreDelete(r)
    PROVE  /\ ConfigTypes' /\ creq[r].at = "delete" /\ births' = births
           /\ \E p : Becomes(r, p) /\ p.at \notin Updating
           /\ \/ UNCHANGED <<stored, dead, excused>>
              \/ \E k \in Configs :
                   /\ Exists(k) /\ stored'[k] = NoConf /\ \A j \in Configs \ {k} : stored'[j] = stored[j]
                   /\ dead' = IF TakenBack(k) THEN dead ELSE dead \cup {stored[k].born}
                   /\ excused' = (excused \/ MadeBeside(k))
<1>0. PICK q : q = creq[r]
    OBVIOUS
<1>1. q \in ConfRequestTypes /\ RequestFits(q, births) /\ StoredTypes /\ CreqTypes /\ creq[r] = q /\ births \in Nat /\ excused \in BOOLEAN
    BY <1>0 DEF ConfigTypes, CreqTypes, StoredTypes
<1>2. q.at = "delete" /\ births' = births
    BY <1>1 DEF StoreDelete
<1>3. q.key \in Configs /\ q.todo \in Seq(Configs) /\ q.op = "delete"
    BY <1>1, <1>2 DEF RequestFits
<1>4. CASE ~Exists(q.key)
  <2>1. Fail(r) /\ UNCHANGED <<stored, dead, excused>>
    BY <1>1, <1>4 DEF StoreDelete
  <2>2. PICK p : Becomes(r, p) /\ p.at = "rest" /\ RequestFits(p, births)
    BY <2>1, FailsTo
  <2>3. ConfigTypes'
    BY <1>1, <1>2, <2>1, <2>2, QuietTypes
  <2>. QED BY <1>1, <1>2, <2>1, <2>2, <2>3 DEF Updating
<1>5. CASE Exists(q.key)
  <2>1. /\ Finish2(r) /\ stored' = [stored EXCEPT ![q.key] = NoConf]
        /\ dead' = IF TakenBack(q.key) THEN dead ELSE dead \cup {stored[q.key].born}
        /\ excused' = (excused \/ MadeBeside(q.key))
    BY <1>1, <1>5 DEF StoreDelete
  <2>2. stored[q.key].born \in 1 .. births
    BY <1>1, <1>3, <1>5, ThereWhenBorn
  <2>3. dead' \subseteq 1 .. births' /\ births' \in Nat /\ births <= births' /\ excused' \in BOOLEAN
    BY <1>1, <1>2, <2>1, <2>2 DEF StoredTypes, MadeBeside
  <2>4. StoredTypes' /\ stored'[q.key] = NoConf /\ \A j \in Configs \ {q.key} : stored'[j] = stored[j]
    BY <1>1, <1>3, <2>1, <2>3, PutsUnder
  <2>5. PICK p : Becomes(r, p) /\ p.at \in {"rest", "next"} /\ \A n : RequestFits(p, n)
    BY <1>1, <1>3, <2>1, FinishesTo
  <2>6. ConfigTypes'
    BY <2>3, <2>4, <2>5, StepEnds
  <2>. QED BY <1>1, <1>2, <1>3, <1>5, <2>1, <2>4, <2>5, <2>6 DEF Updating
<1>. QED BY <1>4, <1>5

LEMMA StartupHookStep ==
    ASSUME ConfigTypes, NEW r \in ConfigRequests, StartupHook(r)
    PROVE  /\ ConfigTypes' /\ creq[r].at = "hooks" /\ UNCHANGED <<births, dead, excused>>
           /\ \A k \in Configs : stored'[k].born = stored[k].born
           /\ \E p : Becomes(r, p) /\ p.at \notin Updating
<1>0. PICK q : q = creq[r]
    OBVIOUS
<1>1. q \in ConfRequestTypes /\ RequestFits(q, births) /\ StoredTypes /\ CreqTypes /\ creq[r] = q /\ births \in Nat /\ excused \in BOOLEAN
    BY <1>0 DEF ConfigTypes, CreqTypes, StoredTypes
<1>2. q.at = "hooks" /\ q.todo # << >> /\ UNCHANGED <<births, dead, excused>>
    BY <1>1 DEF StartupHook
<1>3. q.todo \in Seq(Rows)
    BY <1>1, <1>2 DEF RequestFits
<1>4. PICK c : c = Head(q.todo)
    OBVIOUS
<1>5. c \in Rows /\ Tail(q.todo) \in Seq(Rows)
    BY <1>2, <1>3, <1>4, Remaining
<1>6. c.key \in Configs /\ Own(c.key, c.rec)
    BY <1>5 DEF Rows
<1>7. CASE ~Exists(c.key)
  <2>1. Fail(r) /\ stored' = stored
    BY <1>1, <1>4, <1>7 DEF StartupHook
  <2>2. PICK p : Becomes(r, p) /\ p.at = "rest" /\ RequestFits(p, births)
    BY <2>1, FailsTo
  <2>3. ConfigTypes'
    BY <1>1, <1>2, <2>1, <2>2, QuietTypes
  <2>. QED BY <1>1, <1>2, <2>1, <2>2, <2>3 DEF Updating
<1>8. CASE Exists(c.key)
  <2>1. PICK d : d = [c.rec EXCEPT !.born = stored[c.key].born]
    OBVIOUS
  <2>2. PICK p : p = [q EXCEPT !.todo = Tail(q.todo)]
    OBVIOUS
  <2>3. stored' = [stored EXCEPT ![c.key] = d] /\ creq' = [creq EXCEPT ![r] = p]
    BY <1>1, <1>4, <1>8, <2>1, <2>2 DEF StartupHook, Enter
  <2>4. stored[c.key].born \in 1 .. births /\ stored[c.key].born \in Nat
    BY <1>1, <1>6, <1>8, ThereWhenBorn
  <2>5. Own(c.key, d) /\ d.born = stored[c.key].born
    BY <1>6, <2>1, <2>4, BornEdits
  <2>6. dead' \subseteq 1 .. births' /\ births' \in Nat /\ births <= births' /\ d.born \in 1 .. births' /\ excused' \in BOOLEAN
    BY <1>1, <1>2, <2>4, <2>5 DEF StoredTypes
  <2>7. StoredTypes' /\ stored'[c.key] = d /\ \A j \in Configs \ {c.key} : stored'[j] = stored[j]
    BY <1>1, <1>6, <2>3, <2>5, <2>6, PutsUnder
  <2>8. p \in ConfRequestTypes /\ p.at = "hooks" /\ p.todo = Tail(q.todo)
    BY <1>1, <1>2, <1>5, <2>2 DEF ConfRequestTypes
  <2>9. RequestFits(p, births')
    BY <1>5, <2>8 DEF RequestFits, Updating
  <2>10. Becomes(r, p)
    BY <2>3, <2>8 DEF Becomes
  <2>11. ConfigTypes'
    BY <2>6, <2>7, <2>9, <2>10, StepEnds
  <2>. QED BY <1>1, <1>2, <2>5, <2>7, <2>8, <2>10, <2>11 DEF Updating
<1>. QED BY <1>7, <1>8

LEMMA CrashStep ==
    ASSUME ConfigTypes, NEW r \in ConfigRequests, Crash(r)
    PROVE  /\ ConfigTypes' /\ UNCHANGED <<stored, births, dead>>
           /\ excused' = (excused \/ creq[r].at \in {"drop", "undo"})
           /\ \E p : Becomes(r, p) /\ p.at \notin Updating
<1>1. Fail(r) /\ UNCHANGED <<stored, births, dead>> /\ excused' = (excused \/ creq[r].at \in {"drop", "undo"})
    BY DEF Crash
<1>2. PICK p : Becomes(r, p) /\ p.at = "rest" /\ RequestFits(p, births)
    BY <1>1, FailsTo
<1>3. excused' \in BOOLEAN
    BY <1>1 DEF ConfigTypes, StoredTypes
<1>4. ConfigTypes'
    BY <1>1, <1>2, <1>3, QuietTypes
<1>. QED BY <1>1, <1>2, <1>4 DEF Updating

LEMMA RunsStep ==
    ASSUME ConfigTypes, NEW k \in ExpConfigs, Runs(k)
    PROVE  ConfigTypes' /\ UNCHANGED <<births, dead, creq, excused>> /\ \A j \in Configs : stored'[j].born = stored[j].born
<1>1. StoredTypes /\ CreqTypes /\ births \in Nat /\ k \in Configs /\ Exists(k) /\ UNCHANGED <<births, dead, creq, excused>>
    BY DEF Runs, ConfigTypes, StoredTypes, Configs
<1>2. PICK c : c = [stored[k] EXCEPT !.running = ~@]
    OBVIOUS
<1>3. Own(k, stored[k]) /\ stored[k].born \in 1 .. births
    BY <1>1, ThereWhenBorn
<1>4. Own(k, c) /\ c.born = stored[k].born
    BY <1>2, <1>3, RunningEdits
<1>5. stored' = [stored EXCEPT ![k] = c]
    BY <1>2 DEF Runs
<1>6. dead' \subseteq 1 .. births' /\ births' \in Nat /\ births <= births' /\ c.born \in 1 .. births' /\ excused' \in BOOLEAN
    BY <1>1, <1>3, <1>4 DEF StoredTypes
<1>7. StoredTypes' /\ stored'[k] = c /\ \A j \in Configs \ {k} : stored'[j] = stored[j]
    BY <1>1, <1>4, <1>5, <1>6, PutsUnder
<1>8. CreqTypes'
    BY <1>1 DEF CreqTypes
<1>. QED BY <1>1, <1>4, <1>7, <1>8 DEF ConfigTypes

----------------------------------------------------------------------------
(* Where a config is. Beside the name a config is at home under there can  *)
(* be one that a rename made: it is the new home once the old name has     *)
(* gone, and is taken back when it went otherwise.                         *)

At(x) == creq[x].at
Begun(x) == At(x) \in Updating
Making(x) == At(x) \in {"drop", "undo"}

Home(k, b) == stored[k].born = b /\ \A x \in ConfigRequests : Making(x) => creq[x].to # k

\* The new name of a rename was deleted, and the old one will be: no other
\* update starts from there.
Doomed(x) ==
    /\ At(x) = "drop" /\ creq[x].key # creq[x].to /\ stored[creq[x].to].born = 0
    /\ \A y \in ConfigRequests \ {x} : Begun(y) => creq[y].key # creq[x].key

\* The names of an update are those of its own config as long as they are
\* taken, and nobody else starts from or leads to the one it made.
NamesKeptApart ==
    /\ \A x \in ConfigRequests :
        /\ Begun(x) => stored[creq[x].key].born \in {0, creq[x].born}
        /\ Making(x) => stored[creq[x].to].born \in {0, creq[x].born}
        /\ At(x) = "undo" => stored[creq[x].key].born = 0
    /\ \A x, y \in ConfigRequests :
        x # y /\ Making(x) /\ Begun(y) => creq[y].key # creq[x].to /\ (Making(y) => creq[y].to # creq[x].to)

DeletedByNewName ==
    \A x \in ConfigRequests :
        At(x) = "drop" /\ creq[x].key # creq[x].to /\ stored[creq[x].to].born = 0 /\ stored[creq[x].key].born # 0
            => creq[x].born \in dead

OneHome ==
    \A b \in 1 .. births :
        /\ b \notin dead => \E k \in Configs : \A j \in Configs : Home(j, b) <=> j = k
        /\ b \in dead => \A j \in Configs : Home(j, b) => \E x \in ConfigRequests : Doomed(x) /\ creq[x].born = b /\ creq[x].key = j

BirthsInv == NamesKeptApart /\ DeletedByNewName /\ OneHome

\* What the invariant looks at.
LEMMA SameBirths ==
    ASSUME BirthsInv, UNCHANGED <<births, dead>>, \A k \in Configs : stored'[k].born = stored[k].born, ConfigTypes,
           \A x \in ConfigRequests :
            \/ creq'[x] = creq[x]
            \/ At(x) \notin {"drop", "undo"} /\ creq'[x].at \notin Updating
            \/ At(x) \in {"put", "make"} /\ creq'[x].at \in {"put", "make"} /\ Same(creq'[x], creq[x])
    PROVE  BirthsInv'
<1>1. ASSUME NEW x \in ConfigRequests
      PROVE  /\ Making(x)' <=> Making(x)
             /\ Making(x) => creq'[x] = creq[x]
             /\ Begun(x)' => Begun(x) /\ creq'[x].key = creq[x].key /\ creq'[x].to = creq[x].to /\ creq'[x].born = creq[x].born
             /\ Begun(x) => creq[x].key \in Configs /\ creq[x].to \in Configs
  <2>1. Begun(x) => creq[x].key \in Configs /\ creq[x].to \in Configs
    BY DEF Begun, At, ConfigTypes, CreqTypes, RequestFits
  <2>. QED BY <2>1 DEF Making, Begun, At, Same, Updating
<1>2. \A x \in ConfigRequests : (At(x)' \in {"drop", "undo"} \/ At(x) \in {"drop", "undo"}) => At(x)' = At(x)
    BY <1>1 DEF Making, At
<1>3. \A x \in ConfigRequests : Making(x) => Begun(x)
    BY DEF Making, Begun, Updating
<1>4. NamesKeptApart'
  <2>1. ASSUME NEW x \in ConfigRequests
        PROVE  /\ Begun(x)' => stored'[creq'[x].key].born \in {0, creq'[x].born}
               /\ Making(x)' => stored'[creq'[x].to].born \in {0, creq'[x].born}
               /\ At(x)' = "undo" => stored'[creq'[x].key].born = 0
    <3>1. Begun(x)' => stored'[creq'[x].key].born \in {0, creq'[x].born}
      BY <1>1 DEF BirthsInv, NamesKeptApart
    <3>2. Making(x)' => stored'[creq'[x].to].born \in {0, creq'[x].born}
      BY <1>1, <1>3 DEF BirthsInv, NamesKeptApart
    <3>3. At(x)' = "undo" => stored'[creq'[x].key].born = 0
      BY <1>1, <1>2, <1>3 DEF BirthsInv, NamesKeptApart, Making
    <3>. QED BY <3>1, <3>2, <3>3
  <2>2. ASSUME NEW x \in ConfigRequests, NEW y \in ConfigRequests, x # y, Making(x)', Begun(y)'
        PROVE  creq'[y].key # creq'[x].to /\ (Making(y)' => creq'[y].to # creq'[x].to)
    BY <1>1, <2>2 DEF BirthsInv, NamesKeptApart
  <2>. QED BY <2>1, <2>2 DEF NamesKeptApart
<1>5. DeletedByNewName'
    BY <1>1, <1>2, <1>3 DEF BirthsInv, DeletedByNewName, Making, At
<1>6. \A k \in Configs : \A b : Home(k, b)' <=> Home(k, b)
    BY <1>1 DEF Home
<1>7. \A x \in ConfigRequests : Doomed(x) => Doomed(x)' /\ creq'[x] = creq[x]
    BY <1>1, <1>2, <1>3 DEF Doomed, Making, At
<1>8. OneHome'
    BY <1>6, <1>7 DEF BirthsInv, OneHome
<1>. QED BY <1>4, <1>5, <1>8 DEF BirthsInv

\* A step of one request and of the births it changes.
OthersStay(r) == \A x \in ConfigRequests \ {r} : creq'[x] = creq[x]

LEMMA BecomesIt ==
    ASSUME CreqTypes, NEW r \in ConfigRequests, NEW p, Becomes(r, p)
    PROVE  creq'[r] = p /\ OthersStay(r)
BY DEF CreqTypes, Becomes, OthersStay

LEMMA BegunNames ==
    ASSUME ConfigTypes
    PROVE  /\ \A x \in ConfigRequests :
                /\ Begun(x) => creq[x].key \in Configs /\ creq[x].to \in Configs /\ creq[x].born \in 1 .. births
                /\ Making(x) => Begun(x)
           /\ \A k \in Configs : stored[k].born \in 0 .. births /\ (Exists(k) <=> stored[k].born # 0)
           /\ births \in Nat /\ dead \subseteq 1 .. births
<1>1. \A x \in ConfigRequests : Begun(x) => creq[x].key \in Configs /\ creq[x].to \in Configs /\ creq[x].born \in 1 .. births
    BY DEF Begun, At, ConfigTypes, CreqTypes, RequestFits
<1>2. \A k \in Configs : stored[k].born \in 0 .. births /\ (Exists(k) <=> stored[k].born # 0)
    BY ThereWhenBorn DEF ConfigTypes
<1>. QED BY <1>1, <1>2 DEF Making, Begun, Updating, ConfigTypes, StoredTypes

LEMMA NewBirthHome ==
    ASSUME ConfigTypes, BirthsInv, NEW r \in ConfigRequests, ~Begun(r), ~Begun(r)', OthersStay(r), dead' = dead,
           NEW k \in Configs, ~Exists(k), births' = births + 1, stored'[k].born = births + 1,
           \A j \in Configs \ {k} : stored'[j] = stored[j], ~Tangles(k, r)
    PROVE  BirthsInv'
<1>0. /\ \A x \in ConfigRequests : Begun(x) => creq[x].key \in Configs /\ creq[x].to \in Configs /\ creq[x].born \in 1 .. births
      /\ \A x \in ConfigRequests : Making(x) => Begun(x)
      /\ \A j \in Configs : stored[j].born \in 0 .. births
      /\ births \in Nat /\ dead \subseteq 1 .. births /\ stored[k].born = 0
    BY BegunNames
<1>1. ASSUME NEW x \in ConfigRequests
      PROVE  /\ (Begun(x)' <=> Begun(x)) /\ (Making(x)' <=> Making(x)) /\ (At(x) \in Updating \/ At(x)' \in Updating => At(x)' = At(x))
             /\ Begun(x) => creq'[x] = creq[x] /\ creq[x].key # k /\ creq[x].to # k
             /\ Begun(x) => stored'[creq[x].key].born = stored[creq[x].key].born /\ stored'[creq[x].to].born = stored[creq[x].to].born
  <2>1. CASE x = r
    BY <2>1 DEF Begun, Making, At, Updating
  <2>2. CASE x # r
    <3>1. creq'[x] = creq[x]
      BY <2>2 DEF OthersStay
    <3>2. Begun(x) => creq[x].key # k /\ creq[x].to # k
      BY <2>2 DEF Tangles, Begun, At, Updating
    <3>. QED BY <1>0, <3>1, <3>2 DEF Begun, Making, At
  <2>. QED BY <2>1, <2>2
<1>2. NamesKeptApart'
  <2>1. ASSUME NEW x \in ConfigRequests
        PROVE  /\ Begun(x)' => stored'[creq'[x].key].born \in {0, creq'[x].born}
               /\ Making(x)' => stored'[creq'[x].to].born \in {0, creq'[x].born}
               /\ At(x)' = "undo" => stored'[creq'[x].key].born = 0
    <3>1. At(x)' = "undo" => At(x) = "undo" /\ Begun(x)
      BY <1>1 DEF Begun, Updating
    <3>. QED BY <1>0, <1>1, <3>1 DEF BirthsInv, NamesKeptApart
  <2>2. ASSUME NEW x \in ConfigRequests, NEW y \in ConfigRequests, x # y, Making(x)', Begun(y)'
        PROVE  creq'[y].key # creq'[x].to /\ (Making(y)' => creq'[y].to # creq'[x].to)
    BY <1>0, <1>1, <2>2 DEF BirthsInv, NamesKeptApart
  <2>. QED BY <2>1, <2>2 DEF NamesKeptApart
<1>3. DeletedByNewName'
  <2>1. \A x \in ConfigRequests : At(x)' = "drop" => At(x) = "drop" /\ Begun(x)
    BY <1>1 DEF Begun, Updating
  <2>. QED BY <1>1, <2>1 DEF BirthsInv, DeletedByNewName
<1>4. ASSUME NEW x \in ConfigRequests, Doomed(x)
      PROVE  Doomed(x)' /\ creq'[x] = creq[x]
  <2>1. Begun(x) /\ At(x)' = "drop"
    BY <1>1, <1>4 DEF Doomed, Begun, Updating
  <2>. QED BY <1>1, <1>4, <2>1 DEF Doomed
<1>5. ASSUME NEW b \in 1 .. births, NEW j \in Configs
      PROVE  Home(j, b)' <=> Home(j, b)
  <2>1. stored'[j].born = b <=> stored[j].born = b
    BY <1>0
  <2>. QED BY <1>0, <1>1, <2>1 DEF Home
<1>6. ASSUME NEW b, b = births + 1, NEW j \in Configs
      PROVE  Home(j, b)' <=> j = k
  <2>1. stored'[j].born = b <=> j = k
    BY <1>0, <1>6
  <2>2. \A x \in ConfigRequests : Making(x)' => creq'[x].to # k
    BY <1>0, <1>1
  <2>. QED BY <2>1, <2>2 DEF Home
<1>7. OneHome'
  <2>1. ASSUME NEW b \in 1 .. births'
        PROVE  /\ b \notin dead' => \E i \in Configs : \A j \in Configs : Home(j, b)' <=> j = i
               /\ b \in dead' => \A j \in Configs : Home(j, b)' => \E x \in ConfigRequests : Doomed(x)' /\ creq'[x].born = b /\ creq'[x].key = j
    <3>1. CASE b = births + 1
      <4>1. \A j \in Configs : Home(j, b)' <=> j = k
        BY <1>6, <3>1
      <4>2. b \notin dead'
        BY <1>0, <3>1
      <4>. QED BY <4>1, <4>2
    <3>2. CASE b \in 1 .. births
      <4>1. b \notin dead => \E i \in Configs : \A j \in Configs : Home(j, b) <=> j = i
        BY <3>2 DEF BirthsInv, OneHome
      <4>2. b \in dead => \A j \in Configs : Home(j, b) => \E x \in ConfigRequests : Doomed(x) /\ creq[x].born = b /\ creq[x].key = j
        BY <3>2 DEF BirthsInv, OneHome
      <4>3. \A j \in Configs : Home(j, b)' <=> Home(j, b)
        BY <1>5, <3>2
      <4>4. b \notin dead' => \E i \in Configs : \A j \in Configs : Home(j, b)' <=> j = i
        BY <4>1, <4>3
      <4>5. b \in dead' => \A j \in Configs : Home(j, b)' => \E x \in ConfigRequests : Doomed(x)' /\ creq'[x].born = b /\ creq'[x].key = j
        BY <1>4, <4>2, <4>3
      <4>. QED BY <4>4, <4>5
    <3>. QED BY <1>0, <3>1, <3>2
  <2>. QED BY <2>1 DEF OneHome
<1>. QED BY <1>2, <1>3, <1>7 DEF BirthsInv

\* An update starts from a config that is there.
LEMMA StartsFromHome ==
    ASSUME ConfigTypes, BirthsInv, NEW r \in ConfigRequests, ~Begun(r), At(r)' = "put", OthersStay(r), UNCHANGED <<stored, births, dead>>,
           creq'[r].key \in Configs, Exists(creq'[r].key), creq'[r].born = stored[creq'[r].key].born,
           ~TakesMade(creq'[r].key), ~MadeAndGone(creq'[r].key)
    PROVE  BirthsInv'
<1>0. /\ \A x \in ConfigRequests : Begun(x) => creq[x].key \in Configs /\ creq[x].to \in Configs
      /\ \A x \in ConfigRequests : Making(x) => Begun(x)
      /\ \A j \in Configs : Exists(j) <=> stored[j].born # 0
    BY BegunNames
<1>1. ASSUME NEW x \in ConfigRequests
      PROVE  /\ (Making(x)' <=> Making(x)) /\ (x # r => Begun(x)' = Begun(x) /\ At(x)' = At(x) /\ creq'[x] = creq[x]) /\ (Making(x) => x # r)
             /\ Making(x) => creq[x].to # creq'[r].key
             /\ At(x) = "drop" /\ creq[x].key = creq'[r].key => stored[creq[x].to].born # 0
  <2>1. CASE x = r
    BY <2>1 DEF Begun, Making, At, Updating
  <2>2. CASE x # r
    <3>1. creq'[x] = creq[x]
      BY <2>2 DEF OthersStay
    <3>2. Making(x) => creq[x].to # creq'[r].key
      BY DEF TakesMade, Making, At
    <3>3. At(x) = "drop" /\ creq[x].key = creq'[r].key => stored[creq[x].to].born # 0
      <4>1. At(x) = "drop" => creq[x].to \in Configs
        BY <1>0 DEF Begun, Updating
      <4>. QED BY <1>0, <4>1 DEF MadeAndGone, At
    <3>. QED BY <2>2, <3>1, <3>2, <3>3 DEF Begun, Making, At
  <2>. QED BY <2>1, <2>2
<1>2. NamesKeptApart'
  <2>1. ASSUME NEW x \in ConfigRequests
        PROVE  /\ Begun(x)' => stored'[creq'[x].key].born \in {0, creq'[x].born}
               /\ Making(x)' => stored'[creq'[x].to].born \in {0, creq'[x].born}
               /\ At(x)' = "undo" => stored'[creq'[x].key].born = 0
    <3>1. CASE x = r
      BY <1>1, <3>1 DEF Making
    <3>2. CASE x # r
      BY <1>1, <3>2 DEF BirthsInv, NamesKeptApart
    <3>. QED BY <3>1, <3>2
  <2>2. ASSUME NEW x \in ConfigRequests, NEW y \in ConfigRequests, x # y, Making(x)', Begun(y)'
        PROVE  creq'[y].key # creq'[x].to /\ (Making(y)' => creq'[y].to # creq'[x].to)
    <3>1. Making(x) /\ x # r /\ creq'[x] = creq[x]
      BY <1>1, <2>2
    <3>2. CASE y = r
      BY <1>1, <3>1, <3>2 DEF Making
    <3>3. CASE y # r
      BY <1>1, <2>2, <3>1, <3>3 DEF BirthsInv, NamesKeptApart
    <3>. QED BY <3>2, <3>3
  <2>. QED BY <2>1, <2>2 DEF NamesKeptApart
<1>3. DeletedByNewName'
  <2>1. \A x \in ConfigRequests : At(x)' = "drop" => x # r
    OBVIOUS
  <2>. QED BY <1>1, <2>1 DEF BirthsInv, DeletedByNewName
<1>4. ASSUME NEW x \in ConfigRequests, Doomed(x)
      PROVE  Doomed(x)' /\ creq'[x] = creq[x]
  <2>1. x # r /\ At(x) = "drop" /\ stored[creq[x].to].born = 0
    BY <1>4 DEF Doomed, Begun, Updating
  <2>2. creq[x].key # creq'[r].key
    BY <1>1, <2>1
  <2>. QED BY <1>1, <1>4, <2>1, <2>2 DEF Doomed
<1>5. \A j \in Configs : \A b : Home(j, b)' <=> Home(j, b)
    BY <1>1 DEF Home
<1>6. OneHome'
    BY <1>4, <1>5 DEF BirthsInv, OneHome
<1>. QED BY <1>2, <1>3, <1>6 DEF BirthsInv

\* A rename makes the new name.
LEMMA MakesNewName ==
    ASSUME ConfigTypes, BirthsInv, NEW r \in ConfigRequests, At(r) = "make", At(r)' = "drop", Same(creq'[r], creq[r]), OthersStay(r),
           UNCHANGED <<births, dead>>, ~Exists(creq[r].to), stored'[creq[r].to].born = creq[r].born,
           \A j \in Configs \ {creq[r].to} : stored'[j] = stored[j], ~Tangles(creq[r].to, r)
    PROVE  BirthsInv'
<1>0. /\ \A x \in ConfigRequests : Begun(x) => creq[x].key \in Configs /\ creq[x].to \in Configs /\ creq[x].born \in 1 .. births
      /\ \A x \in ConfigRequests : Making(x) => Begun(x)
      /\ \A j \in Configs : Exists(j) <=> stored[j].born # 0
      /\ Begun(r) /\ ~Making(r) /\ births \in Nat
    BY BegunNames DEF Begun, Making, Updating
<1>a. creq[r].to \in Configs /\ stored[creq[r].to].born = 0 /\ creq[r].born \in 1 .. births
    BY <1>0
<1>1. ASSUME NEW x \in ConfigRequests \ {r}
      PROVE  /\ creq'[x] = creq[x] /\ At(x)' = At(x) /\ (Begun(x)' <=> Begun(x)) /\ (Making(x)' <=> Making(x))
             /\ Begun(x) => /\ creq[x].key # creq[r].to /\ creq[x].to # creq[r].to
                            /\ stored'[creq[x].key] = stored[creq[x].key] /\ stored'[creq[x].to] = stored[creq[x].to]
  <2>1. creq'[x] = creq[x]
    BY DEF OthersStay
  <2>2. Begun(x) => creq[x].key # creq[r].to /\ creq[x].to # creq[r].to
    BY DEF Tangles, Begun, At, Updating
  <2>. QED BY <1>0, <2>1, <2>2 DEF Begun, Making, At
<1>2. creq'[r].key = creq[r].key /\ creq'[r].to = creq[r].to /\ creq'[r].born = creq[r].born /\ Begun(r)' /\ Making(r)'
    BY DEF Same, Begun, Making, Updating
<1>3. NamesKeptApart'
  <2>1. ASSUME NEW x \in ConfigRequests
        PROVE  /\ Begun(x)' => stored'[creq'[x].key].born \in {0, creq'[x].born}
               /\ Making(x)' => stored'[creq'[x].to].born \in {0, creq'[x].born}
               /\ At(x)' = "undo" => stored'[creq'[x].key].born = 0
    <3>1. CASE x = r
      <4>1. stored[creq[r].key].born \in {0, creq[r].born}
        BY <1>0 DEF BirthsInv, NamesKeptApart
      <4>2. creq[r].key # creq[r].to => stored'[creq[r].key] = stored[creq[r].key]
        BY <1>0
      <4>. QED BY <1>2, <3>1, <4>1, <4>2
    <3>2. CASE x # r
      <4>1. At(x) = "undo" => Begun(x)
        BY DEF Begun, Updating
      <4>. QED BY <1>0, <1>1, <3>2, <4>1 DEF BirthsInv, NamesKeptApart
    <3>. QED BY <3>1, <3>2
  <2>2. ASSUME NEW x \in ConfigRequests, NEW y \in ConfigRequests, x # y, Making(x)', Begun(y)'
        PROVE  creq'[y].key # creq'[x].to /\ (Making(y)' => creq'[y].to # creq'[x].to)
    <3>1. CASE x = r
      BY <1>1, <1>2, <2>2, <3>1
    <3>2. CASE y = r
      <4>1. Making(x) /\ creq'[x] = creq[x] /\ creq[x].to # creq[r].to
        BY <1>0, <1>1, <2>2, <3>2
      <4>2. creq[r].key # creq[x].to
        BY <1>0, <2>2, <3>2, <4>1 DEF BirthsInv, NamesKeptApart
      <4>. QED BY <1>2, <3>2, <4>1, <4>2
    <3>3. CASE x # r /\ y # r
      BY <1>0, <1>1, <2>2, <3>3 DEF BirthsInv, NamesKeptApart
    <3>. QED BY <3>1, <3>2, <3>3
  <2>. QED BY <2>1, <2>2 DEF NamesKeptApart
<1>4. DeletedByNewName'
  <2>1. stored'[creq'[r].to].born # 0
    BY <1>0, <1>2
  <2>2. \A x \in ConfigRequests : At(x)' = "drop" /\ x # r => At(x) = "drop" /\ Begun(x)
    BY <1>1 DEF Begun, Updating
  <2>. QED BY <1>1, <2>1, <2>2 DEF BirthsInv, DeletedByNewName
<1>5. ASSUME NEW x \in ConfigRequests, Doomed(x)
      PROVE  Doomed(x)' /\ creq'[x] = creq[x]
  <2>1. x # r /\ Begun(x)
    BY <1>5 DEF Doomed, Begun, Updating
  <2>. QED BY <1>0, <1>1, <1>2, <1>5, <2>1 DEF Doomed
<1>6. ASSUME NEW b \in 1 .. births, NEW j \in Configs
      PROVE  Home(j, b)' <=> Home(j, b)
  <2>1. CASE j = creq[r].to
    <3>1. ~Home(j, b)
      BY <1>a, <2>1 DEF Home
    <3>2. ~Home(j, b)'
      BY <1>2, <2>1 DEF Home
    <3>. QED BY <3>1, <3>2
  <2>2. CASE j # creq[r].to
    <3>1. stored'[j] = stored[j]
      BY <2>2
    <3>. QED BY <1>0, <1>1, <1>2, <2>2, <3>1 DEF Home
  <2>. QED BY <2>1, <2>2
<1>7. OneHome'
  <2>1. ASSUME NEW b \in 1 .. births
        PROVE  /\ b \notin dead => \E i \in Configs : \A j \in Configs : Home(j, b)' <=> j = i
               /\ b \in dead => \A j \in Configs : Home(j, b)' => \E x \in ConfigRequests : Doomed(x)' /\ creq'[x].born = b /\ creq'[x].key = j
    <3>1. b \notin dead => \E i \in Configs : \A j \in Configs : Home(j, b) <=> j = i
      BY DEF BirthsInv, OneHome
    <3>2. b \in dead => \A j \in Configs : Home(j, b) => \E x \in ConfigRequests : Doomed(x) /\ creq[x].born = b /\ creq[x].key = j
      BY DEF BirthsInv, OneHome
    <3>3. \A j \in Configs : Home(j, b)' <=> Home(j, b)
      BY <1>6
    <3>4. b \in dead => \A j \in Configs : Home(j, b)' => \E x \in ConfigRequests : Doomed(x)' /\ creq'[x].born = b /\ creq'[x].key = j
      BY <1>5, <3>2, <3>3
    <3>. QED BY <3>1, <3>3, <3>4
  <2>. QED BY <2>1 DEF OneHome
<1>. QED BY <1>3, <1>4, <1>7 DEF BirthsInv

\* The old name is gone already: the new one will be taken back.
LEMMA TurnsBack ==
    ASSUME ConfigTypes, BirthsInv, NEW r \in ConfigRequests, At(r) = "drop", At(r)' = "undo", Same(creq'[r], creq[r]), OthersStay(r),
           UNCHANGED <<stored, births, dead>>, ~Exists(creq[r].key)
    PROVE  BirthsInv'
<1>0. creq[r].key \in Configs /\ stored[creq[r].key].born = 0 /\ Making(r) /\ Making(r)'
    BY BegunNames DEF Begun, Making, Updating
<1>1. \A x \in ConfigRequests :
        /\ creq'[x].key = creq[x].key /\ creq'[x].to = creq[x].to /\ creq'[x].born = creq[x].born /\ (x # r => creq'[x] = creq[x] /\ At(x)' = At(x))
        /\ (Begun(x)' <=> Begun(x)) /\ (Making(x)' <=> Making(x))
    BY DEF OthersStay, Same, Begun, Making, At, Updating
<1>2. NamesKeptApart'
  <2>1. ASSUME NEW x \in ConfigRequests
        PROVE  /\ Begun(x)' => stored'[creq'[x].key].born \in {0, creq'[x].born}
               /\ Making(x)' => stored'[creq'[x].to].born \in {0, creq'[x].born}
               /\ At(x)' = "undo" => stored'[creq'[x].key].born = 0
    BY <1>0, <1>1 DEF BirthsInv, NamesKeptApart
  <2>2. ASSUME NEW x \in ConfigRequests, NEW y \in ConfigRequests, x # y, Making(x)', Begun(y)'
        PROVE  creq'[y].key # creq'[x].to /\ (Making(y)' => creq'[y].to # creq'[x].to)
    BY <1>1, <2>2 DEF BirthsInv, NamesKeptApart
  <2>. QED BY <2>1, <2>2 DEF NamesKeptApart
<1>3. DeletedByNewName'
    BY <1>1 DEF BirthsInv, DeletedByNewName
<1>4. \A j \in Configs : \A b : Home(j, b)' <=> Home(j, b)
    BY <1>1 DEF Home
<1>5. ASSUME NEW x \in ConfigRequests, Doomed(x), NEW b \in 1 .. births, NEW j \in Configs, Home(j, b), creq[x].key = j
      PROVE  Doomed(x)' /\ creq'[x] = creq[x]
  <2>1. x # r
    BY <1>0, <1>5 DEF Home
  <2>. QED BY <1>1, <1>5, <2>1 DEF Doomed
<1>6. OneHome'
    BY <1>4, <1>5 DEF BirthsInv, OneHome
<1>. QED BY <1>2, <1>3, <1>6 DEF BirthsInv

\* A name is cleared: by the rename that started from it or takes back what it
\* made, or by a delete.
Cleared(k) == stored'[k] = NoConf /\ \A j \in Configs \ {k} : stored'[j] = stored[j]

\* The old name goes.
LEMMA DropsOldName ==
    ASSUME ConfigTypes, BirthsInv, NEW r \in ConfigRequests, At(r) = "drop", ~Begun(r)', OthersStay(r),
           UNCHANGED <<births, dead>>, Exists(creq[r].key), Cleared(creq[r].key)
    PROVE  BirthsInv'
<1>0. /\ \A x \in ConfigRequests : Begun(x) => creq[x].key \in Configs /\ creq[x].to \in Configs /\ creq[x].born \in 1 .. births
      /\ \A x \in ConfigRequests : Making(x) => Begun(x)
      /\ Begun(r) /\ Making(r) /\ ~Making(r)' /\ births \in Nat
    BY BegunNames DEF Begun, Making, Updating
<1>a. creq[r].key \in Configs /\ creq[r].to \in Configs /\ creq[r].born \in 1 .. births /\ stored[creq[r].key].born = creq[r].born
    BY <1>0, BegunNames DEF BirthsInv, NamesKeptApart
<1>b. NoConf.born = 0
    BY DEF NoConf
<1>1. ASSUME NEW x \in ConfigRequests \ {r}
      PROVE  creq'[x] = creq[x] /\ At(x)' = At(x) /\ (Begun(x)' <=> Begun(x)) /\ (Making(x)' <=> Making(x))
    BY DEF OthersStay, Begun, Making, At
<1>2. ASSUME NEW j \in Configs
      PROVE  stored'[j].born = stored[j].born \/ (stored'[j].born = 0 /\ j = creq[r].key)
    BY <1>a, <1>b DEF Cleared
<1>3. NamesKeptApart'
  <2>1. ASSUME NEW x \in ConfigRequests
        PROVE  /\ Begun(x)' => stored'[creq'[x].key].born \in {0, creq'[x].born}
               /\ Making(x)' => stored'[creq'[x].to].born \in {0, creq'[x].born}
               /\ At(x)' = "undo" => stored'[creq'[x].key].born = 0
    <3>1. CASE x = r
      BY <1>0, <3>1 DEF Begun, Updating
    <3>2. CASE x # r
      <4>1. At(x) = "undo" => Begun(x)
        BY DEF Begun, Updating
      <4>. QED BY <1>0, <1>1, <1>2, <3>2, <4>1 DEF BirthsInv, NamesKeptApart
    <3>. QED BY <3>1, <3>2
  <2>2. ASSUME NEW x \in ConfigRequests, NEW y \in ConfigRequests, x # y, Making(x)', Begun(y)'
        PROVE  creq'[y].key # creq'[x].to /\ (Making(y)' => creq'[y].to # creq'[x].to)
    <3>1. x # r /\ y # r
      BY <1>0, <2>2
    <3>. QED BY <1>1, <2>2, <3>1 DEF BirthsInv, NamesKeptApart
  <2>. QED BY <2>1, <2>2 DEF NamesKeptApart
\* What another rename made is not the name that goes.
<1>4. ASSUME NEW x \in ConfigRequests \ {r}, Making(x)
      PROVE  stored'[creq[x].to] = stored[creq[x].to] /\ creq[x].to # creq[r].to
  <2>1. creq[r].key # creq[x].to /\ creq[r].to # creq[x].to
    BY <1>0, <1>4 DEF BirthsInv, NamesKeptApart
  <2>. QED BY <1>0, <1>4, <2>1 DEF Cleared
<1>5. DeletedByNewName'
  <2>1. \A x \in ConfigRequests : At(x)' = "drop" => x # r /\ At(x) = "drop" /\ Making(x)
    BY <1>0, <1>1 DEF Begun, Updating, Making
  <2>. QED BY <1>0, <1>1, <1>2, <1>4, <2>1 DEF BirthsInv, DeletedByNewName
<1>6. ASSUME NEW x \in ConfigRequests, x # r, Doomed(x)
      PROVE  Doomed(x)' /\ creq'[x] = creq[x]
  <2>1. Making(x)
    BY <1>6 DEF Doomed, Making
  <2>. QED BY <1>0, <1>1, <1>4, <1>6, <2>1 DEF Doomed
\* Where a config is at home afterwards.
<1>7. ASSUME NEW b \in 1 .. births, NEW j \in Configs
      PROVE  Home(j, b)' <=> \/ Home(j, b) /\ j # creq[r].key
                             \/ j = creq[r].to /\ stored[j].born = b /\ j # creq[r].key
  <2>1. CASE j = creq[r].key
    BY <1>a, <1>b, <2>1 DEF Cleared, Home
  <2>2. CASE j # creq[r].key
    <3>1. stored'[j] = stored[j]
      BY <2>2 DEF Cleared
    <3>2. CASE j = creq[r].to
      <4>1. \A x \in ConfigRequests : Making(x)' => creq'[x].to # j
        BY <1>0, <1>1, <1>4, <3>2
      <4>. QED BY <2>2, <3>1, <3>2, <4>1 DEF Home
    <3>3. CASE j # creq[r].to
      <4>1. (\A x \in ConfigRequests : Making(x)' => creq'[x].to # j) <=> (\A x \in ConfigRequests : Making(x) => creq[x].to # j)
        BY <1>0, <1>1, <3>3
      <4>. QED BY <2>2, <3>1, <3>3, <4>1 DEF Home
    <3>. QED BY <3>2, <3>3
  <2>. QED BY <2>1, <2>2
\* The old name was a home.
<1>8. creq[r].key # creq[r].to => Home(creq[r].key, creq[r].born)
    BY <1>0, <1>a DEF BirthsInv, NamesKeptApart, Home
<1>9. ASSUME NEW b \in 1 .. births
      PROVE  /\ b \notin dead => \E i \in Configs : \A j \in Configs : Home(j, b)' <=> j = i
             /\ b \in dead => \A j \in Configs : Home(j, b)' => \E x \in ConfigRequests : Doomed(x)' /\ creq'[x].born = b /\ creq'[x].key = j
  <2>1. CASE b \notin dead
    <3>1. PICK i \in Configs : \A j \in Configs : Home(j, b) <=> j = i
      BY <2>1 DEF BirthsInv, OneHome
    <3>2. CASE creq[r].key = creq[r].to
      <4>1. ~Home(creq[r].key, b)
        BY <1>0, <3>2 DEF Home
      <4>2. \A j \in Configs : Home(j, b)' <=> j = i
        BY <1>7, <3>1, <3>2, <4>1
      <4>. QED BY <2>1, <4>2
    <3>3. CASE creq[r].key # creq[r].to /\ b # creq[r].born
      <4>1. ~Home(creq[r].key, b) /\ stored[creq[r].to].born # b
        BY <1>0, <1>a, <3>3 DEF Home, BirthsInv, NamesKeptApart
      <4>2. \A j \in Configs : Home(j, b)' <=> j = i
        BY <1>7, <3>1, <4>1
      <4>. QED BY <2>1, <4>2
    <3>4. CASE creq[r].key # creq[r].to /\ b = creq[r].born
      <4>1. i = creq[r].key
        BY <1>8, <1>a, <3>1, <3>4
      <4>2. stored[creq[r].to].born = b
        BY <1>0, <1>a, <2>1, <3>4 DEF BirthsInv, NamesKeptApart, DeletedByNewName
      <4>3. \A j \in Configs : Home(j, b)' <=> j = creq[r].to
        BY <1>7, <3>1, <3>4, <4>1, <4>2
      <4>. QED BY <1>a, <2>1, <4>3
    <3>. QED BY <3>2, <3>3, <3>4
  <2>2. CASE b \in dead
    <3>1. ASSUME NEW j \in Configs, Home(j, b)'
          PROVE  \E x \in ConfigRequests : Doomed(x)' /\ creq'[x].born = b /\ creq'[x].key = j
      <4>1. CASE Home(j, b) /\ j # creq[r].key
        <5>1. PICK x \in ConfigRequests : Doomed(x) /\ creq[x].born = b /\ creq[x].key = j
          BY <2>2, <4>1 DEF BirthsInv, OneHome
        <5>2. x # r
          BY <4>1, <5>1
        <5>. QED BY <1>6, <5>1, <5>2
      <4>2. CASE j = creq[r].to /\ stored[j].born = b /\ j # creq[r].key
        <5>1. creq[r].born = b /\ Home(creq[r].key, b)
          BY <1>0, <1>8, <4>2 DEF BirthsInv, NamesKeptApart
        <5>2. PICK x \in ConfigRequests : Doomed(x) /\ creq[x].key = creq[r].key
          BY <1>a, <2>2, <5>1 DEF BirthsInv, OneHome
        <5>3. x # r
          BY <4>2, <5>2 DEF Doomed
        <5>. QED BY <1>0, <5>2, <5>3 DEF Doomed
      <4>. QED BY <1>7, <3>1, <4>1, <4>2
    <3>. QED BY <2>2, <3>1
  <2>. QED BY <2>1, <2>2
<1>10. OneHome'
    BY <1>9 DEF OneHome
<1>. QED BY <1>3, <1>5, <1>10 DEF BirthsInv

\* The new name is taken back.
LEMMA TakesBackNewName ==
    ASSUME ConfigTypes, BirthsInv, NEW r \in ConfigRequests, At(r) = "undo", ~Begun(r)', OthersStay(r),
           UNCHANGED <<births, dead>>, Cleared(creq[r].to)
    PROVE  BirthsInv'
<1>0. /\ \A x \in ConfigRequests : Begun(x) => creq[x].key \in Configs /\ creq[x].to \in Configs /\ creq[x].born \in 1 .. births
      /\ \A x \in ConfigRequests : Making(x) => Begun(x)
      /\ Begun(r) /\ Making(r) /\ ~Making(r)' /\ births \in Nat
    BY BegunNames DEF Begun, Making, Updating
<1>a. creq[r].to \in Configs /\ NoConf.born = 0
    BY <1>0 DEF NoConf
<1>1. ASSUME NEW x \in ConfigRequests \ {r}
      PROVE  /\ creq'[x] = creq[x] /\ At(x)' = At(x) /\ (Begun(x)' <=> Begun(x)) /\ (Making(x)' <=> Making(x))
             /\ Begun(x) => creq[x].key # creq[r].to /\ stored'[creq[x].key] = stored[creq[x].key]
             /\ Making(x) => creq[x].to # creq[r].to /\ stored'[creq[x].to] = stored[creq[x].to]
  <2>1. creq'[x] = creq[x] /\ At(x)' = At(x) /\ (Begun(x)' <=> Begun(x)) /\ (Making(x)' <=> Making(x))
    BY DEF OthersStay, Begun, Making, At
  <2>2. /\ Begun(x) => creq[x].key # creq[r].to
        /\ Making(x) => creq[x].to # creq[r].to
    BY <1>0 DEF BirthsInv, NamesKeptApart
  <2>. QED BY <1>0, <2>1, <2>2 DEF Cleared
<1>2. NamesKeptApart'
  <2>1. ASSUME NEW x \in ConfigRequests
        PROVE  /\ Begun(x)' => stored'[creq'[x].key].born \in {0, creq'[x].born}
               /\ Making(x)' => stored'[creq'[x].to].born \in {0, creq'[x].born}
               /\ At(x)' = "undo" => stored'[creq'[x].key].born = 0
    <3>1. CASE x = r
      BY <1>0, <3>1 DEF Begun, Updating
    <3>2. CASE x # r
      <4>1. At(x) = "undo" => Begun(x)
        BY DEF Begun, Updating
      <4>. QED BY <1>0, <1>1, <3>2, <4>1 DEF BirthsInv, NamesKeptApart
    <3>. QED BY <3>1, <3>2
  <2>2. ASSUME NEW x \in ConfigRequests, NEW y \in ConfigRequests, x # y, Making(x)', Begun(y)'
        PROVE  creq'[y].key # creq'[x].to /\ (Making(y)' => creq'[y].to # creq'[x].to)
    <3>1. x # r /\ y # r
      BY <1>0, <2>2
    <3>. QED BY <1>1, <2>2, <3>1 DEF BirthsInv, NamesKeptApart
  <2>. QED BY <2>1, <2>2 DEF NamesKeptApart
<1>3. \A x \in ConfigRequests : At(x) = "drop" \/ At(x)' = "drop" => x # r /\ At(x) = "drop" /\ Making(x) /\ Begun(x)
    BY <1>0, <1>1 DEF Begun, Updating, Making
<1>4. DeletedByNewName'
    BY <1>1, <1>3 DEF BirthsInv, DeletedByNewName
<1>5. ASSUME NEW x \in ConfigRequests, Doomed(x)
      PROVE  Doomed(x)' /\ creq'[x] = creq[x]
  <2>1. x # r /\ Making(x)
    BY <1>3, <1>5 DEF Doomed
  <2>. QED BY <1>0, <1>1, <1>5, <2>1 DEF Doomed
<1>6. ASSUME NEW b \in 1 .. births, NEW j \in Configs
      PROVE  Home(j, b)' <=> Home(j, b)
  <2>1. CASE j = creq[r].to
    BY <1>0, <1>a, <2>1 DEF Cleared, Home
  <2>2. CASE j # creq[r].to
    <3>1. stored'[j] = stored[j]
      BY <2>2 DEF Cleared
    <3>. QED BY <1>0, <1>1, <2>2, <3>1 DEF Home
  <2>. QED BY <2>1, <2>2
<1>7. OneHome'
  <2>1. ASSUME NEW b \in 1 .. births
        PROVE  /\ b \notin dead => \E i \in Configs : \A j \in Configs : Home(j, b)' <=> j = i
               /\ b \in dead => \A j \in Configs : Home(j, b)' => \E x \in ConfigRequests : Doomed(x)' /\ creq'[x].born = b /\ creq'[x].key = j
    <3>1. b \notin dead => \E i \in Configs : \A j \in Configs : Home(j, b) <=> j = i
      BY DEF BirthsInv, OneHome
    <3>2. b \in dead => \A j \in Configs : Home(j, b) => \E x \in ConfigRequests : Doomed(x) /\ creq[x].born = b /\ creq[x].key = j
      BY DEF BirthsInv, OneHome
    <3>3. \A j \in Configs : Home(j, b)' <=> Home(j, b)
      BY <1>6
    <3>4. b \in dead => \A j \in Configs : Home(j, b)' => \E x \in ConfigRequests : Doomed(x)' /\ creq'[x].born = b /\ creq'[x].key = j
      BY <1>5, <3>2, <3>3
    <3>. QED BY <3>1, <3>3, <3>4
  <2>. QED BY <2>1 DEF OneHome
<1>. QED BY <1>2, <1>4, <1>7 DEF BirthsInv

\* A delete, by whatever name.
LEMMA DeletesName ==
    ASSUME ConfigTypes, BirthsInv, NEW r \in ConfigRequests, ~Begun(r), ~Begun(r)', OthersStay(r), births' = births,
           NEW k \in Configs, Exists(k), Cleared(k), ~MadeBeside(k),
           dead' = IF TakenBack(k) THEN dead ELSE dead \cup {stored[k].born}
    PROVE  BirthsInv'
<1>0. /\ \A x \in ConfigRequests : Begun(x) => creq[x].key \in Configs /\ creq[x].to \in Configs /\ creq[x].born \in 1 .. births
      /\ \A x \in ConfigRequests : Making(x) => Begun(x)
      /\ \A j \in Configs : Exists(j) <=> stored[j].born # 0
      /\ births \in Nat /\ NoConf.born = 0 /\ dead \subseteq dead' /\ stored[k].born # 0 /\ stored'[k].born = 0
    BY BegunNames DEF NoConf, Cleared
<1>1. ASSUME NEW x \in ConfigRequests
      PROVE  (Begun(x)' <=> Begun(x)) /\ (Making(x)' <=> Making(x)) /\ (Begun(x) => x # r /\ creq'[x] = creq[x] /\ At(x)' = At(x))
  <2>1. CASE x = r
    BY <2>1 DEF Begun, Making, At, Updating
  <2>2. CASE x # r
    BY <2>2 DEF OthersStay, Begun, Making, At
  <2>. QED BY <2>1, <2>2
<1>2. ASSUME NEW j \in Configs
      PROVE  stored'[j].born = (IF j = k THEN 0 ELSE stored[j].born)
    BY <1>0 DEF Cleared
<1>3. NamesKeptApart'
  <2>1. ASSUME NEW x \in ConfigRequests
        PROVE  /\ Begun(x)' => stored'[creq'[x].key].born \in {0, creq'[x].born}
               /\ Making(x)' => stored'[creq'[x].to].born \in {0, creq'[x].born}
               /\ At(x)' = "undo" => stored'[creq'[x].key].born = 0
    <3>1. At(x)' = "undo" => Begun(x) /\ At(x) = "undo"
      BY <1>1 DEF Begun, Updating
    <3>. QED BY <1>0, <1>1, <1>2, <3>1 DEF BirthsInv, NamesKeptApart
  <2>2. ASSUME NEW x \in ConfigRequests, NEW y \in ConfigRequests, x # y, Making(x)', Begun(y)'
        PROVE  creq'[y].key # creq'[x].to /\ (Making(y)' => creq'[y].to # creq'[x].to)
    BY <1>0, <1>1, <2>2 DEF BirthsInv, NamesKeptApart
  <2>. QED BY <2>1, <2>2 DEF NamesKeptApart
<1>4. ASSUME NEW x \in ConfigRequests
      PROVE  /\ (At(x) = "drop" \/ At(x)' = "drop") => At(x) = "drop" /\ At(x)' = "drop" /\ Making(x) /\ Begun(x) /\ creq'[x] = creq[x]
             /\ Begun(x) => creq[x].key \in Configs /\ creq[x].to \in Configs
    BY <1>0, <1>1 DEF Begun, Making, Updating
\* A rename whose new name goes and whose old name is there.
<1>5. ASSUME NEW x \in ConfigRequests, Making(x), creq[x].to = k, ~TakenBack(k)
      PROVE  /\ At(x) = "drop" /\ creq[x].key # creq[x].to /\ stored[k].born = creq[x].born /\ creq[x].born \in dead'
             /\ stored[creq[x].key].born = creq[x].born /\ Doomed(x)'
  <2>1. creq[x].key # k /\ stored[creq[x].key].born # 0
    BY <1>0, <1>5 DEF TakenBack, Making, At
  <2>2. At(x) = "drop"
    BY <1>5, <2>1 DEF BirthsInv, NamesKeptApart, Making
  <2>3. stored[k].born = creq[x].born /\ stored[creq[x].key].born = creq[x].born
    BY <1>0, <1>5, <2>1 DEF BirthsInv, NamesKeptApart
  <2>4. \A y \in ConfigRequests \ {x} : Begun(y) => creq[y].key # creq[x].key
    BY <1>5, <2>2 DEF MadeBeside, Begun, At, Updating
  <2>5. \A y \in ConfigRequests \ {x} : Begun(y)' => creq'[y].key # creq'[x].key
    BY <1>1, <1>4, <2>2, <2>4
  <2>6. Doomed(x)'
    BY <1>0, <1>4, <1>5, <2>1, <2>2, <2>5 DEF Doomed
  <2>. QED BY <1>5, <2>1, <2>2, <2>3, <2>6
<1>6. DeletedByNewName'
  <2>1. ASSUME NEW x \in ConfigRequests, At(x)' = "drop", creq'[x].key # creq'[x].to, stored'[creq'[x].to].born = 0, stored'[creq'[x].key].born # 0
        PROVE  creq'[x].born \in dead'
    <3>1. At(x) = "drop" /\ creq'[x] = creq[x] /\ Making(x) /\ creq[x].key \in Configs /\ creq[x].to \in Configs
      BY <1>4, <2>1
    <3>2. stored[creq[x].key].born # 0 /\ creq[x].key # k
      BY <1>2, <2>1, <3>1
    <3>3. CASE stored[creq[x].to].born = 0
      BY <1>0, <2>1, <3>1, <3>2, <3>3 DEF BirthsInv, DeletedByNewName
    <3>4. CASE stored[creq[x].to].born # 0
      <4>1. creq[x].to = k
        BY <1>2, <2>1, <3>1, <3>4
      <4>2. CASE ~TakenBack(k)
        BY <1>5, <3>1, <4>1, <4>2
      <4>3. CASE TakenBack(k)
        <5>1. PICK y \in ConfigRequests : Making(y) /\ creq[y].to = k /\ (creq[y].key = k \/ ~Exists(creq[y].key))
          BY <4>3 DEF TakenBack, Making, At
        <5>2. y = x
          BY <1>0, <3>1, <4>1, <5>1 DEF BirthsInv, NamesKeptApart
        <5>. QED BY <1>0, <3>1, <3>2, <5>1, <5>2
      <4>. QED BY <4>2, <4>3
    <3>. QED BY <3>3, <3>4
  <2>. QED BY <2>1 DEF DeletedByNewName
<1>7. ASSUME NEW x \in ConfigRequests, Doomed(x)
      PROVE  Doomed(x)' /\ creq'[x] = creq[x]
  <2>1. At(x) = "drop" /\ At(x)' = "drop" /\ creq'[x] = creq[x] /\ creq[x].to \in Configs
    BY <1>4, <1>7 DEF Doomed
  <2>2. stored'[creq[x].to].born = 0
    BY <1>2, <1>7, <2>1 DEF Doomed
  <2>. QED BY <1>1, <1>7, <2>1, <2>2 DEF Doomed
<1>8. ASSUME NEW b \in 1 .. births, NEW j \in Configs
      PROVE  Home(j, b)' <=> Home(j, b) /\ j # k
    BY <1>0, <1>1, <1>2 DEF Home
<1>9. ASSUME NEW b \in 1 .. births
      PROVE  /\ b \notin dead' => \E i \in Configs : \A j \in Configs : Home(j, b)' <=> j = i
             /\ b \in dead' => \A j \in Configs : Home(j, b)' => \E x \in ConfigRequests : Doomed(x)' /\ creq'[x].born = b /\ creq'[x].key = j
  <2>1. CASE b \notin dead'
    <3>1. b \notin dead
      BY <1>0, <2>1
    <3>2. PICK i \in Configs : \A j \in Configs : Home(j, b) <=> j = i
      BY <3>1 DEF BirthsInv, OneHome
    <3>3. ~Home(k, b)
      <4>1. CASE Home(k, b)
        <5>1. stored[k].born = b /\ \A x \in ConfigRequests : Making(x) => creq[x].to # k
          BY <4>1 DEF Home
        <5>2. ~TakenBack(k)
          BY <5>1 DEF TakenBack, Making, At
        <5>. QED BY <2>1, <5>1, <5>2
      <4>. QED BY <4>1
    <3>4. \A j \in Configs : Home(j, b)' <=> j = i
      BY <1>8, <3>2, <3>3
    <3>. QED BY <2>1, <3>4
  <2>2. CASE b \in dead
    <3>1. ASSUME NEW j \in Configs, Home(j, b)'
          PROVE  \E x \in ConfigRequests : Doomed(x)' /\ creq'[x].born = b /\ creq'[x].key = j
      <4>1. Home(j, b)
        BY <1>8, <3>1
      <4>2. PICK x \in ConfigRequests : Doomed(x) /\ creq[x].born = b /\ creq[x].key = j
        BY <2>2, <4>1 DEF BirthsInv, OneHome
      <4>. QED BY <1>7, <4>2
    <3>. QED BY <1>0, <2>2, <3>1
  <2>3. CASE b \in dead' /\ b \notin dead
    <3>1. ~TakenBack(k) /\ stored[k].born = b
      BY <2>3
    <3>2. PICK i \in Configs : \A j \in Configs : Home(j, b) <=> j = i
      BY <2>3 DEF BirthsInv, OneHome
    <3>3. CASE Home(k, b)
      <4>1. \A j \in Configs : ~Home(j, b)'
        BY <1>8, <3>2, <3>3
      <4>. QED BY <2>3, <4>1
    <3>4. CASE ~Home(k, b)
      <4>1. PICK x \in ConfigRequests : Making(x) /\ creq[x].to = k
        BY <3>1, <3>4 DEF Home
      <4>2. /\ creq[x].born = b /\ Doomed(x)' /\ creq[x].key # creq[x].to /\ stored[creq[x].key].born = b
            /\ creq'[x] = creq[x] /\ creq[x].key \in Configs
        BY <1>4, <1>5, <3>1, <4>1
      <4>3. Home(creq[x].key, b)
        BY <1>0, <4>1, <4>2 DEF Home, BirthsInv, NamesKeptApart
      <4>4. i = creq[x].key
        BY <3>2, <4>2, <4>3
      <4>5. ASSUME NEW j \in Configs, Home(j, b)'
            PROVE  j = creq[x].key
        BY <1>8, <3>2, <4>4, <4>5
      <4>. QED BY <2>3, <4>2, <4>5
    <3>. QED BY <3>3, <3>4
  <2>. QED BY <2>1, <2>2, <2>3
<1>10. OneHome'
    BY <1>9 DEF OneHome
<1>. QED BY <1>3, <1>6, <1>10 DEF BirthsInv

----------------------------------------------------------------------------
(* All together.                                                           *)

ConfigsInv == ConfigTypes /\ (~excused => BirthsInv)

LEMMA ConfigsBegin ==
    ASSUME ConfigsInit
    PROVE  ConfigsInv
<1>. USE DEF ConfigsInit
<1>1. births = 0 /\ dead = {} /\ excused = FALSE /\ \A k \in Configs : stored[k] = NoConf
    OBVIOUS
<1>2. StoredTypes
    BY DEF StoredTypes
<1>3. \A r \in ConfigRequests : creq[r] = AtRest
    OBVIOUS
<1>4. \A n : RequestFits(AtRest, n)
    BY RequestFields DEF RequestFits, Updating
<1>5. CreqTypes
    BY <1>3, <1>4, RequestFields DEF CreqTypes
<1>6. \A r \in ConfigRequests : ~Begun(r) /\ ~Making(r) /\ At(r) = "rest"
    BY <1>3, RequestFields DEF Begun, Making, At, Updating
<1>7. BirthsInv
    BY <1>1, <1>6 DEF BirthsInv, NamesKeptApart, DeletedByNewName, OneHome
<1>. QED BY <1>2, <1>5, <1>7 DEF ConfigsInv, ConfigTypes

\* A step that changes no birth.
LEMMA QuietBirths ==
    ASSUME ConfigTypes, BirthsInv, NEW r \in ConfigRequests, NEW p, Becomes(r, p), UNCHANGED <<births, dead>>,
           \A k \in Configs : stored'[k].born = stored[k].born,
           ~Making(r), p.at \notin Updating \/ (At(r) = "put" /\ p.at = "make" /\ Same(p, creq[r]))
    PROVE  BirthsInv'
<1>1. creq'[r] = p /\ OthersStay(r)
    BY BecomesIt DEF ConfigTypes
<1>2. ASSUME NEW x \in ConfigRequests
      PROVE  \/ creq'[x] = creq[x]
             \/ At(x) \notin {"drop", "undo"} /\ creq'[x].at \notin Updating
             \/ At(x) \in {"put", "make"} /\ creq'[x].at \in {"put", "make"} /\ Same(creq'[x], creq[x])
  <2>1. CASE x = r
    BY <1>1, <2>1 DEF Making
  <2>2. CASE x # r
    BY <1>1, <2>2 DEF OthersStay
  <2>. QED BY <2>1, <2>2
<1>. QED BY <1>2, SameBirths

LEMMA ConfigSteps ==
    ASSUME ConfigsInv, NEW r \in ConfigRequests, ConfigCommand(r) \/ ConfigStep(r)
    PROVE  ConfigsInv'
<1>0. ConfigTypes /\ CreqTypes /\ StoredTypes /\ excused \in BOOLEAN
    BY DEF ConfigsInv, ConfigTypes, StoredTypes
<1>1. CASE ConfigCommand(r)
  <2>1. PICK q : Becomes(r, q) /\ q.at \in {"next", "topology", "edit"} /\ RequestFits(q, births)
    BY <1>0, <1>1, CommandsTo
  <2>2. creq[r].at = "rest" /\ UNCHANGED <<stored, births, dead, excused>>
    BY <1>0, <1>1, CommandsTo
  <2>3. ConfigTypes'
    BY <1>0, <2>1, <2>2, QuietTypes
  <2>4. ~Making(r) /\ q.at \notin Updating
    BY <2>1, <2>2 DEF Making, At, Updating
  <2>5. BirthsInv => BirthsInv'
    BY <1>0, <2>1, <2>2, <2>4, QuietBirths
  <2>. QED BY <2>2, <2>3, <2>5 DEF ConfigsInv
<1>2. CASE TopologyRead(r) \/ SkipBuilderFile(r) \/ (\E b \in Bridges : CreateHooked(r, b)) \/ ReconfigureGets(r)
           \/ DeleteGets(r) \/ WalkDefaults(r) \/ StartupLists(r) \/ InitializeComponent(r)
  <2>1. PICK q : Becomes(r, q) /\ q.at \notin Updating /\ RequestFits(q, births)
    BY <1>0, <1>2, QuietSteps
  <2>2. creq[r].at \notin Updating /\ UNCHANGED <<stored, births, dead, excused>>
    BY <1>0, <1>2, QuietSteps
  <2>3. ConfigTypes'
    BY <1>0, <2>1, <2>2, QuietTypes
  <2>4. ~Making(r)
    BY <2>2 DEF Making, At, Updating
  <2>5. BirthsInv => BirthsInv'
    BY <1>0, <2>1, <2>2, <2>4, QuietBirths
  <2>. QED BY <2>2, <2>3, <2>5 DEF ConfigsInv
<1>3. CASE UpdateConfig(r)
  <2>1. /\ ConfigTypes' /\ creq[r].at = "edit" /\ UNCHANGED <<stored, births, dead>>
        /\ excused' = (excused \/ TakesMade(creq[r].key) \/ MadeAndGone(creq[r].key))
    BY <1>0, <1>3, UpdateConfigStep
  <2>2. PICK p : /\ Becomes(r, p) /\ p.at \in {"rest", "put"}
                 /\ p.at = "put" => p.key = creq[r].key /\ p.to = creq[r].to /\ Exists(p.key) /\ p.born = stored[p.key].born
    BY <1>0, <1>3, UpdateConfigStep
  <2>3. ~Making(r) /\ ~Begun(r)
    BY <2>1 DEF Making, Begun, At, Updating
  <2>4. CASE p.at = "rest"
    <3>1. p.at \notin Updating
      BY <2>4 DEF Updating
    <3>2. BirthsInv => BirthsInv'
      BY <1>0, <2>1, <2>2, <2>3, <3>1, QuietBirths
    <3>. QED BY <2>1, <3>2 DEF ConfigsInv
  <2>5. CASE p.at = "put"
    <3>1. creq'[r] = p /\ OthersStay(r) /\ At(r)' = "put"
      BY <1>0, <2>2, <2>5, BecomesIt DEF At
    <3>2. creq[r].key \in Configs
      BY <1>0, <2>1 DEF CreqTypes, RequestFits
    <3>3. BirthsInv /\ ~excused' => BirthsInv'
      BY <1>0, <2>1, <2>2, <2>3, <2>5, <3>1, <3>2, StartsFromHome
    <3>. QED BY <2>1, <3>3 DEF ConfigsInv
  <2>. QED BY <2>2, <2>4, <2>5
<1>4. CASE StoreCreate(r) \/ CreateDefault(r)
  <2>1. ConfigTypes' /\ creq[r].at \notin Updating /\ dead' = dead
    BY <1>0, <1>4, NewBirthStep
  <2>2. PICK p : Becomes(r, p) /\ p.at \notin Updating
    BY <1>0, <1>4, NewBirthStep
  <2>3. ~Making(r) /\ ~Begun(r) /\ ~Begun(r)' /\ OthersStay(r)
    BY <1>0, <2>1, <2>2, BecomesIt DEF Making, Begun, At, Updating
  <2>4. CASE UNCHANGED <<stored, births, excused>>
    <3>1. BirthsInv => BirthsInv'
      BY <1>0, <2>1, <2>2, <2>3, <2>4, QuietBirths
    <3>. QED BY <2>1, <2>4, <3>1 DEF ConfigsInv
  <2>5. CASE ~UNCHANGED <<stored, births, excused>>
    <3>1. PICK k \in Configs :
                   /\ ~Exists(k) /\ births' = births + 1 /\ stored'[k].born = births + 1
                   /\ \A j \in Configs \ {k} : stored'[j] = stored[j]
                   /\ excused' = (excused \/ Tangles(k, r))
      BY <1>0, <1>4, <2>5, NewBirthStep
    <3>2. BirthsInv /\ ~excused' => BirthsInv'
      BY <1>0, <2>1, <2>3, <3>1, NewBirthHome
    <3>. QED BY <2>1, <3>1, <3>2 DEF ConfigsInv
  <2>. QED BY <2>4, <2>5
<1>5. CASE StoreUpdate(r)
  <2>1. /\ ConfigTypes' /\ creq[r].at = "put" /\ UNCHANGED <<births, dead, excused>>
        /\ \A k \in Configs : stored'[k].born = stored[k].born
    BY <1>0, <1>5, StoreUpdateStep
  <2>2. PICK p : Becomes(r, p) /\ (p.at \notin Updating \/ (p.at = "make" /\ Same(p, creq[r])))
    BY <1>0, <1>5, StoreUpdateStep
  <2>3. ~Making(r) /\ At(r) = "put"
    BY <2>1 DEF Making, At
  <2>4. BirthsInv => BirthsInv'
    BY <1>0, <2>1, <2>2, <2>3, QuietBirths
  <2>. QED BY <2>1, <2>4 DEF ConfigsInv
<1>6. CASE RenameCreates(r)
  <2>1. ConfigTypes' /\ creq[r].at = "make" /\ UNCHANGED <<births, dead>>
    BY <1>0, <1>6, RenameCreatesStep
  <2>2. PICK p : /\ Becomes(r, p)
                 /\ \/ p.at \notin Updating /\ UNCHANGED <<stored, excused>>
                    \/ /\ p.at = "drop" /\ Same(p, creq[r]) /\ ~Exists(p.to)
                       /\ stored'[p.to].born = p.born /\ \A j \in Configs \ {p.to} : stored'[j] = stored[j]
                       /\ excused' = (excused \/ Tangles(p.to, r))
    BY <1>0, <1>6, RenameCreatesStep
  <2>3. ~Making(r) /\ At(r) = "make" /\ creq'[r] = p /\ OthersStay(r)
    BY <1>0, <2>1, <2>2, BecomesIt DEF Making, At
  <2>4. CASE p.at \notin Updating /\ UNCHANGED <<stored, excused>>
    <3>1. BirthsInv => BirthsInv'
      BY <1>0, <2>1, <2>2, <2>3, <2>4, QuietBirths
    <3>. QED BY <2>1, <2>4, <3>1 DEF ConfigsInv
  <2>5. CASE /\ p.at = "drop" /\ Same(p, creq[r]) /\ ~Exists(p.to)
             /\ stored'[p.to].born = p.born /\ \A j \in Configs \ {p.to} : stored'[j] = stored[j]
             /\ excused' = (excused \/ Tangles(p.to, r))
    <3>1. p.to = creq[r].to /\ p.born = creq[r].born /\ At(r)' = "drop"
      BY <2>3, <2>5 DEF Same, At
    <3>2. BirthsInv /\ ~excused' => BirthsInv'
      BY <1>0, <2>1, <2>3, <2>5, <3>1, MakesNewName
    <3>. QED BY <2>1, <2>5, <3>2 DEF ConfigsInv
  <2>. QED BY <2>2, <2>4, <2>5
<1>7. CASE RenameDeletes(r)
  <2>1. ConfigTypes' /\ creq[r].at = "drop" /\ UNCHANGED <<births, dead, excused>>
    BY <1>0, <1>7, RenameDeletesStep
  <2>2. PICK p : /\ Becomes(r, p)
                 /\ \/ /\ p.at \notin Updating /\ Exists(creq[r].key) /\ stored'[creq[r].key] = NoConf
                       /\ \A j \in Configs \ {creq[r].key} : stored'[j] = stored[j]
                    \/ p.at = "undo" /\ Same(p, creq[r]) /\ ~Exists(creq[r].key) /\ stored' = stored
    BY <1>0, <1>7, RenameDeletesStep
  <2>3. At(r) = "drop" /\ creq'[r] = p /\ OthersStay(r)
    BY <1>0, <2>1, <2>2, BecomesIt DEF At
  <2>4. CASE /\ p.at \notin Updating /\ Exists(creq[r].key) /\ stored'[creq[r].key] = NoConf
             /\ \A j \in Configs \ {creq[r].key} : stored'[j] = stored[j]
    <3>1. ~Begun(r)' /\ Cleared(creq[r].key)
      BY <2>3, <2>4 DEF Begun, At, Cleared
    <3>2. BirthsInv => BirthsInv'
      BY <1>0, <2>1, <2>3, <2>4, <3>1, DropsOldName
    <3>. QED BY <2>1, <3>2 DEF ConfigsInv
  <2>5. CASE p.at = "undo" /\ Same(p, creq[r]) /\ ~Exists(creq[r].key) /\ stored' = stored
    <3>1. At(r)' = "undo"
      BY <2>3, <2>5 DEF At
    <3>2. BirthsInv => BirthsInv'
      BY <1>0, <2>1, <2>3, <2>5, <3>1, TurnsBack
    <3>. QED BY <2>1, <3>2 DEF ConfigsInv
  <2>. QED BY <2>2, <2>4, <2>5
<1>8. CASE RenameUndone(r)
  <2>1. /\ ConfigTypes' /\ creq[r].at = "undo" /\ UNCHANGED <<births, dead, excused>>
        /\ Cleared(creq[r].to)
    BY <1>0, <1>8, RenameUndoneStep DEF Cleared
  <2>2. PICK p : Becomes(r, p) /\ p.at \notin Updating
    BY <1>0, <1>8, RenameUndoneStep
  <2>3. At(r) = "undo" /\ OthersStay(r) /\ ~Begun(r)'
    BY <1>0, <2>1, <2>2, BecomesIt DEF At, Begun
  <2>4. BirthsInv => BirthsInv'
    BY <1>0, <2>1, <2>3, TakesBackNewName
  <2>. QED BY <2>1, <2>4 DEF ConfigsInv
<1>9. CASE StoreDelete(r)
  <2>1. ConfigTypes' /\ creq[r].at = "delete" /\ births' = births
    BY <1>0, <1>9, StoreDeleteStep
  <2>2. PICK p : Becomes(r, p) /\ p.at \notin Updating
    BY <1>0, <1>9, StoreDeleteStep
  <2>3. ~Making(r) /\ ~Begun(r) /\ ~Begun(r)' /\ OthersStay(r)
    BY <1>0, <2>1, <2>2, BecomesIt DEF Making, Begun, At, Updating
  <2>4. CASE UNCHANGED <<stored, dead, excused>>
    <3>1. BirthsInv => BirthsInv'
      BY <1>0, <2>1, <2>2, <2>3, <2>4, QuietBirths
    <3>. QED BY <2>1, <2>4, <3>1 DEF ConfigsInv
  <2>5. CASE ~UNCHANGED <<stored, dead, excused>>
    <3>1. PICK k \in Configs :
                   /\ Exists(k) /\ stored'[k] = NoConf /\ \A j \in Configs \ {k} : stored'[j] = stored[j]
                   /\ dead' = IF TakenBack(k) THEN dead ELSE dead \cup {stored[k].born}
                   /\ excused' = (excused \/ MadeBeside(k))
      BY <1>0, <1>9, <2>5, StoreDeleteStep
    <3>2. Cleared(k)
      BY <3>1 DEF Cleared
    <3>3. BirthsInv /\ ~excused' => BirthsInv'
      BY <1>0, <2>1, <2>3, <3>1, <3>2, DeletesName
    <3>. QED BY <2>1, <3>1, <3>3 DEF ConfigsInv
  <2>. QED BY <2>4, <2>5
<1>10. CASE StartupHook(r)
  <2>1. /\ ConfigTypes' /\ creq[r].at = "hooks" /\ UNCHANGED <<births, dead, excused>>
        /\ \A k \in Configs : stored'[k].born = stored[k].born
    BY <1>0, <1>10, StartupHookStep
  <2>2. PICK p : Becomes(r, p) /\ p.at \notin Updating
    BY <1>0, <1>10, StartupHookStep
  <2>3. ~Making(r)
    BY <2>1 DEF Making, At
  <2>4. BirthsInv => BirthsInv'
    BY <1>0, <2>1, <2>2, <2>3, QuietBirths
  <2>. QED BY <2>1, <2>4 DEF ConfigsInv
<1>11. CASE Crash(r)
  <2>1. /\ ConfigTypes' /\ UNCHANGED <<stored, births, dead>>
        /\ excused' = (excused \/ creq[r].at \in {"drop", "undo"})
    BY <1>0, <1>11, CrashStep
  <2>2. PICK p : Becomes(r, p) /\ p.at \notin Updating
    BY <1>0, <1>11, CrashStep
  <2>3. ~excused' => ~Making(r)
    BY <2>1 DEF Making, At
  <2>4. BirthsInv /\ ~excused' => BirthsInv'
    BY <1>0, <2>1, <2>2, <2>3, QuietBirths
  <2>. QED BY <2>1, <2>4 DEF ConfigsInv
<1>. QED BY <1>1, <1>2, <1>3, <1>4, <1>5, <1>6, <1>7, <1>8, <1>9, <1>10, <1>11 DEF ConfigStep

LEMMA ConfigsSteps ==
    ASSUME ConfigsInv, [ConfigsNext]_configVars
    PROVE  ConfigsInv'
<1>1. ASSUME NEW k \in ExpConfigs, Runs(k)
      PROVE  ConfigsInv'
  <2>1. ConfigTypes
    BY DEF ConfigsInv
  <2>2. ConfigTypes' /\ UNCHANGED <<births, dead, creq, excused>> /\ \A j \in Configs : stored'[j].born = stored[j].born
    BY <1>1, <2>1, RunsStep
  <2>3. BirthsInv => BirthsInv'
    BY <2>1, <2>2, SameBirths
  <2>. QED BY <2>2, <2>3 DEF ConfigsInv
<1>2. CASE UNCHANGED configVars
  <2>1. ConfigTypes /\ UNCHANGED <<stored, births, dead, creq, excused>>
    BY <1>2 DEF ConfigsInv, configVars
  <2>2. ConfigTypes'
    BY <2>1 DEF ConfigTypes, StoredTypes, CreqTypes
  <2>3. BirthsInv => BirthsInv'
    BY <2>1, SameBirths
  <2>. QED BY <2>1, <2>2, <2>3 DEF ConfigsInv
<1>. QED BY <1>1, <1>2, ConfigSteps DEF ConfigsNext

LEMMA ConfigsInvHolds ==
    ASSUME ConfigsInv
    PROVE  ConfigsConsistent
<1>1. NamesAgree
    BY DEF ConfigsInv, ConfigTypes, StoredTypes, Own, Exists, NamesAgree, Configs
<1>2. ASSUME ~excused, NEW b \in 1 .. births, \A r \in ConfigRequests : creq[r].at \in {"drop", "undo"} => creq[r].born # b,
             NEW S, S = {k \in Configs : stored[k].born = b}
      PROVE  IF b \in dead THEN S = {} ELSE Cardinality(S) = 1
  <2>1. BirthsInv /\ ConfigTypes
    BY <1>2 DEF ConfigsInv
  <2>2. ASSUME NEW k \in Configs
        PROVE  k \in S <=> Home(k, b)
    <3>1. ASSUME stored[k].born = b, NEW x \in ConfigRequests, Making(x), creq[x].to = k
          PROVE  FALSE
      <4>1. creq[x].born # b /\ b # 0
        BY <1>2, <3>1 DEF Making, At
      <4>2. stored[k].born \in {0, creq[x].born}
        BY <2>1, <3>1 DEF BirthsInv, NamesKeptApart
      <4>. QED BY <3>1, <4>1, <4>2
    <3>. QED BY <1>2, <3>1 DEF Home
  <2>3. CASE b \in dead
    <3>1. \A k \in Configs : ~Home(k, b)
      <4>1. \A x \in ConfigRequests : Doomed(x) => creq[x].born # b
        BY <1>2 DEF Doomed, At
      <4>. QED BY <2>1, <2>3, <4>1 DEF BirthsInv, OneHome
    <3>2. S \subseteq Configs
      BY <1>2
    <3>. QED BY <2>2, <2>3, <3>1, <3>2
  <2>4. CASE b \notin dead
    <3>1. PICK i \in Configs : \A j \in Configs : Home(j, b) <=> j = i
      BY <2>1, <2>4 DEF BirthsInv, OneHome
    <3>2. S \subseteq Configs
      BY <1>2
    <3>3. S = {i}
      BY <2>2, <3>1, <3>2
    <3>4. Cardinality(S) = 1
      BY <3>3, FS_Singleton
    <3>. QED BY <2>4, <3>4
  <2>. QED BY <2>3, <2>4
<1>3. OneConfigPerCreate
    BY <1>2 DEF OneConfigPerCreate
<1>. QED BY <1>1, <1>3 DEF ConfigsConsistent

\* A config that was created and not deleted is in the store under exactly one
\* name and one that was deleted under none, and an experiment bears the name
\* of its config, whatever updates, renames, deletes, defaults and start-up
\* hooks cross (config.Update, config.Delete, hookUpdate), but for what
\* excused records.
THEOREM ConfigsStayConsistent == ConfigsSpec => []ConfigsConsistent
<1>1. ConfigsInit => ConfigsInv
    BY ConfigsBegin
<1>2. ConfigsInv /\ [ConfigsNext]_configVars => ConfigsInv'
    BY ConfigsSteps
<1>3. ConfigsInv => ConfigsConsistent
    BY ConfigsInvHolds
<1>. QED BY <1>1, <1>2, <1>3, PTL DEF ConfigsSpec

=============================================================================
