----------------------------- MODULE Publication -----------------------------
(***************************************************************************)
(* The publication of Builder drafts (web/builder_publish.go): a document, *)
(* a topology that references it, the scenarios, an experiment, and the    *)
(* mark on the draft, written one after the other under builderPublishLock.*)
(* Around it: saves, edits of the configs, deletes with their config hook, *)
(* the sweep of orphaned documents, starts and stops, store errors and     *)
(* crashes.                                                                *)
(*                                                                         *)
(* One topology, one scenario and one experiment; the drafts are manual    *)
(* ones. A draft is changed by whole operations (DraftHistory). A document *)
(* stands for its digest and for the projection it publishes.              *)
(***************************************************************************)
EXTENDS Integers, FiniteSets

CONSTANTS
    Documents,      \* contents of drafts
    PublishDrafts,  \* drafts published to the one topology
    MaxPublishes,   \* bound on publish requests
    MaxOthers,      \* bound on what others do to configs and drafts
    MaxFaults,      \* bound on store errors and crashes
    Nothing

Edited == "edited"   \* a spec no document projects
Specs == Documents \cup {Edited}

Actions == {"create", "update"}
Requests == [draft : PublishDrafts, rev : Nat, topology : Actions, experiment : Actions \cup {"none"}]

\* What is stored of a document, a topology, an experiment and of a
\* publication in it and in a draft.
StoredDocument == [rev : Nat, draft : PublishDrafts, young : BOOLEAN, since : BOOLEAN]
StoredTopology == [ref : Documents, spec : Specs]
PublishedTo == [doc : Documents, request : Requests, snap : Nat]
PublicationRecord == [draft : PublishDrafts, doc : Documents, spec : Specs]
StoredExperiment == [spec : Specs, running : BOOLEAN, configured : BOOLEAN, record : PublicationRecord \cup {Nothing}]

ASSUME PublicationAssumption ==
    /\ Nothing \notin Documents \cup StoredDocument \cup StoredTopology \cup PublishedTo \cup PublicationRecord \cup StoredExperiment
    /\ MaxPublishes \in Nat /\ MaxOthers \in Nat /\ MaxFaults \in Nat

VARIABLES
    work,        \* each draft: document, revision, and its last publication
    documents,   \* published documents: revision, publisher, age
    topology,    \* reference and spec, or Nothing
    scenario,    \* the scenario's annotation names the topology
    experiment,  \* spec, running, configured and publication record, or Nothing
    expLock,     \* holder of the experiment lock
    publisher,   \* the request that holds builderPublishLock
    answer,      \* the last answer
    alone,       \* nobody else acted since its request was first sent
    orphans,     \* the sweep: live document and listed orphans
    hook,        \* documents the delete hook is about to remove
    budget       \* publishes, others' steps and faults used

publishVars == <<work, documents, topology, scenario, experiment, expLock,
                 publisher, answer, alone, orphans, hook, budget>>

Stages == {"idle", "topology", "experiment", "document", "write", "scenario", "lock",
           "reread", "update", "configure", "restore", "record", "mark", "superseded"}
IdlePublisher == [at |-> "idle"]
NoAnswer == [is |-> "none", request |-> Nothing]
NoSweep == [at |-> "idle", live |-> Nothing, listed |-> {}]

PublicationTypeOK ==
    /\ \A b \in PublishDrafts : work[b].doc \in Documents /\ work[b].rev \in Nat
    /\ \A d \in Documents : documents[d] # Nothing =>
            documents[d] \in StoredDocument /\ documents[d].rev <= MaxPublishes
    /\ topology # Nothing => topology \in StoredTopology
    /\ experiment # Nothing => experiment \in StoredExperiment
    /\ expLock \in {"free", "publish", "start", "stop"}
    /\ expLock = "publish" <=> publisher.at \in {"reread", "update", "configure", "restore", "record"}
    /\ publisher.at \in Stages
    /\ publisher.at # "idle" => publisher.request \in Requests
    /\ answer.is \in {"none", "succeeded", "partial", "refused"}

NeverPublished(b, d) == [doc |-> d, rev |-> 1, snap |-> 1, last |-> Nothing]

\* What an earlier publication of d by b left.
EarlierRequest(b) == [draft |-> b, rev |-> 1, topology |-> "create", experiment |-> "create"]
PublishedBefore(b, d) ==
    [doc |-> d, rev |-> 2, snap |-> 1, last |-> [doc |-> d, request |-> EarlierRequest(b), snap |-> 1]]
SavedSince(b, d) ==
    {[PublishedBefore(b, d) EXCEPT !.doc = x, !.rev = 3, !.snap = 3] : x \in Documents}
AfterPublication(b, d) ==
    /\ work[b] \in {PublishedBefore(b, d)} \cup SavedSince(b, d)
    /\ documents = [x \in Documents |->
            IF x = d THEN [rev |-> 0, draft |-> b, young |-> FALSE, since |-> FALSE] ELSE Nothing]
    /\ topology = [ref |-> d, spec |-> d] /\ scenario = TRUE
    /\ experiment = [spec |-> d, running |-> FALSE, configured |-> TRUE,
                     record |-> [draft |-> b, doc |-> d, spec |-> d]]

\* The server begins with nothing published, or with one publication.
PublicationInit ==
    /\ \E b \in PublishDrafts, d \in Documents :
        /\ work \in {[x \in PublishDrafts |-> IF x = b THEN w ELSE NeverPublished(x, d)] :
                        w \in {NeverPublished(b, d), PublishedBefore(b, d)} \cup SavedSince(b, d)}
        /\ \/ AfterPublication(b, d)
           \/ /\ work[b] = NeverPublished(b, d)
              /\ documents = [x \in Documents |-> Nothing]
              /\ topology = Nothing /\ scenario = FALSE /\ experiment = Nothing
    /\ expLock = "free" /\ publisher = IdlePublisher /\ answer = NoAnswer /\ alone = TRUE
    /\ orphans = NoSweep /\ hook = {}
    /\ budget = [publishes |-> 0, others |-> 0, faults |-> 0, crashes |-> 0]

----------------------------------------------------------------------------
(* The request.                                                            *)

Used(what) == budget' = [budget EXCEPT ![what] = @ + 1]
Within(what, limit) == budget[what] < limit
MayFail == budget.faults + budget.crashes < MaxFaults

At(stage) == publisher.at = stage
Meta == publisher.meta
Doc == publisher.meta.doc

Answers(is) ==
    /\ answer' = [is |-> is, request |-> publisher.request]
    /\ publisher' = IdlePublisher

\* publishDraft takes the lock and reads the draft. A request whose entity
\* tag is not the draft's is refused (builderCheckIfMatch), unless the draft
\* records that very publication: then it is answered with nothing written.
PublishRetry(q) ==
    LET last == work[q.draft].last
    IN  /\ last # Nothing /\ last.request = q /\ last.snap = work[q.draft].snap

PublishDraft(q) ==
    /\ At("idle") /\ Within("publishes", MaxPublishes)
    /\ Used("publishes")
    /\ alone' = (answer.request = q => alone)
    /\ IF work[q.draft].rev = q.rev
       THEN /\ publisher' = [at |-> "topology", request |-> q, meta |-> work[q.draft],
                             applied |-> FALSE, done |-> FALSE, spec |-> Nothing]
            /\ UNCHANGED answer
       ELSE /\ answer' = [is |-> IF PublishRetry(q) THEN "succeeded" ELSE "refused",
                          request |-> q]
            /\ UNCHANGED publisher
    /\ UNCHANGED <<work, documents, topology, scenario, experiment, expLock, orphans, hook>>

\* holdsDraftDocument
HoldsOwnUnchanged ==
    LET d == topology.ref
    IN  /\ d # Nothing
        /\ \/ d = Doc
           \/ Meta.last # Nothing /\ Meta.last.doc = d
           \/ documents[d] # Nothing /\ documents[d].draft = publisher.request.draft
        /\ documents[d] # Nothing
        /\ topology.spec = d

\* Fault: what the draft does not record yet is not taken for applied.
AppliedIfMarked == topology # Nothing /\ topology.ref = Doc /\ Meta.last # Nothing /\ Meta.last.doc = Doc

\* topologyPublicationApplied: the reference alone says so.
TopologyApplied == topology # Nothing /\ topology.ref = Doc

\* requirePublishAction, topologyUpdateRefusal
TopologyAllowed ==
    \/ TopologyApplied
    \/ publisher.request.topology = "create" /\ topology = Nothing
    \/ publisher.request.topology = "update" /\ topology # Nothing /\ HoldsOwnUnchanged

PreflightTopology ==
    /\ At("topology")
    /\ IF TopologyAllowed
       THEN /\ publisher' = [publisher EXCEPT !.at = "experiment", !.applied = TopologyApplied]
            /\ UNCHANGED answer
       ELSE Answers("refused")
    /\ UNCHANGED <<work, documents, topology, scenario, experiment, expLock, orphans, hook, budget, alone>>

\* experimentAlreadyApplied
ExperimentApplied == experiment # Nothing /\ experiment.spec = Doc

\* experimentUpdateRefusal: the record names the draft, or a document of it,
\* and nothing changed since.
ExperimentHeld ==
    /\ experiment.record # Nothing
    /\ \/ experiment.record.draft = publisher.request.draft
       \/ Meta.last # Nothing /\ Meta.last.doc = experiment.record.doc
    /\ experiment.record.spec = experiment.spec

ExperimentAllowed ==
    \/ publisher.request.experiment = "none"
    \/ ExperimentApplied
    \/ publisher.request.experiment = "create" /\ experiment = Nothing
    \/ /\ publisher.request.experiment = "update" /\ experiment # Nothing
       /\ ExperimentHeld /\ ~experiment.running

PreflightExperiment ==
    /\ At("experiment")
    /\ IF ExperimentAllowed
       THEN /\ publisher' = [publisher EXCEPT !.at = "document",
                                !.done = publisher.request.experiment = "none" \/ ExperimentApplied]
            /\ UNCHANGED answer
       ELSE Answers("refused")
    /\ UNCHANGED <<work, documents, topology, scenario, experiment, expLock, orphans, hook, budget, alone>>

----------------------------------------------------------------------------
(* The stages.                                                             *)

\* Fault: a document that is stored already is left as it is.
PutsOnce ==
    /\ At("document")
    /\ documents' = IF documents[Doc] # Nothing THEN documents
                    ELSE [documents EXCEPT ![Doc] = [rev |-> budget.publishes, draft |-> publisher.request.draft,
                                                     young |-> TRUE, since |-> TRUE]]
    /\ publisher' = [publisher EXCEPT !.at = "write"]
    /\ UNCHANGED <<work, topology, scenario, experiment, expLock, answer, orphans, hook, budget, alone>>

\* PutPublishedDocument: one that is stored keeps its publisher, and is
\* written again so that it counts as young.
PutPublishedDocument ==
    /\ At("document")
    /\ documents' = [documents EXCEPT ![Doc] =
            [rev |-> budget.publishes,
             draft |-> IF documents[Doc] # Nothing THEN documents[Doc].draft ELSE publisher.request.draft,
             young |-> TRUE, since |-> TRUE]]
    /\ publisher' = [publisher EXCEPT !.at = "write"]
    /\ UNCHANGED <<work, topology, scenario, experiment, expLock, answer, orphans, hook, budget, alone>>

\* publishConfigStage, writePublishedConfig: the write compares nothing with
\* what preflight read; it fails when the config came or went.
CanWrite == (publisher.request.topology = "create") = (topology = Nothing)

\* Documents stored so far are no longer younger than the topology's write.
Settled == [d \in Documents |-> IF documents[d] = Nothing THEN Nothing
                                ELSE [documents[d] EXCEPT !.since = FALSE]]

PublishTopology ==
    /\ At("write")
    /\ publisher.applied \/ CanWrite
    /\ IF publisher.applied
       THEN UNCHANGED <<topology, documents>>
       ELSE /\ topology' = [ref |-> Doc, spec |-> Doc]
            /\ documents' = Settled
    /\ publisher' = [publisher EXCEPT !.at = "scenario"]
    /\ UNCHANGED <<work, scenario, experiment, expLock, answer, orphans, hook, budget, alone>>

WriteRefused ==
    /\ At("write") /\ ~publisher.applied /\ ~CanWrite
    /\ Answers("partial")
    /\ UNCHANGED <<work, documents, topology, scenario, experiment, expLock, orphans, hook, budget, alone>>

\* publishScenarioStage
PublishScenario ==
    /\ At("scenario")
    /\ scenario' = TRUE
    /\ publisher' = [publisher EXCEPT !.at = IF publisher.done THEN "mark" ELSE "lock"]
    /\ UNCHANGED <<work, documents, topology, experiment, expLock, answer, orphans, hook, budget, alone>>

\* writeExperiment
LockExperiment ==
    /\ At("lock")
    /\ IF expLock = "free"
       THEN /\ expLock' = "publish"
            /\ publisher' = [publisher EXCEPT !.at = "reread"]
            /\ UNCHANGED answer
       ELSE Answers("partial") /\ UNCHANGED expLock
    /\ UNCHANGED <<work, documents, topology, scenario, experiment, orphans, hook, budget, alone>>

\* createExperiment, or the update built from the experiment read again.
Expected == IF publisher.request.experiment = "create" THEN experiment = Nothing
            ELSE experiment # Nothing /\ ~experiment.running

\* Fault: what preflight read is trusted.
TrustsPreflight ==
    /\ At("reread") /\ experiment # Nothing /\ publisher.request.experiment = "update"
    /\ publisher' = [publisher EXCEPT !.at = "update", !.spec = experiment]
    /\ UNCHANGED <<work, documents, topology, scenario, experiment, expLock, answer, orphans, hook, budget, alone>>

RereadExperiment ==
    /\ At("reread")
    /\ IF Expected
       THEN /\ publisher' = [publisher EXCEPT !.at = "update", !.spec = experiment]
            /\ UNCHANGED <<answer, expLock>>
       ELSE Answers("partial") /\ expLock' = "free"
    /\ UNCHANGED <<work, documents, topology, scenario, experiment, orphans, hook, budget, alone>>

WriteExperiment ==
    /\ At("update")
    /\ IF publisher.request.experiment = "create"
       THEN /\ experiment' = [spec |-> Doc, running |-> FALSE, configured |-> TRUE, record |-> Nothing]
            /\ publisher' = [publisher EXCEPT !.at = "record"]
       ELSE /\ experiment' = [publisher.spec EXCEPT !.spec = Doc, !.configured = FALSE]
            /\ publisher' = [publisher EXCEPT !.at = "configure"]
    /\ UNCHANGED <<work, documents, topology, scenario, expLock, answer, orphans, hook, budget, alone>>

ReconfigureExperiment ==
    /\ At("configure") /\ experiment # Nothing
    /\ experiment' = [experiment EXCEPT !.configured = TRUE]
    /\ publisher' = [publisher EXCEPT !.at = "record"]
    /\ UNCHANGED <<work, documents, topology, scenario, expLock, answer, orphans, hook, budget, alone>>

\* The configure stage of an app fails ...
ConfigureFails ==
    /\ At("configure") /\ MayFail /\ Used("faults")
    /\ publisher' = [publisher EXCEPT !.at = "restore"]
    /\ UNCHANGED <<work, documents, topology, scenario, experiment, expLock, answer, orphans, hook, alone>>

\* ... and restoreExperiment puts back what was read, with the status of now.
RestoreExperiment ==
    /\ At("restore")
    /\ experiment' = IF experiment # Nothing /\ ~experiment.running
                     THEN [publisher.spec EXCEPT !.running = experiment.running]
                     ELSE experiment
    /\ Answers("partial") /\ expLock' = "free"
    /\ UNCHANGED <<work, documents, topology, scenario, orphans, hook, budget, alone>>

\* recordExperimentPublication: a failure to record is only logged.
RecordPublication ==
    /\ At("record")
    /\ \/ /\ experiment # Nothing
          /\ experiment' = [experiment EXCEPT !.record =
                [draft |-> publisher.request.draft, doc |-> Doc, spec |-> experiment.spec]]
          /\ UNCHANGED budget
       \/ MayFail /\ Used("faults") /\ UNCHANGED experiment
    /\ expLock' = "free"
    /\ publisher' = [publisher EXCEPT !.at = "mark"]
    /\ UNCHANGED <<work, documents, topology, scenario, answer, orphans, hook, alone>>

\* MarkPublished: a draft saved meanwhile is a conflict.
MarkPublished ==
    LET b == publisher.request.draft
    IN  /\ At("mark")
        /\ IF work[b].rev = Meta.rev
           THEN /\ work' = [work EXCEPT ![b] = [work[b] EXCEPT !.rev = @ + 1,
                                !.last = [doc |-> Doc, request |-> publisher.request, snap |-> work[b].snap]]]
                /\ publisher' = [publisher EXCEPT !.at = "superseded"]
                /\ UNCHANGED answer
           ELSE Answers("partial") /\ UNCHANGED work
        /\ UNCHANGED <<documents, topology, scenario, experiment, expLock, orphans, hook, budget, alone>>

\* DeleteSupersededDocuments: the documents that are not young and not this.
DeleteSuperseded ==
    /\ At("superseded")
    /\ documents' = [d \in Documents |->
            IF documents[d] # Nothing /\ (d = Doc \/ documents[d].young) THEN documents[d] ELSE Nothing]
    /\ Answers("succeeded")
    /\ UNCHANGED <<work, topology, scenario, experiment, expLock, orphans, hook, budget, alone>>

\* A stage fails (writePublishPartial); the deferred unlocks run.
StageFails ==
    /\ publisher.at \in {"write", "scenario", "lock", "reread", "update", "mark"}
    /\ MayFail /\ Used("faults")
    /\ Answers("partial")
    /\ expLock' = IF expLock = "publish" THEN "free" ELSE expLock
    /\ UNCHANGED <<work, documents, topology, scenario, experiment, orphans, hook, alone>>

\* The server dies and starts again: locks, sweeps and hooks are gone. The
\* client has no answer and sends the request again, as after a partial one.
PublishCrash ==
    /\ MayFail /\ Used("crashes")
    /\ publisher.at # "idle" \/ orphans # NoSweep \/ hook # {}
    /\ publisher' = IdlePublisher
    /\ answer' = IF At("idle") THEN answer
                 ELSE IF publisher.at \in {"topology", "experiment"} THEN NoAnswer
                 ELSE [is |-> "partial", request |-> publisher.request]
    /\ expLock' = "free" /\ orphans' = NoSweep /\ hook' = {}
    /\ UNCHANGED <<work, documents, topology, scenario, experiment, alone>>

----------------------------------------------------------------------------
(* The others.                                                             *)

Other == Within("others", MaxOthers) /\ Used("others") /\ alone' = FALSE /\ UNCHANGED answer

\* AppendSnapshot, as a whole operation.
SaveDraft(b, d) ==
    /\ Other
    /\ work' = [work EXCEPT ![b] = [work[b] EXCEPT !.doc = d, !.rev = @ + 1, !.snap = work[b].rev + 1]]
    /\ UNCHANGED <<documents, topology, scenario, experiment, expLock, publisher, orphans, hook>>

\* The config API or the CLI writes the topology, its reference kept.
EditTopology ==
    /\ topology # Nothing /\ topology.spec # Edited /\ Other
    /\ topology' = [topology EXCEPT !.spec = Edited]
    /\ documents' = Settled
    /\ UNCHANGED <<work, scenario, experiment, expLock, publisher, orphans, hook>>

\* DeleteConfigDocuments removes what was stored before the topology's last
\* write, and what is not young; a delete of the CLI takes no lock.
DeleteTopology ==
    /\ topology # Nothing /\ hook = {} /\ Other
    /\ topology' = Nothing
    /\ hook' = {<<d, documents[d].rev>> :
                  d \in {x \in Documents : documents[x] # Nothing
                                            /\ (~documents[x].since \/ ~documents[x].young)}}
    /\ UNCHANGED <<work, documents, scenario, experiment, expLock, publisher, orphans>>

\* deleteListed
RemovedListed(listed) ==
    [d \in Documents |-> IF documents[d] # Nothing /\ <<d, documents[d].rev>> \in listed
                         THEN Nothing ELSE documents[d]]

HookRemoves ==
    /\ hook # {}
    /\ documents' = RemovedListed(hook)
    /\ hook' = {} /\ alone' = FALSE
    /\ UNCHANGED <<work, topology, scenario, experiment, expLock, publisher, answer, orphans, budget>>

\* sweepStorage: the live documents, then the orphans among the stored ones,
\* then their removal, without a lock. A sweep that finds no document past
\* the grace period removes nothing.
SweepLive ==
    /\ orphans.at = "idle"
    /\ \E d \in Documents : documents[d] # Nothing /\ ~documents[d].young
    /\ orphans' = [at |-> "live", live |-> IF topology = Nothing THEN Nothing ELSE topology.ref, listed |-> {}]
    /\ UNCHANGED <<work, documents, topology, scenario, experiment, expLock, publisher, answer, hook, budget, alone>>

SweepListsOrphans ==
    /\ orphans.at = "live"
    /\ orphans' = [orphans EXCEPT !.at = "remove",
            !.listed = {<<d, documents[d].rev>> : d \in {x \in Documents :
                            x # orphans.live /\ documents[x] # Nothing /\ ~documents[x].young}}]
    /\ UNCHANGED <<work, documents, topology, scenario, experiment, expLock, publisher, answer, hook, budget, alone>>

SweepOrphans ==
    /\ orphans.at = "remove"
    /\ documents' = RemovedListed(orphans.listed)
    /\ orphans' = NoSweep
    /\ UNCHANGED <<work, topology, scenario, experiment, expLock, publisher, answer, hook, budget, alone>>

\* OrphanGracePeriod passes; no publication and no sweep lasts that long.
DocumentAges(d) ==
    /\ documents[d] # Nothing /\ documents[d].young
    /\ At("idle") /\ orphans.at = "idle" /\ hook = {}
    /\ documents' = [documents EXCEPT ![d].young = FALSE]
    /\ UNCHANGED <<work, topology, scenario, experiment, expLock, publisher, answer, orphans, hook, budget, alone>>

\* The web server starts or stops the experiment under its lock.
StartStop(verb) ==
    /\ experiment # Nothing /\ experiment.running = (verb = "stop")
    /\ expLock = "free" /\ Other
    /\ expLock' = verb
    /\ UNCHANGED <<work, documents, topology, scenario, experiment, publisher, orphans, hook>>

StartedStopped ==
    /\ expLock \in {"start", "stop"}
    /\ experiment' = IF experiment = Nothing THEN Nothing
                     ELSE [experiment EXCEPT !.running = expLock = "start"]
    /\ expLock' = "free" /\ alone' = FALSE
    /\ UNCHANGED <<work, documents, topology, scenario, publisher, answer, orphans, hook, budget>>

\* PUT /configs changes an experiment that is not running; it takes no lock.
EditExperiment ==
    /\ experiment # Nothing /\ ~experiment.running /\ Other
    /\ experiment' = [experiment EXCEPT !.spec = Edited, !.configured = TRUE]
    /\ UNCHANGED <<work, documents, topology, scenario, expLock, publisher, orphans, hook>>

PublishStage ==
    \/ PreflightTopology \/ PreflightExperiment \/ PutPublishedDocument \/ PublishTopology
    \/ WriteRefused \/ PublishScenario \/ LockExperiment \/ RereadExperiment \/ WriteExperiment
    \/ ReconfigureExperiment \/ RestoreExperiment \/ RecordPublication \/ MarkPublished
    \/ DeleteSuperseded

PublicationNext ==
    \/ \E b \in PublishDrafts, t \in Actions, e \in Actions \cup {"none"} :
            PublishDraft([draft |-> b, rev |-> work[b].rev, topology |-> t, experiment |-> e])
    \/ answer.is # "none" /\ PublishDraft(answer.request)
    \/ PublishStage \/ ConfigureFails \/ StageFails \/ PublishCrash
    \/ \E b \in PublishDrafts, d \in Documents : SaveDraft(b, d)
    \/ EditTopology \/ DeleteTopology \/ HookRemoves
    \/ SweepLive \/ SweepListsOrphans \/ SweepOrphans
    \/ \E d \in Documents : DocumentAges(d)
    \/ \E v \in {"start", "stop"} : StartStop(v)
    \/ StartedStopped \/ EditExperiment

PublicationSpec == PublicationInit /\ [][PublicationNext]_publishVars

----------------------------------------------------------------------------
\* The document a topology references is stored, whatever the sweeps, the
\* delete hook and the removal of superseded documents do meanwhile
\* (PutPublishedDocument, CleanupOrphanedDocuments, DeleteConfigDocuments).
ReferencedDocumentStored ==
    topology # Nothing => documents[topology.ref] # Nothing

\* A repeat of a request that did not finish is refused only when somebody
\* changed something after it: what it had written is found to be applied
\* (topologyPublicationApplied, experimentAlreadyApplied; "Publish again with
\* the same choices to finish").
RetryNotRefused ==
    [][(answer.is = "partial" /\ alone' /\ answer'.is = "refused")
            => answer'.request # answer.request]_publishVars

\* A publication changes no experiment that runs (writeExperiment reads it
\* again under the lock).
RunningExperimentUntouched ==
    [][(experiment # Nothing /\ experiment.running /\ experiment' # Nothing)
            => experiment'.spec = experiment.spec]_publishVars

\* A draft marked as published was published: work saved while the
\* publication ran is not taken for published (MarkPublished).
MarkedIsPublished ==
    \A b \in PublishDrafts :
        (work[b].last # Nothing /\ work[b].last.snap = work[b].snap) => work[b].last.doc = work[b].doc

\* A failed configure stage leaves the experiment as it was: one that is not
\* configured is being written, or the server died there (restoreExperiment).
UnconfiguredRestored ==
    (experiment # Nothing /\ ~experiment.configured /\ At("idle")) => budget.crashes > 0

\* What a publication leaves behind is consistent, whatever crosses it: the
\* three above.
PublicationConsistent == ReferencedDocumentStored /\ MarkedIsPublished /\ UnconfiguredRestored
=============================================================================
