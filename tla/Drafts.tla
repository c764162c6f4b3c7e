------------------------------- MODULE Drafts -------------------------------
(***************************************************************************)
(* Builder drafts (package api/builder and the draft handlers): metadata   *)
(* records with a history of snapshots and a cursor, one content record    *)
(* per snapshot, and the sweeps that remove orphaned content and published *)
(* drafts.                                                                 *)
(*                                                                         *)
(* An editor holds the revision (ETag) it last saw. An operation reads the *)
(* metadata, checks that revision and works out the new metadata; its one  *)
(* transaction writes content and metadata if the revision is still the    *)
(* one read. Transactions are atomic and revisions are never issued twice  *)
(* (RecordStore, VersionedMap). A snapshot is named by the revision of the *)
(* write that added it. Documents and their validation are left out; the   *)
(* limit on bytes drops snapshots as the limit on their number does.       *)
(***************************************************************************)
EXTENDS Integers, Sequences, FiniteSets, SequencesExt

CONSTANTS
    DraftIds,      \* generated IDs, each used once
    Editors,       \* requests that may be at work at once
    MaxDrafts,     \* most drafts the server holds
    MaxSnapshots,  \* most snapshots a draft keeps
    MaxWrites,     \* bound on revisions
    NoDraft

Published == [snapshot : Nat, at : Nat]
Metadata == [rev : Nat, history : Seq(Nat), cursor : Nat, publication : Published]

ASSUME DraftsAssumption ==
    /\ MaxDrafts \in Nat \ {0} /\ MaxSnapshots \in Nat \ {0} /\ MaxWrites \in Nat
    /\ IsFiniteSet(Editors) /\ DraftIds # {} /\ NoDraft \notin Metadata

VARIABLES
    drafts,    \* metadata of each draft, or NoDraft
    used,      \* draft IDs given out
    content,   \* content records: <<draft, snapshot>>
    fresh,     \* content records younger than OrphanGracePeriod
    damaged,   \* drafts whose metadata no longer decodes
    revision,  \* last revision issued by the store
    seen,      \* per editor: draft and revision of its last answer
    op,        \* per editor: "idle", "create", or the operation and the draft it read
    sweep      \* the cleanup: what it has listed

draftVars == <<drafts, used, content, fresh, damaged, revision, seen, op, sweep>>

NoPublication == [snapshot |-> 0, at |-> 0]
Kinds == {"append", "move", "remove", "mark"}
Idle == [step |-> "idle", live |-> {}, keys |-> {}, unchanged |-> {}]

DraftsTypeOK ==
    /\ drafts \in [DraftIds -> Metadata \cup {NoDraft}]
    /\ used \subseteq DraftIds
    /\ content \subseteq DraftIds \X Nat
    /\ fresh \subseteq DraftIds \X Nat
    /\ damaged \subseteq DraftIds
    /\ revision \in 0 .. MaxWrites
    /\ seen \in [Editors -> DraftIds \X Nat]
    /\ \A d \in DraftIds : drafts[d] # NoDraft => drafts[d].cursor \in DOMAIN drafts[d].history
    /\ \A e \in Editors : op[e].step \in {"idle", "create"} \cup Kinds
    /\ sweep.step \in {"idle", "drafts", "keys", "delete"}

DraftsInit ==
    /\ drafts = [d \in DraftIds |-> NoDraft]
    /\ used = {} /\ content = {} /\ fresh = {} /\ damaged = {}
    /\ revision = 0
    /\ seen \in [Editors -> {<<d, 0>> : d \in {CHOOSE x \in DraftIds : TRUE}}]
    /\ op = [e \in Editors |-> [step |-> "idle"]]
    /\ sweep = Idle

Stored == {d \in DraftIds : drafts[d] # NoDraft}
Readable == Stored \ damaged
ContentOf(d, history) == {<<d, history[i]>> : i \in DOMAIN history}

Dirty(m) == m.publication.snapshot # m.history[m.cursor]
CanRedo(m) == m.cursor < Len(m.history)
PublishedUnchanged(m) == ~Dirty(m) /\ ~CanRedo(m)

----------------------------------------------------------------------------
(* Operations of an editor.                                                *)

\* getDraft, or a listing: the ETag becomes known.
GetDraft(e, d) ==
    /\ d \in Stored /\ seen[e] # <<d, drafts[d].rev>>
    /\ op[e].step = "idle"
    /\ seen' = [seen EXCEPT ![e] = <<d, drafts[d].rev>>]
    /\ UNCHANGED <<drafts, used, content, fresh, damaged, revision, op, sweep>>

\* Fault: the limit is not checked.
CreatesUnchecked(e) ==
    /\ op[e].step = "idle"
    /\ op' = [op EXCEPT ![e] = [step |-> "create"]]
    /\ UNCHANGED <<drafts, used, content, fresh, damaged, revision, seen, sweep>>

\* CreateDraft: the limit is checked (damaged drafts count) ...
CheckDraftLimit(e) ==
    /\ op[e].step = "idle"
    /\ Cardinality(Stored) < MaxDrafts
    /\ op' = [op EXCEPT ![e] = [step |-> "create"]]
    /\ UNCHANGED <<drafts, used, content, fresh, damaged, revision, seen, sweep>>

\* ... and then the draft and its first snapshot are created in one
\* transaction.
CreateDraft(e, d) ==
    /\ op[e].step = "create" /\ d \notin used
    /\ revision < MaxWrites
    /\ LET r == revision + 1
       IN  /\ drafts' = [drafts EXCEPT ![d] =
                [rev |-> r, history |-> <<r>>, cursor |-> 1, publication |-> NoPublication]]
           /\ content' = content \cup {<<d, r>>}
           /\ fresh' = fresh \cup {<<d, r>>}
           /\ seen' = [seen EXCEPT ![e] = <<d, r>>]
           /\ revision' = r
    /\ used' = used \cup {d}
    /\ op' = [op EXCEPT ![e] = [step |-> "idle"]]
    /\ UNCHANGED <<damaged, sweep>>

\* An operation reads the metadata and finds the revision the editor gave.
ReadsDraft(e, kind) ==
    LET d == seen[e][1]
    IN  /\ op[e].step = "idle"
        /\ d \in Readable /\ drafts[d].rev = seen[e][2]
        /\ op' = [op EXCEPT ![e] = [step |-> kind, draft |-> d, meta |-> drafts[d]]]
        /\ UNCHANGED <<drafts, used, content, fresh, damaged, revision, seen, sweep>>

\* The handlers: save, undo and redo, removal of a snapshot, and the last
\* step of a publication. A repeat of the publication that is recorded
\* writes nothing (isPublishRetry).
CreateSnapshot(e) == ReadsDraft(e, "append")
UpdateCursor(e) == ReadsDraft(e, "move")
DeleteSnapshot(e) == ReadsDraft(e, "remove")
MarkPublishedIn(e) == ReadsDraft(e, "mark") /\ Dirty(drafts[seen[e][1]])

\* pruneHistory
Recent(h) == IF Len(h) > MaxSnapshots THEN SubSeq(h, Len(h) - MaxSnapshots + 1, Len(h)) ELSE h

\* The metadata the operations make of what they read; r is the revision of
\* the write.
Appended(m, r) ==
    LET h == Recent(SubSeq(m.history, 1, m.cursor) \o <<r>>)
    IN  [m EXCEPT !.rev = r, !.history = h, !.cursor = Len(h)]

Moved(m, r, i) == [m EXCEPT !.rev = r, !.cursor = i]

\* Fault: the cursor stays where it was.
RemovedKeepingIndex(m, r, i) ==
    [m EXCEPT !.rev = r, !.history = RemoveAt(m.history, i)]

Removed(m, r, i) ==
    [m EXCEPT !.rev = r,
              !.history = RemoveAt(m.history, i),
              !.cursor = IF i < m.cursor THEN @ - 1 ELSE @]

MarkedPublished(m, r) ==
    [m EXCEPT !.rev = r, !.publication = [snapshot |-> m.history[m.cursor], at |-> m.rev]]

\* What an operation may make of m; the cursor's snapshot is not removed.
Outcomes(kind, m, r) ==
    CASE kind = "append" -> {Appended(m, r)}
      [] kind = "move" -> {Moved(m, r, i) : i \in DOMAIN m.history}
      [] kind = "remove" -> {Removed(m, r, i) : i \in DOMAIN m.history \ {m.cursor}}
      [] kind = "mark" -> {MarkedPublished(m, r)}

\* dropSnapshots and putContent: only what changes between the histories.
Replaced(keys, before, after) == (keys \ (before \ after)) \cup (after \ before)

\* Fault: the write does not compare revisions.
WritesAnyRevision(e) ==
    /\ op[e].step \in Kinds /\ revision < MaxWrites
    /\ LET d == op[e].draft
           r == revision + 1
       IN  /\ drafts[d] # NoDraft
           /\ \E m \in Outcomes(op[e].step, op[e].meta, r) :
                /\ drafts' = [drafts EXCEPT ![d] = m]
                /\ content' = Replaced(content, ContentOf(d, op[e].meta.history), ContentOf(d, m.history))
                /\ fresh' = Replaced(fresh, ContentOf(d, op[e].meta.history), ContentOf(d, m.history))
           /\ seen' = [seen EXCEPT ![e] = <<d, r>>]
           /\ revision' = r
    /\ op' = [op EXCEPT ![e] = [step |-> "idle"]]
    /\ UNCHANGED <<used, damaged, sweep>>

\* writeDraft, writeDraftTxn: content of dropped snapshots goes and that of
\* a new one comes with the metadata.
WriteDraft(e) ==
    /\ op[e].step \in Kinds /\ revision < MaxWrites
    /\ LET d == op[e].draft
           r == revision + 1
       IN  /\ drafts[d] # NoDraft /\ drafts[d].rev = op[e].meta.rev
           /\ \E m \in Outcomes(op[e].step, op[e].meta, r) :
                /\ drafts' = [drafts EXCEPT ![d] = m]
                /\ content' = Replaced(content, ContentOf(d, op[e].meta.history), ContentOf(d, m.history))
                /\ fresh' = Replaced(fresh, ContentOf(d, op[e].meta.history), ContentOf(d, m.history))
           /\ seen' = [seen EXCEPT ![e] = <<d, r>>]
           /\ revision' = r
    /\ op' = [op EXCEPT ![e] = [step |-> "idle"]]
    /\ UNCHANGED <<used, damaged, sweep>>

\* The draft was written since, or is gone; or the server died: an operation
\* that has not committed leaves nothing.
Conflict(e) ==
    /\ op[e].step # "idle"
    /\ op' = [op EXCEPT ![e] = [step |-> "idle"]]
    /\ UNCHANGED <<drafts, used, content, fresh, damaged, revision, seen, sweep>>

\* deleteDraftTx at revision r.
DeleteDraftTx(d, r) ==
    /\ drafts[d] # NoDraft /\ drafts[d].rev = r
    /\ drafts' = [drafts EXCEPT ![d] = NoDraft]
    /\ content' = {k \in content : k[1] # d}
    /\ fresh' = {k \in fresh : k[1] # d}
    /\ damaged' = damaged \ {d}

DeleteDraft(e) ==
    /\ op[e].step = "idle"
    /\ DeleteDraftTx(seen[e][1], seen[e][2])
    /\ UNCHANGED <<used, revision, seen, op, sweep>>

----------------------------------------------------------------------------
(* The cleanup, the store's damage and time.                               *)

\* A record is changed so that it no longer decodes (written by a newer
\* version of phenix).
Damage(d) ==
    /\ d \in Readable /\ revision < MaxWrites
    /\ damaged' = damaged \cup {d}
    /\ revision' = revision + 1
    /\ drafts' = [drafts EXCEPT ![d].rev = revision + 1]
    /\ UNCHANGED <<used, content, fresh, seen, op, sweep>>

\* OrphanGracePeriod passes for a record; a sweep does not last that long.
Ages(k) ==
    /\ k \in fresh /\ sweep.step = "idle"
    /\ fresh' = fresh \ {k}
    /\ UNCHANGED <<drafts, used, content, damaged, revision, seen, op, sweep>>

\* Fault: the content of a draft that cannot be read is not kept.
SweepListsReadable ==
    /\ sweep.step = "idle"
    /\ sweep' = [Idle EXCEPT !.step = "drafts",
                             !.live = UNION {ContentOf(d, drafts[d].history) : d \in Readable}]
    /\ UNCHANGED <<drafts, used, content, fresh, damaged, revision, seen, op>>

\* CleanupOrphanedContent lists the drafts ...
SweepListsDrafts ==
    /\ sweep.step = "idle"
    /\ sweep' = [Idle EXCEPT !.step = "drafts",
                             !.live = (UNION {ContentOf(d, drafts[d].history) : d \in Readable})
                                        \cup {k \in DraftIds \X (0 .. MaxWrites) : k[1] \in damaged}]
    /\ UNCHANGED <<drafts, used, content, fresh, damaged, revision, seen, op>>

\* ... then the content keys, and removes those no draft names that are not
\* fresh, one at a time, at the revision it has just read.
SweepListsKeys ==
    /\ sweep.step = "drafts"
    /\ sweep' = [sweep EXCEPT !.step = "keys", !.keys = content \ sweep.live]
    /\ UNCHANGED <<drafts, used, content, fresh, damaged, revision, seen, op>>

SweepContent(k) ==
    /\ sweep.step = "keys" /\ k \in sweep.keys
    /\ content' = content \ ({k} \ fresh)
    /\ sweep' = [sweep EXCEPT !.keys = @ \ {k}]
    /\ UNCHANGED <<drafts, used, fresh, damaged, revision, seen, op>>

\* DeletePublishedDrafts (under builderPublishLock) lists the drafts that are
\* their publication and no more ...
SweepListsPublished ==
    /\ sweep.step = "idle"
    /\ sweep' = [Idle EXCEPT !.step = "delete",
                             !.unchanged = {<<d, drafts[d].rev>> :
                                               d \in {x \in Readable : PublishedUnchanged(drafts[x])}}]
    /\ UNCHANGED <<drafts, used, content, fresh, damaged, revision, seen, op>>

\* Fault: the draft goes at whatever revision it is.
SweepDeletesAny(d, r) ==
    /\ sweep.step = "delete" /\ <<d, r>> \in sweep.unchanged
    /\ sweep' = [sweep EXCEPT !.unchanged = @ \ {<<d, r>>}]
    /\ drafts[d] # NoDraft /\ DeleteDraftTx(d, drafts[d].rev)
    /\ UNCHANGED <<used, revision, seen, op>>

\* ... and deletes each at the revision it was listed at.
SweepDeletes(d, r) ==
    /\ sweep.step = "delete" /\ <<d, r>> \in sweep.unchanged
    /\ sweep' = [sweep EXCEPT !.unchanged = @ \ {<<d, r>>}]
    /\ \/ DeleteDraftTx(d, r)
       \/ /\ ~(drafts[d] # NoDraft /\ drafts[d].rev = r)
          /\ UNCHANGED <<drafts, content, fresh, damaged>>
    /\ UNCHANGED <<used, revision, seen, op>>

SweepEnds ==
    /\ sweep.step \in {"keys", "delete"} /\ sweep.keys = {} /\ sweep.unchanged = {}
    /\ sweep' = Idle
    /\ UNCHANGED <<drafts, used, content, fresh, damaged, revision, seen, op>>

DraftsNext ==
    \/ \E e \in Editors :
        \/ \E d \in DraftIds : GetDraft(e, d) \/ CreateDraft(e, d)
        \/ CheckDraftLimit(e) \/ CreateSnapshot(e) \/ UpdateCursor(e) \/ DeleteSnapshot(e)
        \/ MarkPublishedIn(e) \/ WriteDraft(e) \/ Conflict(e) \/ DeleteDraft(e)
    \/ \E d \in DraftIds : Damage(d) \/ \E r \in 0 .. MaxWrites : SweepDeletes(d, r)
    \/ \E k \in DraftIds \X (0 .. MaxWrites) : Ages(k) \/ SweepContent(k)
    \/ SweepListsDrafts \/ SweepListsKeys \/ SweepListsPublished \/ SweepEnds

DraftsSpec == DraftsInit /\ [][DraftsNext]_draftVars

----------------------------------------------------------------------------
Histories == [d \in DraftIds |-> IF drafts[d] = NoDraft THEN <<>> ELSE drafts[d].history]
Cursors == [d \in DraftIds |-> IF drafts[d] = NoDraft THEN 0 ELSE drafts[d].cursor]

History == INSTANCE DraftHistory WITH histories <- Histories, cursors <- Cursors

\* The operations of several editors, each a read and a later write, behave
\* as whole operations on the history: a save never drops a snapshot its
\* editor had not seen, and the cursor stays on its snapshot (AppendSnapshot,
\* MoveCursor, DeleteSnapshot, removeSnapshot).
DraftsImplementHistory == History!Spec

\* Every snapshot of a draft has its content, in drafts that can no longer be
\* read too, whatever the sweeps remove while drafts are saved
\* (CleanupOrphanedContent, dropSnapshots).
ContentIntact ==
    \A d \in Stored : ContentOf(d, drafts[d].history) \subseteq content

\* The limit is checked before the create, so requests at work together pass
\* it together: no more than that many drafts too many, those still to be
\* created included (checkDraftLimit, CreateDraft).
DraftLimit ==
    Cardinality(Stored) + Cardinality({e \in Editors : op[e].step = "create"})
        <= MaxDrafts + Cardinality(Editors) - 1

\* The cleanup removes a draft only while it is its own publication: work
\* saved after the cleanup listed the draft is kept (DeletePublishedDrafts).
CleanupKeepsWork ==
    [][\A d \in DraftIds :
        (sweep' # sweep /\ drafts[d] # NoDraft /\ drafts'[d] = NoDraft)
            => PublishedUnchanged(drafts[d])]_draftVars
=============================================================================
