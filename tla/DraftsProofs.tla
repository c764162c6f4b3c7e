---------------------------- MODULE DraftsProofs ----------------------------
(***************************************************************************)
(* Proofs about Drafts, for every set of drafts and every finite set of    *)
(* editors and whatever the limits are.                                    *)
(*                                                                         *)
(* The properties of Drafts rest on one idea: two metadata of a draft with *)
(* the same revision are the same metadata. What an operation has read, or *)
(* the cleanup has listed, is then still so when its transaction finds the *)
(* revision unchanged. The sweep of the content rests on the grace period: *)
(* what a draft names was there when the sweep listed the drafts, or has   *)
(* been written since and is fresh until the sweep is over.                *)
(***************************************************************************)
EXTENDS Drafts, SequenceTheorems, FiniteSetTheorems, TLAPS

Ops == [step : {"idle", "create"}] \cup [step : Kinds, draft : DraftIds, meta : Metadata]
Keys == SUBSET (DraftIds \X Nat)
Sweeps == [step : {"idle", "drafts", "keys", "delete"}, live : Keys, keys : Keys, unchanged : Keys]

Typed ==
    /\ drafts \in [DraftIds -> Metadata \cup {NoDraft}]
    /\ op \in [Editors -> Ops]
    /\ sweep \in Sweeps
    /\ content \in Keys /\ fresh \in Keys
    /\ revision \in 0 .. MaxWrites

\* Revisions are drawn from one sequence, and snapshots are named by them.
DraftsSound ==
    \A d \in Stored :
        /\ drafts[d].cursor \in 1 .. Len(drafts[d].history)
        /\ drafts[d].rev <= revision
        /\ \A i \in 1 .. Len(drafts[d].history) : drafts[d].history[i] <= revision

\* What an operation has read is still so if the draft is at that revision.
OpsSound ==
    \A e \in Editors : op[e].step \in Kinds =>
        /\ op[e].meta.rev <= revision
        /\ drafts[op[e].draft] # NoDraft /\ drafts[op[e].draft].rev = op[e].meta.rev
              => drafts[op[e].draft] = op[e].meta

\* So is what the cleanup of published drafts has listed.
CleanupSound ==
    \A d \in DraftIds, r \in Nat : <<d, r>> \in sweep.unchanged =>
        /\ r <= revision
        /\ drafts[d] # NoDraft /\ drafts[d].rev = r => PublishedUnchanged(drafts[d])

\* What a draft names and the sweep of the content does not know is fresh.
SweepSound ==
    \A d \in Stored : \A k \in ContentOf(d, drafts[d].history) :
        /\ sweep.step = "drafts" => k \in sweep.live \cup fresh
        /\ sweep.step = "keys" /\ k \in sweep.keys => k \in fresh

\* What editors hold are revisions of drafts.
Answered == seen \in [Editors -> DraftIds \X Nat]

Inv == Typed /\ DraftsSound /\ OpsSound /\ CleanupSound /\ ContentIntact /\ SweepSound

----------------------------------------------------------------------------
(* Histories.                                                              *)

WellFormed(m) == m \in Metadata /\ m.cursor \in 1 .. Len(m.history)

\* pruneHistory keeps the newest snapshots, the last one among them.
LEMMA RecentKeeps ==
    ASSUME NEW h \in Seq(Nat), Len(h) > 0
    PROVE  /\ Recent(h) \in Seq(Nat) /\ Len(Recent(h)) \in 1 .. Len(h)
           /\ \A i \in 1 .. Len(Recent(h)) : \E j \in 1 .. Len(h) : Recent(h)[i] = h[j]
           /\ Recent(h)[Len(Recent(h))] = h[Len(h)]
<1> USE DraftsAssumption
<1>1. CASE Len(h) > MaxSnapshots
    <2> DEFINE m == Len(h) - MaxSnapshots + 1
    <2>1. m \in 1 .. Len(h) /\ \A i \in m .. Len(h) : h[i] \in Nat
        BY <1>1
    <2>2. /\ SubSeq(h, m, Len(h)) \in Seq(Nat)
          /\ Len(SubSeq(h, m, Len(h))) = MaxSnapshots
          /\ \A i \in 1 .. MaxSnapshots : SubSeq(h, m, Len(h))[i] = h[m + i - 1]
        BY <1>1, <2>1, SubSeqProperties
    <2>3. Recent(h) = SubSeq(h, m, Len(h))
        BY <1>1 DEF Recent
    <2>4. \A i \in 1 .. MaxSnapshots : m + i - 1 \in 1 .. Len(h)
        BY <1>1
    <2>. QED BY <2>1, <2>2, <2>3, <2>4
<1>2. CASE ~(Len(h) > MaxSnapshots)
    BY <1>2 DEF Recent
<1>. QED BY <1>1, <1>2

\* A save keeps what is before the cursor and adds its snapshot.
LEMMA SaveKeeps ==
    ASSUME NEW h \in Seq(Nat), NEW c \in 0 .. Len(h), NEW r \in Nat
    PROVE  LET s == SubSeq(h, 1, c) \o <<r>>
           IN  /\ s \in Seq(Nat) /\ Len(s) = c + 1 /\ s[c + 1] = r
               /\ \A i \in 1 .. c : s[i] = h[i]
<1>1. /\ SubSeq(h, 1, c) \in Seq(Nat) /\ Len(SubSeq(h, 1, c)) = c
      /\ \A i \in 1 .. c : SubSeq(h, 1, c)[i] = h[i]
    BY SubSeqProperties
<1>. QED BY <1>1, ConcatProperties

\* A removal keeps the others, in their order.
LEMMA RemoveKeeps ==
    ASSUME NEW h \in Seq(Nat), NEW i \in 1 .. Len(h)
    PROVE  /\ RemoveAt(h, i) \in Seq(Nat) /\ Len(RemoveAt(h, i)) = Len(h) - 1
           /\ \A j \in 1 .. Len(h) - 1 : RemoveAt(h, i)[j] = IF j < i THEN h[j] ELSE h[j + 1]
<1> DEFINE s == SubSeq(h, 1, i - 1)
           t == SubSeq(h, i + 1, Len(h))
<1>1. s \in Seq(Nat) /\ Len(s) = i - 1 /\ \A j \in 1 .. i - 1 : s[j] = h[j]
    BY SubSeqProperties
<1>2. t \in Seq(Nat) /\ Len(t) = Len(h) - i /\ \A j \in 1 .. Len(h) - i : t[j] = h[i + j]
    BY SubSeqProperties
<1>3. RemoveAt(h, i) = s \o t
    BY DEF RemoveAt
<1> HIDE DEF s, t
<1>4. /\ s \o t \in Seq(Nat) /\ Len(s \o t) = Len(h) - 1
      /\ \A j \in 1 .. Len(h) - 1 : (s \o t)[j] = IF j <= i - 1 THEN s[j] ELSE t[j - (i - 1)]
    <2>1. /\ s \o t \in Seq(Nat) /\ Len(s \o t) = Len(s) + Len(t)
          /\ \A j \in 1 .. Len(s) + Len(t) : (s \o t)[j] = IF j <= Len(s) THEN s[j] ELSE t[j - Len(s)]
        BY <1>1, <1>2, ConcatProperties
    <2>2. Len(s) = i - 1 /\ Len(s) + Len(t) = Len(h) - 1
        BY <1>1, <1>2
    <2>. QED BY <2>1, <2>2
<1>5. ASSUME NEW j \in 1 .. Len(h) - 1
      PROVE  (s \o t)[j] = IF j < i THEN h[j] ELSE h[j + 1]
    <2>1. CASE j < i
        BY <1>1, <1>4, <2>1
    <2>2. CASE ~(j < i)
        <3> DEFINE k == j - (i - 1)
        <3>1. k \in 1 .. Len(h) - i /\ i + k = j + 1
            BY <2>2
        <3>2. (s \o t)[j] = t[k]
            <4>1. (s \o t)[j] = IF j <= i - 1 THEN s[j] ELSE t[j - (i - 1)]
                BY <1>4
            <4>2. ~(j <= i - 1)
                BY <2>2
            <4>. QED BY <4>1, <4>2
        <3> HIDE DEF k
        <3>. QED BY <1>2, <2>2, <3>1, <3>2
    <2>. QED BY <2>1, <2>2
<1>. QED BY <1>3, <1>4, <1>5

LEMMA MetadataFields ==
    ASSUME NEW m \in Metadata
    PROVE  /\ m.rev \in Nat /\ m.history \in Seq(Nat) /\ m.cursor \in Nat /\ Len(m.history) \in Nat
           /\ DOMAIN m.history = 1 .. Len(m.history)
BY DEF Metadata

\* A save: the cursor is on the new snapshot, the last one.
LEMMA AppendedSound ==
    ASSUME NEW m, WellFormed(m), NEW r \in Nat
    PROVE  LET n == Appended(m, r)
           IN  /\ WellFormed(n) /\ n.rev = r
               /\ n.history = Recent(SubSeq(m.history, 1, m.cursor) \o <<r>>)
               /\ n.cursor = Len(n.history) /\ n.history[Len(n.history)] = r
               /\ \A i \in 1 .. Len(n.history) :
                    n.history[i] = r \/ \E j \in 1 .. Len(m.history) : n.history[i] = m.history[j]
<1> DEFINE s == SubSeq(m.history, 1, m.cursor) \o <<r>>
           h == Recent(s)
           n == Appended(m, r)
<1>1. m \in Metadata /\ m.history \in Seq(Nat) /\ m.cursor \in 1 .. Len(m.history) /\ Len(m.history) \in Nat
    BY MetadataFields DEF WellFormed
<1>2. m.cursor \in 0 .. Len(m.history) /\ m.cursor \in Nat
    BY <1>1
<1>3. /\ s \in Seq(Nat) /\ Len(s) = m.cursor + 1 /\ s[m.cursor + 1] = r
      /\ \A i \in 1 .. m.cursor : s[i] = m.history[i]
    BY <1>1, <1>2, SaveKeeps
<1>4. n = [m EXCEPT !.rev = r, !.history = h, !.cursor = Len(h)]
    BY DEF Appended
<1> HIDE DEF s
<1>5. /\ h \in Seq(Nat) /\ Len(h) \in 1 .. Len(s) /\ h[Len(h)] = s[Len(s)]
      /\ \A i \in 1 .. Len(h) : \E j \in 1 .. Len(s) : h[i] = s[j]
    <2>1. Len(s) > 0
        BY <1>2, <1>3
    <2>. QED BY <1>3, <2>1, RecentKeeps
<1>6. \A j \in 1 .. Len(s) : s[j] = r \/ \E k \in 1 .. Len(m.history) : s[j] = m.history[k]
    <2>1. ASSUME NEW j \in 1 .. Len(s) PROVE j \in 1 .. m.cursor \/ j = m.cursor + 1
        BY <1>2, <1>3
    <2>2. 1 .. m.cursor \subseteq 1 .. Len(m.history)
        BY <1>1
    <2>. QED BY <1>3, <2>1, <2>2
<1> HIDE DEF h, n
<1>7. n \in Metadata /\ n.rev = r /\ n.history = h /\ n.cursor = Len(h) /\ Len(h) \in 1 .. Len(h)
    <2>1. Len(h) \in Nat /\ Len(h) \in 1 .. Len(h)
        BY <1>5
    <2>2. n \in Metadata
        BY <1>1, <1>4, <1>5, <2>1 DEF Metadata
    <2>3. n.rev = r
        BY <1>1, <1>4 DEF Metadata
    <2>4. n.history = h
        BY <1>1, <1>4 DEF Metadata
    <2>5. n.cursor = Len(h)
        BY <1>1, <1>4 DEF Metadata
    <2>. QED BY <2>1, <2>2, <2>3, <2>4, <2>5
<1>8. n.history = Recent(SubSeq(m.history, 1, m.cursor) \o <<r>>)
    BY <1>7 DEF h, s
<1>9. h[Len(h)] = r
    BY <1>3, <1>5
<1>10. n.history[Len(n.history)] = r /\ n.cursor = Len(n.history)
    BY <1>7, <1>9
<1>11. \A i \in 1 .. Len(n.history) :
            n.history[i] = r \/ \E j \in 1 .. Len(m.history) : n.history[i] = m.history[j]
    BY <1>5, <1>6, <1>7
<1>. QED BY <1>7, <1>8, <1>10, <1>11 DEF WellFormed, n

\* A removal: the cursor stays on its snapshot.
LEMMA RemovedSound ==
    ASSUME NEW m, WellFormed(m), NEW r \in Nat, NEW i \in 1 .. Len(m.history), i # m.cursor
    PROVE  LET n == Removed(m, r, i)
           IN  /\ WellFormed(n) /\ n.rev = r
               /\ n.history = RemoveAt(m.history, i) /\ n.history[n.cursor] = m.history[m.cursor]
               /\ n.publication = m.publication
               /\ \A j \in 1 .. Len(n.history) : \E k \in 1 .. Len(m.history) : n.history[j] = m.history[k]
<1> DEFINE h == RemoveAt(m.history, i)
           c == IF i < m.cursor THEN m.cursor - 1 ELSE m.cursor
           n == Removed(m, r, i)
<1>1. m \in Metadata /\ m.history \in Seq(Nat) /\ m.cursor \in 1 .. Len(m.history) /\ Len(m.history) \in Nat
    BY MetadataFields DEF WellFormed
<1>2. /\ h \in Seq(Nat) /\ Len(h) = Len(m.history) - 1
      /\ \A j \in 1 .. Len(m.history) - 1 : h[j] = IF j < i THEN m.history[j] ELSE m.history[j + 1]
    BY <1>1, RemoveKeeps
<1>3. n = [m EXCEPT !.rev = r, !.history = h, !.cursor = c]
    BY DEF Removed
<1> HIDE DEF h
<1>4. c \in Nat /\ c \in 1 .. Len(m.history) - 1
    BY <1>1
<1>5. h[c] = m.history[m.cursor]
    <2>1. CASE i < m.cursor
        <3>1. c = m.cursor - 1 /\ ~(c < i) /\ c + 1 = m.cursor
            BY <1>1, <2>1
        <3> HIDE DEF c
        <3>. QED BY <1>2, <1>4, <3>1
    <2>2. CASE ~(i < m.cursor)
        <3>1. c = m.cursor /\ c < i
            BY <1>1, <2>2
        <3> HIDE DEF c
        <3>. QED BY <1>2, <1>4, <3>1
    <2>. QED BY <2>1, <2>2
<1>6. \A j \in 1 .. Len(h) : \E k \in 1 .. Len(m.history) : h[j] = m.history[k]
    <2>1. ASSUME NEW j \in 1 .. Len(m.history) - 1
          PROVE  j \in 1 .. Len(m.history) /\ j + 1 \in 1 .. Len(m.history)
        BY <1>1
    <2>. QED BY <1>2, <2>1
<1> HIDE DEF c, n
<1>7. n \in Metadata /\ n.rev = r /\ n.history = h /\ n.cursor = c /\ n.publication = m.publication
    <2>2. n \in Metadata
        BY <1>1, <1>2, <1>3, <1>4 DEF Metadata
    <2>3. n.rev = r
        BY <1>1, <1>3 DEF Metadata
    <2>4. n.history = h
        BY <1>1, <1>3 DEF Metadata
    <2>5. n.cursor = c
        BY <1>1, <1>3 DEF Metadata
    <2>6. n.publication = m.publication
        BY <1>1, <1>3 DEF Metadata
    <2>. QED BY <2>2, <2>3, <2>4, <2>5, <2>6
<1>. QED BY <1>2, <1>4, <1>5, <1>6, <1>7 DEF WellFormed, h, n

\* An undo or redo moves the cursor, and a publication is recorded: the
\* history is as it was.
LEMMA MovedSound ==
    ASSUME NEW m, WellFormed(m), NEW r \in Nat, NEW i \in 1 .. Len(m.history)
    PROVE  LET n == Moved(m, r, i)
           IN  /\ WellFormed(n) /\ n.rev = r /\ n.history = m.history
               /\ \A j \in 1 .. Len(n.history) : \E k \in 1 .. Len(m.history) : n.history[j] = m.history[k]
<1> DEFINE n == Moved(m, r, i)
<1>1. m \in Metadata /\ i \in Nat
    BY MetadataFields DEF WellFormed
<1>2. n = [m EXCEPT !.rev = r, !.cursor = i]
    BY DEF Moved
<1> HIDE DEF n
<1>3. n \in Metadata
    BY <1>1, <1>2 DEF Metadata
<1>4. n.rev = r
    BY <1>1, <1>2 DEF Metadata
<1>5. n.history = m.history
    BY <1>1, <1>2 DEF Metadata
<1>6. n.cursor = i
    BY <1>1, <1>2 DEF Metadata
<1>. QED BY <1>3, <1>4, <1>5, <1>6 DEF WellFormed, n

LEMMA MarkedSound ==
    ASSUME NEW m, WellFormed(m), NEW r \in Nat
    PROVE  LET n == MarkedPublished(m, r)
           IN  /\ WellFormed(n) /\ n.rev = r /\ n.history = m.history /\ n.cursor = m.cursor
               /\ \A j \in 1 .. Len(n.history) : \E k \in 1 .. Len(m.history) : n.history[j] = m.history[k]
<1> DEFINE n == MarkedPublished(m, r)
           b == [snapshot |-> m.history[m.cursor], at |-> m.rev]
<1>1. m \in Metadata /\ m.history[m.cursor] \in Nat /\ m.rev \in Nat
    BY MetadataFields DEF WellFormed
<1>2. b \in Published
    BY <1>1 DEF Published
<1>3. n = [m EXCEPT !.rev = r, !.publication = b]
    BY DEF MarkedPublished
<1> HIDE DEF n, b
<1>4. n \in Metadata
    BY <1>1, <1>2, <1>3 DEF Metadata
<1>5. n.rev = r
    BY <1>1, <1>3 DEF Metadata
<1>6. n.history = m.history
    BY <1>1, <1>3 DEF Metadata
<1>7. n.cursor = m.cursor
    BY <1>1, <1>3 DEF Metadata
<1>. QED BY <1>4, <1>5, <1>6, <1>7 DEF WellFormed, n

\* What an operation makes of metadata: the revision is the write's, the
\* cursor is on a snapshot, and only the write's own snapshot is new.
LEMMA OutcomesSound ==
    ASSUME NEW m, WellFormed(m), NEW r \in Nat, NEW kind \in Kinds, NEW n \in Outcomes(kind, m, r)
    PROVE  /\ WellFormed(n) /\ n.rev = r
           /\ \A i \in 1 .. Len(n.history) :
                n.history[i] = r \/ \E j \in 1 .. Len(m.history) : n.history[i] = m.history[j]
<1>1. m \in Metadata /\ m.history \in Seq(Nat) /\ DOMAIN m.history = 1 .. Len(m.history) /\ m.rev \in Nat
      /\ m.cursor \in 1 .. Len(m.history)
    BY MetadataFields DEF WellFormed
<1>2. CASE kind = "append"
    <2>1. n = Appended(m, r)
        BY <1>2 DEF Outcomes
    <2> HIDE DEF WellFormed
    <2>2. WellFormed(Appended(m, r)) /\ Appended(m, r).rev = r
        BY AppendedSound
    <2>3. \A i \in 1 .. Len(Appended(m, r).history) :
            Appended(m, r).history[i] = r
            \/ \E j \in 1 .. Len(m.history) : Appended(m, r).history[i] = m.history[j]
        BY AppendedSound
    <2>. QED BY <2>1, <2>2, <2>3
<1>3. CASE kind = "move"
    <2>1. PICK i \in 1 .. Len(m.history) : n = Moved(m, r, i)
        BY <1>1, <1>3 DEF Outcomes
    <2>. QED BY <2>1, MovedSound
<1>4. CASE kind = "remove"
    <2>1. PICK i \in 1 .. Len(m.history) : i # m.cursor /\ n = Removed(m, r, i)
        BY <1>1, <1>4 DEF Outcomes
    <2>. QED BY <2>1, RemovedSound
<1>5. CASE kind = "mark"
    <2>1. n = MarkedPublished(m, r)
        BY <1>5 DEF Outcomes
    <2>. QED BY <2>1, MarkedSound
<1>. QED BY <1>2, <1>3, <1>4, <1>5 DEF Kinds

\* writeDraft drops the content of snapshots that go and adds that of one that
\* comes: what the new history names is there, if what the old one named was,
\* and what it did not name is fresh.
LEMMA ReplacedHas ==
    ASSUME NEW keys, NEW before, NEW after, NEW k \in after
    PROVE  /\ k \in keys => k \in Replaced(keys, before, after)
           /\ k \notin before => k \in Replaced(keys, before, after)
BY DEF Replaced

\* Another draft's content is not touched.
LEMMA ReplacedKeeps ==
    ASSUME NEW keys, NEW d, NEW c, c # d, NEW g, NEW h, NEW f, NEW k \in ContentOf(c, f), k \in keys
    PROVE  k \in Replaced(keys, ContentOf(d, g), ContentOf(d, h))
BY DEF Replaced, ContentOf

LEMMA ContentKeys ==
    ASSUME NEW d, NEW h
    PROVE  \A k : k \in ContentOf(d, h) <=> \E i \in DOMAIN h : k = <<d, h[i]>>
BY DEF ContentOf

LEMMA ContentTyped ==
    ASSUME NEW d \in DraftIds, NEW h \in Seq(Nat)
    PROVE  ContentOf(d, h) \in Keys
BY DEF ContentOf, Keys

----------------------------------------------------------------------------
(* What the invariant says of one draft and of one operation.              *)

LEMMA StoredFacts ==
    ASSUME Typed, DraftsSound, NEW d \in Stored
    PROVE  /\ d \in DraftIds /\ drafts[d] # NoDraft /\ WellFormed(drafts[d])
           /\ drafts[d].rev \in Nat /\ drafts[d].rev <= revision
           /\ \A i \in 1 .. Len(drafts[d].history) : drafts[d].history[i] \in Nat /\ drafts[d].history[i] <= revision
<1>1. d \in DraftIds /\ drafts[d] # NoDraft /\ drafts[d] \in Metadata
    BY DEF Stored, Typed
<1>2. WellFormed(drafts[d]) /\ drafts[d].rev <= revision
    BY <1>1 DEF DraftsSound, WellFormed
<1>3. drafts[d].rev \in Nat /\ drafts[d].history \in Seq(Nat)
    BY <1>1, MetadataFields
<1>4. \A i \in 1 .. Len(drafts[d].history) : drafts[d].history[i] \in Nat
    BY <1>3
<1>. QED BY <1>1, <1>2, <1>3, <1>4 DEF DraftsSound

LEMMA OpFacts ==
    ASSUME Typed, NEW e \in Editors, op[e].step \in Kinds
    PROVE  op[e].draft \in DraftIds /\ op[e].meta \in Metadata /\ op[e].meta.rev \in Nat
<1>1. op[e] \in Ops
    BY DEF Typed
<1>2. op[e] \in [step : Kinds, draft : DraftIds, meta : Metadata]
    BY <1>1 DEF Ops, Kinds
<1>. QED BY <1>2, MetadataFields

LEMMA Numbers ==
    ASSUME Typed
    PROVE  revision \in Nat /\ revision <= MaxWrites /\ MaxWrites \in Nat
BY DraftsAssumption DEF Typed

----------------------------------------------------------------------------
(* One draft gets new metadata at a new revision: its creation, the write  *)
(* of an operation, and damage.                                            *)

Lists(d) == IF drafts[d] = NoDraft THEN {} ELSE ContentOf(d, drafts[d].history)

LEMMA Written ==
    ASSUME Inv, NEW d \in DraftIds, NEW n, WellFormed(n),
           revision < MaxWrites, revision' = revision + 1, n.rev = revision + 1,
           \A i \in 1 .. Len(n.history) : n.history[i] <= revision + 1,
           drafts' = [drafts EXCEPT ![d] = n],
           content' \in Keys, fresh' \in Keys, sweep' = sweep,
           op' \in [Editors -> Ops], \A e \in Editors : op'[e].step \in Kinds => op'[e] = op[e],
           \A k \in ContentOf(d, n.history) :
                /\ k \in content'
                /\ (k \in Lists(d) /\ (k \in fresh => k \in fresh')) \/ k \in fresh',
           \A c \in Stored \ {d} : \A k \in ContentOf(c, drafts[c].history) :
                (k \in content => k \in content') /\ (k \in fresh => k \in fresh')
    PROVE  Inv'
<1>1. Typed /\ DraftsSound /\ OpsSound /\ CleanupSound /\ ContentIntact /\ SweepSound
    BY DEF Inv
<1>2. revision \in Nat /\ MaxWrites \in Nat
    BY <1>1, Numbers
<1>3. n \in Metadata /\ n # NoDraft
    BY DraftsAssumption DEF WellFormed
<1>4. drafts \in [DraftIds -> Metadata \cup {NoDraft}]
    BY <1>1 DEF Typed
<1>5. drafts'[d] = n /\ \A c \in DraftIds \ {d} : drafts'[c] = drafts[c]
    BY <1>4
<1>6. Stored' = Stored \cup {d}
    BY <1>3, <1>5 DEF Stored
<1>7. Typed'
    <2>1. drafts' \in [DraftIds -> Metadata \cup {NoDraft}]
        BY <1>3, <1>4
    <2>2. revision' \in 0 .. MaxWrites
        BY <1>2
    <2>. QED BY <1>1, <2>1, <2>2 DEF Typed
<1>8. DraftsSound'
    <2> SUFFICES ASSUME NEW c \in Stored'
                 PROVE  /\ drafts'[c].cursor \in 1 .. Len(drafts'[c].history)
                        /\ drafts'[c].rev <= revision'
                        /\ \A i \in 1 .. Len(drafts'[c].history) : drafts'[c].history[i] <= revision'
        BY DEF DraftsSound
    <2>1. CASE c = d
        BY <1>2, <1>5, <2>1 DEF WellFormed
    <2>2. CASE c # d
        <3>1. c \in Stored /\ drafts'[c] = drafts[c]
            BY <1>5, <1>6, <2>2 DEF Stored
        <3>2. /\ WellFormed(drafts[c]) /\ drafts[c].rev \in Nat /\ drafts[c].rev <= revision
              /\ \A i \in 1 .. Len(drafts[c].history) :
                    drafts[c].history[i] \in Nat /\ drafts[c].history[i] <= revision
            BY <1>1, <3>1, StoredFacts
        <3>. QED BY <1>2, <3>1, <3>2 DEF WellFormed
    <2>. QED BY <2>1, <2>2
<1>9. OpsSound'
    <2> SUFFICES ASSUME NEW e \in Editors, op'[e].step \in Kinds
                 PROVE  /\ op'[e].meta.rev <= revision'
                        /\ drafts'[op'[e].draft] # NoDraft /\ drafts'[op'[e].draft].rev = op'[e].meta.rev
                              => drafts'[op'[e].draft] = op'[e].meta
        BY DEF OpsSound
    <2>1. op'[e] = op[e] /\ op[e].step \in Kinds
        OBVIOUS
    <2>2. op[e].draft \in DraftIds /\ op[e].meta.rev \in Nat /\ op[e].meta.rev <= revision
        BY <1>1, <2>1, OpFacts DEF OpsSound
    <2>3. CASE op[e].draft = d
        BY <1>2, <1>5, <2>1, <2>2, <2>3
    <2>4. CASE op[e].draft # d
        <3>1. drafts'[op[e].draft] = drafts[op[e].draft]
            BY <1>5, <2>2, <2>4
        <3>2. drafts[op[e].draft] # NoDraft /\ drafts[op[e].draft].rev = op[e].meta.rev
                => drafts[op[e].draft] = op[e].meta
            BY <1>1, <2>1 DEF OpsSound
        <3>. QED BY <1>2, <2>1, <2>2, <3>1, <3>2
    <2>. QED BY <2>3, <2>4
<1>10. CleanupSound'
    <2> SUFFICES ASSUME NEW c \in DraftIds, NEW r \in Nat, <<c, r>> \in sweep.unchanged
                 PROVE  /\ r <= revision'
                        /\ drafts'[c] # NoDraft /\ drafts'[c].rev = r => PublishedUnchanged(drafts'[c])
        BY DEF CleanupSound
    <2>1. r <= revision /\ (drafts[c] # NoDraft /\ drafts[c].rev = r => PublishedUnchanged(drafts[c]))
        BY <1>1 DEF CleanupSound
    <2>2. CASE c = d
        BY <1>2, <1>5, <2>1, <2>2
    <2>3. CASE c # d
        <3>1. drafts'[c] = drafts[c]
            BY <1>5, <2>3
        <3>. QED BY <1>2, <2>1, <3>1
    <2>. QED BY <2>2, <2>3
<1>11. ASSUME NEW c \in Stored', NEW k \in ContentOf(c, drafts'[c].history)
       PROVE  /\ k \in content'
              /\ sweep.step = "drafts" => k \in sweep.live \cup fresh'
              /\ sweep.step = "keys" /\ k \in sweep.keys => k \in fresh'
    <2>1. CASE c = d
        <3>1. k \in ContentOf(d, n.history)
            BY <1>5, <1>11, <2>1
        <3>2. CASE k \in fresh'
            BY <3>1, <3>2
        <3>3. CASE k \in Lists(d) /\ (k \in fresh => k \in fresh')
            <4>1. d \in Stored /\ k \in ContentOf(d, drafts[d].history)
                BY <3>3 DEF Lists, Stored
            <4>. QED BY <1>1, <3>1, <3>3, <4>1 DEF SweepSound
        <3>. QED BY <3>1, <3>2, <3>3
    <2>2. CASE c # d
        <3>1. c \in Stored \ {d} /\ drafts'[c] = drafts[c]
            BY <1>5, <1>6, <2>2 DEF Stored
        <3>2. k \in ContentOf(c, drafts[c].history)
            BY <1>11, <3>1
        <3>3. k \in content
            BY <1>1, <3>1, <3>2 DEF ContentIntact
        <3>. QED BY <1>1, <3>1, <3>2, <3>3 DEF SweepSound
    <2>. QED BY <2>1, <2>2
<1>12. ContentIntact'
    BY <1>11 DEF ContentIntact
<1>13. SweepSound'
    BY <1>11 DEF SweepSound
<1>. QED BY <1>7, <1>8, <1>9, <1>10, <1>12, <1>13 DEF Inv

----------------------------------------------------------------------------
(* One draft goes, with its content; or no draft changes.                  *)

LEMMA Gone ==
    ASSUME Inv, NEW d \in DraftIds, DeleteDraftTx(d, drafts[d].rev), revision' = revision, op' = op,
           sweep' \in Sweeps, sweep'.step = sweep.step, sweep'.live = sweep.live, sweep'.keys = sweep.keys,
           sweep'.unchanged \subseteq sweep.unchanged
    PROVE  Inv'
<1>1. Typed /\ DraftsSound /\ OpsSound /\ CleanupSound /\ ContentIntact /\ SweepSound
    BY DEF Inv
<1>2. /\ drafts \in [DraftIds -> Metadata \cup {NoDraft}]
      /\ drafts' = [drafts EXCEPT ![d] = NoDraft]
      /\ content' = {k \in content : k[1] # d} /\ fresh' = {k \in fresh : k[1] # d}
    BY <1>1 DEF Typed, DeleteDraftTx
<1>3. /\ drafts'[d] = NoDraft /\ \A c \in DraftIds \ {d} : drafts'[c] = drafts[c]
      /\ \A c \in DraftIds : drafts'[c] # NoDraft => c # d /\ drafts'[c] = drafts[c]
    BY <1>2
<1>4. \A c \in Stored' : c \in Stored /\ c # d /\ drafts'[c] = drafts[c]
    BY <1>3 DEF Stored
<1>5. Typed'
    <2>1. drafts' \in [DraftIds -> Metadata \cup {NoDraft}]
        BY <1>2
    <2>2. content' \in Keys /\ fresh' \in Keys
        BY <1>1, <1>2 DEF Typed, Keys
    <2>. QED BY <1>1, <2>1, <2>2 DEF Typed
<1>6. DraftsSound'
    BY <1>1, <1>4 DEF DraftsSound
<1>7. OpsSound'
    <2> SUFFICES ASSUME NEW e \in Editors, op[e].step \in Kinds
                 PROVE  /\ op[e].meta.rev <= revision
                        /\ drafts'[op[e].draft] # NoDraft /\ drafts'[op[e].draft].rev = op[e].meta.rev
                              => drafts'[op[e].draft] = op[e].meta
        BY DEF OpsSound
    <2>1. op[e].draft \in DraftIds
        BY <1>1, OpFacts
    <2>. QED BY <1>1, <1>3, <2>1 DEF OpsSound
<1>8. CleanupSound'
    BY <1>1, <1>3 DEF CleanupSound
<1>9. ASSUME NEW c \in Stored', NEW k \in ContentOf(c, drafts'[c].history)
      PROVE  /\ k \in content' /\ k \in content
             /\ k \in fresh => k \in fresh'
             /\ c \in Stored /\ k \in ContentOf(c, drafts[c].history)
    <2>1. c \in Stored /\ c # d /\ k \in ContentOf(c, drafts[c].history)
        BY <1>4, <1>9
    <2>2. k[1] # d
        BY <2>1, ContentKeys
    <2>3. k \in content
        BY <1>1, <2>1 DEF ContentIntact
    <2>. QED BY <1>2, <2>1, <2>2, <2>3
<1>10. ContentIntact'
    BY <1>9 DEF ContentIntact
<1>11. SweepSound'
    BY <1>1, <1>9 DEF SweepSound
<1>. QED BY <1>5, <1>6, <1>7, <1>8, <1>10, <1>11 DEF Inv

\* No draft changes, and content only goes that the sweep may remove.
LEMMA Untouched ==
    ASSUME Inv, drafts' = drafts, revision' = revision, Typed', OpsSound', CleanupSound',
           \A d \in Stored : \A k \in ContentOf(d, drafts[d].history) :
                /\ k \in content => k \in content'
                /\ sweep'.step = "drafts" => k \in sweep'.live \cup fresh'
                /\ sweep'.step = "keys" /\ k \in sweep'.keys => k \in fresh'
    PROVE  Inv'
<1>1. Stored' = Stored
    BY DEF Stored
<1>2. DraftsSound'
    BY <1>1 DEF Inv, DraftsSound
<1>3. ContentIntact'
    <2> SUFFICES ASSUME NEW d \in Stored, NEW k \in ContentOf(d, drafts[d].history)
                 PROVE  k \in content'
        BY <1>1 DEF ContentIntact
    <2>1. k \in content
        BY DEF Inv, ContentIntact
    <2>. QED BY <2>1
<1>4. SweepSound'
    BY <1>1 DEF SweepSound
<1>. QED BY <1>2, <1>3, <1>4 DEF Inv

\* An operation begins, ends without a write, or only reads.
LEMMA OpsMove ==
    ASSUME Inv, drafts' = drafts, revision' = revision, content' = content, fresh' = fresh, sweep' = sweep,
           op' \in [Editors -> Ops],
           \A e \in Editors : op'[e].step \in Kinds =>
                \/ op'[e] = op[e]
                \/ op'[e].draft \in Stored /\ op'[e].meta = drafts[op'[e].draft]
    PROVE  Inv'
<1>1. Typed /\ DraftsSound /\ OpsSound /\ CleanupSound /\ SweepSound
    BY DEF Inv
<1>2. Typed'
    BY <1>1 DEF Typed
<1>3. OpsSound'
    <2> SUFFICES ASSUME NEW e \in Editors, op'[e].step \in Kinds
                 PROVE  /\ op'[e].meta.rev <= revision
                        /\ drafts[op'[e].draft] # NoDraft /\ drafts[op'[e].draft].rev = op'[e].meta.rev
                              => drafts[op'[e].draft] = op'[e].meta
        BY DEF OpsSound
    <2>1. CASE op'[e] = op[e]
        BY <1>1, <2>1 DEF OpsSound
    <2>2. CASE op'[e].draft \in Stored /\ op'[e].meta = drafts[op'[e].draft]
        BY <1>1, <2>2, StoredFacts
    <2>. QED BY <2>1, <2>2
<1>4. CleanupSound'
    BY <1>1 DEF CleanupSound
<1>5. \A d \in Stored : \A k \in ContentOf(d, drafts[d].history) :
            /\ sweep.step = "drafts" => k \in sweep.live \cup fresh
            /\ sweep.step = "keys" /\ k \in sweep.keys => k \in fresh
    BY <1>1 DEF SweepSound
<1>. QED BY <1>2, <1>3, <1>4, <1>5, Untouched

----------------------------------------------------------------------------
(* The invariant holds at first, and each action keeps it.                 *)

LEMMA InitInv == DraftsInit => Inv
<1> SUFFICES ASSUME DraftsInit PROVE Inv
    OBVIOUS
<1>1. Stored = {}
    BY DEF DraftsInit, Stored
<1>2. Typed
    <2>1. op \in [Editors -> Ops] /\ \A e \in Editors : op[e].step = "idle"
        BY DEF DraftsInit, Ops
    <2>2. sweep \in Sweeps /\ content \in Keys /\ fresh \in Keys
        BY DEF DraftsInit, Idle, Sweeps, Keys
    <2>3. drafts \in [DraftIds -> Metadata \cup {NoDraft}] /\ revision \in 0 .. MaxWrites
        BY DraftsAssumption DEF DraftsInit
    <2>. QED BY <2>1, <2>2, <2>3 DEF Typed
<1>3. OpsSound
    BY DEF DraftsInit, OpsSound, Kinds
<1>4. CleanupSound
    BY DEF DraftsInit, CleanupSound, Idle
<1>. QED BY <1>1, <1>2, <1>3, <1>4 DEF Inv, DraftsSound, ContentIntact, SweepSound

\* Reading, the check of the limit, and giving up touch no draft.
LEMMA ReadsStep ==
    ASSUME Inv, NEW e \in Editors, NEW kind \in Kinds, ReadsDraft(e, kind)
    PROVE  Inv'
<1> DEFINE d == seen[e][1]
<1>1. /\ d \in Stored /\ op' = [op EXCEPT ![e] = [step |-> kind, draft |-> d, meta |-> drafts[d]]]
      /\ UNCHANGED <<drafts, content, fresh, revision, sweep>>
    BY DEF ReadsDraft, Readable
<1> HIDE DEF d
<1>2. Typed /\ DraftsSound /\ op \in [Editors -> Ops]
    BY DEF Inv, Typed
<1>3. d \in DraftIds /\ drafts[d] \in Metadata
    BY <1>1, <1>2, StoredFacts DEF WellFormed
<1>4. [step |-> kind, draft |-> d, meta |-> drafts[d]] \in Ops
    BY <1>3 DEF Ops
<1>5. op' \in [Editors -> Ops]
    BY <1>1, <1>2, <1>4
<1>6. \A x \in Editors : op'[x].step \in Kinds =>
            op'[x] = op[x] \/ (op'[x].draft \in Stored /\ op'[x].meta = drafts[op'[x].draft])
    BY <1>1, <1>2
<1>. QED BY <1>1, <1>5, <1>6, OpsMove

LEMMA StopsStep ==
    ASSUME Inv, NEW e \in Editors, NEW s \in {"idle", "create"}, op' = [op EXCEPT ![e] = [step |-> s]],
           UNCHANGED <<drafts, content, fresh, revision, sweep>>
    PROVE  Inv'
<1>1. op \in [Editors -> Ops] /\ [step |-> s] \in Ops
    BY DEF Inv, Typed, Ops
<1>2. op' \in [Editors -> Ops]
    BY <1>1
<1>3. \A x \in Editors : op'[x].step \in Kinds => op'[x] = op[x]
    BY <1>1 DEF Kinds
<1>. QED BY <1>2, <1>3, OpsMove

\* A draft is created with one snapshot, of which there was nothing before.
LEMMA CreateStep ==
    ASSUME Inv, NEW e \in Editors, NEW d \in DraftIds, CreateDraft(e, d)
    PROVE  Inv'
<1> DEFINE r == revision + 1
           n == [rev |-> r, history |-> <<r>>, cursor |-> 1, publication |-> NoPublication]
<1>1. Typed /\ revision \in Nat /\ r \in Nat
    BY Numbers DEF Inv
<1>2. /\ revision < MaxWrites /\ revision' = r /\ drafts' = [drafts EXCEPT ![d] = n]
      /\ content' = content \cup {<<d, r>>} /\ fresh' = fresh \cup {<<d, r>>}
      /\ op' = [op EXCEPT ![e] = [step |-> "idle"]] /\ sweep' = sweep
    BY DEF CreateDraft
<1>3. <<r>> \in Seq(Nat) /\ Len(<<r>>) = 1 /\ <<r>>[1] = r /\ NoPublication \in Published
    BY <1>1 DEF NoPublication, Published
<1>4. n \in Metadata /\ n.rev = r /\ n.history = <<r>> /\ n.cursor = 1
    BY <1>1, <1>3 DEF Metadata
<1> HIDE DEF n, r
<1>5. WellFormed(n) /\ \A i \in 1 .. Len(n.history) : n.history[i] = r
    BY <1>3, <1>4 DEF WellFormed
<1>6. <<d, r>> \in DraftIds \X Nat /\ content' \in Keys /\ fresh' \in Keys
    BY <1>1, <1>2 DEF Typed, Keys
<1>7. op \in [Editors -> Ops] /\ [step |-> "idle"] \in Ops
    BY <1>1 DEF Typed, Ops
<1>8. op' \in [Editors -> Ops] /\ \A x \in Editors : op'[x].step \in Kinds => op'[x] = op[x]
    BY <1>2, <1>7 DEF Kinds
<1>9. \A k \in ContentOf(d, n.history) : k \in content' /\ k \in fresh'
    BY <1>2, <1>3, <1>4 DEF ContentOf
<1>10. \A k : (k \in content => k \in content') /\ (k \in fresh => k \in fresh')
    BY <1>2
<1>11. /\ revision' = revision + 1 /\ n.rev = revision + 1
       /\ \A i \in 1 .. Len(n.history) : n.history[i] <= revision + 1
    BY <1>1, <1>2, <1>4, <1>5 DEF r
<1>. QED BY <1>2, <1>5, <1>6, <1>8, <1>9, <1>10, <1>11, Written

\* Damage changes nothing but the revision.
LEMMA DamageStep ==
    ASSUME Inv, NEW d \in DraftIds, Damage(d)
    PROVE  Inv'
<1> DEFINE r == revision + 1
           m == drafts[d]
           n == [m EXCEPT !.rev = r]
<1>1. Typed /\ DraftsSound /\ ContentIntact /\ revision \in Nat /\ r \in Nat
    BY Numbers DEF Inv
<1>2. /\ d \in Stored /\ revision < MaxWrites /\ revision' = r /\ drafts' = [drafts EXCEPT ![d] = n]
      /\ UNCHANGED <<content, fresh, op, sweep>>
    BY DEF Damage, Readable
<1>3. /\ WellFormed(m) /\ m \in Metadata /\ m # NoDraft
      /\ \A i \in 1 .. Len(m.history) : m.history[i] \in Nat /\ m.history[i] <= revision
    BY <1>1, <1>2, StoredFacts DEF WellFormed
<1> HIDE DEF m, r
<1>4. n \in Metadata
    BY <1>1, <1>3 DEF Metadata
<1>5. n.rev = r
    BY <1>1, <1>3 DEF Metadata
<1>6. n.history = m.history
    BY <1>1, <1>3 DEF Metadata
<1>7. n.cursor = m.cursor
    BY <1>1, <1>3 DEF Metadata
<1> HIDE DEF n
<1>8. WellFormed(n) /\ n.rev = revision + 1 /\ \A i \in 1 .. Len(n.history) : n.history[i] <= revision + 1
    BY <1>1, <1>3, <1>4, <1>5, <1>6, <1>7 DEF WellFormed, r
<1>9. \A k \in ContentOf(d, n.history) : k \in content /\ k \in Lists(d)
    BY <1>1, <1>2, <1>3, <1>6 DEF ContentIntact, Lists, m
<1>10. content \in Keys /\ fresh \in Keys /\ op \in [Editors -> Ops]
    BY <1>1 DEF Typed
<1>. QED BY <1>2, <1>8, <1>9, <1>10, Written DEF r

\* A write finds the metadata the operation read: the content of the
\* snapshots it keeps is there, and only its own snapshot is new.
LEMMA WriteStep ==
    ASSUME Inv, NEW e \in Editors, WriteDraft(e)
    PROVE  Inv'
<1> DEFINE d == op[e].draft
           m == op[e].meta
           r == revision + 1
<1>1. Typed /\ DraftsSound /\ OpsSound /\ ContentIntact /\ revision \in Nat /\ r \in Nat
    BY Numbers DEF Inv
<1>2. op[e].step \in Kinds /\ revision < MaxWrites /\ drafts[d] # NoDraft /\ drafts[d].rev = m.rev
    BY DEF WriteDraft
<1>3. PICK n \in Outcomes(op[e].step, m, r) :
        /\ drafts' = [drafts EXCEPT ![d] = n]
        /\ content' = Replaced(content, ContentOf(d, m.history), ContentOf(d, n.history))
        /\ fresh' = Replaced(fresh, ContentOf(d, m.history), ContentOf(d, n.history))
    BY DEF WriteDraft
<1>4. revision' = r /\ op' = [op EXCEPT ![e] = [step |-> "idle"]] /\ sweep' = sweep
    BY DEF WriteDraft
<1>5. d \in DraftIds /\ d \in Stored /\ drafts[d] = m
    BY <1>1, <1>2, OpFacts DEF OpsSound, Stored
<1>6. op \in [Editors -> Ops] /\ [step |-> "idle"] \in Ops
    BY <1>1 DEF Typed, Ops
<1>7. op' \in [Editors -> Ops] /\ \A x \in Editors : op'[x].step \in Kinds => op'[x] = op[x]
    BY <1>4, <1>6 DEF Kinds
<1> HIDE DEF d, m
<1>8. /\ WellFormed(m) /\ m \in Metadata /\ DOMAIN m.history = 1 .. Len(m.history)
      /\ \A i \in 1 .. Len(m.history) : m.history[i] \in Nat /\ m.history[i] <= revision
    BY <1>1, <1>5, StoredFacts, MetadataFields DEF WellFormed
<1>9. /\ WellFormed(n) /\ n.rev = r /\ DOMAIN n.history = 1 .. Len(n.history) /\ n.history \in Seq(Nat)
      /\ \A i \in 1 .. Len(n.history) :
            n.history[i] = r \/ \E j \in 1 .. Len(m.history) : n.history[i] = m.history[j]
    BY <1>1, <1>2, <1>8, OutcomesSound, MetadataFields DEF WellFormed
<1>10. \A i \in 1 .. Len(n.history) : n.history[i] <= r
    <2> SUFFICES ASSUME NEW i \in 1 .. Len(n.history) PROVE n.history[i] <= r
        OBVIOUS
    <2>1. CASE n.history[i] = r
        BY <1>1, <2>1
    <2>2. CASE n.history[i] # r
        <3>1. PICK j \in 1 .. Len(m.history) : n.history[i] = m.history[j]
            BY <1>9, <2>2
        <3>2. m.history[j] \in Nat /\ m.history[j] <= revision
            BY <1>8
        <3>. QED BY <1>1, <3>1, <3>2
    <2>. QED BY <2>1, <2>2
<1>11. ASSUME NEW k \in ContentOf(d, n.history)
       PROVE  k \notin ContentOf(d, m.history) \/ k \in content
    BY <1>1, <1>5 DEF ContentIntact
<1>12. \A k \in ContentOf(d, n.history) :
            /\ k \in content'
            /\ (k \in Lists(d) /\ (k \in fresh => k \in fresh')) \/ k \in fresh'
    <2> SUFFICES ASSUME NEW k \in ContentOf(d, n.history)
                 PROVE  /\ k \in content'
                        /\ (k \in Lists(d) /\ (k \in fresh => k \in fresh')) \/ k \in fresh'
        OBVIOUS
    <2>1. k \in ContentOf(d, m.history) => k \in Lists(d)
        BY <1>5 DEF Lists, Stored
    <2>. QED BY <1>3, <1>11, <2>1, ReplacedHas
<1>13. \A c \in Stored \ {d} : \A k \in ContentOf(c, drafts[c].history) :
            (k \in content => k \in content') /\ (k \in fresh => k \in fresh')
    BY <1>3, ReplacedKeeps
<1>14. content' \in Keys /\ fresh' \in Keys
    <2>1. ContentOf(d, n.history) \in Keys
        BY <1>5, <1>9, ContentTyped
    <2>. QED BY <1>1, <1>3, <2>1 DEF Typed, Keys, Replaced
<1>. QED BY <1>2, <1>3, <1>4, <1>5, <1>7, <1>9, <1>10, <1>12, <1>13, <1>14, Written

\* A deletion takes the content of its draft and no other.
LEMMA DeleteStep ==
    ASSUME Inv, Answered, NEW e \in Editors, DeleteDraft(e)
    PROVE  Inv'
<1>1. /\ DeleteDraftTx(seen[e][1], seen[e][2]) /\ drafts[seen[e][1]] # NoDraft
      /\ drafts[seen[e][1]].rev = seen[e][2] /\ UNCHANGED <<revision, op, sweep>>
    BY DEF DeleteDraft, DeleteDraftTx
<1>2. seen[e][1] \in DraftIds
    BY DEF Answered
<1>3. sweep' \in Sweeps
    BY <1>1 DEF Inv, Typed
<1>. QED BY <1>1, <1>2, <1>3, Gone

LEMMA SweepDeletesStep ==
    ASSUME Inv, NEW d \in DraftIds, NEW r \in Nat, SweepDeletes(d, r)
    PROVE  Inv'
<1> DEFINE left == sweep.unchanged \ {<<d, r>>}
<1>1. Typed /\ OpsSound /\ CleanupSound /\ SweepSound
    BY DEF Inv
<1>2. sweep' = [sweep EXCEPT !.unchanged = left] /\ UNCHANGED <<revision, op>> /\ sweep.step = "delete"
    BY DEF SweepDeletes
<1>3. left \in Keys /\ left \subseteq sweep.unchanged
    BY <1>1 DEF Typed, Sweeps, Keys
<1> HIDE DEF left
<1>4. /\ sweep' \in Sweeps /\ sweep'.step = sweep.step /\ sweep'.live = sweep.live
      /\ sweep'.keys = sweep.keys /\ sweep'.unchanged = left
    BY <1>1, <1>2, <1>3 DEF Typed, Sweeps
<1>5. CASE DeleteDraftTx(d, r)
    <2>1. DeleteDraftTx(d, drafts[d].rev)
        BY <1>5 DEF DeleteDraftTx
    <2>. QED BY <1>2, <1>3, <1>4, <2>1, Gone
<1>6. CASE UNCHANGED <<drafts, content, fresh, damaged>>
    <2>1. Typed'
        BY <1>1, <1>2, <1>4, <1>6 DEF Typed
    <2>2. OpsSound'
        BY <1>1, <1>2, <1>6 DEF OpsSound
    <2>3. CleanupSound'
        BY <1>1, <1>2, <1>3, <1>4, <1>6 DEF CleanupSound
    <2>. QED BY <1>2, <1>4, <1>6, <2>1, <2>2, <2>3, Untouched
<1>. QED BY <1>5, <1>6 DEF SweepDeletes

\* A record grows old only while nothing is swept.
LEMMA AgesStep ==
    ASSUME Inv, NEW k, Ages(k)
    PROVE  Inv'
<1>1. /\ sweep.step = "idle" /\ fresh' = fresh \ {k}
      /\ UNCHANGED <<drafts, content, revision, op, sweep>>
    BY DEF Ages
<1>2. Typed'
    BY <1>1 DEF Inv, Typed, Keys
<1>3. OpsSound' /\ CleanupSound'
    BY <1>1 DEF Inv, OpsSound, CleanupSound
<1>. QED BY <1>1, <1>2, <1>3, Untouched

\* The sweep of the content removes what no draft named when it listed them
\* and what is no longer fresh.
LEMMA SweepContentStep ==
    ASSUME Inv, NEW k, SweepContent(k)
    PROVE  Inv'
<1>1. Typed /\ OpsSound /\ CleanupSound /\ SweepSound
    BY DEF Inv
<1>2. /\ sweep.step = "keys" /\ k \in sweep.keys /\ content' = content \ ({k} \ fresh)
      /\ sweep' = [sweep EXCEPT !.keys = sweep.keys \ {k}]
      /\ UNCHANGED <<drafts, fresh, revision, op>>
    BY DEF SweepContent
<1>3. sweep.keys \ {k} \in Keys /\ content' \in Keys
    BY <1>1, <1>2 DEF Typed, Sweeps, Keys
<1>4. /\ sweep' \in Sweeps /\ sweep'.step = "keys" /\ sweep'.keys = sweep.keys \ {k}
      /\ sweep'.unchanged = sweep.unchanged
    BY <1>1, <1>2, <1>3 DEF Typed, Sweeps
<1>5. Typed'
    BY <1>1, <1>2, <1>3, <1>4 DEF Typed
<1>6. OpsSound' /\ CleanupSound'
    BY <1>1, <1>2, <1>4 DEF OpsSound, CleanupSound
<1>7. \A d \in Stored : \A x \in ContentOf(d, drafts[d].history) :
        /\ x \in content => x \in content'
        /\ x \in sweep.keys => x \in fresh
    BY <1>1, <1>2 DEF SweepSound
<1>. QED BY <1>2, <1>4, <1>5, <1>6, <1>7, Untouched

\* Listing the drafts takes what those that can be read name, and any record
\* of the others.
LEMMA SweepListsDraftsStep ==
    ASSUME Inv, SweepListsDrafts
    PROVE  Inv'
<1> DEFINE named == UNION {ContentOf(d, drafts[d].history) : d \in Readable}
           kept == {k \in DraftIds \X (0 .. MaxWrites) : k[1] \in damaged}
           live == named \cup kept
<1>1. Typed /\ DraftsSound /\ OpsSound /\ MaxWrites \in Nat /\ revision \in Nat /\ revision <= MaxWrites
    BY Numbers DEF Inv
<1>2. /\ sweep' = [Idle EXCEPT !.step = "drafts", !.live = live]
      /\ UNCHANGED <<drafts, content, fresh, revision, op>>
    BY DEF SweepListsDrafts
<1>3. ASSUME NEW d \in Stored, NEW k \in ContentOf(d, drafts[d].history)
      PROVE  k \in live
    <2>1. CASE d \in Readable
        BY <1>3, <2>1
    <2>2. CASE d \notin Readable
        <3>1. d \in damaged /\ d \in DraftIds
            BY <2>2 DEF Readable, Stored
        <3>2. PICK i \in DOMAIN drafts[d].history : k = <<d, drafts[d].history[i]>>
            BY <1>3, ContentKeys
        <3>3. drafts[d].history[i] \in Nat /\ drafts[d].history[i] <= revision
            BY <1>1, <3>2, StoredFacts, MetadataFields DEF WellFormed
        <3>4. drafts[d].history[i] \in 0 .. MaxWrites
            BY <1>1, <3>3
        <3>5. k \in DraftIds \X (0 .. MaxWrites) /\ k[1] \in damaged
            BY <3>1, <3>2, <3>4
        <3>6. k \in kept
            BY <3>5
        <3> HIDE DEF kept, named
        <3>. QED BY <3>6
    <2>. QED BY <2>1, <2>2
<1>4. live \in Keys
    <2>1. \A d \in Readable : ContentOf(d, drafts[d].history) \in Keys
        BY <1>1, StoredFacts, MetadataFields, ContentTyped DEF WellFormed, Readable
    <2>2. named \subseteq DraftIds \X Nat
        BY <2>1 DEF Keys
    <2>3. kept \subseteq DraftIds \X Nat
        OBVIOUS
    <2> HIDE DEF named, kept
    <2>. QED BY <2>2, <2>3 DEF Keys
<1> HIDE DEF live
<1>5. sweep' \in Sweeps /\ sweep'.step = "drafts" /\ sweep'.live = live /\ sweep'.unchanged = {}
    BY <1>2, <1>4 DEF Idle, Sweeps, Keys
<1>6. Typed'
    BY <1>1, <1>2, <1>5 DEF Typed
<1>7. OpsSound' /\ CleanupSound'
    BY <1>1, <1>2, <1>5 DEF OpsSound, CleanupSound
<1>. QED BY <1>2, <1>3, <1>5, <1>6, <1>7, Untouched

LEMMA SweepListsKeysStep ==
    ASSUME Inv, SweepListsKeys
    PROVE  Inv'
<1>1. Typed /\ OpsSound /\ CleanupSound /\ SweepSound
    BY DEF Inv
<1>2. /\ sweep.step = "drafts" /\ sweep' = [sweep EXCEPT !.step = "keys", !.keys = content \ sweep.live]
      /\ UNCHANGED <<drafts, content, fresh, revision, op>>
    BY DEF SweepListsKeys
<1>3. content \ sweep.live \in Keys
    BY <1>1 DEF Typed, Keys
<1>4. /\ sweep' \in Sweeps /\ sweep'.step = "keys" /\ sweep'.keys = content \ sweep.live
      /\ sweep'.unchanged = sweep.unchanged
    BY <1>1, <1>2, <1>3 DEF Typed, Sweeps
<1>5. Typed'
    BY <1>1, <1>2, <1>4 DEF Typed
<1>6. OpsSound' /\ CleanupSound'
    BY <1>1, <1>2, <1>4 DEF OpsSound, CleanupSound
<1>7. \A d \in Stored : \A x \in ContentOf(d, drafts[d].history) : x \in sweep.live \cup fresh
    BY <1>1, <1>2 DEF SweepSound
<1>. QED BY <1>2, <1>4, <1>5, <1>6, <1>7, Untouched

\* The cleanup lists drafts that are unchanged since their publication.
LEMMA SweepListsPublishedStep ==
    ASSUME Inv, SweepListsPublished
    PROVE  Inv'
<1> DEFINE listed == {<<d, drafts[d].rev>> : d \in {x \in Readable : PublishedUnchanged(drafts[x])}}
<1>1. Typed /\ DraftsSound /\ OpsSound
    BY DEF Inv
<1>2. /\ sweep' = [Idle EXCEPT !.step = "delete", !.unchanged = listed]
      /\ UNCHANGED <<drafts, content, fresh, revision, op>>
    BY DEF SweepListsPublished
<1>3. \A d \in Readable : d \in DraftIds /\ drafts[d].rev \in Nat /\ drafts[d].rev <= revision
    BY <1>1, StoredFacts DEF Readable
<1>4. listed \in Keys
    BY <1>3 DEF Keys
<1>5. \A d \in DraftIds, r \in Nat : <<d, r>> \in listed =>
        r <= revision /\ drafts[d].rev = r /\ PublishedUnchanged(drafts[d])
    BY <1>3
<1> HIDE DEF listed
<1>6. sweep' \in Sweeps /\ sweep'.step = "delete" /\ sweep'.unchanged = listed
    BY <1>2, <1>4 DEF Idle, Sweeps, Keys
<1>7. Typed'
    BY <1>1, <1>2, <1>6 DEF Typed
<1>8. OpsSound'
    BY <1>1, <1>2 DEF OpsSound
<1>9. CleanupSound'
    BY <1>2, <1>5, <1>6 DEF CleanupSound
<1>. QED BY <1>2, <1>6, <1>7, <1>8, <1>9, Untouched

LEMMA SweepEndsStep ==
    ASSUME Inv, SweepEnds
    PROVE  Inv'
<1>1. sweep' = Idle /\ UNCHANGED <<drafts, content, fresh, revision, op>>
    BY DEF SweepEnds
<1>2. sweep' \in Sweeps /\ sweep'.step = "idle" /\ sweep'.unchanged = {}
    BY <1>1 DEF Idle, Sweeps, Keys
<1>3. Typed'
    BY <1>1, <1>2 DEF Inv, Typed
<1>4. OpsSound' /\ CleanupSound'
    BY <1>1, <1>2 DEF Inv, OpsSound, CleanupSound
<1>. QED BY <1>1, <1>2, <1>3, <1>4, Untouched

THEOREM DraftsInvariant == DraftsSpec => [](Inv /\ Answered)
<1>1. DraftsInit => Inv /\ Answered
    <2>1. ASSUME DraftsInit PROVE Answered
        <3>1. (CHOOSE x \in DraftIds : TRUE) \in DraftIds
            BY DraftsAssumption
        <3>. QED BY <2>1, <3>1 DEF DraftsInit, Answered
    <2>. QED BY <2>1, InitInv
<1>2. Inv /\ Answered /\ [DraftsNext]_draftVars => (Inv /\ Answered)'
    <2> SUFFICES ASSUME Inv, Answered, [DraftsNext]_draftVars
                 PROVE  Inv' /\ Answered'
        OBVIOUS
    <2>1. Typed /\ DraftsSound /\ revision \in Nat
        BY Numbers DEF Inv
    <2>2. ASSUME NEW e \in Editors, NEW d \in DraftIds, GetDraft(e, d) PROVE Inv' /\ Answered'
        <3>1. drafts[d].rev \in Nat /\ UNCHANGED <<drafts, content, fresh, revision, op, sweep>>
            BY <2>1, <2>2, StoredFacts DEF GetDraft
        <3>2. Answered'
            BY <2>2, <3>1 DEF GetDraft, Answered
        <3>3. op' \in [Editors -> Ops]
            BY <2>1, <3>1 DEF Typed
        <3>. QED BY <3>1, <3>2, <3>3, OpsMove
    <2>3. ASSUME NEW e \in Editors, NEW d \in DraftIds, CreateDraft(e, d) PROVE Inv' /\ Answered'
        <3>1. seen' = [seen EXCEPT ![e] = <<d, revision + 1>>] /\ revision + 1 \in Nat
            BY <2>1, <2>3 DEF CreateDraft
        <3>2. Answered'
            BY <3>1 DEF Answered
        <3>. QED BY <2>3, <3>2, CreateStep
    <2>4. ASSUME NEW e \in Editors, CheckDraftLimit(e) PROVE Inv' /\ Answered'
        BY <2>4, StopsStep DEF CheckDraftLimit, Answered
    <2>5. ASSUME NEW e \in Editors, NEW kind \in Kinds, ReadsDraft(e, kind) PROVE Inv' /\ Answered'
        BY <2>5, ReadsStep DEF ReadsDraft, Answered
    <2>6. ASSUME NEW e \in Editors, WriteDraft(e) PROVE Inv' /\ Answered'
        <3>1. op[e].draft \in DraftIds
            BY <2>1, <2>6, OpFacts DEF WriteDraft
        <3>2. Answered'
            BY <2>1, <2>6, <3>1 DEF WriteDraft, Answered
        <3>. QED BY <2>6, <3>2, WriteStep
    <2>7. ASSUME NEW e \in Editors, Conflict(e) PROVE Inv' /\ Answered'
        BY <2>7, StopsStep DEF Conflict, Answered
    <2>8. ASSUME NEW e \in Editors, DeleteDraft(e) PROVE Inv' /\ Answered'
        BY <2>8, DeleteStep DEF DeleteDraft, Answered
    <2>9. ASSUME NEW d \in DraftIds, Damage(d) PROVE Inv' /\ Answered'
        BY <2>9, DamageStep DEF Damage, Answered
    <2>10. ASSUME NEW d \in DraftIds, NEW r \in 0 .. MaxWrites, SweepDeletes(d, r) PROVE Inv' /\ Answered'
        BY <2>10, SweepDeletesStep DEF SweepDeletes, Answered
    <2>11. ASSUME NEW k, Ages(k) PROVE Inv' /\ Answered'
        BY <2>11, AgesStep DEF Ages, Answered
    <2>12. ASSUME NEW k, SweepContent(k) PROVE Inv' /\ Answered'
        BY <2>12, SweepContentStep DEF SweepContent, Answered
    <2>13. ASSUME SweepListsDrafts PROVE Inv' /\ Answered'
        BY <2>13, SweepListsDraftsStep DEF SweepListsDrafts, Answered
    <2>14. ASSUME SweepListsKeys PROVE Inv' /\ Answered'
        BY <2>14, SweepListsKeysStep DEF SweepListsKeys, Answered
    <2>15. ASSUME SweepListsPublished PROVE Inv' /\ Answered'
        BY <2>15, SweepListsPublishedStep DEF SweepListsPublished, Answered
    <2>16. ASSUME SweepEnds PROVE Inv' /\ Answered'
        BY <2>16, SweepEndsStep DEF SweepEnds, Answered
    <2>17. CASE UNCHANGED draftVars
        <3>1. UNCHANGED <<drafts, content, fresh, revision, op, sweep, seen>>
            BY <2>17 DEF draftVars
        <3>2. op' \in [Editors -> Ops]
            BY <2>1, <3>1 DEF Typed
        <3>. QED BY <3>1, <3>2, OpsMove DEF Answered
    <2>. QED BY <2>2, <2>3, <2>4, <2>5, <2>6, <2>7, <2>8, <2>9, <2>10, <2>11, <2>12, <2>13, <2>14,
                <2>15, <2>16, <2>17
             DEF DraftsNext, CreateSnapshot, UpdateCursor, DeleteSnapshot, MarkPublishedIn, Kinds
<1>. QED BY <1>1, <1>2, PTL DEF DraftsSpec

\* Every snapshot of every draft has its content, whatever is saved while the
\* sweep runs and whichever drafts can no longer be read
\* (CleanupOrphanedContent, dropSnapshots).
THEOREM ContentStaysIntact == DraftsSpec => []ContentIntact
<1>1. Inv /\ Answered => ContentIntact
    BY DEF Inv
<1>. QED BY <1>1, DraftsInvariant, PTL

\* The cleanup of published drafts never removes work saved after it listed
\* the draft (DeletePublishedDrafts).
THEOREM CleanupIsSafe == DraftsSpec => CleanupKeepsWork
<1>1. Inv /\ [DraftsNext]_draftVars =>
        [\A d \in DraftIds : (sweep' # sweep /\ drafts[d] # NoDraft /\ drafts'[d] = NoDraft)
            => PublishedUnchanged(drafts[d])]_draftVars
    <2> SUFFICES ASSUME Inv, DraftsNext, NEW d \in DraftIds,
                        sweep' # sweep, drafts[d] # NoDraft, drafts'[d] = NoDraft
                 PROVE  PublishedUnchanged(drafts[d])
        OBVIOUS
    <2>1. CleanupSound /\ drafts \in [DraftIds -> Metadata \cup {NoDraft}]
        BY DEF Inv, Typed
    <2>2. \E c \in DraftIds : \E r \in 0 .. MaxWrites : SweepDeletes(c, r)
        BY DEF DraftsNext, GetDraft, CreateDraft, CheckDraftLimit, CreateSnapshot, UpdateCursor, DeleteSnapshot,
               MarkPublishedIn, ReadsDraft, WriteDraft, Conflict, DeleteDraft, Damage, Ages, SweepContent,
               SweepListsDrafts, SweepListsKeys, SweepListsPublished, SweepEnds
    <2>3. PICK c \in DraftIds, r \in 0 .. MaxWrites : SweepDeletes(c, r)
        BY <2>2
    <2>4. DeleteDraftTx(c, r) /\ <<c, r>> \in sweep.unchanged /\ r \in Nat
        BY <2>3 DEF SweepDeletes
    <2>5. c = d
        BY <2>1, <2>4 DEF DeleteDraftTx
    <2>. QED BY <2>1, <2>4, <2>5 DEF DeleteDraftTx, CleanupSound
<1>. QED BY <1>1, DraftsInvariant, PTL DEF DraftsSpec, CleanupKeepsWork

----------------------------------------------------------------------------
(* The limit on the number of drafts, and that IDs are used once.          *)

Creating == {e \in Editors : op[e].step = "create"}

Counted == IsFiniteSet(Stored) /\ Stored \subseteq used /\ DraftLimit

\* What a step may do to the drafts stored and those about to be created.
LEMMA Counts ==
    ASSUME Inv, Answered, [DraftsNext]_draftVars
    PROVE  \/ Stored' \subseteq Stored /\ Creating' \subseteq Creating /\ used' = used
           \/ Stored' = Stored /\ used' = used /\ Cardinality(Stored) < MaxDrafts
           \/ \E d \in DraftIds \ used, e \in Creating :
                Stored' \subseteq Stored \cup {d} /\ Creating' \subseteq Creating \ {e} /\ used' = used \cup {d}
<1> DEFINE P == Stored' \subseteq Stored /\ Creating' \subseteq Creating /\ used' = used
<1>1. /\ drafts \in [DraftIds -> Metadata \cup {NoDraft}] /\ op \in [Editors -> Ops]
      /\ Typed
    BY DEF Inv, Typed
<1>2. ASSUME NEW d \in DraftIds, drafts' = [drafts EXCEPT ![d] = NoDraft], op' = op, used' = used
      PROVE  P
    BY <1>1, <1>2 DEF Stored, Creating
<1>3. ASSUME drafts' = drafts, used' = used,
             \A e \in Editors : op'[e].step = "create" => op[e].step = "create"
      PROVE  P
    BY <1>3 DEF Stored, Creating
<1>4. ASSUME NEW e \in Editors, CheckDraftLimit(e)
      PROVE  Stored' = Stored /\ used' = used /\ Cardinality(Stored) < MaxDrafts
    BY <1>4 DEF CheckDraftLimit, Stored
<1>5. ASSUME NEW e \in Editors, NEW d \in DraftIds, CreateDraft(e, d)
      PROVE  /\ d \notin used /\ e \in Creating /\ Stored' \subseteq Stored \cup {d}
             /\ Creating' \subseteq Creating \ {e} /\ used' = used \cup {d}
    <2>1. \A c \in DraftIds \ {d} : drafts'[c] = drafts[c]
        BY <1>1, <1>5 DEF CreateDraft
    <2>2. Stored' \subseteq Stored \cup {d}
        BY <2>1 DEF Stored
    <2>3. op' = [op EXCEPT ![e] = [step |-> "idle"]] /\ op[e].step = "create" /\ d \notin used /\ used' = used \cup {d}
        BY <1>5 DEF CreateDraft
    <2>. QED BY <1>1, <2>2, <2>3 DEF Creating
<1>6. ASSUME NEW e \in Editors, NEW s, s.step # "create", op' = [op EXCEPT ![e] = s]
      PROVE  \A x \in Editors : op'[x].step = "create" => op[x].step = "create"
    BY <1>1, <1>6
<1>7. ASSUME NEW e \in Editors, NEW kind \in Kinds, ReadsDraft(e, kind)
      PROVE  P
    <2> DEFINE s == [step |-> kind, draft |-> seen[e][1], meta |-> drafts[seen[e][1]]]
    <2>1. s.step # "create" /\ op' = [op EXCEPT ![e] = s] /\ drafts' = drafts /\ used' = used
        BY <1>7 DEF ReadsDraft, Kinds
    <2> HIDE DEF s
    <2>. QED BY <1>3, <1>6, <2>1
<1>8. ASSUME NEW e \in Editors, WriteDraft(e)
      PROVE  P
    <2>1. /\ drafts[op[e].draft] # NoDraft /\ op[e].draft \in DraftIds
          /\ op' = [op EXCEPT ![e] = [step |-> "idle"]] /\ used' = used
        BY <1>1, <1>8, OpFacts DEF WriteDraft
    <2>2. Stored' \subseteq Stored
        <3>1. PICK n : drafts' = [drafts EXCEPT ![op[e].draft] = n]
            BY <1>8 DEF WriteDraft
        <3>. QED BY <1>1, <2>1, <3>1 DEF Stored
    <2>. QED BY <1>1, <2>1, <2>2 DEF Creating
<1>9. ASSUME NEW e \in Editors, Conflict(e)
      PROVE  P
    <2>1. [step |-> "idle"].step # "create" /\ op' = [op EXCEPT ![e] = [step |-> "idle"]]
          /\ drafts' = drafts /\ used' = used
        BY <1>9 DEF Conflict
    <2>. QED BY <1>3, <1>6, <2>1
<1>10. ASSUME NEW e \in Editors, DeleteDraft(e)
       PROVE  P
    <2>1. seen[e][1] \in DraftIds
        BY DEF Answered
    <2>. QED BY <1>2, <1>10, <2>1 DEF DeleteDraft, DeleteDraftTx
<1>11. ASSUME NEW d \in DraftIds, Damage(d)
       PROVE  P
    <2>1. d \in Stored /\ UNCHANGED <<used, op>> /\ \A c \in DraftIds \ {d} : drafts'[c] = drafts[c]
        BY <1>1, <1>11 DEF Damage, Readable
    <2>. QED BY <2>1 DEF Stored, Creating
<1>12. ASSUME NEW d \in DraftIds, NEW r \in 0 .. MaxWrites, SweepDeletes(d, r)
       PROVE  P
    <2>1. UNCHANGED <<used, op>>
        BY <1>12 DEF SweepDeletes
    <2>2. CASE DeleteDraftTx(d, r)
        BY <1>2, <2>1, <2>2 DEF DeleteDraftTx
    <2>3. CASE drafts' = drafts
        BY <1>3, <2>1, <2>3
    <2>. QED BY <1>12, <2>2, <2>3 DEF SweepDeletes
<1>13. ASSUME UNCHANGED <<drafts, used, op>>
       PROVE  P
    BY <1>3, <1>13
<1>14. ASSUME NEW k, Ages(k) \/ SweepContent(k) PROVE P
    BY <1>13, <1>14 DEF Ages, SweepContent
<1>15. ASSUME SweepListsDrafts \/ SweepListsKeys \/ SweepListsPublished \/ SweepEnds PROVE P
    BY <1>13, <1>15 DEF SweepListsDrafts, SweepListsKeys, SweepListsPublished, SweepEnds
<1>16. ASSUME NEW e \in Editors, NEW d \in DraftIds, GetDraft(e, d) PROVE P
    BY <1>13, <1>16 DEF GetDraft
<1>17. ASSUME UNCHANGED draftVars PROVE P
    BY <1>13, <1>17 DEF draftVars
<1> HIDE DEF P
<1>18. \/ P
       \/ Stored' = Stored /\ used' = used /\ Cardinality(Stored) < MaxDrafts
       \/ \E d \in DraftIds \ used, e \in Creating :
            Stored' \subseteq Stored \cup {d} /\ Creating' \subseteq Creating \ {e} /\ used' = used \cup {d}
    BY <1>4, <1>5, <1>7, <1>8, <1>9, <1>10, <1>11, <1>12, <1>14, <1>15, <1>16, <1>17
       DEF DraftsNext, CreateSnapshot, UpdateCursor, DeleteSnapshot, MarkPublishedIn, Kinds
<1>. QED BY <1>18 DEF P

LEMMA CountedInvariant == DraftsSpec => []Counted
<1> USE DraftsAssumption
<1>1. DraftsInit => Counted
    <2> SUFFICES ASSUME DraftsInit PROVE Counted
        OBVIOUS
    <2>1. Stored = {} /\ {e \in Editors : op[e].step = "create"} = {}
        BY DEF DraftsInit, Stored
    <2>2. Cardinality(Editors) \in Nat
        BY FS_CardinalityType
    <2>3. Cardinality(Stored) = 0 /\ Cardinality({e \in Editors : op[e].step = "create"}) = 0
        BY <2>1, FS_EmptySet
    <2>4. DraftLimit
        BY <2>2, <2>3 DEF DraftLimit
    <2>. QED BY <2>1, <2>4, FS_EmptySet DEF Counted
<1>2. (Inv /\ Answered) /\ Counted /\ [DraftsNext]_draftVars => Counted'
    <2> SUFFICES ASSUME Inv, Answered, Counted, [DraftsNext]_draftVars
                 PROVE  Counted'
        OBVIOUS
    <2>1. /\ IsFiniteSet(Stored) /\ Stored \subseteq used /\ MaxDrafts \in Nat
          /\ Cardinality(Stored) + Cardinality(Creating) <= MaxDrafts + Cardinality(Editors) - 1
        BY DEF Counted, DraftLimit, Creating
    <2>2. \A S \in SUBSET Editors : IsFiniteSet(S) /\ Cardinality(S) \in Nat /\ Cardinality(S) <= Cardinality(Editors)
        BY FS_Subset, FS_CardinalityType
    <2>3. Cardinality(Stored) \in Nat /\ Cardinality(Editors) \in Nat /\ Creating \subseteq Editors /\ Creating' \subseteq Editors
        BY <2>1, FS_CardinalityType DEF Creating
    <2>4. ASSUME IsFiniteSet(Stored'), Stored' \subseteq used',
                 Cardinality(Stored') + Cardinality(Creating') <= MaxDrafts + Cardinality(Editors) - 1
          PROVE  Counted'
        BY <2>4 DEF Counted, DraftLimit, Creating
    <2> HIDE DEF Counted, Creating
    <2>5. CASE Stored' \subseteq Stored /\ Creating' \subseteq Creating /\ used' = used
        <3>1. IsFiniteSet(Stored') /\ Cardinality(Stored') <= Cardinality(Stored) /\ Cardinality(Stored') \in Nat
            BY <2>1, <2>5, FS_Subset, FS_CardinalityType
        <3>2. Cardinality(Creating') <= Cardinality(Creating)
            BY <2>2, <2>3, <2>5, FS_Subset
        <3>3. Cardinality(Creating) \in Nat /\ Cardinality(Creating') \in Nat
            BY <2>2, <2>3
        <3>4. Stored' \subseteq used'
            BY <2>1, <2>5
        <3>. QED BY <2>1, <2>3, <2>4, <3>1, <3>2, <3>3, <3>4
    <2>6. CASE Stored' = Stored /\ used' = used /\ Cardinality(Stored) < MaxDrafts
        <3>1. Cardinality(Creating') <= Cardinality(Editors) /\ Cardinality(Creating') \in Nat
            BY <2>2, <2>3
        <3>. QED BY <2>1, <2>3, <2>4, <2>6, <3>1
    <2>7. CASE \E d \in DraftIds \ used, e \in Creating :
                  Stored' \subseteq Stored \cup {d} /\ Creating' \subseteq Creating \ {e} /\ used' = used \cup {d}
        <3>1. PICK d \in DraftIds \ used, e \in Creating :
                  Stored' \subseteq Stored \cup {d} /\ Creating' \subseteq Creating \ {e} /\ used' = used \cup {d}
            BY <2>7
        <3>2. /\ IsFiniteSet(Stored \cup {d}) /\ Cardinality(Stored \cup {d}) = Cardinality(Stored) + 1
            BY <2>1, <3>1, FS_AddElement
        <3>3. /\ IsFiniteSet(Stored') /\ Cardinality(Stored') <= Cardinality(Stored) + 1
              /\ Cardinality(Stored') \in Nat
            BY <3>1, <3>2, FS_Subset, FS_CardinalityType
        <3>4. IsFiniteSet(Creating \ {e}) /\ Cardinality(Creating \ {e}) = Cardinality(Creating) - 1
            BY <2>2, <2>3, FS_RemoveElement
        <3>5. Cardinality(Creating') <= Cardinality(Creating) - 1
            BY <3>1, <3>4, FS_Subset
        <3>6. Cardinality(Creating) \in Nat /\ Cardinality(Creating') \in Nat
            BY <2>2, <2>3
        <3>7. Stored' \subseteq used'
            BY <2>1, <3>1
        <3>. QED BY <2>1, <2>3, <2>4, <3>3, <3>5, <3>6, <3>7
    <2>. QED BY <2>5, <2>6, <2>7, Counts
<1>. QED BY <1>1, <1>2, DraftsInvariant, PTL DEF DraftsSpec

\* Requests that check the limit together pass it together, and no further:
\* there are never more drafts, those still to be created included, than the
\* limit and one request fewer than there are (checkDraftLimit, CreateDraft).
THEOREM DraftLimitHolds == DraftsSpec => []DraftLimit
<1>1. Counted => DraftLimit
    BY DEF Counted
<1>. QED BY <1>1, CountedInvariant, PTL

----------------------------------------------------------------------------
(* The drafts implement their abstract history.                            *)

\* The operations of DraftHistory, in terms of the draft's two views.
LEMMA HistoryOperation ==
    ASSUME NEW d \in DraftIds,
           Histories' = [Histories EXCEPT ![d] = Histories'[d]], Cursors' = [Cursors EXCEPT ![d] = Cursors'[d]],
           \/ /\ Histories'[d] # <<>> /\ Cursors'[d] = Len(Histories'[d])
              /\ Histories'[d] = Recent(SubSeq(Histories[d], 1, Cursors[d]) \o <<Last(Histories'[d])>>)
           \/ Histories'[d] = Histories[d] /\ Cursors'[d] \in DOMAIN Histories[d]
           \/ /\ \E i \in DOMAIN Histories[d] \ {Cursors[d]} : Histories'[d] = RemoveAt(Histories[d], i)
              /\ Histories'[d][Cursors'[d]] = Histories[d][Cursors[d]]
           \/ Histories'[d] = <<>> /\ Cursors'[d] = 0
    PROVE  History!Operation
<1>1. History!Save(d) \/ History!UndoRedo(d) \/ History!Discard(d) \/ History!Drop(d)
    <2>1. CASE /\ Histories'[d] # <<>> /\ Cursors'[d] = Len(Histories'[d])
               /\ Histories'[d] = Recent(SubSeq(Histories[d], 1, Cursors[d]) \o <<Last(Histories'[d])>>)
        <3>1. \A h : History!Recent(h) = Recent(h) /\ History!Last(h) = Last(h)
            BY DEF History!Recent, Recent, History!Last, Last
        <3>2. History!Save(d)
            BY <2>1, <3>1, Zenon DEF History!Save
        <3>. QED BY <3>2
    <2>2. CASE Histories'[d] = Histories[d] /\ Cursors'[d] \in DOMAIN Histories[d]
        BY <2>2 DEF History!UndoRedo
    <2>3. CASE /\ \E i \in DOMAIN Histories[d] \ {Cursors[d]} : Histories'[d] = RemoveAt(Histories[d], i)
               /\ Histories'[d][Cursors'[d]] = Histories[d][Cursors[d]]
        <3>1. \A h, i : History!RemoveAt(h, i) = RemoveAt(h, i)
            BY DEF History!RemoveAt, RemoveAt
        <3>2. History!Discard(d)
            BY <2>3, <3>1, Zenon DEF History!Discard, History!Current
        <3>. QED BY <3>2
    <2>4. CASE Histories'[d] = <<>> /\ Cursors'[d] = 0
        BY <2>4 DEF History!Drop
    <2>. QED BY <2>1, <2>2, <2>3, <2>4
<1>. QED BY <1>1, Zenon DEF History!Operation

\* A change of one draft is a change of its views alone.
LEMMA OneView ==
    ASSUME Typed, NEW d \in DraftIds, NEW n, drafts' = [drafts EXCEPT ![d] = n]
    PROVE  /\ Histories' = [Histories EXCEPT ![d] = Histories'[d]] /\ Cursors' = [Cursors EXCEPT ![d] = Cursors'[d]]
           /\ Histories'[d] = (IF n = NoDraft THEN <<>> ELSE n.history)
           /\ Cursors'[d] = (IF n = NoDraft THEN 0 ELSE n.cursor)
<1>1. drafts'[d] = n /\ \A c \in DraftIds \ {d} : drafts'[c] = drafts[c]
    BY DEF Typed
<1>2. Histories'[d] = (IF n = NoDraft THEN <<>> ELSE n.history) /\ Cursors'[d] = (IF n = NoDraft THEN 0 ELSE n.cursor)
    BY <1>1 DEF Histories, Cursors
<1>3. \A c \in DraftIds \ {d} : Histories'[c] = Histories[c] /\ Cursors'[c] = Cursors[c]
    BY <1>1 DEF Histories, Cursors
<1>4. /\ Histories = [c \in DraftIds |-> Histories[c]] /\ Histories' = [c \in DraftIds |-> Histories'[c]]
      /\ Cursors = [c \in DraftIds |-> Cursors[c]] /\ Cursors' = [c \in DraftIds |-> Cursors'[c]]
    BY DEF Histories, Cursors
<1>5. Histories' = [Histories EXCEPT ![d] = Histories'[d]] /\ Cursors' = [Cursors EXCEPT ![d] = Cursors'[d]]
    BY <1>3, <1>4
<1>. QED BY <1>2, <1>5

\* The first snapshot is a save onto no history.
LEMMA FirstSave ==
    ASSUME NEW r \in Nat
    PROVE  /\ <<r>> = Recent(SubSeq(<<>>, 1, 0) \o <<Last(<<r>>)>>)
           /\ Last(<<r>>) = r
<1> DEFINE e == SubSeq(<<>>, 1, 0)
           s == e \o <<r>>
<1>1. Last(<<r>>) = r
    BY DEF Last
<1>2. <<>> \in Seq(Nat) /\ Len(<<>>) = 0 /\ <<r>> \in Seq(Nat) /\ Len(<<r>>) = 1 /\ <<r>>[1] = r
    OBVIOUS
<1>3. s \in Seq(Nat) /\ Len(s) = 1 /\ s[1] = r
    BY <1>2, SaveKeeps
<1> HIDE DEF s
<1>4. s = <<r>>
    BY <1>2, <1>3, SeqEqual
<1>5. Recent(s) = s
    BY <1>3, DraftsAssumption DEF Recent
<1>. QED BY <1>1, <1>4, <1>5 DEF s

\* A write is the operation on the history that its editor asked for, since
\* what the editor read is what the write finds.
LEMMA WriteIsOperation ==
    ASSUME Inv, NEW e \in Editors, WriteDraft(e)
    PROVE  History!Operation \/ UNCHANGED <<Histories, Cursors>>
<1> DEFINE d == op[e].draft
           m == op[e].meta
           r == revision + 1
<1>1. Typed /\ DraftsSound /\ OpsSound /\ revision \in Nat /\ r \in Nat
    BY Numbers DEF Inv
<1>2. op[e].step \in Kinds /\ drafts[d] # NoDraft /\ drafts[d].rev = m.rev
    BY DEF WriteDraft
<1>3. PICK n \in Outcomes(op[e].step, m, r) : drafts' = [drafts EXCEPT ![d] = n]
    BY DEF WriteDraft
<1>4. d \in DraftIds /\ d \in Stored /\ drafts[d] = m
    BY <1>1, <1>2, OpFacts DEF OpsSound, Stored
<1> HIDE DEF d, m, r
<1>5. /\ WellFormed(m) /\ m \in Metadata /\ m # NoDraft /\ DOMAIN m.history = 1 .. Len(m.history)
      /\ m.cursor \in 1 .. Len(m.history)
    BY <1>1, <1>4, StoredFacts, MetadataFields DEF WellFormed
<1>6. WellFormed(n) /\ n \in Metadata /\ n # NoDraft
    BY <1>1, <1>2, <1>3, <1>5, OutcomesSound, DraftsAssumption DEF WellFormed
<1>7. Histories[d] = m.history /\ Cursors[d] = m.cursor
    BY <1>4, <1>5 DEF Histories, Cursors
<1>8. /\ Histories' = [Histories EXCEPT ![d] = Histories'[d]] /\ Cursors' = [Cursors EXCEPT ![d] = Cursors'[d]]
      /\ Histories'[d] = n.history /\ Cursors'[d] = n.cursor
    BY <1>1, <1>3, <1>4, <1>6, OneView
<1>9. CASE op[e].step = "append"
    <2>1. n = Appended(m, r)
        BY <1>3, <1>9 DEF Outcomes
    <2>2. /\ n.history = Recent(SubSeq(m.history, 1, m.cursor) \o <<r>>)
          /\ n.cursor = Len(n.history) /\ n.history[Len(n.history)] = r
        BY <1>1, <1>5, <2>1, AppendedSound
    <2>3. n.history # <<>> /\ Last(n.history) = r
        BY <1>6, <2>2, MetadataFields DEF WellFormed, Last
    <2>. QED BY <1>4, <1>7, <1>8, <2>2, <2>3, HistoryOperation
<1>10. CASE op[e].step = "move"
    <2>1. PICK i \in 1 .. Len(m.history) : n = Moved(m, r, i)
        BY <1>3, <1>5, <1>10 DEF Outcomes
    <2>2. n.history = m.history /\ n.cursor \in 1 .. Len(m.history)
        BY <1>1, <1>5, <1>6, <2>1, MovedSound DEF WellFormed
    <2>. QED BY <1>4, <1>5, <1>7, <1>8, <2>2, HistoryOperation
<1>11. CASE op[e].step = "remove"
    <2>1. PICK i \in 1 .. Len(m.history) : i # m.cursor /\ n = Removed(m, r, i)
        BY <1>3, <1>5, <1>11 DEF Outcomes
    <2>2. n.history = RemoveAt(m.history, i) /\ n.history[n.cursor] = m.history[m.cursor]
        BY <1>1, <1>5, <2>1, RemovedSound
    <2>3. i \in DOMAIN Histories[d] \ {Cursors[d]}
        BY <1>5, <1>7, <2>1
    <2>4. \E j \in DOMAIN Histories[d] \ {Cursors[d]} : Histories'[d] = RemoveAt(Histories[d], j)
        BY <1>7, <1>8, <2>2, <2>3
    <2>5. Histories'[d][Cursors'[d]] = Histories[d][Cursors[d]]
        BY <1>7, <1>8, <2>2
    <2>. QED BY <1>4, <1>8, <2>4, <2>5, HistoryOperation
<1>12. CASE op[e].step = "mark"
    <2>1. n = MarkedPublished(m, r)
        BY <1>3, <1>12 DEF Outcomes
    <2>2. n.history = m.history /\ n.cursor = m.cursor
        BY <1>1, <1>5, <2>1, MarkedSound
    <2>. QED BY <1>4, <1>5, <1>7, <1>8, <2>2, HistoryOperation
<1>. QED BY <1>2, <1>9, <1>10, <1>11, <1>12 DEF Kinds

LEMMA CreateIsOperation ==
    ASSUME Inv, Counted, NEW e \in Editors, NEW d \in DraftIds, CreateDraft(e, d)
    PROVE  History!Operation
<1> DEFINE r == revision + 1
           n == [rev |-> r, history |-> <<r>>, cursor |-> 1, publication |-> NoPublication]
<1>1. Typed /\ revision \in Nat /\ r \in Nat
    BY Numbers DEF Inv
<1>2. drafts' = [drafts EXCEPT ![d] = n] /\ d \notin used
    BY DEF CreateDraft
<1>3. drafts[d] = NoDraft
    BY <1>2 DEF Counted, Stored
<1>4. n \in Metadata
    BY <1>1 DEF Metadata, NoPublication, Published
<1>5. n # NoDraft /\ n.history = <<r>> /\ n.cursor = 1 /\ Len(<<r>>) = 1 /\ <<r>> # <<>>
    BY <1>4, DraftsAssumption
<1> HIDE DEF n, r
<1>6. Histories[d] = <<>> /\ Cursors[d] = 0
    BY <1>3 DEF Histories, Cursors
<1>7. /\ Histories' = [Histories EXCEPT ![d] = Histories'[d]] /\ Cursors' = [Cursors EXCEPT ![d] = Cursors'[d]]
      /\ Histories'[d] = <<r>> /\ Cursors'[d] = 1
    BY <1>1, <1>2, <1>5, OneView
<1>8. <<r>> = Recent(SubSeq(<<>>, 1, 0) \o <<Last(<<r>>)>>)
    BY <1>1, FirstSave
<1>. QED BY <1>5, <1>6, <1>7, <1>8, HistoryOperation

LEMMA DeletionIsOperation ==
    ASSUME Inv, NEW d \in DraftIds, NEW r, DeleteDraftTx(d, r)
    PROVE  History!Operation
<1>1. drafts' = [drafts EXCEPT ![d] = NoDraft] /\ Typed
    BY DEF DeleteDraftTx, Inv
<1>. QED BY <1>1, OneView, HistoryOperation

\* Editors at work together, the sweeps and the damage of records make no
\* more of a draft than whole operations on its history
\* (AppendSnapshot, MoveCursor, DeleteSnapshot, DeleteDraft).
THEOREM DraftsImplement == DraftsSpec => DraftsImplementHistory
<1>1. DraftsInit => History!Init
    BY DEF DraftsInit, History!Init, Histories, Cursors
<1>2. Inv /\ Answered /\ Counted /\ [DraftsNext]_draftVars => [History!Operation]_<<Histories, Cursors>>
    <2> SUFFICES ASSUME Inv, Answered, Counted, [DraftsNext]_draftVars
                 PROVE  History!Operation \/ UNCHANGED <<Histories, Cursors>>
        OBVIOUS
    <2>1. ASSUME drafts' = drafts PROVE UNCHANGED <<Histories, Cursors>>
        BY <2>1 DEF Histories, Cursors
    <2>2. ASSUME NEW e \in Editors, NEW d \in DraftIds, GetDraft(e, d) PROVE drafts' = drafts
        BY <2>2 DEF GetDraft
    <2>3. ASSUME NEW e \in Editors, NEW kind \in Kinds, ReadsDraft(e, kind) PROVE drafts' = drafts
        BY <2>3 DEF ReadsDraft
    <2>4. ASSUME NEW e \in Editors, CheckDraftLimit(e) \/ Conflict(e) PROVE drafts' = drafts
        BY <2>4 DEF CheckDraftLimit, Conflict
    <2>5. ASSUME NEW k, Ages(k) \/ SweepContent(k) PROVE drafts' = drafts
        BY <2>5 DEF Ages, SweepContent
    <2>6. ASSUME SweepListsDrafts \/ SweepListsKeys \/ SweepListsPublished \/ SweepEnds PROVE drafts' = drafts
        BY <2>6 DEF SweepListsDrafts, SweepListsKeys, SweepListsPublished, SweepEnds
    <2>7. ASSUME NEW e \in Editors, DeleteDraft(e) PROVE History!Operation
        <3>1. seen[e][1] \in DraftIds
            BY DEF Answered
        <3>. QED BY <2>7, <3>1, DeletionIsOperation DEF DeleteDraft
    <2>8. ASSUME NEW d \in DraftIds, NEW r, SweepDeletes(d, r)
          PROVE  History!Operation \/ drafts' = drafts
        BY <2>8, DeletionIsOperation DEF SweepDeletes
    <2>9. ASSUME NEW d \in DraftIds, Damage(d) PROVE UNCHANGED <<Histories, Cursors>>
        <3> DEFINE n == [drafts[d] EXCEPT !.rev = revision + 1]
        <3>1. Typed /\ DraftsSound /\ revision + 1 \in Nat
            BY Numbers DEF Inv
        <3>2. d \in Stored /\ drafts' = [drafts EXCEPT ![d] = n]
            BY <2>9 DEF Damage, Readable
        <3>3. drafts[d] \in Metadata /\ drafts[d] # NoDraft
            BY <3>1, <3>2, StoredFacts DEF WellFormed
        <3>4. n \in Metadata /\ n.history = drafts[d].history /\ n.cursor = drafts[d].cursor
            BY <3>1, <3>3 DEF Metadata
        <3> HIDE DEF n
        <3>5. n # NoDraft
            BY <3>4, DraftsAssumption
        <3>6. drafts'[d] = n /\ \A c \in DraftIds \ {d} : drafts'[c] = drafts[c]
            BY <3>1, <3>2 DEF Typed
        <3>7. \A c \in DraftIds : Histories'[c] = Histories[c] /\ Cursors'[c] = Cursors[c]
            BY <3>3, <3>4, <3>5, <3>6 DEF Histories, Cursors
        <3>8. /\ Histories = [c \in DraftIds |-> Histories[c]] /\ Histories' = [c \in DraftIds |-> Histories'[c]]
              /\ Cursors = [c \in DraftIds |-> Cursors[c]] /\ Cursors' = [c \in DraftIds |-> Cursors'[c]]
            BY DEF Histories, Cursors
        <3>. QED BY <3>7, <3>8
    <2>10. ASSUME UNCHANGED draftVars PROVE drafts' = drafts
        BY <2>10 DEF draftVars
    <2>. QED BY <2>1, <2>2, <2>3, <2>4, <2>5, <2>6, <2>7, <2>8, <2>9, <2>10, WriteIsOperation, CreateIsOperation
             DEF DraftsNext, CreateSnapshot, UpdateCursor, DeleteSnapshot, MarkPublishedIn, Kinds
<1>. QED BY <1>1, <1>2, DraftsInvariant, CountedInvariant, PTL DEF DraftsSpec, DraftsImplementHistory, History!Spec
=============================================================================
