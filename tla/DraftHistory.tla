---------------------------- MODULE DraftHistory ----------------------------
(***************************************************************************)
(* What the Builder promises of a draft: a history of snapshots with a     *)
(* cursor, changed by whole operations. A save drops what is after the     *)
(* cursor, adds one snapshot and forgets the oldest past the limit; undo   *)
(* and redo move the cursor; a snapshot other than the cursor's may be     *)
(* removed; the draft may go. A draft that is not there has no history.    *)
(***************************************************************************)
EXTENDS Integers, Sequences, SequencesExt

CONSTANTS DraftIds, MaxSnapshots

VARIABLES histories, cursors

Init ==
    /\ histories = [d \in DraftIds |-> <<>>]
    /\ cursors = [d \in DraftIds |-> 0]

\* The last MaxSnapshots elements.
Recent(h) == IF Len(h) > MaxSnapshots THEN SubSeq(h, Len(h) - MaxSnapshots + 1, Len(h)) ELSE h

Current(d) == histories[d][cursors[d]]

\* Nobody's save is lost: the new history is the one before it, up to the
\* cursor, and one more. The first save creates the draft.
Save(d) ==
    /\ histories'[d] # <<>>
    /\ histories'[d] = Recent(SubSeq(histories[d], 1, cursors[d]) \o <<Last(histories'[d])>>)
    /\ cursors'[d] = Len(histories'[d])

UndoRedo(d) ==
    /\ histories'[d] = histories[d]
    /\ cursors'[d] \in DOMAIN histories[d]

Discard(d) ==
    /\ \E i \in DOMAIN histories[d] \ {cursors[d]} : histories'[d] = RemoveAt(histories[d], i)
    /\ histories'[d][cursors'[d]] = Current(d)

Drop(d) == histories'[d] = <<>> /\ cursors'[d] = 0

Operation ==
    \E d \in DraftIds :
        /\ histories' = [histories EXCEPT ![d] = histories'[d]]
        /\ cursors' = [cursors EXCEPT ![d] = cursors'[d]]
        /\ Save(d) \/ UndoRedo(d) \/ Discard(d) \/ Drop(d)

Spec == Init /\ [][Operation]_<<histories, cursors>>
=============================================================================
