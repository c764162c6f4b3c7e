-------------------------------- MODULE Feed --------------------------------
(***************************************************************************)
(* What the server promises those who follow its port forwards: a set of   *)
(* keys, and announcements (create or delete of one key) such that whoever *)
(* replays the announcements of a step on the keys before it has the keys  *)
(* after it. No announcement is taken back.                                *)
(***************************************************************************)
EXTENDS Integers, Sequences, SequencesExt

VARIABLES keys, feed

Apply(known, event) ==
    IF event[1] = "create" THEN known \cup {event[2]} ELSE known \ {event[2]}

Replay(known, events) == FoldLeft(Apply, known, events)

Init == keys = {} /\ feed = <<>>

Announce ==
    /\ IsPrefix(feed, feed')
    /\ keys' = Replay(keys, SubSeq(feed', Len(feed) + 1, Len(feed')))

Spec == Init /\ [][Announce]_<<keys, feed>>
=============================================================================
