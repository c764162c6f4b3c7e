--------------------------- MODULE MCRecordStore ---------------------------
(***************************************************************************)
(* RecordStore for TLC: two clients, two keys under one prefix.            *)
(***************************************************************************)
EXTENDS RecordStore, TLC

MCScans == {Locations} \cup {{l} : l \in Locations}

MCSymmetry == Permutations(Clients) \cup Permutations(Values)
============================================================================
