---------------------------- MODULE VersionedMap ----------------------------
(***************************************************************************)
(* What package store promises of its records (the RecordStore interface): *)
(* a map from locations to records that whole transactions change. A       *)
(* transaction may remove records, and every record it leaves that was not *)
(* there before carries a revision of its own that is larger than every    *)
(* revision the store had issued before the transaction.                   *)
(***************************************************************************)
EXTENDS Integers

CONSTANTS Locations, NoRecord

VARIABLES records, sequence

vars == <<records, sequence>>

Init ==
    /\ records = [l \in Locations |-> NoRecord]
    /\ sequence = 0

Written(l) == records'[l] \notin {records[l], NoRecord}

Transaction ==
    /\ sequence' >= sequence
    /\ \A l \in Locations :
        Written(l) => records'[l].revision \in (sequence + 1) .. sequence'
    /\ \A l, m \in Locations :
        (Written(l) /\ Written(m) /\ l # m) => records'[l].revision # records'[m].revision

Spec == Init /\ [][Transaction]_vars
=============================================================================
