---------------------------- MODULE RecordStore ----------------------------
(***************************************************************************)
(* The record store of package store: opaque values kept beside the        *)
(* configs in one Bolt file, each with a store-assigned revision that the  *)
(* Builder uses for optimistic concurrency control.                        *)
(*                                                                         *)
(* Every write runs in BoltDB.RecordTxn, which holds the Bolt file (b.mu   *)
(* inside the process, the file lock between processes) from open to       *)
(* Close, so at most one transaction is in flight and no read overlaps it. *)
(* A transaction works on a private copy (txRecords, txSequence) that is   *)
(* installed by Commit and thrown away when the callback returns an error, *)
(* when Bolt cannot commit, or when the process dies.                      *)
(*                                                                         *)
(* A location stands for a namespace and a key; a scan is the set of       *)
(* locations a prefix selects inside one namespace. Time stamps are        *)
(* abstracted: `created' is the revision of the write that created the     *)
(* record, taken in the same transaction as its Created time.              *)
(*                                                                         *)
(* What a caller does with a record it was handed is part of the model:    *)
(* seen[c] is what client c last learnt about each location, and is the    *)
(* only source of the expected revisions it sends back.                    *)
(***************************************************************************)
EXTENDS Integers

CONSTANTS
    Clients,      \* callers of the store: Builder requests, in any process
    Locations,    \* namespace/key pairs
    Values,       \* opaque record values
    Scans,        \* sets of locations that a namespace and prefix select
    MaxRevision,  \* bound on the revisions issued in one behaviour
    NoClient,     \* nobody has the Bolt file open
    NoRecord      \* no record is stored at a location

AnyRevision == 0

Revisions == 1 .. MaxRevision

Record == [value : Values, revision : Revisions, created : Revisions]

ASSUME ScansAssumption == Scans \subseteq SUBSET Locations
ASSUME MaxRevisionAssumption == MaxRevision \in Nat
ASSUME NoClientAssumption == NoClient \notin Clients
ASSUME NoRecordAssumption == NoRecord \notin Record

VARIABLES
    records,     \* committed records, by location
    sequence,    \* committed sequence of the records bucket
    owner,       \* the client whose transaction is in flight, or NoClient
    txRecords,   \* records as the transaction sees them
    txSequence,  \* sequence as the transaction sees it
    txSeen,      \* what the transaction's callback has been handed so far
    seen         \* what each client holds from completed calls

storeVars == <<records, sequence>>
txVars == <<owner, txRecords, txSequence, txSeen>>
vars == <<storeVars, txVars, seen>>

View == [Locations -> Record \cup {NoRecord}]

TypeOK ==
    /\ records \in View
    /\ sequence \in 0 .. MaxRevision
    /\ owner \in Clients \cup {NoClient}
    /\ txRecords \in View
    /\ txSequence \in 0 .. MaxRevision
    /\ txSeen \in View
    /\ seen \in [Clients -> View]

Empty == [l \in Locations |-> NoRecord]

Init ==
    /\ records = Empty
    /\ sequence = 0
    /\ owner = NoClient
    /\ txRecords = Empty
    /\ txSequence = 0
    /\ txSeen = Empty
    /\ seen = [c \in Clients |-> Empty]

----------------------------------------------------------------------------
(* Reads outside a transaction run in a Bolt read transaction of their own, *)
(* which also holds the file.                                               *)

GetRecord(c, l) ==
    /\ owner = NoClient
    /\ seen' = [seen EXCEPT ![c][l] = records[l]]
    /\ UNCHANGED <<storeVars, txVars>>

ListRecords(c, scan) ==
    /\ owner = NoClient
    /\ seen' = [seen EXCEPT ![c] =
                    [l \in Locations |-> IF l \in scan THEN records[l] ELSE @[l]]]
    /\ UNCHANGED <<storeVars, txVars>>

----------------------------------------------------------------------------
(* A write transaction. CreateRecord, UpdateRecord, DeleteRecord and        *)
(* DeleteRecordPrefix of BoltDB are transactions of a single operation. An  *)
(* operation that fails (record exists, is missing, or has another          *)
(* revision) changes nothing; the callback then goes on or returns the      *)
(* error, which is Rollback.                                                *)

Begin(c) ==
    /\ owner = NoClient
    /\ owner' = c
    /\ txRecords' = records
    /\ txSequence' = sequence
    /\ txSeen' = seen[c]
    /\ UNCHANGED <<storeVars, seen>>

TxGet(c, l) ==
    /\ owner = c
    /\ txSeen' = [txSeen EXCEPT ![l] = txRecords[l]]
    /\ UNCHANGED <<storeVars, owner, txRecords, txSequence, seen>>

\* Fault: the sequence is read without being advanced.
ReusedRevision == txSequence

\* boltNextRevision: one sequence for all namespaces, kept in the file.
NextRevision == txSequence + 1

\* boltPutRecord and the record handed back to the callback.
Put(l, rec) ==
    /\ txSequence' = rec.revision
    /\ txRecords' = [txRecords EXCEPT ![l] = rec]
    /\ txSeen' = [txSeen EXCEPT ![l] = rec]

TxCreate(c, l, v) ==
    /\ owner = c
    /\ NextRevision <= MaxRevision
    /\ txRecords[l] = NoRecord
    /\ Put(l, [value |-> v, revision |-> NextRevision, created |-> NextRevision])
    /\ UNCHANGED <<storeVars, owner, seen>>

\* Fault: the expected revision is not compared.
AnyRevisionMatches(expected, actual) == expected \in Nat /\ actual \in Nat

\* checkRecordRevision.
RevisionMatches(expected, actual) == expected \in {AnyRevision, actual}

TxUpdate(c, l, v, expected) ==
    /\ owner = c
    /\ NextRevision <= MaxRevision
    /\ txRecords[l] # NoRecord
    /\ RevisionMatches(expected, txRecords[l].revision)
    /\ Put(l, [value |-> v, revision |-> NextRevision, created |-> txRecords[l].created])
    /\ UNCHANGED <<storeVars, owner, seen>>

TxDelete(c, l, expected) ==
    /\ owner = c
    /\ txRecords[l] # NoRecord
    /\ RevisionMatches(expected, txRecords[l].revision)
    /\ txRecords' = [txRecords EXCEPT ![l] = NoRecord]
    /\ txSeen' = [txSeen EXCEPT ![l] = NoRecord]
    /\ UNCHANGED <<storeVars, owner, txSequence, seen>>

TxDeletePrefix(c, scan) ==
    /\ owner = c
    /\ txRecords' = [l \in Locations |-> IF l \in scan THEN NoRecord ELSE txRecords[l]]
    /\ UNCHANGED <<storeVars, owner, txSequence, txSeen, seen>>

\* Fault: the sequence is kept in memory and not in the file.
CommitWithoutSequence(c) ==
    /\ owner = c
    /\ records' = txRecords
    /\ seen' = [seen EXCEPT ![c] = txSeen]
    /\ owner' = NoClient
    /\ UNCHANGED <<sequence, txRecords, txSequence, txSeen>>

Commit(c) ==
    /\ owner = c
    /\ records' = txRecords
    /\ sequence' = txSequence
    /\ seen' = [seen EXCEPT ![c] = txSeen]
    /\ owner' = NoClient
    /\ UNCHANGED <<txRecords, txSequence, txSeen>>

\* Fault: the caller keeps the records of a transaction that failed.
RollbackKeepsResults(c) ==
    /\ owner = c
    /\ owner' = NoClient
    /\ seen' = [seen EXCEPT ![c] = txSeen]
    /\ UNCHANGED <<storeVars, txRecords, txSequence, txSeen>>

\* The callback's error, a failed Bolt commit, or the death of the process:
\* nothing of the transaction survives, its revisions are issued again, and
\* what the callback was handed goes with it.
Rollback(c) ==
    /\ owner = c
    /\ owner' = NoClient
    /\ UNCHANGED <<storeVars, txRecords, txSequence, txSeen, seen>>

----------------------------------------------------------------------------
\* The revisions a callback can send: none, or that of the record it holds.
Expected(l) ==
    {AnyRevision} \cup (IF txSeen[l] = NoRecord THEN {} ELSE {txSeen[l].revision})

Next ==
    \E c \in Clients :
        \/ Begin(c)
        \/ Commit(c)
        \/ Rollback(c)
        \/ \E scan \in Scans : ListRecords(c, scan) \/ TxDeletePrefix(c, scan)
        \/ \E l \in Locations :
            \/ GetRecord(c, l)
            \/ TxGet(c, l)
            \/ \E v \in Values : TxCreate(c, l, v)
            \/ \E e \in Expected(l) :
                \/ TxDelete(c, l, e)
                \/ \E v \in Values : TxUpdate(c, l, v, e)

Spec == Init /\ [][Next]_vars

----------------------------------------------------------------------------
(* A revision names one write. Together with the check of the expected     *)
(* revision this is what makes the store's compare-and-swap sound.         *)

\* No two records that exist at the same time have the same revision.
Distinct(view) ==
    \A l, m \in Locations :
        /\ view[l] # NoRecord
        /\ view[m] # NoRecord
        /\ view[l].revision = view[m].revision
        => l = m

\* Any two records with one revision, the first in view p and the second in
\* view q, are the same record at the same location.
SameWrite(p, q) ==
    \A l, m \in Locations :
        /\ p[l] # NoRecord
        /\ q[m] # NoRecord
        /\ p[l].revision = q[m].revision
        => l = m /\ p[l] = q[m]

\* A revision that a client holds from a completed call, however old, never
\* comes to name another write: a record deleted and created again, or
\* written by a transaction that reuses the revisions of one that was rolled
\* back, has a revision no client holds (boltNextRevision, RecordTxn).
RevisionNamesOneWrite ==
    /\ Distinct(records)
    /\ \A c \in Clients : SameWrite(seen[c], records)

\* A conditional update (UpdateRecord with the revision of the record the
\* caller holds) replaces exactly the record the caller holds; whatever
\* other clients committed in between makes it fail instead.
NoLostUpdate ==
    [][\A c \in Clients, l \in Locations, v \in Values :
            (txSeen[l] # NoRecord /\ TxUpdate(c, l, v, txSeen[l].revision))
                => txRecords[l] = txSeen[l]]_vars

\* What the store promises, with each transaction a single step.
Promise == INSTANCE VersionedMap

\* A transaction takes effect as a whole or not at all, and what it leaves
\* has revisions above every one committed before (RecordTxn).
ImplementsVersionedMap == Promise!Spec
============================================================================
