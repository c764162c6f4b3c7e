------------------------- MODULE RecordStoreProofs -------------------------
(***************************************************************************)
(* Proofs about RecordStore, for every set of clients, locations and       *)
(* values and every bound on the revisions.                                *)
(*                                                                         *)
(* RevisionNamesOneWrite is not inductive: it says nothing of the          *)
(* transaction in flight, whose records Commit installs, and nothing of    *)
(* how the revisions in use relate to the sequence that the next one is    *)
(* drawn from. Inv adds both.                                              *)
(***************************************************************************)
EXTENDS RecordStore, TLAPS

\* Every revision of a view has been drawn from a sequence that stands at n.
Bounded(view, n) ==
    \A l \in Locations : view[l] # NoRecord => view[l].revision <= n

\* What the transaction in flight wrote has revisions the committed sequence
\* has not reached.
FreshWrites ==
    \A l \in Locations :
        txRecords[l] \notin {records[l], NoRecord} => txRecords[l].revision > sequence

CommittedInv ==
    /\ Bounded(records, sequence)
    /\ Distinct(records)
    /\ \A c \in Clients : Bounded(seen[c], sequence) /\ SameWrite(seen[c], records)

TransactionInv ==
    /\ txSequence >= sequence
    /\ Bounded(txRecords, txSequence)
    /\ Bounded(txSeen, txSequence)
    /\ Distinct(txRecords)
    /\ SameWrite(txSeen, txRecords)
    /\ \A c \in Clients : SameWrite(seen[c], txRecords)
    /\ FreshWrites

Inv ==
    /\ TypeOK
    /\ CommittedInv
    /\ owner # NoClient => TransactionInv

\* The initial state satisfies the inductive invariant.
LEMMA InitInv == Init => Inv
BY MaxRevisionAssumption DEF Init, Inv, TypeOK, CommittedInv, Empty, View,
    Bounded, Distinct, SameWrite

\* Every step keeps the variables in their types; in particular a revision
\* is never AnyRevision and never past the bound.
LEMMA TypeStep == TypeOK /\ [Next]_vars => TypeOK'
<1> SUFFICES ASSUME TypeOK, [Next]_vars PROVE TypeOK'
    OBVIOUS
<1> USE DEF TypeOK, View
<1>1. CASE UNCHANGED vars
    BY <1>1 DEF vars, storeVars, txVars
<1>2. ASSUME NEW c \in Clients, Begin(c) PROVE TypeOK'
    BY <1>2 DEF Begin, storeVars
<1>3. ASSUME NEW c \in Clients, Commit(c) PROVE TypeOK'
    BY <1>3 DEF Commit
<1>4. ASSUME NEW c \in Clients, Rollback(c) PROVE TypeOK'
    BY <1>4 DEF Rollback, storeVars
<1>5. ASSUME NEW c \in Clients, NEW scan \in Scans, ListRecords(c, scan) PROVE TypeOK'
    BY <1>5 DEF ListRecords, storeVars, txVars
<1>6. ASSUME NEW c \in Clients, NEW scan \in Scans, TxDeletePrefix(c, scan) PROVE TypeOK'
    BY <1>6 DEF TxDeletePrefix, storeVars
<1>7. ASSUME NEW c \in Clients, NEW l \in Locations, GetRecord(c, l) PROVE TypeOK'
    BY <1>7 DEF GetRecord, storeVars, txVars
<1>8. ASSUME NEW c \in Clients, NEW l \in Locations, TxGet(c, l) PROVE TypeOK'
    BY <1>8 DEF TxGet, storeVars
<1>9. ASSUME NEW c \in Clients, NEW l \in Locations, NEW v \in Values, TxCreate(c, l, v)
      PROVE TypeOK'
    <2>1. [value |-> v, revision |-> NextRevision, created |-> NextRevision] \in Record
        BY <1>9, MaxRevisionAssumption DEF TxCreate, NextRevision, Record, Revisions
    <2>2. NextRevision \in 0 .. MaxRevision
        BY <1>9, MaxRevisionAssumption DEF TxCreate, NextRevision
    <2>. QED BY <1>9, <2>1, <2>2 DEF TxCreate, Put, storeVars
<1>10. ASSUME NEW c \in Clients, NEW l \in Locations, NEW v \in Values, NEW e,
              TxUpdate(c, l, v, e)
       PROVE TypeOK'
    <2>1. txRecords[l].created \in Revisions
        BY <1>10 DEF TxUpdate, Record
    <2>2. [value |-> v, revision |-> NextRevision, created |-> txRecords[l].created]
            \in Record
        BY <1>10, <2>1, MaxRevisionAssumption DEF TxUpdate, NextRevision, Record, Revisions
    <2>3. NextRevision \in 0 .. MaxRevision
        BY <1>10, MaxRevisionAssumption DEF TxUpdate, NextRevision
    <2>. QED BY <1>10, <2>2, <2>3 DEF TxUpdate, Put, storeVars
<1>11. ASSUME NEW c \in Clients, NEW l \in Locations, NEW e, TxDelete(c, l, e)
       PROVE TypeOK'
    BY <1>11 DEF TxDelete, storeVars
<1>. QED
    BY <1>1, <1>2, <1>3, <1>4, <1>5, <1>6, <1>7, <1>8, <1>9, <1>10, <1>11 DEF Next

\* Storing a record under a revision just drawn keeps the transaction's
\* revisions bounded and distinct and leaves every older one with its meaning.
LEMMA PutInv ==
    ASSUME TypeOK, TransactionInv, CommittedInv,
           NEW l \in Locations, NEW rec \in Record,
           rec.revision = NextRevision, Put(l, rec),
           UNCHANGED <<storeVars, seen>>
    PROVE  TransactionInv'
<1> USE DEF TypeOK, View, Put, storeVars
<1>1. rec.revision = txSequence + 1 /\ txSequence \in Nat /\ sequence \in Nat
    BY MaxRevisionAssumption DEF NextRevision
<1>2. \A m \in Locations : txRecords[m] # NoRecord => txRecords[m].revision \in Nat
    BY DEF Record, Revisions
<1>3. \A m \in Locations : txSeen[m] # NoRecord => txSeen[m].revision \in Nat
    BY DEF Record, Revisions
<1>4. \A c \in Clients : \A m \in Locations :
        seen[c][m] # NoRecord => seen[c][m].revision \in Nat
    BY DEF Record, Revisions
<1>5. rec # NoRecord
    BY NoRecordAssumption
<1>6. (txSequence >= sequence)'
    BY <1>1 DEF TransactionInv
<1>7. Bounded(txRecords, txSequence)' /\ Bounded(txSeen, txSequence)'
    BY <1>1, <1>2, <1>3 DEF TransactionInv, Bounded
<1>8. Distinct(txRecords)'
    BY <1>1, <1>2, <1>5 DEF TransactionInv, Bounded, Distinct
<1>9. SameWrite(txSeen, txRecords)'
    BY <1>1, <1>2, <1>3, <1>5 DEF TransactionInv, Bounded, SameWrite
<1>10. ASSUME NEW c \in Clients PROVE SameWrite(seen[c], txRecords)'
    BY <1>1, <1>4, <1>5 DEF TransactionInv, CommittedInv, Bounded, SameWrite
<1>11. FreshWrites'
    BY <1>1 DEF TransactionInv, FreshWrites
<1>. QED BY <1>6, <1>7, <1>8, <1>9, <1>10, <1>11 DEF TransactionInv

\* Every step of the store preserves the inductive invariant.
LEMMA InvStep == Inv /\ [Next]_vars => Inv'
<1> SUFFICES ASSUME Inv, [Next]_vars PROVE Inv'
    OBVIOUS
<1>0. TypeOK /\ TypeOK'
    BY TypeStep DEF Inv
<1>1. CASE UNCHANGED vars
    BY <1>1, <1>0 DEF vars, storeVars, txVars, Inv, CommittedInv, TransactionInv,
        FreshWrites, Bounded, Distinct, SameWrite
<1>2. ASSUME NEW c \in Clients, Begin(c) PROVE Inv'
    <2>1. CommittedInv'
        BY <1>2 DEF Begin, storeVars, Inv, CommittedInv, Bounded, Distinct, SameWrite
    <2>2. TransactionInv'
        BY <1>2, <1>0, MaxRevisionAssumption DEF Begin, storeVars, Inv, TypeOK,
            CommittedInv, TransactionInv, FreshWrites, Bounded, Distinct, SameWrite
    <2>. QED BY <2>1, <2>2, <1>0 DEF Inv
<1>3. ASSUME NEW c \in Clients, Commit(c) PROVE Inv'
    <2>1. TransactionInv /\ CommittedInv
        BY <1>3, NoClientAssumption DEF Commit, Inv
    <2>2. Bounded(records, sequence)' /\ Distinct(records)'
        BY <1>3, <2>1 DEF Commit, TransactionInv, Bounded, Distinct
    <2>3. ASSUME NEW d \in Clients
          PROVE  Bounded(seen[d], sequence)' /\ SameWrite(seen[d], records)'
        <3>1. CASE d = c
            BY <1>3, <1>0, <2>1, <3>1 DEF Commit, TypeOK, TransactionInv, Bounded, SameWrite
        <3>2. CASE d # c
            <4>1. seen'[d] = seen[d]
                BY <1>3, <1>0, <3>2 DEF Commit, TypeOK
            <4>2. \A l \in Locations : seen[d][l] # NoRecord => seen[d][l].revision \in Nat
                BY <1>0 DEF TypeOK, View, Record, Revisions
            <4>. QED BY <1>3, <1>0, <2>1, <4>1, <4>2, MaxRevisionAssumption DEF Commit,
                    TypeOK, TransactionInv, CommittedInv, Bounded, SameWrite
        <3>. QED BY <3>1, <3>2
    <2>4. owner' = NoClient
        BY <1>3 DEF Commit
    <2>. QED BY <2>2, <2>3, <2>4, <1>0 DEF Inv, CommittedInv
<1>4. ASSUME NEW c \in Clients, Rollback(c) PROVE Inv'
    BY <1>4, <1>0 DEF Rollback, storeVars, Inv, CommittedInv, Bounded, Distinct, SameWrite
<1>5. ASSUME NEW c \in Clients, NEW scan \in Scans, ListRecords(c, scan) PROVE Inv'
    <2>1. ASSUME NEW d \in Clients
          PROVE  Bounded(seen[d], sequence)' /\ SameWrite(seen[d], records)'
        BY <1>5, <1>0 DEF ListRecords, storeVars, Inv, TypeOK, View, CommittedInv, Bounded,
            Distinct, SameWrite
    <2>2. Bounded(records, sequence)' /\ Distinct(records)' /\ owner' = NoClient
        BY <1>5 DEF ListRecords, storeVars, txVars, Inv, CommittedInv, Bounded, Distinct
    <2>. QED BY <2>1, <2>2, <1>0 DEF Inv, CommittedInv
<1>6. ASSUME NEW c \in Clients, NEW scan \in Scans, TxDeletePrefix(c, scan) PROVE Inv'
    <2>1. TransactionInv /\ CommittedInv
        BY <1>6, NoClientAssumption DEF TxDeletePrefix, Inv
    <2>2. CommittedInv'
        BY <1>6, <2>1 DEF TxDeletePrefix, storeVars, CommittedInv, Bounded, Distinct, SameWrite
    <2>3. TransactionInv'
        BY <1>6, <2>1, <1>0 DEF TxDeletePrefix, storeVars, TypeOK, View, TransactionInv,
            FreshWrites, Bounded, Distinct, SameWrite
    <2>. QED BY <2>2, <2>3, <1>0 DEF Inv
<1>7. ASSUME NEW c \in Clients, NEW l \in Locations, GetRecord(c, l) PROVE Inv'
    <2>1. ASSUME NEW d \in Clients
          PROVE  Bounded(seen[d], sequence)' /\ SameWrite(seen[d], records)'
        BY <1>7, <1>0 DEF GetRecord, storeVars, Inv, TypeOK, View, CommittedInv, Bounded,
            Distinct, SameWrite
    <2>2. Bounded(records, sequence)' /\ Distinct(records)' /\ owner' = NoClient
        BY <1>7 DEF GetRecord, storeVars, txVars, Inv, CommittedInv, Bounded, Distinct
    <2>. QED BY <2>1, <2>2, <1>0 DEF Inv, CommittedInv
<1>8. ASSUME NEW c \in Clients, NEW l \in Locations, TxGet(c, l) PROVE Inv'
    <2>1. TransactionInv /\ CommittedInv
        BY <1>8, NoClientAssumption DEF TxGet, Inv
    <2>2. CommittedInv'
        BY <1>8, <2>1 DEF TxGet, storeVars, CommittedInv, Bounded, Distinct, SameWrite
    <2>3. TransactionInv'
        BY <1>8, <2>1, <1>0 DEF TxGet, storeVars, TypeOK, View, TransactionInv,
            FreshWrites, Bounded, Distinct, SameWrite
    <2>. QED BY <2>2, <2>3, <1>0 DEF Inv
<1>9. ASSUME NEW c \in Clients, owner = c,
             NEW l \in Locations, NEW rec \in Record, rec.revision = NextRevision,
             Put(l, rec), UNCHANGED <<storeVars, owner, seen>>
      PROVE  Inv'
    <2>1. TransactionInv /\ CommittedInv
        BY <1>9, NoClientAssumption DEF Inv
    <2>2. CommittedInv'
        BY <1>9, <2>1 DEF storeVars, CommittedInv, Bounded, Distinct, SameWrite
    <2>3. TransactionInv'
        BY <1>9, <1>0, <2>1, PutInv
    <2>. QED BY <2>2, <2>3, <1>0 DEF Inv
<1>10. ASSUME NEW c \in Clients, NEW l \in Locations, NEW v \in Values, TxCreate(c, l, v)
       PROVE Inv'
    <2> DEFINE rec == [value |-> v, revision |-> NextRevision, created |-> NextRevision]
    <2>1. rec \in Record /\ rec.revision = NextRevision
        BY <1>10, <1>0, MaxRevisionAssumption
            DEF TxCreate, NextRevision, Record, Revisions, TypeOK
    <2>2. owner = c /\ Put(l, rec) /\ UNCHANGED <<storeVars, owner, seen>>
        BY <1>10 DEF TxCreate
    <2> HIDE DEF rec
    <2>. QED BY <1>9, <2>1, <2>2
<1>11. ASSUME NEW c \in Clients, NEW l \in Locations, NEW v \in Values, NEW e,
              TxUpdate(c, l, v, e)
       PROVE Inv'
    <2> DEFINE rec ==
            [value |-> v, revision |-> NextRevision, created |-> txRecords[l].created]
    <2>1. txRecords[l].created \in Revisions
        BY <1>11, <1>0 DEF TxUpdate, Record, TypeOK, View
    <2>2. rec \in Record /\ rec.revision = NextRevision
        BY <1>11, <1>0, <2>1, MaxRevisionAssumption
            DEF TxUpdate, NextRevision, Record, Revisions, TypeOK
    <2>3. owner = c /\ Put(l, rec) /\ UNCHANGED <<storeVars, owner, seen>>
        BY <1>11 DEF TxUpdate
    <2> HIDE DEF rec
    <2>. QED BY <1>9, <2>2, <2>3
<1>12. ASSUME NEW c \in Clients, NEW l \in Locations, NEW e, TxDelete(c, l, e)
       PROVE Inv'
    <2>1. TransactionInv /\ CommittedInv
        BY <1>12, NoClientAssumption DEF TxDelete, Inv
    <2>2. CommittedInv'
        BY <1>12, <2>1 DEF TxDelete, storeVars, CommittedInv, Bounded, Distinct, SameWrite
    <2>3. TransactionInv'
        BY <1>12, <2>1, <1>0 DEF TxDelete, storeVars, TypeOK, View, TransactionInv,
            FreshWrites, Bounded, Distinct, SameWrite
    <2>. QED BY <2>2, <2>3, <1>0 DEF Inv
<1>. QED
    BY <1>1, <1>2, <1>3, <1>4, <1>5, <1>6, <1>7, <1>8, <1>10, <1>11, <1>12 DEF Next

\* The inductive invariant holds throughout.
THEOREM Invariance == Spec => []Inv
<1>1. Init => Inv
    BY InitInv
<1>2. Inv /\ [Next]_vars => Inv'
    BY InvStep
<1>. QED BY <1>1, <1>2, PTL DEF Spec

\* The variables stay in their types: revisions are never AnyRevision.
THEOREM TypeCorrect == Spec => []TypeOK
<1>1. Inv => TypeOK
    BY DEF Inv
<1>. QED BY <1>1, Invariance, PTL

\* A revision held by any client names one write only, whatever is deleted,
\* created again or rolled back.
THEOREM RevisionsSound == Spec => []RevisionNamesOneWrite
<1>1. Inv => RevisionNamesOneWrite
    BY DEF Inv, CommittedInv, RevisionNamesOneWrite
<1>. QED BY <1>1, Invariance, PTL

\* Conditional updates replace exactly what their caller holds.
THEOREM UpdatesSound == Spec => NoLostUpdate
<1> DEFINE Replaces ==
        \A c \in Clients, l \in Locations, v \in Values :
            (txSeen[l] # NoRecord /\ TxUpdate(c, l, v, txSeen[l].revision))
                => txRecords[l] = txSeen[l]
<1>1. Inv => Replaces
    <2> SUFFICES ASSUME Inv, NEW c \in Clients, NEW l \in Locations, NEW v \in Values,
                        txSeen[l] # NoRecord, TxUpdate(c, l, v, txSeen[l].revision)
                 PROVE  txRecords[l] = txSeen[l]
        OBVIOUS
    <2>1. TransactionInv
        BY NoClientAssumption DEF TxUpdate, Inv
    <2>2. txSeen[l].revision # AnyRevision
        BY DEF Inv, TypeOK, View, Record, Revisions, AnyRevision
    <2>3. txRecords[l] # NoRecord /\ txSeen[l].revision = txRecords[l].revision
        BY <2>2 DEF TxUpdate, RevisionMatches
    <2>. QED BY <2>1, <2>3 DEF TransactionInv, SameWrite
<1>2. Inv /\ [Next]_vars => [Replaces]_vars
    BY <1>1
<1>. QED BY <1>2, Invariance, PTL DEF Spec, NoLostUpdate

\* The store implements its abstract promise: transactions are atomic and
\* their revisions rise above everything committed before.
THEOREM Refinement == Spec => ImplementsVersionedMap
<1>1. Init => Promise!Init
    BY DEF Init, Empty, Promise!Init
<1>2. Inv /\ [Next]_vars => [Promise!Transaction]_(Promise!vars)
    <2> SUFFICES ASSUME Inv, Next, UNCHANGED storeVars => FALSE
                 PROVE  Promise!Transaction
        BY DEF vars, storeVars, Promise!vars
    <2>1. PICK c \in Clients : Commit(c)
        BY DEF Next, Begin, Rollback, ListRecords, TxDeletePrefix, GetRecord, TxGet,
            TxCreate, TxDelete, TxUpdate
    <2>2. TransactionInv /\ TypeOK
        BY <2>1, NoClientAssumption DEF Commit, Inv
    <2>3. \A l \in Locations : txRecords[l] # NoRecord => txRecords[l].revision \in Nat
        BY <2>2 DEF TypeOK, View, Record, Revisions
    <2>4. sequence \in Nat /\ txSequence \in Nat
        BY <2>2, MaxRevisionAssumption DEF TypeOK
    <2>. QED
        BY <2>1, <2>2, <2>3, <2>4 DEF Commit, Promise!Transaction, Promise!Written,
            TransactionInv, FreshWrites, Bounded, Distinct
<1>. QED BY <1>1, <1>2, Invariance, PTL DEF Spec, ImplementsVersionedMap, Promise!Spec
============================================================================
