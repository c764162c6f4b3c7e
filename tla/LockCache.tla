------------------------------ MODULE LockCache ------------------------------
(***************************************************************************)
(* The lock that web requests take on an experiment: one entry of the web  *)
(* cache under LOCK|experiment|<name>, added if absent, with a time to     *)
(* live of one or five minutes. The module models one experiment's entry.  *)
(*                                                                         *)
(* The entry is a status word that does not name the request that added    *)
(* it: Unlock deletes whatever entry is there. An entry can expire while   *)
(* the request that added it is still at work.                             *)
(***************************************************************************)
CONSTANT NoLock     \* the cache has no entry for the experiment

VARIABLE lock

\* What a request holds the lock for; also the name of its critical phase.
LockStatuses == {"create", "delete", "start", "stop", "wfUpdate"}

ASSUME NoLockAssumption == NoLock \notin LockStatuses

LockTypeOK == lock \in LockStatuses \cup {NoLock}

LockInit == lock = NoLock

\* Add of the cache inside GoWebCache.Lock: succeeds when there is no entry.
AddLock(word) ==
    /\ lock = NoLock
    /\ lock' = word

AddRefused == lock # NoLock /\ UNCHANGED lock

\* Get of the cache after a refused Add. When the entry has expired or was
\* deleted since, Lock returns the empty status, which its callers take for
\* success: the request goes on and the cache has no entry for it.
LookupMissed == lock = NoLock /\ UNCHANGED lock

LookupFound == lock # NoLock /\ UNCHANGED lock

\* UnlockExperiment, by whomever.
Unlock == lock' = NoLock

\* The entry's time to live ends.
Expire == lock # NoLock /\ lock' = NoLock
==============================================================================
