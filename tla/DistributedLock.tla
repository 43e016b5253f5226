--------------------------- MODULE DistributedLock ---------------------------
(***************************************************************************)
(* The lock table in DynamoDB and the DistributedLock service of each node *)
(* (ideasdk/distributed_lock).  The lock client (external) sends           *)
(* heartbeats for the locks it holds; a row without heartbeats may be      *)
(* taken over after the lease duration.  Nobody is told of a lost lease:   *)
(* acquire_lock is called without a callback.                              *)
(***************************************************************************)
EXTENDS Naturals, FiniteSets

CONSTANTS Nodes, NoNode, Keys

VARIABLES
    row,       \* the owner in the lock table, per key
    beating,   \* per node, the keys its lock client sends heartbeats for
    locks      \* per node, _active_locks

lockVars == <<row, beating, locks>>

LockInit ==
    /\ row = [k \in Keys |-> NoNode]
    /\ beating = [n \in Nodes |-> {}]
    /\ locks = [n \in Nodes |-> {}]

(* acquire_lock in the client: the row is free, or its lease ran out.       *)
Obtainable(k) == \A n \in Nodes : row[k] = n => k \notin beating[n]

Obtain(n, k) ==
    /\ Obtainable(k)
    /\ row' = [row EXCEPT ![k] = n]
    /\ beating' = [beating EXCEPT ![n] = @ \cup {k}]
    /\ UNCHANGED locks

(* acquire(), after the client has returned.                                *)
Record(n, k) ==
    /\ locks' = [locks EXCEPT ![n] = @ \cup {k}]
    /\ UNCHANGED <<row, beating>>

(* Mutant: the lock is only forgotten.                                      *)
ForgetLock(n, k, ok) ==
    /\ locks' = [locks EXCEPT ![n] = @ \ {k}]
    /\ beating' = [beating EXCEPT ![n] = @ \ {k}]
    /\ UNCHANGED row

(* release(): a key that is not recorded is left alone.  best_effort hides  *)
(* a failed deletion of the row.                                            *)
Release(n, k, ok) ==
    IF k \in locks[n]
    THEN /\ row' = [row EXCEPT ![k] = IF @ = n /\ ok THEN NoNode ELSE @]
         /\ beating' = [beating EXCEPT ![n] = @ \ {k}]
         /\ locks' = [locks EXCEPT ![n] = @ \ {k}]
    ELSE UNCHANGED lockVars

(* stop(): the loop over _active_locks removes entries of the dictionary it *)
(* iterates over, so with any lock held it raises after the first one.      *)
StopRaises(n) == locks[n] # {}

(* close(release_locks=True) *)
Close(n) ==
    /\ row' = [k \in Keys |-> IF row[k] = n /\ k \in beating[n] THEN NoNode ELSE row[k]]
    /\ beating' = [beating EXCEPT ![n] = {}]
    /\ UNCHANGED locks

(* The heartbeats of n fail for longer than the lease.                      *)
Lapse(n, k) ==
    /\ k \in beating[n]
    /\ beating' = [beating EXCEPT ![n] = @ \ {k}]
    /\ UNCHANGED <<row, locks>>

(* The process of n is gone.                                                *)
Forget(n) ==
    /\ beating' = [beating EXCEPT ![n] = {}]
    /\ locks' = [locks EXCEPT ![n] = {}]
    /\ UNCHANGED row

LockTypeOK ==
    /\ row \in [Keys -> Nodes \cup {NoNode}]
    /\ beating \in [Nodes -> SUBSET Keys]
    /\ locks \in [Nodes -> SUBSET Keys]
=============================================================================
