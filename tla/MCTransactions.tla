---------------------------- MODULE MCTransactions ----------------------------
(***************************************************************************)
(* Instances of Transactions for TLC.  A workload gives every transaction  *)
(* the keys it reads, locks call by call, puts, deletes, and its primary.  *)
(***************************************************************************)
EXTENDS Transactions, TLC

CONSTANTS t1, t2

Plan(reading, locking, putting, deleting, primary) ==
  [reads |-> reading, locks |-> locking, puts |-> putting, deletes |-> deleting,
   primary |-> primary]

OneKeyPerRegion == [k \in Key |-> k]

(* t1 writes both keys, t2 reads and deletes the primary of t1. *)
OptimisticWorkload ==
  t1 :> Plan({}, <<>>, {1, 2}, {}, 1) @@ t2 :> Plan({1}, <<>>, {}, {1}, 1)

(***************************************************************************)
(* t1 locks both keys and writes the second: its primary is prewritten     *)
(* lock-only.  t2 writes the second key.                                   *)
(***************************************************************************)
LockOnlyPrimaryWorkload ==
  t1 :> Plan({}, <<{1, 2}>>, {2}, {}, 1) @@ t2 :> Plan({}, <<>>, {2}, {}, 2)

(* t1 locks the only key twice and writes it, t2 writes it as well. *)
RelockWorkload ==
  t1 :> Plan({}, <<{1}, {1}>>, {1}, {}, 1) @@ t2 :> Plan({}, <<>>, {1}, {}, 1)

(* t1 locks both keys and writes only its primary; t2 writes the other one. *)
PureLockWorkload ==
  t1 :> Plan({}, <<{1, 2}>>, {1}, {}, 1) @@ t2 :> Plan({}, <<>>, {2}, {}, 2)

(* Key 1 is in Region 1, the others are in Region 2. *)
TwoRegions == [k \in Key |-> IF k = 1 THEN 1 ELSE 2]

(***************************************************************************)
(* t1 locks all three keys in two calls, the second key in both, and       *)
(* writes the second one only.                                             *)
(***************************************************************************)
LockingTransaction == t1 :> Plan({}, <<{1, 2}, {2, 3}>>, {2}, {}, 1)

(* t1 alone writes two keys, the second one being its primary. *)
WritingTransaction == t1 :> Plan({}, <<>>, {1, 2}, {}, 2)
=============================================================================
