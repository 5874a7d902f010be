------------------------- MODULE TransactionsTheorems -------------------------
(***************************************************************************)
(* Transactions are atomic and isolated, for any number of keys,           *)
(* transactions and Regions and any workload, as long as no application    *)
(* calls Rollback after ResultUnknown.                                     *)
(***************************************************************************)
EXTENDS TransactionsProofs, AtomicityProofs, IsolationProofs

(***************************************************************************)
(* The invariant behind both theorems: what is in doubt about every        *)
(* transaction, whatever the coordinators, recovery and garbage collection *)
(* do and in whatever order their requests are executed.                   *)
(***************************************************************************)
THEOREM AtomicityInvariance ==
  ASSUME ~RollbackUnknown
  PROVE  Spec => []AtomicityInv
<1>1. TypeOK /\ TypeOK' /\ Inv /\ AtomicityInv /\ [Next]_vars => AtomicityInv'
  BY AtomicityStep, ZenonT(40) DEF StaysAtomic
<1> QED
  BY <1>1, AtomicityInit, TypeCorrect, Invariance, PTL DEF Spec

(***************************************************************************)
(* Once the primary is committed every key of the transaction is committed *)
(* at the same timestamp or keeps the prewrite lock from which it will be: *)
(* no crash, lost or late request, recovery of the expired locks or        *)
(* garbage collection splits a transaction.                                *)
(***************************************************************************)
THEOREM SecondariesFollow ==
  ASSUME ~RollbackUnknown
  PROVE  Spec => []SecondariesFollowPrimary
BY AtomicityInvariance, TypeCorrect, Invariance, SealedPrimaries, PTL

(***************************************************************************)
(* When Commit, a locking read or Rollback has told the client of an abort *)
(* no key of the transaction is committed, then or later.                  *)
(***************************************************************************)
THEOREM AbortIsFinal ==
  ASSUME ~RollbackUnknown
  PROVE  Spec => []AbortedNotCommitted
BY AtomicityInvariance, TypeCorrect, Invariance, AbortedAreBarren, PTL

-----------------------------------------------------------------------------
(***************************************************************************)
(* The invariant behind the theorems on isolation: what every key, lock,   *)
(* record, request under way and answered read says of the transactions    *)
(* that share a key.                                                       *)
(***************************************************************************)
THEOREM IsolationInvariance ==
  ASSUME ~RollbackUnknown
  PROVE  Spec => []IsolationInv
<1>1. /\ TypeOK /\ TypeOK' /\ Inv /\ Inv' /\ AtomicityInv /\ IsolationInv /\ [Next]_vars
      => IsolationInv'
  BY IsolationStep, AtomicityStep, ZenonT(40)
<1> QED
  BY <1>1, IsolationInit, TypeCorrect, Invariance, AtomicityInvariance, PTL DEF Spec

(***************************************************************************)
(* Of two committed transactions that write the same key one committed     *)
(* before the other began, optimistic or pessimistic: the conflict checks  *)
(* of PreparePrewrite, PreparePessimisticLock and PrepareCommit lose no    *)
(* update, whatever is executed late, repeatedly or by recovery.           *)
(***************************************************************************)
THEOREM UpdatesAreKept ==
  ASSUME ~RollbackUnknown
  PROVE  Spec => []NoLostUpdate
<1>1. IsolationInv => NoLostUpdate
  BY ZenonT(40) DEF IsolationInv
<1> QED
  BY <1>1, IsolationInvariance, PTL

(***************************************************************************)
(* What a snapshot read returned, a read at the same timestamp returns     *)
(* until garbage collection passes it: no commit appears below a read that *)
(* GetStatus let pass.                                                     *)
(***************************************************************************)
THEOREM SnapshotsAreStable ==
  ASSUME ~RollbackUnknown
  PROVE  Spec => []ReadsRepeatable
<1>1. IsolationInv => ReadsRepeatable
  BY ZenonT(40) DEF IsolationInv, ReadsRepeatable, ReadGuard
<1> QED
  BY <1>1, IsolationInvariance, PTL

(***************************************************************************)
(* What GetForUpdate returned is the newest version of the key for as long *)
(* as the transaction holds the lock, the upgrade by Prewrite included.    *)
(***************************************************************************)
THEOREM LockingReadsAreCurrent ==
  ASSUME ~RollbackUnknown
  PROVE  Spec => []LockingReadsProtected
<1>1. IsolationInv => LockingReadsProtected
  BY ZenonT(40) DEF IsolationInv, LockingReadsProtected, LockedGuard
<1> QED
  BY <1>1, IsolationInvariance, PTL

(***************************************************************************)
(* A commit that Commit or Rollback reported is rolled back on none of its *)
(* keys, when recovery resolves expired locks within the retention time.   *)
(***************************************************************************)
THEOREM CommitIsFinal ==
  ASSUME ~RollbackUnknown, RecoveryKeepsUp
  PROVE  Spec => []CommittedNotRolledBack
<1>1. TypeOK /\ Inv /\ AtomicityInv /\ IsolationInv => CommittedNotRolledBack
  BY CommittedStays, ZenonT(40)
<1> QED
  BY <1>1, IsolationInvariance, AtomicityInvariance, TypeCorrect, Invariance, PTL
=============================================================================
