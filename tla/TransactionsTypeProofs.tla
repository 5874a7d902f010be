------------------------ MODULE TransactionsTypeProofs ------------------------
(***************************************************************************)
(* Type correctness of Transactions, for any number of keys, transactions  *)
(* and Regions and any workload.                                           *)
(***************************************************************************)
EXTENDS TransactionsInvariants, WellFoundedInduction, TLAPS

(* The byte order has a first key: FirstKey of a batch is one of its keys. *)
LEMMA FirstKeyInSet ==
  ASSUME NEW K \in SUBSET Key, K # {}
  PROVE  FirstKey(K) \in K
<1> DEFINE R == OpToRel(<, Nat)
<1>1. K \subseteq Nat
  BY KeyAssumption, ZenonT(40)
<1>2. \E k \in K : \A j \in K : ~(<<j, k>> \in R)
  <2> HIDE DEF R
  <2>1. IsWellFoundedOn(R, Nat)
    BY NatLessThanWellFounded, ZenonT(40) DEF R
  <2> QED
    BY <1>1, <2>1, WFMin, ZenonT(40)
<1>3. \E k \in K : \A j \in K : k <= j
  <2>1. \A j, k \in Nat : j < k => <<j, k>> \in R
    BY ZenonT(40) DEF OpToRel
  <2> HIDE DEF R
  <2>2. PICK k \in K : \A j \in K : ~(<<j, k>> \in R)
    BY <1>2, ZenonT(40)
  <2>3. \A j \in K : ~(j < k)
    BY <1>1, <2>1, <2>2, ZenonT(40)
  <2> QED
    BY <1>1, <2>3, SMTT(40)
<1> QED
  BY <1>3, ZenonT(40) DEF FirstKey

-----------------------------------------------------------------------------
(* The words the fields of a coordinator and of a request may hold. *)

USE DEF Timestamp

LEMMA Words ==
  /\ "Active" \in StateType /\ "AbortOnly" \in StateType /\ "CleanupPending" \in StateType
  /\ "ResultUnknown" \in StateType /\ "Finished" \in StateType
  /\ "idle" \in StepType /\ "app" \in StepType /\ "lock" \in StepType
  /\ "prewrite" \in StepType /\ "commit" \in StepType /\ "query" \in StepType
  /\ "cleanup" \in StepType /\ "resolve" \in StepType /\ "crashed" \in StepType
  /\ "Ok" \in AggregateType /\ "Failed" \in AggregateType
  /\ "AlreadyCommitted" \in AggregateType /\ "CleanupPending" \in AggregateType
  /\ "none" \in WhyType /\ "abort" \in WhyType /\ "release" \in WhyType
  /\ "rollback" \in WhyType
  /\ "none" \in OutcomeType /\ "committed" \in OutcomeType /\ "released" \in OutcomeType
  /\ "aborted" \in OutcomeType /\ "unknown" \in OutcomeType /\ "pending" \in OutcomeType
  /\ "none" \in DecisionType /\ "Committed" \in DecisionType /\ "RolledBack" \in DecisionType
  /\ "lock" \in OpType /\ "prewrite" \in OpType /\ "commit" \in OpType
  /\ "rollback" \in OpType /\ "resolve" \in OpType
BY ZenonT(40) DEF StateType, StepType, AggregateType, WhyType, OutcomeType, DecisionType, OpType

-----------------------------------------------------------------------------
(* The operations of the store keep a cell a cell. *)

LEMMA MaxTsType ==
  ASSUME NEW a \in Nat, NEW b \in Nat
  PROVE  MaxTs(a, b) \in {a, b} /\ MaxTs(a, b) >= a /\ MaxTs(a, b) >= b
BY SMTT(40) DEF MaxTs

LEMMA NoLockType == NoLock \in LockType
BY ZenonT(40) DEF NoLock, LockType

LEMMA EmptyCellType == EmptyCell \in CellType
BY NoLockType, ZenonT(40) DEF EmptyCell, CellType

LEMMA PessimisticLockType ==
  ASSUME NEW c \in CellType, NEW p \in Key, NEW s \in Nat, NEW u \in Nat
  PROVE  PessimisticLockApply(c, p, s, u) \in CellType
BY MaxTsType, ZenonT(40) DEF PessimisticLockApply, CellType, LockType

LEMMA PrewriteType ==
  ASSUME NEW c \in CellType, NEW p \in Key, NEW s \in Nat, NEW u \in Nat, NEW d
  PROVE  PrewriteApply(c, p, s, u, d) \in CellType
BY ZenonT(40) DEF PrewriteApply, CellType, LockType

LEMMA PrewriteLockType ==
  ASSUME NEW c \in CellType
  PROVE  PrewriteLockApply(c) \in CellType
BY ZenonT(40) DEF PrewriteLockApply, CellType, LockType

LEMMA CommitApplyType ==
  ASSUME NEW c \in CellType, NEW s \in Nat, NEW u \in Nat
  PROVE  CommitApply(c, s, u) \in CellType
<1>1. CommitType(c.lock) \in {"Put", "Delete", "Lock"}
  BY ZenonT(40) DEF CommitType
<1>2. MvccWrite(s, u, CommitType(c.lock)) \in WriteType
  BY <1>1, ZenonT(40) DEF MvccWrite, WriteType
<1> QED
  BY <1>2, NoLockType, ZenonT(40) DEF CommitApply, CellType

LEMMA RollbackApplyType ==
  ASSUME NEW c \in CellType, NEW s \in Nat
  PROVE  RollbackApply(c, s) \in CellType
<1>1. MvccWrite(s, s, "Rollback") \in WriteType
  BY ZenonT(40) DEF MvccWrite, WriteType
<1> QED
  BY <1>1, NoLockType, ZenonT(40) DEF RollbackApply, CellType

LEMMA ResolveLockType ==
  ASSUME NEW c \in CellType, NEW s \in Nat, NEW u \in Nat, NEW d
  PROVE  ResolveLockApply(c, s, d, u) \in CellType
BY CommitApplyType, RollbackApplyType, ZenonT(40) DEF ResolveLockApply

LEMMA CheckTxnStatusType ==
  ASSUME NEW c \in CellType, NEW s \in Nat
  PROVE  CheckTxnStatusApply(c, s) \in CellType
BY RollbackApplyType, ZenonT(40) DEF CheckTxnStatusApply

LEMMA GarbageCollectType ==
  ASSUME NEW c \in CellType, NEW s \in Nat
  PROVE  GarbageCollect(c, s) \in CellType /\ GarbageCollect(c, s).writes \subseteq c.writes
BY ZenonT(40) DEF GarbageCollect, KeptByGc, NewestVisible, VisibleAt, CellType

LEMMA ReadCommittedType ==
  ASSUME NEW c \in CellType, NEW s
  PROVE  ReadCommitted(c, s) \in Nat
<1>1. NewestVisible(c, s) \subseteq WriteType
  BY ZenonT(40) DEF NewestVisible, VisibleAt, CellType
<1> QED
  BY <1>1, ZenonT(40) DEF ReadCommitted, WriteType

LEMMA CommitTsOfType ==
  ASSUME NEW c \in CellType, NEW s
  PROVE  CommitTsOf(c, s) \in Nat
BY ZenonT(40) DEF CommitTsOf, CommitOf, CellType, WriteType

-----------------------------------------------------------------------------
(* What a workload names are keys, and requests are made of them. *)

LEMMA WorkloadKeys ==
  ASSUME NEW t \in Txn
  PROVE  /\ Workload[t] \in WorkloadType
         /\ Primary(t) \in Key
         /\ Mutations(t) \in SUBSET Key
         /\ PrewriteKeys(t) \in SUBSET Key
         /\ \A c \in CoordinatorType : CleanupKeys(c, t) \in SUBSET Key
BY WorkloadAssumption, ZenonT(40)
   DEF WorkloadType, Primary, Mutations, PrewriteKeys, CleanupKeys, CoordinatorType

LEMMA GroupKeysType ==
  ASSUME NEW K \in SUBSET Key
  PROVE  GroupKeysByRegion(K) \subseteq SUBSET Key
BY ZenonT(40) DEF GroupKeysByRegion

LEMMA RequestIsTyped ==
  ASSUME NEW op \in OpType, NEW t \in Txn, NEW K \in SUBSET Key, NEW ts \in Nat,
         NEW d \in DecisionType
  PROVE  Request(op, t, K, ts, d) \in RequestType
BY ZenonT(40) DEF Request, RequestType

LEMMA ApplyOnType ==
  ASSUME TypeOK, NEW q \in RequestType, NEW k \in Key
  PROVE  ApplyOn(q, k) \in CellType
<1>1. /\ cells[k] \in CellType
      /\ co[q.txn].startTs \in Nat
      /\ q.ts \in Nat
      /\ q.op \in {"lock", "prewrite", "commit", "rollback", "resolve"}
      /\ q.txn \in Txn
  BY ZenonT(40) DEF TypeOK, RequestType, CoordinatorType, OpType
<1>2. Primary(q.txn) \in Key
  BY <1>1, WorkloadKeys, ZenonT(40)
<1> HIDE DEF TypeOK
<1>3. CASE q.op = "lock"
  BY <1>1, <1>2, <1>3, PessimisticLockType, ZenonT(40) DEF ApplyOn
<1>4. CASE q.op = "prewrite"
  BY <1>1, <1>2, <1>4, PrewriteType, PrewriteLockType, ZenonT(40) DEF ApplyOn
<1>5. CASE q.op = "commit"
  BY <1>1, <1>5, CommitApplyType, ZenonT(40) DEF ApplyOn
<1>6. CASE q.op = "rollback"
  BY <1>1, <1>6, RollbackApplyType, ZenonT(40) DEF ApplyOn
<1>7. CASE q.op = "resolve"
  BY <1>1, <1>7, ResolveLockType, ZenonT(40) DEF ApplyOn
<1> QED
  BY <1>1, <1>3, <1>4, <1>5, <1>6, <1>7, ZenonT(40)

LEMMA ExecutedType ==
  ASSUME TypeOK, NEW q \in RequestType
  PROVE  Executed(q) \in [Key -> CellType]
BY ApplyOnType, ZenonT(40) DEF Executed, TypeOK

-----------------------------------------------------------------------------
(* The parts of an action that change a coordinator and send requests. *)

CoordinatorsTyped == co \in [Txn -> CoordinatorType] /\ sent \subseteq RequestType

LEMMA SendLockType ==
  ASSUME TypeOK, NEW t \in Txn, NEW c \in CoordinatorType, SendLock(t, c)
  PROVE  CoordinatorsTyped'
<1>1. CASE c.todo = {}
  BY <1>1, Words, SMTT(40) DEF SendLock, TypeOK, CoordinatorType, CoordinatorsTyped
<1>2. CASE c.todo # {}
  <2>1. FirstKey(c.todo) \in Key
    BY <1>2, FirstKeyInSet, ZenonT(40) DEF CoordinatorType
  <2>2. LockRequest(t, c) \in RequestType
    BY <2>1, RequestIsTyped, Words, ZenonT(40) DEF LockRequest, CoordinatorType
  <2>3. [c EXCEPT !.held = @ \cup {FirstKey(c.todo)}] \in CoordinatorType
    BY <2>1, ZenonT(40) DEF CoordinatorType
  <2> QED
    BY <1>2, <2>2, <2>3, ZenonT(40) DEF SendLock, TypeOK, CoordinatorsTyped
<1> QED
  BY <1>1, <1>2, ZenonT(40)

LEMMA CleanupType ==
  ASSUME TypeOK, NEW t \in Txn, NEW c \in CoordinatorType,
         NEW why \in WhyType, Cleanup(t, c, why)
  PROVE  CoordinatorsTyped'
<1>1. CleanupKeys(c, t) \in SUBSET Key
  BY WorkloadKeys, ZenonT(40)
<1>2. \A K \in GroupKeysByRegion(CleanupKeys(c, t)) :
        Request("rollback", t, K, 0, "none") \in RequestType
  BY <1>1, GroupKeysType, RequestIsTyped, Words, ZenonT(40)
<1>3. [c EXCEPT !.step = "cleanup", !.why = why, !.todo = CleanupKeys(c, t),
                !.aggregate = "Ok"] \in CoordinatorType
  BY <1>1, Words, ZenonT(40) DEF CoordinatorType
<1> QED
  BY <1>2, <1>3, ZenonT(40) DEF Cleanup, TypeOK, CoordinatorsTyped

LEMMA SendResolveType ==
  ASSUME TypeOK, NEW t \in Txn, NEW c \in CoordinatorType, SendResolve(t, c)
  PROVE  CoordinatorsTyped'
<1>1. CASE c.todo = {}
  <2>1. [c EXCEPT !.step = "app", !.outcome = "pending"] \in CoordinatorType
    BY Words, ZenonT(40) DEF CoordinatorType
  <2>2. [c EXCEPT !.step = "app", !.state = "Finished", !.held = {},
                  !.outcome = IF c.decision = "Committed" THEN "committed"
                              ELSE "aborted"] \in CoordinatorType
    BY Words, ZenonT(40) DEF CoordinatorType
  <2> QED
    BY <1>1, <2>1, <2>2, ZenonT(40) DEF SendResolve, TypeOK, CoordinatorsTyped
<1>2. CASE c.todo # {}
  <2>1. FirstKey(c.todo) \in Key
    BY <1>2, FirstKeyInSet, ZenonT(40) DEF CoordinatorType
  <2>2. ResolveRequest(t, c) \in RequestType
    BY <2>1, RequestIsTyped, Words, ZenonT(40) DEF ResolveRequest, CoordinatorType
  <2> QED
    BY <1>2, <2>2, ZenonT(40) DEF SendResolve, TypeOK, CoordinatorsTyped
<1> QED
  BY <1>1, <1>2, ZenonT(40)

LEMMA FinishCommitType ==
  ASSUME TypeOK, NEW t \in Txn, NEW ts \in Nat, FinishCommit(t, ts)
  PROVE  CoordinatorsTyped'
<1>1. PrewriteKeys(t) \ {Primary(t)} \in SUBSET Key /\ co[t].held \ PrewriteKeys(t) \in SUBSET Key
  BY WorkloadKeys, ZenonT(40) DEF TypeOK, CoordinatorType
<1>2. \A K \in GroupKeysByRegion(PrewriteKeys(t) \ {Primary(t)}) :
        CommitRequest(t, K, ts) \in RequestType
  BY <1>1, GroupKeysType, RequestIsTyped, Words, ZenonT(40) DEF CommitRequest
<1>3. \A K \in GroupKeysByRegion(co[t].held \ PrewriteKeys(t)) :
        Request("rollback", t, K, 0, "none") \in RequestType
  BY <1>1, GroupKeysType, RequestIsTyped, Words, ZenonT(40)
<1>4. sent' \subseteq RequestType
  BY <1>2, <1>3, ZenonT(40) DEF FinishCommit, TypeOK
<1>5. co' \in [Txn -> CoordinatorType]
  <2>1. co[t] \in CoordinatorType
    BY ZenonT(40) DEF TypeOK
  <2>2. [co[t] EXCEPT !.step = "app", !.state = "Finished", !.held = {},
                      !.commitTs = ts, !.outcome = "committed"] \in CoordinatorType
    BY <2>1, Words, ZenonT(40) DEF CoordinatorType
  <2>3. co' = [co EXCEPT ![t] = [co[t] EXCEPT !.step = "app", !.state = "Finished",
                  !.held = {}, !.commitTs = ts, !.outcome = "committed"]]
    BY ZenonT(40) DEF FinishCommit
  <2> QED
    BY <2>2, <2>3, ZenonT(40) DEF TypeOK
<1> QED
  BY <1>4, <1>5, ZenonT(40) DEF CoordinatorsTyped

LEMMA AnswerType ==
  ASSUME TypeOK, NEW q, NEW ok, Answer(q, ok)
  PROVE  q \in RequestType /\ cells' \in [Key -> CellType]
BY ExecutedType, ZenonT(40) DEF Answer, TypeOK

-----------------------------------------------------------------------------
(* Every action keeps the types. *)

LEMMA CallTypes ==
  ASSUME TypeOK, NEW t \in Txn,
         \/ Begin(t) \/ Deadline(t) \/ Write(t) \/ \E k \in Key : Get(t, k)
         \/ AcquireKeys(t) \/ LockAcquired(t) \/ LockRefused(t) \/ LockUnknown(t)
  PROVE  TypeOK'
<1>0. co[t] \in CoordinatorType /\ tso + 1 \in Nat
  BY SMTT(40) DEF TypeOK
<1>1. CASE Begin(t)
  <2>1. [co[t] EXCEPT !.step = "app", !.startTs = tso + 1] \in CoordinatorType
    BY <1>0, Words, ZenonT(40) DEF CoordinatorType
  <2>2. co' = [co EXCEPT ![t] = [co[t] EXCEPT !.step = "app", !.startTs = tso + 1]]
    BY <1>1, ZenonT(40) DEF Begin
  <2> QED
    BY <1>1, <2>1, <2>2, SMTT(40) DEF Begin, TypeOK
<1>2. CASE Deadline(t)
  <2>1. [co[t] EXCEPT !.state = "AbortOnly", !.outcome = "aborted"] \in CoordinatorType
    BY <1>0, Words, ZenonT(40) DEF CoordinatorType
  <2>2. co' = [co EXCEPT ![t] = [co[t] EXCEPT !.state = "AbortOnly", !.outcome = "aborted"]]
    BY <1>2, ZenonT(40) DEF Deadline
  <2> QED
    BY <1>2, <2>1, <2>2, ZenonT(40) DEF Deadline, TypeOK
<1>3. CASE Write(t)
  <2>1. [co[t] EXCEPT !.written = TRUE] \in CoordinatorType
    BY <1>0, ZenonT(40) DEF CoordinatorType
  <2>2. co' = [co EXCEPT ![t] = [co[t] EXCEPT !.written = TRUE]]
    BY <1>3, ZenonT(40) DEF Write
  <2> QED
    BY <1>3, <2>1, <2>2, ZenonT(40) DEF Write, TypeOK
<1>4. ASSUME NEW k \in Key, Get(t, k) PROVE TypeOK'
  <2>1. [key |-> k, readTs |-> co[t].startTs, version |-> ReadCommitted(cells[k], co[t].startTs)]
          \in [key : Key, readTs : Nat, version : Nat]
    BY <1>0, ReadCommittedType, ZenonT(40) DEF TypeOK, CoordinatorType
  <2> QED
    BY <1>4, <2>1, ZenonT(40) DEF Get, TypeOK
<1>5. CASE AcquireKeys(t)
  <2> DEFINE next == co[t].calls + 1
             c == [co[t] EXCEPT !.step = "lock", !.calls = next,
                                !.todo = Workload[t].locks[next],
                                !.maxForUpdateTs = tso + 1]
  <2>1. next \in 1 .. Len(Workload[t].locks)
    BY <1>0, <1>5, WorkloadKeys, SMTT(40) DEF AcquireKeys, CoordinatorType, WorkloadType
  <2>2. Workload[t].locks[next] \in SUBSET Key
    BY <2>1, WorkloadKeys, SMTT(40) DEF WorkloadType
  <2>3. c \in CoordinatorType
    <3>1. next \in Nat
      BY <2>1, SMTT(40)
    <3> HIDE DEF next
    <3> QED
      BY <1>0, <2>2, <3>1, Words, ZenonT(40) DEF CoordinatorType
  <2>4. SendLock(t, c)
    BY <1>5, ZenonT(40) DEF AcquireKeys
  <2>5. CoordinatorsTyped'
    BY <2>3, <2>4, SendLockType, ZenonT(40)
  <2> QED
    BY <1>5, <2>5, SMTT(40) DEF AcquireKeys, TypeOK, CoordinatorsTyped
<1>6. CASE LockAcquired(t)
  <2> DEFINE k == FirstKey(co[t].todo)
             c == [co[t] EXCEPT !.todo = @ \ {k}]
  <2>1. LockRequest(t, co[t]) \in RequestType /\ cells' \in [Key -> CellType]
    BY <1>6, AnswerType, ZenonT(40) DEF LockAcquired
  <2>2. k \in Key
    BY <2>1, ZenonT(40) DEF LockRequest, Request, RequestType
  <2>3. c \in CoordinatorType
    BY <1>0, ZenonT(40) DEF CoordinatorType
  <2>4. CoordinatorsTyped'
    BY <1>6, <2>3, SendLockType, ZenonT(40) DEF LockAcquired
  <2>5. [txn |-> t, key |-> k, version |-> ReadCommitted(cells[k], cells'[k].lock.forUpdateTs)]
          \in [txn : Txn, key : Key, version : Nat]
    BY <2>2, ReadCommittedType, ZenonT(40) DEF TypeOK
  <2>6. locked' \subseteq [txn : Txn, key : Key, version : Nat]
    BY <1>6, <2>5, ZenonT(40) DEF LockAcquired, TypeOK
  <2> QED
    BY <1>6, <2>1, <2>4, <2>6, ZenonT(40) DEF LockAcquired, TypeOK, CoordinatorsTyped
<1>7. CASE LockRefused(t)
  <2> DEFINE q == LockRequest(t, co[t])
             k == FirstKey(co[t].todo)
             c == [co[t] EXCEPT !.held = @ \ IF StatusOn(q, k) = "StorageError" THEN {} ELSE {k}]
  <2>1. cells' \in [Key -> CellType]
    BY <1>7, AnswerType, ZenonT(40) DEF LockRefused
  <2>2. c \in CoordinatorType
    BY <1>0, ZenonT(40) DEF CoordinatorType
  <2>3. AbortOnly(c) \in CoordinatorType
    BY <2>2, Words, ZenonT(40) DEF AbortOnly, CoordinatorType
  <2>4. Cleanup(t, AbortOnly(c), "abort")
    BY <1>7, ZenonT(40) DEF LockRefused
  <2>5. CoordinatorsTyped'
    BY <2>3, <2>4, CleanupType, Words, ZenonT(40)
  <2> QED
    BY <1>7, <2>1, <2>5, ZenonT(40) DEF LockRefused, TypeOK, CoordinatorsTyped
<1>8. CASE LockUnknown(t)
  <2>1. AbortOnly(co[t]) \in CoordinatorType
    BY <1>0, Words, ZenonT(40) DEF AbortOnly, CoordinatorType
  <2>2. CoordinatorsTyped'
    BY <1>8, <2>1, CleanupType, Words, ZenonT(40) DEF LockUnknown
  <2> QED
    BY <1>8, <2>2, ZenonT(40) DEF LockUnknown, GiveUp, TypeOK, CoordinatorsTyped
<1> QED
  BY <1>1, <1>2, <1>3, <1>4, <1>5, <1>6, <1>7, <1>8, ZenonT(40)

LEMMA CommitTypes ==
  ASSUME TypeOK, NEW t \in Txn,
         \/ CommitLockOnly(t) \/ Prewrite(t) \/ PrewriteFailed(t) \/ CommitPrimary(t)
         \/ \E K \in SUBSET Key : PrewriteAnswered(t, K) \/ PrewriteUnknown(t, K)
         \/ PrimaryCommitted(t) \/ PrimaryUnclear(t)
         \/ QueryCommitted(t) \/ QueryRolledBack(t) \/ QueryRetry(t) \/ QueryExhausted(t)
  PROVE  TypeOK'
<1>0. co[t] \in CoordinatorType /\ tso + 1 \in Nat
  BY SMTT(40) DEF TypeOK
<1>a. AbortOnly(co[t]) \in CoordinatorType
  BY <1>0, Words, ZenonT(40) DEF AbortOnly, CoordinatorType
<1>1. CASE CommitLockOnly(t)
  <2>1. CoordinatorsTyped'
    BY <1>0, <1>1, CleanupType, Words, ZenonT(40) DEF CommitLockOnly
  <2> QED
    BY <1>1, <2>1, ZenonT(40) DEF CommitLockOnly, TypeOK, CoordinatorsTyped
<1>2. CASE Prewrite(t)
  <2> DEFINE c == [co[t] EXCEPT !.step = "prewrite", !.todo = PrewriteKeys(t), !.aggregate = "Ok"]
  <2>1. c \in CoordinatorType
    BY <1>0, Words, WorkloadKeys, ZenonT(40) DEF CoordinatorType
  <2>2. co' = [co EXCEPT ![t] = c]
    BY <1>2, ZenonT(40) DEF Prewrite
  <2>3. \A K \in GroupKeysByRegion(PrewriteKeys(t)) : PrewriteRequest(t, K) \in RequestType
    BY <1>0, WorkloadKeys, GroupKeysType, RequestIsTyped, Words, ZenonT(40)
       DEF PrewriteRequest, CoordinatorType
  <2>4. sent' \subseteq RequestType
    BY <1>2, <2>3, ZenonT(40) DEF Prewrite, TypeOK
  <2> QED
    BY <1>2, <2>1, <2>2, <2>4, SMTT(40) DEF Prewrite, TypeOK
<1>3. CASE PrewriteFailed(t)
  <2>1. CoordinatorsTyped'
    BY <1>a, <1>3, CleanupType, Words, ZenonT(40) DEF PrewriteFailed
  <2> QED
    BY <1>3, <2>1, ZenonT(40) DEF PrewriteFailed, TypeOK, CoordinatorsTyped
<1>4. CASE CommitPrimary(t)
  <2> DEFINE c == [co[t] EXCEPT !.step = "commit", !.commitTs = tso + 1]
  <2>1. c \in CoordinatorType
    BY <1>0, Words, ZenonT(40) DEF CoordinatorType
  <2>2. co' = [co EXCEPT ![t] = c]
    BY <1>4, ZenonT(40) DEF CommitPrimary
  <2>3. CommitRequest(t, {Primary(t)}, tso + 1) \in RequestType
    BY <1>0, WorkloadKeys, RequestIsTyped, Words, ZenonT(40) DEF CommitRequest
  <2> QED
    BY <1>4, <2>1, <2>2, <2>3, SMTT(40) DEF CommitPrimary, TypeOK
<1>5. ASSUME NEW K \in SUBSET Key, PrewriteAnswered(t, K) PROVE TypeOK'
  <2>1. PICK ok \in BOOLEAN :
          /\ Answer(PrewriteRequest(t, K), ok)
          /\ co' = [co EXCEPT ![t] = [co[t] EXCEPT !.todo = @ \ K,
                                        !.aggregate = IF ok THEN @ ELSE "Failed"]]
    BY <1>5, ZenonT(40) DEF PrewriteAnswered
  <2>2. [co[t] EXCEPT !.todo = @ \ K, !.aggregate = IF ok THEN @ ELSE "Failed"] \in CoordinatorType
    BY <1>0, Words, ZenonT(40) DEF CoordinatorType
  <2>3. cells' \in [Key -> CellType]
    BY <2>1, AnswerType, ZenonT(40)
  <2> QED
    BY <1>5, <2>1, <2>2, <2>3, ZenonT(40) DEF PrewriteAnswered, TypeOK
<1>6. ASSUME NEW K \in SUBSET Key, PrewriteUnknown(t, K) PROVE TypeOK'
  <2> DEFINE c == [co[t] EXCEPT !.todo = @ \ K, !.aggregate = "Failed"]
  <2>1. c \in CoordinatorType
    BY <1>0, Words, ZenonT(40) DEF CoordinatorType
  <2>2. co' = [co EXCEPT ![t] = c]
    BY <1>6, ZenonT(40) DEF PrewriteUnknown
  <2> QED
    BY <1>6, <2>1, <2>2, ZenonT(40) DEF PrewriteUnknown, GiveUp, TypeOK
<1>7. CASE PrimaryCommitted(t)
  <2>1. CoordinatorsTyped'
    BY <1>0, <1>7, FinishCommitType, ZenonT(40) DEF PrimaryCommitted, CoordinatorType
  <2>2. cells' \in [Key -> CellType]
    BY <1>7, AnswerType, ZenonT(40) DEF PrimaryCommitted
  <2> QED
    BY <1>7, <2>1, <2>2, ZenonT(40) DEF PrimaryCommitted, TypeOK, CoordinatorsTyped
<1>8. CASE PrimaryUnclear(t)
  <2>1. [co[t] EXCEPT !.step = "query"] \in CoordinatorType
    BY <1>0, Words, ZenonT(40) DEF CoordinatorType
  <2>2. co' = [co EXCEPT ![t] = [co[t] EXCEPT !.step = "query"]]
    BY <1>8, ZenonT(40) DEF PrimaryUnclear
  <2>3. cells' \in [Key -> CellType]
    BY <1>8, AnswerType, ZenonT(40) DEF PrimaryUnclear, GiveUp, TypeOK
  <2> QED
    BY <1>8, <2>1, <2>2, <2>3, ZenonT(40) DEF PrimaryUnclear, TypeOK
<1>9. CASE QueryCommitted(t)
  <2>1. CommitTsOf(cells[Primary(t)], co[t].startTs) \in Nat
    BY WorkloadKeys, CommitTsOfType, ZenonT(40) DEF TypeOK
  <2>2. CoordinatorsTyped'
    BY <1>9, <2>1, FinishCommitType, ZenonT(40) DEF QueryCommitted
  <2> QED
    BY <1>9, <2>2, ZenonT(40) DEF QueryCommitted, TypeOK, CoordinatorsTyped
<1>10. CASE QueryRolledBack(t)
  <2>1. CoordinatorsTyped'
    BY <1>a, <1>10, CleanupType, Words, ZenonT(40) DEF QueryRolledBack
  <2> QED
    BY <1>10, <2>1, ZenonT(40) DEF QueryRolledBack, TypeOK, CoordinatorsTyped
<1>11. CASE QueryRetry(t)
  <2>1. [co[t] EXCEPT !.step = "commit"] \in CoordinatorType
    BY <1>0, Words, ZenonT(40) DEF CoordinatorType
  <2>2. co' = [co EXCEPT ![t] = [co[t] EXCEPT !.step = "commit"]]
    BY <1>11, ZenonT(40) DEF QueryRetry
  <2>3. CommitRequest(t, {Primary(t)}, co[t].commitTs) \in RequestType
    BY <1>0, WorkloadKeys, RequestIsTyped, Words, ZenonT(40) DEF CommitRequest, CoordinatorType
  <2> QED
    BY <1>11, <2>1, <2>2, <2>3, ZenonT(40) DEF QueryRetry, TypeOK
<1>12. CASE QueryExhausted(t)
  <2> DEFINE c == [co[t] EXCEPT !.step = "app", !.state = "ResultUnknown", !.outcome = "unknown"]
  <2>1. c \in CoordinatorType
    BY <1>0, Words, ZenonT(40) DEF CoordinatorType
  <2>2. co' = [co EXCEPT ![t] = c]
    BY <1>12, ZenonT(40) DEF QueryExhausted
  <2> QED
    BY <1>12, <2>1, <2>2, ZenonT(40) DEF QueryExhausted, TypeOK
<1> QED
  BY <1>1, <1>2, <1>3, <1>4, <1>5, <1>6, <1>7, <1>8, <1>9, <1>10, <1>11, <1>12, ZenonT(40)

LEMMA CleanupTypes ==
  ASSUME TypeOK, NEW t \in Txn,
         \/ \E K \in SUBSET Key : CleanupAnswered(t, K) \/ CleanupUnknown(t, K)
         \/ CleanupDone(t) \/ Rollback(t)
         \/ RollbackUnknownResult(t) \/ ResolveAnswered(t) \/ ResolveUnknown(t)
  PROVE  TypeOK'
<1>0. co[t] \in CoordinatorType
  BY ZenonT(40) DEF TypeOK
<1>1. ASSUME NEW K \in SUBSET Key, CleanupAnswered(t, K) PROVE TypeOK'
  <2>1. PICK ok \in BOOLEAN :
          /\ Answer(CleanupRequest(t, K), ok)
          /\ co' = [co EXCEPT ![t] = [co[t] EXCEPT !.todo = @ \ K,
                                        !.held = IF ok THEN @ \ K ELSE @,
                                        !.aggregate = IF ok THEN @ ELSE "AlreadyCommitted"]]
    BY <1>1, ZenonT(40) DEF CleanupAnswered
  <2>2. [co[t] EXCEPT !.todo = @ \ K, !.held = IF ok THEN @ \ K ELSE @,
                      !.aggregate = IF ok THEN @ ELSE "AlreadyCommitted"] \in CoordinatorType
    BY <1>0, Words, ZenonT(40) DEF CoordinatorType
  <2>3. cells' \in [Key -> CellType]
    BY <2>1, AnswerType, ZenonT(40)
  <2> QED
    BY <1>1, <2>1, <2>2, <2>3, ZenonT(40) DEF CleanupAnswered, TypeOK
<1>2. ASSUME NEW K \in SUBSET Key, CleanupUnknown(t, K) PROVE TypeOK'
  <2> DEFINE c == [co[t] EXCEPT !.todo = @ \ K, !.aggregate = "CleanupPending"]
  <2>1. c \in CoordinatorType
    BY <1>0, Words, ZenonT(40) DEF CoordinatorType
  <2>2. co' = [co EXCEPT ![t] = c]
    BY <1>2, ZenonT(40) DEF CleanupUnknown
  <2> QED
    BY <1>2, <2>1, <2>2, ZenonT(40) DEF CleanupUnknown, GiveUp, TypeOK
<1>3. CASE CleanupDone(t)
  <2> DEFINE c == [co[t] EXCEPT !.step = "app", !.why = "none", !.aggregate = "Ok"]
  <2>1. c \in CoordinatorType
    BY <1>0, Words, ZenonT(40) DEF CoordinatorType
  <2>2. /\ [c EXCEPT !.held = {}, !.outcome = "aborted"] \in CoordinatorType
        /\ [c EXCEPT !.held = {}, !.state = "Finished", !.outcome = "released"] \in CoordinatorType
        /\ [c EXCEPT !.held = {}, !.state = "Finished", !.outcome = "aborted"] \in CoordinatorType
        /\ [c EXCEPT !.state = "Finished", !.outcome = "committed"] \in CoordinatorType
        /\ [c EXCEPT !.state = "CleanupPending", !.outcome = "pending"] \in CoordinatorType
    <3> HIDE DEF c
    <3> QED
      BY <2>1, Words, ZenonT(40) DEF CoordinatorType
  <2>3. PICK d \in CoordinatorType : co' = [co EXCEPT ![t] = d]
    <3> HIDE DEF c
    <3> QED
      BY <1>3, <2>2, ZenonT(40) DEF CleanupDone, c
  <2> QED
    BY <1>3, <2>3, ZenonT(40) DEF CleanupDone, TypeOK
<1>4. CASE Rollback(t)
  <2>1. CoordinatorsTyped'
    BY <1>0, <1>4, CleanupType, Words, ZenonT(40) DEF Rollback
  <2> QED
    BY <1>4, <2>1, ZenonT(40) DEF Rollback, TypeOK, CoordinatorsTyped
<1>5. CASE RollbackUnknownResult(t)
  <2> DEFINE committed == PrimaryState(t) = "Committed"
             ts == CommitTsOf(cells[Primary(t)], co[t].startTs)
             c == [co[t] EXCEPT !.step = "resolve", !.todo = CleanupKeys(co[t], t), !.aggregate = "Ok",
                     !.decision = IF committed THEN "Committed" ELSE "RolledBack",
                     !.commitTs = IF committed THEN ts ELSE @]
  <2>1. ts \in Nat
    BY WorkloadKeys, CommitTsOfType, ZenonT(40) DEF TypeOK
  <2>2. CleanupKeys(co[t], t) \in SUBSET Key
    BY <1>0, WorkloadKeys, ZenonT(40)
  <2>3. c \in CoordinatorType
    <3> HIDE DEF committed, ts
    <3> QED
      BY <1>0, <2>1, <2>2, Words, ZenonT(40) DEF CoordinatorType
  <2>4. SendResolve(t, c)
    BY <1>5, ZenonT(40) DEF RollbackUnknownResult
  <2>5. CoordinatorsTyped'
    BY <2>3, <2>4, SendResolveType, ZenonT(40)
  <2> QED
    BY <1>5, <2>5, ZenonT(40) DEF RollbackUnknownResult, TypeOK, CoordinatorsTyped
<1>6. CASE ResolveAnswered(t)
  <2>1. PICK ok \in BOOLEAN :
          /\ Answer(ResolveRequest(t, co[t]), ok)
          /\ SendResolve(t, [co[t] EXCEPT !.todo = @ \ {FirstKey(@)},
                                          !.aggregate = IF ok THEN @ ELSE "CleanupPending"])
    BY <1>6, ZenonT(40) DEF ResolveAnswered
  <2>2. [co[t] EXCEPT !.todo = @ \ {FirstKey(@)},
                      !.aggregate = IF ok THEN @ ELSE "CleanupPending"] \in CoordinatorType
    BY <1>0, Words, ZenonT(40) DEF CoordinatorType
  <2>3. CoordinatorsTyped' /\ cells' \in [Key -> CellType]
    BY <2>1, <2>2, SendResolveType, AnswerType, ZenonT(40)
  <2> QED
    BY <1>6, <2>3, ZenonT(40) DEF ResolveAnswered, TypeOK, CoordinatorsTyped
<1>7. CASE ResolveUnknown(t)
  <2>1. [co[t] EXCEPT !.todo = @ \ {FirstKey(@)}, !.aggregate = "CleanupPending"] \in CoordinatorType
    BY <1>0, Words, ZenonT(40) DEF CoordinatorType
  <2>2. CoordinatorsTyped'
    BY <1>7, <2>1, SendResolveType, ZenonT(40) DEF ResolveUnknown
  <2> QED
    BY <1>7, <2>2, ZenonT(40) DEF ResolveUnknown, GiveUp, TypeOK, CoordinatorsTyped
<1> QED
  BY <1>1, <1>2, <1>3, <1>4, <1>5, <1>6, <1>7, ZenonT(40)

LEMMA NodeTypes ==
  ASSUME TypeOK, NodeNext
  PROVE  TypeOK'
<1>1. ASSUME NEW q \in sent, Execute(q) PROVE TypeOK'
  <2>1. cells' \in [Key -> CellType]
    BY <1>1, ExecutedType, ZenonT(40) DEF Execute, TypeOK
  <2> QED
    BY <1>1, <2>1, ZenonT(40) DEF Execute, TypeOK
<1>2. ASSUME NEW k \in Key, Expire(k) PROVE TypeOK'
  <2>1. cells[k] \in CellType
    BY ZenonT(40) DEF TypeOK
  <2>2. [cells[k] EXCEPT !.lock.expired = TRUE] \in CellType
    BY <2>1, ZenonT(40) DEF CellType, LockType
  <2>3. cells' = [cells EXCEPT ![k] = [cells[k] EXCEPT !.lock.expired = TRUE]]
    BY <1>2, ZenonT(40) DEF Expire
  <2>4. lapsed' \subseteq Key \X Txn
    BY <1>2, SMTT(40) DEF Expire, TypeOK
  <2> QED
    BY <1>2, <2>2, <2>3, <2>4, ZenonT(40) DEF Expire, TypeOK
<1>3. ASSUME NEW k \in Key, NEW t \in Txn, RecoverPrimary(k, t) PROVE TypeOK'
  <2>1. RecoveryRequest(t, k, "RolledBack", 0) \in RequestType
    BY RequestIsTyped, Words, ZenonT(40) DEF RecoveryRequest
  <2>2. cells' \in [Key -> CellType]
    BY <1>3, <2>1, ExecutedType, ZenonT(40) DEF RecoverPrimary
  <2> QED
    BY <1>3, <2>2, ZenonT(40) DEF RecoverPrimary, TypeOK
<1>4. ASSUME NEW k \in Key, NEW t \in Txn, RecoverSecondary(k, t) PROVE TypeOK'
  <2> DEFINE p == cells[Primary(t)]
             state == CheckTxnStatus(p, co[t].startTs)
             ts == CommitTsOf(p, co[t].startTs)
  <2>1. p \in CellType /\ co[t].startTs \in Nat
    BY WorkloadKeys, ZenonT(40) DEF TypeOK, CoordinatorType
  <2>2. ts \in Nat /\ CheckTxnStatusApply(p, co[t].startTs) \in CellType
    BY <2>1, CommitTsOfType, CheckTxnStatusType, ZenonT(40)
  <2>3. RecoveryRequest(t, k, state, ts) \in RequestType
    <3> HIDE DEF state, ts
    <3> QED
      BY <2>2, RequestIsTyped, Words, ZenonT(40) DEF RecoveryRequest
  <2>4. cells' \in [Key -> CellType]
    BY <1>4, <2>2, WorkloadKeys, ZenonT(40) DEF RecoverSecondary, TypeOK
  <2>5. sent' \subseteq RequestType
    BY <1>4, <2>3, ZenonT(40) DEF RecoverSecondary, TypeOK
  <2> QED
    BY <1>4, <2>4, <2>5, ZenonT(40) DEF RecoverSecondary, TypeOK
<1>5. ASSUME NEW R, NEW ts \in SafePoints, AdvanceGc(R, ts) PROVE TypeOK'
  <2>1. ts \in Nat
    BY GcAssumption, ZenonT(40)
  <2>2. cells' \in [Key -> CellType]
    BY <1>5, <2>1, GarbageCollectType, ZenonT(40) DEF AdvanceGc, TypeOK
  <2>3. \A t \in Txn : [co[t] EXCEPT !.step = "crashed"] \in CoordinatorType
    BY Words, SMTT(40) DEF TypeOK, CoordinatorType
  <2>4. co' \in [Txn -> CoordinatorType]
    BY <1>5, <2>3, ZenonT(40) DEF AdvanceGc, TypeOK
  <2> QED
    BY <1>5, <2>1, <2>2, <2>4, ZenonT(40) DEF AdvanceGc, TypeOK
<1> QED
  BY <1>1, <1>2, <1>3, <1>4, <1>5, ZenonT(40) DEF NodeNext

LEMMA TypeInit == Init => TypeOK
<1> SUFFICES ASSUME Init PROVE TypeOK
  BY ZenonT(40)
<1>1. Coordinator0 \in CoordinatorType
  BY Words, ZenonT(40) DEF Coordinator0, CoordinatorType
<1> QED
  BY <1>1, EmptyCellType, ZenonT(40) DEF Init, TypeOK

LEMMA TypeStep == TypeOK /\ [Next]_vars => TypeOK'
<1> SUFFICES ASSUME TypeOK, [Next]_vars PROVE TypeOK'
  BY ZenonT(40)
<1>1. ASSUME NEW t \in Txn, TxnNext(t) PROVE TypeOK'
  BY <1>1, CallTypes, CommitTypes, CleanupTypes, ZenonT(40) DEF TxnNext
<1>2. CASE NodeNext
  BY <1>2, NodeTypes, ZenonT(40)
<1>3. CASE UNCHANGED vars
  BY <1>3, ZenonT(40) DEF vars, TypeOK
<1> QED
  BY <1>1, <1>2, <1>3, ZenonT(40) DEF Next

(***************************************************************************)
(* Whatever the coordinators, Regions and recovery loops do, the cells,    *)
(* the Transaction objects and the requests keep the structure the code    *)
(* gives them; in particular a recovery decision is always Committed or    *)
(* RolledBack, and only keys of the workload are ever locked.              *)
(***************************************************************************)
THEOREM TypeCorrect == Spec => []TypeOK
<1>1. Init => TypeOK
  BY TypeInit, ZenonT(40)
<1>2. TypeOK /\ [Next]_vars => TypeOK'
  BY TypeStep, ZenonT(40)
<1> QED
  BY <1>1, <1>2, PTL DEF Spec

-----------------------------------------------------------------------------
(* What the operations of the store do to a key *)

LEMMA LockStep ==
  ASSUME NEW c \in CellType, NEW p \in Key, NEW s \in Nat, NEW u \in Nat,
         PessimisticLockStatus(c, p, s, u) = "Ok"
  PROVE  \/ Kept(c, PessimisticLockApply(c, p, s, u))
         \/ Taken(s, c, PessimisticLockApply(c, p, s, u))
<1> DEFINE d == PessimisticLockApply(c, p, s, u)
<1>1. d.writes = c.writes
  BY ZenonT(40) DEF PessimisticLockApply, CellType
<1>2. CASE HasLock(c)
  <2>1. d.lock.startTs = c.lock.startTs /\ d.lock.kind = c.lock.kind
    BY <1>2, ZenonT(40) DEF PessimisticLockApply, CellType, LockType
  <2> QED
    BY <1>1, <2>1, ZenonT(40) DEF Kept, IsPessimistic
<1>3. CASE ~HasLock(c)
  <2>1. ~RollbackOf(c, s)
    BY <1>3, ZenonT(40) DEF PessimisticLockStatus
  <2>2. d.lock.startTs = s
    BY <1>3, ZenonT(40) DEF PessimisticLockApply, CellType
  <2> QED
    BY <1>1, <1>3, <2>1, <2>2, ZenonT(40) DEF Taken
<1> QED
  BY <1>2, <1>3, ZenonT(40)

LEMMA PrewriteStep ==
  ASSUME NEW c \in CellType, NEW p \in Key, NEW s \in Nat, s # 0, NEW u \in Nat, NEW del,
         PrewriteStatus(c, p, s, u) = "Ok"
  PROVE  /\ \/ Kept(c, PrewriteApply(c, p, s, u, del))
            \/ Taken(s, c, PrewriteApply(c, p, s, u, del))
         /\ Holds(PrewriteApply(c, p, s, u, del), s)
<1> DEFINE d == PrewriteApply(c, p, s, u, del)
<1>1. d.writes = c.writes
  BY ZenonT(40) DEF PrewriteApply, CellType
<1>2. CASE HasLock(c) /\ ~IsPessimistic(c)
  <2>1. d = c
    BY <1>2, ZenonT(40) DEF PrewriteApply
  <2>2. c.lock.startTs = s
    BY <1>2, ZenonT(40) DEF PrewriteStatus
  <2> QED
    BY <1>2, <2>1, <2>2, ZenonT(40) DEF Kept, Holds, LockedBy
<1>3. CASE HasLock(c) /\ IsPessimistic(c)
  <2>1. c.lock.startTs = s
    BY <1>3, ZenonT(40) DEF PrewriteStatus
  <2>2. d.lock = [c.lock EXCEPT !.kind = IF del THEN "delete" ELSE "put"]
    BY <1>3, ZenonT(40) DEF PrewriteApply, CellType
  <2>3. d.lock.startTs = c.lock.startTs /\ d.lock.kind # "pessimistic"
    BY <2>2, ZenonT(40) DEF CellType, LockType
  <2> QED
    BY <1>1, <1>3, <2>1, <2>3, ZenonT(40) DEF Kept, Holds, LockedBy, HasLock, IsPessimistic
<1>4. CASE ~HasLock(c)
  <2>1. ~RollbackOf(c, s)
    BY <1>4, ZenonT(40) DEF PrewriteStatus
  <2>2. d.lock.startTs = s /\ d.lock.kind # "pessimistic"
    BY <1>4, ZenonT(40) DEF PrewriteApply, CellType
  <2> QED
    BY <1>1, <1>4, <2>1, <2>2, ZenonT(40) DEF Taken, Holds, LockedBy, HasLock, IsPessimistic
<1> QED
  BY <1>2, <1>3, <1>4, ZenonT(40)

LEMMA PrewriteLockStep ==
  ASSUME NEW c \in CellType, NEW p, NEW s \in Nat, NEW u \in Nat,
         PrewriteLockStatus(c, p, s, u) = "Ok"
  PROVE  Kept(c, PrewriteLockApply(c)) /\ Holds(PrewriteLockApply(c), s)
<1> DEFINE d == PrewriteLockApply(c)
<1>1. HasLock(c) /\ c.lock.startTs = s
  BY ZenonT(40) DEF PrewriteLockStatus
<1>2. d.writes = c.writes /\ d.lock.startTs = c.lock.startTs /\ d.lock.kind = "lockOnly"
  BY ZenonT(40) DEF PrewriteLockApply, CellType, LockType
<1> QED
  BY <1>1, <1>2, ZenonT(40) DEF Kept, Holds, LockedBy, HasLock, IsPessimistic

LEMMA CommitStep ==
  ASSUME NEW c \in CellType, NEW s \in Nat, NEW u \in Nat, CommitStatus(c, s, u) = "Ok"
  PROVE  Committed(s, u, c, CommitApply(c, s, u))
<1> DEFINE d == CommitApply(c, s, u)
           w == MvccWrite(s, u, CommitType(c.lock))
<1>1. LockedBy(c, s)
  BY ZenonT(40) DEF CommitStatus, LockedBy
<1>2. d.writes = c.writes \cup {w} /\ ~HasLock(d)
  BY ZenonT(40) DEF CommitApply, CellType, HasLock, NoLock
<1>3. CommitType(c.lock) \in {"Put", "Delete", "Lock"}
  BY ZenonT(40) DEF CommitType
<1>4. w \in WriteType /\ w.startTs = s /\ w.commitTs = u /\ w.type # "Rollback"
  BY <1>3, ZenonT(40) DEF MvccWrite, WriteType, Timestamp
<1> HIDE DEF d, w
<1>5. Committed(s, u, c, d)
  BY <1>1, <1>2, <1>4, ZenonT(40) DEF Committed
<1> QED
  BY <1>5, ZenonT(40) DEF d

LEMMA RollbackStep ==
  ASSUME NEW c \in CellType, NEW s \in Nat, RollbackStatus(c, s) = "Ok"
  PROVE  \/ RollbackOf(c, s) /\ RollbackApply(c, s) = c
         \/ Undone(s, c, RollbackApply(c, s))
<1> DEFINE d == RollbackApply(c, s)
           w == MvccWrite(s, s, "Rollback")
<1>1. CASE RollbackOf(c, s)
  BY <1>1, ZenonT(40) DEF RollbackApply
<1>2. CASE ~RollbackOf(c, s)
  <2>1. ~CommitOf(c, s)
    BY <1>2, ZenonT(40) DEF RollbackStatus
  <2>2. d.writes = c.writes \cup {w} /\ d.lock = IF LockedBy(c, s) THEN NoLock ELSE c.lock
    BY <1>2, ZenonT(40) DEF RollbackApply
  <2>3. w \in WriteType /\ w.startTs = s /\ w.commitTs = s /\ w.type = "Rollback"
    BY ZenonT(40) DEF MvccWrite, WriteType, Timestamp
  <2> HIDE DEF d, w
  <2>4. Undone(s, c, d)
    BY <2>1, <2>2, <2>3, SMTT(40) DEF Undone, HasLock, NoLock
  <2> QED
    BY <2>4, ZenonT(40) DEF d
<1> QED
  BY <1>1, <1>2, ZenonT(40)

LEMMA CollectStep ==
  ASSUME NEW c \in CellType, NEW sp \in Nat
  PROVE  Collected(c, GarbageCollect(c, sp), sp)
<1>1. GarbageCollect(c, sp).lock = c.lock
  BY ZenonT(40) DEF GarbageCollect, CellType
<1>2. GarbageCollect(c, sp).writes = IF \A v, w \in c.writes : v = w THEN c.writes
                                     ELSE KeptByGc(c, sp)
  BY ZenonT(40) DEF GarbageCollect, CellType
<1>3. KeptByGc(c, sp) \subseteq c.writes
  BY ZenonT(40) DEF KeptByGc, NewestVisible, VisibleAt
<1>4. \A w \in c.writes : w \notin KeptByGc(c, sp) => w.commitTs < sp
  BY SMTT(40) DEF KeptByGc, CellType, WriteType, Timestamp
<1> QED
  BY <1>1, <1>2, <1>3, <1>4, ZenonT(40) DEF Collected

-----------------------------------------------------------------------------
(* What the proofs on atomicity and isolation share *)

LEMMA AcquiringType ==
  ASSUME NEW c \in CoordinatorType, NEW n \in Nat, NEW K \in SUBSET Key, NEW u \in Nat
  PROVE  [c EXCEPT !.step = "lock", !.calls = n, !.todo = K, !.maxForUpdateTs = u]
           \in CoordinatorType
BY Words, ZenonT(40) DEF CoordinatorType, Timestamp

LEMMA Basics ==
  ASSUME TypeOK, Inv, AtomicityInv, NEW t \in Txn
  PROVE  /\ co[t].startTs \in Nat /\ co[t].commitTs \in Nat /\ tso \in Nat /\ safePoint \in Nat
         /\ Primary(t) \in Key /\ Primary(t) \in PrewriteKeys(t) /\ PrewriteKeys(t) \subseteq Key
         /\ CoordinatorOK(co[t], tso) /\ ProgressGuard(t) /\ DecisionGuard(t)
         /\ \A u \in Txn : co[u].startTs = co[t].startTs /\ co[t].startTs # 0 => u = t
         /\ Decided(t) => co[t].startTs # 0
<1>1. co[t].startTs \in Nat /\ co[t].commitTs \in Nat /\ tso \in Nat /\ safePoint \in Nat
  BY ZenonT(40) DEF TypeOK, CoordinatorType, Timestamp
<1>2. Primary(t) \in Key /\ Primary(t) \in PrewriteKeys(t) /\ PrewriteKeys(t) \subseteq Key
  BY WorkloadKeys, ZenonT(40) DEF PrewriteKeys
<1>3. CoordinatorOK(co[t], tso) /\ ProgressGuard(t) /\ DecisionGuard(t)
  BY ZenonT(40) DEF Inv, CoordinatorsInv, AtomicityInv
<1>4. \A u \in Txn : co[u].startTs = co[t].startTs /\ co[t].startTs # 0 => u = t
  BY ZenonT(40) DEF Inv, CoordinatorsInv
<1>5. Decided(t) => co[t].startTs # 0
  BY <1>3, ZenonT(40) DEF Decided, CoordinatorOK, ProgressGuard
<1> QED
  BY <1>1, <1>2, <1>3, <1>4, <1>5, ZenonT(40)

(* A commit stays until it is collected. *)
LEMMA CommitStays ==
  ASSUME TypeOK, Lawful, NEW k \in Key, NEW w \in cells[k].writes
  PROVE  w \in cells'[k].writes \/ w.commitTs < safePoint'
<1>1. Stepped(k, cells'[k], safePoint')
  BY ZenonT(40) DEF Lawful
<1> QED
  BY <1>1, ZenonT(40) DEF Stepped, Kept, Collected, Taken, Committed, Undone

LEMMA SentIsPermitted ==
  ASSUME TypeOK, AtomicityInv, NEW q \in sent, InTime(q)
  PROVE  Permitted(q)
<1>1. RequestGuard(q)
  BY ZenonT(40) DEF AtomicityInv
<1>2. Taking(q) => ~NoMoreLocks(q.txn)
  BY <1>1, ZenonT(40) DEF RequestGuard, Taking, InTime, NoMoreLocks
<1> QED
  BY <1>1, <1>2, ZenonT(40) DEF Permitted, RequestGuard

LEMMA PrimaryCommits ==
  ASSUME TypeOK, Inv, AtomicityInv, NEW t \in Txn,
         Answer(CommitRequest(t, {Primary(t)}, co[t].commitTs), TRUE)
  PROVE  CommitOf(cells'[Primary(t)], co[t].startTs)
<1> DEFINE q == CommitRequest(t, {Primary(t)}, co[t].commitTs)
           p == Primary(t)
           s == co[t].startTs
<1>1. AllSucceed(q) /\ cells' = Executed(q)
  BY ZenonT(40) DEF Answer
<1>2. q.txn = t /\ q.keys = {p} /\ q.op = "commit" /\ q.ts = co[t].commitTs
  BY ZenonT(40) DEF CommitRequest, Request
<1>3. p \in Key /\ cells[p] \in CellType /\ CellOK(cells[p]) /\ s \in Nat /\ co[t].commitTs \in Nat
  BY Basics, ZenonT(40) DEF TypeOK, Inv, CellsInv
<1> HIDE DEF q, p, s
<1>4. StatusOn(q, p) = CommitStatus(cells[p], s, co[t].commitTs)
  BY <1>2, ZenonT(40) DEF StatusOn, s
<1>5. cells'[p] = IF StatusOn(q, p) = "Ok" THEN CommitApply(cells[p], s, co[t].commitTs)
                  ELSE cells[p]
  BY <1>1, <1>2, <1>3, ZenonT(40) DEF Executed, ApplyOn, s
<1>6. StatusOn(q, p) \in {"Ok", "AlreadyCommitted"}
  BY <1>1, <1>2, ZenonT(40) DEF AllSucceed, Succeeds
<1>7. CASE StatusOn(q, p) = "Ok"
  <2>1. Committed(s, co[t].commitTs, cells[p], cells'[p])
    BY <1>3, <1>4, <1>5, <1>7, CommitStep, ZenonT(40)
  <2> QED
    BY <2>1, ZenonT(40) DEF Committed, CommitOf, p, s
<1>8. CASE StatusOn(q, p) = "AlreadyCommitted"
  <2>1. CommitOf(cells[p], s)
    BY <1>3, <1>4, <1>8, ZenonT(40) DEF CommitStatus, CellOK, OwnerUndecided
  <2> QED
    BY <1>5, <1>8, <2>1, ZenonT(40) DEF p, s
<1> QED
  BY <1>6, <1>7, <1>8, ZenonT(40)

LEMMA CommitTsIsTheirs ==
  ASSUME TypeOK, Inv, AtomicityInv, NEW t \in Txn, NEW k \in Key,
         CommitOf(cells[k], co[t].startTs)
  PROVE  CommitTsOf(cells[k], co[t].startTs) = co[t].commitTs
<1> DEFINE P(w) == w.startTs = co[t].startTs /\ w.type # "Rollback"
           v == CHOOSE w \in cells[k].writes : P(w)
<1>1. v \in cells[k].writes /\ P(v)
  BY ZenonT(40) DEF CommitOf
<1>2. CommitTsOf(cells[k], co[t].startTs) = v.commitTs
  BY ZenonT(40) DEF CommitTsOf
<1> HIDE DEF v
<1> QED
  BY <1>1, <1>2, ZenonT(40) DEF AtomicityInv, RecordGuard

=============================================================================
