-------------------------- MODULE TransactionsProofs --------------------------
(***************************************************************************)
(* Safety of Transactions, for any number of keys, transactions and        *)
(* Regions and any workload: a key has one outcome per transaction, a      *)
(* store reloaded from its engine loses nothing, transactions commit after *)
(* their locking reads, and locks only advance.                            *)
(***************************************************************************)
EXTENDS TransactionsTypeProofs

-----------------------------------------------------------------------------
(* What the operations of the store do to one cell *)

LEMMA LockKeepsCell ==
  ASSUME NEW c \in CellType, CellOK(c), NEW p \in Key, NEW s \in Nat, NEW u \in Nat,
         PessimisticLockStatus(c, p, s, u) = "Ok",
         \A w \in c.writes : w.startTs = s /\ w.type # "Rollback" => w.commitTs > u
  PROVE  /\ CellOK(PessimisticLockApply(c, p, s, u))
         /\ PessimisticLockApply(c, p, s, u).writes = c.writes
<1> DEFINE d == PessimisticLockApply(c, p, s, u)
<1>1. d.writes = c.writes
  BY ZenonT(40) DEF PessimisticLockApply, CellType
<1>2. CASE HasLock(c)
  <2>1. d.lock.startTs = c.lock.startTs
    BY <1>2, ZenonT(40) DEF PessimisticLockApply, CellType, LockType
  <2> QED
    BY <1>1, <1>2, <2>1, ZenonT(40) DEF CellOK, OneRecord, OwnerUndecided, HasLock
<1>3. CASE ~HasLock(c)
  <2>1. ~RollbackOf(c, s) /\ ~\E w \in c.writes : w.type # "Rollback" /\ w.commitTs > u
    BY <1>3, ZenonT(40) DEF PessimisticLockStatus
  <2>2. \A w \in c.writes : w.startTs # s
    BY <2>1, ZenonT(40) DEF RollbackOf
  <2>3. d.lock.startTs = s
    BY <1>3, ZenonT(40) DEF PessimisticLockApply, CellType
  <2> QED
    BY <1>1, <2>2, <2>3, ZenonT(40) DEF CellOK, OneRecord, OwnerUndecided
<1> QED
  BY <1>2, <1>3, ZenonT(40)

LEMMA PrewriteKeepsCell ==
  ASSUME NEW c \in CellType, CellOK(c), NEW p \in Key, NEW s \in Nat, NEW u \in Nat, NEW del,
         PrewriteStatus(c, p, s, u) = "Ok",
         \A w \in c.writes : w.startTs = s /\ w.type # "Rollback" => w.commitTs > s
  PROVE  /\ CellOK(PrewriteApply(c, p, s, u, del))
         /\ PrewriteApply(c, p, s, u, del).writes = c.writes
<1> DEFINE d == PrewriteApply(c, p, s, u, del)
<1>1. d.writes = c.writes
  BY ZenonT(40) DEF PrewriteApply, CellType
<1>2. CASE HasLock(c)
  <2>1. d.lock.startTs = c.lock.startTs
    BY <1>2, ZenonT(40) DEF PrewriteApply, CellType, LockType
  <2> QED
    BY <1>1, <1>2, <2>1, ZenonT(40) DEF CellOK, OneRecord, OwnerUndecided, HasLock
<1>3. CASE ~HasLock(c)
  <2>1. ~RollbackOf(c, s) /\ ~\E w \in c.writes : w.commitTs >= s
    BY <1>3, ZenonT(40) DEF PrewriteStatus
  <2>2. \A w \in c.writes : w.startTs # s
    BY <2>1, SMTT(40) DEF RollbackOf, CellType, WriteType, Timestamp
  <2>3. d.lock.startTs = s
    BY <1>3, ZenonT(40) DEF PrewriteApply, CellType
  <2> QED
    BY <1>1, <2>2, <2>3, ZenonT(40) DEF CellOK, OneRecord, OwnerUndecided
<1> QED
  BY <1>2, <1>3, ZenonT(40)

LEMMA PrewriteLockKeepsCell ==
  ASSUME NEW c \in CellType, CellOK(c)
  PROVE  /\ CellOK(PrewriteLockApply(c))
         /\ PrewriteLockApply(c).writes = c.writes
<1> DEFINE d == PrewriteLockApply(c)
<1>1. d.writes = c.writes /\ d.lock.startTs = c.lock.startTs
  BY ZenonT(40) DEF PrewriteLockApply, CellType, LockType
<1> QED
  BY <1>1, ZenonT(40) DEF CellOK, OneRecord, OwnerUndecided, HasLock

LEMMA CommitKeepsCell ==
  ASSUME NEW c \in CellType, CellOK(c), NEW s \in Nat, NEW u \in Nat,
         CommitStatus(c, s, u) = "Ok"
  PROVE  /\ CellOK(CommitApply(c, s, u))
         /\ CommitApply(c, s, u).writes = c.writes \cup {MvccWrite(s, u, CommitType(c.lock))}
         /\ s # 0
<1> DEFINE d == CommitApply(c, s, u)
           w == MvccWrite(s, u, CommitType(c.lock))
<1>1. HasLock(c) /\ c.lock.startTs = s
  BY ZenonT(40) DEF CommitStatus
<1>2. d.writes = c.writes \cup {w} /\ ~HasLock(d)
  BY ZenonT(40) DEF CommitApply, CellType, HasLock, NoLock
<1>3. w.startTs = s
  BY ZenonT(40) DEF MvccWrite
<1>4. \A v \in c.writes : v.startTs # s
  BY <1>1, ZenonT(40) DEF CellOK, OwnerUndecided
<1>5. OneRecord(d)
  <2> HIDE DEF d, w
  <2> QED
    BY <1>2, <1>3, <1>4, ZenonT(40) DEF CellOK, OneRecord
<1> QED
  BY <1>1, <1>2, <1>5, ZenonT(40) DEF CellOK, OwnerUndecided, HasLock

LEMMA RollbackKeepsCell ==
  ASSUME NEW c \in CellType, CellOK(c), NEW s \in Nat, RollbackStatus(c, s) = "Ok"
  PROVE  /\ CellOK(RollbackApply(c, s))
         /\ RollbackApply(c, s).writes \subseteq c.writes \cup {MvccWrite(s, s, "Rollback")}
<1> DEFINE d == RollbackApply(c, s)
           w == MvccWrite(s, s, "Rollback")
<1>1. CASE RollbackOf(c, s)
  BY <1>1, ZenonT(40) DEF RollbackApply
<1>2. CASE ~RollbackOf(c, s)
  <2>1. \A v \in c.writes : v.startTs # s
    BY <1>2, ZenonT(40) DEF RollbackStatus, RollbackOf, CommitOf
  <2>2. d.writes = c.writes \cup {w} /\ d.lock = IF LockedBy(c, s) THEN NoLock ELSE c.lock
    BY <1>2, ZenonT(40) DEF RollbackApply
  <2>3. w.startTs = s
    BY ZenonT(40) DEF MvccWrite
  <2>4. OneRecord(d)
    <3> HIDE DEF d, w
    <3> QED
      BY <2>1, <2>2, <2>3, ZenonT(40) DEF CellOK, OneRecord
  <2>5. OwnerUndecided(d)
    <3> HIDE DEF d, w
    <3> QED
      BY <2>2, <2>3, SMTT(40) DEF CellOK, OwnerUndecided, LockedBy, HasLock, NoLock
  <2> QED
    BY <2>2, <2>4, <2>5, ZenonT(40) DEF CellOK
<1> QED
  BY <1>1, <1>2, ZenonT(40)

LEMMA GarbageCollectKeepsCell ==
  ASSUME NEW c \in CellType, CellOK(c), NEW s \in Nat
  PROVE  CellOK(GarbageCollect(c, s))
<1>1. GarbageCollect(c, s).lock = c.lock
  BY ZenonT(40) DEF GarbageCollect, CellType
<1> QED
  BY <1>1, GarbageCollectType, ZenonT(40) DEF CellOK, OneRecord, OwnerUndecided, HasLock

-----------------------------------------------------------------------------
(* What a request does to the keys of its Region *)

(* t commits, if at all, above what it read from and locked. *)
LEMMA CommitRecordOK ==
  ASSUME TypeOK, Inv, NEW t \in Txn, NEW k \in Key, NEW w \in cells[k].writes,
         w.startTs = co[t].startTs, w.type # "Rollback"
  PROVE  CommitTsOK(t, w.commitTs)
BY ZenonT(40) DEF Inv, CellsInv, RecordOK

LEMMA CommitTsOfOK ==
  ASSUME TypeOK, Inv, NEW t \in Txn, NEW k \in Key, CommitOf(cells[k], co[t].startTs)
  PROVE  CommitTsOK(t, CommitTsOf(cells[k], co[t].startTs))
<1> DEFINE P(w) == w.startTs = co[t].startTs /\ w.type # "Rollback"
           v == CHOOSE w \in cells[k].writes : P(w)
<1>1. v \in cells[k].writes /\ P(v)
  BY ZenonT(40) DEF CommitOf
<1>2. CommitTsOf(cells[k], co[t].startTs) = v.commitTs
  BY ZenonT(40) DEF CommitTsOf
<1> HIDE DEF v
<1> QED
  BY <1>1, <1>2, CommitRecordOK, ZenonT(40)

LEMMA NewRollbackOK ==
  ASSUME TypeOK, Inv, NEW t \in Txn
  PROVE  RecordOK(MvccWrite(co[t].startTs, co[t].startTs, "Rollback"))
BY ZenonT(40) DEF Inv, CoordinatorsInv, CoordinatorOK, RecordOK, MvccWrite

LEMMA NewCommitOK ==
  ASSUME TypeOK, Inv, NEW t \in Txn, NEW ts \in Nat, NEW type,
         CommitTsOK(t, ts), co[t].startTs # 0
  PROVE  RecordOK(MvccWrite(co[t].startTs, ts, type))
BY ZenonT(40) DEF Inv, CoordinatorsInv, CoordinatorOK, RecordOK, MvccWrite, CommitTsOK

LEMMA RollbackOK ==
  ASSUME TypeOK, Inv, NEW t \in Txn, NEW k \in Key, RollbackStatus(cells[k], co[t].startTs) = "Ok"
  PROVE  /\ CellOK(RollbackApply(cells[k], co[t].startTs))
         /\ \A w \in RollbackApply(cells[k], co[t].startTs).writes : RecordOK(w)
<1>1. cells[k] \in CellType /\ co[t].startTs \in Nat
  BY ZenonT(40) DEF TypeOK, CoordinatorType, Timestamp
<1>2. CellOK(cells[k]) /\ \A w \in cells[k].writes : RecordOK(w)
  BY ZenonT(40) DEF Inv, CellsInv
<1> QED
  BY <1>1, <1>2, RollbackKeepsCell, NewRollbackOK, ZenonT(40)

LEMMA CommitOK ==
  ASSUME TypeOK, Inv, NEW t \in Txn, NEW k \in Key, NEW ts \in Nat, CommitTsOK(t, ts),
         CommitStatus(cells[k], co[t].startTs, ts) = "Ok"
  PROVE  /\ CellOK(CommitApply(cells[k], co[t].startTs, ts))
         /\ \A w \in CommitApply(cells[k], co[t].startTs, ts).writes : RecordOK(w)
<1>1. cells[k] \in CellType /\ co[t].startTs \in Nat
  BY ZenonT(40) DEF TypeOK, CoordinatorType, Timestamp
<1>2. CellOK(cells[k]) /\ \A w \in cells[k].writes : RecordOK(w)
  BY ZenonT(40) DEF Inv, CellsInv
<1> QED
  BY <1>1, <1>2, CommitKeepsCell, NewCommitOK, SMTT(40)

LEMMA ApplyOnOK ==
  ASSUME TypeOK, Inv, NEW q \in RequestType, RequestOK(q), NEW k \in Key, Succeeds(q, k)
  PROVE  CellOK(ApplyOn(q, k)) /\ \A w \in ApplyOn(q, k).writes : RecordOK(w)
<1> DEFINE t == q.txn
           s == co[t].startTs
           p == Primary(t)
<1>1. /\ q.op \in {"lock", "prewrite", "commit", "rollback", "resolve"}
      /\ t \in Txn /\ q.ts \in Nat
  BY ZenonT(40) DEF RequestType, OpType, Timestamp
<1>2. cells[k] \in CellType /\ s \in Nat /\ p \in Key
  BY <1>1, WorkloadKeys, ZenonT(40) DEF TypeOK, CoordinatorType, Timestamp
<1>3. CellOK(cells[k]) /\ \A w \in cells[k].writes : RecordOK(w)
  BY ZenonT(40) DEF Inv, CellsInv
<1>4. \A w \in cells[k].writes : w.startTs = s /\ w.type # "Rollback" => CommitTsOK(t, w.commitTs)
  BY <1>1, CommitRecordOK, ZenonT(40)
<1>5. CASE q.op = "lock"
  <2>1. PessimisticLockStatus(cells[k], p, s, q.ts) = "Ok"
    BY <1>5, ZenonT(40) DEF Succeeds, StatusOn
  <2>2. ApplyOn(q, k) = PessimisticLockApply(cells[k], p, s, q.ts)
    BY <1>5, ZenonT(40) DEF ApplyOn
  <2>3. \A w \in cells[k].writes : w.startTs = s /\ w.type # "Rollback" => w.commitTs > q.ts
    BY <1>1, <1>2, <1>4, <1>5, SMTT(40)
       DEF RequestOK, CommitTsOK, TypeOK, CoordinatorType, CellType, WriteType, Timestamp
  <2> HIDE DEF t, s, p
  <2> QED
    BY <1>1, <1>2, <1>3, <2>1, <2>2, <2>3, LockKeepsCell, SMTT(40)
<1>6. CASE q.op = "prewrite"
  <2>1. CASE k \in Mutations(t)
    <3> DEFINE del == k \in Workload[t].deletes
    <3>1. PrewriteStatus(cells[k], p, s, q.ts) = "Ok"
      BY <1>6, <2>1, ZenonT(40) DEF Succeeds, StatusOn
    <3>2. ApplyOn(q, k) = PrewriteApply(cells[k], p, s, q.ts, del)
      BY <1>6, <2>1, ZenonT(40) DEF ApplyOn
    <3>3. \A w \in cells[k].writes : w.startTs = s /\ w.type # "Rollback" => w.commitTs > s
      BY <1>4, ZenonT(40) DEF CommitTsOK
    <3> HIDE DEF t, s, p, del
    <3> QED
      BY <1>1, <1>2, <1>3, <3>1, <3>2, <3>3, PrewriteKeepsCell, SMTT(40)
  <2>2. CASE k \notin Mutations(t)
    <3>1. ApplyOn(q, k) = PrewriteLockApply(cells[k])
      BY <1>6, <2>2, ZenonT(40) DEF ApplyOn
    <3> QED
      BY <1>2, <1>3, <3>1, PrewriteLockKeepsCell, ZenonT(40)
  <2> QED
    BY <2>1, <2>2, ZenonT(40)
<1>7. CASE q.op = "commit"
  <2>1. StatusOn(q, k) = CommitStatus(cells[k], s, q.ts)
    BY <1>7, ZenonT(40) DEF StatusOn
  <2>2. ApplyOn(q, k) = IF StatusOn(q, k) = "Ok" THEN CommitApply(cells[k], s, q.ts) ELSE cells[k]
    BY <1>7, ZenonT(40) DEF ApplyOn
  <2>3. CommitTsOK(t, q.ts)
    BY <1>7, ZenonT(40) DEF RequestOK
  <2> QED
    BY <1>1, <1>3, <2>1, <2>2, <2>3, CommitOK, ZenonT(40)
<1>8. CASE q.op = "rollback"
  <2>1. RollbackStatus(cells[k], s) = "Ok"
    BY <1>8, ZenonT(40) DEF Succeeds, StatusOn
  <2>2. ApplyOn(q, k) = RollbackApply(cells[k], s)
    BY <1>8, ZenonT(40) DEF ApplyOn
  <2> QED
    BY <1>1, <2>1, <2>2, RollbackOK, ZenonT(40)
<1>9. CASE q.op = "resolve"
  <2>1. ApplyOn(q, k) = ResolveLockApply(cells[k], s, q.decision, q.ts)
    BY <1>9, ZenonT(40) DEF ApplyOn
  <2>2. q.decision = "Committed" => CommitTsOK(t, q.ts)
    BY <1>9, ZenonT(40) DEF RequestOK
  <2> QED
    BY <1>1, <1>3, <2>1, <2>2, CommitOK, RollbackOK, ZenonT(40) DEF ResolveLockApply
<1> QED
  BY <1>1, <1>5, <1>6, <1>7, <1>8, <1>9, ZenonT(40)

(* The cells a step may leave, judged in the state before it. *)
CellsOK(f) == \A k \in Key : CellOK(f[k]) /\ \A w \in f[k].writes : RecordOK(w)

LEMMA ExecutedOK ==
  ASSUME TypeOK, Inv, NEW q \in RequestType, RequestOK(q)
  PROVE  CellsOK(Executed(q))
<1>1. CellsOK(cells)
  BY ZenonT(40) DEF CellsOK, Inv, CellsInv
<1> QED
  BY <1>1, ApplyOnOK, ZenonT(40) DEF CellsOK, Executed, AllSucceed

LEMMA AnswerOK ==
  ASSUME TypeOK, Inv, NEW q, NEW ok, Answer(q, ok)
  PROVE  CellsOK(cells')
BY ExecutedOK, ZenonT(40) DEF Answer, TypeOK, Inv, RequestsInv

-----------------------------------------------------------------------------
(* What a step may do to a coordinator *)

(***************************************************************************)
(* Once its commit timestamp is taken, a transaction's start and forUpdate *)
(* timestamps stay; a start timestamp is set once, to a new one.           *)
(***************************************************************************)
Follows(t, c) ==
  /\ c.maxForUpdateTs >= co[t].maxForUpdateTs
  /\ Decided(t) => c.commitTs # 0 /\ c.maxForUpdateTs = co[t].maxForUpdateTs

Advances ==
  /\ tso' >= tso
  /\ \A t \in Txn : /\ Follows(t, co'[t])
                    /\ \/ co'[t].startTs = co[t].startTs
                       \/ co'[t].startTs > tso /\ ~Decided(t)

LEMMA RecordsStayOK ==
  ASSUME TypeOK, TypeOK', Advances, NEW w \in WriteType, RecordOK(w)
  PROVE  RecordOK(w)'
<1>1. w.startTs \in Nat /\ w.commitTs \in Nat /\ tso \in Nat /\ tso' \in Nat
  BY ZenonT(40) DEF WriteType, TypeOK, Timestamp
<1>2. w.startTs <= tso'
  BY <1>1, SMTT(40) DEF RecordOK, Advances
<1>3. ASSUME w.type # "Rollback", NEW t \in Txn, co'[t].startTs = w.startTs
      PROVE  CommitTsOK(t, w.commitTs)'
  <2>1. co'[t].startTs = co[t].startTs
    BY <1>1, <1>3, SMTT(40) DEF Advances, RecordOK
  <2>2. CommitTsOK(t, w.commitTs)
    BY <1>3, <2>1, ZenonT(40) DEF RecordOK
  <2> QED
    BY <2>1, <2>2, ZenonT(40) DEF CommitTsOK, Decided, Advances, Follows
<1> QED
  BY <1>2, <1>3, ZenonT(40) DEF RecordOK

LEMMA RequestsStayOK ==
  ASSUME TypeOK, TypeOK', Advances, NEW q \in RequestType, RequestOK(q)
  PROVE  RequestOK(q)'
<1> DEFINE t == q.txn
<1>1. t \in Txn /\ q.ts \in Nat
  BY ZenonT(40) DEF RequestType, Timestamp
<1>2. co[t].maxForUpdateTs \in Nat /\ co'[t].maxForUpdateTs \in Nat
  BY <1>1, ZenonT(40) DEF TypeOK, CoordinatorType, Timestamp
<1>3. CommitTsOK(t, q.ts) => CommitTsOK(t, q.ts)'
  BY <1>1, ZenonT(40) DEF CommitTsOK, Decided, Advances, Follows
<1>4. q.ts <= co[t].maxForUpdateTs => q.ts <= co'[t].maxForUpdateTs
  BY <1>1, <1>2, SMTT(40) DEF Advances, Follows
<1> QED
  BY <1>3, <1>4, ZenonT(40) DEF RequestOK

LEMMA StepKeepsInv ==
  ASSUME TypeOK, TypeOK', Inv, Advances, CoordinatorsInv', CellsOK(cells'),
         \A q \in sent' : q \in sent \/ RequestOK(q)'
  PROVE  Inv'
<1>1. CellsInv'
  BY RecordsStayOK, ZenonT(40) DEF CellsOK, CellsInv, TypeOK, CellType, CellOK, OneRecord, OwnerUndecided
<1>2. RequestsInv'
  BY RequestsStayOK, ZenonT(40) DEF Inv, RequestsInv, TypeOK
<1> QED
  BY <1>1, <1>2, ZenonT(40) DEF Inv

(* A step of one coordinator after Begin. *)
LEMMA OneCoordinator ==
  ASSUME TypeOK, TypeOK', Inv, NEW t \in Txn, NEW c \in CoordinatorType,
         co' = [co EXCEPT ![t] = c], tso' >= tso,
         c.startTs = co[t].startTs, Follows(t, c), CoordinatorOK(c, tso')
  PROVE  Advances /\ CoordinatorsInv'
<1>1. co'[t] = c /\ \A u \in Txn \ {t} : co'[u] = co[u]
  BY ZenonT(40) DEF TypeOK
<1>2. \A u \in Txn : Follows(u, co[u])
  BY SMTT(40) DEF Follows, Decided, TypeOK, CoordinatorType, Timestamp
<1>3. Advances
  BY <1>1, <1>2, ZenonT(40) DEF Advances
<1>4. \A u \in Txn : CoordinatorOK(co[u], tso')
  <2>1. \A u \in Txn : co[u].startTs \in Nat /\ co[u].maxForUpdateTs \in Nat
    BY ZenonT(40) DEF TypeOK, CoordinatorType, Timestamp
  <2>2. tso \in Nat /\ tso' \in Nat
    BY ZenonT(40) DEF TypeOK, Timestamp
  <2>3. \A u \in Txn : CoordinatorOK(co[u], tso)
    BY ZenonT(40) DEF Inv, CoordinatorsInv
  <2> QED
    BY <2>1, <2>2, <2>3, SMTT(40) DEF CoordinatorOK
<1>5. \A u \in Txn : CoordinatorOK(co'[u], tso')
  BY <1>1, <1>4, ZenonT(40)
<1>6. \A u \in Txn : co'[u].startTs = co[u].startTs
  BY <1>1, ZenonT(40)
<1>7. \A u, v \in Txn : co'[u].startTs = co'[v].startTs /\ co'[u].startTs # 0 => u = v
  BY <1>6, ZenonT(40) DEF Inv, CoordinatorsInv
<1> QED
  BY <1>3, <1>5, <1>7, ZenonT(40) DEF CoordinatorsInv

(* A step that leaves the coordinators and the timestamps alone. *)
LEMMA NoCoordinator ==
  ASSUME TypeOK, TypeOK', Inv, co' = co, tso' = tso
  PROVE  Advances /\ CoordinatorsInv'
<1>1. \A u \in Txn : Follows(u, co[u])
  BY SMTT(40) DEF Follows, Decided, TypeOK, CoordinatorType, Timestamp
<1>2. Advances
  BY <1>1, SMTT(40) DEF Advances, TypeOK, Timestamp
<1> QED
  BY <1>2, ZenonT(40) DEF Inv, CoordinatorsInv, CoordinatorOK

-----------------------------------------------------------------------------
(* The parts of an action that change a coordinator and send requests *)

LEMMA CleanupOK ==
  ASSUME TypeOK, TypeOK', Inv, NEW t \in Txn, NEW c \in CoordinatorType, NEW why \in WhyType,
         Cleanup(t, c, why), tso' = tso, CellsOK(cells'),
         c.startTs = co[t].startTs, c.maxForUpdateTs = co[t].maxForUpdateTs,
         c.commitTs = co[t].commitTs, c.commitTs # 0 => c.state # "Active"
  PROVE  Inv'
<1> DEFINE d == [c EXCEPT !.step = "cleanup", !.why = why, !.todo = CleanupKeys(c, t),
                          !.aggregate = "Ok"]
<1>1. co' = [co EXCEPT ![t] = d]
  BY ZenonT(40) DEF Cleanup
<1>2. d \in CoordinatorType
  <2>1. CleanupKeys(c, t) \in SUBSET Key
    BY WorkloadKeys, ZenonT(40)
  <2> QED
    BY <2>1, Words, ZenonT(40) DEF CoordinatorType
<1>3. /\ d.startTs = co[t].startTs /\ d.maxForUpdateTs = co[t].maxForUpdateTs
      /\ d.commitTs = co[t].commitTs /\ d.state = c.state /\ d.step = "cleanup"
  BY ZenonT(40) DEF CoordinatorType
<1> HIDE DEF d
<1>4. Follows(t, d)
  BY <1>3, SMTT(40) DEF Follows, Decided, TypeOK, CoordinatorType, Timestamp
<1>5. CoordinatorOK(d, tso')
  BY <1>3, ZenonT(40) DEF CoordinatorOK, Inv, CoordinatorsInv
<1>6. Advances /\ CoordinatorsInv'
  <2>1. tso' >= tso
    BY SMTT(40) DEF TypeOK, Timestamp
  <2> QED
    BY <1>1, <1>2, <1>3, <1>4, <1>5, <2>1, OneCoordinator, ZenonT(40)
<1>7. \A q \in sent' : q \in sent \/ RequestOK(q)'
  BY SMTT(40) DEF Cleanup, Request, RequestOK
<1> QED
  BY <1>6, <1>7, StepKeepsInv, ZenonT(40)

LEMMA FinishCommitOK ==
  ASSUME TypeOK, TypeOK', Inv, NEW t \in Txn, NEW ts \in Nat, FinishCommit(t, ts), tso' = tso,
         CellsOK(cells'), CommitTsOK(t, ts)
  PROVE  Inv'
<1> DEFINE d == [co[t] EXCEPT !.step = "app", !.state = "Finished", !.held = {},
                              !.commitTs = ts, !.outcome = "committed"]
<1>0. co[t] \in CoordinatorType
  BY ZenonT(40) DEF TypeOK
<1>1. co' = [co EXCEPT ![t] = d]
  BY ZenonT(40) DEF FinishCommit
<1>2. d \in CoordinatorType
  BY <1>0, Words, ZenonT(40) DEF CoordinatorType, Timestamp
<1>3. /\ d.startTs = co[t].startTs /\ d.maxForUpdateTs = co[t].maxForUpdateTs
      /\ d.commitTs = ts /\ d.state = "Finished" /\ d.step = "app"
  BY <1>0, ZenonT(40) DEF CoordinatorType
<1> HIDE DEF d
<1>4. ts # 0
  BY <1>0, SMTT(40) DEF CommitTsOK, CoordinatorType, Timestamp
<1>5. Follows(t, d)
  BY <1>0, <1>3, <1>4, SMTT(40) DEF Follows, Decided, CoordinatorType, Timestamp
<1>6. CoordinatorOK(d, tso')
  BY <1>3, ZenonT(40) DEF CoordinatorOK, Inv, CoordinatorsInv, CommitTsOK
<1>7. Advances /\ CoordinatorsInv'
  <2>1. tso' >= tso
    BY SMTT(40) DEF TypeOK, Timestamp
  <2> QED
    BY <1>1, <1>2, <1>3, <1>5, <1>6, <2>1, OneCoordinator, ZenonT(40)
<1>8. CommitTsOK(t, ts)'
  <2>1. co'[t] = d
    BY <1>1, ZenonT(40) DEF TypeOK
  <2> QED
    BY <1>3, <1>4, <2>1, ZenonT(40) DEF CommitTsOK, Decided
<1>9. \A q \in sent' : q \in sent \/ RequestOK(q)'
  <2>1. \A K : RequestOK(CommitRequest(t, K, ts))'
    BY <1>8, ZenonT(40) DEF CommitRequest, Request, RequestOK
  <2>2. \A K : RequestOK(Request("rollback", t, K, 0, "none"))'
    BY ZenonT(40) DEF Request, RequestOK
  <2> QED
    BY <2>1, <2>2, ZenonT(40) DEF FinishCommit
<1> QED
  BY <1>7, <1>9, StepKeepsInv, ZenonT(40)

LEMMA SendLockOK ==
  ASSUME TypeOK, TypeOK', Inv, NEW t \in Txn, NEW c \in CoordinatorType, SendLock(t, c),
         tso' >= tso, CellsOK(cells'), ~Decided(t),
         c.startTs = co[t].startTs, c.commitTs = 0, c.step = "lock",
         c.maxForUpdateTs >= co[t].maxForUpdateTs, c.maxForUpdateTs <= tso'
  PROVE  Inv'
<1>1. PICK d \in CoordinatorType :
        /\ co' = [co EXCEPT ![t] = d]
        /\ d.startTs = c.startTs /\ d.maxForUpdateTs = c.maxForUpdateTs
        /\ d.commitTs = c.commitTs /\ d.state = c.state /\ d.step \in {"app", "lock"}
  <2>1. CASE c.todo = {}
    <3>1. [c EXCEPT !.step = "app"] \in CoordinatorType
      BY Words, ZenonT(40) DEF CoordinatorType
    <3> QED
      BY <2>1, <3>1, ZenonT(40) DEF SendLock, CoordinatorType
  <2>2. CASE c.todo # {}
    <3>1. FirstKey(c.todo) \in Key
      BY <2>2, FirstKeyInSet, ZenonT(40) DEF CoordinatorType
    <3>2. [c EXCEPT !.held = @ \cup {FirstKey(c.todo)}] \in CoordinatorType
      BY <3>1, ZenonT(40) DEF CoordinatorType
    <3> QED
      BY <2>2, <3>2, ZenonT(40) DEF SendLock, CoordinatorType
  <2> QED
    BY <2>1, <2>2, ZenonT(40)
<1>2. co[t].startTs \in Nat /\ co[t].startTs <= tso /\ tso \in Nat /\ tso' \in Nat
  BY ZenonT(40) DEF TypeOK, CoordinatorType, Timestamp, Inv, CoordinatorsInv, CoordinatorOK
<1>3. Follows(t, d)
  BY <1>1, ZenonT(40) DEF Follows
<1>4. CoordinatorOK(d, tso')
  BY <1>1, <1>2, SMTT(40) DEF CoordinatorOK
<1>5. Advances /\ CoordinatorsInv'
  BY <1>1, <1>3, <1>4, OneCoordinator, ZenonT(40)
<1>6. co'[t].maxForUpdateTs = c.maxForUpdateTs /\ c.maxForUpdateTs \in Nat
  BY <1>1, ZenonT(40) DEF TypeOK, CoordinatorType, Timestamp
<1>7. \A q \in sent' : q \in sent \/ RequestOK(q)'
  BY <1>6, SMTT(40) DEF SendLock, LockRequest, Request, RequestOK
<1> QED
  BY <1>5, <1>7, StepKeepsInv, ZenonT(40)

LEMMA SendResolveOK ==
  ASSUME TypeOK, TypeOK', Inv, NEW t \in Txn, NEW c \in CoordinatorType, SendResolve(t, c),
         tso' = tso, CellsOK(cells'),
         c.startTs = co[t].startTs, c.maxForUpdateTs = co[t].maxForUpdateTs,
         Decided(t) => c.commitTs # 0, c.commitTs # 0 => c.commitTs > c.startTs,
         c.commitTs # 0 => c.commitTs > c.maxForUpdateTs,
         c.state = "ResultUnknown", c.step = "resolve",
         c.decision = "Committed" => c.commitTs # 0
  PROVE  Inv'
<1>1. PICK d \in CoordinatorType :
        /\ co' = [co EXCEPT ![t] = d]
        /\ d.startTs = c.startTs /\ d.maxForUpdateTs = c.maxForUpdateTs
        /\ d.commitTs = c.commitTs /\ d.decision = c.decision
        /\ \/ d.state \in {"Finished", "ResultUnknown"} /\ d.step = "app"
           \/ d.state = "ResultUnknown" /\ d.step = "resolve"
  <2>1. CASE c.todo = {} /\ c.aggregate = "Ok"
    <3> DEFINE d == [c EXCEPT !.step = "app", !.state = "Finished", !.held = {},
                       !.outcome = IF c.decision = "Committed" THEN "committed" ELSE "aborted"]
    <3>1. d \in CoordinatorType
      BY Words, ZenonT(40) DEF CoordinatorType
    <3>2. /\ d.startTs = c.startTs /\ d.maxForUpdateTs = c.maxForUpdateTs
          /\ d.commitTs = c.commitTs /\ d.decision = c.decision
          /\ d.state = "Finished" /\ d.step = "app"
      BY ZenonT(40) DEF CoordinatorType
    <3>3. co' = [co EXCEPT ![t] = d]
      BY <2>1, ZenonT(40) DEF SendResolve
    <3> HIDE DEF d
    <3> QED
      BY <3>1, <3>2, <3>3, ZenonT(40)
  <2>2. CASE c.todo = {} /\ c.aggregate # "Ok"
    <3> DEFINE d == [c EXCEPT !.step = "app", !.outcome = "pending"]
    <3>1. d \in CoordinatorType
      BY Words, ZenonT(40) DEF CoordinatorType
    <3>2. /\ d.startTs = c.startTs /\ d.maxForUpdateTs = c.maxForUpdateTs
          /\ d.commitTs = c.commitTs /\ d.decision = c.decision
          /\ d.state = "ResultUnknown" /\ d.step = "app"
      BY ZenonT(40) DEF CoordinatorType
    <3>3. co' = [co EXCEPT ![t] = d]
      BY <2>2, ZenonT(40) DEF SendResolve
    <3> HIDE DEF d
    <3> QED
      BY <3>1, <3>2, <3>3, ZenonT(40)
  <2>3. CASE c.todo # {}
    BY <2>3, ZenonT(40) DEF SendResolve
  <2> QED
    BY <2>1, <2>2, <2>3, ZenonT(40)
<1>2. Follows(t, d)
  BY <1>1, SMTT(40) DEF Follows, TypeOK, CoordinatorType, Timestamp
<1>3. CoordinatorOK(d, tso')
  BY <1>1, ZenonT(40) DEF CoordinatorOK, Inv, CoordinatorsInv
<1>4. tso' >= tso
  BY SMTT(40) DEF TypeOK, Timestamp
<1>5. Advances /\ CoordinatorsInv'
  BY <1>1, <1>2, <1>3, <1>4, OneCoordinator, ZenonT(40)
<1>6. co'[t] = d
  BY <1>1, ZenonT(40) DEF TypeOK
<1>7. c.todo # {} => RequestOK(ResolveRequest(t, c))'
  BY <1>1, <1>6, ZenonT(40) DEF ResolveRequest, Request, RequestOK, CommitTsOK, Decided
<1>8. \A q \in sent' : q \in sent \/ RequestOK(q)'
  BY <1>7, ZenonT(40) DEF SendResolve
<1> QED
  BY <1>5, <1>8, StepKeepsInv, ZenonT(40)

(* A step of a coordinator that sends nothing and takes no timestamp. *)
LEMMA UpdateOK ==
  ASSUME TypeOK, TypeOK', Inv, NEW t \in Txn, NEW d, co' = [co EXCEPT ![t] = d],
         tso' = tso, sent' = sent, CellsOK(cells'),
         d.startTs = co[t].startTs, d.maxForUpdateTs = co[t].maxForUpdateTs,
         d.commitTs = co[t].commitTs, CoordinatorOK(d, tso)
  PROVE  Inv'
<1>1. d \in CoordinatorType /\ tso' >= tso
  BY SMTT(40) DEF TypeOK, Timestamp
<1>2. Follows(t, d)
  BY SMTT(40) DEF Follows, Decided, TypeOK, CoordinatorType, Timestamp
<1>3. Advances /\ CoordinatorsInv'
  BY <1>1, <1>2, OneCoordinator, ZenonT(40)
<1> QED
  BY <1>3, StepKeepsInv, ZenonT(40)

LEMMA CellsStayOK ==
  ASSUME Inv, cells' = cells
  PROVE  CellsOK(cells')
BY ZenonT(40) DEF Inv, CellsInv, CellsOK

-----------------------------------------------------------------------------
(* Every action keeps the invariant *)

LEMMA BeginKeepsInv ==
  ASSUME TypeOK, TypeOK', Inv, NEW t \in Txn, Begin(t)
  PROVE  Inv'
<1> DEFINE d == [co[t] EXCEPT !.step = "app", !.startTs = tso + 1]
<1>1. co[t] \in CoordinatorType /\ tso \in Nat /\ tso' = tso + 1 /\ sent' = sent /\ cells' = cells
  BY ZenonT(40) DEF TypeOK, Timestamp, Begin
<1>2. co' = [co EXCEPT ![t] = d]
  BY ZenonT(40) DEF Begin
<1>3. /\ d.startTs = tso + 1 /\ d.maxForUpdateTs = co[t].maxForUpdateTs
      /\ d.commitTs = co[t].commitTs /\ d.step = "app"
  BY <1>1, ZenonT(40) DEF CoordinatorType
<1> HIDE DEF d
<1>4. co'[t] = d /\ \A u \in Txn \ {t} : co'[u] = co[u]
  BY <1>2, ZenonT(40) DEF TypeOK
<1>5. \A u \in Txn : /\ co[u].startTs \in Nat /\ co[u].maxForUpdateTs \in Nat
                     /\ CoordinatorOK(co[u], tso)
  BY ZenonT(40) DEF TypeOK, CoordinatorType, Timestamp, Inv, CoordinatorsInv
<1>6. \A u \in Txn : co[u].startTs <= tso /\ co[u].maxForUpdateTs <= tso
  BY <1>5, ZenonT(40) DEF CoordinatorOK
<1>7. ~Decided(t)
  BY <1>5, ZenonT(40) DEF Begin, CoordinatorOK, Decided
<1>8. Advances
  <2>1. Follows(t, d) /\ \A u \in Txn : Follows(u, co[u])
    BY <1>3, <1>5, <1>7, SMTT(40) DEF Follows, Decided
  <2>2. tso' >= tso /\ d.startTs > tso
    BY <1>1, <1>3, SMTT(40)
  <2> QED
    BY <1>4, <1>7, <2>1, <2>2, ZenonT(40) DEF Advances
<1>9. \A u \in Txn : CoordinatorOK(co'[u], tso')
  <2>1. CoordinatorOK(d, tso')
    BY <1>1, <1>3, <1>5, <1>6, <1>7, SMTT(40) DEF CoordinatorOK, Decided
  <2>2. \A u \in Txn : CoordinatorOK(co[u], tso')
    BY <1>1, <1>5, SMTT(40) DEF CoordinatorOK
  <2> QED
    BY <1>4, <2>1, <2>2, ZenonT(40)
<1>10. \A u, v \in Txn : co'[u].startTs = co'[v].startTs /\ co'[u].startTs # 0 => u = v
  <2>1. \A u \in Txn \ {t} : co'[u].startTs # tso + 1
    BY <1>1, <1>4, <1>5, <1>6, SMTT(40)
  <2> QED
    BY <1>3, <1>4, <2>1, SMTT(40) DEF Inv, CoordinatorsInv
<1>11. CoordinatorsInv'
  BY <1>9, <1>10, ZenonT(40) DEF CoordinatorsInv
<1> QED
  BY <1>1, <1>8, <1>11, CellsStayOK, StepKeepsInv, ZenonT(40)

LEMMA CallsKeepInv ==
  ASSUME TypeOK, TypeOK', Inv, NEW t \in Txn,
         \/ Deadline(t) \/ Write(t) \/ \E k \in Key : Get(t, k)
         \/ AcquireKeys(t) \/ LockAcquired(t) \/ LockRefused(t) \/ LockUnknown(t)
  PROVE  Inv'
<1>0. co[t] \in CoordinatorType /\ CoordinatorOK(co[t], tso) /\ tso \in Nat
  BY ZenonT(40) DEF TypeOK, Timestamp, Inv, CoordinatorsInv
<1>1. CASE Deadline(t)
  <2> DEFINE d == [co[t] EXCEPT !.state = "AbortOnly", !.outcome = "aborted"]
  <2>1. /\ d.startTs = co[t].startTs /\ d.maxForUpdateTs = co[t].maxForUpdateTs
        /\ d.commitTs = co[t].commitTs /\ d.state = "AbortOnly" /\ d.step = co[t].step
    BY <1>0, ZenonT(40) DEF CoordinatorType
  <2>2. co' = [co EXCEPT ![t] = d] /\ tso' = tso /\ sent' = sent /\ cells' = cells
    BY <1>1, ZenonT(40) DEF Deadline
  <2> HIDE DEF d
  <2>3. CoordinatorOK(d, tso)
    BY <1>0, <1>1, <2>1, ZenonT(40) DEF CoordinatorOK, Deadline, CallingActive, Calling
  <2> QED
    BY <2>1, <2>2, <2>3, CellsStayOK, UpdateOK, ZenonT(40)
<1>2. CASE Write(t)
  <2> DEFINE d == [co[t] EXCEPT !.written = TRUE]
  <2>1. /\ d.startTs = co[t].startTs /\ d.maxForUpdateTs = co[t].maxForUpdateTs
        /\ d.commitTs = co[t].commitTs /\ d.state = co[t].state /\ d.step = co[t].step
        /\ d.decision = co[t].decision
    BY <1>0, ZenonT(40) DEF CoordinatorType
  <2>2. co' = [co EXCEPT ![t] = d] /\ tso' = tso /\ sent' = sent /\ cells' = cells
    BY <1>2, ZenonT(40) DEF Write
  <2> HIDE DEF d
  <2>3. CoordinatorOK(d, tso)
    BY <1>0, <2>1, ZenonT(40) DEF CoordinatorOK
  <2> QED
    BY <2>1, <2>2, <2>3, CellsStayOK, UpdateOK, ZenonT(40)
<1>3. ASSUME NEW k \in Key, Get(t, k) PROVE Inv'
  <2>1. co' = co /\ tso' = tso /\ sent' = sent /\ cells' = cells
    BY <1>3, ZenonT(40) DEF Get
  <2> QED
    BY <2>1, NoCoordinator, CellsStayOK, StepKeepsInv, ZenonT(40)
<1>4. CASE AcquireKeys(t)
  <2> DEFINE next == co[t].calls + 1
             todo == Workload[t].locks[next]
             c == [co[t] EXCEPT !.step = "lock", !.calls = next, !.todo = todo,
                                !.maxForUpdateTs = tso + 1]
  <2>1. next \in 1 .. Len(Workload[t].locks)
    BY <1>0, <1>4, WorkloadKeys, SMTT(40) DEF AcquireKeys, CoordinatorType, WorkloadType
  <2>2. todo \in SUBSET Key /\ next \in Nat /\ tso + 1 \in Nat
    BY <1>0, <2>1, WorkloadKeys, SMTT(40) DEF WorkloadType
  <2>3. SendLock(t, c) /\ tso' = tso + 1 /\ cells' = cells
    BY <1>4, ZenonT(40) DEF AcquireKeys
  <2> HIDE DEF next, todo
  <2>4. c \in CoordinatorType
    BY <1>0, <2>2, Words, ZenonT(40) DEF CoordinatorType, Timestamp
  <2>5. /\ c.startTs = co[t].startTs /\ c.maxForUpdateTs = tso + 1
        /\ c.commitTs = co[t].commitTs /\ c.step = "lock"
    BY <1>0, ZenonT(40) DEF CoordinatorType
  <2> HIDE DEF c
  <2>6. ~Decided(t)
    BY <1>0, <1>4, ZenonT(40) DEF AcquireKeys, CallingActive, Calling, CoordinatorOK, Decided
  <2>7. tso' >= tso /\ tso + 1 >= co[t].maxForUpdateTs /\ tso + 1 <= tso'
    BY <1>0, <2>3, SMTT(40) DEF CoordinatorOK, CoordinatorType, Timestamp
  <2> QED
    BY <2>3, <2>4, <2>5, <2>6, <2>7, CellsStayOK, SendLockOK, ZenonT(40) DEF Decided
<1>5. CASE LockAcquired(t)
  <2> DEFINE c == [co[t] EXCEPT !.todo = @ \ {FirstKey(co[t].todo)}]
  <2>1. c \in CoordinatorType
    BY <1>0, ZenonT(40) DEF CoordinatorType
  <2>2. /\ c.startTs = co[t].startTs /\ c.maxForUpdateTs = co[t].maxForUpdateTs
        /\ c.commitTs = co[t].commitTs /\ c.step = co[t].step
    BY <1>0, ZenonT(40) DEF CoordinatorType
  <2>3. SendLock(t, c) /\ tso' = tso /\ co[t].step = "lock" /\ CellsOK(cells')
    BY <1>5, AnswerOK, ZenonT(40) DEF LockAcquired
  <2> HIDE DEF c
  <2>4. ~Decided(t)
    BY <1>0, <2>3, ZenonT(40) DEF CoordinatorOK, Decided
  <2>5. /\ tso' >= tso /\ co[t].maxForUpdateTs >= co[t].maxForUpdateTs
        /\ co[t].maxForUpdateTs <= tso'
    BY <1>0, <2>3, SMTT(40) DEF CoordinatorOK, CoordinatorType, Timestamp
  <2> QED
    BY <2>1, <2>2, <2>3, <2>4, <2>5, SendLockOK, ZenonT(40) DEF Decided
<1>6. CASE LockRefused(t)
  <2> DEFINE k == FirstKey(co[t].todo)
             forgotten == IF StatusOn(LockRequest(t, co[t]), k) = "StorageError" THEN {} ELSE {k}
             b == [co[t] EXCEPT !.held = @ \ forgotten]
             c == AbortOnly(b)
  <2>1. Cleanup(t, c, "abort") /\ tso' = tso /\ co[t].step = "lock" /\ CellsOK(cells')
    BY <1>6, AnswerOK, ZenonT(40) DEF LockRefused
  <2> HIDE DEF forgotten
  <2>2. b \in CoordinatorType
    BY <1>0, ZenonT(40) DEF CoordinatorType
  <2>3. /\ b.startTs = co[t].startTs /\ b.maxForUpdateTs = co[t].maxForUpdateTs
        /\ b.commitTs = co[t].commitTs
    BY <1>0, ZenonT(40) DEF CoordinatorType
  <2> HIDE DEF b
  <2>4. c \in CoordinatorType
    BY <2>2, Words, ZenonT(40) DEF AbortOnly, CoordinatorType
  <2>5. /\ c.startTs = b.startTs /\ c.maxForUpdateTs = b.maxForUpdateTs
        /\ c.commitTs = b.commitTs
    BY <2>2, ZenonT(40) DEF AbortOnly, CoordinatorType
  <2> HIDE DEF c
  <2>6. ~Decided(t)
    BY <1>0, <2>1, ZenonT(40) DEF CoordinatorOK, Decided
  <2> QED
    BY <2>1, <2>3, <2>4, <2>5, <2>6, Words, CleanupOK, ZenonT(40) DEF Decided
<1>7. CASE LockUnknown(t)
  <2> DEFINE c == AbortOnly(co[t])
  <2>1. Cleanup(t, c, "abort") /\ tso' = tso /\ co[t].step = "lock" /\ cells' = cells
    BY <1>7, ZenonT(40) DEF LockUnknown, GiveUp
  <2>2. c \in CoordinatorType
    BY <1>0, Words, ZenonT(40) DEF AbortOnly, CoordinatorType
  <2>3. /\ c.startTs = co[t].startTs /\ c.maxForUpdateTs = co[t].maxForUpdateTs
        /\ c.commitTs = co[t].commitTs
    BY <1>0, ZenonT(40) DEF AbortOnly, CoordinatorType
  <2> HIDE DEF c
  <2>4. ~Decided(t)
    BY <1>0, <2>1, ZenonT(40) DEF CoordinatorOK, Decided
  <2> QED
    BY <2>1, <2>2, <2>3, <2>4, Words, CellsStayOK, CleanupOK, ZenonT(40) DEF Decided
<1> QED
  BY <1>1, <1>2, <1>3, <1>4, <1>5, <1>6, <1>7, ZenonT(40)

LEMMA CommitsKeepInv ==
  ASSUME TypeOK, TypeOK', Inv, NEW t \in Txn,
         \/ CommitLockOnly(t) \/ Prewrite(t) \/ PrewriteFailed(t) \/ CommitPrimary(t)
         \/ \E K \in SUBSET Key : PrewriteAnswered(t, K) \/ PrewriteUnknown(t, K)
         \/ PrimaryCommitted(t) \/ PrimaryUnclear(t)
         \/ QueryCommitted(t) \/ QueryRolledBack(t) \/ QueryRetry(t) \/ QueryExhausted(t)
  PROVE  Inv'
<1>0. co[t] \in CoordinatorType /\ CoordinatorOK(co[t], tso) /\ tso \in Nat
  BY ZenonT(40) DEF TypeOK, Timestamp, Inv, CoordinatorsInv
<1>a. ASSUME NEW c, c = AbortOnly(co[t])
      PROVE  /\ c \in CoordinatorType
             /\ c.startTs = co[t].startTs /\ c.maxForUpdateTs = co[t].maxForUpdateTs
             /\ c.commitTs = co[t].commitTs /\ c.state # "Active"
  BY <1>0, <1>a, Words, ZenonT(40) DEF AbortOnly, CoordinatorType
<1>b. ASSUME co[t].step \in {"commit", "query"} PROVE CommitTsOK(t, co[t].commitTs)
  BY <1>0, <1>b, ZenonT(40) DEF CoordinatorOK, CommitTsOK, Decided
<1>1. CASE CommitLockOnly(t)
  <2>1. Cleanup(t, co[t], "release") /\ tso' = tso /\ cells' = cells
    BY <1>1, ZenonT(40) DEF CommitLockOnly
  <2>2. ~Decided(t)
    BY <1>0, <1>1, ZenonT(40) DEF CommitLockOnly, CallingActive, Calling, CoordinatorOK, Decided
  <2> QED
    BY <1>0, <2>1, <2>2, Words, CellsStayOK, CleanupOK, ZenonT(40) DEF Decided
<1>2. CASE Prewrite(t)
  <2> DEFINE d == [co[t] EXCEPT !.step = "prewrite", !.todo = PrewriteKeys(t), !.aggregate = "Ok"]
  <2>1. /\ d.startTs = co[t].startTs /\ d.maxForUpdateTs = co[t].maxForUpdateTs
        /\ d.commitTs = co[t].commitTs /\ d.step = "prewrite"
    BY <1>0, ZenonT(40) DEF CoordinatorType
  <2>2. co' = [co EXCEPT ![t] = d] /\ tso' = tso /\ cells' = cells
    BY <1>2, ZenonT(40) DEF Prewrite
  <2> HIDE DEF d
  <2>3. CoordinatorOK(d, tso')
    BY <1>0, <1>2, <2>1, <2>2, ZenonT(40) DEF CoordinatorOK, Prewrite, CallingActive, Calling
  <2>4. Follows(t, d) /\ tso' >= tso
    BY <1>0, <2>1, <2>2, SMTT(40) DEF Follows, Decided, CoordinatorType, Timestamp
  <2>5. d \in CoordinatorType
    BY <2>2, ZenonT(40) DEF TypeOK
  <2>6. Advances /\ CoordinatorsInv'
    BY <2>1, <2>2, <2>3, <2>4, <2>5, OneCoordinator, ZenonT(40)
  <2>7. \A q \in sent' : q \in sent \/ RequestOK(q)'
    BY <1>2, SMTT(40) DEF Prewrite, PrewriteRequest, Request, RequestOK
  <2> QED
    BY <2>2, <2>6, <2>7, CellsStayOK, StepKeepsInv, ZenonT(40)
<1>3. CASE PrewriteFailed(t)
  <2>1. Cleanup(t, AbortOnly(co[t]), "abort") /\ tso' = tso /\ cells' = cells
    BY <1>3, ZenonT(40) DEF PrewriteFailed
  <2> QED
    BY <1>a, <2>1, Words, CellsStayOK, CleanupOK, ZenonT(40)
<1>4. CASE CommitPrimary(t)
  <2> DEFINE d == [co[t] EXCEPT !.step = "commit", !.commitTs = tso + 1]
  <2>1. /\ d.startTs = co[t].startTs /\ d.maxForUpdateTs = co[t].maxForUpdateTs
        /\ d.commitTs = tso + 1 /\ d.step = "commit"
    BY <1>0, ZenonT(40) DEF CoordinatorType
  <2>2. co' = [co EXCEPT ![t] = d] /\ tso' = tso + 1 /\ cells' = cells
    BY <1>4, ZenonT(40) DEF CommitPrimary
  <2> HIDE DEF d
  <2>3. /\ tso + 1 > co[t].startTs /\ tso + 1 > co[t].maxForUpdateTs /\ tso + 1 # 0
        /\ co[t].startTs <= tso + 1 /\ co[t].maxForUpdateTs <= tso + 1 /\ tso + 1 >= tso
    BY <1>0, SMTT(40) DEF CoordinatorOK, CoordinatorType, Timestamp
  <2>4. CoordinatorOK(d, tso')
    BY <2>1, <2>2, <2>3, ZenonT(40) DEF CoordinatorOK
  <2>5. Follows(t, d)
    BY <1>0, <2>1, <2>3, SMTT(40) DEF Follows, CoordinatorType, Timestamp
  <2>6. d \in CoordinatorType
    BY <2>2, ZenonT(40) DEF TypeOK
  <2>7. Advances /\ CoordinatorsInv'
    BY <2>1, <2>2, <2>3, <2>4, <2>5, <2>6, OneCoordinator, ZenonT(40)
  <2>8. co'[t] = d
    BY <2>2, ZenonT(40) DEF TypeOK
  <2>9. PICK ts \in Nat : ts = tso + 1
    BY <1>0, SMTT(40)
  <2>10. CommitTsOK(t, ts)'
    BY <2>1, <2>3, <2>8, <2>9, ZenonT(40) DEF CommitTsOK, Decided
  <2>11. RequestOK(CommitRequest(t, {Primary(t)}, ts))'
    BY <2>10, ZenonT(40) DEF CommitRequest, Request, RequestOK
  <2>12. \A q \in sent' : q \in sent \/ RequestOK(q)'
    BY <1>4, <2>9, <2>11, ZenonT(40) DEF CommitPrimary
  <2> QED
    BY <2>2, <2>7, <2>12, CellsStayOK, StepKeepsInv, ZenonT(40)
<1>5. ASSUME NEW K \in SUBSET Key, PrewriteAnswered(t, K) PROVE Inv'
  <2>1. PICK ok \in BOOLEAN :
          /\ Answer(PrewriteRequest(t, K), ok)
          /\ co' = [co EXCEPT ![t] = [co[t] EXCEPT !.todo = @ \ K,
                                        !.aggregate = IF ok THEN @ ELSE "Failed"]]
    BY <1>5, ZenonT(40) DEF PrewriteAnswered
  <2> DEFINE d == [co[t] EXCEPT !.todo = @ \ K, !.aggregate = IF ok THEN @ ELSE "Failed"]
  <2>2. /\ d.startTs = co[t].startTs /\ d.maxForUpdateTs = co[t].maxForUpdateTs
        /\ d.commitTs = co[t].commitTs /\ d.state = co[t].state /\ d.step = co[t].step
        /\ d.decision = co[t].decision
    BY <1>0, ZenonT(40) DEF CoordinatorType
  <2>3. co' = [co EXCEPT ![t] = d] /\ tso' = tso /\ sent' = sent /\ CellsOK(cells')
    BY <1>5, <2>1, AnswerOK, ZenonT(40) DEF PrewriteAnswered
  <2> HIDE DEF d
  <2>4. CoordinatorOK(d, tso)
    BY <1>0, <2>2, ZenonT(40) DEF CoordinatorOK
  <2> QED
    BY <2>2, <2>3, <2>4, UpdateOK, ZenonT(40)
<1>6. ASSUME NEW K \in SUBSET Key, PrewriteUnknown(t, K) PROVE Inv'
  <2> DEFINE d == [co[t] EXCEPT !.todo = @ \ K, !.aggregate = "Failed"]
  <2>1. /\ d.startTs = co[t].startTs /\ d.maxForUpdateTs = co[t].maxForUpdateTs
        /\ d.commitTs = co[t].commitTs /\ d.state = co[t].state /\ d.step = co[t].step
        /\ d.decision = co[t].decision
    BY <1>0, ZenonT(40) DEF CoordinatorType
  <2>2. co' = [co EXCEPT ![t] = d] /\ tso' = tso /\ sent' = sent /\ cells' = cells
    BY <1>6, ZenonT(40) DEF PrewriteUnknown, GiveUp
  <2> HIDE DEF d
  <2>3. CoordinatorOK(d, tso)
    BY <1>0, <2>1, ZenonT(40) DEF CoordinatorOK
  <2> QED
    BY <2>1, <2>2, <2>3, CellsStayOK, UpdateOK, ZenonT(40)
<1>7. CASE PrimaryCommitted(t)
  <2>1. FinishCommit(t, co[t].commitTs) /\ tso' = tso /\ CellsOK(cells')
    BY <1>7, AnswerOK, ZenonT(40) DEF PrimaryCommitted
  <2>2. CommitTsOK(t, co[t].commitTs) /\ co[t].commitTs \in Nat
    BY <1>0, <1>7, <1>b, ZenonT(40) DEF PrimaryCommitted, CoordinatorType, Timestamp
  <2> QED
    BY <2>1, <2>2, FinishCommitOK, ZenonT(40)
<1>8. CASE PrimaryUnclear(t)
  <2> DEFINE d == [co[t] EXCEPT !.step = "query"]
  <2>1. /\ d.startTs = co[t].startTs /\ d.maxForUpdateTs = co[t].maxForUpdateTs
        /\ d.commitTs = co[t].commitTs /\ d.state = co[t].state /\ d.step = "query"
    BY <1>0, ZenonT(40) DEF CoordinatorType
  <2>2. co' = [co EXCEPT ![t] = d] /\ tso' = tso /\ sent' = sent
    BY <1>8, ZenonT(40) DEF PrimaryUnclear
  <2>3. CellsOK(cells')
    BY <1>8, AnswerOK, CellsStayOK, ZenonT(40) DEF PrimaryUnclear, GiveUp
  <2> HIDE DEF d
  <2>4. CoordinatorOK(d, tso)
    BY <1>0, <1>8, <2>1, ZenonT(40) DEF CoordinatorOK, PrimaryUnclear
  <2> QED
    BY <2>1, <2>2, <2>3, <2>4, UpdateOK, ZenonT(40)
<1>9. CASE QueryCommitted(t)
  <2> DEFINE ts == CommitTsOf(cells[Primary(t)], co[t].startTs)
  <2>1. FinishCommit(t, ts) /\ tso' = tso /\ cells' = cells
    BY <1>9, ZenonT(40) DEF QueryCommitted
  <2>2. CommitOf(cells[Primary(t)], co[t].startTs)
    BY <1>9, ZenonT(40) DEF QueryCommitted, PrimaryState, InspectTxnStatus
  <2>3. CommitTsOK(t, ts) /\ ts \in Nat
    BY <2>2, CommitTsOfOK, CommitTsOfType, WorkloadKeys, ZenonT(40) DEF TypeOK
  <2> HIDE DEF ts
  <2> QED
    BY <2>1, <2>3, CellsStayOK, FinishCommitOK, ZenonT(40)
<1>10. CASE QueryRolledBack(t)
  <2>1. Cleanup(t, AbortOnly(co[t]), "abort") /\ tso' = tso /\ cells' = cells
    BY <1>10, ZenonT(40) DEF QueryRolledBack
  <2> QED
    BY <1>a, <2>1, Words, CellsStayOK, CleanupOK, ZenonT(40)
<1>11. CASE QueryRetry(t)
  <2> DEFINE d == [co[t] EXCEPT !.step = "commit"]
  <2>1. /\ d.startTs = co[t].startTs /\ d.maxForUpdateTs = co[t].maxForUpdateTs
        /\ d.commitTs = co[t].commitTs /\ d.step = "commit"
    BY <1>0, ZenonT(40) DEF CoordinatorType
  <2>2. co' = [co EXCEPT ![t] = d] /\ tso' = tso /\ cells' = cells
    BY <1>11, ZenonT(40) DEF QueryRetry
  <2> HIDE DEF d
  <2>3. CoordinatorOK(d, tso')
    BY <1>0, <1>11, <2>1, <2>2, ZenonT(40) DEF CoordinatorOK, QueryRetry
  <2>4. Follows(t, d) /\ tso' >= tso
    BY <1>0, <2>1, <2>2, SMTT(40) DEF Follows, Decided, CoordinatorType, Timestamp
  <2>5. d \in CoordinatorType /\ co'[t] = d
    BY <2>2, ZenonT(40) DEF TypeOK
  <2>6. Advances /\ CoordinatorsInv'
    BY <2>1, <2>2, <2>3, <2>4, <2>5, OneCoordinator, ZenonT(40)
  <2>7. PICK ts : ts = co[t].commitTs
    BY ZenonT(40)
  <2>8. CommitTsOK(t, ts)
    BY <1>11, <1>b, <2>7, ZenonT(40) DEF QueryRetry
  <2>9. CommitTsOK(t, ts)'
    BY <2>1, <2>5, <2>8, ZenonT(40) DEF CommitTsOK, Decided
  <2>10. RequestOK(CommitRequest(t, {Primary(t)}, ts))'
    BY <2>9, ZenonT(40) DEF CommitRequest, Request, RequestOK
  <2>11. \A q \in sent' : q \in sent \/ RequestOK(q)'
    BY <1>11, <2>7, <2>10, ZenonT(40) DEF QueryRetry
  <2> QED
    BY <2>2, <2>6, <2>11, CellsStayOK, StepKeepsInv, ZenonT(40)
<1>12. CASE QueryExhausted(t)
  <2> DEFINE d == [co[t] EXCEPT !.step = "app", !.state = "ResultUnknown", !.outcome = "unknown"]
  <2>1. /\ d.startTs = co[t].startTs /\ d.maxForUpdateTs = co[t].maxForUpdateTs
        /\ d.commitTs = co[t].commitTs /\ d.state = "ResultUnknown" /\ d.step = "app"
    BY <1>0, ZenonT(40) DEF CoordinatorType
  <2>2. co' = [co EXCEPT ![t] = d] /\ tso' = tso /\ sent' = sent /\ cells' = cells
    BY <1>12, ZenonT(40) DEF QueryExhausted
  <2> HIDE DEF d
  <2>3. CoordinatorOK(d, tso)
    BY <1>0, <2>1, ZenonT(40) DEF CoordinatorOK
  <2> QED
    BY <2>1, <2>2, <2>3, CellsStayOK, UpdateOK, ZenonT(40)
<1> QED
  BY <1>1, <1>2, <1>3, <1>4, <1>5, <1>6, <1>7, <1>8, <1>9, <1>10, <1>11, <1>12, ZenonT(40)

LEMMA CleanupsKeepInv ==
  ASSUME TypeOK, TypeOK', Inv, NEW t \in Txn,
         \/ \E K \in SUBSET Key : CleanupAnswered(t, K) \/ CleanupUnknown(t, K)
         \/ CleanupDone(t) \/ Rollback(t)
         \/ RollbackUnknownResult(t) \/ ResolveAnswered(t) \/ ResolveUnknown(t)
  PROVE  Inv'
<1>0. co[t] \in CoordinatorType /\ CoordinatorOK(co[t], tso) /\ tso \in Nat
  BY ZenonT(40) DEF TypeOK, Timestamp, Inv, CoordinatorsInv
<1>1. ASSUME NEW K \in SUBSET Key, CleanupAnswered(t, K) PROVE Inv'
  <2>1. PICK ok \in BOOLEAN :
          /\ Answer(CleanupRequest(t, K), ok)
          /\ co' = [co EXCEPT ![t] = [co[t] EXCEPT !.todo = @ \ K,
                                        !.held = IF ok THEN @ \ K ELSE @,
                                        !.aggregate = IF ok THEN @ ELSE "AlreadyCommitted"]]
    BY <1>1, ZenonT(40) DEF CleanupAnswered
  <2> DEFINE d == [co[t] EXCEPT !.todo = @ \ K, !.held = IF ok THEN @ \ K ELSE @,
                                !.aggregate = IF ok THEN @ ELSE "AlreadyCommitted"]
  <2>2. /\ d.startTs = co[t].startTs /\ d.maxForUpdateTs = co[t].maxForUpdateTs
        /\ d.commitTs = co[t].commitTs /\ d.state = co[t].state /\ d.step = co[t].step
        /\ d.decision = co[t].decision
    BY <1>0, ZenonT(40) DEF CoordinatorType
  <2>3. co' = [co EXCEPT ![t] = d] /\ tso' = tso /\ sent' = sent /\ CellsOK(cells')
    BY <1>1, <2>1, AnswerOK, ZenonT(40) DEF CleanupAnswered
  <2> HIDE DEF d
  <2>4. CoordinatorOK(d, tso)
    BY <1>0, <2>2, ZenonT(40) DEF CoordinatorOK
  <2> QED
    BY <2>2, <2>3, <2>4, UpdateOK, ZenonT(40)
<1>2. ASSUME NEW K \in SUBSET Key, CleanupUnknown(t, K) PROVE Inv'
  <2> DEFINE d == [co[t] EXCEPT !.todo = @ \ K, !.aggregate = "CleanupPending"]
  <2>1. /\ d.startTs = co[t].startTs /\ d.maxForUpdateTs = co[t].maxForUpdateTs
        /\ d.commitTs = co[t].commitTs /\ d.state = co[t].state /\ d.step = co[t].step
        /\ d.decision = co[t].decision
    BY <1>0, ZenonT(40) DEF CoordinatorType
  <2>2. co' = [co EXCEPT ![t] = d] /\ tso' = tso /\ sent' = sent /\ cells' = cells
    BY <1>2, ZenonT(40) DEF CleanupUnknown, GiveUp
  <2> HIDE DEF d
  <2>3. CoordinatorOK(d, tso)
    BY <1>0, <2>1, ZenonT(40) DEF CoordinatorOK
  <2> QED
    BY <2>1, <2>2, <2>3, CellsStayOK, UpdateOK, ZenonT(40)
<1>3. CASE CleanupDone(t)
  <2> DEFINE c == [co[t] EXCEPT !.step = "app", !.why = "none", !.aggregate = "Ok"]
             R(d) == /\ d.startTs = co[t].startTs /\ d.maxForUpdateTs = co[t].maxForUpdateTs
                     /\ d.commitTs = co[t].commitTs /\ d.step = "app"
                     /\ d.state = co[t].state \/ d.state \in {"Finished", "CleanupPending"}
  <2>1. c \in CoordinatorType /\ R(c)
    BY <1>0, Words, ZenonT(40) DEF CoordinatorType
  <2>2. /\ R([c EXCEPT !.held = {}, !.outcome = "aborted"])
        /\ R([c EXCEPT !.held = {}, !.state = "Finished", !.outcome = "released"])
        /\ R([c EXCEPT !.held = {}, !.state = "Finished", !.outcome = "aborted"])
        /\ R([c EXCEPT !.state = "Finished", !.outcome = "committed"])
        /\ R([c EXCEPT !.state = "CleanupPending", !.outcome = "pending"])
    <3> HIDE DEF c
    <3> QED
      BY <2>1, ZenonT(40) DEF CoordinatorType
  <2>3. PICK d : co' = [co EXCEPT ![t] = d] /\ R(d)
    <3> HIDE DEF c, R
    <3> QED
      BY <1>3, <2>2, ZenonT(40) DEF CleanupDone, c
  <2>4. CoordinatorOK(d, tso)
    BY <1>0, <1>3, <2>3, ZenonT(40) DEF CoordinatorOK, CleanupDone
  <2>5. tso' = tso /\ sent' = sent /\ cells' = cells
    BY <1>3, ZenonT(40) DEF CleanupDone
  <2> QED
    BY <2>3, <2>4, <2>5, CellsStayOK, UpdateOK, ZenonT(40)
<1>4. CASE Rollback(t)
  <2>1. Cleanup(t, co[t], "rollback") /\ tso' = tso /\ cells' = cells
    BY <1>4, ZenonT(40) DEF Rollback
  <2>2. co[t].commitTs # 0 => co[t].state # "Active"
    BY <1>0, <1>4, ZenonT(40) DEF Rollback, Calling, CoordinatorOK
  <2> QED
    BY <1>0, <2>1, <2>2, Words, CellsStayOK, CleanupOK, ZenonT(40)
<1>5. CASE RollbackUnknownResult(t)
  <2> DEFINE committed == PrimaryState(t) = "Committed"
             ts == CommitTsOf(cells[Primary(t)], co[t].startTs)
             keys == CleanupKeys(co[t], t)
             c == [co[t] EXCEPT !.step = "resolve", !.todo = keys, !.aggregate = "Ok",
                     !.decision = IF committed THEN "Committed" ELSE "RolledBack",
                     !.commitTs = IF committed THEN ts ELSE @]
  <2>1. SendResolve(t, c) /\ tso' = tso /\ cells' = cells /\ co[t].state = "ResultUnknown"
    BY <1>5, ZenonT(40) DEF RollbackUnknownResult
  <2>2. ts \in Nat /\ keys \in SUBSET Key
    BY <1>0, WorkloadKeys, CommitTsOfType, ZenonT(40) DEF TypeOK
  <2>3. committed => CommitTsOK(t, ts)
    BY CommitTsOfOK, WorkloadKeys, ZenonT(40) DEF PrimaryState, InspectTxnStatus
  <2> HIDE DEF committed, ts, keys
  <2>4. c \in CoordinatorType
    BY <1>0, <2>2, Words, ZenonT(40) DEF CoordinatorType, Timestamp
  <2>5. /\ c.startTs = co[t].startTs /\ c.maxForUpdateTs = co[t].maxForUpdateTs
        /\ c.commitTs = (IF committed THEN ts ELSE co[t].commitTs)
        /\ c.state = co[t].state /\ c.step = "resolve"
        /\ c.decision = IF committed THEN "Committed" ELSE "RolledBack"
    BY <1>0, ZenonT(40) DEF CoordinatorType
  <2> HIDE DEF c
  <2>6. co[t].startTs \in Nat
    BY <1>0, ZenonT(40) DEF CoordinatorType, Timestamp
  <2>7. /\ committed => ts # 0 /\ ts > co[t].startTs /\ ts > co[t].maxForUpdateTs
        /\ co[t].commitTs # 0 => /\ co[t].commitTs > co[t].startTs
                                 /\ co[t].commitTs > co[t].maxForUpdateTs
    <3>1. ASSUME committed PROVE ts > co[t].startTs /\ ts > co[t].maxForUpdateTs
      BY <2>3, <3>1, ZenonT(40) DEF CommitTsOK
    <3>2. ts > co[t].startTs => ts # 0
      BY <2>2, <2>6, SMTT(40)
    <3>3. co[t].commitTs # 0 => /\ co[t].commitTs > co[t].startTs
                                /\ co[t].commitTs > co[t].maxForUpdateTs
      BY <1>0, ZenonT(40) DEF CoordinatorOK
    <3> QED
      BY <3>1, <3>2, <3>3, ZenonT(40)
  <2>8. /\ Decided(t) => c.commitTs # 0
        /\ c.commitTs # 0 => c.commitTs > c.startTs /\ c.commitTs > c.maxForUpdateTs
        /\ c.decision = "Committed" => c.commitTs # 0
    BY <2>5, <2>7, ZenonT(40) DEF Decided
  <2> QED
    BY <2>1, <2>4, <2>5, <2>8, CellsStayOK, SendResolveOK, ZenonT(40)
<1>6. ASSUME NEW agg \in AggregateType, co[t].step = "resolve", tso' = tso, CellsOK(cells'),
             SendResolve(t, [co[t] EXCEPT !.todo = @ \ {FirstKey(@)}, !.aggregate = agg])
      PROVE  Inv'
  <2> DEFINE c == [co[t] EXCEPT !.todo = @ \ {FirstKey(@)}, !.aggregate = agg]
  <2>1. c \in CoordinatorType
    BY <1>0, ZenonT(40) DEF CoordinatorType
  <2>2. /\ c.startTs = co[t].startTs /\ c.maxForUpdateTs = co[t].maxForUpdateTs
        /\ c.commitTs = co[t].commitTs /\ c.state = co[t].state /\ c.step = co[t].step
        /\ c.decision = co[t].decision
    BY <1>0, ZenonT(40) DEF CoordinatorType
  <2>3. SendResolve(t, c)
    BY <1>6, ZenonT(40)
  <2> HIDE DEF c
  <2>4. /\ c.state = "ResultUnknown"
        /\ Decided(t) => c.commitTs # 0
        /\ c.commitTs # 0 => c.commitTs > c.startTs /\ c.commitTs > c.maxForUpdateTs
        /\ c.decision = "Committed" => c.commitTs # 0
    BY <1>0, <1>6, <2>2, ZenonT(40) DEF CoordinatorOK, Decided
  <2> QED
    BY <1>6, <2>1, <2>2, <2>3, <2>4, SendResolveOK, ZenonT(40)
<1>7. CASE ResolveAnswered(t)
  <2>1. PICK ok \in BOOLEAN :
          /\ Answer(ResolveRequest(t, co[t]), ok)
          /\ SendResolve(t, [co[t] EXCEPT !.todo = @ \ {FirstKey(@)},
                                          !.aggregate = IF ok THEN @ ELSE "CleanupPending"])
    BY <1>7, ZenonT(40) DEF ResolveAnswered
  <2> DEFINE agg == IF ok THEN co[t].aggregate ELSE "CleanupPending"
  <2>2. agg \in AggregateType
    BY <1>0, Words, ZenonT(40) DEF CoordinatorType
  <2>3. SendResolve(t, [co[t] EXCEPT !.todo = @ \ {FirstKey(@)}, !.aggregate = agg])
    <3>1. [co[t] EXCEPT !.todo = @ \ {FirstKey(@)}, !.aggregate = IF ok THEN @ ELSE "CleanupPending"]
          = [co[t] EXCEPT !.todo = @ \ {FirstKey(@)}, !.aggregate = agg]
      BY <1>0, ZenonT(40) DEF CoordinatorType
    <3> QED
      BY <2>1, <3>1, ZenonT(40)
  <2>4. co[t].step = "resolve" /\ tso' = tso /\ CellsOK(cells')
    BY <1>7, <2>1, AnswerOK, ZenonT(40) DEF ResolveAnswered
  <2> HIDE DEF agg
  <2> QED
    BY <1>6, <2>2, <2>3, <2>4, ZenonT(40)
<1>8. CASE ResolveUnknown(t)
  BY <1>6, <1>8, Words, CellsStayOK, ZenonT(40) DEF ResolveUnknown, GiveUp
<1> QED
  BY <1>1, <1>2, <1>3, <1>4, <1>5, <1>7, <1>8, ZenonT(40)

LEMMA NodesKeepInv ==
  ASSUME TypeOK, TypeOK', Inv, NodeNext
  PROVE  Inv'
<1>0. \A k \in Key : cells[k] \in CellType /\ CellOK(cells[k]) /\ \A w \in cells[k].writes : RecordOK(w)
  BY ZenonT(40) DEF TypeOK, Inv, CellsInv
<1>1. ASSUME NEW q \in sent, Execute(q) PROVE Inv'
  <2>1. CellsOK(cells')
    BY <1>1, ExecutedOK, ZenonT(40) DEF Execute, TypeOK, Inv, RequestsInv
  <2> QED
    BY <1>1, <2>1, NoCoordinator, StepKeepsInv, ZenonT(40) DEF Execute
<1>2. ASSUME NEW k \in Key, Expire(k) PROVE Inv'
  <2> DEFINE c == [cells[k] EXCEPT !.lock.expired = TRUE]
  <2>1. c.writes = cells[k].writes /\ c.lock.startTs = cells[k].lock.startTs
    BY <1>0, ZenonT(40) DEF CellType, LockType
  <2>2. cells' = [cells EXCEPT ![k] = c] /\ co' = co /\ tso' = tso /\ sent' = sent
    BY <1>2, ZenonT(40) DEF Expire
  <2> HIDE DEF c
  <2>3. CellOK(c)
    BY <1>0, <2>1, ZenonT(40) DEF CellOK, OneRecord, OwnerUndecided, HasLock
  <2>4. CellsOK(cells')
    BY <1>0, <2>1, <2>2, <2>3, ZenonT(40) DEF CellsOK, TypeOK
  <2> QED
    BY <2>2, <2>4, NoCoordinator, StepKeepsInv, ZenonT(40)
<1>3. ASSUME NEW k \in Key, NEW t \in Txn, RecoverPrimary(k, t) PROVE Inv'
  <2> DEFINE q == RecoveryRequest(t, k, "RolledBack", 0)
  <2>1. q \in RequestType /\ RequestOK(q)
    BY RequestIsTyped, Words, ZenonT(40) DEF RecoveryRequest, Request, RequestOK
  <2>2. cells' = Executed(q) /\ co' = co /\ tso' = tso /\ sent' = sent
    BY <1>3, ZenonT(40) DEF RecoverPrimary
  <2> HIDE DEF q
  <2> QED
    BY <2>1, <2>2, ExecutedOK, NoCoordinator, StepKeepsInv, ZenonT(40)
<1>4. ASSUME NEW k \in Key, NEW t \in Txn, RecoverSecondary(k, t) PROVE Inv'
  <2> DEFINE p == Primary(t)
             s == co[t].startTs
             state == CheckTxnStatus(cells[p], s)
             q == RecoveryRequest(t, k, state, CommitTsOf(cells[p], s))
             c == CheckTxnStatusApply(cells[p], s)
  <2>1. p \in Key /\ s \in Nat
    BY WorkloadKeys, ZenonT(40) DEF TypeOK, CoordinatorType, Timestamp
  <2>2. /\ cells' = [cells EXCEPT ![p] = c] /\ sent' = sent \cup {q}
        /\ co' = co /\ tso' = tso
    BY <1>4, ZenonT(40) DEF RecoverSecondary
  <2>3. CellOK(c) /\ \A w \in c.writes : RecordOK(w)
    <3>1. CASE MustExpire(cells[p], s)
      <4>1. RollbackStatus(cells[p], s) = "Ok"
        BY <3>1, ZenonT(40) DEF MustExpire, InspectTxnStatus, RollbackStatus
      <4> QED
        BY <2>1, <3>1, <4>1, RollbackOK, ZenonT(40) DEF CheckTxnStatusApply
    <3>2. CASE ~MustExpire(cells[p], s)
      BY <1>0, <2>1, <3>2, ZenonT(40) DEF CheckTxnStatusApply
    <3> QED
      BY <3>1, <3>2, ZenonT(40)
  <2>4. state = "Committed" => CommitTsOK(t, CommitTsOf(cells[p], s))
    <3>1. state = "Committed" => CommitOf(cells[p], s)
      BY ZenonT(40) DEF CheckTxnStatus, InspectTxnStatus
    <3> QED
      BY <2>1, <3>1, CommitTsOfOK, ZenonT(40)
  <2>5. RequestOK(q)
    BY <2>4, ZenonT(40) DEF RecoveryRequest, Request, RequestOK
  <2>6. q \in RequestType
    BY <2>2, ZenonT(40) DEF TypeOK
  <2> HIDE DEF c, q, p, s
  <2>7. CellsOK(cells')
    BY <1>0, <2>1, <2>2, <2>3, ZenonT(40) DEF CellsOK, TypeOK
  <2>8. Advances /\ CoordinatorsInv'
    BY <2>2, NoCoordinator, ZenonT(40)
  <2>9. \A r \in sent' : r \in sent \/ RequestOK(r)'
    BY <2>2, <2>5, <2>6, <2>8, RequestsStayOK, ZenonT(40)
  <2> QED
    BY <2>7, <2>8, <2>9, StepKeepsInv, ZenonT(40)
<1>5. ASSUME NEW R, NEW ts \in SafePoints, AdvanceGc(R, ts) PROVE Inv'
  <2>1. ts \in Nat
    BY GcAssumption, ZenonT(40)
  <2>2. \A k \in Key : /\ CellOK(GarbageCollect(cells[k], ts))
                       /\ GarbageCollect(cells[k], ts).writes \subseteq cells[k].writes
    BY <1>0, <2>1, GarbageCollectKeepsCell, GarbageCollectType, ZenonT(40)
  <2>3. CellsOK(cells')
    BY <1>0, <1>5, <2>2, ZenonT(40) DEF AdvanceGc, CellsOK
  <2>4. tso' = tso /\ sent' \subseteq sent
    BY <1>5, ZenonT(40) DEF AdvanceGc
  <2>5. \A t \in Txn :
          /\ co'[t].startTs = co[t].startTs /\ co'[t].maxForUpdateTs = co[t].maxForUpdateTs
          /\ co'[t].commitTs = co[t].commitTs /\ co'[t].state = co[t].state
          /\ co'[t].decision = co[t].decision
          /\ co'[t].step = co[t].step \/ co'[t].step = "crashed"
    <3>1. \A t \in Txn : co'[t] = co[t] \/ co'[t] = [co[t] EXCEPT !.step = "crashed"]
      BY <1>5, ZenonT(40) DEF AdvanceGc
    <3> QED
      BY <3>1, SMTT(40) DEF TypeOK, CoordinatorType
  <2>6. Advances
    BY <2>4, <2>5, SMTT(40) DEF Advances, Follows, Decided, TypeOK, CoordinatorType, Timestamp
  <2>7. CoordinatorsInv'
    <3>1. \A t \in Txn : CoordinatorOK(co'[t], tso')
      BY <2>4, <2>5, SMTT(40) DEF Inv, CoordinatorsInv, CoordinatorOK
    <3>2. \A t, u \in Txn : co'[t].startTs = co'[u].startTs /\ co'[t].startTs # 0 => t = u
      BY <2>5, SMTT(40) DEF Inv, CoordinatorsInv
    <3> QED
      BY <3>1, <3>2, ZenonT(40) DEF CoordinatorsInv
  <2> QED
    BY <2>3, <2>4, <2>6, <2>7, StepKeepsInv, ZenonT(40)
<1> QED
  BY <1>1, <1>2, <1>3, <1>4, <1>5, ZenonT(40) DEF NodeNext

LEMMA InvInit == Init => Inv
<1> SUFFICES ASSUME Init PROVE Inv
  BY ZenonT(40)
<1>1. CellsInv
  BY ZenonT(40) DEF Init, CellsInv, CellOK, OneRecord, OwnerUndecided, EmptyCell, HasLock, NoLock
<1>2. RequestsInv
  BY ZenonT(40) DEF Init, RequestsInv
<1>3. CoordinatorsInv
  BY SMTT(40) DEF Init, CoordinatorsInv, CoordinatorOK, Coordinator0
<1> QED
  BY <1>1, <1>2, <1>3, ZenonT(40) DEF Inv

LEMMA InvStep == TypeOK /\ TypeOK' /\ Inv /\ [Next]_vars => Inv'
<1> SUFFICES ASSUME TypeOK, TypeOK', Inv, [Next]_vars PROVE Inv'
  BY ZenonT(40)
<1>1. ASSUME NEW t \in Txn, TxnNext(t) PROVE Inv'
  BY <1>1, BeginKeepsInv, CallsKeepInv, CommitsKeepInv, CleanupsKeepInv, ZenonT(40) DEF TxnNext
<1>2. CASE NodeNext
  BY <1>2, NodesKeepInv, ZenonT(40)
<1>3. CASE UNCHANGED vars
  <2>1. cells' = cells /\ co' = co /\ tso' = tso /\ sent' = sent
    BY <1>3, ZenonT(40) DEF vars
  <2> QED
    BY <2>1, NoCoordinator, CellsStayOK, StepKeepsInv, ZenonT(40)
<1> QED
  BY <1>1, <1>2, <1>3, ZenonT(40) DEF Next

(***************************************************************************)
(* The invariant the safety theorems below follow from.                    *)
(***************************************************************************)
THEOREM Invariance == Spec => []Inv
<1>1. Spec => []TypeOK
  BY TypeCorrect, ZenonT(40)
<1>2. Init => Inv
  BY InvInit, ZenonT(40)
<1>3. TypeOK /\ TypeOK' /\ Inv /\ [Next]_vars => Inv'
  BY InvStep, ZenonT(40)
<1> QED
  BY <1>1, <1>2, <1>3, PTL DEF Spec

-----------------------------------------------------------------------------
(* The theorems *)

(***************************************************************************)
(* A key has one outcome per transaction, whatever late, repeated or       *)
(* racing Commit, Rollback and ResolveLock requests PrepareCommit and      *)
(* PrepareRollback see.                                                    *)
(***************************************************************************)
THEOREM OneOutcome == Spec => []OneOutcomePerKey
<1>1. Inv => OneOutcomePerKey
  BY ZenonT(40) DEF Inv, CellsInv, CellOK, OneRecord, OneOutcomePerKey
<1> QED
  BY <1>1, Invariance, PTL

(***************************************************************************)
(* RecoverMetadata of a restarted store drops no lock: it drops those with *)
(* a record of their transaction, and there are none.                      *)
(***************************************************************************)
THEOREM RestartIsLossless == Spec => []RestartLosesNothing
<1>1. Inv => RestartLosesNothing
  BY ZenonT(40) DEF Inv, CellsInv, CellOK, OwnerUndecided, RestartLosesNothing, RecoverMetadata
<1> QED
  BY <1>1, Invariance, PTL

(***************************************************************************)
(* Every commit record of a transaction, be it written by its coordinator, *)
(* by its Rollback after an unknown result or by the nodes' recovery, is   *)
(* above its start timestamp and above all its forUpdate timestamps.       *)
(***************************************************************************)
THEOREM CommitAboveLocks == Spec => []CommitsAfterLocks
<1>1. Inv => CommitsAfterLocks
  <2> SUFFICES ASSUME Inv, NEW t \in Txn, NEW k \in Key, NEW w \in cells[k].writes,
                      w.startTs = co[t].startTs, w.type # "Rollback"
               PROVE  w.commitTs > co[t].startTs /\ w.commitTs > co[t].maxForUpdateTs
    BY ZenonT(40) DEF CommitsAfterLocks
  <2> QED
    BY ZenonT(40) DEF Inv, CellsInv, RecordOK, CommitTsOK
<1> QED
  BY <1>1, Invariance, PTL

(* What LocksOnlyAdvance asks of one cell. *)
LockAdvances(c, d) ==
  HasLock(c) /\ d.lock.startTs = c.lock.startTs
    => d.lock.forUpdateTs >= c.lock.forUpdateTs /\ (IsPessimistic(d) => IsPessimistic(c))

LEMMA SameLockAdvances ==
  ASSUME NEW c \in CellType, NEW d, d.lock = c.lock \/ d.lock = NoLock
  PROVE  LockAdvances(c, d)
BY SMTT(40) DEF LockAdvances, HasLock, IsPessimistic, NoLock, CellType, LockType, Timestamp

LEMMA RollbackAdvances ==
  ASSUME NEW c \in CellType, NEW s
  PROVE  LockAdvances(c, RollbackApply(c, s))
BY SameLockAdvances, SMTT(40) DEF RollbackApply

LEMMA CommitAdvances ==
  ASSUME NEW c \in CellType, NEW s, NEW u
  PROVE  LockAdvances(c, CommitApply(c, s, u))
<1>1. CommitApply(c, s, u).lock = NoLock
  BY ZenonT(40) DEF CommitApply, CellType
<1> QED
  BY <1>1, SameLockAdvances, ZenonT(40)

LEMMA ApplyOnAdvances ==
  ASSUME TypeOK, NEW q \in RequestType, NEW k \in Key
  PROVE  LockAdvances(cells[k], ApplyOn(q, k))
<1> DEFINE c == cells[k]
           s == co[q.txn].startTs
           p == Primary(q.txn)
<1>1. q.op \in {"lock", "prewrite", "commit", "rollback", "resolve"} /\ q.ts \in Nat
  BY ZenonT(40) DEF RequestType, OpType, Timestamp
<1>2. c \in CellType /\ c.lock.forUpdateTs \in Nat
  BY ZenonT(40) DEF TypeOK, CellType, LockType, Timestamp
<1>3. LockAdvances(c, c)
  BY <1>2, SameLockAdvances, ZenonT(40)
<1>4. CASE q.op = "lock"
  <2> DEFINE d == PessimisticLockApply(c, p, s, q.ts)
  <2>1. ApplyOn(q, k) = d
    BY <1>4, ZenonT(40) DEF ApplyOn
  <2>2. HasLock(c) => d.lock.forUpdateTs >= c.lock.forUpdateTs /\ d.lock.kind = c.lock.kind
    BY <1>1, <1>2, MaxTsType, ZenonT(40) DEF PessimisticLockApply, CellType, LockType
  <2> HIDE DEF d
  <2> QED
    BY <2>1, <2>2, ZenonT(40) DEF LockAdvances, IsPessimistic
<1>5. CASE q.op = "prewrite"
  <2>1. CASE k \in Mutations(q.txn)
    <3> DEFINE del == k \in Workload[q.txn].deletes
               d == PrewriteApply(c, p, s, q.ts, del)
    <3>1. ApplyOn(q, k) = d
      BY <1>5, <2>1, ZenonT(40) DEF ApplyOn
    <3>2. HasLock(c) => d = c \/ (/\ d.lock.forUpdateTs = c.lock.forUpdateTs
                                  /\ d.lock.kind # "pessimistic")
      <4> HIDE DEF del
      <4> QED
        BY <1>2, ZenonT(40) DEF PrewriteApply, CellType, LockType
    <3> HIDE DEF d
    <3> QED
      BY <1>2, <1>3, <3>1, <3>2, ZenonT(40) DEF LockAdvances, IsPessimistic
  <2>2. CASE k \notin Mutations(q.txn)
    <3> DEFINE d == PrewriteLockApply(c)
    <3>1. ApplyOn(q, k) = d
      BY <1>5, <2>2, ZenonT(40) DEF ApplyOn
    <3>2. d.lock.forUpdateTs = c.lock.forUpdateTs /\ d.lock.kind = "lockOnly"
      BY <1>2, ZenonT(40) DEF PrewriteLockApply, CellType, LockType
    <3> HIDE DEF d
    <3> QED
      BY <1>2, <3>1, <3>2, SMTT(40) DEF LockAdvances, IsPessimistic
  <2> QED
    BY <2>1, <2>2, ZenonT(40)
<1>6. CASE q.op = "commit"
  BY <1>2, <1>3, <1>6, CommitAdvances, ZenonT(40) DEF ApplyOn
<1>7. CASE q.op = "rollback"
  BY <1>2, <1>7, RollbackAdvances, ZenonT(40) DEF ApplyOn
<1>8. CASE q.op = "resolve"
  BY <1>2, <1>3, <1>8, CommitAdvances, RollbackAdvances, ZenonT(40) DEF ApplyOn, ResolveLockApply
<1> QED
  BY <1>1, <1>4, <1>5, <1>6, <1>7, <1>8, ZenonT(40)

LEMMA ExecutedAdvances ==
  ASSUME TypeOK, NEW q \in RequestType
  PROVE  \A k \in Key : LockAdvances(cells[k], Executed(q)[k])
<1>1. \A k \in Key : LockAdvances(cells[k], cells[k])
  BY SameLockAdvances, ZenonT(40) DEF TypeOK
<1> QED
  BY <1>1, ApplyOnAdvances, ZenonT(40) DEF Executed

LEMMA CellsAdvance ==
  ASSUME TypeOK, [Next]_vars
  PROVE  \A k \in Key : LockAdvances(cells[k], cells'[k])
<1>1. CASE cells' = cells
  BY <1>1, SameLockAdvances, ZenonT(40) DEF TypeOK
<1>2. ASSUME NEW q \in RequestType, cells' = Executed(q)
      PROVE  \A k \in Key : LockAdvances(cells[k], cells'[k])
  BY <1>2, ExecutedAdvances, ZenonT(40)
<1>3. ASSUME NEW t \in Txn, TxnNext(t), cells' # cells
      PROVE  \E q \in sent : cells' = Executed(q)
  BY <1>3, ZenonT(40) DEF TxnNext, Begin, Deadline, Write, Get, AcquireKeys, LockAcquired, LockRefused,
       LockUnknown, CommitLockOnly, Prewrite, PrewriteFailed, CommitPrimary, PrewriteAnswered,
       PrewriteUnknown, PrimaryCommitted, PrimaryUnclear, QueryCommitted, QueryRolledBack,
       QueryRetry, QueryExhausted, CleanupAnswered, CleanupUnknown, CleanupDone, Rollback,
       RollbackUnknownResult, ResolveAnswered, ResolveUnknown, Answer, GiveUp
<1>4. ASSUME NEW q \in sent, Execute(q) PROVE \A k \in Key : LockAdvances(cells[k], cells'[k])
  BY <1>2, <1>4, ZenonT(40) DEF Execute, TypeOK
<1>5. ASSUME NEW j \in Key, Expire(j) PROVE \A k \in Key : LockAdvances(cells[k], cells'[k])
  <2> DEFINE d == [cells[j] EXCEPT !.lock.expired = TRUE]
  <2>1. cells[j] \in CellType /\ cells' = [cells EXCEPT ![j] = d]
    BY <1>5, ZenonT(40) DEF Expire, TypeOK
  <2>2. d.lock.forUpdateTs = cells[j].lock.forUpdateTs /\ d.lock.kind = cells[j].lock.kind
    BY <2>1, ZenonT(40) DEF CellType, LockType
  <2>3. cells[j].lock.forUpdateTs \in Nat
    BY <2>1, ZenonT(40) DEF CellType, LockType, Timestamp
  <2> HIDE DEF d
  <2>4. LockAdvances(cells[j], d)
    BY <2>2, <2>3, SMTT(40) DEF LockAdvances, IsPessimistic
  <2> QED
    BY <2>1, <2>4, SameLockAdvances, ZenonT(40) DEF TypeOK
<1>6. ASSUME NEW j \in Key, NEW t \in Txn, RecoverPrimary(j, t)
      PROVE  \A k \in Key : LockAdvances(cells[k], cells'[k])
  <2>1. RecoveryRequest(t, j, "RolledBack", 0) \in RequestType
    BY RequestIsTyped, Words, ZenonT(40) DEF RecoveryRequest
  <2> QED
    BY <1>2, <1>6, <2>1, ZenonT(40) DEF RecoverPrimary
<1>7. ASSUME NEW j \in Key, NEW t \in Txn, RecoverSecondary(j, t)
      PROVE  \A k \in Key : LockAdvances(cells[k], cells'[k])
  <2> DEFINE p == Primary(t)
             d == CheckTxnStatusApply(cells[p], co[t].startTs)
  <2>1. p \in Key /\ cells[p] \in CellType /\ cells' = [cells EXCEPT ![p] = d]
    BY <1>7, WorkloadKeys, ZenonT(40) DEF RecoverSecondary, TypeOK
  <2>2. LockAdvances(cells[p], d)
    BY <2>1, RollbackAdvances, SameLockAdvances, ZenonT(40) DEF CheckTxnStatusApply
  <2> HIDE DEF p, d
  <2> QED
    BY <2>1, <2>2, SameLockAdvances, ZenonT(40) DEF TypeOK
<1>8. ASSUME NEW R, NEW ts \in SafePoints, AdvanceGc(R, ts)
      PROVE  \A k \in Key : LockAdvances(cells[k], cells'[k])
  <2>1. \A k \in Key : cells[k] \in CellType /\ GarbageCollect(cells[k], ts).lock = cells[k].lock
    BY ZenonT(40) DEF TypeOK, GarbageCollect, CellType
  <2>2. \A k \in Key : cells'[k].lock = cells[k].lock
    BY <1>8, <2>1, ZenonT(40) DEF AdvanceGc
  <2> QED
    BY <2>1, <2>2, SameLockAdvances, ZenonT(40)
<1>9. CASE UNCHANGED vars
  BY <1>1, <1>9, ZenonT(40) DEF vars
<1>10. CASE \E t \in Txn : TxnNext(t)
  BY <1>1, <1>2, <1>3, <1>10, ZenonT(40) DEF TypeOK
<1>11. CASE NodeNext
  BY <1>4, <1>5, <1>6, <1>7, <1>8, <1>11, ZenonT(40) DEF NodeNext
<1> QED
  BY <1>9, <1>10, <1>11, ZenonT(40) DEF Next

(***************************************************************************)
(* While a transaction holds a lock, PreparePessimisticLock and            *)
(* PreparePrewrite never take its forUpdateTs back nor turn a prewrite     *)
(* lock into a pessimistic one, however late a lock request is executed.   *)
(***************************************************************************)
THEOREM LocksAdvance == Spec => LocksOnlyAdvance
<1>1. TypeOK /\ [Next]_vars =>
        [\A k \in Key :
           /\ HasLock(cells[k])
           /\ cells'[k].lock.startTs = cells[k].lock.startTs
           => /\ cells'[k].lock.forUpdateTs >= cells[k].lock.forUpdateTs
              /\ IsPessimistic(cells'[k]) => IsPessimistic(cells[k])]_vars
  BY CellsAdvance, ZenonT(40) DEF LockAdvances
<1> QED
  BY <1>1, TypeCorrect, PTL DEF Spec, LocksOnlyAdvance
=============================================================================
