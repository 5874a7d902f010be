-------------------------- MODULE IsolationProofs --------------------------
(***************************************************************************)
(* Transactions are isolated, for any number of keys, transactions and     *)
(* Regions and any workload, as long as no application calls Rollback      *)
(* after ResultUnknown: no update is lost, reads can be repeated, locking  *)
(* reads stay current while the lock is held, and what a client was told   *)
(* is committed stays so.                                                  *)
(***************************************************************************)
EXTENDS TransactionsTypeProofs

-----------------------------------------------------------------------------
(* The inductive invariant *)

HasRecord(c, s) == \E w \in c.writes : w.startTs = s

(***************************************************************************)
(* A mutation's prewrite lock is above every commit of the key; any other  *)
(* lock has seen every commit of the key.                                  *)
(***************************************************************************)
LockAbove(c) ==
  HasLock(c) => \A w \in c.writes : w.type # "Rollback" =>
    IF c.lock.kind \in {"pessimistic", "lockOnly"} THEN w.commitTs <= c.lock.forUpdateTs
    ELSE w.commitTs < c.lock.startTs

(* The transactions that committed the key did so one after the other. *)
Disjoint(c) ==
  \A v, w \in c.writes : v # w /\ v.type # "Rollback" /\ w.type # "Rollback" =>
    v.commitTs < w.startTs \/ w.commitTs < v.startTs

(* Only a primary without a mutation is prewritten as a lock. *)
KindFits(k) ==
  \A t \in Txn : LockedBy(cells[k], co[t].startTs) /\ cells[k].lock.kind = "lockOnly" =>
    k \notin Mutations(t)

CellGuard(k) ==
  /\ LockAbove(cells[k]) /\ Disjoint(cells[k]) /\ KindFits(k)
  /\ \A w \in cells[k].writes : w.commitTs <= tso
  /\ HasLock(cells[k]) => cells[k].lock.startTs <= tso

(* t is done, and its primary committed unless the record may be collected. *)
Told(t) ==
  /\ co[t].state = "Finished" /\ co[t].step = "app" /\ Decided(t)
  /\ co[t].commitTs >= safePoint => CommitOf(cells[Primary(t)], co[t].startTs)

(* Nothing happens to t any more. *)
Quiet(t) ==
  /\ \A q \in sent : q.txn # t
  /\ \A x \in lapsed : x[2] # t
  /\ \A k \in Key : ~LockedBy(cells[k], co[t].startTs)
  /\ \A k \in PrewriteKeys(t) : ~RollbackOf(cells[k], co[t].startTs)

OutcomeGuard(t) ==
  /\ co[t].commitTs <= tso
  /\ co[t].step = "cleanup" => co[t].aggregate # "AlreadyCommitted"
  /\ co[t].outcome = "committed" => Told(t)
  /\ co[t].outcome = "committed" /\ co[t].commitTs < safePoint /\ RecoveryKeepsUp => Quiet(t)

(***************************************************************************)
(* A request of t that takes locks has taken them, or is not executed any  *)
(* more, unless the coordinator still waits for its answer or has given up *)
(* on the transaction.                                                     *)
(***************************************************************************)
Engaging(c) ==
  \/ c.commitTs # 0 \/ c.step = "lock"
  \/ c.step = "app" /\ c.state = "Active"
  \/ c.step = "prewrite" /\ c.aggregate = "Ok"
Touched(t, k) == LockedBy(cells[k], co[t].startTs) \/ HasRecord(cells[k], co[t].startTs)
Waiting(c, k) == c.step \in {"lock", "prewrite"} /\ k \in c.todo

TakingGuard(q) ==
  Taking(q) /\ Engaging(co[q.txn]) =>
    \A k \in q.keys : Touched(q.txn, k) \/ NoMoreLocks(q.txn) \/ Waiting(co[q.txn], k)

(* What a read returned is not overtaken by a commit still to come. *)
ReadGuard(r) ==
  /\ r.readTs <= tso
  /\ r.readTs >= safePoint => ReadCommitted(cells[r.key], r.readTs) = r.version
  /\ \A t \in Txn : LockedBy(cells[r.key], co[t].startTs) /\ Decided(t) =>
       co[t].commitTs > r.readTs

(* A lock is held from the locking read on, and not taken again once it is gone. *)
LockedGuard(r) ==
  /\ co[r.txn].startTs # 0
  /\ IF LockedBy(cells[r.key], co[r.txn].startTs)
       THEN ReadCommitted(cells[r.key], tso) = r.version
       ELSE HasRecord(cells[r.key], co[r.txn].startTs) \/ Older(r.txn, safePoint)

IsolationInv ==
  /\ \A k \in Key : CellGuard(k)
  /\ \A t \in Txn : OutcomeGuard(t)
  /\ \A q \in sent : TakingGuard(q)
  /\ \A r \in reads : ReadGuard(r)
  /\ \A r \in locked : LockedGuard(r)
  /\ NoLostUpdate

-----------------------------------------------------------------------------
(* What the operations of the store do to one key *)

(* Every commit of the key is below n. *)
CommitsBelow(c, n) == \A w \in c.writes : w.type # "Rollback" => w.commitTs < n

LEMMA LockGuards ==
  ASSUME NEW c \in CellType, NEW p \in Key, NEW s \in Nat, s # 0, NEW u \in Nat,
         LockAbove(c), PessimisticLockStatus(c, p, s, u) = "Ok"
  PROVE  /\ LockAbove(PessimisticLockApply(c, p, s, u))
         /\ LockedBy(PessimisticLockApply(c, p, s, u), s)
         /\ PessimisticLockApply(c, p, s, u).lock.kind = "pessimistic"
         /\ PessimisticLockApply(c, p, s, u).writes = c.writes
<1> DEFINE d == PessimisticLockApply(c, p, s, u)
<1>1. d.writes = c.writes
  BY ZenonT(40) DEF PessimisticLockApply, CellType
<1>2. \A w \in c.writes : w.commitTs \in Nat
  BY ZenonT(40) DEF CellType, WriteType, Timestamp
<1>3. CASE HasLock(c)
  <2>1. c.lock.startTs = s /\ c.lock.kind = "pessimistic"
    BY <1>3, ZenonT(40) DEF PessimisticLockStatus, IsPessimistic
  <2>2. /\ d.lock.startTs = s /\ d.lock.kind = "pessimistic"
        /\ d.lock.forUpdateTs = MaxTs(c.lock.forUpdateTs, u)
    BY <1>3, <2>1, ZenonT(40) DEF PessimisticLockApply, CellType, LockType
  <2>3. c.lock.forUpdateTs \in Nat
    BY ZenonT(40) DEF CellType, LockType, Timestamp
  <2>4. MaxTs(c.lock.forUpdateTs, u) >= c.lock.forUpdateTs /\ MaxTs(c.lock.forUpdateTs, u) \in Nat
    BY <2>3, SMTT(40) DEF MaxTs
  <2> HIDE DEF d
  <2>5. \A w \in c.writes : w.type # "Rollback" => w.commitTs <= c.lock.forUpdateTs
    BY <1>3, <2>1, ZenonT(40) DEF LockAbove
  <2>6. LockAbove(d)
    BY <1>1, <1>2, <2>2, <2>3, <2>4, <2>5, SMTT(40) DEF LockAbove
  <2> QED
    BY <1>1, <2>2, <2>6, ZenonT(40) DEF d, LockedBy, HasLock
<1>4. CASE ~HasLock(c)
  <2>1. ~\E w \in c.writes : w.type # "Rollback" /\ w.commitTs > u
    BY <1>4, ZenonT(40) DEF PessimisticLockStatus
  <2>2. d.lock.startTs = s /\ d.lock.kind = "pessimistic" /\ d.lock.forUpdateTs = u
    BY <1>4, ZenonT(40) DEF PessimisticLockApply, CellType
  <2> HIDE DEF d
  <2>3. LockAbove(d)
    BY <1>1, <1>2, <2>1, <2>2, SMTT(40) DEF LockAbove
  <2> QED
    BY <1>1, <2>2, <2>3, ZenonT(40) DEF d, LockedBy, HasLock
<1> QED
  BY <1>3, <1>4, ZenonT(40)

LEMMA PrewriteGuards ==
  ASSUME NEW c \in CellType, NEW p \in Key, NEW s \in Nat, s # 0, NEW u \in Nat, NEW del,
         LockAbove(c), PrewriteStatus(c, p, s, u) = "Ok"
  PROVE  /\ LockAbove(PrewriteApply(c, p, s, u, del))
         /\ \/ PrewriteApply(c, p, s, u, del) = c
            \/ PrewriteApply(c, p, s, u, del).lock.kind # "lockOnly"
<1> DEFINE d == PrewriteApply(c, p, s, u, del)
<1>1. d.writes = c.writes
  BY ZenonT(40) DEF PrewriteApply, CellType
<1>2. CASE HasLock(c) /\ ~IsPessimistic(c)
  BY <1>2, ZenonT(40) DEF PrewriteApply
<1>3. CASE ~HasLock(c) \/ IsPessimistic(c)
  <2>1. ~\E w \in c.writes : w.commitTs >= s
    BY <1>3, ZenonT(40) DEF PrewriteStatus
  <2>2. \A w \in c.writes : w.commitTs < s
    BY <2>1, SMTT(40) DEF CellType, WriteType, Timestamp
  <2>3. d.lock.startTs = s /\ d.lock.kind \in {"put", "delete"}
    <3>1. CASE HasLock(c)
      <4>1. c.lock.startTs = s
        BY <3>1, ZenonT(40) DEF PrewriteStatus
      <4>2. d.lock = [c.lock EXCEPT !.kind = IF del THEN "delete" ELSE "put"]
        BY <1>3, <3>1, ZenonT(40) DEF PrewriteApply, CellType
      <4> QED
        BY <4>1, <4>2, ZenonT(40) DEF CellType, LockType
    <3>2. CASE ~HasLock(c)
      BY <3>2, ZenonT(40) DEF PrewriteApply, CellType
    <3> QED
      BY <3>1, <3>2, ZenonT(40)
  <2> HIDE DEF d
  <2>4. LockAbove(d)
    BY <1>1, <2>2, <2>3, ZenonT(40) DEF LockAbove
  <2> QED
    BY <2>3, <2>4, ZenonT(40) DEF d
<1> QED
  BY <1>2, <1>3, ZenonT(40)

LEMMA PrewriteLockGuards ==
  ASSUME NEW c \in CellType, NEW p, NEW s \in Nat, NEW u \in Nat,
         LockAbove(c), PrewriteLockStatus(c, p, s, u) = "Ok"
  PROVE  LockAbove(PrewriteLockApply(c))
<1> DEFINE d == PrewriteLockApply(c)
<1>1. HasLock(c) /\ c.lock.kind \in {"pessimistic", "lockOnly"}
  BY ZenonT(40) DEF PrewriteLockStatus, IsPessimistic
<1>2. /\ d.writes = c.writes /\ d.lock.forUpdateTs = c.lock.forUpdateTs
      /\ d.lock.kind = "lockOnly"
  BY ZenonT(40) DEF PrewriteLockApply, CellType, LockType
<1> HIDE DEF d
<1>3. LockAbove(d)
  BY <1>1, <1>2, ZenonT(40) DEF LockAbove
<1> QED
  BY <1>3, ZenonT(40) DEF d

LEMMA CommitGuards ==
  ASSUME NEW c \in CellType, NEW s \in Nat, NEW u \in Nat,
         CellOK(c), LockAbove(c), CommitStatus(c, s, u) = "Ok"
  PROVE  CommitsBelow(c, s)
<1>1. /\ HasLock(c) /\ c.lock.startTs = s /\ ~(u <= MaxTs(s, c.lock.forUpdateTs))
      /\ ~\E w \in c.writes : w.startTs # s /\ w.type # "Rollback" /\ w.commitTs \in s .. u
  BY ZenonT(40) DEF CommitStatus
<1>2. c.lock.forUpdateTs \in Nat /\ \A w \in c.writes : w.commitTs \in Nat
  BY ZenonT(40) DEF CellType, LockType, WriteType, Timestamp
<1>3. u > c.lock.forUpdateTs /\ u > s
  BY <1>1, <1>2, SMTT(40) DEF MaxTs
<1>4. SUFFICES ASSUME NEW w \in c.writes, w.type # "Rollback" PROVE w.commitTs < s
  BY ZenonT(40) DEF CommitsBelow
<1>5. w.startTs # s
  BY <1>1, ZenonT(40) DEF CellOK, OwnerUndecided
<1>6. w.commitTs < s \/ w.commitTs <= c.lock.forUpdateTs
  BY <1>1, <1>4, ZenonT(40) DEF LockAbove
<1> QED
  BY <1>1, <1>2, <1>3, <1>4, <1>5, <1>6, SMTT(40)

-----------------------------------------------------------------------------
(* What a read returns *)

LEMMA SameVisible ==
  ASSUME NEW c, NEW d, NEW m, NEW n, VisibleAt(d, m) = VisibleAt(c, n)
  PROVE  ReadCommitted(d, m) = ReadCommitted(c, n)
<1>1. NewestVisible(d, m) = NewestVisible(c, n)
  BY ZenonT(40) DEF NewestVisible
<1> QED
  BY <1>1, ZenonT(40) DEF ReadCommitted

(* A read sees neither rollbacks nor commits above its timestamp. *)
LEMMA UnseenRecord ==
  ASSUME NEW c \in CellType, NEW d, NEW w \in WriteType, NEW n \in Nat,
         d.writes = c.writes \cup {w}, w.type = "Rollback" \/ w.commitTs > n
  PROVE  ReadCommitted(d, n) = ReadCommitted(c, n)
<1>1. VisibleAt(d, n) = VisibleAt(c, n)
  BY SMTT(40) DEF VisibleAt, WriteType, Timestamp
<1> QED
  BY <1>1, SameVisible, SMTT(40)

LEMMA NewestRead ==
  ASSUME NEW c \in CellType, NEW d, d.writes = c.writes, NEW m \in Nat, NEW n \in Nat,
         \A w \in c.writes : w.type # "Rollback" => w.commitTs <= m /\ w.commitTs <= n
  PROVE  ReadCommitted(d, m) = ReadCommitted(c, n)
<1>1. VisibleAt(d, m) = VisibleAt(c, n)
  BY ZenonT(40) DEF VisibleAt
<1> QED
  BY <1>1, SameVisible, SMTT(40)

(* Garbage collection keeps what a read at the safe point or later returns. *)
LEMMA CollectedRead ==
  ASSUME NEW c \in CellType, NEW sp \in Nat, NEW n \in Nat, n + 1 >= sp
  PROVE  ReadCommitted(GarbageCollect(c, sp), n) = ReadCommitted(c, n)
<1> DEFINE d == GarbageCollect(c, sp)
<1>1. d.writes = IF \A v, w \in c.writes : v = w THEN c.writes ELSE KeptByGc(c, sp)
  BY ZenonT(40) DEF GarbageCollect, CellType
<1>2. \A w \in c.writes : w.commitTs \in Nat
  BY ZenonT(40) DEF CellType, WriteType, Timestamp
<1> HIDE DEF d
<1>3. CASE d.writes = c.writes
  <2>1. VisibleAt(d, n) = VisibleAt(c, n)
    BY <1>3, ZenonT(40) DEF VisibleAt
  <2> QED
    BY <2>1, SameVisible, SMTT(40) DEF d
<1>4. CASE d.writes = KeptByGc(c, sp)
  <2>1. ASSUME NEW w \in NewestVisible(c, n) PROVE w \in NewestVisible(d, n)
    <3>1. w \in VisibleAt(c, n) /\ \A v \in VisibleAt(c, n) : v.commitTs <= w.commitTs
      BY ZenonT(40) DEF NewestVisible
    <3>2. w \in d.writes
      <4>1. CASE w.commitTs >= sp
        BY <1>4, <3>1, <4>1, ZenonT(40) DEF KeptByGc, VisibleAt
      <4>2. CASE ~(w.commitTs >= sp)
        <5>1. w \in VisibleAt(c, sp - 1)
          BY <1>2, <3>1, <4>2, SMTT(40) DEF VisibleAt
        <5>2. \A v \in VisibleAt(c, sp - 1) : v \in VisibleAt(c, n)
          BY <1>2, SMTT(40) DEF VisibleAt
        <5>3. w \in NewestVisible(c, sp - 1)
          BY <3>1, <5>1, <5>2, ZenonT(40) DEF NewestVisible
        <5> QED
          BY <1>4, <5>3, ZenonT(40) DEF KeptByGc
      <4> QED
        BY <4>1, <4>2, ZenonT(40)
    <3>3. d.writes \subseteq c.writes
      BY <1>4, ZenonT(40) DEF KeptByGc, NewestVisible, VisibleAt
    <3> QED
      BY <3>1, <3>2, <3>3, ZenonT(40) DEF NewestVisible, VisibleAt
  <2>2. ASSUME NEW w \in NewestVisible(d, n) PROVE w \in NewestVisible(c, n)
    <3>1. /\ w \in c.writes /\ w \in d.writes /\ w \in VisibleAt(c, n)
          /\ \A v \in d.writes : v \in VisibleAt(c, n) => v.commitTs <= w.commitTs
      BY <1>4, ZenonT(40) DEF NewestVisible, VisibleAt, KeptByGc
    <3>2. ASSUME NEW v \in VisibleAt(c, n) PROVE v.commitTs <= w.commitTs
      <4>1. v \in c.writes /\ v.type \in {"Put", "Delete"}
        BY ZenonT(40) DEF VisibleAt
      <4>2. CASE v.commitTs >= sp
        <5>1. v \in d.writes
          BY <1>4, <4>1, <4>2, ZenonT(40) DEF KeptByGc
        <5> QED
          BY <3>1, <5>1, ZenonT(40)
      <4>3. CASE ~(v.commitTs >= sp)
        <5>1. v \in VisibleAt(c, sp - 1)
          BY <1>2, <4>1, <4>3, SMTT(40) DEF VisibleAt
        <5>2. w.commitTs >= sp \/ w \in NewestVisible(c, sp - 1)
          BY <1>4, <3>1, ZenonT(40) DEF KeptByGc
        <5>3. w \in NewestVisible(c, sp - 1) => v.commitTs <= w.commitTs
          BY <5>1, ZenonT(40) DEF NewestVisible
        <5> QED
          BY <1>2, <3>1, <4>1, <4>3, <5>2, <5>3, SMTT(40)
      <4> QED
        BY <4>2, <4>3, ZenonT(40)
    <3> QED
      BY <3>1, <3>2, ZenonT(40) DEF NewestVisible
  <2>3. NewestVisible(d, n) = NewestVisible(c, n)
    BY <2>1, <2>2, ZenonT(40)
  <2> QED
    BY <2>3, ZenonT(40) DEF d, ReadCommitted
<1> QED
  BY <1>1, <1>3, <1>4, ZenonT(40)

-----------------------------------------------------------------------------
(* What a step does to one key, and on whose behalf *)

Involved(t) == (\E q \in sent : q.txn = t) \/ (\E x \in lapsed : x[2] = t)

HeldOn(k, d) ==
  /\ d.writes = cells[k].writes /\ d.lock.startTs = cells[k].lock.startTs /\ LockAbove(d)
  /\ d.lock.kind = "lockOnly" =>
       \/ cells[k].lock.kind = "lockOnly"
       \/ \E t \in Txn : co[t].startTs = cells[k].lock.startTs /\ k \notin Mutations(t)

CollectedOn(k, d, sp) ==
  /\ Collected(cells[k], d, sp)
  /\ \A n \in Nat : n + 1 >= sp => ReadCommitted(d, n) = ReadCommitted(cells[k], n)

TakenOn(t, k, d) ==
  /\ Taken(co[t].startTs, cells[k], d) /\ LockAbove(d) /\ d.lock.kind # "lockOnly"
  /\ ~NoMoreLocks(t)
  /\ \E q \in sent : q.txn = t /\ Taking(q) /\ k \in q.keys

CommittedOn(t, k, d) ==
  /\ Committed(co[t].startTs, co[t].commitTs, cells[k], d)
  /\ CommitsBelow(cells[k], co[t].startTs)
  /\ Decided(t) /\ Involved(t)

UndoneOn(t, k, d) == Undone(co[t].startTs, cells[k], d) /\ Involved(t)

Effect(k, d, sp) ==
  \/ HeldOn(k, d)
  \/ CollectedOn(k, d, sp)
  \/ \E t \in Txn : /\ co[t].startTs # 0
                    /\ TakenOn(t, k, d) \/ CommittedOn(t, k, d) \/ UndoneOn(t, k, d)

LEMMA NoEffect ==
  ASSUME NEW k, LockAbove(cells[k]), NEW sp PROVE Effect(k, cells[k], sp)
BY ZenonT(40) DEF Effect, HeldOn

LEMMA RollbackEffect ==
  ASSUME TypeOK, NEW k \in Key, LockAbove(cells[k]), NEW t \in Txn, co[t].startTs # 0,
         Involved(t), RollbackStatus(cells[k], co[t].startTs) = "Ok", NEW sp
  PROVE  Effect(k, RollbackApply(cells[k], co[t].startTs), sp)
<1> DEFINE d == RollbackApply(cells[k], co[t].startTs)
<1>1. cells[k] \in CellType /\ co[t].startTs \in Nat
  BY ZenonT(40) DEF TypeOK, CoordinatorType, Timestamp
<1>2. d = cells[k] \/ Undone(co[t].startTs, cells[k], d)
  BY <1>1, RollbackStep, ZenonT(40)
<1> HIDE DEF d
<1>3. Effect(k, d, sp)
  BY <1>2, NoEffect, ZenonT(40) DEF Effect, UndoneOn
<1> QED
  BY <1>3, ZenonT(40) DEF d

LEMMA CommitEffect ==
  ASSUME TypeOK, Inv, AtomicityInv, NEW k \in Key, LockAbove(cells[k]), NEW q \in sent,
         Committing(q), CommitStatus(cells[k], co[q.txn].startTs, q.ts) = "Ok", NEW sp
  PROVE  Effect(k, CommitApply(cells[k], co[q.txn].startTs, q.ts), sp)
<1> DEFINE t == q.txn
           d == CommitApply(cells[k], co[t].startTs, q.ts)
<1>1. /\ cells[k] \in CellType /\ t \in Txn /\ co[t].startTs \in Nat /\ q.ts \in Nat
      /\ CellOK(cells[k])
  BY ZenonT(40) DEF TypeOK, RequestType, CoordinatorType, Timestamp, Inv, CellsInv
<1>2. co[t].startTs # 0 /\ q.ts = co[t].commitTs
  BY ZenonT(40) DEF AtomicityInv, RequestGuard
<1>3. Decided(t)
  BY ZenonT(40) DEF Inv, RequestsInv, RequestOK, Committing, CommitTsOK
<1>4. Committed(co[t].startTs, q.ts, cells[k], d) /\ CommitsBelow(cells[k], co[t].startTs)
  BY <1>1, CommitStep, CommitGuards, ZenonT(40)
<1>5. Involved(t)
  BY ZenonT(40) DEF Involved
<1> HIDE DEF d
<1>6. CommittedOn(t, k, d)
  BY <1>2, <1>3, <1>4, <1>5, ZenonT(40) DEF CommittedOn
<1>7. Effect(k, d, sp)
  BY <1>1, <1>2, <1>6, ZenonT(40) DEF Effect
<1> QED
  BY <1>7, ZenonT(40) DEF d

LEMMA TakingEffect ==
  ASSUME TypeOK, AtomicityInv, NEW k \in Key, LockAbove(cells[k]), NEW q \in sent, Taking(q),
         InTime(q), k \in q.keys, Succeeds(q, k), NEW sp
  PROVE  /\ Effect(k, ApplyOn(q, k), sp)
         /\ LockedBy(ApplyOn(q, k), co[q.txn].startTs) /\ LockAbove(ApplyOn(q, k))
         /\ ApplyOn(q, k).writes = cells[k].writes
<1> DEFINE t == q.txn
           s == co[t].startTs
           p == Primary(t)
           c == cells[k]
           d == ApplyOn(q, k)
<1>1. Permitted(q) /\ q \in RequestType
  BY SentIsPermitted, ZenonT(40) DEF TypeOK
<1>2. /\ t \in Txn /\ q.ts \in Nat /\ s \in Nat /\ c \in CellType /\ p \in Key
      /\ s # 0 /\ ~NoMoreLocks(t)
  BY <1>1, WorkloadKeys, ZenonT(40) DEF RequestType, TypeOK, CoordinatorType, Timestamp, Permitted
<1>3. StatusOn(q, k) = "Ok"
  BY ZenonT(40) DEF Succeeds, Taking
<1>4. ASSUME NEW e, LockAbove(e), LockedBy(e, s), Kept(c, e) \/ Taken(s, c, e),
             \/ e.lock.kind # "lockOnly"
             \/ Kept(c, e) /\ (c.lock.kind = "lockOnly" \/ k \notin Mutations(t))
      PROVE  Effect(k, e, sp) /\ e.writes = c.writes
  <2>1. e.writes = c.writes
    BY <1>4, ZenonT(40) DEF Kept, Taken
  <2>2. CASE Kept(c, e)
    <3>1. e.lock.startTs = c.lock.startTs /\ c.lock.startTs = s
      BY <1>4, <2>2, ZenonT(40) DEF Kept, LockedBy
    <3>2. HeldOn(k, e)
      BY <1>2, <1>4, <2>1, <2>2, <3>1, ZenonT(40) DEF HeldOn
    <3> QED
      BY <2>1, <3>2, ZenonT(40) DEF Effect
  <2>3. CASE Taken(s, c, e) /\ ~Kept(c, e)
    <3>1. TakenOn(t, k, e)
      BY <1>2, <1>4, <2>3, ZenonT(40) DEF TakenOn
    <3> QED
      BY <1>2, <2>1, <3>1, ZenonT(40) DEF Effect
  <2> QED
    BY <1>4, <2>2, <2>3, ZenonT(40)
<1>5. CASE q.op = "lock"
  <2>1. PessimisticLockStatus(c, p, s, q.ts) = "Ok"
    BY <1>3, <1>5, ZenonT(40) DEF StatusOn
  <2>2. d = PessimisticLockApply(c, p, s, q.ts)
    BY <1>5, ZenonT(40) DEF ApplyOn
  <2>3. /\ LockAbove(d) /\ LockedBy(d, s) /\ d.lock.kind # "lockOnly"
        /\ Kept(c, d) \/ Taken(s, c, d)
    <3> HIDE DEF t, s, p, c, d
    <3> QED
      BY <1>2, <2>1, <2>2, LockStep, LockGuards, ZenonT(40) DEF c
  <2> QED
    <3> HIDE DEF d
    <3> QED
      BY <1>4, <2>3, ZenonT(40) DEF d
<1>6. CASE q.op = "prewrite"
  <2>1. /\ LockAbove(d) /\ LockedBy(d, s) /\ (Kept(c, d) \/ Taken(s, c, d))
        /\ \/ d.lock.kind # "lockOnly"
           \/ Kept(c, d) /\ (c.lock.kind = "lockOnly" \/ k \notin Mutations(t))
    <3>1. CASE k \in Mutations(t)
      <4> DEFINE del == k \in Workload[t].deletes
      <4>1. PrewriteStatus(c, p, s, q.ts) = "Ok"
        BY <1>3, <1>6, <3>1, ZenonT(40) DEF StatusOn
      <4>2. d = PrewriteApply(c, p, s, q.ts, del)
        BY <1>6, <3>1, ZenonT(40) DEF ApplyOn
      <4>3. (Kept(c, d) \/ Taken(s, c, d)) /\ Holds(d, s) /\ LockAbove(d)
        <5> HIDE DEF t, s, p, d, del
        <5> QED
          BY <1>2, <4>1, <4>2, PrewriteStep, PrewriteGuards, ZenonT(40)
      <4>4. d = c \/ d.lock.kind # "lockOnly"
        <5> HIDE DEF t, s, p, d, del
        <5> QED
          BY <1>2, <4>1, <4>2, PrewriteGuards, ZenonT(40)
      <4> HIDE DEF t, s, p, d, del
      <4> QED
        BY <4>3, <4>4, ZenonT(40) DEF Holds, Kept
    <3>2. CASE k \notin Mutations(t)
      <4>1. PrewriteLockStatus(c, p, s, q.ts) = "Ok"
        BY <1>3, <1>6, <3>2, ZenonT(40) DEF StatusOn
      <4>2. d = PrewriteLockApply(c)
        BY <1>6, <3>2, ZenonT(40) DEF ApplyOn
      <4>3. Kept(c, d) /\ Holds(d, s) /\ LockAbove(d)
        <5> HIDE DEF t, s, p, d
        <5> QED
          BY <1>2, <4>1, <4>2, PrewriteLockStep, PrewriteLockGuards, ZenonT(40)
      <4> QED
        <5> HIDE DEF s, d
        <5> QED
          BY <3>2, <4>3, ZenonT(40) DEF Holds
    <3> QED
      BY <3>1, <3>2, ZenonT(40)
  <2> QED
    <3> HIDE DEF d
    <3> QED
      BY <1>4, <2>1, ZenonT(40) DEF d
<1> QED
  BY <1>5, <1>6, ZenonT(40) DEF Taking

LEMMA RequestEffect ==
  ASSUME TypeOK, Inv, AtomicityInv, NEW k \in Key, LockAbove(cells[k]), NEW q \in sent,
         InTime(q), NEW sp
  PROVE  Effect(k, Executed(q)[k], sp)
<1> DEFINE t == q.txn
           s == co[t].startTs
<1>1. q \in RequestType /\ t \in Txn /\ s # 0 /\ Involved(t)
  BY ZenonT(40) DEF TypeOK, RequestType, AtomicityInv, RequestGuard, Involved
<1>2. CASE k \notin q.keys \/ ~AllSucceed(q)
  BY <1>2, NoEffect, ZenonT(40) DEF Executed
<1>3. CASE k \in q.keys /\ AllSucceed(q)
  <2>1. Executed(q)[k] = ApplyOn(q, k) /\ Succeeds(q, k)
    BY <1>3, ZenonT(40) DEF Executed, AllSucceed
  <2>2. CASE Taking(q)
    BY <1>3, <2>1, <2>2, TakingEffect, ZenonT(40)
  <2>3. CASE q.op = "commit"
    <3>1. ApplyOn(q, k) = IF CommitStatus(cells[k], s, q.ts) = "Ok"
                          THEN CommitApply(cells[k], s, q.ts) ELSE cells[k]
      BY <2>3, ZenonT(40) DEF ApplyOn, StatusOn
    <3> QED
      BY <2>1, <2>3, <3>1, CommitEffect, NoEffect, ZenonT(40) DEF Committing
  <2>4. CASE q.op = "rollback"
    <3>1. ApplyOn(q, k) = RollbackApply(cells[k], s)
      BY <2>4, ZenonT(40) DEF ApplyOn
    <3>2. RollbackStatus(cells[k], s) = "Ok"
      BY <2>1, <2>4, ZenonT(40) DEF Succeeds, StatusOn
    <3> QED
      BY <1>1, <2>1, <3>1, <3>2, RollbackEffect, ZenonT(40)
  <2>5. CASE q.op = "resolve"
    <3>1. ApplyOn(q, k) = ResolveLockApply(cells[k], s, q.decision, q.ts)
      BY <2>5, ZenonT(40) DEF ApplyOn
    <3>2. CASE q.decision = "Committed"
      <4>1. ApplyOn(q, k) = IF CommitStatus(cells[k], s, q.ts) = "Ok"
                            THEN CommitApply(cells[k], s, q.ts) ELSE cells[k]
        BY <3>1, <3>2, ZenonT(40) DEF ResolveLockApply
      <4> QED
        BY <2>1, <2>5, <3>2, <4>1, CommitEffect, NoEffect, ZenonT(40) DEF Committing
    <3>3. CASE q.decision # "Committed"
      <4>1. ApplyOn(q, k) = IF RollbackStatus(cells[k], s) = "Ok"
                            THEN RollbackApply(cells[k], s) ELSE cells[k]
        BY <3>1, <3>3, ZenonT(40) DEF ResolveLockApply
      <4> QED
        BY <1>1, <2>1, <4>1, RollbackEffect, NoEffect, ZenonT(40)
    <3> QED
      BY <3>2, <3>3, ZenonT(40)
  <2> QED
    BY <1>1, <2>2, <2>3, <2>4, <2>5, ZenonT(40) DEF RequestType, OpType, Taking
<1> QED
  BY <1>2, <1>3, ZenonT(40)

LEMMA StepEffect ==
  ASSUME TypeOK, Inv, AtomicityInv, \A k \in Key : LockAbove(cells[k]), [Next]_vars
  PROVE  \A k \in Key : Effect(k, cells'[k], safePoint')
<1>1. CASE cells' = cells
  BY <1>1, NoEffect, ZenonT(40)
<1>2. ASSUME NEW q \in sent, InTime(q), cells' = Executed(q)
      PROVE  \A k \in Key : Effect(k, cells'[k], safePoint')
  BY <1>2, RequestEffect, ZenonT(40)
<1>3. ASSUME NEW t \in Txn, TxnNext(t), cells' # cells
      PROVE  \E q \in sent : InTime(q) /\ cells' = Executed(q)
  BY <1>3, ZenonT(40) DEF TxnNext, Begin, Deadline, Write, Get, AcquireKeys, LockAcquired,
       LockRefused, LockUnknown, CommitLockOnly, Prewrite, PrewriteFailed, CommitPrimary,
       PrewriteAnswered, PrewriteUnknown, PrimaryCommitted, PrimaryUnclear, QueryCommitted,
       QueryRolledBack, QueryRetry, QueryExhausted, CleanupAnswered, CleanupUnknown, CleanupDone,
       Rollback, RollbackUnknownResult, ResolveAnswered, ResolveUnknown, Answer, GiveUp
<1>4. ASSUME NEW q \in sent, Execute(q)
      PROVE  \A k \in Key : Effect(k, cells'[k], safePoint')
  BY <1>2, <1>4, ZenonT(40) DEF Execute
<1>5. ASSUME NEW j \in Key, Expire(j)
      PROVE  \A k \in Key : Effect(k, cells'[k], safePoint')
  <2> DEFINE d == [cells[j] EXCEPT !.lock.expired = TRUE]
  <2>1. cells[j] \in CellType /\ cells' = [cells EXCEPT ![j] = d]
    BY <1>5, ZenonT(40) DEF Expire, TypeOK
  <2>2. /\ d.writes = cells[j].writes /\ d.lock.startTs = cells[j].lock.startTs
        /\ d.lock.forUpdateTs = cells[j].lock.forUpdateTs /\ d.lock.kind = cells[j].lock.kind
    BY <2>1, ZenonT(40) DEF CellType, LockType
  <2> HIDE DEF d
  <2>3. LockAbove(d)
    BY <2>2, ZenonT(40) DEF LockAbove, HasLock
  <2>4. Effect(j, d, safePoint')
    BY <2>2, <2>3, ZenonT(40) DEF Effect, HeldOn
  <2>5. cells'[j] = d /\ \A k \in Key \ {j} : cells'[k] = cells[k]
    BY <2>1, ZenonT(40) DEF TypeOK
  <2> QED
    BY <2>4, <2>5, NoEffect, ZenonT(40)
<1>6. ASSUME NEW j \in Key, NEW t \in Txn, RecoverPrimary(j, t)
      PROVE  \A k \in Key : Effect(k, cells'[k], safePoint')
  <2>1. PICK q : q = RecoveryRequest(t, j, "RolledBack", 0)
    BY ZenonT(40)
  <2>2. q.op = "resolve" /\ q.txn = t /\ q.keys = {j} /\ q.decision = "RolledBack"
    BY <2>1, ZenonT(40) DEF RecoveryRequest, Request
  <2>3. <<j, t>> \in lapsed /\ cells' = Executed(q)
    BY <1>6, <2>1, ZenonT(40) DEF RecoverPrimary
  <2>4. Involved(t) /\ co[t].startTs # 0
    <3>1. <<j, t>>[2] = t
      BY ZenonT(40)
    <3> QED
      BY <2>3, <3>1, ZenonT(40) DEF Involved, AtomicityInv
  <2>5. ASSUME NEW k \in Key
        PROVE  \/ cells'[k] = cells[k]
               \/ /\ RollbackStatus(cells[k], co[t].startTs) = "Ok"
                  /\ cells'[k] = RollbackApply(cells[k], co[t].startTs)
    BY <2>2, <2>3, ZenonT(40) DEF Executed, ApplyOn, ResolveLockApply
  <2> QED
    BY <2>4, <2>5, RollbackEffect, NoEffect, ZenonT(40)
<1>7. ASSUME NEW j \in Key, NEW t \in Txn, RecoverSecondary(j, t)
      PROVE  \A k \in Key : Effect(k, cells'[k], safePoint')
  <2> DEFINE p == Primary(t)
             d == CheckTxnStatusApply(cells[p], co[t].startTs)
  <2>1. p \in Key /\ cells' = [cells EXCEPT ![p] = d] /\ <<j, t>> \in lapsed
    BY <1>7, WorkloadKeys, ZenonT(40) DEF RecoverSecondary
  <2>2. Involved(t) /\ co[t].startTs # 0
    <3>1. <<j, t>>[2] = t
      BY ZenonT(40)
    <3> QED
      BY <2>1, <3>1, ZenonT(40) DEF Involved, AtomicityInv
  <2>3. \/ d = cells[p]
        \/ /\ RollbackStatus(cells[p], co[t].startTs) = "Ok"
           /\ d = RollbackApply(cells[p], co[t].startTs)
    BY ZenonT(40) DEF CheckTxnStatusApply, MustExpire, InspectTxnStatus, RollbackStatus
  <2> HIDE DEF d
  <2>4. Effect(p, d, safePoint')
    BY <2>1, <2>2, <2>3, RollbackEffect, NoEffect, ZenonT(40)
  <2>5. cells'[p] = d /\ \A k \in Key \ {p} : cells'[k] = cells[k]
    BY <2>1, ZenonT(40) DEF TypeOK
  <2> QED
    BY <2>4, <2>5, NoEffect, ZenonT(40)
<1>8. ASSUME NEW R, NEW ts \in SafePoints, AdvanceGc(R, ts)
      PROVE  \A k \in Key : Effect(k, cells'[k], safePoint')
  <2>1. ts \in Nat /\ safePoint' = ts
    BY <1>8, GcAssumption, ZenonT(40) DEF AdvanceGc
  <2>2. SUFFICES ASSUME NEW k \in Key PROVE Effect(k, cells'[k], ts)
    BY <2>1, ZenonT(40)
  <2>3. cells'[k] = cells[k] \/ cells'[k] = GarbageCollect(cells[k], ts)
    BY <1>8, ZenonT(40) DEF AdvanceGc
  <2>4. cells[k] \in CellType
    BY ZenonT(40) DEF TypeOK
  <2>5. CollectedOn(k, GarbageCollect(cells[k], ts), ts)
    BY <2>1, <2>4, CollectStep, CollectedRead, ZenonT(40) DEF CollectedOn
  <2> QED
    BY <2>3, <2>5, NoEffect, ZenonT(40) DEF Effect
<1>9. CASE UNCHANGED vars
  BY <1>1, <1>9, ZenonT(40) DEF vars
<1>10. CASE \E t \in Txn : TxnNext(t)
  BY <1>1, <1>2, <1>3, <1>10, ZenonT(40)
<1>11. CASE NodeNext
  BY <1>4, <1>5, <1>6, <1>7, <1>8, <1>11, ZenonT(40) DEF NodeNext
<1> QED
  BY <1>9, <1>10, <1>11, ZenonT(40) DEF Next

-----------------------------------------------------------------------------
(* What follows for the keys, the reads and the locking reads *)

(* The client of t is told of the commit in this step; c is its coordinator after it. *)
JustCommitted(t, c) ==
  /\ Live(t) /\ Decided(t) /\ c.commitTs = co[t].commitTs
  /\ c.state = "Finished" /\ c.step = "app"
  /\ safePoint' = safePoint /\ CommitOf(cells'[Primary(t)], co[t].startTs)

(* How the coordinator of t may move on to c. *)
Carries(t, c) ==
  /\ c.commitTs <= tso'
  /\ ~Decided(t) /\ c.commitTs # 0 => c.commitTs > tso
  /\ c.step = "cleanup" => c.aggregate # "AlreadyCommitted"
  /\ c.outcome = "committed" => c = co[t] \/ JustCommitted(t, c)
  /\ co[t].startTs # 0 /\ Engaging(c) => Engaging(co[t])
  /\ \A k \in Key : Engaging(c) /\ Waiting(co[t], k) =>
       Waiting(c, k) \/ LockedBy(cells'[k], co[t].startTs)

(* The requests a step sends, and the locks it finds expired. *)
Sends ==
  /\ \A q \in sent' \ sent :
       /\ co[q.txn].state # "Finished" \/ \E x \in lapsed : x[2] = q.txn
       /\ Taking(q) => \A k \in q.keys : Waiting(co'[q.txn], k)
  /\ \A x \in lapsed' \ lapsed : LockedBy(cells[x[1]], co[x[2]].startTs)

(* The safe point moves. *)
Collects ==
  /\ RecoveryKeepsUp => \A k \in Key : HasLock(cells[k]) => cells[k].lock.startTs >= safePoint'
  /\ \A q \in sent' : ~Older(q.txn, safePoint')
  /\ \A x \in lapsed' : Older(x[2], safePoint') => LockedBy(cells[x[1]], co[x[2]].startTs)
  /\ \A k \in Key : cells'[k].lock = cells[k].lock /\ cells'[k].writes \subseteq cells[k].writes

(* The reads and the locking reads a step answers. *)
Answers ==
  /\ \A r \in reads' \ reads : ReadGuard(r)'
  /\ \A r \in locked' \ locked : LockedGuard(r)'

Carried ==
  /\ tso' >= tso
  /\ \A t \in Txn : Carries(t, co'[t])
  /\ Sends /\ Answers
  /\ safePoint' = safePoint \/ Collects

(* A step of the system. *)
Advance ==
  /\ TypeOK /\ TypeOK' /\ Inv /\ Inv' /\ AtomicityInv /\ StaysAtomic /\ IsolationInv
  /\ \A k \in Key : Effect(k, cells'[k], safePoint')
  /\ Carried

LEMMA Timestamps ==
  ASSUME Advance, NEW t \in Txn
  PROVE  /\ tso \in Nat /\ tso' \in Nat /\ tso' >= tso /\ safePoint \in Nat /\ safePoint' \in Nat
         /\ safePoint' >= safePoint /\ safePoint' <= tso' + 1
         /\ co[t].startTs \in Nat /\ co[t].commitTs \in Nat /\ co'[t].startTs \in Nat
         /\ co[t].startTs <= tso /\ co[t].commitTs <= tso
         /\ co[t].startTs # 0 => co'[t].startTs = co[t].startTs
         /\ Decided(t) => co[t].startTs # 0 /\ co'[t].commitTs = co[t].commitTs
                          /\ co[t].commitTs > co[t].startTs
         /\ \A n \in Nat : n # 0 /\ n <= tso /\ co'[t].startTs = n => co[t].startTs = n
         /\ \A u \in Txn : co[u].startTs = co[t].startTs /\ co[t].startTs # 0 => u = t
<1>1. /\ tso \in Nat /\ tso' \in Nat /\ safePoint \in Nat /\ safePoint' \in Nat
      /\ co[t].startTs \in Nat /\ co[t].commitTs \in Nat /\ co'[t].startTs \in Nat
  BY ZenonT(40) DEF Advance, TypeOK, CoordinatorType, Timestamp
<1>2. tso' >= tso /\ safePoint' >= safePoint /\ safePoint' <= tso' + 1 /\ Onward(t)
  BY ZenonT(40) DEF Advance, Carried, StaysAtomic, Lawful, AtomicityInv
<1>3. co[t].commitTs <= tso
  BY ZenonT(40) DEF Advance, IsolationInv, OutcomeGuard
<1>4. /\ CoordinatorOK(co[t], tso) /\ (Decided(t) => co[t].startTs # 0)
      /\ \A u \in Txn : co[u].startTs = co[t].startTs /\ co[t].startTs # 0 => u = t
  BY Basics, ZenonT(40) DEF Advance
<1>5. co[t].startTs <= tso /\ (Decided(t) => co[t].commitTs > co[t].startTs)
  BY <1>4, ZenonT(40) DEF CoordinatorOK, Decided
<1>6. /\ co[t].startTs # 0 => co'[t].startTs = co[t].startTs
      /\ Decided(t) => co'[t].commitTs = co[t].commitTs
  BY <1>2, ZenonT(40) DEF Onward
<1>7. \A n \in Nat : n # 0 /\ n <= tso /\ co'[t].startTs = n => co[t].startTs = n
  BY <1>1, <1>2, SMTT(40) DEF Onward
<1> QED
  BY <1>1, <1>2, <1>3, <1>4, <1>5, <1>6, <1>7, ZenonT(40)

LEMMA CellFacts ==
  ASSUME Advance, NEW k \in Key
  PROVE  /\ cells[k] \in CellType /\ cells'[k] \in CellType
         /\ CellOK(cells[k]) /\ CellOK(cells'[k]) /\ CellGuard(k)
         /\ \A w \in cells[k].writes : w.commitTs \in Nat /\ w.startTs \in Nat
         /\ Effect(k, cells'[k], safePoint')
<1>1. cells[k] \in CellType /\ cells'[k] \in CellType
  BY ZenonT(40) DEF Advance, TypeOK
<1>2. CellOK(cells[k]) /\ CellOK(cells'[k])
  BY ZenonT(40) DEF Advance, Inv, CellsInv
<1>3. CellGuard(k) /\ Effect(k, cells'[k], safePoint')
  BY ZenonT(40) DEF Advance, IsolationInv
<1>4. \A w \in cells[k].writes : w.commitTs \in Nat /\ w.startTs \in Nat
  BY <1>1, ZenonT(40) DEF CellType, WriteType, Timestamp
<1> QED
  BY <1>1, <1>2, <1>3, <1>4, ZenonT(40)

LEMMA CellsStayGuarded ==
  ASSUME Advance, NEW k \in Key
  PROVE  CellGuard(k)'
<1> DEFINE c == cells[k]
           d == cells'[k]
<1>1. /\ LockAbove(c) /\ Disjoint(c) /\ KindFits(k)
      /\ \A w \in c.writes : w.commitTs <= tso /\ w.commitTs \in Nat
      /\ HasLock(c) => c.lock.startTs <= tso
      /\ c.lock.startTs \in Nat /\ d.lock.startTs \in Nat
      /\ Effect(k, d, safePoint')
  BY CellFacts, ZenonT(40) DEF CellGuard, CellType, LockType, Timestamp
<1>2. \A t \in Txn : /\ tso \in Nat /\ tso' \in Nat /\ tso' >= tso
                     /\ co[t].startTs \in Nat /\ co[t].commitTs \in Nat
                     /\ co[t].startTs <= tso /\ co[t].commitTs <= tso
  BY Timestamps, ZenonT(40)
<1>3. tso \in Nat /\ tso' \in Nat /\ tso' >= tso
  BY ZenonT(40) DEF Advance, Carried, TypeOK, Timestamp
<1> DEFINE Fine == /\ LockAbove(d) /\ Disjoint(d)
                   /\ \A w \in d.writes : w.commitTs <= tso'
                   /\ HasLock(d) => d.lock.startTs <= tso
<1>4. ASSUME d.writes \subseteq c.writes PROVE Disjoint(d) /\ \A w \in d.writes : w.commitTs <= tso'
  BY <1>1, <1>3, <1>4, SMTT(40) DEF Disjoint
<1>5. CASE HeldOn(k, d)
  <2>1. Fine
    BY <1>1, <1>4, <1>5, ZenonT(40) DEF HeldOn, HasLock
  <2>2. ASSUME NEW t \in Txn, LockedBy(d, co'[t].startTs), d.lock.kind = "lockOnly"
        PROVE  k \notin Mutations(t)
    <3>1. HasLock(c) /\ c.lock.startTs = co'[t].startTs /\ c.lock.startTs # 0
      BY <1>5, <2>2, ZenonT(40) DEF HeldOn, LockedBy, HasLock
    <3>2. co[t].startTs = c.lock.startTs
      BY <1>1, <3>1, Timestamps, ZenonT(40)
    <3>3. CASE c.lock.kind = "lockOnly"
      BY <1>1, <3>1, <3>2, <3>3, ZenonT(40) DEF KindFits, LockedBy
    <3>4. CASE \E u \in Txn : co[u].startTs = c.lock.startTs /\ k \notin Mutations(u)
      BY <3>1, <3>2, <3>4, Timestamps, SMTT(40)
    <3> QED
      BY <1>5, <2>2, <3>3, <3>4, ZenonT(40) DEF HeldOn
  <2> QED
    BY <1>1, <1>3, <2>1, <2>2, SMTT(40) DEF CellGuard, KindFits
<1>6. CASE CollectedOn(k, d, safePoint')
  <2>1. d.lock = c.lock /\ d.writes \subseteq c.writes
    BY <1>6, ZenonT(40) DEF CollectedOn, Collected
  <2>2. Fine
    BY <1>1, <1>4, <2>1, ZenonT(40) DEF LockAbove, HasLock
  <2>3. ASSUME NEW t \in Txn, LockedBy(d, co'[t].startTs), d.lock.kind = "lockOnly"
        PROVE  k \notin Mutations(t)
    <3>1. co[t].startTs = c.lock.startTs
      BY <1>1, <2>1, <2>3, Timestamps, ZenonT(40) DEF LockedBy, HasLock
    <3> QED
      BY <1>1, <2>1, <2>3, <3>1, ZenonT(40) DEF KindFits, LockedBy, HasLock
  <2> QED
    BY <1>1, <1>3, <2>2, <2>3, SMTT(40) DEF CellGuard, KindFits
<1>7. ASSUME NEW t \in Txn, co[t].startTs # 0, TakenOn(t, k, d) PROVE CellGuard(k)'
  <2>1. /\ d.writes = c.writes /\ LockAbove(d) /\ d.lock.startTs = co[t].startTs
        /\ d.lock.kind # "lockOnly"
    BY <1>7, ZenonT(40) DEF TakenOn, Taken
  <2>2. Fine
    BY <1>2, <1>4, <2>1, ZenonT(40)
  <2> QED
    BY <1>1, <1>3, <2>1, <2>2, SMTT(40) DEF CellGuard, KindFits
<1>8. ASSUME NEW t \in Txn, co[t].startTs # 0, CommittedOn(t, k, d) PROVE CellGuard(k)'
  <2>1. ~HasLock(d) /\ CommitsBelow(c, co[t].startTs)
    BY <1>8, ZenonT(40) DEF CommittedOn, Committed
  <2>2. PICK w \in WriteType : /\ d.writes = c.writes \cup {w} /\ w.startTs = co[t].startTs
                               /\ w.commitTs = co[t].commitTs /\ w.type # "Rollback"
    BY <1>8, ZenonT(40) DEF CommittedOn, Committed
  <2>3. Disjoint(d)
    BY <1>1, <2>1, <2>2, ZenonT(40) DEF Disjoint, CommitsBelow
  <2>4. \A v \in d.writes : v.commitTs <= tso'
    BY <1>1, <1>2, <1>3, <2>2, SMTT(40)
  <2> QED
    BY <2>1, <2>3, <2>4, ZenonT(40) DEF CellGuard, KindFits, LockAbove, LockedBy
<1>9. ASSUME NEW t \in Txn, co[t].startTs # 0, UndoneOn(t, k, d) PROVE CellGuard(k)'
  <2>1. PICK w \in WriteType : /\ d.writes = c.writes \cup {w} /\ w.startTs = co[t].startTs
                               /\ w.commitTs = co[t].startTs /\ w.type = "Rollback"
    BY <1>9, ZenonT(40) DEF UndoneOn, Undone
  <2>2. ~HasLock(d) \/ d.lock = c.lock
    BY <1>9, ZenonT(40) DEF UndoneOn, Undone
  <2>3. Disjoint(d)
    BY <1>1, <2>1, ZenonT(40) DEF Disjoint
  <2>4. \A v \in d.writes : v.commitTs <= tso'
    BY <1>1, <1>2, <1>3, <2>1, SMTT(40)
  <2>5. LockAbove(d) /\ (HasLock(d) => d.lock.startTs <= tso)
    BY <1>1, <2>1, <2>2, ZenonT(40) DEF LockAbove, HasLock
  <2>6. ASSUME NEW u \in Txn, LockedBy(d, co'[u].startTs), d.lock.kind = "lockOnly"
        PROVE  k \notin Mutations(u)
    <3>1. co[u].startTs = c.lock.startTs /\ d.lock = c.lock
      BY <1>1, <2>2, <2>6, Timestamps, ZenonT(40) DEF LockedBy, HasLock
    <3> QED
      BY <1>1, <2>6, <3>1, ZenonT(40) DEF KindFits, LockedBy, HasLock
  <2> QED
    BY <1>1, <1>3, <2>3, <2>4, <2>5, <2>6, SMTT(40) DEF CellGuard, KindFits
<1> QED
  BY <1>1, <1>5, <1>6, <1>7, <1>8, <1>9, ZenonT(40) DEF Effect

(* A lock that appears is taken by a request its transaction still waits for. *)
LEMMA NewLock ==
  ASSUME Advance, NEW k \in Key, NEW t \in Txn, co[t].startTs # 0,
         ~LockedBy(cells[k], co[t].startTs), LockedBy(cells'[k], co[t].startTs)
  PROVE  /\ ~HasRecord(cells[k], co[t].startTs) /\ ~NoMoreLocks(t)
         /\ \E q \in sent : q.txn = t
         /\ Engaging(co[t]) => Waiting(co[t], k)
<1> DEFINE c == cells[k]
           d == cells'[k]
           s == co[t].startTs
<1>1. Effect(k, d, safePoint') /\ CellOK(d)
  BY CellFacts, ZenonT(40)
<1>2. ~HeldOn(k, d)
  BY ZenonT(40) DEF HeldOn, LockedBy, HasLock
<1>3. ~CollectedOn(k, d, safePoint')
  BY ZenonT(40) DEF CollectedOn, Collected, LockedBy, HasLock
<1>4. ASSUME NEW u \in Txn PROVE ~CommittedOn(u, k, d) /\ ~UndoneOn(u, k, d)
  BY ZenonT(40) DEF CommittedOn, Committed, UndoneOn, Undone, LockedBy, HasLock
<1>5. PICK u \in Txn : co[u].startTs # 0 /\ TakenOn(u, k, d)
  BY <1>1, <1>2, <1>3, <1>4, ZenonT(40) DEF Effect
<1>6. co[u].startTs = s
  BY <1>5, ZenonT(40) DEF TakenOn, Taken, LockedBy
<1>7. u = t
  BY <1>6, Timestamps, ZenonT(40)
<1>8. ~HasLock(c) /\ d.writes = c.writes /\ d.lock.startTs = s /\ ~NoMoreLocks(t)
  BY <1>5, <1>7, ZenonT(40) DEF TakenOn, Taken
<1>9. ~HasRecord(c, s)
  BY <1>1, <1>8, ZenonT(40) DEF HasRecord, CellOK, OwnerUndecided, HasLock
<1>10. PICK q \in sent : q.txn = t /\ Taking(q) /\ k \in q.keys
  BY <1>5, <1>7, ZenonT(40) DEF TakenOn
<1>11. TakingGuard(q)
  BY ZenonT(40) DEF Advance, IsolationInv
<1>12. ~Touched(t, k)
  BY <1>8, <1>9, ZenonT(40) DEF Touched, LockedBy
<1>13. Engaging(co[t]) => Waiting(co[t], k)
  BY <1>8, <1>10, <1>11, <1>12, ZenonT(40) DEF TakingGuard
<1> QED
  BY <1>8, <1>9, <1>10, <1>13, ZenonT(40)

(* A lock that goes leaves a record, and a record stays until it is collected. *)
LEMMA TouchStays ==
  ASSUME Advance, NEW k \in Key, NEW t \in Txn, co[t].startTs # 0
  PROVE  /\ LockedBy(cells[k], co[t].startTs) =>
              LockedBy(cells'[k], co[t].startTs) \/ HasRecord(cells'[k], co[t].startTs)
         /\ HasRecord(cells[k], co[t].startTs) =>
              HasRecord(cells'[k], co[t].startTs) \/ Older(t, safePoint)'
<1> DEFINE c == cells[k]
           d == cells'[k]
           s == co[t].startTs
<1>1. Effect(k, d, safePoint')
  BY CellFacts, ZenonT(40)
<1>2. ASSUME LockedBy(c, s), ~LockedBy(d, s) PROVE HasRecord(d, s)
  <2>1. ~HeldOn(k, d) /\ ~CollectedOn(k, d, safePoint')
    BY <1>2, ZenonT(40) DEF HeldOn, CollectedOn, Collected, LockedBy, HasLock
  <2>2. ASSUME NEW u \in Txn PROVE ~TakenOn(u, k, d)
    BY <1>2, ZenonT(40) DEF TakenOn, Taken, LockedBy
  <2>3. ASSUME NEW u \in Txn, CommittedOn(u, k, d) \/ UndoneOn(u, k, d)
        PROVE  HasRecord(d, s)
    <3>1. LockedBy(c, co[u].startTs)
      BY <1>2, <2>3, ZenonT(40) DEF CommittedOn, Committed, UndoneOn, Undone, LockedBy, HasLock
    <3>2. co[u].startTs = s
      BY <1>2, <3>1, ZenonT(40) DEF LockedBy
    <3> QED
      BY <2>3, <3>2, ZenonT(40) DEF CommittedOn, Committed, UndoneOn, Undone, HasRecord
  <2> QED
    BY <1>1, <2>1, <2>2, <2>3, ZenonT(40) DEF Effect
<1>3. ASSUME NEW w \in c.writes, w.startTs = s, w \notin d.writes PROVE Older(t, safePoint)'
  <2>1. Lawful /\ TypeOK /\ safePoint' \in Nat /\ co'[t].startTs = s /\ s \in Nat
    BY Timestamps, ZenonT(40) DEF Advance, StaysAtomic
  <2>2. w.commitTs < safePoint'
    BY <1>3, <2>1, CommitStays, ZenonT(40)
  <2>3. RecordGuard(w, k) /\ RecordOK(w) /\ w.commitTs \in Nat
    BY CellFacts, ZenonT(40) DEF Advance, AtomicityInv, Inv, CellsInv
  <2>4. w.commitTs >= s
    BY <1>3, <2>1, <2>3, SMTT(40) DEF RecordGuard, RecordOK
  <2> QED
    BY <2>1, <2>2, <2>3, <2>4, SMTT(40) DEF Older
<1> QED
  BY <1>2, <1>3, ZenonT(40) DEF HasRecord

LEMMA DecidedIsDone ==
  ASSUME NEW t, CoordinatorOK(co[t], tso), Decided(t)
  PROVE  co[t].step # "lock" /\ co[t].step # "prewrite"
BY ZenonT(40) DEF CoordinatorOK, Decided

LEMMA ReadsStay ==
  ASSUME Advance, NEW r \in reads
  PROVE  ReadGuard(r)'
<1> DEFINE k == r.key
           n == r.readTs
           c == cells[k]
           d == cells'[k]
<1>1. /\ k \in Key /\ n \in Nat /\ tso \in Nat /\ tso' \in Nat /\ tso' >= tso
      /\ safePoint \in Nat /\ safePoint' \in Nat /\ safePoint' >= safePoint
  BY ZenonT(40) DEF Advance, Carried, StaysAtomic, Lawful, TypeOK, Timestamp
<1>2. /\ n <= tso /\ (n >= safePoint => ReadCommitted(c, n) = r.version)
      /\ \A t \in Txn : LockedBy(c, co[t].startTs) /\ Decided(t) => co[t].commitTs > n
  BY ZenonT(40) DEF Advance, IsolationInv, ReadGuard
<1>3. c \in CellType /\ Effect(k, d, safePoint')
  BY <1>1, CellFacts, ZenonT(40)
<1>4. ASSUME NEW t \in Txn, LockedBy(d, co'[t].startTs), Decided(t)'
      PROVE  co'[t].commitTs > n
  <2>1. CASE ~Decided(t)
    <3>1. co'[t].commitTs > tso /\ co'[t].commitTs \in Nat
      BY <1>4, <2>1, ZenonT(40) DEF Advance, Carried, Carries, Decided, TypeOK, CoordinatorType, Timestamp
    <3> QED
      BY <1>1, <1>2, <3>1, SMTT(40)
  <2>2. CASE Decided(t)
    <3>1. /\ co[t].startTs # 0 /\ co'[t].startTs = co[t].startTs
          /\ co'[t].commitTs = co[t].commitTs
      BY <2>2, Timestamps, ZenonT(40)
    <3>2. Engaging(co[t]) /\ ~Waiting(co[t], k)
      <4>1. CoordinatorOK(co[t], tso)
        BY ZenonT(40) DEF Advance, Inv, CoordinatorsInv
      <4> QED
        BY <2>2, <4>1, DecidedIsDone, ZenonT(40) DEF Engaging, Waiting, Decided
    <3>3. LockedBy(c, co[t].startTs)
      BY <1>1, <1>4, <3>1, <3>2, NewLock, ZenonT(40)
    <3> QED
      BY <1>2, <2>2, <3>1, <3>3, ZenonT(40)
  <2> QED
    BY <2>1, <2>2, ZenonT(40)
<1>5. ASSUME n >= safePoint' PROVE ReadCommitted(d, n) = r.version
  <2>1. ReadCommitted(c, n) = r.version
    BY <1>1, <1>2, <1>5, SMTT(40)
  <2>2. ASSUME d.writes = c.writes PROVE ReadCommitted(d, n) = ReadCommitted(c, n)
    <3>1. VisibleAt(d, n) = VisibleAt(c, n)
      BY <2>2, ZenonT(40) DEF VisibleAt
    <3> QED
      BY <3>1, SameVisible, SMTT(40)
  <2>3. CASE CollectedOn(k, d, safePoint')
    BY <1>1, <1>5, <2>1, <2>3, SMTT(40) DEF CollectedOn
  <2>4. ASSUME NEW t \in Txn, CommittedOn(t, k, d) PROVE ReadCommitted(d, n) = ReadCommitted(c, n)
    <3>1. co[t].commitTs > n
      <4>1. LockedBy(c, co[t].startTs) /\ Decided(t)
        BY <2>4, ZenonT(40) DEF CommittedOn, Committed
      <4> QED
        BY <1>2, <4>1, ZenonT(40)
    <3>2. PICK w \in WriteType : d.writes = c.writes \cup {w} /\ w.commitTs = co[t].commitTs
      BY <2>4, ZenonT(40) DEF CommittedOn, Committed
    <3> QED
      BY <1>1, <1>3, <3>1, <3>2, UnseenRecord, SMTT(40)
  <2>5. ASSUME NEW t \in Txn, UndoneOn(t, k, d) PROVE ReadCommitted(d, n) = ReadCommitted(c, n)
    BY <1>1, <1>3, <2>5, UnseenRecord, SMTT(40) DEF UndoneOn, Undone
  <2>6. HeldOn(k, d) \/ (\E t \in Txn : TakenOn(t, k, d)) => d.writes = c.writes
    BY ZenonT(40) DEF HeldOn, TakenOn, Taken
  <2> QED
    BY <1>3, <2>1, <2>2, <2>3, <2>4, <2>5, <2>6, ZenonT(40) DEF Effect
<1> QED
  BY <1>1, <1>2, <1>4, <1>5, SMTT(40) DEF ReadGuard

LEMMA LockedStay ==
  ASSUME Advance, NEW r \in locked
  PROVE  LockedGuard(r)'
<1> DEFINE k == r.key
           t == r.txn
           s == co[t].startTs
           c == cells[k]
           d == cells'[k]
<1>1. k \in Key /\ t \in Txn /\ LockedGuard(r)
  BY ZenonT(40) DEF Advance, IsolationInv, TypeOK
<1>2. s # 0 /\ co'[t].startTs = s
  BY <1>1, Timestamps, ZenonT(40) DEF LockedGuard
<1>3. /\ c \in CellType /\ Effect(k, d, safePoint')
      /\ \A w \in c.writes : w.commitTs <= tso /\ w.commitTs \in Nat
  BY <1>1, CellFacts, ZenonT(40) DEF CellGuard
<1>4. tso \in Nat /\ tso' \in Nat /\ tso' >= tso /\ safePoint' \in Nat /\ safePoint' <= tso' + 1
  BY <1>1, Timestamps, ZenonT(40)
<1>5. ASSUME LockedBy(c, s), LockedBy(d, s)
      PROVE  ReadCommitted(d, tso') = r.version
  <2>1. ReadCommitted(c, tso) = r.version
    BY <1>1, <1>5, ZenonT(40) DEF LockedGuard
  <2>2. \A w \in c.writes : w.commitTs <= tso' /\ w.commitTs <= tso
    BY <1>3, <1>4, SMTT(40)
  <2>3. ReadCommitted(c, tso') = ReadCommitted(c, tso)
    BY <1>3, <1>4, <2>2, NewestRead, SMTT(40)
  <2>4. CASE HeldOn(k, d)
    <3>1. d.writes = c.writes
      BY <2>4, ZenonT(40) DEF HeldOn
    <3> QED
      BY <1>3, <1>4, <2>1, <2>2, <3>1, NewestRead, SMTT(40)
  <2>5. CASE CollectedOn(k, d, safePoint')
    BY <1>4, <2>1, <2>3, <2>5, ZenonT(40) DEF CollectedOn
  <2>6. ASSUME NEW u \in Txn PROVE ~TakenOn(u, k, d) /\ ~CommittedOn(u, k, d)
    BY <1>5, ZenonT(40) DEF TakenOn, Taken, CommittedOn, Committed, LockedBy
  <2>7. ASSUME NEW u \in Txn, UndoneOn(u, k, d)
        PROVE  ReadCommitted(d, tso') = ReadCommitted(c, tso')
    BY <1>3, <1>4, <2>7, UnseenRecord, SMTT(40) DEF UndoneOn, Undone
  <2> QED
    BY <1>3, <2>1, <2>3, <2>4, <2>5, <2>6, <2>7, ZenonT(40) DEF Effect
<1>6. LockedBy(c, s) /\ ~LockedBy(d, s) => HasRecord(d, s)
  BY <1>1, <1>2, TouchStays, ZenonT(40)
<1>7. ASSUME ~LockedBy(c, s)
      PROVE  ~LockedBy(d, s) /\ (HasRecord(d, s) \/ Older(t, safePoint)')
  <2>1. HasRecord(c, s) \/ Older(t, safePoint)
    BY <1>1, <1>7, ZenonT(40) DEF LockedGuard
  <2>2. ~LockedBy(d, s)
    BY <1>1, <1>2, <1>7, <2>1, NewLock, ZenonT(40) DEF NoMoreLocks
  <2>3. Older(t, safePoint) => Older(t, safePoint)'
    BY <1>1, <1>2, Timestamps, SMTT(40) DEF Older
  <2> QED
    BY <1>1, <1>2, <2>1, <2>2, <2>3, TouchStays, ZenonT(40)
<1> QED
  BY <1>2, <1>5, <1>6, <1>7, ZenonT(40) DEF LockedGuard

LEMMA TakingStays ==
  ASSUME Advance, NEW q \in sent'
  PROVE  TakingGuard(q)'
<1> DEFINE t == q.txn
<1>1. t \in Txn /\ q.keys \subseteq Key
  BY ZenonT(40) DEF Advance, TypeOK, RequestType
<1>2. CASE q \notin sent
  BY <1>2, ZenonT(40) DEF TakingGuard, Advance, Carried, Sends
<1>3. CASE q \in sent
  <2>1. co[t].startTs # 0 /\ TakingGuard(q)
    BY <1>3, ZenonT(40) DEF Advance, AtomicityInv, RequestGuard, IsolationInv
  <2>2. co'[t].startTs = co[t].startTs /\ Carries(t, co'[t]) /\ Onward(t)
    BY <1>1, <2>1, Timestamps, ZenonT(40) DEF Advance, Carried, StaysAtomic, Lawful
  <2>3. ASSUME Taking(q), Engaging(co'[t]), NEW k \in q.keys
        PROVE  Touched(t, k)' \/ NoMoreLocks(t)' \/ Waiting(co'[t], k)
    <3>1. k \in Key /\ Engaging(co[t])
      BY <1>1, <2>1, <2>2, <2>3, ZenonT(40) DEF Carries
    <3>2. Touched(t, k) \/ NoMoreLocks(t) \/ Waiting(co[t], k)
      BY <2>1, <2>3, <3>1, ZenonT(40) DEF TakingGuard
    <3>3. Touched(t, k) => Touched(t, k)' \/ Older(t, safePoint)'
      BY <1>1, <2>1, <2>2, <3>1, TouchStays, ZenonT(40) DEF Touched
    <3>4. NoMoreLocks(t) => NoMoreLocks(t)'
      BY <2>1, <2>2, ZenonT(40) DEF Onward
    <3>5. Waiting(co[t], k) => Waiting(co'[t], k) \/ LockedBy(cells'[k], co[t].startTs)
      BY <2>2, <2>3, <3>1, ZenonT(40) DEF Carries
    <3> QED
      BY <2>2, <3>2, <3>3, <3>4, <3>5, ZenonT(40) DEF Touched, NoMoreLocks
  <2> QED
    BY <2>3, ZenonT(40) DEF TakingGuard
<1> QED
  BY <1>2, <1>3, ZenonT(40)

LEMMA OutcomesStay ==
  ASSUME Advance, NEW t \in Txn
  PROVE  OutcomeGuard(t)'
<1> DEFINE s == co[t].startTs
           p == Primary(t)
<1>0. /\ Carries(t, co'[t]) /\ OutcomeGuard(t)
      /\ p \in Key /\ p \in PrewriteKeys(t) /\ PrewriteKeys(t) \subseteq Key
      /\ ProgressGuard(t) /\ DecisionGuard(t)
  BY Basics, ZenonT(40) DEF Advance, Carried, IsolationInv
<1>1. /\ co'[t].commitTs <= tso'
      /\ co'[t].step = "cleanup" => co'[t].aggregate # "AlreadyCommitted"
      /\ co'[t].outcome = "committed" => co'[t] = co[t] \/ JustCommitted(t, co'[t])
  BY <1>0, ZenonT(40) DEF Carries
<1>2. /\ safePoint \in Nat /\ safePoint' \in Nat /\ safePoint' >= safePoint
      /\ s \in Nat /\ co[t].commitTs \in Nat
      /\ Decided(t) => s # 0 /\ co'[t].startTs = s /\ co'[t].commitTs = co[t].commitTs
                       /\ co[t].commitTs > s
  BY Timestamps, ZenonT(40)
<1>3. ASSUME co'[t].outcome = "committed" PROVE Told(t)'
  <2>1. CASE JustCommitted(t, co'[t])
    BY <1>2, <2>1, ZenonT(40) DEF JustCommitted, Told, Decided
  <2>2. CASE co'[t] = co[t]
    <3>1. Told(t) /\ (Decided(t)' <=> Decided(t))
      BY <1>0, <1>3, <2>2, ZenonT(40) DEF OutcomeGuard, Decided
    <3>2. ASSUME co[t].commitTs >= safePoint' PROVE CommitOf(cells'[p], s)
      <4>1. PICK w \in cells[p].writes : w.startTs = s /\ w.type # "Rollback"
        BY <1>2, <3>1, <3>2, SMTT(40) DEF Told, CommitOf
      <4>2. w.commitTs = co[t].commitTs
        BY <1>0, <4>1, ZenonT(40) DEF Advance, AtomicityInv, RecordGuard
      <4>3. w \in cells'[p].writes
        BY <1>0, <1>2, <3>2, <4>2, CommitStays, SMTT(40) DEF Advance, StaysAtomic
      <4> QED
        BY <4>1, <4>3, ZenonT(40) DEF CommitOf
    <3> QED
      BY <2>2, <3>1, <3>2, ZenonT(40) DEF Told
  <2> QED
    BY <1>1, <1>3, <2>1, <2>2, ZenonT(40)
<1>4. ASSUME co'[t].outcome = "committed", co'[t].commitTs < safePoint', RecoveryKeepsUp
      PROVE  Quiet(t)'
  <2>1. CASE JustCommitted(t, co'[t])
    <3>1. ~Older(t, safePoint) /\ Decided(t) /\ safePoint' = safePoint
      BY <1>0, <2>1, ZenonT(40) DEF JustCommitted, ProgressGuard
    <3> QED
      BY <1>2, <1>4, <3>1, SMTT(40) DEF Older
  <2>2. CASE co'[t] = co[t]
    <3>1. Told(t) /\ Decided(t) /\ co[t].state = "Finished" /\ s # 0
      BY <1>0, <1>2, <1>4, <2>2, ZenonT(40) DEF OutcomeGuard, Told
    <3>2. CASE co[t].commitTs < safePoint
      <4>1. Quiet(t)
        BY <1>0, <1>4, <2>2, <3>2, ZenonT(40) DEF OutcomeGuard
      <4>2. ASSUME NEW q \in sent' PROVE q.txn # t
        BY <3>1, <4>1, ZenonT(40) DEF Quiet, Advance, Carried, Sends
      <4>3. ASSUME NEW x \in lapsed' PROVE x[2] # t
        <5>1. x[1] \in Key
          BY ZenonT(40) DEF Advance, TypeOK
        <5> QED
          BY <4>1, <5>1, ZenonT(40) DEF Quiet, Advance, Carried, Sends
      <4>4. ASSUME NEW k \in Key PROVE ~LockedBy(cells'[k], s)
        BY <3>1, <4>1, NewLock, ZenonT(40) DEF Quiet
      <4>5. ASSUME NEW k \in PrewriteKeys(t) PROVE ~RollbackOf(cells'[k], s)
        <5>1. k \in Key /\ ~RollbackOf(cells[k], s) /\ ~Involved(t)
          BY <1>0, <4>1, ZenonT(40) DEF Quiet, Involved
        <5>2. Effect(k, cells'[k], safePoint')
          BY <5>1, CellFacts, ZenonT(40)
        <5>3. ASSUME NEW u \in Txn, co[u].startTs # 0, UndoneOn(u, k, cells'[k])
              PROVE  ~RollbackOf(cells'[k], s)
          <6>1. u # t
            BY <5>1, <5>3, ZenonT(40) DEF UndoneOn
          <6>2. co[u].startTs # s
            BY <3>1, <6>1, Timestamps, ZenonT(40)
          <6> QED
            BY <5>1, <5>3, <6>2, ZenonT(40) DEF UndoneOn, Undone, RollbackOf
        <5>4. ASSUME NEW u \in Txn, TakenOn(u, k, cells'[k]) \/ CommittedOn(u, k, cells'[k])
              PROVE  ~RollbackOf(cells'[k], s)
          BY <5>1, <5>4, ZenonT(40) DEF TakenOn, Taken, CommittedOn, Committed, RollbackOf
        <5>5. CASE HeldOn(k, cells'[k]) \/ CollectedOn(k, cells'[k], safePoint')
          BY <5>1, <5>5, ZenonT(40) DEF HeldOn, CollectedOn, Collected, RollbackOf
        <5> QED
          BY <5>2, <5>3, <5>4, <5>5, ZenonT(40) DEF Effect
      <4> QED
        BY <2>2, <4>2, <4>3, <4>4, <4>5, ZenonT(40) DEF Quiet
    <3>3. CASE ~(co[t].commitTs < safePoint)
      <4>1. Collects /\ Older(t, safePoint')
        <5>1. safePoint' # safePoint /\ s < safePoint'
          BY <1>2, <1>4, <2>2, <3>1, <3>3, SMTT(40)
        <5> QED
          BY <3>1, <5>1, ZenonT(40) DEF Advance, Carried, Older
      <4>2. Sealed(t)
        BY <1>0, <1>2, <3>1, <3>3, SMTT(40) DEF DecisionGuard, Told, Doomed
      <4>3. ASSUME NEW k \in Key PROVE ~LockedBy(cells[k], s)
        <5>1. cells[k].lock.startTs \in Nat
          BY CellFacts, ZenonT(40) DEF CellType, LockType, Timestamp
        <5> QED
          BY <1>2, <1>4, <4>1, <5>1, SMTT(40) DEF Collects, Older, LockedBy
      <4>4. \A q \in sent' : q.txn # t
        BY <4>1, ZenonT(40) DEF Collects
      <4>5. ASSUME NEW x \in lapsed' PROVE x[2] # t
        <5>1. x[1] \in Key
          BY ZenonT(40) DEF Advance, TypeOK
        <5> QED
          BY <4>1, <4>3, <5>1, ZenonT(40) DEF Collects
      <4>6. \A k \in Key : ~LockedBy(cells'[k], s)
        BY <4>1, <4>3, ZenonT(40) DEF Collects, LockedBy, HasLock
      <4>7. ASSUME NEW k \in PrewriteKeys(t) PROVE ~RollbackOf(cells'[k], s)
        <5>1. k \in Key /\ CommitAt(cells[k], s, co[t].commitTs)
          BY <1>0, <4>2, <4>3, ZenonT(40) DEF Sealed, Holds
        <5>2. OneRecord(cells[k]) /\ cells'[k].writes \subseteq cells[k].writes
          BY <4>1, <5>1, CellFacts, ZenonT(40) DEF CellOK, Collects
        <5> QED
          BY <5>1, <5>2, ZenonT(40) DEF CommitAt, OneRecord, RollbackOf
      <4> QED
        BY <2>2, <4>4, <4>5, <4>6, <4>7, ZenonT(40) DEF Quiet
    <3> QED
      BY <3>2, <3>3, ZenonT(40)
  <2> QED
    BY <1>1, <1>4, <2>1, <2>2, ZenonT(40)
<1> QED
  BY <1>1, <1>3, <1>4, ZenonT(40) DEF OutcomeGuard

(* A transaction whose commit is announced has not overlapped with an earlier one. *)
LEMMA NewCommitApart ==
  ASSUME Advance, NEW t \in Txn, NEW u \in Txn, t # u, NEW k \in Mutations(t) \cap Mutations(u),
         co'[t].outcome = "committed", co'[u].outcome = "committed",
         JustCommitted(u, co'[u])
  PROVE  co'[t].commitTs < co'[u].startTs \/ co'[u].commitTs < co'[t].startTs
<1> DEFINE c == cells'[k]
           st == co'[t].startTs
           su == co'[u].startTs
           ct == co'[t].commitTs
           cu == co'[u].commitTs
<1>1. /\ Told(t)' /\ Told(u)' /\ DecisionGuard(t)' /\ DecisionGuard(u)'
      /\ CoordinatorOK(co'[t], tso') /\ CoordinatorOK(co'[u], tso')
  BY OutcomesStay, ZenonT(40) DEF OutcomeGuard, Advance, StaysAtomic, AtomicityInv, Inv, CoordinatorsInv
<1>2. /\ ct # 0 /\ cu # 0 /\ ct > st /\ cu > su
      /\ ct \in Nat /\ cu \in Nat /\ st \in Nat /\ su \in Nat /\ safePoint' \in Nat
  BY <1>1, ZenonT(40) DEF Told, Decided, CoordinatorOK, Advance, TypeOK, CoordinatorType, Timestamp
<1>3. su >= safePoint'
  <2>1. /\ ~Older(u, safePoint) /\ co[u].startTs # 0 /\ safePoint' = safePoint
        /\ co'[u].startTs = co[u].startTs
    BY Basics, Timestamps, ZenonT(40) DEF Advance, JustCommitted, ProgressGuard
  <2> QED
    BY <1>2, <2>1, SMTT(40) DEF Older
<1>4. CASE ct < safePoint'
  BY <1>2, <1>3, <1>4, SMTT(40)
<1>5. CASE ~(ct < safePoint')
  <2>1. Sealed(t)' /\ Sealed(u)'
    <3>1. ct >= safePoint' /\ cu >= safePoint'
      BY <1>2, <1>3, <1>5, SMTT(40)
    <3>2. CommitOf(cells'[Primary(t)], st) /\ CommitOf(cells'[Primary(u)], su)
      BY <1>1, <3>1, ZenonT(40) DEF Told
    <3>3. ~Doomed(t)' /\ ~Doomed(u)'
      BY <3>2, ZenonT(40) DEF Doomed
    <3> QED
      BY <1>1, <3>1, <3>3, ZenonT(40) DEF DecisionGuard, Told
  <2>2. k \in PrewriteKeys(t) /\ k \in PrewriteKeys(u) /\ k \in Key
    BY WorkloadKeys, Basics, ZenonT(40) DEF PrewriteKeys, Advance
  <2>3. /\ Holds(c, st) \/ CommitAt(c, st, ct)
        /\ Holds(c, su) \/ CommitAt(c, su, cu)
    BY <2>1, <2>2, ZenonT(40) DEF Sealed
  <2>4. /\ LockAbove(c) /\ Disjoint(c) /\ st # 0 /\ su # 0 /\ st # su
        /\ LockedBy(c, st) => c.lock.kind # "lockOnly"
        /\ LockedBy(c, su) => c.lock.kind # "lockOnly"
    <3>1. CellGuard(k)'
      BY <2>2, CellsStayGuarded, ZenonT(40)
    <3>2. ASSUME NEW v \in {t, u}, co'[v].startTs = 0 PROVE FALSE
      BY <1>1, <1>2, <3>2, ZenonT(40) DEF Told, Advance, StaysAtomic, AtomicityInv, ProgressGuard
    <3>3. st # su
      BY <3>2, ZenonT(40) DEF Advance, Inv, CoordinatorsInv
    <3> QED
      BY <3>1, <3>2, <3>3, ZenonT(40) DEF CellGuard, KindFits
  <2>5. CASE CommitAt(c, st, ct) /\ CommitAt(c, su, cu)
    BY <2>4, <2>5, ZenonT(40) DEF CommitAt, Disjoint
  <2>6. CASE Holds(c, st)
    <3>1. CommitAt(c, su, cu)
      BY <2>3, <2>4, <2>6, ZenonT(40) DEF Holds, LockedBy
    <3> QED
      BY <2>4, <2>6, <3>1, ZenonT(40) DEF LockAbove, Holds, LockedBy, IsPessimistic, CommitAt
  <2>7. CASE Holds(c, su)
    <3>1. CommitAt(c, st, ct)
      BY <2>3, <2>4, <2>7, ZenonT(40) DEF Holds, LockedBy
    <3> QED
      BY <2>4, <2>7, <3>1, ZenonT(40) DEF LockAbove, Holds, LockedBy, IsPessimistic, CommitAt
  <2> QED
    BY <2>3, <2>5, <2>6, <2>7, ZenonT(40)
<1> QED
  BY <1>4, <1>5, ZenonT(40)

LEMMA UpdatesStay ==
  ASSUME Advance
  PROVE  NoLostUpdate'
<1>1. SUFFICES ASSUME NEW t \in Txn, NEW u \in Txn, t # u, NEW k \in Mutations(t) \cap Mutations(u),
                      co'[t].outcome = "committed", co'[u].outcome = "committed"
               PROVE  co'[t].commitTs < co'[u].startTs \/ co'[u].commitTs < co'[t].startTs
  BY ZenonT(40) DEF NoLostUpdate
<1>2. /\ co'[t] = co[t] \/ JustCommitted(t, co'[t])
      /\ co'[u] = co[u] \/ JustCommitted(u, co'[u])
  BY <1>1, ZenonT(40) DEF Advance, Carried, Carries
<1>3. CASE JustCommitted(u, co'[u])
  BY <1>1, <1>3, NewCommitApart, ZenonT(40)
<1>4. CASE JustCommitted(t, co'[t])
  BY <1>1, <1>4, NewCommitApart, ZenonT(40)
<1>5. CASE co'[t] = co[t] /\ co'[u] = co[u]
  BY <1>1, <1>5, ZenonT(40) DEF Advance, IsolationInv, NoLostUpdate
<1> QED
  BY <1>2, <1>3, <1>4, <1>5, ZenonT(40)

(* So a step of the system keeps the invariant. *)
LEMMA StaysIsolated ==
  ASSUME Advance
  PROVE  IsolationInv'
<1>1. \A k \in Key : CellGuard(k)'
  BY CellsStayGuarded, ZenonT(40)
<1>2. \A t \in Txn : OutcomeGuard(t)'
  BY OutcomesStay, ZenonT(40)
<1>3. \A q \in sent' : TakingGuard(q)'
  BY TakingStays, ZenonT(40)
<1>4. \A r \in reads' : ReadGuard(r)'
  BY ReadsStay, ZenonT(40) DEF Advance, Carried, Answers
<1>5. \A r \in locked' : LockedGuard(r)'
  BY LockedStay, ZenonT(40) DEF Advance, Carried, Answers
<1> QED
  BY <1>1, <1>2, <1>3, <1>4, <1>5, UpdatesStay, ZenonT(40) DEF IsolationInv

-----------------------------------------------------------------------------
(* What the steps of one coordinator do *)

Ready == TypeOK /\ TypeOK' /\ Inv /\ AtomicityInv /\ IsolationInv

(* What is known of the coordinator of t before it moves. *)
LEMMA Before ==
  ASSUME Ready, NEW t \in Txn
  PROVE  /\ co[t] \in CoordinatorType /\ co \in [Txn -> CoordinatorType]
         /\ tso \in Nat /\ tso' \in Nat /\ co[t].startTs \in Nat /\ co[t].commitTs \in Nat
         /\ CoordinatorOK(co[t], tso) /\ ProgressGuard(t) /\ OutcomeGuard(t)
         /\ co[t].step # "app" \/ co[t].state # "Finished" => co[t].outcome # "committed"
         /\ co[t].step \in {"lock", "prewrite", "commit", "query"} => co[t].state = "Active"
         /\ co[t].step # "resolve"
<1>1. /\ co[t] \in CoordinatorType /\ co \in [Txn -> CoordinatorType] /\ tso \in Nat /\ tso' \in Nat
  BY ZenonT(40) DEF Ready, TypeOK, Timestamp
<1>2. co[t].startTs \in Nat /\ co[t].commitTs \in Nat
  BY <1>1, ZenonT(40) DEF CoordinatorType, Timestamp
<1>3. CoordinatorOK(co[t], tso) /\ ProgressGuard(t) /\ OutcomeGuard(t)
  BY ZenonT(40) DEF Ready, Inv, CoordinatorsInv, AtomicityInv, IsolationInv
<1>4. co[t].outcome = "committed" => co[t].step = "app" /\ co[t].state = "Finished"
  BY <1>3, ZenonT(40) DEF OutcomeGuard, Told
<1>5. /\ co[t].step # "resolve"
      /\ co[t].step \in {"lock", "prewrite", "commit", "query"} => co[t].state = "Active"
  BY <1>3, ZenonT(40) DEF ProgressGuard, Composed
<1> QED
  BY <1>1, <1>2, <1>3, <1>4, <1>5, ZenonT(40)

(* t moves on to c without a commit timestamp and without news of a commit. *)
LEMMA PlainMove ==
  ASSUME Ready, NEW t \in Txn, NEW c, tso' >= tso,
         c.commitTs = co[t].commitTs, c.outcome # "committed",
         c.step = "cleanup" => c.aggregate # "AlreadyCommitted",
         Engaging(c) => \/ Decided(t) \/ co[t].step = "idle"
                        \/ /\ Engaging(co[t])
                           /\ \A k \in Key : Waiting(co[t], k) =>
                                Waiting(c, k) \/ LockedBy(cells'[k], co[t].startTs)
  PROVE  Carries(t, c)
<1>1. /\ tso \in Nat /\ tso' \in Nat /\ co[t].commitTs \in Nat /\ CoordinatorOK(co[t], tso)
      /\ ProgressGuard(t) /\ OutcomeGuard(t)
  BY Before, ZenonT(40)
<1>2. co[t].commitTs <= tso'
  BY <1>1, SMTT(40) DEF OutcomeGuard
<1>3. Decided(t) => Engaging(co[t]) /\ \A k \in Key : ~Waiting(co[t], k)
  BY <1>1, DecidedIsDone, ZenonT(40) DEF Decided, Engaging, Waiting
<1>4. co[t].step = "idle" => co[t].startTs = 0 /\ \A k \in Key : ~Waiting(co[t], k)
  BY <1>1, ZenonT(40) DEF ProgressGuard, Waiting
<1>5. c.commitTs # 0 => Decided(t)
  BY ZenonT(40) DEF Decided
<1> QED
  BY <1>2, <1>3, <1>4, <1>5, ZenonT(40) DEF Carries

LEMMA NoMove ==
  ASSUME Ready, NEW t \in Txn, co'[t] = co[t], tso' >= tso
  PROVE  Carries(t, co'[t])
<1>1. /\ tso \in Nat /\ tso' \in Nat /\ co[t].commitTs \in Nat /\ OutcomeGuard(t)
  BY Before, ZenonT(40)
<1>2. co[t].commitTs <= tso'
  BY <1>1, SMTT(40) DEF OutcomeGuard
<1> QED
  BY <1>1, <1>2, SMTT(40) DEF Carries, Decided, OutcomeGuard

Proceeds(t) ==
  /\ \A u \in Txn \ {t} : co'[u] = co[u]
  /\ tso' >= tso /\ lapsed' = lapsed /\ safePoint' = safePoint
  /\ \A q \in sent' \ sent : /\ q.txn = t /\ co[t].state # "Finished"
                             /\ Taking(q) => \A k \in q.keys : Waiting(co'[t], k)

LEMMA OneMove ==
  ASSUME Ready, NEW t \in Txn, Proceeds(t), Carries(t, co'[t]), Answers
  PROVE  Carried
<1>1. ASSUME NEW u \in Txn \ {t} PROVE Carries(u, co'[u])
  BY NoMove, ZenonT(40) DEF Proceeds
<1>2. Sends
  BY ZenonT(40) DEF Sends, Proceeds
<1> QED
  BY <1>1, <1>2, ZenonT(40) DEF Carried, Proceeds

LEMMA NothingAnswered ==
  ASSUME reads' = reads, locked' = locked PROVE Answers
BY ZenonT(40) DEF Answers

LEMMA CleanupCarries ==
  ASSUME Ready, NEW t \in Txn, co[t].state # "Finished",
         NEW c \in CoordinatorType, NEW why, Cleanup(t, c, why),
         c.commitTs = co[t].commitTs, c.outcome = co[t].outcome,
         tso' = tso, lapsed' = lapsed, safePoint' = safePoint, reads' = reads, locked' = locked
  PROVE  Carried
<1> DEFINE d == [c EXCEPT !.step = "cleanup", !.why = why, !.todo = CleanupKeys(c, t),
                          !.aggregate = "Ok"]
<1>1. co'[t] = d /\ \A u \in Txn \ {t} : co'[u] = co[u]
  BY ZenonT(40) DEF Cleanup, Ready, TypeOK
<1>2. /\ d.step = "cleanup" /\ d.aggregate = "Ok" /\ d.commitTs = c.commitTs
      /\ d.outcome = c.outcome
  BY ZenonT(40) DEF CoordinatorType
<1> HIDE DEF d
<1>3. tso' >= tso /\ co[t].outcome # "committed"
  BY Before, SMTT(40)
<1>4. Engaging(d) => Decided(t)
  BY <1>2, ZenonT(40) DEF Engaging, Decided
<1>5. Carries(t, d)
  BY <1>2, <1>3, <1>4, PlainMove, ZenonT(40)
<1>6. Proceeds(t)
  BY <1>1, <1>3, SMTT(40) DEF Proceeds, Cleanup, Request, Taking
<1> QED
  BY <1>1, <1>5, <1>6, OneMove, NothingAnswered, ZenonT(40)

LEMMA SendLockCarries ==
  ASSUME Ready, NEW t \in Txn, co[t].state = "Active",
         CallingActive(t) \/ co[t].step = "lock",
         NEW c \in CoordinatorType, SendLock(t, c), c.step = "lock",
         c.commitTs = co[t].commitTs, c.outcome = co[t].outcome,
         \A k \in Key : Waiting(co[t], k) => k \in c.todo \/ LockedBy(cells'[k], co[t].startTs),
         tso' >= tso, lapsed' = lapsed, safePoint' = safePoint, Answers
  PROVE  Carried
<1>1. /\ \A u \in Txn \ {t} : co'[u] = co[u]
      /\ IF c.todo = {} THEN co'[t].step = "app" ELSE co'[t].step = "lock"
      /\ co'[t].commitTs = c.commitTs /\ co'[t].outcome = c.outcome /\ co'[t].todo = c.todo
  <2>1. CASE c.todo = {}
    <3>1. co' = [co EXCEPT ![t] = [c EXCEPT !.step = "app"]]
      BY <2>1, ZenonT(40) DEF SendLock
    <3> QED
      BY <2>1, <3>1, ZenonT(40) DEF Ready, TypeOK, CoordinatorType
  <2>2. CASE c.todo # {}
    <3>1. co' = [co EXCEPT ![t] = [c EXCEPT !.held = @ \cup {FirstKey(c.todo)}]]
      BY <2>2, ZenonT(40) DEF SendLock
    <3> QED
      BY <2>2, <3>1, ZenonT(40) DEF Ready, TypeOK, CoordinatorType
  <2> QED
    BY <2>1, <2>2, ZenonT(40)
<1>2. co[t].outcome # "committed" /\ Engaging(co[t])
  BY Before, ZenonT(40) DEF Engaging, CallingActive, Calling
<1>3. ASSUME NEW k \in Key, Waiting(co[t], k)
      PROVE  Waiting(co'[t], k) \/ LockedBy(cells'[k], co[t].startTs)
  BY <1>1, <1>3, ZenonT(40) DEF Waiting
<1>4. Carries(t, co'[t])
  BY <1>1, <1>2, <1>3, PlainMove, ZenonT(40)
<1>5. ASSUME NEW q \in sent' \ sent
      PROVE  q.txn = t /\ \A k \in q.keys : Waiting(co'[t], k)
  <2>1. c.todo # {} /\ q = LockRequest(t, c)
    BY ZenonT(40) DEF SendLock
  <2>2. q.txn = t /\ q.keys = {FirstKey(c.todo)}
    BY <2>1, ZenonT(40) DEF LockRequest, Request
  <2>3. FirstKey(c.todo) \in c.todo
    BY <2>1, FirstKeyInSet, ZenonT(40) DEF CoordinatorType
  <2> QED
    BY <1>1, <2>1, <2>2, <2>3, ZenonT(40) DEF Waiting
<1>6. Proceeds(t)
  BY <1>1, <1>5, ZenonT(40) DEF Proceeds
<1> QED
  BY <1>4, <1>6, OneMove, ZenonT(40)

(* t moves on without a request that takes locks. *)
LEMMA PlainStep ==
  ASSUME Ready, NEW t \in Txn, \A u \in Txn \ {t} : co'[u] = co[u],
         tso' >= tso, lapsed' = lapsed, safePoint' = safePoint, reads' = reads, locked' = locked,
         \A q \in sent' \ sent : q.txn = t /\ co[t].state # "Finished" /\ ~Taking(q),
         co'[t].commitTs = co[t].commitTs, co'[t].outcome # "committed",
         co'[t].step = "cleanup" => co'[t].aggregate # "AlreadyCommitted",
         Engaging(co'[t]) => \/ Decided(t) \/ co[t].step = "idle"
                             \/ /\ Engaging(co[t])
                                /\ \A k \in Key : Waiting(co[t], k) =>
                                     Waiting(co'[t], k) \/ LockedBy(cells'[k], co[t].startTs)
  PROVE  Carried
<1>1. Carries(t, co'[t])
  BY PlainMove, ZenonT(40)
<1>2. Proceeds(t)
  BY ZenonT(40) DEF Proceeds
<1> QED
  BY <1>1, <1>2, OneMove, NothingAnswered, ZenonT(40)

LEMMA SimpleCallsCarry ==
  ASSUME Ready, NEW t \in Txn, Begin(t) \/ Deadline(t) \/ Write(t)
  PROVE  Carried
<1>0. /\ co[t] \in CoordinatorType /\ co \in [Txn -> CoordinatorType]
      /\ tso \in Nat /\ tso' \in Nat
      /\ co[t].step # "app" \/ co[t].state # "Finished" => co[t].outcome # "committed"
  BY Before, ZenonT(40)
<1>1. CASE Begin(t)
  <2>1. /\ tso' = tso + 1 /\ sent' = sent /\ lapsed' = lapsed /\ safePoint' = safePoint
        /\ reads' = reads /\ locked' = locked /\ co[t].step = "idle"
    BY <1>1, ZenonT(40) DEF Begin
  <2>2. /\ \A u \in Txn \ {t} : co'[u] = co[u]
        /\ co'[t].commitTs = co[t].commitTs /\ co'[t].outcome = co[t].outcome
        /\ co'[t].step = "app"
    BY <1>0, <1>1, ZenonT(40) DEF Begin, CoordinatorType
  <2>3. tso' >= tso /\ co'[t].outcome # "committed"
    BY <1>0, <2>1, <2>2, SMTT(40)
  <2> QED
    BY <2>1, <2>2, <2>3, PlainStep, ZenonT(40)
<1>2. CASE Deadline(t)
  <2>1. /\ tso' = tso /\ sent' = sent /\ lapsed' = lapsed /\ safePoint' = safePoint
        /\ reads' = reads /\ locked' = locked /\ co[t].step = "app"
    BY <1>2, ZenonT(40) DEF Deadline, CallingActive, Calling
  <2>2. /\ \A u \in Txn \ {t} : co'[u] = co[u]
        /\ co'[t].commitTs = co[t].commitTs /\ co'[t].outcome = "aborted"
        /\ co'[t].step = co[t].step /\ co'[t].state = "AbortOnly"
    BY <1>0, <1>2, ZenonT(40) DEF Deadline, CoordinatorType
  <2>3. tso' >= tso
    BY <1>0, <2>1, SMTT(40)
  <2>4. Engaging(co'[t]) => Decided(t)
    BY <2>1, <2>2, ZenonT(40) DEF Engaging, Decided
  <2> QED
    BY <2>1, <2>2, <2>3, <2>4, PlainStep, ZenonT(40)
<1>3. CASE Write(t)
  <2>1. /\ tso' = tso /\ sent' = sent /\ lapsed' = lapsed /\ safePoint' = safePoint
        /\ reads' = reads /\ locked' = locked /\ co[t].step = "app" /\ co[t].state = "Active"
    BY <1>3, ZenonT(40) DEF Write, CallingActive, Calling
  <2>2. /\ \A u \in Txn \ {t} : co'[u] = co[u]
        /\ co'[t].commitTs = co[t].commitTs /\ co'[t].outcome = co[t].outcome
        /\ co'[t].step = co[t].step
    BY <1>0, <1>3, ZenonT(40) DEF Write, CoordinatorType
  <2>3. tso' >= tso /\ co'[t].outcome # "committed"
    BY <1>0, <2>1, <2>2, SMTT(40)
  <2>4. Engaging(co[t]) /\ \A k \in Key : ~Waiting(co[t], k)
    BY <2>1, ZenonT(40) DEF Engaging, Waiting
  <2> QED
    BY <2>1, <2>2, <2>3, <2>4, PlainStep, ZenonT(40)
<1> QED
  BY <1>1, <1>2, <1>3, ZenonT(40)

LEMMA GetCarries ==
  ASSUME Ready, NEW t \in Txn, NEW k \in Key, Get(t, k)
  PROVE  Carried
<1> DEFINE s == co[t].startTs
           r == [key |-> k, readTs |-> s, version |-> ReadCommitted(cells[k], s)]
<1>1. /\ cells' = cells /\ tso' = tso /\ co' = co /\ sent' = sent /\ lapsed' = lapsed
      /\ safePoint' = safePoint /\ locked' = locked /\ reads' = reads \cup {r}
      /\ GetStatus(cells[k], s) \in {"Ok", "NotFound"}
  BY ZenonT(40) DEF Get
<1>2. /\ tso \in Nat /\ s \in Nat /\ s <= tso /\ cells[k] \in CellType
  BY Before, ZenonT(40) DEF CoordinatorOK, Ready, TypeOK
<1>3. ASSUME NEW u \in Txn, LockedBy(cells[k], co[u].startTs), Decided(u)
      PROVE  co[u].commitTs > s
  <2>1. HasLock(cells[k]) /\ cells[k].lock.startTs = co[u].startTs
    BY <1>3, ZenonT(40) DEF LockedBy
  <2>2. /\ co[u].startTs \in Nat /\ co[u].commitTs \in Nat /\ CoordinatorOK(co[u], tso)
    BY Before, ZenonT(40)
  <2>3. co[u].commitTs > co[u].startTs
    BY <1>3, <2>2, ZenonT(40) DEF CoordinatorOK, Decided
  <2>4. \A w \in cells[k].writes : w.startTs # cells[k].lock.startTs
    BY <2>1, ZenonT(40) DEF Ready, Inv, CellsInv, CellOK, OwnerUndecided
  <2>5. ~(co[u].startTs <= s)
    BY <1>1, <2>1, <2>4, ZenonT(40) DEF GetStatus
  <2> QED
    BY <1>2, <2>2, <2>3, <2>5, SMTT(40)
<1>4. PICK x : x = r
  BY ZenonT(40)
<1>5. x.key = k /\ x.readTs = s /\ x.version = ReadCommitted(cells[k], s)
  BY <1>4, ZenonT(40)
<1>6. ReadGuard(x)'
  BY <1>1, <1>2, <1>3, <1>5, ZenonT(40) DEF ReadGuard, Decided
<1>7. Answers
  BY <1>1, <1>4, <1>6, ZenonT(40) DEF Answers
<1>8. \A u \in Txn : Carries(u, co'[u])
  BY <1>1, <1>2, NoMove, SMTT(40)
<1>9. Sends /\ tso' >= tso
  BY <1>1, <1>2, SMTT(40) DEF Sends
<1> QED
  BY <1>1, <1>7, <1>8, <1>9, ZenonT(40) DEF Carried

LEMMA AcquireCarries ==
  ASSUME Ready, NEW t \in Txn, AcquireKeys(t)
  PROVE  Carried
<1> DEFINE next == co[t].calls + 1
           c == [co[t] EXCEPT !.step = "lock", !.calls = next,
                              !.todo = Workload[t].locks[next],
                              !.maxForUpdateTs = tso + 1]
<1>0. co[t] \in CoordinatorType /\ tso \in Nat
  BY Before, ZenonT(40)
<1>1. /\ CallingActive(t) /\ SendLock(t, c) /\ tso' = tso + 1 /\ lapsed' = lapsed
      /\ safePoint' = safePoint /\ reads' = reads /\ locked' = locked
      /\ next <= Len(Workload[t].locks)
  BY ZenonT(40) DEF AcquireKeys
<1>2. c \in CoordinatorType
  <2>1. next \in 1..Len(Workload[t].locks) /\ next \in Nat /\ tso + 1 \in Nat
    BY <1>0, <1>1, WorkloadKeys, SMTT(40) DEF CoordinatorType
  <2>2. Workload[t].locks[next] \in SUBSET Key
    BY <2>1, WorkloadKeys, SMTT(40) DEF WorkloadType
  <2> HIDE DEF next
  <2> QED
    BY <1>0, <2>1, <2>2, AcquiringType, ZenonT(40)
<1>3. c.step = "lock" /\ c.commitTs = co[t].commitTs /\ c.outcome = co[t].outcome
  BY <1>0, ZenonT(40) DEF CoordinatorType
<1>4. /\ co[t].state = "Active" /\ tso' >= tso
      /\ \A k \in Key : ~Waiting(co[t], k)
  BY <1>0, <1>1, SMTT(40) DEF CallingActive, Calling, Waiting
<1> HIDE DEF c
<1> QED
  BY <1>1, <1>2, <1>3, <1>4, NothingAnswered, SendLockCarries, ZenonT(40)

(* The version a locking read returns is the newest one. *)
LEMMA LockingReadCurrent ==
  ASSUME Ready, NEW t \in Txn, NEW k \in Key, NEW q \in sent, co[t].startTs # 0,
         q.op = "lock", q.txn = t, q.keys = {k}, Answer(q, TRUE)
  PROVE  /\ LockedBy(cells'[k], co[t].startTs)
         /\ ReadCommitted(cells'[k], tso) = ReadCommitted(cells[k], cells'[k].lock.forUpdateTs)
<1> DEFINE c == cells[k]
           d == cells'[k]
<1>1. c \in CellType /\ d \in CellType /\ q \in RequestType /\ Primary(t) \in Key
  BY Basics, ZenonT(40) DEF Ready, TypeOK
<1>2. LockAbove(c) /\ \A w \in c.writes : w.commitTs <= tso
  BY ZenonT(40) DEF Ready, IsolationInv, CellGuard
<1>3. AllSucceed(q) /\ cells' = Executed(q)
  BY ZenonT(40) DEF Answer
<1>4. StatusOn(q, k) = "Ok" /\ d = ApplyOn(q, k)
  BY <1>3, ZenonT(40) DEF AllSucceed, Succeeds, Executed
<1>5. /\ PessimisticLockStatus(c, Primary(t), co[t].startTs, q.ts) = "Ok"
      /\ d = PessimisticLockApply(c, Primary(t), co[t].startTs, q.ts)
  BY <1>4, ZenonT(40) DEF StatusOn, ApplyOn
<1>6. q.ts \in Nat /\ co[t].startTs \in Nat /\ tso \in Nat
  BY <1>1, Before, ZenonT(40) DEF RequestType, Timestamp
<1> HIDE DEF c, d
<1>7. LockAbove(d) /\ LockedBy(d, co[t].startTs) /\ d.lock.kind = "pessimistic" /\ d.writes = c.writes
  BY <1>1, <1>2, <1>5, <1>6, LockGuards, SMTT(40)
<1>8. \A w \in c.writes : w.type # "Rollback" =>
        w.commitTs <= tso /\ w.commitTs <= d.lock.forUpdateTs
  BY <1>2, <1>7, ZenonT(40) DEF LockAbove, LockedBy
<1>9. d.lock.forUpdateTs \in Nat
  BY <1>1, ZenonT(40) DEF CellType, LockType, Timestamp
<1>10. ReadCommitted(d, tso) = ReadCommitted(c, d.lock.forUpdateTs)
  BY <1>1, <1>6, <1>7, <1>8, <1>9, NewestRead, SMTT(40)
<1> QED
  BY <1>7, <1>10, ZenonT(40) DEF c, d

LEMMA LockAcquiredCarries ==
  ASSUME Ready, NEW t \in Txn, LockAcquired(t)
  PROVE  Carried
<1> DEFINE k == FirstKey(co[t].todo)
           c == [co[t] EXCEPT !.todo = @ \ {k}]
           q == LockRequest(t, co[t])
           v == ReadCommitted(cells[k], cells'[k].lock.forUpdateTs)
<1>0. /\ co[t] \in CoordinatorType /\ co \in [Txn -> CoordinatorType] /\ tso \in Nat
      /\ ProgressGuard(t)
  BY Before, ZenonT(40)
<1>1. /\ co[t].step = "lock" /\ Answer(q, TRUE) /\ SendLock(t, c)
      /\ locked' = locked \cup {[txn |-> t, key |-> k, version |-> v]}
      /\ tso' = tso /\ lapsed' = lapsed /\ safePoint' = safePoint /\ reads' = reads
  BY ZenonT(40) DEF LockAcquired
<1>2. /\ c \in CoordinatorType /\ c.step = co[t].step /\ c.commitTs = co[t].commitTs
      /\ c.outcome = co[t].outcome /\ c.startTs = co[t].startTs /\ c.todo = co[t].todo \ {k}
  BY <1>0, ZenonT(40) DEF CoordinatorType
<1>3. q \in sent /\ q.op = "lock" /\ q.txn = t /\ q.keys = {k}
  BY <1>1, ZenonT(40) DEF Answer, LockRequest, Request
<1>4. k \in Key
  BY <1>3, ZenonT(40) DEF Ready, TypeOK, RequestType
<1>5. co[t].state = "Active" /\ co[t].startTs # 0
  BY <1>0, <1>1, Before, ZenonT(40) DEF ProgressGuard
<1> HIDE DEF q, k
<1>6. LockedBy(cells'[k], co[t].startTs) /\ ReadCommitted(cells'[k], tso) = v
  BY <1>1, <1>3, <1>4, <1>5, LockingReadCurrent, ZenonT(40)
<1> HIDE DEF c, v
<1>7. co'[t].startTs = co[t].startTs
  <2>1. CASE c.todo = {}
    BY <1>0, <1>1, <1>2, <2>1, SMTT(40) DEF SendLock, CoordinatorType
  <2>2. CASE c.todo # {}
    BY <1>0, <1>1, <1>2, <2>2, SMTT(40) DEF SendLock, CoordinatorType
  <2> QED
    BY <2>1, <2>2, ZenonT(40)
<1>8. PICK x : x = [txn |-> t, key |-> k, version |-> v]
  BY ZenonT(40)
<1>9. x.txn = t /\ x.key = k /\ x.version = v
  BY <1>8, ZenonT(40)
<1>10. LockedGuard(x)'
  BY <1>1, <1>5, <1>6, <1>7, <1>9, ZenonT(40) DEF LockedGuard
<1>11. Answers
  BY <1>1, <1>8, <1>10, ZenonT(40) DEF Answers
<1>12. \A j \in Key : Waiting(co[t], j) => j \in c.todo \/ LockedBy(cells'[j], co[t].startTs)
  BY <1>2, <1>6, ZenonT(40) DEF Waiting
<1>13. tso' >= tso
  BY <1>0, <1>1, SMTT(40)
<1> QED
  BY <1>1, <1>2, <1>5, <1>11, <1>12, <1>13, SendLockCarries, ZenonT(40)

LEMMA AbortingCarries ==
  ASSUME Ready, NEW t \in Txn,
         \/ LockRefused(t) \/ LockUnknown(t) \/ CommitLockOnly(t) \/ PrewriteFailed(t)
         \/ QueryRolledBack(t) \/ Rollback(t)
  PROVE  Carried
<1>0. co[t] \in CoordinatorType
  BY Before, ZenonT(40)
<1>1. ASSUME NEW c \in CoordinatorType
      PROVE  /\ AbortOnly(c) \in CoordinatorType
             /\ AbortOnly(c).commitTs = c.commitTs /\ AbortOnly(c).outcome = c.outcome
  BY <1>1, ZenonT(40) DEF AbortOnly, CoordinatorType, StateType
<1>2. co[t].step \in {"lock", "prewrite", "query"} => co[t].state = "Active"
  BY Before, ZenonT(40)
<1>3. CASE LockRefused(t)
  <2> DEFINE k == FirstKey(co[t].todo)
             forgotten == IF StatusOn(LockRequest(t, co[t]), k) = "StorageError" THEN {} ELSE {k}
             b == [co[t] EXCEPT !.held = @ \ forgotten]
  <2>1. /\ co[t].step = "lock" /\ Cleanup(t, AbortOnly(b), "abort") /\ tso' = tso
        /\ lapsed' = lapsed /\ safePoint' = safePoint /\ reads' = reads /\ locked' = locked
    BY <1>3, ZenonT(40) DEF LockRefused
  <2> HIDE DEF forgotten
  <2>2. b \in CoordinatorType /\ b.commitTs = co[t].commitTs /\ b.outcome = co[t].outcome
    BY <1>0, ZenonT(40) DEF CoordinatorType
  <2> HIDE DEF b
  <2>3. /\ AbortOnly(b) \in CoordinatorType
        /\ AbortOnly(b).commitTs = co[t].commitTs /\ AbortOnly(b).outcome = co[t].outcome
    BY <1>1, <2>2, ZenonT(40)
  <2>4. co[t].state # "Finished"
    BY <1>2, <2>1, ZenonT(40)
  <2> QED
    BY <2>1, <2>3, <2>4, CleanupCarries, ZenonT(40)
<1>4. CASE LockUnknown(t) \/ PrewriteFailed(t) \/ QueryRolledBack(t)
  <2>1. /\ co[t].step \in {"lock", "prewrite", "query"} /\ Cleanup(t, AbortOnly(co[t]), "abort")
        /\ tso' = tso /\ lapsed' = lapsed /\ safePoint' = safePoint /\ reads' = reads
        /\ locked' = locked
    BY <1>4, ZenonT(40) DEF LockUnknown, PrewriteFailed, QueryRolledBack
  <2>2. co[t].state # "Finished"
    BY <1>2, <2>1, ZenonT(40)
  <2> QED
    BY <1>0, <1>1, <2>1, <2>2, CleanupCarries, ZenonT(40)
<1>5. CASE CommitLockOnly(t) \/ Rollback(t)
  <2>1. /\ co[t].state # "Finished" /\ \E why : Cleanup(t, co[t], why)
        /\ tso' = tso /\ lapsed' = lapsed /\ safePoint' = safePoint /\ reads' = reads
        /\ locked' = locked
    BY <1>5, ZenonT(40) DEF CommitLockOnly, Rollback, CallingActive
  <2> QED
    BY <1>0, <2>1, CleanupCarries, ZenonT(40)
<1> QED
  BY <1>3, <1>4, <1>5, ZenonT(40)

LEMMA PrewriteCarries ==
  ASSUME Ready, NEW t \in Txn, Prewrite(t)
  PROVE  Carried
<1>0. /\ co[t] \in CoordinatorType /\ co \in [Txn -> CoordinatorType] /\ tso \in Nat
      /\ co[t].step # "app" \/ co[t].state # "Finished" => co[t].outcome # "committed"
  BY Before, ZenonT(40)
<1>1. /\ co[t].step = "app" /\ co[t].state = "Active" /\ tso' = tso /\ lapsed' = lapsed
      /\ safePoint' = safePoint /\ reads' = reads /\ locked' = locked
  BY ZenonT(40) DEF Prewrite, CallingActive, Calling
<1>2. /\ \A u \in Txn \ {t} : co'[u] = co[u]
      /\ co'[t].commitTs = co[t].commitTs /\ co'[t].outcome = co[t].outcome
      /\ co'[t].step = "prewrite" /\ co'[t].todo = PrewriteKeys(t)
  BY <1>0, ZenonT(40) DEF Prewrite, CoordinatorType
<1>3. tso' >= tso /\ co'[t].outcome # "committed"
  BY <1>0, <1>1, <1>2, SMTT(40)
<1>4. Engaging(co[t]) /\ \A k \in Key : ~Waiting(co[t], k)
  BY <1>1, ZenonT(40) DEF Engaging, Waiting
<1>5. Carries(t, co'[t])
  BY <1>2, <1>3, <1>4, PlainMove, ZenonT(40)
<1>6. ASSUME NEW q \in sent' \ sent
      PROVE  q.txn = t /\ \A k \in q.keys : Waiting(co'[t], k)
  <2>1. PICK K \in GroupKeysByRegion(PrewriteKeys(t)) : q = PrewriteRequest(t, K)
    BY ZenonT(40) DEF Prewrite
  <2>2. K \subseteq PrewriteKeys(t)
    BY <2>1, ZenonT(40) DEF GroupKeysByRegion
  <2>3. q.txn = t /\ q.keys = K
    BY <2>1, ZenonT(40) DEF PrewriteRequest, Request
  <2> QED
    BY <1>2, <2>2, <2>3, ZenonT(40) DEF Waiting
<1>7. Proceeds(t)
  BY <1>1, <1>2, <1>3, <1>6, ZenonT(40) DEF Proceeds
<1> QED
  BY <1>1, <1>5, <1>7, OneMove, NothingAnswered, ZenonT(40)

LEMMA PrewriteAnswerCarries ==
  ASSUME Ready, NEW t \in Txn, NEW K \in SUBSET Key,
         PrewriteAnswered(t, K) \/ PrewriteUnknown(t, K)
  PROVE  Carried
<1> DEFINE q == PrewriteRequest(t, K)
<1>0. /\ co[t] \in CoordinatorType /\ co \in [Txn -> CoordinatorType] /\ tso \in Nat
      /\ co[t].step # "app" \/ co[t].state # "Finished" => co[t].outcome # "committed"
  BY Before, ZenonT(40)
<1>1. /\ co[t].step = "prewrite" /\ tso' = tso /\ lapsed' = lapsed /\ sent' = sent
      /\ safePoint' = safePoint /\ reads' = reads /\ locked' = locked
  BY ZenonT(40) DEF PrewriteAnswered, PrewriteUnknown
<1>2. PICK a : /\ co' = [co EXCEPT ![t].todo = @ \ K, ![t].aggregate = a]
               /\ a = "Failed" \/ (a = co[t].aggregate /\ Answer(q, TRUE))
  <2>1. CASE PrewriteUnknown(t, K)
    BY <2>1, ZenonT(40) DEF PrewriteUnknown
  <2>2. CASE PrewriteAnswered(t, K)
    <3>1. PICK ok \in BOOLEAN :
             /\ Answer(q, ok)
             /\ co' = [co EXCEPT ![t].todo = @ \ K, ![t].aggregate = IF ok THEN @ ELSE "Failed"]
      BY <2>2, ZenonT(40) DEF PrewriteAnswered
    <3>2. CASE ok
      <4>1. co' = [co EXCEPT ![t].todo = @ \ K, ![t].aggregate = @]
        BY <3>1, <3>2, ZenonT(40)
      <4>2. [co EXCEPT ![t].todo = @ \ K, ![t].aggregate = @]
              = [co EXCEPT ![t].todo = @ \ K, ![t].aggregate = co[t].aggregate]
        BY <1>0, ZenonT(40) DEF CoordinatorType
      <4>3. Answer(q, TRUE)
        BY <3>1, <3>2, ZenonT(40)
      <4> QED
        BY <4>1, <4>2, <4>3, ZenonT(40)
    <3>3. CASE ~ok
      BY <3>1, <3>3, ZenonT(40)
    <3> QED
      BY <3>2, <3>3, ZenonT(40)
  <2> QED
    BY <2>1, <2>2, ZenonT(40)
<1>3. /\ \A u \in Txn \ {t} : co'[u] = co[u]
      /\ co'[t].commitTs = co[t].commitTs /\ co'[t].outcome = co[t].outcome
      /\ co'[t].step = co[t].step /\ co'[t].state = co[t].state
      /\ co'[t].todo = co[t].todo \ K /\ co'[t].aggregate = a
  BY <1>0, <1>2, ZenonT(40) DEF CoordinatorType
<1>4. tso' >= tso /\ co'[t].outcome # "committed"
  BY <1>0, <1>1, <1>3, SMTT(40)
<1>5. CASE a = "Failed"
  <2>1. Engaging(co'[t]) => Decided(t)
    BY <1>1, <1>3, <1>5, ZenonT(40) DEF Engaging, Decided
  <2> QED
    BY <1>1, <1>3, <1>4, <2>1, PlainStep, ZenonT(40)
<1>6. CASE a = co[t].aggregate /\ Answer(q, TRUE)
  <2>1. q \in sent /\ q.op = "prewrite" /\ q.txn = t /\ q.keys = K
    BY <1>6, ZenonT(40) DEF Answer, PrewriteRequest, Request
  <2> HIDE DEF q
  <2>2. ASSUME NEW k \in K PROVE LockedBy(cells'[k], co[t].startTs)
    <3>1. InTime(q) /\ Succeeds(q, k) /\ cells'[k] = ApplyOn(q, k)
      BY <1>6, <2>1, <2>2, ZenonT(40) DEF Answer, AllSucceed, Executed
    <3>2. LockAbove(cells[k]) /\ Taking(q)
      BY <2>1, <2>2, ZenonT(40) DEF Ready, IsolationInv, CellGuard, Taking
    <3> QED
      BY <2>1, <2>2, <3>1, <3>2, TakingEffect, ZenonT(40) DEF Ready
  <2>3. Engaging(co'[t]) => Engaging(co[t])
    BY <1>3, <1>6, ZenonT(40) DEF Engaging
  <2>4. \A k \in Key : Waiting(co[t], k) =>
          Waiting(co'[t], k) \/ LockedBy(cells'[k], co[t].startTs)
    BY <1>3, <2>2, ZenonT(40) DEF Waiting
  <2> QED
    BY <1>1, <1>3, <1>4, <2>3, <2>4, PlainStep, ZenonT(40)
<1> QED
  BY <1>2, <1>5, <1>6, ZenonT(40)

LEMMA CommitPrimaryCarries ==
  ASSUME Ready, NEW t \in Txn, CommitPrimary(t)
  PROVE  Carried
<1>0. /\ co[t] \in CoordinatorType /\ co \in [Txn -> CoordinatorType] /\ tso \in Nat
      /\ co[t].step # "app" \/ co[t].state # "Finished" => co[t].outcome # "committed"
      /\ co[t].step = "prewrite" => co[t].state = "Active"
  BY Before, ZenonT(40)
<1>1. /\ co[t].step = "prewrite" /\ co[t].todo = {} /\ co[t].aggregate = "Ok"
      /\ tso' = tso + 1 /\ lapsed' = lapsed /\ safePoint' = safePoint /\ reads' = reads
      /\ locked' = locked /\ sent' = sent \cup {CommitRequest(t, {Primary(t)}, tso + 1)}
  BY ZenonT(40) DEF CommitPrimary
<1>2. /\ \A u \in Txn \ {t} : co'[u] = co[u]
      /\ co'[t].commitTs = tso + 1 /\ co'[t].outcome = co[t].outcome /\ co'[t].step = "commit"
  BY <1>0, ZenonT(40) DEF CommitPrimary, CoordinatorType
<1>3. Engaging(co[t]) /\ \A k \in Key : ~Waiting(co[t], k)
  BY <1>1, ZenonT(40) DEF Engaging, Waiting
<1>4. /\ co'[t].commitTs <= tso' /\ co'[t].commitTs > tso /\ tso' >= tso
      /\ co'[t].outcome # "committed"
  BY <1>0, <1>1, <1>2, SMTT(40)
<1>5. Carries(t, co'[t])
  BY <1>2, <1>3, <1>4, ZenonT(40) DEF Carries
<1>6. ASSUME NEW q \in sent' \ sent PROVE q.txn = t /\ ~Taking(q)
  BY <1>1, SMTT(40) DEF CommitRequest, Request, Taking
<1>7. Proceeds(t)
  BY <1>0, <1>1, <1>2, <1>4, <1>6, ZenonT(40) DEF Proceeds
<1> QED
  BY <1>1, <1>5, <1>7, OneMove, NothingAnswered, ZenonT(40)

LEMMA FinishCommitCarries ==
  ASSUME Ready, NEW t \in Txn, co[t].step \in {"commit", "query"},
         FinishCommit(t, co[t].commitTs), CommitOf(cells'[Primary(t)], co[t].startTs),
         tso' = tso, lapsed' = lapsed, safePoint' = safePoint, reads' = reads, locked' = locked
  PROVE  Carried
<1>0. /\ co[t] \in CoordinatorType /\ co \in [Txn -> CoordinatorType] /\ tso \in Nat
      /\ CoordinatorOK(co[t], tso) /\ OutcomeGuard(t) /\ co[t].state = "Active"
  BY Before, ZenonT(40)
<1>1. /\ \A u \in Txn \ {t} : co'[u] = co[u]
      /\ co'[t].step = "app" /\ co'[t].state = "Finished" /\ co'[t].commitTs = co[t].commitTs
  <2>1. co' = [co EXCEPT ![t].step = "app", ![t].state = "Finished", ![t].held = {},
                         ![t].commitTs = co[t].commitTs, ![t].outcome = "committed"]
    BY ZenonT(40) DEF FinishCommit
  <2> QED
    BY <1>0, <2>1, ZenonT(40) DEF CoordinatorType
<1>2. Decided(t) /\ Live(t)
  BY <1>0, ZenonT(40) DEF CoordinatorOK, Decided, Live
<1>3. JustCommitted(t, co'[t])
  BY <1>1, <1>2, ZenonT(40) DEF JustCommitted
<1>4. Engaging(co[t]) /\ \A k \in Key : ~Waiting(co[t], k)
  BY <1>2, ZenonT(40) DEF Engaging, Decided, Waiting
<1>5. co'[t].commitTs <= tso' /\ tso' >= tso
  BY <1>0, <1>1, SMTT(40) DEF OutcomeGuard
<1>6. Carries(t, co'[t])
  BY <1>1, <1>2, <1>3, <1>4, <1>5, ZenonT(40) DEF Carries
<1>7. ASSUME NEW q \in sent' \ sent PROVE q.txn = t /\ ~Taking(q)
  <2>1. \/ \E K : q = CommitRequest(t, K, co[t].commitTs)
        \/ \E K : q = Request("rollback", t, K, 0, "none")
    BY ZenonT(40) DEF FinishCommit
  <2> QED
    BY <2>1, SMTT(40) DEF CommitRequest, Request, Taking
<1>8. Proceeds(t)
  BY <1>0, <1>1, <1>5, <1>7, ZenonT(40) DEF Proceeds
<1> QED
  BY <1>6, <1>8, OneMove, NothingAnswered, ZenonT(40)

LEMMA DecisionsCarry ==
  ASSUME Ready, NEW t \in Txn,
         \/ PrimaryCommitted(t) \/ PrimaryUnclear(t)
         \/ QueryCommitted(t) \/ QueryRetry(t) \/ QueryExhausted(t)
  PROVE  Carried
<1>0. /\ co[t] \in CoordinatorType /\ co \in [Txn -> CoordinatorType] /\ tso \in Nat
      /\ CoordinatorOK(co[t], tso)
      /\ co[t].step # "app" \/ co[t].state # "Finished" => co[t].outcome # "committed"
      /\ co[t].step \in {"commit", "query"} => co[t].state = "Active"
  BY Before, ZenonT(40)
<1>1. CASE PrimaryCommitted(t)
  <2>1. /\ co[t].step = "commit" /\ FinishCommit(t, co[t].commitTs)
        /\ Answer(CommitRequest(t, {Primary(t)}, co[t].commitTs), TRUE)
        /\ tso' = tso /\ lapsed' = lapsed /\ safePoint' = safePoint
        /\ reads' = reads /\ locked' = locked
    BY <1>1, ZenonT(40) DEF PrimaryCommitted
  <2>2. CommitOf(cells'[Primary(t)], co[t].startTs)
    BY <2>1, PrimaryCommits, ZenonT(40) DEF Ready
  <2> QED
    BY <2>1, <2>2, FinishCommitCarries, ZenonT(40)
<1>2. CASE QueryCommitted(t)
  <2> DEFINE c == cells[Primary(t)]
  <2>1. /\ co[t].step = "query" /\ CommitOf(c, co[t].startTs)
        /\ FinishCommit(t, CommitTsOf(c, co[t].startTs))
        /\ cells' = cells /\ tso' = tso /\ lapsed' = lapsed /\ safePoint' = safePoint
        /\ reads' = reads /\ locked' = locked
    BY <1>2, ZenonT(40) DEF QueryCommitted, PrimaryState, InspectTxnStatus
  <2>2. CommitTsOf(c, co[t].startTs) = co[t].commitTs
    BY <2>1, Basics, CommitTsIsTheirs, ZenonT(40) DEF Ready
  <2> QED
    BY <2>1, <2>2, FinishCommitCarries, ZenonT(40)
<1>3. CASE PrimaryUnclear(t) \/ QueryRetry(t) \/ QueryExhausted(t)
  <2>1. /\ co[t].step \in {"commit", "query"} /\ tso' = tso /\ lapsed' = lapsed
        /\ safePoint' = safePoint /\ reads' = reads /\ locked' = locked
        /\ sent' \subseteq sent \cup {CommitRequest(t, {Primary(t)}, co[t].commitTs)}
    BY <1>3, ZenonT(40) DEF PrimaryUnclear, QueryRetry, QueryExhausted
  <2>2. /\ \A u \in Txn \ {t} : co'[u] = co[u]
        /\ co'[t].commitTs = co[t].commitTs /\ co'[t].outcome \in {co[t].outcome, "unknown"}
        /\ co'[t].step \in {"query", "commit", "app"}
    <3>1. CASE PrimaryUnclear(t)
      BY <1>0, <3>1, ZenonT(40) DEF PrimaryUnclear, CoordinatorType
    <3>2. CASE QueryRetry(t)
      BY <1>0, <3>2, ZenonT(40) DEF QueryRetry, CoordinatorType
    <3>3. CASE QueryExhausted(t)
      BY <1>0, <3>3, ZenonT(40) DEF QueryExhausted, CoordinatorType
    <3> QED
      BY <1>3, <3>1, <3>2, <3>3, ZenonT(40)
  <2>3. Decided(t)
    BY <1>0, <2>1, ZenonT(40) DEF CoordinatorOK, Decided
  <2>4. tso' >= tso /\ co'[t].outcome # "committed"
    BY <1>0, <2>1, <2>2, SMTT(40)
  <2>5. ASSUME NEW q \in sent' \ sent
        PROVE  q.txn = t /\ co[t].state # "Finished" /\ ~Taking(q)
    BY <1>0, <2>1, SMTT(40) DEF CommitRequest, Request, Taking
  <2> QED
    BY <2>1, <2>2, <2>3, <2>4, <2>5, PlainStep, ZenonT(40)
<1> QED
  BY <1>1, <1>2, <1>3, ZenonT(40)

(* A key of a transaction that is cleaned up is not committed. *)
LEMMA NothingCommitted ==
  ASSUME Ready, NEW t \in Txn, Abandoning(co[t]), NEW k \in Key
  PROVE  ~CommitOf(cells[k], co[t].startTs)
<1>1. CASE Decided(t)
  BY <1>1, Basics, ZenonT(40) DEF Ready, DecisionGuard, Barren
<1>2. CASE ~Decided(t)
  <2>1. SUFFICES ASSUME NEW w \in cells[k].writes, w.startTs = co[t].startTs, w.type # "Rollback"
                 PROVE  FALSE
    BY ZenonT(40) DEF CommitOf
  <2>2. w.commitTs = co[t].commitTs /\ w.commitTs > w.startTs
    BY <2>1, ZenonT(40) DEF Ready, AtomicityInv, RecordGuard, Inv, CellsInv, RecordOK
  <2>3. co[t].startTs \in Nat
    BY Before, ZenonT(40)
  <2> QED
    BY <1>2, <2>1, <2>2, <2>3, SMTT(40) DEF Decided
<1> QED
  BY <1>1, <1>2, ZenonT(40)

LEMMA CleanupAnswerCarries ==
  ASSUME Ready, NEW t \in Txn, NEW K \in SUBSET Key,
         CleanupAnswered(t, K) \/ CleanupUnknown(t, K)
  PROVE  Carried
<1> DEFINE q == CleanupRequest(t, K)
<1>0. /\ co[t] \in CoordinatorType /\ co \in [Txn -> CoordinatorType] /\ tso \in Nat
      /\ co[t].step # "app" \/ co[t].state # "Finished" => co[t].outcome # "committed"
      /\ OutcomeGuard(t)
  BY Before, ZenonT(40)
<1>1. /\ co[t].step = "cleanup" /\ tso' = tso /\ lapsed' = lapsed /\ sent' = sent
      /\ safePoint' = safePoint /\ reads' = reads /\ locked' = locked
  BY ZenonT(40) DEF CleanupAnswered, CleanupUnknown
<1>2. /\ \A u \in Txn \ {t} : co'[u] = co[u]
      /\ co'[t].commitTs = co[t].commitTs /\ co'[t].outcome = co[t].outcome
      /\ co'[t].step = co[t].step /\ co'[t].aggregate \in {co[t].aggregate, "CleanupPending"}
  <2>1. CASE CleanupUnknown(t, K)
    BY <1>0, <2>1, ZenonT(40) DEF CleanupUnknown, CoordinatorType
  <2>2. CASE CleanupAnswered(t, K)
    <3>1. PICK ok \in BOOLEAN :
             /\ Answer(q, ok)
             /\ co' = [co EXCEPT ![t].todo = @ \ K,
                                 ![t].held = IF ok THEN @ \ K ELSE @,
                                 ![t].aggregate = IF ok THEN @ ELSE "AlreadyCommitted"]
      BY <2>2, ZenonT(40) DEF CleanupAnswered
    <3>2. ASSUME NEW k \in K PROVE Succeeds(q, k)
      <4>1. ~CommitOf(cells[k], co[t].startTs)
        BY <1>1, <3>2, NothingCommitted, ZenonT(40) DEF Abandoning
      <4>2. q.op = "rollback" /\ q.txn = t
        BY ZenonT(40) DEF CleanupRequest, Request
      <4> HIDE DEF q
      <4> QED
        BY <4>1, <4>2, ZenonT(40) DEF Succeeds, StatusOn, RollbackStatus
    <3>3. q.keys = K
      BY ZenonT(40) DEF CleanupRequest, Request
    <3>4. ok = TRUE
      BY <3>1, <3>2, <3>3, ZenonT(40) DEF Answer, AllSucceed
    <3>5. co' = [co EXCEPT ![t].todo = @ \ K, ![t].held = @ \ K, ![t].aggregate = @]
      BY <3>1, <3>4, ZenonT(40)
    <3> QED
      BY <1>0, <3>5, ZenonT(40) DEF CoordinatorType
  <2> QED
    BY <2>1, <2>2, ZenonT(40)
<1>3. co'[t].aggregate # "AlreadyCommitted"
  BY <1>0, <1>1, <1>2, ZenonT(40) DEF OutcomeGuard
<1>4. Engaging(co'[t]) => Decided(t)
  BY <1>1, <1>2, ZenonT(40) DEF Engaging, Decided
<1>5. tso' >= tso /\ co'[t].outcome # "committed"
  BY <1>0, <1>1, <1>2, SMTT(40)
<1> QED
  BY <1>1, <1>2, <1>3, <1>4, <1>5, PlainStep, ZenonT(40)

LEMMA CleanupDoneCarries ==
  ASSUME Ready, NEW t \in Txn, CleanupDone(t)
  PROVE  Carried
<1> DEFINE c == [co[t] EXCEPT !.step = "app", !.why = "none", !.aggregate = "Ok"]
           R(d) == /\ d.commitTs = co[t].commitTs /\ d.outcome # "committed"
                   /\ d.step = "app" /\ d.state # "Active"
<1>0. /\ co[t] \in CoordinatorType /\ co \in [Txn -> CoordinatorType] /\ tso \in Nat
      /\ OutcomeGuard(t) /\ ProgressGuard(t)
  BY Before, ZenonT(40)
<1>1. /\ co[t].step = "cleanup" /\ Composed(co[t]) /\ co[t].aggregate # "AlreadyCommitted"
  BY <1>0, ZenonT(40) DEF CleanupDone, ProgressGuard, OutcomeGuard
<1>2. /\ c \in CoordinatorType /\ c.commitTs = co[t].commitTs /\ c.step = "app"
      /\ c.state = co[t].state
  BY <1>0, Words, ZenonT(40) DEF CoordinatorType
<1>3. /\ co[t].why = "abort" => R([c EXCEPT !.held = {}, !.outcome = "aborted"])
      /\ R([c EXCEPT !.held = {}, !.state = "Finished", !.outcome = "released"])
      /\ R([c EXCEPT !.held = {}, !.state = "Finished", !.outcome = "aborted"])
      /\ R([c EXCEPT !.state = "CleanupPending", !.outcome = "pending"])
  <2> HIDE DEF c
  <2> QED
    BY <1>1, <1>2, ZenonT(40) DEF CoordinatorType, Composed
<1>4. PICK d : co' = [co EXCEPT ![t] = d] /\ R(d)
  <2> HIDE DEF c, R
  <2> QED
    BY <1>1, <1>3, ZenonT(40) DEF CleanupDone, c
<1>5. /\ tso' = tso /\ sent' = sent /\ lapsed' = lapsed /\ safePoint' = safePoint
      /\ reads' = reads /\ locked' = locked
  BY ZenonT(40) DEF CleanupDone
<1>6. co'[t] = d /\ \A u \in Txn \ {t} : co'[u] = co[u]
  BY <1>0, <1>4, ZenonT(40)
<1>7. Engaging(d) => Decided(t)
  BY <1>4, ZenonT(40) DEF Engaging, Decided
<1>8. tso' >= tso
  BY <1>0, <1>5, SMTT(40)
<1> QED
  BY <1>4, <1>5, <1>6, <1>7, <1>8, PlainStep, ZenonT(40)

-----------------------------------------------------------------------------
(* The nodes *)

LEMMA NodesCarry ==
  ASSUME Ready, co' = co, tso' = tso, safePoint' = safePoint, reads' = reads, locked' = locked,
         \A q \in sent' \ sent : ~Taking(q) /\ \E x \in lapsed : x[2] = q.txn,
         \A x \in lapsed' \ lapsed : LockedBy(cells[x[1]], co[x[2]].startTs)
  PROVE  Carried
<1>1. tso' >= tso
  BY SMTT(40) DEF Ready, TypeOK, Timestamp
<1>2. \A t \in Txn : Carries(t, co'[t])
  BY <1>1, NoMove, ZenonT(40)
<1>3. Sends
  BY ZenonT(40) DEF Sends
<1> QED
  BY <1>1, <1>2, <1>3, NothingAnswered, ZenonT(40) DEF Carried

LEMMA AdvanceGcCarries ==
  ASSUME Ready, NEW R, NEW ts \in Nat, AdvanceGc(R, ts)
  PROVE  Carried
<1>0. /\ co \in [Txn -> CoordinatorType] /\ tso \in Nat /\ cells \in [Key -> CellType]
  BY ZenonT(40) DEF Ready, TypeOK, Timestamp
<1>1. /\ tso' = tso /\ reads' = reads /\ locked' = locked /\ safePoint' = ts
      /\ sent' = {q \in sent : ~Older(q.txn, ts)}
      /\ lapsed' = {x \in lapsed : Older(x[2], ts) => LockedBy(cells[x[1]], co[x[2]].startTs)}
      /\ RecoveryKeepsUp => \A k \in Key : HasLock(cells[k]) => cells[k].lock.startTs >= ts
  BY ZenonT(40) DEF AdvanceGc
<1>2. tso' >= tso
  BY <1>0, <1>1, SMTT(40)
<1>3. ASSUME NEW t \in Txn PROVE Carries(t, co'[t])
  <2>1. CASE co'[t] = co[t]
    BY <1>2, <2>1, NoMove, ZenonT(40)
  <2>2. CASE co'[t] # co[t]
    <3>1. co[t].step # "app" /\ co'[t] = [co[t] EXCEPT !.step = "crashed"]
      BY <2>2, ZenonT(40) DEF AdvanceGc
    <3>2. /\ co'[t].commitTs = co[t].commitTs /\ co'[t].outcome = co[t].outcome
          /\ co'[t].step = "crashed"
      BY <1>0, <3>1, ZenonT(40) DEF CoordinatorType
    <3>3. co[t].outcome # "committed"
      BY <3>1, Before, ZenonT(40)
    <3>4. Engaging(co'[t]) => Decided(t)
      BY <3>2, ZenonT(40) DEF Engaging, Decided
    <3> QED
      BY <1>2, <3>2, <3>3, <3>4, PlainMove, ZenonT(40)
  <2> QED
    BY <2>1, <2>2, ZenonT(40)
<1>4. Collects
  <2>1. ASSUME NEW k \in Key
        PROVE  cells'[k].lock = cells[k].lock /\ cells'[k].writes \subseteq cells[k].writes
    <3>1. cells'[k] = cells[k] \/ cells'[k] = GarbageCollect(cells[k], ts)
      BY ZenonT(40) DEF AdvanceGc
    <3>2. Collected(cells[k], GarbageCollect(cells[k], ts), ts)
      BY <1>0, CollectStep, ZenonT(40)
    <3> QED
      BY <3>1, <3>2, ZenonT(40) DEF Collected
  <2> QED
    BY <1>1, <2>1, ZenonT(40) DEF Collects
<1>5. Sends
  BY <1>1, ZenonT(40) DEF Sends
<1> QED
  BY <1>1, <1>2, <1>3, <1>4, <1>5, NothingAnswered, ZenonT(40) DEF Carried

LEMMA NodeStepCarries ==
  ASSUME Ready, NodeNext
  PROVE  Carried
<1>1. ASSUME NEW q \in sent, Execute(q) PROVE Carried
  BY <1>1, NodesCarry, ZenonT(40) DEF Execute
<1>2. ASSUME NEW k \in Key, Expire(k) PROVE Carried
  <2>1. /\ HasLock(cells[k]) /\ co' = co /\ tso' = tso /\ safePoint' = safePoint
        /\ reads' = reads /\ locked' = locked /\ sent' = sent
        /\ lapsed' = lapsed \cup {<<k, t>> : t \in {u \in Txn : co[u].startTs = cells[k].lock.startTs}}
    BY <1>2, ZenonT(40) DEF Expire
  <2>2. ASSUME NEW x \in lapsed' \ lapsed PROVE LockedBy(cells[x[1]], co[x[2]].startTs)
    <3>1. PICK t \in Txn : x = <<k, t>> /\ co[t].startTs = cells[k].lock.startTs
      BY <2>1, <2>2, ZenonT(40)
    <3>2. x[1] = k /\ x[2] = t
      BY <3>1, ZenonT(40)
    <3> QED
      BY <2>1, <3>1, <3>2, ZenonT(40) DEF LockedBy
  <2> QED
    BY <2>1, <2>2, NodesCarry, ZenonT(40)
<1>3. ASSUME NEW k \in Key, NEW t \in Txn, RecoverPrimary(k, t) PROVE Carried
  BY <1>3, NodesCarry, ZenonT(40) DEF RecoverPrimary
<1>4. ASSUME NEW k \in Key, NEW t \in Txn, RecoverSecondary(k, t) PROVE Carried
  <2>1. PICK state, ts : sent' = sent \cup {RecoveryRequest(t, k, state, ts)}
    BY <1>4, ZenonT(40) DEF RecoverSecondary
  <2>2. /\ <<k, t>> \in lapsed /\ co' = co /\ tso' = tso /\ safePoint' = safePoint
        /\ reads' = reads /\ locked' = locked /\ lapsed' = lapsed
    BY <1>4, ZenonT(40) DEF RecoverSecondary
  <2>3. RecoveryRequest(t, k, state, ts).op = "resolve" /\ RecoveryRequest(t, k, state, ts).txn = t
    BY ZenonT(40) DEF RecoveryRequest, Request
  <2>4. ASSUME NEW q \in sent' \ sent PROVE ~Taking(q) /\ \E x \in lapsed : x[2] = q.txn
    <3>1. q.op = "resolve" /\ q.txn = t
      BY <2>1, <2>3, <2>4, ZenonT(40)
    <3>2. <<k, t>>[2] = t
      BY ZenonT(40)
    <3> QED
      BY <2>2, <3>1, <3>2, ZenonT(40) DEF Taking
  <2> QED
    BY <2>2, <2>4, NodesCarry, ZenonT(40)
<1>5. ASSUME NEW k \in Key, NEW ts \in SafePoints, AdvanceGc(RegionOf[k], ts) PROVE Carried
  <2>1. ts \in Nat
    BY GcAssumption, ZenonT(40)
  <2> QED
    BY <1>5, <2>1, AdvanceGcCarries, ZenonT(40)
<1> QED
  BY <1>1, <1>2, <1>3, <1>4, <1>5, ZenonT(40) DEF NodeNext

LEMMA StepCarries ==
  ASSUME Ready, ~RollbackUnknown, [Next]_vars
  PROVE  Carried
<1>1. ASSUME NEW t \in Txn, TxnNext(t) PROVE Carried
  <2>1. co[t].step # "resolve"
    BY Before, ZenonT(40)
  <2>2. ~RollbackUnknownResult(t) /\ ~ResolveAnswered(t) /\ ~ResolveUnknown(t)
    BY <2>1, ZenonT(40) DEF RollbackUnknownResult, ResolveAnswered, ResolveUnknown
  <2> QED
    BY <1>1, <2>2, SimpleCallsCarry, GetCarries, AcquireCarries, LockAcquiredCarries,
       AbortingCarries, PrewriteCarries, PrewriteAnswerCarries, CommitPrimaryCarries,
       DecisionsCarry, CleanupAnswerCarries, CleanupDoneCarries, ZenonT(40) DEF TxnNext
<1>2. ASSUME UNCHANGED vars PROVE Carried
  <2>1. /\ co' = co /\ tso' = tso /\ safePoint' = safePoint /\ reads' = reads
        /\ locked' = locked /\ sent' = sent /\ lapsed' = lapsed
    BY <1>2, ZenonT(40) DEF vars
  <2> QED
    BY <2>1, NodesCarry, ZenonT(40)
<1> QED
  BY <1>1, <1>2, NodeStepCarries, ZenonT(40) DEF Next

-----------------------------------------------------------------------------
(* The theorems *)

LEMMA IsolationInit == Init => IsolationInv
<1> SUFFICES ASSUME Init PROVE IsolationInv
  BY ZenonT(40)
<1>1. sent = {} /\ reads = {} /\ locked = {} /\ tso = 0
  BY ZenonT(40) DEF Init
<1>2. ASSUME NEW k \in Key PROVE CellGuard(k)
  <2>1. cells[k].writes = {} /\ cells[k].lock.startTs = 0
    BY ZenonT(40) DEF Init, EmptyCell, NoLock
  <2> QED
    BY <2>1, ZenonT(40) DEF CellGuard, LockAbove, Disjoint, KindFits, LockedBy, HasLock
<1>3. ASSUME NEW t \in Txn PROVE OutcomeGuard(t)
  <2>1. co[t].commitTs = 0 /\ co[t].step = "idle" /\ co[t].outcome = "none"
    BY ZenonT(40) DEF Init, Coordinator0
  <2> QED
    BY <1>1, <2>1, SMTT(40) DEF OutcomeGuard
<1>4. NoLostUpdate
  BY ZenonT(40) DEF NoLostUpdate, Init, Coordinator0
<1> QED
  BY <1>1, <1>2, <1>3, <1>4, ZenonT(40) DEF IsolationInv

LEMMA IsolationStep ==
  ASSUME ~RollbackUnknown, TypeOK, TypeOK', Inv, Inv', AtomicityInv, StaysAtomic, IsolationInv,
         [Next]_vars
  PROVE  IsolationInv'
<1>1. Carried
  BY StepCarries, ZenonT(40) DEF Ready
<1>3. \A k \in Key : LockAbove(cells[k])
  BY ZenonT(40) DEF IsolationInv, CellGuard
<1>4. \A k \in Key : Effect(k, cells'[k], safePoint')
  BY <1>3, StepEffect, ZenonT(40)
<1>5. Advance
  BY <1>1, <1>4, ZenonT(40) DEF Advance
<1> QED
  BY <1>5, StaysIsolated, ZenonT(40)

LEMMA CommittedStays ==
  RecoveryKeepsUp /\ TypeOK /\ Inv /\ AtomicityInv /\ IsolationInv => CommittedNotRolledBack
<1> SUFFICES ASSUME RecoveryKeepsUp, TypeOK, Inv, AtomicityInv, IsolationInv, NEW t \in Txn,
                    co[t].outcome = "committed", NEW k \in PrewriteKeys(t)
             PROVE  ~RollbackOf(cells[k], co[t].startTs)
  BY ZenonT(40) DEF CommittedNotRolledBack
<1>1. Told(t) /\ (co[t].commitTs < safePoint => Quiet(t))
  BY ZenonT(40) DEF IsolationInv, OutcomeGuard
<1>2. CASE co[t].commitTs < safePoint
  BY <1>1, <1>2, ZenonT(40) DEF Quiet
<1>3. CASE co[t].commitTs >= safePoint
  <2>1. CommitOf(cells[Primary(t)], co[t].startTs) /\ Decided(t)
    BY <1>1, <1>3, ZenonT(40) DEF Told
  <2>2. Sealed(t)
    BY <1>3, <2>1, Basics, ZenonT(40) DEF DecisionGuard, Doomed
  <2>3. Holds(cells[k], co[t].startTs) \/ CommitAt(cells[k], co[t].startTs, co[t].commitTs)
    BY <2>2, ZenonT(40) DEF Sealed
  <2>4. CellOK(cells[k])
    BY Basics, ZenonT(40) DEF Inv, CellsInv
  <2>5. CASE Holds(cells[k], co[t].startTs)
    BY <2>4, <2>5, ZenonT(40) DEF Holds, LockedBy, CellOK, OwnerUndecided, RollbackOf
  <2>6. CASE CommitAt(cells[k], co[t].startTs, co[t].commitTs)
    BY <2>4, <2>6, ZenonT(40) DEF CommitAt, CellOK, OneRecord, RollbackOf
  <2> QED
    BY <2>3, <2>5, <2>6, ZenonT(40)
<1>4. co[t].commitTs \in Nat /\ safePoint \in Nat
  BY Basics, ZenonT(40)
<1>5. co[t].commitTs < safePoint \/ co[t].commitTs >= safePoint
  BY <1>4, SMTT(40)
<1> QED
  BY <1>2, <1>3, <1>5, ZenonT(40)

=============================================================================
