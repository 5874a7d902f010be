-------------------------- MODULE AtomicityProofs --------------------------
(***************************************************************************)
(* Transactions are atomic, for any number of keys, transactions and       *)
(* Regions and any workload, as long as no application calls Rollback      *)
(* after ResultUnknown: the keys of a transaction follow its primary, and  *)
(* a client that was told of an abort will never find a commit.            *)
(***************************************************************************)
EXTENDS TransactionsTypeProofs

-----------------------------------------------------------------------------
(* What follows from such steps *)

LEMMA UndonePrimaryIsDoomed ==
  ASSUME TypeOK, Inv, AtomicityInv, Lawful, NEW t \in Txn, co[t].startTs # 0,
         Undone(co[t].startTs, cells[Primary(t)], cells'[Primary(t)])
  PROVE  Doomed(t)'
<1> DEFINE p == Primary(t)
           s == co[t].startTs
           c == cells[p]
           d == cells'[p]
<1>1. co'[t].startTs = s
  BY ZenonT(40) DEF Lawful, Onward
<1>2. RollbackOf(d, s) /\ ~CommitOf(d, s)
  BY ZenonT(40) DEF Undone, RollbackOf, CommitOf
<1>3. ~LockedBy(d, s)
  BY ZenonT(40) DEF Undone, LockedBy, HasLock
<1> QED
  BY <1>1, <1>2, <1>3, ZenonT(40) DEF Doomed

LEMMA DoomStays ==
  ASSUME TypeOK, Inv, AtomicityInv, Lawful, NEW t \in Txn, co[t].startTs # 0, Doomed(t)
  PROVE  Doomed(t)'
<1> DEFINE p == Primary(t)
           s == co[t].startTs
           c == cells[p]
           d == cells'[p]
<1>0. /\ s \in Nat /\ s # 0 /\ p \in Key
      /\ \A u \in Txn : co[u].startTs = s => u = t
  BY Basics, ZenonT(40)
<1>1. co'[t].startTs = s /\ (NoMoreLocks(t) => NoMoreLocks(t)')
  BY ZenonT(40) DEF Lawful, Onward
<1>2. ~LockedBy(c, s) /\ ~CommitOf(c, s) /\ (RollbackOf(c, s) \/ NoMoreLocks(t))
  BY ZenonT(40) DEF Doomed
<1>3. SUFFICES /\ ~LockedBy(d, s) /\ ~CommitOf(d, s)
               /\ RollbackOf(c, s) => RollbackOf(d, s) \/ NoMoreLocks(t)'
  BY <1>1, <1>2, ZenonT(40) DEF Doomed
<1>4. Stepped(p, d, safePoint')
  BY <1>0, ZenonT(40) DEF Lawful
<1>5. CASE Kept(c, d)
  BY <1>2, <1>5, ZenonT(40) DEF Kept, LockedBy, HasLock, CommitOf, RollbackOf
<1>6. CASE Collected(c, d, safePoint')
  <2>1. ~LockedBy(d, s) /\ ~CommitOf(d, s)
    BY <1>2, <1>6, ZenonT(40) DEF Collected, LockedBy, HasLock, CommitOf
  <2>2. ASSUME RollbackOf(c, s), ~RollbackOf(d, s) PROVE NoMoreLocks(t)'
    <3>1. PICK w \in c.writes : w.startTs = s /\ w.type = "Rollback"
      BY <2>2, ZenonT(40) DEF RollbackOf
    <3>2. w.commitTs < safePoint'
      BY <1>6, <2>2, <3>1, ZenonT(40) DEF Collected, RollbackOf
    <3>3. w.commitTs = s
      BY <1>0, <3>1, ZenonT(40) DEF AtomicityInv, RecordGuard
    <3> QED
      BY <1>0, <1>1, <3>2, <3>3, ZenonT(40) DEF NoMoreLocks, Older
  <2> QED
    BY <2>1, <2>2, ZenonT(40)
<1>7. ASSUME NEW u \in Txn, co[u].startTs # 0, Taken(co[u].startTs, c, d), ~NoMoreLocks(u)
      PROVE  ~LockedBy(d, s) /\ ~CommitOf(d, s) /\ (RollbackOf(c, s) => RollbackOf(d, s))
  <2>1. u # t
    BY <1>2, <1>7, ZenonT(40) DEF Taken
  <2>2. d.lock.startTs # s
    BY <1>0, <1>7, <2>1, ZenonT(40) DEF Taken
  <2> QED
    BY <1>2, <1>7, <2>2, ZenonT(40) DEF Taken, LockedBy, CommitOf, RollbackOf
<1>8. ASSUME NEW u \in Txn, co[u].startTs # 0, Committed(co[u].startTs, co[u].commitTs, c, d)
      PROVE  ~LockedBy(d, s) /\ ~CommitOf(d, s) /\ (RollbackOf(c, s) => RollbackOf(d, s))
  <2>1. co[u].startTs # s
    BY <1>2, <1>8, ZenonT(40) DEF Committed
  <2> QED
    BY <1>2, <1>8, <2>1, ZenonT(40) DEF Committed, LockedBy, CommitOf, RollbackOf
<1>9. ASSUME NEW u \in Txn, co[u].startTs # 0, Undone(co[u].startTs, c, d)
      PROVE  ~LockedBy(d, s) /\ ~CommitOf(d, s) /\ (RollbackOf(c, s) => RollbackOf(d, s))
  <2>1. ~LockedBy(d, s)
    BY <1>2, <1>9, ZenonT(40) DEF Undone, LockedBy, HasLock
  <2>2. ~CommitOf(d, s) /\ (RollbackOf(c, s) => RollbackOf(d, s))
    BY <1>2, <1>9, ZenonT(40) DEF Undone, CommitOf, RollbackOf
  <2> QED
    BY <2>1, <2>2, ZenonT(40)
<1> HIDE DEF p, s, c, d
<1> QED
  BY <1>4, <1>5, <1>6, <1>7, <1>8, <1>9, ZenonT(40) DEF Stepped, c, d

(* A prewrite lock stays, is committed, or its transaction cannot commit any more. *)
LEMMA PrewriteLockStays ==
  ASSUME TypeOK, Inv, AtomicityInv, Lawful, NEW t \in Txn, co[t].startTs # 0,
         NEW k \in PrewriteKeys(t), Holds(cells[k], co[t].startTs)
  PROVE  \/ Holds(cells'[k], co[t].startTs)
         \/ Decided(t) /\ CommitAt(cells'[k], co[t].startTs, co[t].commitTs)
         \/ Doomed(t)'
         \/ Quit(t)
<1> DEFINE s == co[t].startTs
           c == cells[k]
           d == cells'[k]
           Goal == \/ Holds(d, s)
                   \/ Decided(t) /\ CommitAt(d, s, co[t].commitTs)
                   \/ Doomed(t)'
                   \/ Quit(t)
<1>0. /\ s \in Nat /\ s # 0 /\ k \in Key
      /\ \A u \in Txn : co[u].startTs = s => u = t
  BY Basics, ZenonT(40)
<1>1. HasLock(c) /\ c.lock.startTs = s /\ ~IsPessimistic(c)
  BY ZenonT(40) DEF Holds, LockedBy
<1>2. Stepped(k, d, safePoint')
  BY <1>0, ZenonT(40) DEF Lawful
<1>3. CASE Kept(c, d)
  BY <1>1, <1>3, ZenonT(40) DEF Kept, Holds, LockedBy, HasLock
<1>4. CASE Collected(c, d, safePoint')
  BY <1>1, <1>4, ZenonT(40) DEF Collected, Holds, LockedBy, HasLock, IsPessimistic
<1>5. ASSUME NEW u \in Txn, co[u].startTs # 0, Taken(co[u].startTs, c, d) PROVE Goal
  BY <1>1, <1>5, ZenonT(40) DEF Taken
<1>6. ASSUME NEW u \in Txn, co[u].startTs # 0, Committed(co[u].startTs, co[u].commitTs, c, d),
             CommitSent(u, k)
      PROVE  Goal
  <2>1. u = t
    BY <1>0, <1>1, <1>6, ZenonT(40) DEF Committed, LockedBy
  <2>2. CommitAt(d, s, co[t].commitTs)
    BY <1>6, <2>1, ZenonT(40) DEF Committed, CommitAt
  <2>3. Decided(t)
    BY <1>6, <2>1, ZenonT(40) DEF CommitSent, Committing, Inv, RequestsInv, RequestOK, CommitTsOK
  <2> QED
    BY <2>2, <2>3, ZenonT(40)
<1>7. ASSUME NEW u \in Txn, co[u].startTs # 0, Undone(co[u].startTs, c, d),
             k = Primary(u) \/ MayUndo(u, {k})
      PROVE  Goal
  <2>1. CASE co[u].startTs # s
    <3>1. d.lock = c.lock
      BY <1>1, <1>7, <2>1, ZenonT(40) DEF Undone, LockedBy
    <3> QED
      BY <1>1, <3>1, ZenonT(40) DEF Holds, LockedBy, HasLock, IsPessimistic
  <2>2. CASE co[u].startTs = s
    <3>1. u = t
      BY <1>0, <2>2, ZenonT(40)
    <3>2. CASE k = Primary(t)
      BY <1>7, <3>1, <3>2, UndonePrimaryIsDoomed, ZenonT(40)
    <3>3. CASE MayUndo(t, {k})
      <4>1. Doomed(t) \/ Quit(t)
        BY <3>3, ZenonT(40) DEF MayUndo
      <4> QED
        BY <4>1, DoomStays, ZenonT(40)
    <3> QED
      BY <1>7, <3>1, <3>2, <3>3, ZenonT(40)
  <2> QED
    BY <2>1, <2>2, ZenonT(40)
<1>8. Goal
  <2> HIDE DEF Goal, s, c, d
  <2> QED
    BY <1>2, <1>3, <1>4, <1>5, <1>6, <1>7, ZenonT(40) DEF Stepped, Goal, s, c, d
<1> QED
  BY <1>8, ZenonT(40)

LEMMA SealStays ==
  ASSUME TypeOK, TypeOK', Inv, AtomicityInv, Lawful, NEW t \in Txn,
         Decided(t), co[t].commitTs >= safePoint', Sealed(t)
  PROVE  Doomed(t)' \/ Sealed(t)'
<1>0. /\ co[t].startTs # 0 /\ PrewriteKeys(t) \subseteq Key /\ co[t].commitTs \in Nat
      /\ safePoint' \in Nat
  BY Basics, ZenonT(40) DEF TypeOK, Timestamp
<1>1. co'[t].startTs = co[t].startTs /\ co'[t].commitTs = co[t].commitTs
  BY <1>0, ZenonT(40) DEF Lawful, Onward
<1>2. SUFFICES ASSUME NEW k \in PrewriteKeys(t), ~Doomed(t)'
               PROVE  \/ Holds(cells'[k], co[t].startTs)
                      \/ CommitAt(cells'[k], co[t].startTs, co[t].commitTs)
  BY <1>1, ZenonT(40) DEF Sealed
<1>3. CASE Holds(cells[k], co[t].startTs)
  BY <1>0, <1>2, <1>3, PrewriteLockStays, ZenonT(40) DEF Quit
<1>4. CASE CommitAt(cells[k], co[t].startTs, co[t].commitTs)
  <2>1. PICK w \in cells[k].writes : /\ w.startTs = co[t].startTs /\ w.commitTs = co[t].commitTs
                                     /\ w.type # "Rollback"
    BY <1>4, ZenonT(40) DEF CommitAt
  <2>2. w \in cells'[k].writes
    BY <1>0, <2>1, CommitStays, SMTT(40)
  <2> QED
    BY <2>1, <2>2, ZenonT(40) DEF CommitAt
<1> QED
  BY <1>3, <1>4, ZenonT(40) DEF Sealed

LEMMA SecuredStays ==
  ASSUME TypeOK, TypeOK', Inv, AtomicityInv, Lawful, NEW t \in Txn, co[t].startTs # 0, Secured(t)
  PROVE  Secured(t)'
<1>0. /\ co[t].startTs \in Nat /\ Primary(t) \in Key /\ safePoint \in Nat
      /\ safePoint' \in Nat
  BY Basics, ZenonT(40) DEF TypeOK, Timestamp
<1>1. co'[t].startTs = co[t].startTs /\ safePoint' >= safePoint
  BY ZenonT(40) DEF Lawful, Onward
<1>2. CASE Older(t, safePoint)
  BY <1>0, <1>1, <1>2, SMTT(40) DEF Secured, Older
<1>3. CASE CommitOf(cells[Primary(t)], co[t].startTs)
  <2>1. PICK w \in cells[Primary(t)].writes : w.startTs = co[t].startTs /\ w.type # "Rollback"
    BY <1>3, ZenonT(40) DEF CommitOf
  <2>2. w.commitTs \in Nat /\ w.commitTs > w.startTs
    <3>1. w \in WriteType /\ RecordOK(w)
      BY <1>0, <2>1, ZenonT(40) DEF TypeOK, CellType, Inv, CellsInv
    <3> QED
      BY <2>1, <3>1, ZenonT(40) DEF WriteType, Timestamp, RecordOK
  <2>3. CASE w \in cells'[Primary(t)].writes
    BY <1>1, <2>1, <2>3, ZenonT(40) DEF Secured, CommitOf
  <2>4. CASE w.commitTs < safePoint'
    BY <1>0, <1>1, <2>1, <2>2, <2>4, SMTT(40) DEF Secured, Older
  <2> QED
    BY <1>0, <2>3, <2>4, CommitStays, ZenonT(40)
<1> QED
  BY <1>2, <1>3, ZenonT(40) DEF Secured

(* Only the secondaries of a secured transaction are sent commits. *)
NewCommitsFit(t) ==
  \A q \in sent' \ sent : q.txn = t /\ Committing(q) => q.keys = {Primary(t)}

LEMMA BarrenStays ==
  ASSUME TypeOK, Inv, AtomicityInv, Lawful, NEW t \in Txn, co[t].startTs # 0, Barren(t),
         NewCommitsFit(t)
  PROVE  Barren(t)'
<1> DEFINE s == co[t].startTs
<1>0. s # 0 /\ co'[t].startTs = s /\ \A u \in Txn : co[u].startTs = s => u = t
  BY Basics, ZenonT(40) DEF Lawful, Onward
<1>1. Doomed(t) /\ Doomed(t)'
  BY DoomStays, ZenonT(40) DEF Barren
<1>2. ASSUME NEW k \in Key PROVE ~CommitOf(cells'[k], s)
  <2>1. ~CommitOf(cells[k], s)
    BY ZenonT(40) DEF Barren
  <2>2. Stepped(k, cells'[k], safePoint')
    BY ZenonT(40) DEF Lawful
  <2>3. CASE Kept(cells[k], cells'[k]) \/ Collected(cells[k], cells'[k], safePoint')
    BY <2>1, <2>3, ZenonT(40) DEF Kept, Collected, CommitOf
  <2>4. ASSUME NEW u \in Txn, Taken(co[u].startTs, cells[k], cells'[k])
        PROVE  ~CommitOf(cells'[k], s)
    BY <2>1, <2>4, ZenonT(40) DEF Taken, CommitOf
  <2>5. ASSUME NEW u \in Txn, Committed(co[u].startTs, co[u].commitTs, cells[k], cells'[k]),
               CommitSent(u, k)
        PROVE  ~CommitOf(cells'[k], s)
    <3>1. u # t
      <4>1. SUFFICES ASSUME u = t PROVE FALSE
        BY ZenonT(40)
      <4>2. k = Primary(t)
        BY <2>5, <4>1, SMTT(40) DEF CommitSent, Barren
      <4> QED
        BY <1>1, <2>5, <4>1, <4>2, ZenonT(40) DEF Doomed, Committed
    <3>2. co[u].startTs # s
      BY <1>0, <3>1, ZenonT(40)
    <3> QED
      BY <2>1, <2>5, <3>2, ZenonT(40) DEF Committed, CommitOf
  <2>6. ASSUME NEW u \in Txn, Undone(co[u].startTs, cells[k], cells'[k])
        PROVE  ~CommitOf(cells'[k], s)
    BY <2>1, <2>6, ZenonT(40) DEF Undone, CommitOf
  <2> QED
    BY <2>2, <2>3, <2>4, <2>5, <2>6, ZenonT(40) DEF Stepped
<1>3. \A q \in sent' : q.txn = t /\ Committing(q) => q.keys = {Primary(t)}
  BY ZenonT(40) DEF Barren, NewCommitsFit
<1> QED
  BY <1>0, <1>1, <1>2, <1>3, ZenonT(40) DEF Barren

LEMMA RecordsStay ==
  ASSUME TypeOK, TypeOK', Inv, AtomicityInv, Lawful
  PROVE  \A k \in Key : \A w \in cells'[k].writes : RecordGuard(w, k)'
<1> SUFFICES ASSUME NEW k \in Key, NEW w \in cells'[k].writes PROVE RecordGuard(w, k)'
  BY ZenonT(40)
<1>1. Stepped(k, cells'[k], safePoint') /\ tso \in Nat
  BY ZenonT(40) DEF Lawful, TypeOK, Timestamp
<1>2. ASSUME w \in cells[k].writes PROVE RecordGuard(w, k)'
  <2>1. RecordGuard(w, k) /\ RecordOK(w) /\ w.startTs \in Nat
    BY <1>2, SMTT(40) DEF AtomicityInv, Inv, CellsInv, TypeOK, CellType, WriteType, Timestamp
  <2>2. ASSUME w.type # "Rollback", NEW t \in Txn, w.startTs = co'[t].startTs
        PROVE  w.commitTs = co'[t].commitTs /\ (k = Primary(t) \/ Secured(t)')
    <3>1. w.startTs = co[t].startTs
      BY <1>1, <2>1, <2>2, SMTT(40) DEF Lawful, Onward, RecordOK
    <3>2. Decided(t)
      BY <2>1, <2>2, <3>1, ZenonT(40) DEF RecordOK, CommitTsOK
    <3>3. co[t].startTs # 0 /\ co'[t].commitTs = co[t].commitTs
      BY <3>2, Basics, ZenonT(40) DEF Lawful, Onward
    <3>4. w.commitTs = co[t].commitTs /\ (k = Primary(t) \/ Secured(t))
      BY <2>1, <2>2, <3>1, ZenonT(40) DEF RecordGuard
    <3> QED
      BY <3>3, <3>4, SecuredStays, ZenonT(40)
  <2> QED
    BY <2>1, <2>2, ZenonT(40) DEF RecordGuard
<1>3. ASSUME NEW u \in Txn, co[u].startTs # 0, w.startTs = co[u].startTs,
             w.commitTs = co[u].commitTs, CommitSent(u, k), w.type # "Rollback"
      PROVE  RecordGuard(w, k)'
  <2>1. PICK q \in sent : q.txn = u /\ Committing(q) /\ k \in q.keys
    BY <1>3, ZenonT(40) DEF CommitSent
  <2>2. RequestGuard(q) /\ RequestOK(q)
    BY ZenonT(40) DEF AtomicityInv, Inv, RequestsInv
  <2>3. k = Primary(u) \/ Secured(u)
    BY <2>1, <2>2, ZenonT(40) DEF RequestGuard
  <2>4. Decided(u)
    BY <2>1, <2>2, ZenonT(40) DEF RequestOK, Committing, CommitTsOK
  <2>5. co'[u].commitTs = co[u].commitTs
    BY <2>4, ZenonT(40) DEF Lawful, Onward
  <2>6. ASSUME NEW t \in Txn, w.startTs = co'[t].startTs PROVE t = u
    <3>1. co[u].startTs <= tso /\ co[u].startTs \in Nat
      BY Basics, ZenonT(40) DEF CoordinatorOK
    <3>2. co[t].startTs = co[u].startTs
      BY <1>1, <1>3, <2>6, <3>1, SMTT(40) DEF Lawful, Onward
    <3> QED
      BY <1>3, <3>2, Basics, ZenonT(40)
  <2> QED
    BY <1>3, <2>3, <2>5, <2>6, SecuredStays, ZenonT(40) DEF RecordGuard
<1>4. ASSUME w.type = "Rollback", w.commitTs = w.startTs PROVE RecordGuard(w, k)'
  BY <1>4, ZenonT(40) DEF RecordGuard
<1> QED
  BY <1>1, <1>2, <1>3, <1>4, ZenonT(40) DEF Stepped, Kept, Collected, Taken, Committed, Undone

LEMMA RequestStays ==
  ASSUME TypeOK, TypeOK', Inv, AtomicityInv, Lawful, NEW q \in sent,
         Taking(q) => ~Older(q.txn, safePoint)'
  PROVE  RequestGuard(q)'
<1> DEFINE t == q.txn
<1>1. t \in Txn /\ RequestGuard(q) /\ RequestOK(q)
  BY ZenonT(40) DEF TypeOK, RequestType, AtomicityInv, Inv, RequestsInv
<1>2. co[t].startTs # 0 /\ co'[t].startTs # 0
  BY <1>1, ZenonT(40) DEF RequestGuard, Lawful, Onward
<1>3. Committing(q) => co'[t].commitTs = co[t].commitTs
  BY <1>1, ZenonT(40) DEF Committing, RequestOK, CommitTsOK, Lawful, Onward
<1>4. Secured(t) => Secured(t)'
  BY <1>1, <1>2, SecuredStays, ZenonT(40)
<1>5. Doomed(t) => Doomed(t)'
  BY <1>1, <1>2, DoomStays, ZenonT(40)
<1>6. Quit(t) => Quit(t)'
  BY <1>1, ZenonT(40) DEF Quit, Decided, Lawful, Onward
<1>7. MayUndo(t, q.keys) => MayUndo(t, q.keys)'
  BY <1>5, <1>6, ZenonT(40) DEF MayUndo
<1> QED
  BY <1>1, <1>2, <1>3, <1>4, <1>7, ZenonT(40) DEF RequestGuard

-----------------------------------------------------------------------------
(* Steps of the coordinators *)

LEMMA StepKeepsAtomicity ==
  ASSUME TypeOK, TypeOK', Inv, AtomicityInv, Lawful,
         safePoint' <= tso' + 1, \A x \in lapsed' : co'[x[2]].startTs # 0,
         \A q \in sent' : \/ q \in sent /\ (Taking(q) => ~Older(q.txn, safePoint)')
                          \/ RequestGuard(q)',
         \A t \in Txn : ProgressGuard(t)' /\ DecisionGuard(t)'
  PROVE  StaysAtomic
<1>1. \A q \in sent' : RequestGuard(q)'
  BY RequestStays, ZenonT(40)
<1> QED
  BY <1>1, RecordsStay, ZenonT(40) DEF AtomicityInv, StaysAtomic

LEMMA PrewrittenStays ==
  ASSUME TypeOK, TypeOK', Inv, AtomicityInv, Lawful, NEW t \in Txn,
         co[t].step = "prewrite", co[t].aggregate = "Ok", ~Doomed(t)'
  PROVE  \A k \in PrewriteKeys(t) \ co[t].todo : Holds(cells'[k], co[t].startTs)
<1>1. co[t].startTs # 0 /\ ~Decided(t) /\ ~Quit(t)
  BY Basics, ZenonT(40) DEF ProgressGuard, CoordinatorOK, Decided, Quit, Live
<1>2. ~Doomed(t)
  BY <1>1, DoomStays, ZenonT(40)
<1>3. \A k \in PrewriteKeys(t) \ co[t].todo : Holds(cells[k], co[t].startTs)
  BY <1>2, Basics, ZenonT(40) DEF DecisionGuard, Prewritten
<1> QED
  BY <1>1, <1>3, PrewriteLockStays, ZenonT(40)

LEMMA Unaffected ==
  ASSUME TypeOK, TypeOK', Inv, AtomicityInv, Lawful, NEW t \in Txn, co'[t] = co[t],
         safePoint' = safePoint, Barren(t) => NewCommitsFit(t)
  PROVE  ProgressGuard(t)' /\ DecisionGuard(t)'
<1>0. ProgressGuard(t) /\ DecisionGuard(t) /\ CoordinatorOK(co[t], tso)
  BY Basics, ZenonT(40)
<1>1. (Live(t)' <=> Live(t)) /\ (Older(t, safePoint)' <=> Older(t, safePoint))
      /\ (Decided(t)' <=> Decided(t)) /\ (Quit(t)' <=> Quit(t))
  BY ZenonT(40) DEF Live, Older, Decided, Quit, CallingActive, Calling
<1>2. ProgressGuard(t)'
  BY <1>0, <1>1, ZenonT(40) DEF ProgressGuard
<1>3. CASE co[t].startTs = 0
  <2>1. co[t].step = "idle" /\ co[t].outcome # "aborted" /\ ~Decided(t)
    BY <1>0, <1>3, ZenonT(40) DEF ProgressGuard, CoordinatorOK, Decided
  <2> QED
    BY <1>1, <1>2, <2>1, ZenonT(40) DEF DecisionGuard
<1>4. CASE co[t].startTs # 0
  <2>1. Barren(t) => Barren(t)'
    BY <1>4, BarrenStays, ZenonT(40)
  <2>2. Doomed(t) => Doomed(t)'
    BY <1>4, DoomStays, ZenonT(40)
  <2>3. co[t].step = "prewrite" /\ co[t].aggregate = "Ok" => Doomed(t)' \/ Prewritten(t)'
    BY PrewrittenStays, ZenonT(40) DEF Prewritten
  <2>4. Decided(t) /\ co[t].commitTs >= safePoint /\ Sealed(t) => Doomed(t)' \/ Sealed(t)'
    BY SealStays, ZenonT(40)
  <2> QED
    BY <1>0, <1>1, <1>2, <2>1, <2>2, <2>3, <2>4, ZenonT(40) DEF DecisionGuard
<1> QED
  BY <1>3, <1>4, ZenonT(40)

(* How the coordinator of t may move on, and the requests it may send. *)
Moved(t) ==
  /\ \A u \in Txn \ {t} : co'[u] = co[u]
  /\ co'[t].startTs = co[t].startTs /\ co'[t].commitTs = co[t].commitTs
  /\ co'[t].step # "idle" /\ Composed(co'[t])
  /\ Live(t)' => Live(t)
  /\ Decided(t) /\ Abandoning(co'[t]) => Abandoning(co[t]) \/ Barren(t)
  /\ co'[t].outcome = "aborted" => co[t].outcome = "aborted" \/ Quit(t)' \/ Barren(t)

SendsFit(t) ==
  \A q \in sent' \ sent :
    /\ q.txn = t
    /\ Taking(q) => Live(t)
    /\ Committing(q) => /\ q.ts = co[t].commitTs
                        /\ \/ q.keys = {Primary(t)}
                           \/ CommitOf(cells'[Primary(t)], co[t].startTs)
    /\ Undoing(q) => MayUndo(t, q.keys) \/ Quit(t)'

LEMMA StillBelow == \A m, n, x \in Nat : x <= m + 1 /\ n >= m => x <= n + 1
BY SMTT(40)

LEMMA CoordinatorMoves ==
  ASSUME TypeOK, TypeOK', Inv, AtomicityInv, NEW t \in Txn, co[t].step # "idle",
         Moved(t), SendsFit(t), tso' >= tso, lapsed' = lapsed, safePoint' = safePoint,
         \A k \in Key : Stepped(k, cells'[k], safePoint'),
         Lawful /\ co'[t].step = "prewrite" /\ co'[t].aggregate = "Ok"
           => Doomed(t)' \/ Prewritten(t)'
  PROVE  StaysAtomic
<1>0. co[t].startTs # 0 /\ ProgressGuard(t) /\ DecisionGuard(t)
  BY Basics, ZenonT(40) DEF ProgressGuard
<1>1. Lawful
  <2>1. \A u \in Txn : co'[u].startTs = co[u].startTs /\ co'[u].commitTs = co[u].commitTs
    BY ZenonT(40) DEF Moved
  <2>2. \A u \in Txn : Live(u)' => Live(u)
    BY ZenonT(40) DEF Moved, Live, CallingActive, Calling
  <2>3. \A u \in Txn : NoMoreLocks(u) => NoMoreLocks(u)'
    BY <2>1, ZenonT(40) DEF NoMoreLocks, Older
  <2>4. safePoint' >= safePoint
    BY SMTT(40) DEF TypeOK, Timestamp
  <2> QED
    BY <2>1, <2>2, <2>3, <2>4, ZenonT(40) DEF Lawful, Onward
<1>2. ProgressGuard(t)'
  <2>1. Older(t, safePoint)' => Older(t, safePoint)
    BY ZenonT(40) DEF Older, Moved
  <2> QED
    BY <1>0, <2>1, ZenonT(40) DEF ProgressGuard, Moved
<1>3. Barren(t) => Barren(t)'
  <2>1. ASSUME Barren(t) PROVE NewCommitsFit(t)
    <3>1. Doomed(t)'
      BY <1>0, <1>1, <2>1, DoomStays, ZenonT(40) DEF Barren
    <3>2. ~CommitOf(cells'[Primary(t)], co[t].startTs)
      BY <3>1, ZenonT(40) DEF Doomed, Moved
    <3> QED
      BY <3>2, ZenonT(40) DEF NewCommitsFit, SendsFit
  <2> QED
    BY <1>0, <1>1, <2>1, BarrenStays, ZenonT(40)
<1>4. DecisionGuard(t)'
  <2>1. Decided(t)' <=> Decided(t)
    BY ZenonT(40) DEF Decided, Moved
  <2>2. ASSUME Decided(t), co[t].commitTs >= safePoint PROVE Doomed(t)' \/ Sealed(t)'
    <3>1. Doomed(t) \/ Sealed(t)
      BY <1>0, <2>2, ZenonT(40) DEF DecisionGuard
    <3> QED
      BY <1>0, <1>1, <2>2, <3>1, DoomStays, SealStays, ZenonT(40)
  <2>3. Decided(t) /\ Abandoning(co'[t]) => Barren(t)'
    BY <1>0, <1>3, ZenonT(40) DEF DecisionGuard, Moved
  <2>4. Quit(t) => Quit(t)'
    BY <2>1, ZenonT(40) DEF Quit, Moved
  <2>5. co'[t].outcome = "aborted" => Quit(t)' \/ Barren(t)'
    BY <1>0, <1>3, <2>4, ZenonT(40) DEF DecisionGuard, Moved
  <2>6. co'[t].commitTs = co[t].commitTs
    BY ZenonT(40) DEF Moved
  <2> QED
    BY <1>1, <2>1, <2>2, <2>3, <2>5, <2>6, ZenonT(40) DEF DecisionGuard
<1>5. \A u \in Txn : ProgressGuard(u)' /\ DecisionGuard(u)'
  <2>1. \A u \in Txn \ {t} : NewCommitsFit(u) /\ co'[u] = co[u]
    BY SMTT(40) DEF NewCommitsFit, SendsFit, Moved
  <2>2. \A u \in Txn \ {t} : ProgressGuard(u)' /\ DecisionGuard(u)'
    BY <1>1, <2>1, Unaffected, ZenonT(40)
  <2> QED
    BY <1>2, <1>4, <2>2, ZenonT(40)
<1>6. \A q \in sent' : \/ q \in sent /\ (Taking(q) => ~Older(q.txn, safePoint)')
                       \/ RequestGuard(q)'
  <2>1. ASSUME NEW q \in sent PROVE Taking(q) => ~Older(q.txn, safePoint)'
    <3>1. RequestGuard(q) /\ q.txn \in Txn
      BY ZenonT(40) DEF AtomicityInv, TypeOK, RequestType
    <3>2. co'[q.txn].startTs = co[q.txn].startTs
      BY <3>1, ZenonT(40) DEF Moved
    <3> QED
      BY <3>1, <3>2, ZenonT(40) DEF RequestGuard, Older
  <2>2. ASSUME NEW q \in sent' \ sent PROVE RequestGuard(q)'
    <3>1. q.txn = t /\ co'[t].startTs # 0
      BY <1>0, ZenonT(40) DEF SendsFit, Moved
    <3>2. Taking(q) => ~Older(t, safePoint)'
      BY <1>0, ZenonT(40) DEF SendsFit, ProgressGuard, Older, Moved
    <3>3. Committing(q) => /\ q.ts = co'[t].commitTs
                           /\ q.keys = {Primary(t)} \/ Secured(t)'
      BY ZenonT(40) DEF SendsFit, Secured, Moved
    <3>4. Undoing(q) => MayUndo(t, q.keys)'
      <4>1. Doomed(t) => Doomed(t)'
        BY <1>0, <1>1, DoomStays, ZenonT(40)
      <4>2. Quit(t) => Quit(t)'
        BY ZenonT(40) DEF Quit, Decided, Moved
      <4> QED
        BY <4>1, <4>2, ZenonT(40) DEF SendsFit, MayUndo
    <3> QED
      BY <3>1, <3>2, <3>3, <3>4, ZenonT(40) DEF RequestGuard
  <2> QED
    BY <2>1, <2>2, ZenonT(40)
<1>7. safePoint' <= tso' + 1
  <2>1. tso \in Nat /\ safePoint \in Nat
    BY Basics, ZenonT(40)
  <2>2. tso' \in Nat
    BY ZenonT(40) DEF TypeOK, Timestamp
  <2>3. safePoint <= tso + 1
    BY ZenonT(40) DEF AtomicityInv
  <2> QED
    BY <2>1, <2>2, <2>3, StillBelow, ZenonT(40)
<1>8. \A x \in lapsed' : co'[x[2]].startTs # 0
  <2>1. \A x \in lapsed : x[2] \in Txn /\ co[x[2]].startTs # 0
    BY ZenonT(40) DEF AtomicityInv, TypeOK
  <2> QED
    BY <2>1, ZenonT(40) DEF Moved
<1> QED
  BY <1>1, <1>5, <1>6, <1>7, <1>8, StepKeepsAtomicity, ZenonT(40)

-----------------------------------------------------------------------------
(* Execution of a request *)

LEMMA UnchangedSteps ==
  ASSUME NEW k, NEW sp
  PROVE  Stepped(k, cells[k], sp)
BY ZenonT(40) DEF Stepped, Kept

LEMMA CommittingSteps ==
  ASSUME TypeOK, NEW q \in RequestType, Permitted(q), Committing(q), NEW k \in Key, k \in q.keys,
         NEW sp, CommitStatus(cells[k], co[q.txn].startTs, q.ts) = "Ok"
  PROVE  Stepped(k, CommitApply(cells[k], co[q.txn].startTs, q.ts), sp)
<1> DEFINE d == CommitApply(cells[k], co[q.txn].startTs, q.ts)
<1>1. q.txn \in Txn /\ q.ts \in Nat /\ co[q.txn].startTs \in Nat /\ cells[k] \in CellType
  BY ZenonT(40) DEF RequestType, TypeOK, CoordinatorType, Timestamp
<1>2. Committed(co[q.txn].startTs, co[q.txn].commitTs, cells[k], d)
  BY <1>1, CommitStep, ZenonT(40) DEF Permitted
<1>3. CommitSent(q.txn, k)
  BY ZenonT(40) DEF CommitSent, Permitted
<1> HIDE DEF d
<1>4. Stepped(k, d, sp)
  BY <1>1, <1>2, <1>3, ZenonT(40) DEF Stepped, Permitted
<1> QED
  BY <1>4, ZenonT(40) DEF d

LEMMA UndoingSteps ==
  ASSUME TypeOK, NEW q \in RequestType, Permitted(q), Undoing(q), NEW k \in Key, k \in q.keys,
         NEW sp, RollbackStatus(cells[k], co[q.txn].startTs) = "Ok"
  PROVE  Stepped(k, RollbackApply(cells[k], co[q.txn].startTs), sp)
<1> DEFINE d == RollbackApply(cells[k], co[q.txn].startTs)
<1>1. q.txn \in Txn /\ co[q.txn].startTs \in Nat /\ cells[k] \in CellType
  BY ZenonT(40) DEF RequestType, TypeOK, CoordinatorType, Timestamp
<1>2. k = Primary(q.txn) \/ MayUndo(q.txn, {k})
  BY ZenonT(40) DEF Permitted, MayUndo
<1>3. d = cells[k] \/ Undone(co[q.txn].startTs, cells[k], d)
  BY <1>1, RollbackStep, ZenonT(40)
<1> HIDE DEF d
<1>4. Stepped(k, d, sp)
  BY <1>1, <1>2, <1>3, UnchangedSteps, ZenonT(40) DEF Stepped, Permitted
<1> QED
  BY <1>4, ZenonT(40) DEF d

LEMMA TakingSteps ==
  ASSUME TypeOK, NEW q \in RequestType, Permitted(q), Taking(q), NEW k \in Key, NEW sp,
         Succeeds(q, k)
  PROVE  /\ Stepped(k, ApplyOn(q, k), sp)
         /\ q.op = "prewrite" => Holds(ApplyOn(q, k), co[q.txn].startTs)
<1> DEFINE t == q.txn
           s == co[t].startTs
           p == Primary(t)
           c == cells[k]
           d == ApplyOn(q, k)
<1>1. /\ t \in Txn /\ q.ts \in Nat /\ s \in Nat /\ c \in CellType /\ p \in Key
      /\ s # 0 /\ ~NoMoreLocks(t)
  BY WorkloadKeys, ZenonT(40) DEF RequestType, TypeOK, CoordinatorType, Timestamp, Permitted
<1>2. StatusOn(q, k) = "Ok"
  BY ZenonT(40) DEF Succeeds, Taking
<1>3. CASE q.op = "lock"
  <2>1. PessimisticLockStatus(c, p, s, q.ts) = "Ok"
    BY <1>2, <1>3, ZenonT(40) DEF StatusOn
  <2>2. d = PessimisticLockApply(c, p, s, q.ts)
    BY <1>3, ZenonT(40) DEF ApplyOn
  <2>3. Kept(c, d) \/ Taken(s, c, d)
    <3> HIDE DEF t, s, p, c, d
    <3> QED
      BY <1>1, <2>1, <2>2, LockStep, ZenonT(40)
  <2>4. Stepped(k, d, sp)
    <3> HIDE DEF d
    <3> QED
      BY <1>1, <2>3, ZenonT(40) DEF Stepped
  <2> QED
    BY <1>3, <2>4, ZenonT(40)
<1>4. CASE q.op = "prewrite"
  <2>1. (Kept(c, d) \/ Taken(s, c, d)) /\ Holds(d, s)
    <3>1. CASE k \in Mutations(t)
      <4> DEFINE del == k \in Workload[t].deletes
      <4>1. PrewriteStatus(c, p, s, q.ts) = "Ok"
        BY <1>2, <1>4, <3>1, ZenonT(40) DEF StatusOn
      <4>2. d = PrewriteApply(c, p, s, q.ts, del)
        BY <1>4, <3>1, ZenonT(40) DEF ApplyOn
      <4> HIDE DEF t, s, p, c, d, del
      <4> QED
        BY <1>1, <4>1, <4>2, PrewriteStep, ZenonT(40)
    <3>2. CASE k \notin Mutations(t)
      <4>1. PrewriteLockStatus(c, p, s, q.ts) = "Ok"
        BY <1>2, <1>4, <3>2, ZenonT(40) DEF StatusOn
      <4>2. d = PrewriteLockApply(c)
        BY <1>4, <3>2, ZenonT(40) DEF ApplyOn
      <4> HIDE DEF t, s, p, c, d
      <4> QED
        BY <1>1, <4>1, <4>2, PrewriteLockStep, ZenonT(40)
    <3> QED
      BY <3>1, <3>2, SMTT(40)
  <2>2. Stepped(k, d, sp)
    <3> HIDE DEF d
    <3> QED
      BY <1>1, <2>1, ZenonT(40) DEF Stepped
  <2> QED
    BY <2>1, <2>2, ZenonT(40)
<1> QED
  BY <1>3, <1>4, ZenonT(40) DEF Taking

LEMMA ExecutedSteps ==
  ASSUME TypeOK, NEW q \in RequestType, Permitted(q), NEW sp
  PROVE  \A k \in Key : Stepped(k, Executed(q)[k], sp)
<1> SUFFICES ASSUME NEW k \in Key PROVE Stepped(k, Executed(q)[k], sp)
  BY ZenonT(40)
<1>1. CASE k \notin q.keys \/ ~AllSucceed(q)
  <2>1. Executed(q)[k] = cells[k]
    BY <1>1, ZenonT(40) DEF Executed
  <2> QED
    BY <2>1, UnchangedSteps, ZenonT(40)
<1>2. CASE k \in q.keys /\ AllSucceed(q)
  <2> DEFINE s == co[q.txn].startTs
  <2>1. Executed(q)[k] = ApplyOn(q, k) /\ Succeeds(q, k)
    BY <1>2, ZenonT(40) DEF Executed, AllSucceed
  <2>2. CASE Taking(q)
    BY <2>1, <2>2, TakingSteps, ZenonT(40)
  <2>3. CASE q.op = "commit"
    <3>1. ApplyOn(q, k) = IF CommitStatus(cells[k], s, q.ts) = "Ok"
                          THEN CommitApply(cells[k], s, q.ts) ELSE cells[k]
      BY <2>3, ZenonT(40) DEF ApplyOn, StatusOn
    <3> QED
      BY <1>2, <2>1, <2>3, <3>1, CommittingSteps, UnchangedSteps, ZenonT(40) DEF Committing
  <2>4. CASE q.op = "rollback"
    <3>1. ApplyOn(q, k) = RollbackApply(cells[k], s)
      BY <2>4, ZenonT(40) DEF ApplyOn
    <3>2. RollbackStatus(cells[k], s) = "Ok"
      BY <2>1, <2>4, ZenonT(40) DEF Succeeds, StatusOn
    <3> QED
      BY <1>2, <2>1, <2>4, <3>1, <3>2, UndoingSteps, ZenonT(40) DEF Undoing
  <2>5. CASE q.op = "resolve"
    <3>1. ApplyOn(q, k) = ResolveLockApply(cells[k], s, q.decision, q.ts)
      BY <2>5, ZenonT(40) DEF ApplyOn
    <3>2. CASE q.decision = "Committed"
      <4>1. ApplyOn(q, k) = IF CommitStatus(cells[k], s, q.ts) = "Ok"
                            THEN CommitApply(cells[k], s, q.ts) ELSE cells[k]
        BY <3>1, <3>2, ZenonT(40) DEF ResolveLockApply
      <4> QED
        BY <1>2, <2>1, <2>5, <3>2, <4>1, CommittingSteps, UnchangedSteps, ZenonT(40) DEF Committing
    <3>3. CASE q.decision # "Committed"
      <4>1. ApplyOn(q, k) = IF RollbackStatus(cells[k], s) = "Ok"
                            THEN RollbackApply(cells[k], s) ELSE cells[k]
        BY <3>1, <3>3, ZenonT(40) DEF ResolveLockApply
      <4> QED
        BY <1>2, <2>1, <2>5, <3>3, <4>1, UndoingSteps, UnchangedSteps, ZenonT(40) DEF Undoing
    <3> QED
      BY <3>2, <3>3, ZenonT(40)
  <2> QED
    BY <2>2, <2>3, <2>4, <2>5, ZenonT(40) DEF RequestType, OpType, Taking
<1> QED
  BY <1>1, <1>2, ZenonT(40)

LEMMA AnswerSteps ==
  ASSUME TypeOK, AtomicityInv, NEW q, NEW ok, Answer(q, ok)
  PROVE  \A k \in Key : Stepped(k, cells'[k], safePoint')
<1>1. q \in RequestType /\ Permitted(q) /\ cells' = Executed(q)
  BY SentIsPermitted, ZenonT(40) DEF Answer, TypeOK
<1> QED
  BY <1>1, ExecutedSteps, ZenonT(40)

LEMMA UnchangedCellsStep ==
  ASSUME cells' = cells
  PROVE  \A k \in Key : Stepped(k, cells'[k], safePoint')
BY UnchangedSteps, ZenonT(40)

-----------------------------------------------------------------------------
(* The calls of the coordinators *)

LEMMA CleanupMoves ==
  ASSUME TypeOK, TypeOK', Inv, AtomicityInv, NEW t \in Txn, co[t].step # "idle",
         NEW c \in CoordinatorType, NEW why, Cleanup(t, c, why),
         c.startTs = co[t].startTs, c.commitTs = co[t].commitTs, c.outcome = co[t].outcome,
         why = "abort" => c.state # "Active", Decided(t) => Barren(t),
         tso' = tso, lapsed' = lapsed, safePoint' = safePoint,
         \A k \in Key : Stepped(k, cells'[k], safePoint')
  PROVE  StaysAtomic
<1> DEFINE d == [c EXCEPT !.step = "cleanup", !.why = why, !.todo = CleanupKeys(c, t),
                          !.aggregate = "Ok"]
<1>1. co'[t] = d /\ \A u \in Txn \ {t} : co'[u] = co[u]
  BY ZenonT(40) DEF Cleanup, TypeOK
<1>2. /\ d.step = "cleanup" /\ d.why = why /\ d.state = c.state
      /\ d.startTs = c.startTs /\ d.commitTs = c.commitTs /\ d.outcome = c.outcome
  BY ZenonT(40) DEF CoordinatorType
<1> HIDE DEF d
<1>3. ~Live(t)'
  BY <1>1, <1>2, ZenonT(40) DEF Live, CallingActive, Calling
<1>4. Decided(t)' <=> Decided(t)
  BY <1>1, <1>2, ZenonT(40) DEF Decided
<1>5. Moved(t)
  BY <1>1, <1>2, <1>3, ZenonT(40) DEF Moved, Composed
<1>6. SendsFit(t)
  <2>1. ASSUME NEW q \in sent' \ sent
        PROVE  q.txn = t /\ ~Taking(q) /\ ~Committing(q)
    BY SMTT(40) DEF Cleanup, Request, Taking, Committing
  <2>2. \A K : MayUndo(t, K) \/ Quit(t)'
    BY <1>3, <1>4, ZenonT(40) DEF MayUndo, Quit, Barren
  <2> QED
    BY <2>1, <2>2, ZenonT(40) DEF SendsFit
<1>7. tso' >= tso
  BY SMTT(40) DEF TypeOK, Timestamp
<1> QED
  BY <1>1, <1>2, <1>5, <1>6, <1>7, CoordinatorMoves, ZenonT(40)

LEMMA NothingSent ==
  ASSUME NEW t, sent' = sent PROVE SendsFit(t)
BY ZenonT(40) DEF SendsFit

LEMMA CallerIsUndecided ==
  ASSUME TypeOK, Inv, AtomicityInv, NEW t \in Txn,
         CallingActive(t) \/ co[t].step \in {"lock", "prewrite"}
  PROVE  ~Decided(t) /\ Live(t)
<1>1. CoordinatorOK(co[t], tso)
  BY Basics, ZenonT(40)
<1> QED
  BY <1>1, ZenonT(40) DEF CoordinatorOK, Decided, Live, CallingActive, Calling

LEMMA SendLockMoves ==
  ASSUME TypeOK, TypeOK', Inv, AtomicityInv, NEW t \in Txn,
         CallingActive(t) \/ co[t].step = "lock",
         NEW c \in CoordinatorType, SendLock(t, c), c.step = "lock", c.state = "Active",
         c.startTs = co[t].startTs, c.commitTs = co[t].commitTs, c.outcome = co[t].outcome,
         tso' >= tso, lapsed' = lapsed, safePoint' = safePoint,
         \A k \in Key : Stepped(k, cells'[k], safePoint')
  PROVE  StaysAtomic
<1>0. co[t].step # "idle" /\ ~Decided(t) /\ Live(t)
  BY CallerIsUndecided, ZenonT(40) DEF CallingActive, Calling
<1>1. /\ \A u \in Txn \ {t} : co'[u] = co[u]
      /\ co'[t].step \in {"app", "lock"} /\ co'[t].state = "Active"
      /\ co'[t].startTs = c.startTs /\ co'[t].commitTs = c.commitTs
      /\ co'[t].outcome = c.outcome
  <2>1. CASE c.todo = {}
    <3>1. co' = [co EXCEPT ![t] = [c EXCEPT !.step = "app"]]
      BY <2>1, ZenonT(40) DEF SendLock
    <3> QED
      BY <3>1, ZenonT(40) DEF TypeOK, CoordinatorType
  <2>2. CASE c.todo # {}
    <3>1. co' = [co EXCEPT ![t] = [c EXCEPT !.held = @ \cup {FirstKey(c.todo)}]]
      BY <2>2, ZenonT(40) DEF SendLock
    <3> QED
      BY <3>1, ZenonT(40) DEF TypeOK, CoordinatorType
  <2> QED
    BY <2>1, <2>2, ZenonT(40)
<1>2. Moved(t)
  BY <1>0, <1>1, ZenonT(40) DEF Moved, Composed
<1>3. SendsFit(t)
  <2>1. ASSUME NEW q \in sent' \ sent
        PROVE  q.txn = t /\ ~Undoing(q) /\ ~Committing(q)
    BY SMTT(40) DEF SendLock, LockRequest, Request, Undoing, Committing
  <2> QED
    BY <1>0, <2>1, ZenonT(40) DEF SendsFit
<1> QED
  BY <1>0, <1>1, <1>2, <1>3, CoordinatorMoves, ZenonT(40)

LEMMA CallsAreAtomic ==
  ASSUME TypeOK, TypeOK', Inv, AtomicityInv, NEW t \in Txn
  PROVE  /\ Deadline(t) => StaysAtomic
         /\ Write(t) => StaysAtomic
         /\ \A k \in Key : Get(t, k) => StaysAtomic
         /\ AcquireKeys(t) => StaysAtomic
         /\ LockAcquired(t) => StaysAtomic
         /\ LockRefused(t) => StaysAtomic
         /\ LockUnknown(t) => StaysAtomic
         /\ CommitLockOnly(t) => StaysAtomic
<1>0. /\ co[t] \in CoordinatorType /\ co \in [Txn -> CoordinatorType]
      /\ tso \in Nat /\ tso' \in Nat
  BY ZenonT(40) DEF TypeOK, Timestamp
<1>1. ASSUME Deadline(t) PROVE StaysAtomic
  <2>1. /\ CallingActive(t) /\ cells' = cells /\ tso' = tso /\ sent' = sent
        /\ lapsed' = lapsed /\ safePoint' = safePoint
    BY <1>1, ZenonT(40) DEF Deadline
  <2>2. /\ \A u \in Txn \ {t} : co'[u] = co[u]
        /\ co'[t].step = co[t].step /\ co'[t].state = "AbortOnly"
        /\ co'[t].startTs = co[t].startTs /\ co'[t].commitTs = co[t].commitTs
    BY <1>0, <1>1, ZenonT(40) DEF Deadline, CoordinatorType
  <2>3. ~Decided(t) /\ Live(t) /\ co[t].step = "app"
    BY <2>1, CallerIsUndecided, ZenonT(40) DEF CallingActive, Calling
  <2>4. Quit(t)'
    BY <2>2, <2>3, ZenonT(40) DEF Quit, Live, Decided, CallingActive, Calling
  <2>5. Moved(t)
    BY <2>2, <2>3, <2>4, ZenonT(40) DEF Moved, Composed
  <2> QED
    BY <1>0, <2>1, <2>2, <2>3, <2>5, NothingSent, UnchangedCellsStep, CoordinatorMoves, SMTT(40)
<1>2. ASSUME Write(t) PROVE StaysAtomic
  <2>1. /\ CallingActive(t) /\ cells' = cells /\ tso' = tso /\ sent' = sent
        /\ lapsed' = lapsed /\ safePoint' = safePoint
    BY <1>2, ZenonT(40) DEF Write
  <2>2. /\ \A u \in Txn \ {t} : co'[u] = co[u]
        /\ co'[t].step = co[t].step /\ co'[t].state = co[t].state
        /\ co'[t].startTs = co[t].startTs /\ co'[t].commitTs = co[t].commitTs
        /\ co'[t].outcome = co[t].outcome
    BY <1>0, <1>2, ZenonT(40) DEF Write, CoordinatorType
  <2>3. ~Decided(t) /\ Live(t) /\ co[t].step = "app"
    BY <2>1, CallerIsUndecided, ZenonT(40) DEF CallingActive, Calling
  <2>4. Moved(t)
    BY <2>2, <2>3, ZenonT(40) DEF Moved, Composed
  <2>9. tso' >= tso
    BY <1>0, <2>1, SMTT(40)
  <2> QED
    BY <1>0, <2>1, <2>2, <2>3, <2>4, <2>9, NothingSent, UnchangedCellsStep, CoordinatorMoves, ZenonT(40)
<1>3. ASSUME NEW k \in Key, Get(t, k) PROVE StaysAtomic
  <2>1. /\ CallingActive(t) /\ cells' = cells /\ tso' = tso /\ sent' = sent
        /\ lapsed' = lapsed /\ safePoint' = safePoint /\ co' = co
    BY <1>3, ZenonT(40) DEF Get
  <2>2. ~Decided(t) /\ Live(t) /\ co[t].step = "app"
    BY <2>1, CallerIsUndecided, ZenonT(40) DEF CallingActive, Calling
  <2>3. Moved(t)
    BY <2>1, <2>2, ZenonT(40) DEF Moved, Composed
  <2> QED
    BY <1>0, <2>1, <2>2, <2>3, NothingSent, UnchangedCellsStep, CoordinatorMoves, SMTT(40)
<1>4. ASSUME AcquireKeys(t) PROVE StaysAtomic
  <2> DEFINE next == co[t].calls + 1
             c == [co[t] EXCEPT !.step = "lock", !.calls = next,
                                !.todo = Workload[t].locks[next],
                                !.maxForUpdateTs = tso + 1]
  <2>1. /\ CallingActive(t) /\ SendLock(t, c) /\ tso' = tso + 1 /\ cells' = cells
        /\ lapsed' = lapsed /\ safePoint' = safePoint
        /\ next <= Len(Workload[t].locks)
    BY <1>4, ZenonT(40) DEF AcquireKeys
  <2>2. c \in CoordinatorType
    <3>1. next \in 1..Len(Workload[t].locks) /\ next \in Nat /\ tso + 1 \in Nat
      BY <1>0, <2>1, WorkloadKeys, SMTT(40) DEF CoordinatorType, TypeOK
    <3>2. Workload[t].locks[next] \in SUBSET Key
      BY <3>1, WorkloadKeys, SMTT(40) DEF WorkloadType
    <3> HIDE DEF next
    <3> QED
      BY <1>0, <3>1, <3>2, AcquiringType, ZenonT(40)
  <2>3. /\ c.step = "lock" /\ c.state = co[t].state /\ c.startTs = co[t].startTs
        /\ c.commitTs = co[t].commitTs /\ c.outcome = co[t].outcome
    BY <1>0, ZenonT(40) DEF CoordinatorType
  <2>4. c.state = "Active" /\ tso' >= tso
    BY <1>0, <2>1, <2>3, SMTT(40) DEF CallingActive
  <2> HIDE DEF c
  <2> QED
    BY <2>1, <2>2, <2>3, <2>4, UnchangedCellsStep, SendLockMoves, ZenonT(40)
<1>5. ASSUME LockAcquired(t) PROVE StaysAtomic
  <2> DEFINE c == [co[t] EXCEPT !.todo = @ \ {FirstKey(co[t].todo)}]
  <2>1. /\ co[t].step = "lock" /\ Answer(LockRequest(t, co[t]), TRUE) /\ SendLock(t, c)
        /\ tso' = tso /\ lapsed' = lapsed /\ safePoint' = safePoint
    BY <1>5, ZenonT(40) DEF LockAcquired
  <2>2. c \in CoordinatorType
    BY <1>0, ZenonT(40) DEF CoordinatorType
  <2>3. /\ c.step = "lock" /\ c.state = co[t].state /\ c.startTs = co[t].startTs
        /\ c.commitTs = co[t].commitTs /\ c.outcome = co[t].outcome
    BY <1>0, <2>1, ZenonT(40) DEF CoordinatorType
  <2>4. c.state = "Active" /\ tso' >= tso
    BY <1>0, <2>1, <2>3, Basics, SMTT(40) DEF ProgressGuard, Composed
  <2> HIDE DEF c
  <2>5. \A k \in Key : Stepped(k, cells'[k], safePoint')
    BY <2>1, AnswerSteps, ZenonT(40)
  <2> QED
    BY <2>1, <2>2, <2>3, <2>4, <2>5, SendLockMoves, ZenonT(40)
<1>6. ASSUME LockRefused(t) PROVE StaysAtomic
  <2> DEFINE q == LockRequest(t, co[t])
             k == FirstKey(co[t].todo)
             forgotten == IF StatusOn(q, k) = "StorageError" THEN {} ELSE {k}
             c == AbortOnly([co[t] EXCEPT !.held = @ \ forgotten])
  <2>1. /\ co[t].step = "lock" /\ Answer(q, FALSE) /\ Cleanup(t, c, "abort")
        /\ tso' = tso /\ lapsed' = lapsed /\ safePoint' = safePoint
    BY <1>6, ZenonT(40) DEF LockRefused
  <2>2. /\ c \in CoordinatorType /\ c.state # "Active" /\ c.startTs = co[t].startTs
        /\ c.commitTs = co[t].commitTs /\ c.outcome = co[t].outcome
    <3> HIDE DEF forgotten
    <3> QED
      BY <1>0, ZenonT(40) DEF AbortOnly, CoordinatorType, StateType
  <2>3. ~Decided(t)
    BY <2>1, CallerIsUndecided, ZenonT(40)
  <2>4. \A j \in Key : Stepped(j, cells'[j], safePoint')
    BY <2>1, AnswerSteps, ZenonT(40)
  <2> HIDE DEF q, c
  <2> QED
    BY <2>1, <2>2, <2>3, <2>4, CleanupMoves, ZenonT(40)
<1>7. ASSUME LockUnknown(t) PROVE StaysAtomic
  <2> DEFINE c == AbortOnly(co[t])
  <2>1. /\ co[t].step = "lock" /\ cells' = cells /\ Cleanup(t, c, "abort")
        /\ tso' = tso /\ lapsed' = lapsed /\ safePoint' = safePoint
    BY <1>7, ZenonT(40) DEF LockUnknown, GiveUp
  <2>2. /\ c \in CoordinatorType /\ c.state # "Active" /\ c.startTs = co[t].startTs
        /\ c.commitTs = co[t].commitTs /\ c.outcome = co[t].outcome
    BY <1>0, ZenonT(40) DEF AbortOnly, CoordinatorType, StateType
  <2>3. ~Decided(t)
    BY <2>1, CallerIsUndecided, ZenonT(40)
  <2> HIDE DEF c
  <2> QED
    BY <2>1, <2>2, <2>3, UnchangedCellsStep, CleanupMoves, ZenonT(40)
<1>8. ASSUME CommitLockOnly(t) PROVE StaysAtomic
  <2>1. /\ CallingActive(t) /\ cells' = cells /\ Cleanup(t, co[t], "release")
        /\ tso' = tso /\ lapsed' = lapsed /\ safePoint' = safePoint
    BY <1>8, ZenonT(40) DEF CommitLockOnly
  <2>2. ~Decided(t) /\ co[t].step # "idle"
    BY <2>1, CallerIsUndecided, ZenonT(40) DEF CallingActive, Calling
  <2> QED
    BY <1>0, <2>1, <2>2, UnchangedCellsStep, CleanupMoves, ZenonT(40)
<1> QED
  BY <1>1, <1>2, <1>3, <1>4, <1>5, <1>6, <1>7, <1>8, ZenonT(40)

-----------------------------------------------------------------------------
(* Commit *)

LEMMA FinishCommitMoves ==
  ASSUME TypeOK, TypeOK', Inv, AtomicityInv, NEW t \in Txn, co[t].step \in {"commit", "query"},
         FinishCommit(t, co[t].commitTs), CommitOf(cells'[Primary(t)], co[t].startTs),
         tso' = tso, lapsed' = lapsed, safePoint' = safePoint,
         \A k \in Key : Stepped(k, cells'[k], safePoint')
  PROVE  StaysAtomic
<1>1. /\ \A u \in Txn \ {t} : co'[u] = co[u]
      /\ co'[t].step = "app" /\ co'[t].state = "Finished" /\ co'[t].outcome = "committed"
      /\ co'[t].startTs = co[t].startTs /\ co'[t].commitTs = co[t].commitTs
  <2>1. co' = [co EXCEPT ![t].step = "app", ![t].state = "Finished", ![t].held = {},
                         ![t].commitTs = co[t].commitTs, ![t].outcome = "committed"]
    BY ZenonT(40) DEF FinishCommit
  <2> QED
    BY <2>1, SMTT(40) DEF TypeOK, CoordinatorType
<1>2. Live(t) /\ ~Abandoning(co'[t])
  BY <1>1, ZenonT(40) DEF Live, Abandoning
<1>3. Moved(t)
  BY <1>1, <1>2, ZenonT(40) DEF Moved, Composed
<1>4. SendsFit(t)
  <2> DEFINE secondaries == PrewriteKeys(t) \ {Primary(t)}
             pure == co[t].held \ PrewriteKeys(t)
  <2>1. ASSUME NEW q \in sent' \ sent
        PROVE  \/ \E K : q = CommitRequest(t, K, co[t].commitTs)
               \/ \E K \in GroupKeysByRegion(pure) : q = Request("rollback", t, K, 0, "none")
    BY ZenonT(40) DEF FinishCommit
  <2>2. ASSUME NEW K PROVE /\ CommitRequest(t, K, co[t].commitTs).txn = t
                           /\ CommitRequest(t, K, co[t].commitTs).ts = co[t].commitTs
                           /\ CommitRequest(t, K, co[t].commitTs).op = "commit"
    BY ZenonT(40) DEF CommitRequest, Request
  <2>3. ASSUME NEW K \in GroupKeysByRegion(pure)
        PROVE  /\ Request("rollback", t, K, 0, "none").txn = t
               /\ Request("rollback", t, K, 0, "none").op = "rollback"
               /\ Request("rollback", t, K, 0, "none").keys = K
               /\ K \cap PrewriteKeys(t) = {}
    BY <2>3, ZenonT(40) DEF Request, GroupKeysByRegion
  <2> HIDE DEF secondaries, pure
  <2>4. ASSUME NEW q \in sent' \ sent
        PROVE  /\ q.txn = t /\ ~Taking(q)
               /\ Committing(q) => q.ts = co[t].commitTs
               /\ Undoing(q) => MayUndo(t, q.keys)
    <3>1. CASE \E K : q = CommitRequest(t, K, co[t].commitTs)
      BY <2>2, <3>1, ZenonT(40) DEF Taking, Undoing
    <3>2. CASE \E K \in GroupKeysByRegion(pure) : q = Request("rollback", t, K, 0, "none")
      BY <2>3, <3>2, ZenonT(40) DEF Taking, Committing, MayUndo
    <3> QED
      BY <2>1, <3>1, <3>2, ZenonT(40)
  <2> QED
    BY <2>4, ZenonT(40) DEF SendsFit
<1>5. tso' >= tso
  BY SMTT(40) DEF TypeOK, Timestamp
<1> QED
  BY <1>1, <1>3, <1>4, <1>5, CoordinatorMoves, ZenonT(40)

LEMMA PrewritesAreAtomic ==
  ASSUME TypeOK, TypeOK', Inv, AtomicityInv, NEW t \in Txn
  PROVE  /\ Prewrite(t) => StaysAtomic
         /\ \A K : PrewriteAnswered(t, K) => StaysAtomic
         /\ \A K : PrewriteUnknown(t, K) => StaysAtomic
         /\ PrewriteFailed(t) => StaysAtomic
<1>0. /\ co[t] \in CoordinatorType /\ co \in [Txn -> CoordinatorType]
      /\ tso \in Nat /\ tso' \in Nat
  BY ZenonT(40) DEF TypeOK, Timestamp
<1>1. ASSUME Prewrite(t) PROVE StaysAtomic
  <2>1. /\ CallingActive(t) /\ cells' = cells /\ tso' = tso
        /\ lapsed' = lapsed /\ safePoint' = safePoint
    BY <1>1, ZenonT(40) DEF Prewrite
  <2>2. /\ \A u \in Txn \ {t} : co'[u] = co[u]
        /\ co'[t].step = "prewrite" /\ co'[t].state = co[t].state
        /\ co'[t].startTs = co[t].startTs /\ co'[t].commitTs = co[t].commitTs
        /\ co'[t].outcome = co[t].outcome /\ co'[t].todo = PrewriteKeys(t)
    BY <1>0, <1>1, ZenonT(40) DEF Prewrite, CoordinatorType
  <2>3. ~Decided(t) /\ Live(t) /\ co[t].step = "app" /\ co[t].state = "Active"
    BY <2>1, CallerIsUndecided, ZenonT(40) DEF CallingActive, Calling
  <2>4. Moved(t)
    BY <2>2, <2>3, ZenonT(40) DEF Moved, Composed
  <2>5. SendsFit(t)
    <3>1. ASSUME NEW q \in sent' \ sent
          PROVE  q.txn = t /\ ~Undoing(q) /\ ~Committing(q)
      BY <1>1, SMTT(40) DEF Prewrite, PrewriteRequest, Request, Undoing, Committing
    <3> QED
      BY <2>3, <3>1, ZenonT(40) DEF SendsFit
  <2>6. Prewritten(t)'
    BY <2>2, ZenonT(40) DEF Prewritten
  <2> QED
    BY <1>0, <2>1, <2>3, <2>4, <2>5, <2>6, UnchangedCellsStep, CoordinatorMoves, SMTT(40)
<1>2. ASSUME NEW K, PrewriteAnswered(t, K) PROVE StaysAtomic
  <2> DEFINE q == PrewriteRequest(t, K)
  <2>1. PICK ok \in BOOLEAN :
          /\ Answer(q, ok)
          /\ co' = [co EXCEPT ![t].todo = @ \ K,
                               ![t].aggregate = IF ok THEN @ ELSE "Failed"]
    BY <1>2, ZenonT(40) DEF PrewriteAnswered
  <2>2. /\ co[t].step = "prewrite" /\ tso' = tso /\ sent' = sent
        /\ lapsed' = lapsed /\ safePoint' = safePoint
    BY <1>2, ZenonT(40) DEF PrewriteAnswered
  <2>3. /\ \A u \in Txn \ {t} : co'[u] = co[u]
        /\ co'[t].step = co[t].step /\ co'[t].state = co[t].state
        /\ co'[t].startTs = co[t].startTs /\ co'[t].commitTs = co[t].commitTs
        /\ co'[t].outcome = co[t].outcome /\ co'[t].todo = co[t].todo \ K
        /\ co'[t].aggregate = IF ok THEN co[t].aggregate ELSE "Failed"
    BY <1>0, <2>1, ZenonT(40) DEF CoordinatorType
  <2>4. ~Decided(t) /\ Live(t) /\ Composed(co[t])
    BY <2>2, CallerIsUndecided, Basics, ZenonT(40) DEF ProgressGuard
  <2>5. Moved(t)
    BY <2>2, <2>3, <2>4, ZenonT(40) DEF Moved, Composed
  <2>6. \A k \in Key : Stepped(k, cells'[k], safePoint')
    BY <2>1, AnswerSteps, ZenonT(40)
  <2>7. ASSUME Lawful, co'[t].aggregate = "Ok" PROVE Doomed(t)' \/ Prewritten(t)'
    <3>1. ok /\ co[t].aggregate = "Ok"
      BY <2>3, <2>7, ZenonT(40)
    <3>2. q \in RequestType /\ Permitted(q) /\ cells' = Executed(q) /\ AllSucceed(q)
      BY <2>1, <3>1, SentIsPermitted, ZenonT(40) DEF Answer, TypeOK
    <3>3. q.txn = t /\ q.keys = K /\ q.op = "prewrite"
      BY ZenonT(40) DEF PrewriteRequest, Request
    <3> HIDE DEF q
    <3>4. ASSUME NEW k \in K \cap Key PROVE Holds(cells'[k], co[t].startTs)
      <4>1. cells'[k] = ApplyOn(q, k) /\ Succeeds(q, k)
        BY <3>2, <3>3, ZenonT(40) DEF Executed, AllSucceed
      <4> QED
        BY <3>2, <3>3, <4>1, TakingSteps, ZenonT(40) DEF Taking
    <3>5. SUFFICES ASSUME ~Doomed(t)' PROVE Prewritten(t)'
      BY ZenonT(40)
    <3>6. \A k \in PrewriteKeys(t) \ co[t].todo : Holds(cells'[k], co[t].startTs)
      BY <2>2, <2>7, <3>1, <3>5, PrewrittenStays, ZenonT(40)
    <3>7. PrewriteKeys(t) \subseteq Key
      BY Basics, ZenonT(40)
    <3> QED
      BY <2>3, <3>4, <3>6, <3>7, ZenonT(40) DEF Prewritten
  <2>9. tso' >= tso
    BY <1>0, <2>2, SMTT(40)
  <2> QED
    BY <1>0, <2>2, <2>5, <2>6, <2>7, <2>9, NothingSent, CoordinatorMoves, ZenonT(40)
<1>3. ASSUME NEW K, PrewriteUnknown(t, K) PROVE StaysAtomic
  <2>1. /\ co[t].step = "prewrite" /\ cells' = cells /\ tso' = tso /\ sent' = sent
        /\ lapsed' = lapsed /\ safePoint' = safePoint
    BY <1>3, ZenonT(40) DEF PrewriteUnknown, GiveUp
  <2>2. /\ \A u \in Txn \ {t} : co'[u] = co[u]
        /\ co'[t].step = co[t].step /\ co'[t].state = co[t].state
        /\ co'[t].startTs = co[t].startTs /\ co'[t].commitTs = co[t].commitTs
        /\ co'[t].outcome = co[t].outcome /\ co'[t].aggregate = "Failed"
    BY <1>0, <1>3, ZenonT(40) DEF PrewriteUnknown, CoordinatorType
  <2>3. ~Decided(t) /\ Live(t) /\ Composed(co[t])
    BY <2>1, CallerIsUndecided, Basics, ZenonT(40) DEF ProgressGuard
  <2>4. Moved(t)
    BY <2>1, <2>2, <2>3, ZenonT(40) DEF Moved, Composed
  <2> QED
    BY <1>0, <2>1, <2>2, <2>4, NothingSent, UnchangedCellsStep, CoordinatorMoves, SMTT(40)
<1>4. ASSUME PrewriteFailed(t) PROVE StaysAtomic
  <2> DEFINE c == AbortOnly(co[t])
  <2>1. /\ co[t].step = "prewrite" /\ cells' = cells /\ Cleanup(t, c, "abort")
        /\ tso' = tso /\ lapsed' = lapsed /\ safePoint' = safePoint
    BY <1>4, ZenonT(40) DEF PrewriteFailed
  <2>2. /\ c \in CoordinatorType /\ c.state # "Active" /\ c.startTs = co[t].startTs
        /\ c.commitTs = co[t].commitTs /\ c.outcome = co[t].outcome
    BY <1>0, ZenonT(40) DEF AbortOnly, CoordinatorType, StateType
  <2>3. ~Decided(t)
    BY <2>1, CallerIsUndecided, ZenonT(40)
  <2> HIDE DEF c
  <2> QED
    BY <2>1, <2>2, <2>3, UnchangedCellsStep, CleanupMoves, ZenonT(40)
<1> QED
  BY <1>1, <1>2, <1>3, <1>4, ZenonT(40)

(* The primary has a rollback: nothing of the transaction is committed. *)
LEMMA RolledBackIsBarren ==
  ASSUME TypeOK, Inv, AtomicityInv, NEW t \in Txn, co[t].startTs # 0, Doomed(t),
         ~Older(t, safePoint)
  PROVE  Barren(t)
<1>1. ~Secured(t)
  BY ZenonT(40) DEF Secured, Doomed
<1>2. ASSUME NEW k \in Key PROVE ~CommitOf(cells[k], co[t].startTs)
  <2>1. SUFFICES ASSUME NEW w \in cells[k].writes, w.startTs = co[t].startTs,
                        w.type # "Rollback"
                 PROVE  FALSE
    BY ZenonT(40) DEF CommitOf
  <2>2. k = Primary(t)
    BY <1>1, <2>1, ZenonT(40) DEF AtomicityInv, RecordGuard
  <2> QED
    BY <2>1, <2>2, ZenonT(40) DEF Doomed, CommitOf
<1>3. \A q \in sent : q.txn = t /\ Committing(q) => q.keys = {Primary(t)}
  BY <1>1, ZenonT(40) DEF AtomicityInv, RequestGuard
<1> QED
  BY <1>2, <1>3, ZenonT(40) DEF Barren

LEMMA DecisionsAreAtomic ==
  ASSUME TypeOK, TypeOK', Inv, AtomicityInv, NEW t \in Txn
  PROVE  /\ PrimaryCommitted(t) => StaysAtomic
         /\ PrimaryUnclear(t) => StaysAtomic
         /\ QueryCommitted(t) => StaysAtomic
         /\ QueryRolledBack(t) => StaysAtomic
         /\ QueryRetry(t) => StaysAtomic
         /\ QueryExhausted(t) => StaysAtomic
<1>0. /\ co[t] \in CoordinatorType /\ co \in [Txn -> CoordinatorType]
      /\ tso \in Nat /\ tso' \in Nat
  BY ZenonT(40) DEF TypeOK, Timestamp
<1>1. ASSUME PrimaryCommitted(t) PROVE StaysAtomic
  <2>1. /\ co[t].step = "commit"
        /\ Answer(CommitRequest(t, {Primary(t)}, co[t].commitTs), TRUE)
        /\ FinishCommit(t, co[t].commitTs)
        /\ tso' = tso /\ lapsed' = lapsed /\ safePoint' = safePoint
    BY <1>1, ZenonT(40) DEF PrimaryCommitted
  <2>2. CommitOf(cells'[Primary(t)], co[t].startTs)
    BY <2>1, PrimaryCommits, ZenonT(40)
  <2>3. \A k \in Key : Stepped(k, cells'[k], safePoint')
    BY <2>1, AnswerSteps, ZenonT(40)
  <2> QED
    BY <2>1, <2>2, <2>3, FinishCommitMoves, ZenonT(40)
<1>2. ASSUME PrimaryUnclear(t) PROVE StaysAtomic
  <2>1. /\ co[t].step = "commit" /\ tso' = tso /\ sent' = sent
        /\ lapsed' = lapsed /\ safePoint' = safePoint
    BY <1>2, ZenonT(40) DEF PrimaryUnclear
  <2>2. /\ \A u \in Txn \ {t} : co'[u] = co[u]
        /\ co'[t].step = "query" /\ co'[t].state = co[t].state
        /\ co'[t].startTs = co[t].startTs /\ co'[t].commitTs = co[t].commitTs
        /\ co'[t].outcome = co[t].outcome
    BY <1>0, <1>2, ZenonT(40) DEF PrimaryUnclear, CoordinatorType
  <2>3. Live(t) /\ Composed(co[t])
    BY <2>1, Basics, ZenonT(40) DEF Live, ProgressGuard
  <2>4. Moved(t)
    BY <2>1, <2>2, <2>3, ZenonT(40) DEF Moved, Composed, Abandoning
  <2>5. \A k \in Key : Stepped(k, cells'[k], safePoint')
    BY <1>2, AnswerSteps, UnchangedCellsStep, ZenonT(40) DEF PrimaryUnclear, GiveUp
  <2>9. tso' >= tso
    BY <1>0, <2>1, SMTT(40)
  <2> QED
    BY <1>0, <2>1, <2>2, <2>4, <2>5, <2>9, NothingSent, CoordinatorMoves, ZenonT(40)
<1>3. ASSUME QueryCommitted(t) PROVE StaysAtomic
  <2> DEFINE s == co[t].startTs
             c == cells[Primary(t)]
             P(w) == w.startTs = s /\ w.type # "Rollback"
             v == CHOOSE w \in c.writes : P(w)
  <2>1. /\ co[t].step = "query" /\ CommitOf(c, s) /\ FinishCommit(t, CommitTsOf(c, s))
        /\ cells' = cells /\ tso' = tso /\ lapsed' = lapsed /\ safePoint' = safePoint
    BY <1>3, ZenonT(40) DEF QueryCommitted, PrimaryState, InspectTxnStatus
  <2>2. v \in c.writes /\ P(v)
    BY <2>1, ZenonT(40) DEF CommitOf
  <2>3. CommitTsOf(c, s) = v.commitTs
    BY <2>1, ZenonT(40) DEF CommitTsOf
  <2> HIDE DEF v
  <2>4. v.commitTs = co[t].commitTs
    BY <2>2, Basics, ZenonT(40) DEF AtomicityInv, RecordGuard
  <2> QED
    BY <2>1, <2>3, <2>4, UnchangedCellsStep, FinishCommitMoves, ZenonT(40)
<1>4. ASSUME QueryRolledBack(t) PROVE StaysAtomic
  <2> DEFINE c == AbortOnly(co[t])
  <2>1. /\ co[t].step = "query" /\ cells' = cells /\ Cleanup(t, c, "abort")
        /\ RollbackOf(cells[Primary(t)], co[t].startTs)
        /\ tso' = tso /\ lapsed' = lapsed /\ safePoint' = safePoint
    BY <1>4, ZenonT(40) DEF QueryRolledBack, PrimaryState, InspectTxnStatus
  <2>2. /\ c \in CoordinatorType /\ c.state # "Active" /\ c.startTs = co[t].startTs
        /\ c.commitTs = co[t].commitTs /\ c.outcome = co[t].outcome
    BY <1>0, ZenonT(40) DEF AbortOnly, CoordinatorType, StateType
  <2> HIDE DEF c
  <2>3. Barren(t)
    <3>1. co[t].startTs # 0 /\ ~Older(t, safePoint)
      BY <2>1, Basics, ZenonT(40) DEF ProgressGuard, Live
    <3>2. CellOK(cells[Primary(t)])
      BY Basics, ZenonT(40) DEF Inv, CellsInv
    <3>3. Doomed(t)
      BY <2>1, <3>2, SMTT(40) DEF Doomed, RollbackOf, CommitOf, LockedBy, CellOK, OneRecord, OwnerUndecided
    <3> QED
      BY <3>1, <3>3, RolledBackIsBarren, ZenonT(40)
  <2> QED
    BY <2>1, <2>2, <2>3, UnchangedCellsStep, CleanupMoves, ZenonT(40)
<1>5. ASSUME QueryRetry(t) PROVE StaysAtomic
  <2>1. /\ co[t].step = "query" /\ cells' = cells /\ tso' = tso
        /\ lapsed' = lapsed /\ safePoint' = safePoint
    BY <1>5, ZenonT(40) DEF QueryRetry
  <2>2. /\ \A u \in Txn \ {t} : co'[u] = co[u]
        /\ co'[t].step = "commit" /\ co'[t].state = co[t].state
        /\ co'[t].startTs = co[t].startTs /\ co'[t].commitTs = co[t].commitTs
        /\ co'[t].outcome = co[t].outcome
    BY <1>0, <1>5, ZenonT(40) DEF QueryRetry, CoordinatorType
  <2>3. Live(t) /\ Composed(co[t])
    BY <2>1, Basics, ZenonT(40) DEF Live, ProgressGuard
  <2>4. Moved(t)
    BY <2>1, <2>2, <2>3, ZenonT(40) DEF Moved, Composed, Abandoning
  <2>5. SendsFit(t)
    BY <1>5, SMTT(40) DEF QueryRetry, SendsFit, CommitRequest, Request, Taking, Undoing
  <2>9. tso' >= tso
    BY <1>0, <2>1, SMTT(40)
  <2> QED
    BY <1>0, <2>1, <2>2, <2>4, <2>5, <2>9, UnchangedCellsStep, CoordinatorMoves, ZenonT(40)
<1>6. ASSUME QueryExhausted(t) PROVE StaysAtomic
  <2>1. /\ co[t].step = "query" /\ cells' = cells /\ tso' = tso /\ sent' = sent
        /\ lapsed' = lapsed /\ safePoint' = safePoint
    BY <1>6, ZenonT(40) DEF QueryExhausted
  <2>2. /\ \A u \in Txn \ {t} : co'[u] = co[u]
        /\ co'[t].step = "app" /\ co'[t].state = "ResultUnknown"
        /\ co'[t].startTs = co[t].startTs /\ co'[t].commitTs = co[t].commitTs
        /\ co'[t].outcome = "unknown"
    BY <1>0, <1>6, ZenonT(40) DEF QueryExhausted, CoordinatorType
  <2>3. Live(t)
    BY <2>1, ZenonT(40) DEF Live
  <2>4. Moved(t)
    BY <2>1, <2>2, <2>3, ZenonT(40) DEF Moved, Composed, Abandoning
  <2>9. tso' >= tso
    BY <1>0, <2>1, SMTT(40)
  <2> QED
    BY <1>0, <2>1, <2>2, <2>4, <2>9, NothingSent, UnchangedCellsStep, CoordinatorMoves, ZenonT(40)
<1> QED
  BY <1>1, <1>2, <1>3, <1>4, <1>5, <1>6, ZenonT(40)

-----------------------------------------------------------------------------
(* Cleanup and Rollback *)

LEMMA CleanupsAreAtomic ==
  ASSUME TypeOK, TypeOK', Inv, AtomicityInv, NEW t \in Txn
  PROVE  /\ \A K : CleanupAnswered(t, K) => StaysAtomic
         /\ \A K : CleanupUnknown(t, K) => StaysAtomic
         /\ CleanupDone(t) => StaysAtomic
         /\ Rollback(t) => StaysAtomic
<1>0. /\ co[t] \in CoordinatorType /\ co \in [Txn -> CoordinatorType]
      /\ tso \in Nat /\ tso' \in Nat
  BY ZenonT(40) DEF TypeOK, Timestamp
<1>1. ASSUME NEW K, CleanupAnswered(t, K) PROVE StaysAtomic
  <2>1. PICK ok \in BOOLEAN :
          /\ Answer(CleanupRequest(t, K), ok)
          /\ co' = [co EXCEPT ![t].todo = @ \ K,
                               ![t].held = IF ok THEN @ \ K ELSE @,
                               ![t].aggregate = IF ok THEN @ ELSE "AlreadyCommitted"]
    BY <1>1, ZenonT(40) DEF CleanupAnswered
  <2>2. /\ co[t].step = "cleanup" /\ tso' = tso /\ sent' = sent
        /\ lapsed' = lapsed /\ safePoint' = safePoint
    BY <1>1, ZenonT(40) DEF CleanupAnswered
  <2>3. /\ \A u \in Txn \ {t} : co'[u] = co[u]
        /\ co'[t].step = co[t].step /\ co'[t].state = co[t].state /\ co'[t].why = co[t].why
        /\ co'[t].startTs = co[t].startTs /\ co'[t].commitTs = co[t].commitTs
        /\ co'[t].outcome = co[t].outcome
    BY <1>0, <2>1, ZenonT(40) DEF CoordinatorType
  <2>4. Composed(co[t]) /\ Abandoning(co[t]) /\ ~Live(t)'
    BY <2>2, <2>3, Basics, ZenonT(40) DEF ProgressGuard, Abandoning, Live, CallingActive, Calling
  <2>5. Moved(t)
    BY <2>2, <2>3, <2>4, ZenonT(40) DEF Moved, Composed
  <2>6. \A k \in Key : Stepped(k, cells'[k], safePoint')
    BY <2>1, AnswerSteps, ZenonT(40)
  <2> QED
    BY <1>0, <2>2, <2>3, <2>5, <2>6, NothingSent, CoordinatorMoves, SMTT(40)
<1>2. ASSUME NEW K, CleanupUnknown(t, K) PROVE StaysAtomic
  <2>1. /\ co[t].step = "cleanup" /\ cells' = cells /\ tso' = tso /\ sent' = sent
        /\ lapsed' = lapsed /\ safePoint' = safePoint
    BY <1>2, ZenonT(40) DEF CleanupUnknown, GiveUp
  <2>2. /\ \A u \in Txn \ {t} : co'[u] = co[u]
        /\ co'[t].step = co[t].step /\ co'[t].state = co[t].state /\ co'[t].why = co[t].why
        /\ co'[t].startTs = co[t].startTs /\ co'[t].commitTs = co[t].commitTs
        /\ co'[t].outcome = co[t].outcome
    BY <1>0, <1>2, ZenonT(40) DEF CleanupUnknown, CoordinatorType
  <2>3. Composed(co[t]) /\ Abandoning(co[t]) /\ ~Live(t)'
    BY <2>1, <2>2, Basics, ZenonT(40) DEF ProgressGuard, Abandoning, Live, CallingActive, Calling
  <2>4. Moved(t)
    BY <2>1, <2>2, <2>3, ZenonT(40) DEF Moved, Composed
  <2>9. tso' >= tso
    BY <1>0, <2>1, SMTT(40)
  <2> QED
    BY <1>0, <2>1, <2>2, <2>4, <2>9, NothingSent, UnchangedCellsStep, CoordinatorMoves, ZenonT(40)
<1>3. ASSUME CleanupDone(t) PROVE StaysAtomic
  <2> DEFINE c == [co[t] EXCEPT !.step = "app", !.why = "none", !.aggregate = "Ok"]
             R(d) == /\ d.startTs = co[t].startTs /\ d.commitTs = co[t].commitTs
                     /\ d.step = "app" /\ d.state # "Active"
  <2>1. co[t].step = "cleanup" /\ Composed(co[t]) /\ DecisionGuard(t)
    BY <1>3, Basics, ZenonT(40) DEF CleanupDone, ProgressGuard
  <2>2. /\ c \in CoordinatorType /\ c.startTs = co[t].startTs /\ c.commitTs = co[t].commitTs
        /\ c.step = "app" /\ c.state = co[t].state
    BY <1>0, Words, ZenonT(40) DEF CoordinatorType
  <2>3. /\ co[t].why = "abort" => R([c EXCEPT !.held = {}, !.outcome = "aborted"])
        /\ R([c EXCEPT !.held = {}, !.state = "Finished", !.outcome = "released"])
        /\ R([c EXCEPT !.held = {}, !.state = "Finished", !.outcome = "aborted"])
        /\ R([c EXCEPT !.state = "Finished", !.outcome = "committed"])
        /\ R([c EXCEPT !.state = "CleanupPending", !.outcome = "pending"])
    <3> HIDE DEF c
    <3> QED
      BY <2>1, <2>2, ZenonT(40) DEF CoordinatorType, Composed
  <2>4. PICK d : co' = [co EXCEPT ![t] = d] /\ R(d)
    <3> HIDE DEF c, R
    <3> QED
      BY <1>3, <2>3, ZenonT(40) DEF CleanupDone, c
  <2>5. /\ cells' = cells /\ tso' = tso /\ sent' = sent
        /\ lapsed' = lapsed /\ safePoint' = safePoint
    BY <1>3, ZenonT(40) DEF CleanupDone
  <2>6. co'[t] = d /\ \A u \in Txn \ {t} : co'[u] = co[u]
    BY <1>0, <2>4, ZenonT(40)
  <2>7. ~Live(t)'
    BY <2>4, <2>6, ZenonT(40) DEF Live, CallingActive, Calling
  <2>8. Quit(t)' \/ Barren(t)
    BY <2>1, <2>4, <2>6, <2>7, ZenonT(40) DEF Quit, Decided, DecisionGuard, Abandoning
  <2>9. Moved(t)
    BY <2>1, <2>4, <2>6, <2>7, <2>8, ZenonT(40) DEF Moved, Composed, Abandoning
  <2> QED
    BY <1>0, <2>1, <2>4, <2>5, <2>6, <2>9, NothingSent, UnchangedCellsStep, CoordinatorMoves, SMTT(40)
<1>4. ASSUME Rollback(t) PROVE StaysAtomic
  <2>1. /\ co[t].step = "app" /\ cells' = cells /\ Cleanup(t, co[t], "rollback")
        /\ tso' = tso /\ lapsed' = lapsed /\ safePoint' = safePoint
        /\ CallingActive(t) \/ co[t].state \in {"AbortOnly", "CleanupPending"}
    BY <1>4, ZenonT(40) DEF Rollback, Calling, CallingActive
  <2>2. Decided(t) => Barren(t)
    BY <2>1, CallerIsUndecided, Basics, ZenonT(40) DEF DecisionGuard, Abandoning
  <2> QED
    BY <1>0, <2>1, <2>2, UnchangedCellsStep, CleanupMoves, ZenonT(40)
<1> QED
  BY <1>1, <1>2, <1>3, <1>4, ZenonT(40)

-----------------------------------------------------------------------------
(* Timestamps *)

LEMMA BeginIsAtomic ==
  ASSUME TypeOK, TypeOK', Inv, AtomicityInv, NEW t \in Txn, Begin(t)
  PROVE  StaysAtomic
<1>0. /\ co[t] \in CoordinatorType /\ co \in [Txn -> CoordinatorType]
      /\ tso \in Nat /\ safePoint \in Nat
  BY ZenonT(40) DEF TypeOK, Timestamp
<1>1. /\ cells' = cells /\ sent' = sent /\ lapsed' = lapsed /\ safePoint' = safePoint
      /\ tso' = tso + 1 /\ co[t].step = "idle"
  BY ZenonT(40) DEF Begin
<1>2. /\ \A u \in Txn \ {t} : co'[u] = co[u]
      /\ co'[t].step = "app" /\ co'[t].startTs = tso + 1 /\ co'[t].commitTs = co[t].commitTs
      /\ co'[t].outcome = co[t].outcome
  BY <1>0, ZenonT(40) DEF Begin, CoordinatorType
<1>3. co[t].startTs = 0 /\ ~Decided(t) /\ co[t].outcome # "aborted" /\ Live(t)
  BY <1>1, Basics, ZenonT(40) DEF ProgressGuard, CoordinatorOK, Decided, Live
<1>4. Lawful
  <2>1. \A u \in Txn \ {t} : Onward(u)
    BY <1>1, <1>2, ZenonT(40) DEF Onward, Live, CallingActive, Calling, NoMoreLocks, Older
  <2>2. Onward(t)
    BY <1>0, <1>2, <1>3, SMTT(40) DEF Onward
  <2>3. \A k \in Key : Stepped(k, cells'[k], safePoint')
    BY <1>1, UnchangedCellsStep, ZenonT(40)
  <2> QED
    BY <1>0, <1>1, <2>1, <2>2, <2>3, SMTT(40) DEF Lawful
<1>5. safePoint <= tso + 1
  BY ZenonT(40) DEF AtomicityInv
<1>6. ProgressGuard(t)' /\ DecisionGuard(t)'
  <2>1. ~Older(t, safePoint)'
    BY <1>0, <1>1, <1>2, <1>5, SMTT(40) DEF Older
  <2>2. ~Decided(t)'
    BY <1>2, <1>3, ZenonT(40) DEF Decided
  <2>3. co'[t].startTs # 0 /\ co'[t].outcome # "aborted"
    BY <1>0, <1>2, <1>3, SMTT(40)
  <2>4. Composed(co'[t])
    BY <1>2, ZenonT(40) DEF Composed
  <2>5. ProgressGuard(t)'
    BY <1>2, <2>1, <2>3, <2>4, ZenonT(40) DEF ProgressGuard
  <2>6. DecisionGuard(t)'
    BY <1>2, <2>2, <2>3, ZenonT(40) DEF DecisionGuard
  <2> QED
    BY <2>5, <2>6, ZenonT(40)
<1>7. \A u \in Txn \ {t} : ProgressGuard(u)' /\ DecisionGuard(u)'
  BY <1>1, <1>2, <1>4, Unaffected, ZenonT(40) DEF NewCommitsFit
<1>8. \A q \in sent : Taking(q) => ~Older(q.txn, safePoint)'
  <2>1. SUFFICES ASSUME NEW q \in sent, Taking(q) PROVE ~Older(q.txn, safePoint)'
    BY ZenonT(40)
  <2>2. q.txn \in Txn /\ RequestGuard(q)
    BY ZenonT(40) DEF TypeOK, RequestType, AtomicityInv
  <2>3. q.txn # t
    BY <1>3, <2>2, ZenonT(40) DEF RequestGuard
  <2> QED
    BY <1>1, <1>2, <2>1, <2>2, <2>3, ZenonT(40) DEF RequestGuard, Older
<1>9. \A x \in lapsed' : co'[x[2]].startTs # 0
  <2>1. \A x \in lapsed : x[2] \in Txn /\ co[x[2]].startTs # 0
    BY ZenonT(40) DEF AtomicityInv, TypeOK
  <2> QED
    BY <1>0, <1>1, <1>2, <2>1, SMTT(40)
<1>10. safePoint' <= tso' + 1
  BY <1>0, <1>1, <1>5, SMTT(40)
<1> QED
  BY <1>1, <1>4, <1>6, <1>7, <1>8, <1>9, <1>10, StepKeepsAtomicity, ZenonT(40)

LEMMA CommitPrimaryIsAtomic ==
  ASSUME TypeOK, TypeOK', Inv, AtomicityInv, NEW t \in Txn, CommitPrimary(t)
  PROVE  StaysAtomic
<1>0. /\ co[t] \in CoordinatorType /\ co \in [Txn -> CoordinatorType]
      /\ tso \in Nat /\ safePoint \in Nat
  BY ZenonT(40) DEF TypeOK, Timestamp
<1> DEFINE q0 == CommitRequest(t, {Primary(t)}, tso + 1)
<1>1. /\ cells' = cells /\ sent' = sent \cup {q0} /\ lapsed' = lapsed
      /\ safePoint' = safePoint /\ tso' = tso + 1
      /\ co[t].step = "prewrite" /\ co[t].todo = {} /\ co[t].aggregate = "Ok"
  BY ZenonT(40) DEF CommitPrimary
<1>2. /\ \A u \in Txn \ {t} : co'[u] = co[u]
      /\ co'[t].step = "commit" /\ co'[t].startTs = co[t].startTs
      /\ co'[t].commitTs = tso + 1 /\ co'[t].outcome = co[t].outcome
      /\ co'[t].state = co[t].state
  BY <1>0, ZenonT(40) DEF CommitPrimary, CoordinatorType
<1>3. /\ q0.txn = t /\ q0.keys = {Primary(t)} /\ q0.op = "commit" /\ q0.ts = tso + 1
  BY ZenonT(40) DEF CommitRequest, Request
<1> HIDE DEF q0
<1>4. /\ ~Decided(t) /\ Live(t) /\ ProgressGuard(t) /\ DecisionGuard(t)
      /\ co[t].startTs # 0 /\ co[t].state = "Active"
  BY <1>1, Basics, CallerIsUndecided, ZenonT(40) DEF ProgressGuard, Composed
<1>5. Lawful
  <2>1. \A u \in Txn \ {t} : Onward(u)
    BY <1>1, <1>2, ZenonT(40) DEF Onward, Live, CallingActive, Calling, NoMoreLocks, Older
  <2>2. Onward(t)
    BY <1>1, <1>2, <1>4, ZenonT(40) DEF Onward, NoMoreLocks, Older
  <2>3. \A k \in Key : Stepped(k, cells'[k], safePoint')
    BY <1>1, UnchangedCellsStep, ZenonT(40)
  <2> QED
    BY <1>0, <1>1, <2>1, <2>2, <2>3, SMTT(40) DEF Lawful
<1>6. ProgressGuard(t)'
  BY <1>1, <1>2, <1>4, ZenonT(40) DEF ProgressGuard, Composed, Older
<1>7. DecisionGuard(t)'
  <2>1. Doomed(t)' \/ Sealed(t)'
    <3>1. Doomed(t) => Doomed(t)'
      BY <1>4, <1>5, DoomStays, ZenonT(40)
    <3>2. Prewritten(t) => Sealed(t)'
      BY <1>1, <1>2, ZenonT(40) DEF Prewritten, Sealed
    <3> QED
      BY <1>1, <1>4, <3>1, <3>2, ZenonT(40) DEF DecisionGuard
  <2>2. ~Abandoning(co'[t])
    BY <1>2, <1>4, ZenonT(40) DEF Abandoning
  <2>3. co[t].outcome = "aborted" => Barren(t)'
    <3>1. co[t].outcome = "aborted" => Barren(t)
      BY <1>4, ZenonT(40) DEF DecisionGuard, Quit
    <3>2. NewCommitsFit(t)
      BY <1>1, <1>3, ZenonT(40) DEF NewCommitsFit
    <3> QED
      BY <1>4, <1>5, <3>1, <3>2, BarrenStays, ZenonT(40)
  <2> QED
    BY <1>2, <2>1, <2>2, <2>3, ZenonT(40) DEF DecisionGuard
<1>8. \A u \in Txn \ {t} : ProgressGuard(u)' /\ DecisionGuard(u)'
  BY <1>1, <1>2, <1>3, <1>5, Unaffected, ZenonT(40) DEF NewCommitsFit
<1>9. \A q \in sent : Taking(q) => ~Older(q.txn, safePoint)'
  <2>1. SUFFICES ASSUME NEW q \in sent, Taking(q) PROVE ~Older(q.txn, safePoint)'
    BY ZenonT(40)
  <2>2. q.txn \in Txn /\ RequestGuard(q)
    BY ZenonT(40) DEF TypeOK, RequestType, AtomicityInv
  <2>3. co'[q.txn].startTs = co[q.txn].startTs
    BY <1>2, <2>2, ZenonT(40)
  <2> QED
    BY <1>1, <2>1, <2>2, <2>3, ZenonT(40) DEF RequestGuard, Older
<1>10. ASSUME NEW q, q = q0 PROVE RequestGuard(q)'
  <2>1. ~Taking(q) /\ ~Undoing(q)
    BY <1>3, <1>10, ZenonT(40) DEF Taking, Undoing
  <2>2. /\ q.txn = t /\ q.keys = {Primary(t)} /\ q.ts = co'[t].commitTs
        /\ co'[t].startTs # 0
    BY <1>2, <1>3, <1>4, <1>10, ZenonT(40)
  <2> QED
    BY <2>1, <2>2, ZenonT(40) DEF RequestGuard
<1>11. \A x \in lapsed' : co'[x[2]].startTs # 0
  <2>1. \A x \in lapsed : x[2] \in Txn /\ co[x[2]].startTs # 0
    BY ZenonT(40) DEF AtomicityInv, TypeOK
  <2> QED
    BY <1>0, <1>1, <1>2, <2>1, ZenonT(40)
<1>12. safePoint' <= tso' + 1
  <2>1. safePoint <= tso + 1
    BY ZenonT(40) DEF AtomicityInv
  <2> QED
    BY <1>0, <1>1, <2>1, SMTT(40)
<1> QED
  BY <1>1, <1>5, <1>6, <1>7, <1>8, <1>9, <1>10, <1>11, <1>12, StepKeepsAtomicity, ZenonT(40)

-----------------------------------------------------------------------------
(* The nodes *)

LEMMA NodesMove ==
  ASSUME TypeOK, TypeOK', Inv, AtomicityInv, co' = co, tso' = tso, safePoint' = safePoint,
         lapsed \subseteq lapsed', \A x \in lapsed' : co[x[2]].startTs # 0,
         \A k \in Key : Stepped(k, cells'[k], safePoint'),
         \A q \in sent' : q \in sent \/ RequestGuard(q)',
         \A t \in Txn : Barren(t) => NewCommitsFit(t)
  PROVE  StaysAtomic
<1>1. Lawful
  <2>1. \A t \in Txn : Onward(t)
    BY ZenonT(40) DEF Onward, Live, CallingActive, Calling, NoMoreLocks, Older
  <2> QED
    BY <2>1, SMTT(40) DEF Lawful, TypeOK, Timestamp
<1>2. \A t \in Txn : ProgressGuard(t)' /\ DecisionGuard(t)'
  BY <1>1, Unaffected, ZenonT(40)
<1>3. \A q \in sent : Taking(q) => ~Older(q.txn, safePoint)'
  BY ZenonT(40) DEF AtomicityInv, RequestGuard, Older
<1>4. safePoint' <= tso' + 1
  BY ZenonT(40) DEF AtomicityInv
<1> QED
  BY <1>1, <1>2, <1>3, <1>4, StepKeepsAtomicity, ZenonT(40)

LEMMA ExecuteIsAtomic ==
  ASSUME TypeOK, TypeOK', Inv, AtomicityInv, NEW q \in sent, Execute(q)
  PROVE  StaysAtomic
<1>1. /\ InTime(q) /\ cells' = Executed(q) /\ co' = co /\ tso' = tso /\ sent' = sent
      /\ lapsed' = lapsed /\ safePoint' = safePoint
  BY ZenonT(40) DEF Execute
<1>2. q \in RequestType /\ Permitted(q)
  BY <1>1, SentIsPermitted, ZenonT(40) DEF TypeOK
<1>3. \A k \in Key : Stepped(k, cells'[k], safePoint')
  BY <1>1, <1>2, ExecutedSteps, ZenonT(40)
<1>4. \A x \in lapsed : co[x[2]].startTs # 0
  BY ZenonT(40) DEF AtomicityInv
<1>5. \A t \in Txn : NewCommitsFit(t)
  BY <1>1, ZenonT(40) DEF NewCommitsFit
<1> QED
  BY <1>1, <1>3, <1>4, <1>5, NodesMove, ZenonT(40)

LEMMA ExpireIsAtomic ==
  ASSUME TypeOK, TypeOK', Inv, AtomicityInv, NEW k \in Key, Expire(k)
  PROVE  StaysAtomic
<1>1. /\ HasLock(cells[k]) /\ co' = co /\ tso' = tso /\ sent' = sent
      /\ safePoint' = safePoint
  BY ZenonT(40) DEF Expire
<1>2. lapsed' = lapsed \cup {<<k, t>> : t \in {u \in Txn : co[u].startTs = cells[k].lock.startTs}}
  BY ZenonT(40) DEF Expire
<1>3. \A j \in Key : Stepped(j, cells'[j], safePoint')
  <2>1. \A j \in Key \ {k} : cells'[j] = cells[j]
    BY ZenonT(40) DEF Expire, TypeOK
  <2>2. /\ cells'[k].writes = cells[k].writes /\ cells'[k].lock.startTs = cells[k].lock.startTs
        /\ cells'[k].lock.kind = cells[k].lock.kind
    BY SMTT(40) DEF Expire, TypeOK, CellType, LockType
  <2>3. Kept(cells[k], cells'[k])
    BY <2>2, ZenonT(40) DEF Kept, IsPessimistic
  <2> QED
    BY <2>1, <2>3, UnchangedSteps, ZenonT(40) DEF Stepped
<1>4. \A x \in lapsed' : co[x[2]].startTs # 0
  <2>1. \A x \in lapsed : co[x[2]].startTs # 0
    BY ZenonT(40) DEF AtomicityInv
  <2>2. cells[k].lock.startTs # 0
    BY <1>1, ZenonT(40) DEF HasLock
  <2> QED
    BY <1>2, <2>1, <2>2, SMTT(40)
<1>5. lapsed \subseteq lapsed'
  BY <1>2, ZenonT(40)
<1>6. \A t \in Txn : NewCommitsFit(t)
  BY <1>1, ZenonT(40) DEF NewCommitsFit
<1> QED
  BY <1>1, <1>3, <1>4, <1>5, <1>6, NodesMove, ZenonT(40)

LEMMA RecoverPrimaryIsAtomic ==
  ASSUME TypeOK, TypeOK', Inv, AtomicityInv, NEW k \in Key, NEW t \in Txn, RecoverPrimary(k, t)
  PROVE  StaysAtomic
<1> DEFINE q == RecoveryRequest(t, k, "RolledBack", 0)
<1>1. /\ <<k, t>> \in lapsed /\ k = Primary(t) /\ cells' = Executed(q)
      /\ co' = co /\ tso' = tso /\ sent' = sent /\ lapsed' = lapsed /\ safePoint' = safePoint
  BY ZenonT(40) DEF RecoverPrimary
<1>2. /\ q \in RequestType /\ q.op = "resolve" /\ q.txn = t /\ q.keys = {k}
      /\ q.decision = "RolledBack"
  BY ZenonT(40) DEF RecoveryRequest, Request, RequestType, OpType, DecisionType, Timestamp
<1> HIDE DEF q
<1>3. \A x \in lapsed : co[x[2]].startTs # 0
  BY ZenonT(40) DEF AtomicityInv
<1>4. co[t].startTs # 0
  BY <1>1, <1>3, ZenonT(40)
<1>5. Permitted(q)
  BY <1>1, <1>2, <1>4, ZenonT(40) DEF Permitted, Taking, Committing
<1>6. \A j \in Key : Stepped(j, cells'[j], safePoint')
  BY <1>1, <1>2, <1>5, ExecutedSteps, ZenonT(40)
<1>7. \A u \in Txn : NewCommitsFit(u)
  BY <1>1, ZenonT(40) DEF NewCommitsFit
<1> QED
  BY <1>1, <1>3, <1>6, <1>7, NodesMove, ZenonT(40)

LEMMA RecoverSecondaryIsAtomic ==
  ASSUME TypeOK, TypeOK', Inv, AtomicityInv, NEW k \in Key, NEW t \in Txn,
         RecoverSecondary(k, t)
  PROVE  StaysAtomic
<1> DEFINE p == Primary(t)
           s == co[t].startTs
           c == cells[p]
           d == CheckTxnStatusApply(c, s)
           state == CheckTxnStatus(c, s)
<1>0. PICK q : q = RecoveryRequest(t, k, state, CommitTsOf(c, s))
  BY ZenonT(40)
<1>1. /\ <<k, t>> \in lapsed /\ state # "Locked" /\ cells' = [cells EXCEPT ![p] = d]
      /\ sent' = sent \cup {q}
      /\ co' = co /\ tso' = tso /\ lapsed' = lapsed /\ safePoint' = safePoint
  BY <1>0, ZenonT(40) DEF RecoverSecondary
<1>2. /\ q.op = "resolve" /\ q.txn = t /\ q.keys = {k}
      /\ IF state = "Committed" THEN q.decision = "Committed" /\ q.ts = CommitTsOf(c, s)
         ELSE q.decision = "RolledBack"
  BY <1>0, ZenonT(40) DEF RecoveryRequest, Request
<1>3. /\ p \in Key /\ c \in CellType /\ CellOK(c) /\ s \in Nat
      /\ \A x \in lapsed : co[x[2]].startTs # 0
  BY Basics, ZenonT(40) DEF TypeOK, Inv, CellsInv, AtomicityInv
<1>4. s # 0 /\ NoMoreLocks(t)
  BY <1>1, <1>3, ZenonT(40) DEF NoMoreLocks
<1>5. cells'[p] = d /\ \A j \in Key \ {p} : cells'[j] = cells[j]
  BY <1>1, <1>3, ZenonT(40) DEF TypeOK
<1>6. CASE MustExpire(c, s)
  <2>1. d = RollbackApply(c, s) /\ state = "RolledBack"
    BY <1>6, ZenonT(40) DEF CheckTxnStatusApply, CheckTxnStatus
  <2>2. ~RollbackOf(c, s) /\ ~CommitOf(c, s) /\ LockedBy(c, s)
    BY <1>6, ZenonT(40) DEF MustExpire, InspectTxnStatus
  <2>3. Undone(s, c, d)
    BY <1>3, <2>1, <2>2, RollbackStep, ZenonT(40) DEF RollbackStatus
  <2> HIDE DEF d, state
  <2>4. Stepped(p, d, safePoint')
    BY <1>4, <2>3, ZenonT(40) DEF Stepped, p, s, c
  <2>5. \A j \in Key : Stepped(j, cells'[j], safePoint')
    BY <1>5, <2>4, UnchangedSteps, ZenonT(40)
  <2>6. Doomed(t)'
    <3>1. RollbackOf(d, s) /\ ~CommitOf(d, s) /\ ~LockedBy(d, s)
      BY <2>2, <2>3, ZenonT(40) DEF Undone, RollbackOf, CommitOf, LockedBy, HasLock
    <3> QED
      BY <1>1, <1>5, <3>1, ZenonT(40) DEF Doomed, p, s
  <2>7. RequestGuard(q)'
    BY <1>1, <1>2, <1>4, <2>1, <2>6, ZenonT(40) DEF RequestGuard, Taking, Committing, MayUndo, s
  <2>8. \A u \in Txn : NewCommitsFit(u)
    BY <1>1, <1>2, <2>1, ZenonT(40) DEF NewCommitsFit, Committing
  <2> QED
    BY <1>1, <1>3, <2>5, <2>7, <2>8, NodesMove, ZenonT(40)
<1>7. CASE ~MustExpire(c, s)
  <2>1. d = c /\ state = InspectTxnStatus(c, s)
    BY <1>7, ZenonT(40) DEF CheckTxnStatusApply, CheckTxnStatus
  <2> HIDE DEF d, state
  <2>2. cells' = cells
    BY <1>1, <1>3, <2>1, ZenonT(40) DEF TypeOK, c
  <2>3. \A j \in Key : Stepped(j, cells'[j], safePoint')
    BY <2>2, UnchangedCellsStep, ZenonT(40)
  <2>4. CASE state = "Committed"
    <3>1. CommitOf(c, s) /\ CommitTsOf(c, s) = co[t].commitTs
      BY <1>3, <2>1, <2>4, CommitTsIsTheirs, ZenonT(40) DEF InspectTxnStatus
    <3>2. RequestGuard(q)'
      BY <1>1, <1>2, <1>4, <2>2, <2>4, <3>1, ZenonT(40)
         DEF RequestGuard, Taking, Undoing, Secured, s, c, p
    <3>3. \A u \in Txn : Barren(u) => NewCommitsFit(u)
      BY <1>1, <1>2, <1>3, <3>1, ZenonT(40) DEF NewCommitsFit, Barren, s, c, p
    <3> QED
      BY <1>1, <1>3, <2>3, <3>2, <3>3, NodesMove, ZenonT(40)
  <2>5. CASE state # "Committed"
    <3>1. ~CommitOf(c, s) /\ ~LockedBy(c, s)
      <4>1. CASE RollbackOf(c, s)
        BY <1>3, <4>1, ZenonT(40) DEF RollbackOf, CommitOf, LockedBy, CellOK, OneRecord, OwnerUndecided
      <4>2. CASE ~RollbackOf(c, s)
        BY <1>1, <2>1, <2>5, <4>2, ZenonT(40) DEF InspectTxnStatus
      <4> QED
        BY <4>1, <4>2, ZenonT(40)
    <3>2. Doomed(t)'
      BY <1>1, <1>4, <2>2, <3>1, ZenonT(40) DEF Doomed, NoMoreLocks, Older, s, c, p
    <3>3. RequestGuard(q)'
      BY <1>1, <1>2, <1>4, <2>5, <3>2, ZenonT(40) DEF RequestGuard, Taking, Committing, MayUndo, s
    <3>4. \A u \in Txn : NewCommitsFit(u)
      BY <1>1, <1>2, <2>5, ZenonT(40) DEF NewCommitsFit, Committing
    <3> QED
      BY <1>1, <1>3, <2>3, <3>3, <3>4, NodesMove, ZenonT(40)
  <2> QED
    BY <2>4, <2>5, ZenonT(40)
<1> QED
  BY <1>6, <1>7, ZenonT(40)

LEMMA AdvanceGcIsAtomic ==
  ASSUME TypeOK, TypeOK', Inv, AtomicityInv, NEW R, NEW ts \in Nat, AdvanceGc(R, ts)
  PROVE  StaysAtomic
<1>0. tso \in Nat /\ safePoint \in Nat /\ co \in [Txn -> CoordinatorType]
  BY ZenonT(40) DEF TypeOK, Timestamp
<1>1. /\ ts >= safePoint /\ ts <= tso + 1 /\ safePoint' = ts /\ tso' = tso
      /\ \A t \in Txn : Older(t, ts) => ~CallingActive(t)
      /\ sent' = {q \in sent : ~Older(q.txn, ts)}
  BY ZenonT(40) DEF AdvanceGc
<1>2. lapsed' = {x \in lapsed : Older(x[2], ts) => LockedBy(cells[x[1]], co[x[2]].startTs)}
  BY ZenonT(40) DEF AdvanceGc
<1>3. \A k \in Key : Stepped(k, cells'[k], safePoint')
  <2>1. SUFFICES ASSUME NEW k \in Key PROVE Stepped(k, cells'[k], safePoint')
    BY ZenonT(40)
  <2>2. cells'[k] = IF RegionOf[k] = R THEN GarbageCollect(cells[k], ts) ELSE cells[k]
    BY ZenonT(40) DEF AdvanceGc
  <2>3. Collected(cells[k], GarbageCollect(cells[k], ts), ts)
    BY CollectStep, ZenonT(40) DEF TypeOK
  <2> QED
    BY <1>1, <2>2, <2>3, UnchangedSteps, ZenonT(40) DEF Stepped
<1>4. ASSUME NEW t \in Txn
      PROVE  /\ co'[t].step = IF Older(t, ts) /\ co[t].step # "app" THEN "crashed" ELSE co[t].step
             /\ co'[t].state = co[t].state /\ co'[t].startTs = co[t].startTs
             /\ co'[t].commitTs = co[t].commitTs /\ co'[t].outcome = co[t].outcome
             /\ co'[t].why = co[t].why /\ co'[t].aggregate = co[t].aggregate
             /\ co'[t].todo = co[t].todo
  <2>1. co'[t] = IF Older(t, ts) /\ co[t].step # "app"
                   THEN [co[t] EXCEPT !.step = "crashed"] ELSE co[t]
    BY ZenonT(40) DEF AdvanceGc
  <2> QED
    BY <1>0, <2>1, ZenonT(40) DEF CoordinatorType
<1>5. ASSUME NEW t \in Txn PROVE Live(t)' => Live(t) /\ ~Older(t, ts)
  BY <1>1, <1>4, ZenonT(40) DEF Live, CallingActive, Calling
<1>6. Lawful
  <2>1. ASSUME NEW t \in Txn, NoMoreLocks(t) PROVE NoMoreLocks(t)'
    <3>1. co[t].startTs \in Nat /\ co'[t].startTs = co[t].startTs
      BY <1>4, Basics, ZenonT(40)
    <3>2. CASE Older(t, safePoint)
      BY <1>0, <1>1, <3>1, <3>2, SMTT(40) DEF NoMoreLocks, Older
    <3>3. ASSUME NEW k \in Key, <<k, t>> \in lapsed PROVE NoMoreLocks(t)'
      <4>1. CASE Older(t, ts)
        BY <1>1, <3>1, <4>1, ZenonT(40) DEF NoMoreLocks, Older
      <4>2. CASE ~Older(t, ts)
        <5>1. <<k, t>> \in lapsed'
          BY <1>2, <3>3, <4>2, ZenonT(40)
        <5> QED
          BY <5>1, ZenonT(40) DEF NoMoreLocks
      <4> QED
        BY <4>1, <4>2, ZenonT(40)
    <3> QED
      BY <2>1, <3>2, <3>3, ZenonT(40) DEF NoMoreLocks
  <2>2. \A t \in Txn : Onward(t)
    BY <1>4, <1>5, <2>1, ZenonT(40) DEF Onward
  <2> QED
    BY <1>0, <1>1, <1>3, <2>2, ZenonT(40) DEF Lawful
<1>7. ASSUME NEW t \in Txn PROVE ProgressGuard(t)'
  <2>1. ProgressGuard(t)
    BY Basics, ZenonT(40)
  <2>2. Older(t, safePoint)' <=> Older(t, ts)
    BY <1>1, <1>4, ZenonT(40) DEF Older
  <2>3. Older(t, ts) => co[t].startTs # 0
    BY ZenonT(40) DEF Older
  <2>4. Composed(co'[t])
    BY <1>4, <2>1, SMTT(40) DEF ProgressGuard, Composed
  <2>5. co'[t].step = "idle" <=> co[t].step = "idle"
    BY <1>4, <2>1, <2>3, ZenonT(40) DEF ProgressGuard
  <2> QED
    BY <1>4, <1>5, <2>1, <2>2, <2>4, <2>5, SMTT(40) DEF ProgressGuard
<1>8. ASSUME NEW t \in Txn PROVE DecisionGuard(t)'
  <2>0. DecisionGuard(t) /\ ProgressGuard(t)
    BY Basics, ZenonT(40)
  <2>1. Decided(t)' <=> Decided(t)
    BY <1>4, ZenonT(40) DEF Decided
  <2>2. CASE co[t].startTs = 0
    <3>1. ~Decided(t) /\ co[t].step = "idle" /\ co[t].outcome # "aborted"
      BY <2>0, <2>2, Basics, ZenonT(40) DEF ProgressGuard
    <3>2. co'[t].step = "idle"
      BY <1>4, <2>2, <3>1, ZenonT(40) DEF Older
    <3> QED
      BY <1>4, <2>1, <3>1, <3>2, ZenonT(40) DEF DecisionGuard
  <2>3. CASE co[t].startTs # 0
    <3>1. NewCommitsFit(t)
      BY <1>1, ZenonT(40) DEF NewCommitsFit
    <3>2. Barren(t) => Barren(t)'
      BY <1>6, <2>3, <3>1, BarrenStays, ZenonT(40)
    <3>3. Doomed(t) => Doomed(t)'
      BY <1>6, <2>3, DoomStays, ZenonT(40)
    <3>4. co'[t].step = "prewrite" /\ co'[t].aggregate = "Ok" => Doomed(t)' \/ Prewritten(t)'
      BY <1>4, <1>6, PrewrittenStays, ZenonT(40) DEF Prewritten
    <3>5. ASSUME Decided(t), co[t].commitTs >= ts PROVE Doomed(t)' \/ Sealed(t)'
      <4>1. co[t].commitTs >= safePoint
        BY <1>0, <1>1, <3>5, Basics, SMTT(40)
      <4>2. Doomed(t) \/ Sealed(t)
        BY <2>0, <3>5, <4>1, ZenonT(40) DEF DecisionGuard
      <4> QED
        BY <1>1, <1>6, <3>3, <3>5, <4>2, SealStays, ZenonT(40)
    <3>6. Abandoning(co'[t]) => Abandoning(co[t])
      BY <1>4, ZenonT(40) DEF Abandoning
    <3>7. Quit(t) => Quit(t)'
      BY <1>5, <2>1, ZenonT(40) DEF Quit
    <3> QED
      BY <1>1, <1>4, <2>0, <2>1, <3>2, <3>4, <3>5, <3>6, <3>7, ZenonT(40) DEF DecisionGuard
  <2> QED
    BY <2>2, <2>3, ZenonT(40)
<1>9. \A q \in sent' : q \in sent /\ (Taking(q) => ~Older(q.txn, safePoint)')
  <2>1. \A q \in sent' : q \in sent /\ q.txn \in Txn /\ ~Older(q.txn, ts)
    BY <1>1, ZenonT(40) DEF TypeOK, RequestType
  <2> QED
    BY <1>1, <1>4, <2>1, ZenonT(40) DEF Older
<1>10. \A x \in lapsed' : co'[x[2]].startTs # 0
  <2>1. \A x \in lapsed : x[2] \in Txn /\ co[x[2]].startTs # 0
    BY ZenonT(40) DEF AtomicityInv, TypeOK
  <2> QED
    BY <1>2, <1>4, <2>1, ZenonT(40)
<1>11. safePoint' <= tso' + 1
  BY <1>1, ZenonT(40)
<1> QED
  BY <1>6, <1>7, <1>8, <1>9, <1>10, <1>11, StepKeepsAtomicity, ZenonT(40)

-----------------------------------------------------------------------------
(* The invariant and the theorems *)

LEMMA AtomicityInit == Init => AtomicityInv
<1> SUFFICES ASSUME Init PROVE AtomicityInv
  BY ZenonT(40)
<1>1. /\ tso = 0 /\ safePoint = 0 /\ lapsed = {} /\ sent = {}
      /\ \A k \in Key : cells[k].writes = {}
  BY ZenonT(40) DEF Init, EmptyCell
<1>2. ASSUME NEW t \in Txn
      PROVE  /\ co[t].step = "idle" /\ co[t].startTs = 0 /\ co[t].commitTs = 0
             /\ co[t].outcome = "none"
  BY ZenonT(40) DEF Init, Coordinator0
<1>3. ASSUME NEW t \in Txn PROVE ProgressGuard(t) /\ DecisionGuard(t)
  BY <1>2, ZenonT(40) DEF ProgressGuard, DecisionGuard, Composed, Older, Decided
<1> QED
  BY <1>1, <1>3, SMTT(40) DEF AtomicityInv

LEMMA AtomicityStep ==
  ASSUME ~RollbackUnknown, TypeOK, TypeOK', Inv, AtomicityInv, [Next]_vars
  PROVE  StaysAtomic
<1>1. ASSUME NEW t \in Txn, TxnNext(t) PROVE StaysAtomic
  <2>1. co[t].step # "resolve"
    BY Basics, ZenonT(40) DEF ProgressGuard, Composed
  <2>2. ~RollbackUnknownResult(t) /\ ~ResolveAnswered(t) /\ ~ResolveUnknown(t)
    BY <2>1, ZenonT(40) DEF RollbackUnknownResult, ResolveAnswered, ResolveUnknown
  <2> QED
    BY <1>1, <2>2, BeginIsAtomic, CallsAreAtomic, PrewritesAreAtomic, CommitPrimaryIsAtomic,
       DecisionsAreAtomic, CleanupsAreAtomic, ZenonT(40) DEF TxnNext
<1>2. ASSUME NodeNext PROVE StaysAtomic
  <2>1. SafePoints \subseteq Nat
    BY GcAssumption, ZenonT(40)
  <2> QED
    BY <1>2, <2>1, ExecuteIsAtomic, ExpireIsAtomic, RecoverPrimaryIsAtomic,
       RecoverSecondaryIsAtomic, AdvanceGcIsAtomic, ZenonT(40) DEF NodeNext
<1>3. ASSUME UNCHANGED vars PROVE StaysAtomic
  <2>1. /\ cells' = cells /\ co' = co /\ tso' = tso /\ sent' = sent /\ lapsed' = lapsed
        /\ safePoint' = safePoint
    BY <1>3, ZenonT(40) DEF vars
  <2>2. \A k \in Key : Stepped(k, cells'[k], safePoint')
    BY <2>1, UnchangedCellsStep, ZenonT(40)
  <2>3. \A x \in lapsed : co[x[2]].startTs # 0
    BY ZenonT(40) DEF AtomicityInv
  <2>4. \A t \in Txn : NewCommitsFit(t)
    BY <2>1, ZenonT(40) DEF NewCommitsFit
  <2> QED
    BY <2>1, <2>2, <2>3, <2>4, NodesMove, ZenonT(40)
<1> QED
  BY <1>1, <1>2, <1>3, ZenonT(40) DEF Next

LEMMA SealedPrimaries == TypeOK /\ Inv /\ AtomicityInv => SecondariesFollowPrimary
<1> SUFFICES ASSUME TypeOK, Inv, AtomicityInv, NEW t \in Txn,
                    NEW p \in cells[Primary(t)].writes,
                    p.startTs = co[t].startTs, p.type # "Rollback", p.commitTs >= safePoint,
                    NEW k \in PrewriteKeys(t)
             PROVE  \/ LockedBy(cells[k], co[t].startTs) /\ ~IsPessimistic(cells[k])
                    \/ \E w \in cells[k].writes : /\ w.startTs = co[t].startTs
                                                  /\ w.commitTs = p.commitTs
                                                  /\ w.type # "Rollback"
  BY ZenonT(40) DEF SecondariesFollowPrimary
<1>1. p.commitTs = co[t].commitTs /\ Decided(t)
  BY Basics, ZenonT(40) DEF AtomicityInv, RecordGuard, Inv, CellsInv, RecordOK, CommitTsOK
<1>2. ~Doomed(t)
  BY ZenonT(40) DEF Doomed, CommitOf
<1>3. Sealed(t)
  BY <1>1, <1>2, Basics, ZenonT(40) DEF DecisionGuard
<1> QED
  BY <1>1, <1>3, ZenonT(40) DEF Sealed, Holds, CommitAt

LEMMA AbortedAreBarren == TypeOK /\ Inv /\ AtomicityInv => AbortedNotCommitted
<1> SUFFICES ASSUME TypeOK, Inv, AtomicityInv, NEW t \in Txn, co[t].outcome = "aborted",
                    NEW k \in Key
             PROVE  ~CommitOf(cells[k], co[t].startTs)
  BY ZenonT(40) DEF AbortedNotCommitted
<1>1. Quit(t) \/ Barren(t)
  BY Basics, ZenonT(40) DEF DecisionGuard
<1>2. CASE Quit(t)
  BY <1>2, ZenonT(40) DEF Quit, CommitOf, Inv, CellsInv, RecordOK, CommitTsOK
<1>3. CASE Barren(t)
  BY <1>3, ZenonT(40) DEF Barren
<1> QED
  BY <1>1, <1>2, <1>3, ZenonT(40)

=============================================================================
