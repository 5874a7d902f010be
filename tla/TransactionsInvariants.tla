----------------------- MODULE TransactionsInvariants -----------------------
(***************************************************************************)
(* The inductive invariants of Transactions on which the proofs of its     *)
(* safety and of the atomicity of transactions rest, and what a step may   *)
(* do to a key.                                                            *)
(***************************************************************************)
EXTENDS Transactions

-----------------------------------------------------------------------------
(* Safety: the inductive invariant Inv *)

(* A transaction has asked for its commit timestamp. *)
Decided(t) == co[t].commitTs # 0

(* ts is a timestamp t may commit at: above all it has read from. *)
CommitTsOK(t, ts) ==
  Decided(t) /\ ts > co[t].startTs /\ ts > co[t].maxForUpdateTs

(* A key has one record per transaction, and none of its lock's owner. *)
OneRecord(c) == \A v, w \in c.writes : v.startTs = w.startTs => v = w
OwnerUndecided(c) == HasLock(c) => \A w \in c.writes : w.startTs # c.lock.startTs
CellOK(c) == OneRecord(c) /\ OwnerUndecided(c)

RecordOK(w) ==
  /\ w.startTs <= tso
  /\ w.type # "Rollback" =>
       /\ w.commitTs > w.startTs
       /\ \A t \in Txn : co[t].startTs = w.startTs => CommitTsOK(t, w.commitTs)

(* A commit under way is at such a timestamp, a lock request at an earlier one. *)
RequestOK(q) ==
  /\ q.op = "lock" => q.ts <= co[q.txn].maxForUpdateTs
  /\ q.op = "commit" \/ (q.op = "resolve" /\ q.decision = "Committed")
       => CommitTsOK(q.txn, q.ts)

(***************************************************************************)
(* A coordinator with a commit timestamp takes no further lock: it is past *)
(* its prewrites, and once back in the application no longer active.       *)
(***************************************************************************)
CoordinatorOK(c, ts) ==
  /\ c.startTs <= ts /\ c.maxForUpdateTs <= ts
  /\ c.commitTs # 0 => /\ c.commitTs > c.startTs /\ c.commitTs > c.maxForUpdateTs
                       /\ c.step \notin {"idle", "lock", "prewrite"}
                       /\ c.state = "Active" => c.step \in {"commit", "query", "crashed"}
  /\ c.step \in {"commit", "query"} => c.commitTs # 0
  /\ c.step = "resolve" => /\ c.state = "ResultUnknown"
                           /\ c.decision = "Committed" => c.commitTs # 0

CellsInv == \A k \in Key : CellOK(cells[k]) /\ \A w \in cells[k].writes : RecordOK(w)
RequestsInv == \A q \in sent : RequestOK(q)
CoordinatorsInv ==
  /\ \A t \in Txn : CoordinatorOK(co[t], tso)
  /\ \A t, u \in Txn : co[t].startTs = co[u].startTs /\ co[t].startTs # 0 => t = u

Inv == CellsInv /\ RequestsInv /\ CoordinatorsInv

-----------------------------------------------------------------------------
(* Atomicity: the inductive invariant AtomicityInv *)

(* The prewrite lock of s, and a commit of s at ts. *)
Holds(c, s) == LockedBy(c, s) /\ ~IsPessimistic(c)
CommitAt(c, s, ts) ==
  \E w \in c.writes : w.startTs = s /\ w.commitTs = ts /\ w.type # "Rollback"

(* The coordinator of t may still take a lock or commit the primary. *)
Live(t) ==
  co[t].step \in {"idle", "lock", "prewrite", "commit", "query"} \/ CallingActive(t)

(* t gave up before it had a commit timestamp. *)
Quit(t) == ~Decided(t) /\ ~Live(t)

(* No request of t that takes a lock is executed any more. *)
NoMoreLocks(t) == (\E k \in Key : <<k, t>> \in lapsed) \/ Older(t, safePoint)

(* The primary of t is not committed, and never will be. *)
Doomed(t) ==
  /\ ~LockedBy(cells[Primary(t)], co[t].startTs)
  /\ ~CommitOf(cells[Primary(t)], co[t].startTs)
  /\ RollbackOf(cells[Primary(t)], co[t].startTs) \/ NoMoreLocks(t)

(* Every key of t is prewritten, or committed as t was to commit it. *)
Sealed(t) ==
  \A k \in PrewriteKeys(t) : \/ Holds(cells[k], co[t].startTs)
                             \/ CommitAt(cells[k], co[t].startTs, co[t].commitTs)

(* The primary of t is committed, or was and has been collected since. *)
Secured(t) == CommitOf(cells[Primary(t)], co[t].startTs) \/ Older(t, safePoint)

Taking(q) == q.op \in {"lock", "prewrite"}
Committing(q) == q.op = "commit" \/ (q.op = "resolve" /\ q.decision = "Committed")
Undoing(q) == q.op = "rollback" \/ (q.op = "resolve" /\ q.decision # "Committed")

(* No key of t is committed, and never will be. *)
Barren(t) ==
  /\ Doomed(t)
  /\ \A k \in Key : ~CommitOf(cells[k], co[t].startTs)
  /\ \A q \in sent : q.txn = t /\ Committing(q) => q.keys = {Primary(t)}

(* t may undo the keys K without harm. *)
MayUndo(t, K) == K \cap PrewriteKeys(t) = {} \/ Doomed(t) \/ Quit(t)

(* A key is committed at the commit timestamp and after the primary. *)
RecordGuard(w, k) ==
  /\ w.type = "Rollback" => w.commitTs = w.startTs
  /\ w.type # "Rollback" =>
       \A t \in Txn : w.startTs = co[t].startTs =>
         w.commitTs = co[t].commitTs /\ (k = Primary(t) \/ Secured(t))

RequestGuard(q) ==
  /\ co[q.txn].startTs # 0
  /\ Taking(q) => ~Older(q.txn, safePoint)
  /\ Committing(q) => /\ q.ts = co[q.txn].commitTs
                      /\ q.keys = {Primary(q.txn)} \/ Secured(q.txn)
  /\ Undoing(q) => MayUndo(q.txn, q.keys)

(* What the coordinator's own state tells. *)
Composed(c) ==
  /\ c.step # "resolve"
  /\ c.step \in {"lock", "prewrite", "commit", "query"} => c.state = "Active"
  /\ c.step = "cleanup" /\ c.why = "abort" => c.state # "Active"

ProgressGuard(t) ==
  /\ Composed(co[t])
  /\ co[t].step = "idle" <=> co[t].startTs = 0
  /\ co[t].step = "idle" => co[t].outcome # "aborted"
  /\ Older(t, safePoint) => ~Live(t)

Abandoning(c) == c.step = "cleanup" \/ c.state \in {"AbortOnly", "CleanupPending"}
Prewritten(t) ==
  \A k \in PrewriteKeys(t) \ co[t].todo : Holds(cells[k], co[t].startTs)

(* What it tells of the keys. *)
DecisionGuard(t) ==
  /\ co[t].step = "prewrite" /\ co[t].aggregate = "Ok" => Doomed(t) \/ Prewritten(t)
  /\ Decided(t) /\ co[t].commitTs >= safePoint => Doomed(t) \/ Sealed(t)
  /\ Decided(t) /\ Abandoning(co[t]) => Barren(t)
  /\ co[t].outcome = "aborted" => Quit(t) \/ Barren(t)

AtomicityInv ==
  /\ safePoint <= tso + 1
  /\ \A x \in lapsed : co[x[2]].startTs # 0
  /\ \A k \in Key : \A w \in cells[k].writes : RecordGuard(w, k)
  /\ \A q \in sent : RequestGuard(q)
  /\ \A t \in Txn : ProgressGuard(t) /\ DecisionGuard(t)

-----------------------------------------------------------------------------
(* What a step may do to a key *)

(* At most the lock's expiry, forUpdateTs or upgrade. *)
Kept(c, d) ==
  /\ d.writes = c.writes /\ d.lock.startTs = c.lock.startTs
  /\ IsPessimistic(d) => IsPessimistic(c)

Collected(c, d, sp) ==
  /\ d.lock = c.lock /\ d.writes \subseteq c.writes
  /\ \A w \in c.writes \ d.writes : w.commitTs < sp

Taken(s, c, d) ==
  ~HasLock(c) /\ d.writes = c.writes /\ d.lock.startTs = s /\ ~RollbackOf(c, s)

Committed(s, ts, c, d) ==
  /\ LockedBy(c, s) /\ ~HasLock(d)
  /\ \E w \in WriteType : /\ d.writes = c.writes \cup {w}
                          /\ w.startTs = s /\ w.commitTs = ts /\ w.type # "Rollback"

Undone(s, c, d) ==
  /\ ~CommitOf(c, s)
  /\ \E w \in WriteType : /\ d.writes = c.writes \cup {w}
                          /\ w.startTs = s /\ w.commitTs = s /\ w.type = "Rollback"
  /\ IF LockedBy(c, s) THEN ~HasLock(d) ELSE d.lock = c.lock

(* A commit of k by t is on its way. *)
CommitSent(t, k) == \E q \in sent : q.txn = t /\ Committing(q) /\ k \in q.keys

Stepped(k, d, sp) ==
  \/ Kept(cells[k], d)
  \/ Collected(cells[k], d, sp)
  \/ \E t \in Txn :
       /\ co[t].startTs # 0
       /\ \/ Taken(co[t].startTs, cells[k], d) /\ ~NoMoreLocks(t)
          \/ Committed(co[t].startTs, co[t].commitTs, cells[k], d) /\ CommitSent(t, k)
          \/ /\ Undone(co[t].startTs, cells[k], d)
             /\ k = Primary(t) \/ MayUndo(t, {k})

(* A step leaves start and commit timestamps, and never revives a transaction. *)
Onward(t) ==
  /\ \/ co'[t].startTs = co[t].startTs
     \/ co[t].startTs = 0 /\ co'[t].startTs > tso
  /\ Decided(t) => co'[t].commitTs = co[t].commitTs
  /\ ~Live(t) => ~Live(t)' /\ co'[t].commitTs = co[t].commitTs
  /\ co[t].startTs # 0 /\ NoMoreLocks(t) => NoMoreLocks(t)'

Lawful ==
  /\ safePoint' >= safePoint
  /\ \A t \in Txn : Onward(t)
  /\ \A k \in Key : Stepped(k, cells'[k], safePoint')

StaysAtomic == Lawful /\ AtomicityInv'

(* What a request does when it is executed is covered by the invariant. *)
Permitted(q) ==
  /\ co[q.txn].startTs # 0
  /\ Taking(q) => ~NoMoreLocks(q.txn)
  /\ Committing(q) => q \in sent /\ q.ts = co[q.txn].commitTs
  /\ Undoing(q) => q.keys = {Primary(q.txn)} \/ MayUndo(q.txn, q.keys)

=============================================================================
