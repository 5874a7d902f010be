----------------------------- MODULE Transactions -----------------------------
(***************************************************************************)
(* Distributed transactions over the Regions' stores: the coordinator of   *)
(* the client library (transaction/distributed_transaction_coordinator.cpp *)
(* and transaction_coordinator.cpp), the requests it sends to Regions, the *)
(* node-side recovery of expired locks and garbage collection              *)
(* (txn_recovery_manager.cpp, lock_resolver.cpp).                          *)
(*                                                                         *)
(* A request, once sent, stays in "sent": it can be executed at any later  *)
(* time, more than once (a retry of the channel) or never.  The caller     *)
(* either gets the answer of an execution or gives up on the request       *)
(* (lost answer, leader change, exhausted budget), and then the request    *)
(* may still be executed after the caller has moved on.  A crash of a      *)
(* coordinator is a behaviour in which it takes no further step.           *)
(***************************************************************************)
EXTENDS MvccStorage, FiniteSets, Sequences

CONSTANTS
  Key,        \* keys, as numbers in the order of their bytes
  Txn,        \* transactions
  RegionOf,   \* RegionOf[k]: the Region that owns k
  Workload,   \* Workload[t]: what the application of t does, see below
  SafePoints, \* safe points garbage collection may use; {}: it never runs
  RollbackUnknown,
              \* whether applications call Rollback after ResultUnknown
  RecoveryKeepsUp
              \* whether expired locks are resolved within the retention time

(***************************************************************************)
(* Workload[t] gives the keys t may read; those it locks, one element of   *)
(* locks for each BatchGetForUpdate or LockKeys call; those it puts and    *)
(* those it deletes.  primary is the first key locked or written, whatever *)
(* comes first: EnsurePrimaryKey keeps the first key it is given.          *)
(***************************************************************************)
WorkloadType == [reads : SUBSET Key, locks : Seq((SUBSET Key) \ {{}}), puts : SUBSET Key,
                 deletes : SUBSET Key, primary : Key]

ASSUME KeyAssumption == Key \subseteq Nat \ {0}

ASSUME WorkloadAssumption ==
  /\ Workload \in [Txn -> WorkloadType]
  /\ \A t \in Txn :
       LET w == Workload[t] IN
       /\ w.puts \cap w.deletes = {}
       /\ w.locks = <<>> /\ w.puts \cup w.deletes # {}
            => w.primary \in w.puts \cup w.deletes
       /\ w.locks # <<>> /\ w.primary \notin w.puts \cup w.deletes
            => w.primary \in w.locks[1] /\ \A k \in w.locks[1] : w.primary <= k

ASSUME GcAssumption == SafePoints \subseteq Nat \ {0}

ASSUME SwitchAssumption ==
  RollbackUnknown \in BOOLEAN /\ RecoveryKeepsUp \in BOOLEAN

VARIABLES
  cells,      \* cells[k]: the state of key k in the Region that owns it
  tso,        \* the last timestamp issued
  co,         \* co[t]: the Transaction object and its coordinator's progress
  sent,       \* requests sent to Regions
  lapsed,     \* <<k, t>>: a lock of t on k was seen past its expiry
  reads,      \* reads answered so far (history)
  safePoint,  \* the largest safe point collected so far (history)
  locked      \* locking reads answered so far (history)

vars == <<cells, tso, co, sent, lapsed, reads, safePoint, locked>>

Mutations(t) == Workload[t].puts \cup Workload[t].deletes
Primary(t) == Workload[t].primary

(***************************************************************************)
(* The keys Commit prewrites: a primary without a mutation is prewritten   *)
(* as a lock-only mutation.                                                *)
(***************************************************************************)
PrewriteKeys(t) == Mutations(t) \cup {Primary(t)}

(* The keys a cleanup rolls back: CleanupKeys of the Transaction object. *)
CleanupKeys(c, t) == c.held \cup IF c.written THEN Mutations(t) ELSE {}

FirstKey(K) == CHOOSE k \in K : \A j \in K : k <= j

(* The batch of the keys in K that one Region owns, for every Region. *)
GroupKeysByRegion(K) == {{k \in K : RegionOf[k] = RegionOf[j]} : j \in K}

Request(op, t, K, ts, decision) ==
  [op |-> op, txn |-> t, keys |-> K, ts |-> ts, decision |-> decision]

Coordinator0 ==
  [state |-> "Active", step |-> "idle", startTs |-> 0, commitTs |-> 0,
   maxForUpdateTs |-> 0, calls |-> 0, held |-> {}, written |-> FALSE, todo |-> {},
   aggregate |-> "Ok", why |-> "none", decision |-> "none", outcome |-> "none"]

Init ==
  /\ cells = [k \in Key |-> EmptyCell]
  /\ tso = 0
  /\ co = [t \in Txn |-> Coordinator0]
  /\ sent = {}
  /\ lapsed = {}
  /\ reads = {}
  /\ safePoint = 0
  /\ locked = {}

-----------------------------------------------------------------------------
(* Execution of a request by the leader of the Region that owns its keys *)

(***************************************************************************)
(* A transaction's lifetime (60 s), the budgets of its requests and their  *)
(* time in the scheduler end before the TTL of its locks (120 s), so that  *)
(* no request that takes a lock is executed once a lock of the same        *)
(* transaction has expired.                                                *)
(***************************************************************************)
InTime(q) ==
  q.op \in {"lock", "prewrite"} => \A k \in Key : <<k, q.txn>> \notin lapsed

StatusOn(q, k) ==
  LET startTs == co[q.txn].startTs
      primary == Primary(q.txn) IN
  CASE q.op = "lock" -> PessimisticLockStatus(cells[k], primary, startTs, q.ts)
    [] q.op = "prewrite" ->
         IF k \in Mutations(q.txn)
           THEN PrewriteStatus(cells[k], primary, startTs, q.ts)
           ELSE PrewriteLockStatus(cells[k], primary, startTs, q.ts)
    [] q.op = "commit" -> CommitStatus(cells[k], startTs, q.ts)
    [] q.op = "rollback" -> RollbackStatus(cells[k], startTs)
    [] q.op = "resolve" -> ResolveLockStatus(cells[k], startTs, q.decision, q.ts)

(***************************************************************************)
(* PrepareBatchCommit takes a key already committed for a success and      *)
(* leaves it alone.                                                        *)
(***************************************************************************)
Succeeds(q, k) ==
  \/ StatusOn(q, k) = "Ok"
  \/ q.op = "commit" /\ StatusOn(q, k) = "AlreadyCommitted"

ApplyOn(q, k) ==
  LET startTs == co[q.txn].startTs
      primary == Primary(q.txn) IN
  CASE q.op = "lock" -> PessimisticLockApply(cells[k], primary, startTs, q.ts)
    [] q.op = "prewrite" ->
         IF k \in Mutations(q.txn)
           THEN PrewriteApply(cells[k], primary, startTs, q.ts,
                              k \in Workload[q.txn].deletes)
           ELSE PrewriteLockApply(cells[k])
    [] q.op = "commit" ->
         IF StatusOn(q, k) = "Ok" THEN CommitApply(cells[k], startTs, q.ts)
         ELSE cells[k]
    [] q.op = "rollback" -> RollbackApply(cells[k], startTs)
    [] q.op = "resolve" -> ResolveLockApply(cells[k], startTs, q.decision, q.ts)

(* A batch is applied to all its keys or to none. *)
AllSucceed(q) == \A k \in q.keys : Succeeds(q, k)

Executed(q) ==
  [k \in Key |-> IF k \in q.keys /\ AllSucceed(q) THEN ApplyOn(q, k) ELSE cells[k]]

(* The request is executed and nobody hears of it. *)
Execute(q) ==
  /\ InTime(q)
  /\ cells' = Executed(q)
  /\ UNCHANGED <<tso, co, sent, lapsed, reads, safePoint, locked>>

(* The request is executed and its caller gets the answer, which is ok or not. *)
Answer(q, ok) ==
  /\ q \in sent
  /\ InTime(q)
  /\ ok = AllSucceed(q)
  /\ cells' = Executed(q)

(* The caller runs out of attempts or of its budget: the result is unknown. *)
GiveUp(q) == q \in sent /\ UNCHANGED cells

-----------------------------------------------------------------------------
(* Begin, reads and locking reads *)

Begin(t) ==
  /\ co[t].step = "idle"
  /\ tso' = tso + 1
  /\ co' = [co EXCEPT ![t].step = "app", ![t].startTs = tso + 1]
  /\ UNCHANGED <<cells, sent, lapsed, reads, safePoint, locked>>

(* The application of t may issue its next call. *)
Calling(t) == co[t].step = "app"
CallingActive(t) == Calling(t) /\ co[t].state = "Active"

(***************************************************************************)
(* CheckActiveAndDeadline finds the transaction past its lifetime: the     *)
(* call fails and the transaction is abort-only; no lock is released.      *)
(***************************************************************************)
Deadline(t) ==
  /\ CallingActive(t)
  /\ co' = [co EXCEPT ![t].state = "AbortOnly", ![t].outcome = "aborted"]
  /\ UNCHANGED <<cells, tso, sent, lapsed, reads, safePoint, locked>>

Get(t, k) ==
  /\ CallingActive(t)
  /\ k \in Workload[t].reads
  /\ GetStatus(cells[k], co[t].startTs) \in {"Ok", "NotFound"}
  /\ reads' = reads \cup {[key |-> k, readTs |-> co[t].startTs,
                           version |-> ReadCommitted(cells[k], co[t].startTs)]}
  /\ UNCHANGED <<cells, tso, co, sent, lapsed, safePoint, locked>>

(***************************************************************************)
(* AcquireKeys takes one forUpdateTs for the batch and locks its keys one  *)
(* by one, in byte order.  A key is tracked as uncertain before its        *)
(* request is sent; held stands for the confirmed and the uncertain locks. *)
(***************************************************************************)
LockRequest(t, c) == Request("lock", t, {FirstKey(c.todo)}, c.maxForUpdateTs, "none")

SendLock(t, c) ==
  IF c.todo = {}
    THEN /\ co' = [co EXCEPT ![t] = [c EXCEPT !.step = "app"]]
         /\ sent' = sent
    ELSE /\ co' = [co EXCEPT ![t] = [c EXCEPT !.held = @ \cup {FirstKey(c.todo)}]]
         /\ sent' = sent \cup {LockRequest(t, c)}

AcquireKeys(t) ==
  LET next == co[t].calls + 1 IN
  /\ CallingActive(t)
  /\ next <= Len(Workload[t].locks)
  /\ ~co[t].written /\ next = 1 => Primary(t) = FirstKey(Workload[t].locks[1])
  /\ tso' = tso + 1
  /\ SendLock(t, [co[t] EXCEPT !.step = "lock", !.calls = next,
                               !.todo = Workload[t].locks[next],
                               !.maxForUpdateTs = tso + 1])
  /\ UNCHANGED <<cells, lapsed, reads, safePoint, locked>>

(* BatchRollback of every key the transaction may have locked. *)
Cleanup(t, c, why) ==
  /\ co' = [co EXCEPT ![t] = [c EXCEPT !.step = "cleanup", !.why = why,
                                        !.todo = CleanupKeys(c, t),
                                        !.aggregate = "Ok"]]
  /\ sent' = sent \cup {Request("rollback", t, K, 0, "none") :
                          K \in GroupKeysByRegion(CleanupKeys(c, t))}

AbortOnly(c) == [c EXCEPT !.state = IF @ = "Active" THEN "AbortOnly" ELSE @]

LockAcquired(t) ==
  LET q == LockRequest(t, co[t])
      k == FirstKey(co[t].todo) IN
  /\ co[t].step = "lock"
  /\ Answer(q, TRUE)
  /\ SendLock(t, [co[t] EXCEPT !.todo = @ \ {k}])
  /\ locked' = locked \cup {[txn |-> t, key |-> k,
                              version |-> ReadCommitted(cells[k], cells'[k].lock.forUpdateTs)]}
  /\ UNCHANGED <<tso, lapsed, reads, safePoint>>

(* A conflict is final: the key is forgotten before the cleanup. *)
LockRefused(t) ==
  LET q == LockRequest(t, co[t])
      k == FirstKey(co[t].todo)
      forgotten == IF StatusOn(q, k) = "StorageError" THEN {} ELSE {k} IN
  /\ co[t].step = "lock"
  /\ Answer(q, FALSE)
  /\ Cleanup(t, AbortOnly([co[t] EXCEPT !.held = @ \ forgotten]), "abort")
  /\ UNCHANGED <<tso, lapsed, reads, safePoint, locked>>

LockUnknown(t) ==
  /\ co[t].step = "lock"
  /\ GiveUp(LockRequest(t, co[t]))
  /\ Cleanup(t, AbortOnly(co[t]), "abort")
  /\ UNCHANGED <<tso, lapsed, reads, safePoint, locked>>

-----------------------------------------------------------------------------
(* Commit: prewrite, primary, secondaries *)

(* Put and Delete only change the Transaction object. *)
Write(t) ==
  /\ CallingActive(t)
  /\ Mutations(t) # {} /\ ~co[t].written
  /\ co[t].calls = 0 => Primary(t) \in Mutations(t)
  /\ co' = [co EXCEPT ![t].written = TRUE]
  /\ UNCHANGED <<cells, tso, sent, lapsed, reads, safePoint, locked>>

(* Commit of a transaction without mutations releases its locks. *)
CommitLockOnly(t) ==
  /\ CallingActive(t)
  /\ ~co[t].written
  /\ Cleanup(t, co[t], "release")
  /\ UNCHANGED <<cells, tso, lapsed, reads, safePoint, locked>>

PrewriteRequest(t, K) == Request("prewrite", t, K, co[t].maxForUpdateTs, "none")

Prewrite(t) ==
  /\ CallingActive(t)
  /\ co[t].written
  /\ co' = [co EXCEPT ![t].step = "prewrite", ![t].todo = PrewriteKeys(t),
                       ![t].aggregate = "Ok"]
  /\ sent' = sent \cup {PrewriteRequest(t, K) : K \in GroupKeysByRegion(PrewriteKeys(t))}
  /\ UNCHANGED <<cells, tso, lapsed, reads, safePoint, locked>>

PrewriteAnswered(t, K) ==
  /\ co[t].step = "prewrite"
  /\ K \in GroupKeysByRegion(co[t].todo)
  /\ \E ok \in BOOLEAN :
       /\ Answer(PrewriteRequest(t, K), ok)
       /\ co' = [co EXCEPT ![t].todo = @ \ K,
                            ![t].aggregate = IF ok THEN @ ELSE "Failed"]
  /\ UNCHANGED <<tso, sent, lapsed, reads, safePoint, locked>>

PrewriteUnknown(t, K) ==
  /\ co[t].step = "prewrite"
  /\ K \in GroupKeysByRegion(co[t].todo)
  /\ GiveUp(PrewriteRequest(t, K))
  /\ co' = [co EXCEPT ![t].todo = @ \ K, ![t].aggregate = "Failed"]
  /\ UNCHANGED <<tso, sent, lapsed, reads, safePoint, locked>>

(* Some prewrite failed, or no commit timestamp could be had. *)
PrewriteFailed(t) ==
  /\ co[t].step = "prewrite" /\ co[t].todo = {}
  /\ Cleanup(t, AbortOnly(co[t]), "abort")
  /\ UNCHANGED <<cells, tso, lapsed, reads, safePoint, locked>>

CommitRequest(t, K, commitTs) == Request("commit", t, K, commitTs, "none")

(* Only now, with every prewrite acknowledged, is commitTs taken. *)
CommitPrimary(t) ==
  /\ co[t].step = "prewrite" /\ co[t].todo = {} /\ co[t].aggregate = "Ok"
  /\ tso' = tso + 1
  /\ co' = [co EXCEPT ![t].step = "commit", ![t].commitTs = tso + 1]
  /\ sent' = sent \cup {CommitRequest(t, {Primary(t)}, tso + 1)}
  /\ UNCHANGED <<cells, lapsed, reads, safePoint, locked>>

(***************************************************************************)
(* The primary is committed: the secondaries are committed and the locks   *)
(* on keys without a mutation released; failures of either are only        *)
(* logged, and Commit returns Ok.                                          *)
(***************************************************************************)
FinishCommit(t, commitTs) ==
  LET secondaries == PrewriteKeys(t) \ {Primary(t)}
      pure == co[t].held \ PrewriteKeys(t) IN
  /\ sent' = sent \cup {CommitRequest(t, K, commitTs) : K \in GroupKeysByRegion(secondaries)}
                   \cup {Request("rollback", t, K, 0, "none") : K \in GroupKeysByRegion(pure)}
  /\ co' = [co EXCEPT ![t].step = "app", ![t].state = "Finished", ![t].held = {},
                       ![t].commitTs = commitTs, ![t].outcome = "committed"]

PrimaryCommitted(t) ==
  /\ co[t].step = "commit"
  /\ Answer(CommitRequest(t, {Primary(t)}, co[t].commitTs), TRUE)
  /\ FinishCommit(t, co[t].commitTs)
  /\ UNCHANGED <<tso, lapsed, reads, safePoint, locked>>

(* The answer is lost or negative: ask for the primary's state. *)
PrimaryUnclear(t) ==
  /\ co[t].step = "commit"
  /\ \/ GiveUp(CommitRequest(t, {Primary(t)}, co[t].commitTs))
     \/ Answer(CommitRequest(t, {Primary(t)}, co[t].commitTs), FALSE)
  /\ co' = [co EXCEPT ![t].step = "query"]
  /\ UNCHANGED <<tso, sent, lapsed, reads, safePoint, locked>>

PrimaryState(t) == InspectTxnStatus(cells[Primary(t)], co[t].startTs)

QueryCommitted(t) ==
  /\ co[t].step = "query"
  /\ PrimaryState(t) = "Committed"
  /\ FinishCommit(t, CommitTsOf(cells[Primary(t)], co[t].startTs))
  /\ UNCHANGED <<cells, tso, lapsed, reads, safePoint, locked>>

QueryRolledBack(t) ==
  /\ co[t].step = "query"
  /\ PrimaryState(t) = "RolledBack"
  /\ Cleanup(t, AbortOnly(co[t]), "abort")
  /\ UNCHANGED <<cells, tso, lapsed, reads, safePoint, locked>>

QueryRetry(t) ==
  /\ co[t].step = "query"
  /\ PrimaryState(t) \in {"Locked", "NotFound"}
  /\ co' = [co EXCEPT ![t].step = "commit"]
  /\ sent' = sent \cup {CommitRequest(t, {Primary(t)}, co[t].commitTs)}
  /\ UNCHANGED <<cells, tso, lapsed, reads, safePoint, locked>>

(* Mutant of QueryExhausted: an unknown result is reported as an abort. *)
QueryExhaustedAborts(t) ==
  /\ co[t].step = "query"
  /\ co' = [co EXCEPT ![t].step = "app", ![t].state = "AbortOnly",
                       ![t].outcome = "aborted"]
  /\ UNCHANGED <<cells, tso, sent, lapsed, reads, safePoint, locked>>

(* The resolution budget is exhausted. *)
QueryExhausted(t) ==
  /\ co[t].step = "query"
  /\ co' = [co EXCEPT ![t].step = "app", ![t].state = "ResultUnknown",
                       ![t].outcome = "unknown"]
  /\ UNCHANGED <<cells, tso, sent, lapsed, reads, safePoint, locked>>

-----------------------------------------------------------------------------
(* Cleanup and Rollback *)

CleanupRequest(t, K) == Request("rollback", t, K, 0, "none")

CleanupAnswered(t, K) ==
  /\ co[t].step = "cleanup"
  /\ K \in GroupKeysByRegion(co[t].todo)
  /\ \E ok \in BOOLEAN :
       /\ Answer(CleanupRequest(t, K), ok)
       /\ co' = [co EXCEPT ![t].todo = @ \ K,
                            ![t].held = IF ok THEN @ \ K ELSE @,
                            ![t].aggregate = IF ok THEN @ ELSE "AlreadyCommitted"]
  /\ UNCHANGED <<tso, sent, lapsed, reads, safePoint, locked>>

CleanupUnknown(t, K) ==
  /\ co[t].step = "cleanup"
  /\ K \in GroupKeysByRegion(co[t].todo)
  /\ GiveUp(CleanupRequest(t, K))
  /\ co' = [co EXCEPT ![t].todo = @ \ K, ![t].aggregate = "CleanupPending"]
  /\ UNCHANGED <<tso, sent, lapsed, reads, safePoint, locked>>

(***************************************************************************)
(* The call that started the cleanup returns: a failed lock or Commit      *)
(* ("abort"), Commit without mutations ("release") or Rollback             *)
(* ("rollback").                                                           *)
(***************************************************************************)
CleanupDone(t) ==
  LET c == [co[t] EXCEPT !.step = "app", !.why = "none", !.aggregate = "Ok"] IN
  /\ co[t].step = "cleanup" /\ co[t].todo = {}
  /\ co' = [co EXCEPT ![t] =
       CASE co[t].aggregate = "Ok" /\ co[t].why = "abort" ->
              [c EXCEPT !.held = {}, !.outcome = "aborted"]
         [] co[t].aggregate = "Ok" /\ co[t].why = "release" ->
              [c EXCEPT !.held = {}, !.state = "Finished", !.outcome = "released"]
         [] co[t].aggregate = "Ok" /\ co[t].why = "rollback" ->
              [c EXCEPT !.held = {}, !.state = "Finished", !.outcome = "aborted"]
         [] co[t].aggregate = "AlreadyCommitted" /\ co[t].why = "rollback" ->
              [c EXCEPT !.state = "Finished", !.outcome = "committed"]
         [] OTHER -> [c EXCEPT !.state = "CleanupPending", !.outcome = "pending"]]
  /\ UNCHANGED <<cells, tso, sent, lapsed, reads, safePoint, locked>>

Rollback(t) ==
  /\ Calling(t)
  /\ co[t].state \in {"Active", "AbortOnly", "CleanupPending"}
  /\ Cleanup(t, co[t], "rollback")
  /\ UNCHANGED <<cells, tso, lapsed, reads, safePoint, locked>>

(***************************************************************************)
(* Rollback after ResultUnknown asks for the primary's state once and then *)
(* resolves the transaction's keys one by one, in byte order, with what it *)
(* was told; Locked and NotFound count as RolledBack.                      *)
(***************************************************************************)
ResolveRequest(t, c) ==
  Request("resolve", t, {FirstKey(c.todo)},
          IF c.decision = "Committed" THEN c.commitTs ELSE 0, c.decision)

SendResolve(t, c) ==
  IF c.todo = {}
    THEN /\ co' = [co EXCEPT ![t] =
              IF c.aggregate = "Ok"
                THEN [c EXCEPT !.step = "app", !.state = "Finished", !.held = {},
                               !.outcome = IF c.decision = "Committed"
                                             THEN "committed" ELSE "aborted"]
                ELSE [c EXCEPT !.step = "app", !.outcome = "pending"]]
         /\ sent' = sent
    ELSE /\ co' = [co EXCEPT ![t] = c]
         /\ sent' = sent \cup {ResolveRequest(t, c)}

RollbackUnknownResult(t) ==
  LET committed == PrimaryState(t) = "Committed" IN
  /\ RollbackUnknown
  /\ Calling(t) /\ co[t].state = "ResultUnknown"
  /\ SendResolve(t, [co[t] EXCEPT
       !.step = "resolve", !.todo = CleanupKeys(co[t], t), !.aggregate = "Ok",
       !.decision = IF committed THEN "Committed" ELSE "RolledBack",
       !.commitTs = IF committed THEN CommitTsOf(cells[Primary(t)], co[t].startTs) ELSE @])
  /\ UNCHANGED <<cells, tso, lapsed, reads, safePoint, locked>>

ResolveAnswered(t) ==
  /\ co[t].step = "resolve"
  /\ \E ok \in BOOLEAN :
       /\ Answer(ResolveRequest(t, co[t]), ok)
       /\ SendResolve(t, [co[t] EXCEPT !.todo = @ \ {FirstKey(@)},
                                       !.aggregate = IF ok THEN @ ELSE "CleanupPending"])
  /\ UNCHANGED <<tso, lapsed, reads, safePoint, locked>>

ResolveUnknown(t) ==
  /\ co[t].step = "resolve"
  /\ GiveUp(ResolveRequest(t, co[t]))
  /\ SendResolve(t, [co[t] EXCEPT !.todo = @ \ {FirstKey(@)},
                                  !.aggregate = "CleanupPending"])
  /\ UNCHANGED <<tso, lapsed, reads, safePoint, locked>>

-----------------------------------------------------------------------------
(* Recovery of expired locks and garbage collection, on the nodes *)

(* The lock on k passes its expiry, and a scan of the Region lists it. *)
Expire(k) ==
  /\ HasLock(cells[k]) /\ ~cells[k].lock.expired
  /\ cells' = [cells EXCEPT ![k].lock.expired = TRUE]
  /\ lapsed' = lapsed \cup {<<k, t>> : t \in {u \in Txn : co[u].startTs = cells[k].lock.startTs}}
  /\ UNCHANGED <<tso, co, sent, reads, safePoint, locked>>

RecoveryRequest(t, k, state, commitTs) ==
  Request("resolve", t, {k}, IF state = "Committed" THEN commitTs ELSE 0,
          IF state = "Committed" THEN state ELSE "RolledBack")

(***************************************************************************)
(* ScanOnce works from a list of expired locks that may be stale: the lock *)
(* may be gone when its turn comes.  A lock on its own primary key is      *)
(* rolled back without a question asked.  As <<k, t>> stays in lapsed,     *)
(* this happens at any later time, more than once or never, like the       *)
(* requests in sent.                                                       *)
(***************************************************************************)
RecoverPrimary(k, t) ==
  /\ <<k, t>> \in lapsed /\ k = Primary(t)
  /\ cells' = Executed(RecoveryRequest(t, k, "RolledBack", 0))
  /\ UNCHANGED <<tso, co, sent, lapsed, reads, safePoint, locked>>

(* Mutant of RecoverSecondary: a locked primary counts as rolled back. *)
RecoverSecondaryOfLocked(k, t) ==
  LET p == cells[Primary(t)]
      state == CheckTxnStatus(p, co[t].startTs) IN
  /\ <<k, t>> \in lapsed /\ k # Primary(t)
  /\ cells' = [cells EXCEPT ![Primary(t)] = CheckTxnStatusApply(p, co[t].startTs)]
  /\ sent' = sent \cup {RecoveryRequest(t, k, state, CommitTsOf(p, co[t].startTs))}
  /\ UNCHANGED <<tso, co, lapsed, reads, safePoint, locked>>

(* Mutant of RecoverSecondary: a committed primary's secondaries are left alone. *)
RecoverSecondaryOfUncommitted(k, t) ==
  LET p == cells[Primary(t)]
      state == CheckTxnStatus(p, co[t].startTs) IN
  /\ <<k, t>> \in lapsed /\ k # Primary(t)
  /\ state \notin {"Locked", "Committed"}
  /\ cells' = [cells EXCEPT ![Primary(t)] = CheckTxnStatusApply(p, co[t].startTs)]
  /\ sent' = sent \cup {RecoveryRequest(t, k, state, CommitTsOf(p, co[t].startTs))}
  /\ UNCHANGED <<tso, co, lapsed, reads, safePoint, locked>>

(***************************************************************************)
(* For any other lock CheckTxnStatus asks the primary, rolling it back     *)
(* when its lock has expired too.  A primary still locked is left for the  *)
(* next scan; one without any trace of the transaction counts as rolled    *)
(* back.                                                                   *)
(***************************************************************************)
RecoverSecondary(k, t) ==
  LET p == cells[Primary(t)]
      state == CheckTxnStatus(p, co[t].startTs) IN
  /\ <<k, t>> \in lapsed /\ k # Primary(t)
  /\ state # "Locked"
  /\ cells' = [cells EXCEPT ![Primary(t)] = CheckTxnStatusApply(p, co[t].startTs)]
  /\ sent' = sent \cup {RecoveryRequest(t, k, state, CommitTsOf(p, co[t].startTs))}
  /\ UNCHANGED <<tso, co, lapsed, reads, safePoint, locked>>

(***************************************************************************)
(* AdvanceGc of the leader of one Region.  The safe point lags 5 minutes   *)
(* behind the clock, far beyond the lifetime of a transaction and of its   *)
(* requests: an older coordinator still in a call has crashed, and what is *)
(* under way for its transaction is gone.  When recovery keeps up, its     *)
(* locks are gone as well.                                                 *)
(***************************************************************************)
Older(t, ts) == co[t].startTs # 0 /\ co[t].startTs < ts

AdvanceGc(R, ts) ==
  /\ ts >= safePoint /\ ts <= tso + 1
  /\ \A t \in Txn : Older(t, ts) => ~CallingActive(t)
  /\ RecoveryKeepsUp => \A k \in Key : HasLock(cells[k]) => cells[k].lock.startTs >= ts
  /\ cells' = [k \in Key |-> IF RegionOf[k] = R THEN GarbageCollect(cells[k], ts) ELSE cells[k]]
  /\ safePoint' = ts
  /\ co' = [t \in Txn |-> IF Older(t, ts) /\ co[t].step # "app"
                             THEN [co[t] EXCEPT !.step = "crashed"] ELSE co[t]]
  /\ sent' = {q \in sent : ~Older(q.txn, ts)}
  /\ lapsed' = {x \in lapsed : Older(x[2], ts) => LockedBy(cells[x[1]], co[x[2]].startTs)}
  /\ UNCHANGED <<tso, reads, locked>>

-----------------------------------------------------------------------------
TxnNext(t) ==
  \/ Begin(t) \/ Deadline(t) \/ Write(t)
  \/ \E k \in Key : Get(t, k)
  \/ AcquireKeys(t) \/ LockAcquired(t) \/ LockRefused(t) \/ LockUnknown(t)
  \/ CommitLockOnly(t) \/ Prewrite(t) \/ PrewriteFailed(t) \/ CommitPrimary(t)
  \/ \E K \in SUBSET Key : PrewriteAnswered(t, K) \/ PrewriteUnknown(t, K)
  \/ PrimaryCommitted(t) \/ PrimaryUnclear(t)
  \/ QueryCommitted(t) \/ QueryRolledBack(t) \/ QueryRetry(t) \/ QueryExhausted(t)
  \/ \E K \in SUBSET Key : CleanupAnswered(t, K) \/ CleanupUnknown(t, K)
  \/ CleanupDone(t) \/ Rollback(t)
  \/ RollbackUnknownResult(t) \/ ResolveAnswered(t) \/ ResolveUnknown(t)

NodeNext ==
  \/ \E q \in sent : Execute(q)
  \/ \E k \in Key : Expire(k)
  \/ \E k \in Key, t \in Txn : RecoverPrimary(k, t) \/ RecoverSecondary(k, t)
  \/ \E k \in Key, ts \in SafePoints : AdvanceGc(RegionOf[k], ts)

Next == (\E t \in Txn : TxnNext(t)) \/ NodeNext

Spec == Init /\ [][Next]_vars

(***************************************************************************)
(* The nodes' recovery loop scans again and again: a lock eventually       *)
(* passes its expiry, every lock listed as expired is eventually worked    *)
(* on, and one of the resolutions sent for a key is eventually executed.   *)
(* Nothing is assumed of the coordinators, which may crash.                *)
(***************************************************************************)
ResolveKey(k) == \E q \in sent : q.op = "resolve" /\ q.keys = {k} /\ Execute(q)

RecoveryStep ==
  \E k \in Key :
    \/ Expire(k)
    \/ ResolveKey(k)
    \/ \E t \in Txn : RecoverPrimary(k, t) \/ RecoverSecondary(k, t)

FairSpec == Spec /\ WF_vars(RecoveryStep)

-----------------------------------------------------------------------------
(* Properties *)

Timestamp == Nat

LockType == [startTs : Timestamp, primaryKey : Key \cup {0},
             kind : {"none", "put", "delete", "lockOnly", "pessimistic"},
             forUpdateTs : Timestamp, expired : BOOLEAN]

WriteType == [startTs : Timestamp, commitTs : Timestamp,
              type : {"Put", "Delete", "Rollback", "Lock"}]

CellType == [lock : LockType, writes : SUBSET WriteType, data : SUBSET Timestamp]

OpType == {"lock", "prewrite", "commit", "rollback", "resolve"}
DecisionType == {"none", "Committed", "RolledBack"}

RequestType == [op : OpType, txn : Txn, keys : SUBSET Key, ts : Timestamp,
                decision : DecisionType]

StateType == {"Active", "AbortOnly", "CleanupPending", "ResultUnknown", "Finished"}
StepType == {"idle", "app", "lock", "prewrite", "commit", "query", "cleanup", "resolve",
             "crashed"}
AggregateType == {"Ok", "Failed", "AlreadyCommitted", "CleanupPending"}
WhyType == {"none", "abort", "release", "rollback"}
OutcomeType == {"none", "committed", "released", "aborted", "unknown", "pending"}

CoordinatorType ==
  [state : StateType, step : StepType, startTs : Timestamp, commitTs : Timestamp,
   maxForUpdateTs : Timestamp, calls : Nat, held : SUBSET Key, written : BOOLEAN,
   todo : SUBSET Key, aggregate : AggregateType, why : WhyType,
   decision : DecisionType, outcome : OutcomeType]

(* The variables have the types of the structures they stand for. *)
TypeOK ==
  /\ cells \in [Key -> CellType]
  /\ tso \in Timestamp
  /\ co \in [Txn -> CoordinatorType]
  /\ sent \subseteq RequestType
  /\ lapsed \subseteq Key \X Txn
  /\ reads \subseteq [key : Key, readTs : Timestamp, version : Timestamp]
  /\ safePoint \in Timestamp
  /\ locked \subseteq [txn : Txn, key : Key, version : Timestamp]

(***************************************************************************)
(* A key never holds both a commit and a rollback of one transaction, nor  *)
(* two commits of it, whatever late, repeated or racing Commit, Rollback   *)
(* and ResolveLock requests PrepareCommit and PrepareRollback have seen.   *)
(***************************************************************************)
OneOutcomePerKey ==
  \A k \in Key : \A v, w \in cells[k].writes : v.startTs = w.startTs => v = w

(***************************************************************************)
(* Reloading the store from its engine, where a lock whose transaction has *)
(* a write record is dropped, loses no lock: a lock and a record of one    *)
(* transaction are never on a key together.                                *)
(***************************************************************************)
RestartLosesNothing == \A k \in Key : RecoverMetadata(cells[k]) = cells[k]

(***************************************************************************)
(* Once the primary of t is committed at some timestamp, every key of its  *)
(* write set is committed at that timestamp or still holds the prewrite    *)
(* lock of t from which it will be, unless the record is old enough to be  *)
(* collected.                                                              *)
(***************************************************************************)
SecondariesFollowPrimary ==
  \A t \in Txn : \A p \in cells[Primary(t)].writes :
    p.startTs = co[t].startTs /\ p.type # "Rollback" /\ p.commitTs >= safePoint =>
      \A k \in PrewriteKeys(t) :
        \/ LockedBy(cells[k], co[t].startTs) /\ ~IsPessimistic(cells[k])
        \/ \E w \in cells[k].writes : /\ w.startTs = co[t].startTs
                                      /\ w.commitTs = p.commitTs
                                      /\ w.type # "Rollback"

(***************************************************************************)
(* A transaction whose Commit, or a later Rollback that found it           *)
(* committed, told the client so is rolled back on none of its keys.       *)
(***************************************************************************)
CommittedNotRolledBack ==
  \A t \in Txn : co[t].outcome = "committed" =>
    \A k \in PrewriteKeys(t) : ~RollbackOf(cells[k], co[t].startTs)

(***************************************************************************)
(* A transaction whose client was told that it is aborted is committed on  *)
(* no key, now or later: requests of it may still be under way.            *)
(***************************************************************************)
AbortedNotCommitted ==
  \A t \in Txn : co[t].outcome = "aborted" =>
    \A k \in Key : ~CommitOf(cells[k], co[t].startTs)

(***************************************************************************)
(* Of two committed transactions that write the same key, one committed    *)
(* before the other began: no update is lost, optimistic or pessimistic.   *)
(***************************************************************************)
NoLostUpdate ==
  \A t, u \in Txn :
    /\ t # u /\ Mutations(t) \cap Mutations(u) # {}
    /\ co[t].outcome = "committed" /\ co[u].outcome = "committed"
    => co[t].commitTs < co[u].startTs \/ co[u].commitTs < co[t].startTs

(***************************************************************************)
(* A snapshot read that was answered would be answered the same at any     *)
(* later time, until its snapshot is older than the safe point.            *)
(***************************************************************************)
ReadsRepeatable ==
  \A r \in reads : r.readTs >= safePoint =>
    ReadCommitted(cells[r.key], r.readTs) = r.version

(***************************************************************************)
(* What a locking read returned is the newest version of the key for as    *)
(* long as the transaction holds the lock, upgrades to a prewrite lock     *)
(* included.                                                               *)
(***************************************************************************)
LockingReadsProtected ==
  \A r \in locked : LockedBy(cells[r.key], co[r.txn].startTs) =>
    ReadCommitted(cells[r.key], tso) = r.version

(* Every Put record has its value, so that reads of it succeed. *)
PutRecordHasData ==
  \A k \in Key : \A w \in cells[k].writes : w.type = "Put" => w.startTs \in cells[k].data

(***************************************************************************)
(* A transaction commits after every snapshot it has read from: at a       *)
(* timestamp above its start and above every forUpdateTs of its locking    *)
(* reads, on every key and whoever commits the key, so that a late lock    *)
(* request finds the commit and is refused.                                *)
(***************************************************************************)
CommitsAfterLocks ==
  \A t \in Txn, k \in Key : \A w \in cells[k].writes :
    w.startTs = co[t].startTs /\ w.type # "Rollback" =>
      w.commitTs > co[t].startTs /\ w.commitTs > co[t].maxForUpdateTs

(***************************************************************************)
(* A key locked by GetForUpdate can be prewritten by the same transaction  *)
(* while it holds the lock.                                                *)
(***************************************************************************)
LockedKeyCanBePrewritten ==
  \A t \in Txn : \A k \in Mutations(t) \cap co[t].held :
    /\ CallingActive(t)
    /\ LockedBy(cells[k], co[t].startTs)
    => PrewriteStatus(cells[k], Primary(t), co[t].startTs, co[t].maxForUpdateTs) = "Ok"

(***************************************************************************)
(* While a transaction holds the lock on a key, its forUpdateTs never goes *)
(* back, and a prewrite lock never turns into a pessimistic one again,     *)
(* whatever old lock requests are executed late.                           *)
(***************************************************************************)
LocksOnlyAdvance ==
  [][\A k \in Key :
       /\ HasLock(cells[k])
       /\ cells'[k].lock.startTs = cells[k].lock.startTs
       => /\ cells'[k].lock.forUpdateTs >= cells[k].lock.forUpdateTs
          /\ IsPessimistic(cells'[k]) => IsPessimistic(cells[k])]_vars

(***************************************************************************)
(* Whatever happens to the coordinators, recovery eventually leaves no key *)
(* locked.                                                                 *)
(***************************************************************************)
LocksDrain == <>[](\A k \in Key : ~HasLock(cells[k]))
=============================================================================
