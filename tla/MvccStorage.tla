----------------------------- MODULE MvccStorage -----------------------------
(***************************************************************************)
(* The multi-version store of one Region (transaction/mvcc_storage.cpp),   *)
(* as operators on the state of one key, its cell.                         *)
(*                                                                         *)
(* Each Prepare* method of the code reads a cell under the Region's lock   *)
(* and returns a status and a batch of modifications; the batch is then    *)
(* applied through Raft.  Here XStatus(c, ...) is the status Prepare*      *)
(* computes and XApply(c, ...) the cell its modifications leave, to be     *)
(* used when the status is "Ok".                                           *)
(*                                                                         *)
(* A cell is [lock, writes, data]: the key's entry of locks_ (NoLock when  *)
(* there is none), the write records of writes_ and the start timestamps   *)
(* that have a value under data/<key>/<startTs>.  Values themselves are    *)
(* left out: a version is identified by its start timestamp.               *)
(***************************************************************************)
EXTENDS Integers

(***************************************************************************)
(* MvccLock.  kind folds the flags isDelete, isPessimistic and isLockOnly, *)
(* of which at most one is set.  expired stands for expireAtPhysicalMs <=  *)
(* the clock a reader of the lock compares it with.  Timestamp 0 is never  *)
(* issued, so it marks the absent lock.                                    *)
(***************************************************************************)
NoLock == [startTs |-> 0, primaryKey |-> 0, kind |-> "none",
           forUpdateTs |-> 0, expired |-> FALSE]

MvccWrite(startTs, commitTs, type) ==
  [startTs |-> startTs, commitTs |-> commitTs, type |-> type]

EmptyCell == [lock |-> NoLock, writes |-> {}, data |-> {}]

HasLock(c) == c.lock.startTs # 0
LockedBy(c, startTs) == HasLock(c) /\ c.lock.startTs = startTs
IsPessimistic(c) == c.lock.kind = "pessimistic"

RollbackOf(c, startTs) ==
  \E w \in c.writes : w.startTs = startTs /\ w.type = "Rollback"

CommitOf(c, startTs) ==
  \E w \in c.writes : w.startTs = startTs /\ w.type # "Rollback"

MaxTs(a, b) == IF a >= b THEN a ELSE b

-----------------------------------------------------------------------------
(* Reads *)

(***************************************************************************)
(* The versions a read may return: Rollback and Lock records are skipped.  *)
(***************************************************************************)
VisibleAt(c, readTs) ==
  {w \in c.writes : w.commitTs <= readTs /\ w.type \in {"Put", "Delete"}}

NewestVisible(c, readTs) ==
  {w \in VisibleAt(c, readTs) :
     \A v \in VisibleAt(c, readTs) : v.commitTs <= w.commitTs}

(***************************************************************************)
(* The start timestamp of the value a read returns, 0 when it returns      *)
(* NotFound.                                                               *)
(***************************************************************************)
ReadCommitted(c, readTs) ==
  IF \E w \in NewestVisible(c, readTs) : w.type = "Put"
    THEN (CHOOSE w \in NewestVisible(c, readTs) : w.type = "Put").startTs
    ELSE 0

(***************************************************************************)
(* A Put record whose value is missing makes the read a StorageError.      *)
(***************************************************************************)
ReadFails(c, readTs) ==
  \E w \in NewestVisible(c, readTs) : w.type = "Put" /\ w.startTs \notin c.data

(* Mutant of GetStatus: the read does not look at locks. *)
GetStatusPastLocks(c, readTs) ==
  IF ReadFails(c, readTs) THEN "StorageError"
  ELSE IF ReadCommitted(c, readTs) # 0 THEN "Ok" ELSE "NotFound"

GetStatus(c, readTs) ==
  IF /\ HasLock(c)
     /\ c.lock.startTs <= readTs
     /\ \A w \in c.writes : w.startTs # c.lock.startTs
    THEN "LockConflict"
  ELSE IF ReadFails(c, readTs) THEN "StorageError"
  ELSE IF ReadCommitted(c, readTs) # 0 THEN "Ok" ELSE "NotFound"

-----------------------------------------------------------------------------
(* Prewrite *)

PrewriteStatus(c, primaryKey, startTs, forUpdateTs) ==
  IF HasLock(c) /\ (c.lock.startTs # startTs \/ c.lock.primaryKey # primaryKey)
    THEN "LockConflict"
  ELSE IF HasLock(c) /\ ~IsPessimistic(c) THEN "Ok"
  ELSE IF HasLock(c) /\ forUpdateTs < c.lock.forUpdateTs THEN "WriteConflict"
  ELSE IF RollbackOf(c, startTs) THEN "WriteConflict"
  ELSE IF \E w \in c.writes : w.commitTs >= startTs THEN "WriteConflict"
  ELSE "Ok"

(***************************************************************************)
(* A lock that is already a prewrite lock is left as it is; a pessimistic  *)
(* lock keeps its forUpdateTs and its expiry.                              *)
(***************************************************************************)
PrewriteApply(c, primaryKey, startTs, forUpdateTs, isDelete) ==
  LET upgraded == [c.lock EXCEPT !.kind = IF isDelete THEN "delete" ELSE "put"]
      fresh == [startTs |-> startTs, primaryKey |-> primaryKey,
                kind |-> IF isDelete THEN "delete" ELSE "put",
                forUpdateTs |-> IF forUpdateTs = 0 THEN startTs ELSE forUpdateTs,
                expired |-> FALSE]
  IN IF HasLock(c) /\ ~IsPessimistic(c) THEN c
     ELSE [c EXCEPT !.lock = IF HasLock(c) THEN upgraded ELSE fresh,
                    !.data = IF isDelete THEN @ \ {startTs} ELSE @ \cup {startTs}]

PrewriteLockStatus(c, primaryKey, startTs, forUpdateTs) ==
  IF ~HasLock(c) THEN "NotFound"
  ELSE IF c.lock.startTs # startTs \/ c.lock.primaryKey # primaryKey
    THEN "LockConflict"
  ELSE IF ~IsPessimistic(c)
    THEN IF c.lock.kind = "lockOnly" THEN "Ok" ELSE "LockConflict"
  ELSE IF forUpdateTs # 0 /\ forUpdateTs < c.lock.forUpdateTs
    THEN "WriteConflict"
  ELSE "Ok"

PrewriteLockApply(c) == [c EXCEPT !.lock.kind = "lockOnly"]

-----------------------------------------------------------------------------
(* Pessimistic locks *)

(* Mutant of PessimisticLockStatus: newer versions are no conflict. *)
PessimisticLockStatusStale(c, primaryKey, startTs, forUpdateTs) ==
  IF HasLock(c) /\ (\/ c.lock.startTs # startTs
                    \/ ~IsPessimistic(c)
                    \/ c.lock.primaryKey # primaryKey)
    THEN "LockConflict"
  ELSE IF RollbackOf(c, startTs) THEN "WriteConflict"
  ELSE "Ok"

PessimisticLockStatus(c, primaryKey, startTs, forUpdateTs) ==
  IF HasLock(c) /\ (\/ c.lock.startTs # startTs
                    \/ ~IsPessimistic(c)
                    \/ c.lock.primaryKey # primaryKey)
    THEN "LockConflict"
  ELSE IF HasLock(c)
    THEN IF ReadFails(c, MaxTs(c.lock.forUpdateTs, forUpdateTs))
           THEN "StorageError" ELSE "Ok"
  ELSE IF RollbackOf(c, startTs) THEN "WriteConflict"
  ELSE IF \E w \in c.writes : w.type # "Rollback" /\ w.commitTs > forUpdateTs
    THEN "WriteConflict"
  ELSE IF ReadFails(c, forUpdateTs) THEN "StorageError"
  ELSE "Ok"

(* Mutant of PessimisticLockApply: the last request sets forUpdateTs. *)
PessimisticLockApplyLast(c, primaryKey, startTs, forUpdateTs) ==
  [c EXCEPT !.lock = [startTs |-> startTs, primaryKey |-> primaryKey,
                      kind |-> "pessimistic",
                      forUpdateTs |-> forUpdateTs, expired |-> FALSE]]

(***************************************************************************)
(* Locking a held key again moves forUpdateTs and the expiry forward only. *)
(***************************************************************************)
PessimisticLockApply(c, primaryKey, startTs, forUpdateTs) ==
  IF HasLock(c)
    THEN [c EXCEPT !.lock.forUpdateTs = MaxTs(@, forUpdateTs),
                   !.lock.expired = @ /\ forUpdateTs <= c.lock.forUpdateTs]
    ELSE [c EXCEPT !.lock = [startTs |-> startTs, primaryKey |-> primaryKey,
                             kind |-> "pessimistic",
                             forUpdateTs |-> forUpdateTs, expired |-> FALSE]]

-----------------------------------------------------------------------------
(* Commit *)

CommitStatus(c, startTs, commitTs) ==
  IF ~HasLock(c)
    THEN IF RollbackOf(c, startTs) THEN "WriteConflict"
         ELSE IF CommitOf(c, startTs) THEN "AlreadyCommitted" ELSE "NotFound"
  ELSE IF c.lock.startTs # startTs THEN "LockConflict"
  ELSE IF commitTs <= MaxTs(startTs, c.lock.forUpdateTs) THEN "WriteConflict"
  ELSE IF \E w \in c.writes : w.commitTs = commitTs
    THEN IF \E w \in c.writes : w.commitTs = commitTs /\ w.startTs = startTs
           THEN "AlreadyCommitted" ELSE "WriteConflict"
  ELSE IF \E w \in c.writes : /\ w.startTs # startTs
                              /\ w.type # "Rollback"
                              /\ w.commitTs \in startTs .. commitTs
    THEN "WriteConflict"
  ELSE "Ok"

(***************************************************************************)
(* The record's type comes from the flags isLockOnly and isDelete alone,   *)
(* so that a lock still pessimistic commits as a Put.                      *)
(***************************************************************************)
CommitType(lock) ==
  CASE lock.kind = "lockOnly" -> "Lock"
    [] lock.kind = "delete" -> "Delete"
    [] OTHER -> "Put"

(* Mutant of CommitApply: the record carries startTs for commitTs. *)
CommitApplyAtStart(c, startTs, commitTs) ==
  [c EXCEPT !.lock = NoLock,
            !.writes = @ \cup {MvccWrite(startTs, startTs, CommitType(c.lock))}]

CommitApply(c, startTs, commitTs) ==
  [c EXCEPT !.lock = NoLock,
            !.writes = @ \cup {MvccWrite(startTs, commitTs, CommitType(c.lock))}]

-----------------------------------------------------------------------------
(* Rollback and lock resolution *)

(* Mutant of RollbackStatus: a commit of the transaction is not looked for. *)
RollbackStatusUnchecked(c, startTs) == "Ok"

RollbackStatus(c, startTs) ==
  IF ~RollbackOf(c, startTs) /\ CommitOf(c, startTs) THEN "AlreadyCommitted"
  ELSE "Ok"

(* Mutant of RollbackApply: the lock stays. *)
RollbackApplyKeepsLock(c, startTs) ==
  IF RollbackOf(c, startTs) THEN c
  ELSE [c EXCEPT !.writes = @ \cup {MvccWrite(startTs, startTs, "Rollback")},
                 !.data = @ \ {startTs}]

(***************************************************************************)
(* The Rollback record is written whether or not the key was locked, at    *)
(* the transaction's start timestamp.                                      *)
(***************************************************************************)
RollbackApply(c, startTs) ==
  IF RollbackOf(c, startTs) THEN c
  ELSE [lock |-> IF LockedBy(c, startTs) THEN NoLock ELSE c.lock,
        writes |-> c.writes \cup {MvccWrite(startTs, startTs, "Rollback")},
        data |-> c.data \ {startTs}]

InspectTxnStatus(c, startTs) ==
  IF RollbackOf(c, startTs) THEN "RolledBack"
  ELSE IF CommitOf(c, startTs) THEN "Committed"
  ELSE IF LockedBy(c, startTs) THEN "Locked"
  ELSE "NotFound"

CommitTsOf(c, startTs) ==
  IF CommitOf(c, startTs)
    THEN (CHOOSE w \in c.writes : w.startTs = startTs /\ w.type # "Rollback").commitTs
    ELSE 0

(***************************************************************************)
(* CheckTxnStatus with rollbackIfExpired: an expired lock of the           *)
(* transaction is rolled back in the same command that reports it.         *)
(***************************************************************************)
MustExpire(c, startTs) ==
  InspectTxnStatus(c, startTs) = "Locked" /\ c.lock.expired

CheckTxnStatus(c, startTs) ==
  IF MustExpire(c, startTs) THEN "RolledBack" ELSE InspectTxnStatus(c, startTs)

(* Mutant of CheckTxnStatusApply: the rollback is reported, not made. *)
CheckTxnStatusApplyNothing(c, startTs) == c

CheckTxnStatusApply(c, startTs) ==
  IF MustExpire(c, startTs) THEN RollbackApply(c, startTs) ELSE c

(***************************************************************************)
(* ResolveLock reports an already committed key as Ok whatever the         *)
(* decision was.                                                           *)
(***************************************************************************)
ResolveLockStatus(c, startTs, decision, commitTs) ==
  LET status == IF decision = "Committed" THEN CommitStatus(c, startTs, commitTs)
                ELSE RollbackStatus(c, startTs)
  IN IF status = "AlreadyCommitted" THEN "Ok" ELSE status

ResolveLockApply(c, startTs, decision, commitTs) ==
  IF decision = "Committed"
    THEN IF CommitStatus(c, startTs, commitTs) = "Ok"
           THEN CommitApply(c, startTs, commitTs) ELSE c
    ELSE IF RollbackStatus(c, startTs) = "Ok" THEN RollbackApply(c, startTs) ELSE c

-----------------------------------------------------------------------------
(* Garbage collection and restart *)

(* Mutant of KeptByGc: nothing below the safe point is kept. *)
KeptByGcNoNewest(c, safePoint) == {w \in c.writes : w.commitTs >= safePoint}

(***************************************************************************)
(* Of the records below the safe point only the newest Put or Delete is    *)
(* kept; a key with a single record is left alone.                         *)
(***************************************************************************)
KeptByGc(c, safePoint) ==
  NewestVisible(c, safePoint - 1) \cup {w \in c.writes : w.commitTs >= safePoint}

GarbageCollect(c, safePoint) ==
  LET kept == IF \A v, w \in c.writes : v = w THEN c.writes
              ELSE KeptByGc(c, safePoint)
      dropped == {w.startTs : w \in {v \in c.writes \ kept : v.type = "Put"}}
  IN [c EXCEPT !.writes = kept, !.data = @ \ dropped]

(***************************************************************************)
(* Reloading a key from the engine drops a lock whose transaction already  *)
(* has a record on the key.                                                *)
(***************************************************************************)
RecoverMetadata(c) ==
  IF \E w \in c.writes : HasLock(c) /\ w.startTs = c.lock.startTs
    THEN [c EXCEPT !.lock = NoLock] ELSE c
=============================================================================
