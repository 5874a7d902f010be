---------------------------- MODULE TxnScheduler ----------------------------
(***************************************************************************)
(* The transaction command scheduler of one storage node (NodeTxnScheduler)*)
(* between the threads that call it and the Raft groups of the node:       *)
(*                                                                         *)
(*   - a call runs Schedule on an RPC thread or on the thread of the       *)
(*     recovery manager: it enters the table of pending tasks, asks for    *)
(*     latches and, once it has them, goes to the queue of the worker pool;*)
(*   - a worker runs Execute: it prepares the physical write, which names  *)
(*     the revision every key must still have when it is applied, and      *)
(*     proposes it to Raft;                                                *)
(*   - the apply thread of a Region applies the committed entries, and     *)
(*     reports applied and rejected proposals to the scheduler;            *)
(*   - the deadline thread answers calls whose time is up, and leaves      *)
(*     their tasks alone;                                                  *)
(*   - a Region can be retired from the node while tasks for it are        *)
(*     pending, and be mounted again.                                      *)
(*                                                                         *)
(* The table, the latches and the pool queue have a mutex each: a step is  *)
(* one critical section.  Of Raft only what the scheduler meets is kept: a *)
(* queue of accepted proposals, the entries of the local log that are not  *)
(* yet applied, and the loss of leadership, after which a suffix of those  *)
(* entries may be overwritten.  Two maps, from a request to its task and   *)
(* from a command id to its task, are always changed together, so the      *)
(* first is derived from the second.  The state names of a task are only   *)
(* reported, never read, and are left out.                                 *)
(***************************************************************************)
EXTENDS NodeLatches

CONSTANTS
    Calls,            \* the calls of Schedule
    Workers,          \* the worker threads
    QueueCapacity,    \* bound of the worker pool's queue
    MaxPendingTasks,  \* bound of the task table
    Workloads         \* the workloads, see below

(***************************************************************************)
(* A workload gives the calls that are made and what each asks for, the    *)
(* workers that run, the keys other leaders may write, and bounds: the     *)
(* Raft terms in which the node may lead (terms), the log suffixes         *)
(* overwritten or replaced by a snapshot (lost), the writes replicated     *)
(* from other leaders (foreign) and the times a Region is retired.         *)
(***************************************************************************)

\* A request is identified by its client and its number; a call made by an
\* RPC thread (rpc) is counted by the Region registry, one of the recovery
\* manager is not.
RecoveryClient == "TxnRecoveryManager"
OtherClient == "client of another leader"

ASSUME CallsAssumption ==
    \A plan \in Workloads :
        /\ DOMAIN plan.calls \subseteq Calls
        /\ plan.workers \subseteq Workers
        /\ \A x \in DOMAIN plan.calls :
             /\ plan.calls[x].number \in Nat \ {0}
             /\ plan.calls[x].want \in Want
             /\ WellFormed(plan.calls[x].want)
             /\ plan.calls[x].rpc <=> plan.calls[x].client # RecoveryClient
ASSUME BoundsAssumption ==
    /\ QueueCapacity \in Nat \ {0}
    /\ MaxPendingTasks \in Nat \ {0}
    /\ IsFiniteSet(Calls) /\ Cardinality(Calls) <= MaxCommand

VARIABLES
    plan,          \* the workload
    pc,            \* where each thread is
    cur,           \* the command a thread works on
    todo,          \* the granted commands a thread has still to dispatch
    nextCommandId, \* the last command id given out
    tasks,         \* the ids of the pending tasks
    source,        \* the call that created a task
    found,         \* which of the Region's successive peers a call found
    responses,     \* the calls a task has still to answer
    answer,        \* what each call was answered
    pool,          \* the queue of the worker pool
    prepared,      \* the write a worker has prepared, and the term it began in
    regions,       \* the Regions registered with the scheduler
    toFinish,      \* the tasks of a removed Region still to be finished
    peer,          \* the local peer of a Region: its role and its bounds
    proposeQueue,  \* proposals Raft accepted and has not looked at yet
    log,           \* entries of the local log that are not yet applied
    rejected,      \* proposals Raft reports as rejected
    notify,        \* applied entries the apply thread has still to report
    store,         \* the state machine of a Region
    effects        \* history: the requests whose write was carried out

threadVars == <<pc, cur, todo>>
taskVars == <<nextCommandId, tasks, source, found, responses, answer>>
raftVars == <<peer, proposeQueue, log, rejected, notify, store, effects>>
vars == <<plan, latchVars, threadVars, taskVars, pool, prepared, regions, toFinish, raftVars>>

CallOf == plan.calls
Made == DOMAIN plan.calls
ClientIds == {CallOf[x].client : x \in Made} \cup {RecoveryClient, OtherClient}

Applier(r) == <<"applier", r>>
Remover(r) == <<"remover", r>>
Thread == Calls \cup Workers \cup {Applier(r) : r \in Regions} \cup {Remover(r) : r \in Regions}

RegionOf(c) == CallOf[source[c]].want.region
KeysOf(c) == CallOf[source[c]].want.keys
IsGarbageCollect(c) == CallOf[source[c]].want.mode = "RegionExclusive"
RequestKey(x) == <<CallOf[x].want.region, CallOf[x].client, CallOf[x].number>>
TaskFor(key) == {c \in tasks : RequestKey(source[c]) = key}

NoWrite == [expected |-> <<>>, term |-> 0]

Init ==
    /\ plan \in Workloads
    /\ LatchInit
    /\ pc = [t \in Thread |->
               CASE t \in Made -> "new"
                 [] t \in (Calls \ Made) \cup (Workers \ plan.workers) -> "done"
                 [] OTHER -> "idle"]
    /\ cur = [t \in Thread |-> 0]
    /\ todo = [t \in Thread |-> <<>>]
    /\ nextCommandId = 0
    /\ tasks = {}
    /\ source = [c \in Command |-> CHOOSE x \in Made : TRUE]
    /\ found = [x \in Calls |-> 0]
    /\ responses = [c \in Command |-> {}]
    /\ answer = [x \in Calls |-> "none"]
    /\ pool = <<>>
    /\ prepared = [w \in Workers |-> NoWrite]
    /\ regions = Regions
    /\ toFinish = [r \in Regions |-> {}]
    /\ peer = [r \in Regions |->
                  [alive |-> TRUE, leader |-> TRUE, term |-> 1, readyTerm |-> 1,
                   lost |-> 0, foreign |-> 0, retired |-> 0]]
    /\ proposeQueue = [r \in Regions |-> <<>>]
    /\ log = [r \in Regions |-> <<>>]
    /\ rejected = [r \in Regions |-> <<>>]
    /\ notify = [r \in Regions |-> <<>>]
    /\ store = [r \in Regions |->
                   [revision |-> [k \in Keys |-> 0],
                    last |-> [client \in ClientIds |-> 0],
                    healthy |-> TRUE]]
    /\ effects = {}

(***************************************************************************)
(* Steps shared by the threads.                                            *)
(***************************************************************************)
\* Where a thread goes on when it has nothing left to dispatch.
Home(t) == IF t \in Calls THEN "done" ELSE "idle"

GoOn(t, commands) ==
    /\ todo' = [todo EXCEPT ![t] = commands]
    /\ pc' = [pc EXCEPT ![t] = IF commands = <<>> THEN Home(t) ELSE "dispatch"]

Answer(calls, result) ==
    answer' = [x \in Calls |-> IF x \in calls THEN result ELSE answer[x]]

\* Mutant: the latches of a finished task are not released.
EndTaskKeepsLatches(t, c, result) ==
    /\ tasks' = tasks \ {c}
    /\ responses' = [responses EXCEPT ![c] = {}]
    /\ Answer(responses[c], result)
    /\ cur' = [cur EXCEPT ![t] = c]
    /\ pc' = [pc EXCEPT ![t] = Home(t)]
    /\ UNCHANGED <<nextCommandId, source, found>>

\* Mutant: the open calls of a finished task get no answer.
EndTaskSilently(t, c, result) ==
    /\ tasks' = tasks \ {c}
    /\ responses' = [responses EXCEPT ![c] = {}]
    /\ Answer({}, result)
    /\ cur' = [cur EXCEPT ![t] = c]
    /\ pc' = [pc EXCEPT ![t] = "release"]
    /\ UNCHANGED <<nextCommandId, source, found>>

\* The task leaves the table with its open calls answered; its latches are
\* released in the next steps.
EndTask(t, c, result) ==
    /\ tasks' = tasks \ {c}
    /\ responses' = [responses EXCEPT ![c] = {}]
    /\ Answer(responses[c], result)
    /\ cur' = [cur EXCEPT ![t] = c]
    /\ pc' = [pc EXCEPT ![t] = "release"]
    /\ UNCHANGED <<nextCommandId, source, found>>

\* FinishBeforeProposal, with the thread going on to `commands' afterwards.
FinishBeforeProposal(t, c, result, commands) ==
    \/ /\ c \in tasks
       /\ EndTask(t, c, result)
       /\ todo' = [todo EXCEPT ![t] = commands]
    \/ /\ c \notin tasks
       /\ GoOn(t, commands)
       /\ UNCHANGED <<cur, taskVars>>

\* Dispatch, the caller having checked that the task exists when it must.
Submit(t, c, commands) ==
    \/ /\ Len(pool) < QueueCapacity
       /\ pool' = Append(pool, c)
       /\ GoOn(t, commands)
       /\ UNCHANGED <<cur, taskVars>>
    \/ /\ Len(pool) >= QueueCapacity
       /\ FinishBeforeProposal(t, c, "WrongLeader", commands)
       /\ UNCHANGED pool

\* One iteration of DispatchAll.
DispatchNext(t) ==
    /\ pc[t] = "dispatch"
    /\ \/ /\ Head(todo[t]) \in tasks
          /\ Submit(t, Head(todo[t]), Tail(todo[t]))
       \/ /\ Head(todo[t]) \notin tasks
          /\ GoOn(t, Tail(todo[t]))
          /\ UNCHANGED <<cur, taskVars, pool>>
    /\ UNCHANGED <<latchVars, prepared, regions, toFinish, raftVars>>

\* latches_.Release for the command the thread has taken out of the table; a
\* command that never reached the latch table releases nothing.
ReleaseLatches(t) ==
    /\ pc[t] = "release"
    /\ \/ /\ Release(cur[t])
          /\ pc' = [pc EXCEPT ![t] = "granting"]
          /\ UNCHANGED <<todo>>
       \/ /\ releasing = 0
          /\ ~Registered(cur[t])
          /\ GoOn(t, todo[t])
          /\ UNCHANGED latchVars
    /\ UNCHANGED <<cur, taskVars, pool, prepared, regions, toFinish, raftVars>>

GrantWaiter(t) ==
    /\ pc[t] = "granting"
    /\ GrantNext
    /\ UNCHANGED <<threadVars, taskVars, pool, prepared, regions, toFinish, raftVars>>

\* Release has returned: what it granted is dispatched before anything that
\* an outer DispatchAll has still to do.
Released(t) ==
    /\ pc[t] = "granting"
    /\ GoOn(t, ready \o todo[t])
    /\ Return
    /\ UNCHANGED <<cur, taskVars, pool, prepared, regions, toFinish, raftVars>>

(***************************************************************************)
(* Schedule.                                                               *)
(***************************************************************************)
\* Mutant: a leader need not have applied an entry of its term.
LeadsUnready(r) == peer[r].alive /\ peer[r].leader

\* RegionPeer::IsTxnLeader: the peer leads and its own entry of this term has
\* been applied, hence every entry before it.
IsTxnLeader(r) == peer[r].alive /\ peer[r].leader /\ peer[r].readyTerm = peer[r].term

\* A task keeps to the peer its call found: one that was retired leads no more,
\* whatever becomes of the next peer of the Region on this node.
SamePeer(c) == found[source[c]] = peer[RegionOf(c)].retired
TaskLeads(c) == SamePeer(c) /\ IsTxnLeader(RegionOf(c))

\* A call finds the Region and asks whether it leads; an RPC reaches the
\* scheduler only through a Region that is being served.
Admit(x) ==
    LET r == CallOf[x].want.region IN
    /\ pc[x] = "new"
    /\ \/ /\ r \in regions /\ IsTxnLeader(r)
          /\ found' = [found EXCEPT ![x] = peer[r].retired]
          /\ pc' = [pc EXCEPT ![x] = "insert"]
          /\ UNCHANGED answer
       \/ /\ ~(r \in regions /\ IsTxnLeader(r))
          /\ Answer({x}, "WrongLeader")
          /\ pc' = [pc EXCEPT ![x] = "done"]
          /\ UNCHANGED found
    /\ UNCHANGED <<latchVars, cur, todo, nextCommandId, tasks, source, responses,
                   pool, prepared, regions, toFinish, raftVars>>

TableFull == Cardinality(tasks) >= MaxPendingTasks

\* The call joins the task of the same request, is turned away when the table
\* is full, or creates a task.
Insert(x) ==
    /\ pc[x] = "insert"
    /\ \/ \E c \in TaskFor(RequestKey(x)) :
            /\ responses' = [responses EXCEPT ![c] = @ \cup {x}]
            /\ pc' = [pc EXCEPT ![x] = "done"]
            /\ UNCHANGED <<cur, nextCommandId, tasks, source, answer>>
       \/ /\ TaskFor(RequestKey(x)) = {}
          /\ TableFull
          /\ Answer({x}, "WrongLeader")
          /\ pc' = [pc EXCEPT ![x] = "done"]
          /\ UNCHANGED <<cur, nextCommandId, tasks, source, responses>>
       \/ /\ TaskFor(RequestKey(x)) = {}
          /\ ~TableFull
          /\ nextCommandId' = nextCommandId + 1
          /\ tasks' = tasks \cup {nextCommandId'}
          /\ source' = [source EXCEPT ![nextCommandId'] = x]
          /\ responses' = [responses EXCEPT ![nextCommandId'] = {x}]
          /\ cur' = [cur EXCEPT ![x] = nextCommandId']
          /\ pc' = [pc EXCEPT ![x] = "find"]
          /\ UNCHANGED answer
    /\ UNCHANGED <<latchVars, todo, found, pool, prepared, regions, toFinish, raftVars>>

\* The task may have gone with its Region since it was inserted.
FindTask(x) ==
    /\ pc[x] = "find"
    /\ pc' = [pc EXCEPT ![x] = IF cur[x] \in tasks THEN "acquire" ELSE "done"]
    /\ UNCHANGED <<latchVars, cur, todo, taskVars, pool, prepared, regions, toFinish, raftVars>>

AcquireLatches(x) ==
    /\ pc[x] = "acquire"
    /\ Acquire(cur[x], CallOf[x].want)
    /\ pc' = [pc EXCEPT ![x] = IF cur[x] \in held' THEN "submit" ELSE "done"]
    /\ UNCHANGED <<cur, todo, taskVars, pool, prepared, regions, toFinish, raftVars>>

SubmitOwn(x) ==
    /\ pc[x] = "submit"
    /\ Submit(x, cur[x], <<>>)
    /\ UNCHANGED <<latchVars, prepared, regions, toFinish, raftVars>>

\* Mutant: the call stays among those to be answered.
DeadlineKeepsCall(x) ==
    /\ \E c \in tasks :
         /\ x \in responses[c]
    /\ Answer({x}, "Timeout")
    /\ UNCHANGED <<latchVars, threadVars, nextCommandId, tasks, source, found, pool,
                   responses, prepared, regions, toFinish, raftVars>>

\* Mutant: the deadline drops a task that has its latches, and releases them.
DeadlineDropsTask(x) ==
    /\ \E c \in tasks :
         /\ x \in responses[c]
         /\ responses' = [responses EXCEPT ![c] = @ \ {x}]
         /\ \/ /\ c \in held
               /\ tasks' = tasks \ {c}
               /\ held' = held \ {c}
               /\ ReleaseHeld(c)
               /\ UNCHANGED <<want, waiting, passVars>>
            \/ /\ c \notin held
               /\ UNCHANGED <<latchVars, tasks>>
    /\ Answer({x}, "Timeout")
    /\ UNCHANGED <<threadVars, nextCommandId, source, found, pool,
                   prepared, regions, toFinish, raftVars>>

\* DeadlineLoop answers a call whose deadline has passed.  Its task stays.
DeadlinePasses(x) ==
    /\ \E c \in tasks :
         /\ x \in responses[c]
         /\ responses' = [responses EXCEPT ![c] = @ \ {x}]
    /\ Answer({x}, "Timeout")
    /\ UNCHANGED <<latchVars, threadVars, nextCommandId, tasks, source, found, pool,
                   prepared, regions, toFinish, raftVars>>

(***************************************************************************)
(* Execute.  A task's deadline is that of the call that created it: it has *)
(* passed once that call was answered with a timeout, and may have passed  *)
(* before.                                                                 *)
(***************************************************************************)
MustBeLate(c) == answer[source[c]] = "Timeout"

Execute(w) ==
    /\ pc[w] = "idle"
    /\ pool # <<>>
    /\ pool' = Tail(pool)
    /\ LET c == Head(pool) IN
         \/ /\ c \notin tasks
            /\ UNCHANGED <<threadVars, taskVars, prepared>>
         \/ /\ c \in tasks
            /\ ~MustBeLate(c)
            /\ TaskLeads(c)
            /\ cur' = [cur EXCEPT ![w] = c]
            /\ pc' = [pc EXCEPT ![w] = IF IsGarbageCollect(c) THEN "recheck" ELSE "prepare"]
            /\ prepared' = [prepared EXCEPT ![w].term = peer[RegionOf(c)].term]
            /\ UNCHANGED <<todo, taskVars>>
         \/ /\ c \in tasks
            /\ FinishBeforeProposal(w, c, "Timeout", <<>>)
            /\ UNCHANGED prepared
         \/ /\ c \in tasks
            /\ ~MustBeLate(c)
            /\ ~TaskLeads(c)
            /\ FinishBeforeProposal(w, c, "WrongLeader", <<>>)
            /\ UNCHANGED prepared
    /\ UNCHANGED <<latchVars, regions, toFinish, raftVars>>

\* The Region prepares the write of some of the keys against their revisions,
\* or finds a conflict or nothing to change.
Prepare(w) ==
    LET c == cur[w] r == RegionOf(c) IN
    /\ pc[w] = "prepare"
    /\ \/ \E changed \in SUBSET KeysOf(c) \ {{}} :
            /\ prepared' = [prepared EXCEPT ![w].expected =
                               [k \in changed |-> store[r].revision[k]]]
            /\ pc' = [pc EXCEPT ![w] = "recheck"]
            /\ UNCHANGED <<cur, todo, taskVars>>
       \/ /\ FinishBeforeProposal(w, c, "Status", <<>>)
          /\ prepared' = [prepared EXCEPT ![w] = NoWrite]
    /\ UNCHANGED <<latchVars, pool, regions, toFinish, raftVars>>

Recheck(w) ==
    LET c == cur[w] IN
    /\ pc[w] = "recheck"
    /\ \/ /\ TaskLeads(c)
          /\ ~MustBeLate(c)
          /\ pc' = [pc EXCEPT ![w] = "propose"]
          /\ UNCHANGED <<cur, todo, taskVars, prepared>>
       \/ /\ FinishBeforeProposal(w, c, "Timeout", <<>>)
          /\ prepared' = [prepared EXCEPT ![w] = NoWrite]
    /\ UNCHANGED <<latchVars, pool, regions, toFinish, raftVars>>

Entry(c, write) ==
    [kind |-> IF IsGarbageCollect(c) THEN "gc" ELSE "prepared",
     key |-> RequestKey(source[c]), expected |-> write.expected,
     checkedIn |-> write.term, term |-> 0]

\* Raft::Start only asks whether the peer leads, in whatever term.
Propose(w) ==
    LET c == cur[w] r == RegionOf(c) IN
    /\ pc[w] = "propose"
    /\ prepared' = [prepared EXCEPT ![w] = NoWrite]
    /\ \/ /\ SamePeer(c) /\ peer[r].alive /\ peer[r].leader
          /\ proposeQueue' = [proposeQueue EXCEPT ![r] = Append(@, Entry(c, prepared[w]))]
          /\ GoOn(w, <<>>)
          /\ UNCHANGED <<cur, taskVars>>
       \/ /\ ~(SamePeer(c) /\ peer[r].alive /\ peer[r].leader)
          /\ FinishBeforeProposal(w, c, "WrongLeader", <<>>)
          /\ UNCHANGED proposeQueue
    /\ UNCHANGED <<latchVars, pool, regions, toFinish, peer, log, rejected, notify, store,
                   effects>>

(***************************************************************************)
(* The Region peer and the part of Raft below it.                          *)
(***************************************************************************)
Noop(term) ==
    [kind |-> "noop", key |-> <<>>, expected |-> <<>>, checkedIn |-> 0, term |-> term]

\* Mutant: proposals are dropped without a word after a step-down.
PollSilently(r, n) ==
    /\ peer[r].alive
    /\ proposeQueue' = [proposeQueue EXCEPT ![r] = SubSeq(@, n + 1, Len(@))]
    /\ \/ /\ peer[r].leader
          /\ log' = [log EXCEPT ![r] = @ \o
                        [i \in 1 .. n |-> [proposeQueue[r][i] EXCEPT !.term = peer[r].term]]]
          /\ UNCHANGED rejected
       \/ /\ ~peer[r].leader
          /\ UNCHANGED <<rejected, log>>
    /\ UNCHANGED <<latchVars, threadVars, taskVars, pool, prepared, regions, toFinish,
                   peer, notify, store, effects>>

\* raftPollerTicker appends the n proposals it has taken from the queue, or
\* rejects them when the peer no longer leads.
Poll(r, n) ==
    /\ peer[r].alive
    /\ proposeQueue' = [proposeQueue EXCEPT ![r] = SubSeq(@, n + 1, Len(@))]
    /\ \/ /\ peer[r].leader
          /\ log' = [log EXCEPT ![r] = @ \o
                        [i \in 1 .. n |-> [proposeQueue[r][i] EXCEPT !.term = peer[r].term]]]
          /\ UNCHANGED rejected
       \/ /\ ~peer[r].leader
          /\ rejected' = [rejected EXCEPT ![r] = @ \o SubSeq(proposeQueue[r], 1, n)]
          /\ UNCHANGED log
    /\ UNCHANGED <<latchVars, threadVars, taskVars, pool, prepared, regions, toFinish,
                   peer, notify, store, effects>>

\* Mutant: request numbers of all clients are compared.
IsDuplicateOfAny(r, e) == \E client \in ClientIds : e.key[3] <= store[r].last[client]

IsDuplicate(r, e) == e.key[3] <= store[r].last[e.key[2]]

\* The prepared entries of a sequence meet the revisions they expect, each
\* one after the effects of those before it.
MeetsRevisions(r, entries) ==
    \A i \in DOMAIN entries : \A k \in DOMAIN entries[i].expected :
        entries[i].expected[k] =
            store[r].revision[k]
              + Cardinality({j \in 1 .. i - 1 : k \in DOMAIN entries[j].expected})

Touched(entries, k) == Cardinality({i \in DOMAIN entries : k \in DOMAIN entries[i].expected})
NumberOf(entries, client, last) ==
    LET own == {i \in DOMAIN entries : entries[i].key[2] = client} IN
    IF own = {} THEN last ELSE entries[CHOOSE i \in own : \A j \in own : j <= i].key[3]

\* The state machine after a sequence of prepared entries was carried out.
CarryOut(r, entries) ==
    /\ store' = [store EXCEPT
           ![r].revision = [k \in Keys |-> @[k] + Touched(entries, k)],
           ![r].last = [client \in ClientIds |-> NumberOf(entries, client, @[client])]]
    /\ effects' = effects \cup {entries[i].key : i \in DOMAIN entries}

\* A garbage collection removes versions of any of the keys.  A duplicate is
\* carried out again.
CarryOutGc(r, e) ==
    /\ \E touched \in SUBSET Keys :
         store' = [store EXCEPT
             ![r].revision = [k \in Keys |-> IF k \in touched THEN @[k] + 1 ELSE @[k]],
             ![r].last[e.key[2]] = IF IsDuplicate(r, e) THEN @ ELSE e.key[3]]
    /\ effects' = effects \cup {e.key}

\* An entry of another leader, which prepared it against the state it is applied
\* to.  The request of a client may also be pending here and is the same; the
\* recovery manager of another node resolves something else.
CarryOutForeign(r, e) ==
    /\ store' = [store EXCEPT
           ![r].revision = [k \in Keys |-> IF k \in DOMAIN e.expected THEN @[k] + 1 ELSE @[k]],
           ![r].last[e.key[2]] = e.key[3]]
    /\ effects' = effects \cup {key \in {e.key} : key[2] # RecoveryClient}

\* GetCommandFromRaft for one entry: a duplicate write is skipped, a write whose
\* revisions have moved leaves the state machine unhealthy for good.
ApplyEntry(r, e) ==
    \/ /\ e.kind = "noop"
       /\ UNCHANGED <<store, effects>>
    \/ /\ e.kind \in {"prepared", "foreign"} /\ IsDuplicate(r, e)
       /\ UNCHANGED <<store, effects>>
    \/ /\ e.kind = "foreign" /\ ~IsDuplicate(r, e)
       /\ CarryOutForeign(r, e)
    \/ /\ e.kind = "gc"
       /\ CarryOutGc(r, e)
    \/ /\ e.kind = "prepared" /\ ~IsDuplicate(r, e) /\ MeetsRevisions(r, <<e>>)
       /\ CarryOut(r, <<e>>)
    \/ /\ e.kind = "prepared" /\ ~IsDuplicate(r, e) /\ ~MeetsRevisions(r, <<e>>)
       /\ store' = [store EXCEPT ![r].healthy = FALSE]
       /\ UNCHANGED effects

\* The apply thread can take the next message: it is in no other function
\* and has reported what it applied.
AtNextMessage(r) ==
    /\ peer[r].alive
    /\ store[r].healthy
    /\ pc[Applier(r)] = "idle"
    /\ notify[r] = <<>>

\* The next entry is committed and applied.
ApplyNext(r) ==
    /\ AtNextMessage(r)
    /\ log[r] # <<>>
    /\ LET e == Head(log[r]) IN
         /\ ApplyEntry(r, e)
         /\ log' = [log EXCEPT ![r] = Tail(@)]
         /\ peer' = [peer EXCEPT ![r].readyTerm = IF e.kind = "noop" THEN e.term ELSE @]
         /\ notify' = [notify EXCEPT ![r] =
                          IF e.kind = "noop" \/ ~store'[r].healthy THEN <<>> ELSE <<e>>]
    /\ UNCHANGED <<latchVars, threadVars, taskVars, pool, prepared, regions, toFinish,
                   proposeQueue, rejected>>

\* TryBatchApplyFromRaft: several prepared entries are applied in one batch
\* and reported afterwards, when all of them can be carried out.
ApplyBatch(r, n) ==
    LET batch == SubSeq(log[r], 1, n) IN
    /\ AtNextMessage(r)
    /\ \A i \in 1 .. n : batch[i].kind = "prepared"
    /\ \A i \in 1 .. n :
         /\ ~IsDuplicate(r, batch[i])
         /\ \A j \in 1 .. i - 1 :
              batch[j].key[2] = batch[i].key[2] => batch[j].key[3] < batch[i].key[3]
    /\ MeetsRevisions(r, batch)
    /\ CarryOut(r, batch)
    /\ log' = [log EXCEPT ![r] = SubSeq(@, n + 1, Len(@))]
    /\ notify' = [notify EXCEPT ![r] = batch]
    /\ UNCHANGED <<latchVars, threadVars, taskVars, pool, prepared, regions, toFinish,
                   peer, proposeQueue, rejected>>

OnApplied(r) ==
    /\ pc[Applier(r)] = "idle"
    /\ notify[r] # <<>>
    /\ notify' = [notify EXCEPT ![r] = Tail(@)]
    /\ LET pending == TaskFor(Head(notify[r]).key) IN
         \/ /\ pending = {}
            /\ UNCHANGED <<threadVars, taskVars>>
         \/ \E c \in pending : EndTask(Applier(r), c, "Applied") /\ UNCHANGED todo
    /\ UNCHANGED <<latchVars, pool, prepared, regions, toFinish, peer, proposeQueue, log,
                   rejected, store, effects>>

OnProposalRejected(r) ==
    /\ store[r].healthy
    /\ pc[Applier(r)] = "idle"
    /\ notify[r] = <<>>
    /\ rejected[r] # <<>>
    /\ rejected' = [rejected EXCEPT ![r] = Tail(@)]
    /\ LET pending == TaskFor(Head(rejected[r]).key) IN
         \/ /\ pending = {}
            /\ UNCHANGED <<threadVars, taskVars>>
         \/ \E c \in pending : FinishBeforeProposal(Applier(r), c, "WrongLeader", <<>>)
    /\ UNCHANGED <<latchVars, pool, prepared, regions, toFinish, peer, proposeQueue, log,
                   notify, store, effects>>

quietVars == <<latchVars, threadVars, taskVars, pool, prepared, toFinish>>

LoseLeadership(r) ==
    /\ peer[r].leader
    /\ peer' = [peer EXCEPT ![r].leader = FALSE]
    /\ UNCHANGED <<quietVars, regions, proposeQueue, log, rejected, notify, store, effects>>

\* A new leader appends an entry of its own term before anything else.
BecomeLeader(r) ==
    /\ peer[r].alive
    /\ ~peer[r].leader
    /\ peer[r].term < plan.terms
    /\ peer' = [peer EXCEPT ![r].leader = TRUE, ![r].term = @ + 1]
    /\ log' = [log EXCEPT ![r] = Append(@, Noop(peer[r].term + 1))]
    /\ UNCHANGED <<quietVars, regions, proposeQueue, rejected, notify, store, effects>>

\* AppendEntries of another leader overwrites the entries from the first one
\* that conflicts.  Nothing is reported for them.
Overwrite(r, n) ==
    /\ peer[r].alive
    /\ ~peer[r].leader
    /\ n < Len(log[r])
    /\ peer[r].lost < plan.lost
    /\ peer' = [peer EXCEPT ![r].lost = @ + 1]
    /\ log' = [log EXCEPT ![r] = SubSeq(@, 1, n)]
    /\ UNCHANGED <<quietVars, regions, proposeQueue, rejected, notify, store, effects>>

\* A snapshot that covers the next entry takes its place: the entry counts as
\* applied, and nothing is reported for it either.
InstallSnapshot(r) ==
    /\ AtNextMessage(r)
    /\ ~peer[r].leader
    /\ log[r] # <<>>
    /\ peer[r].lost < plan.lost
    /\ peer' = [peer EXCEPT ![r].lost = @ + 1]
    /\ ApplyEntry(r, Head(log[r]))
    /\ store'[r].healthy
    /\ log' = [log EXCEPT ![r] = Tail(@)]
    /\ UNCHANGED <<quietVars, regions, proposeQueue, rejected, notify>>

\* AppendEntries of another leader adds its write of key k: for a client of its
\* own, for a client that has turned from this node to that one, or for the
\* recovery manager there, which numbers its requests from one as well.
ForeignWrite(r, k) ==
    /\ peer[r].alive
    /\ ~peer[r].leader
    /\ peer[r].foreign < plan.foreign
    /\ peer' = [peer EXCEPT ![r].foreign = @ + 1]
    /\ \E key \in {<<r, OtherClient, peer[r].foreign + 1>>}
                   \cup {<<r, RecoveryClient, peer[r].foreign + 1>>}
                   \cup {RequestKey(x) : x \in {y \in Made : CallOf[y].rpc}} :
         log' = [log EXCEPT ![r] = Append(@,
                    [kind |-> "foreign", key |-> key, expected |-> [j \in {k} |-> 0],
                     checkedIn |-> 0, term |-> 0])]
    /\ UNCHANGED <<quietVars, regions, proposeQueue, rejected, notify, store, effects>>

(***************************************************************************)
(* A Region leaves the node: the peer is removed from its group, the       *)
(* registry waits until its RPCs are answered, then the scheduler drops    *)
(* the Region and finishes its tasks one by one.                           *)
(***************************************************************************)
RemovePeer(r) ==
    /\ peer[r].alive
    /\ peer[r].retired < plan.retired
    /\ pc[Applier(r)] = "idle" /\ notify[r] = <<>>
    /\ peer' = [peer EXCEPT ![r].alive = FALSE, ![r].leader = FALSE, ![r].retired = @ + 1]
    /\ proposeQueue' = [proposeQueue EXCEPT ![r] = <<>>]
    /\ log' = [log EXCEPT ![r] = <<>>]
    /\ UNCHANGED <<quietVars, regions, rejected, notify, store, effects>>

Drained(r) ==
    \A x \in Made : CallOf[x].rpc /\ CallOf[x].want.region = r =>
        pc[x] = "new" \/ answer[x] # "none"

OnRegionRemoved(r) ==
    /\ ~peer[r].alive
    /\ r \in regions
    /\ Drained(r)
    /\ regions' = regions \ {r}
    /\ toFinish' = [toFinish EXCEPT ![r] = {c \in tasks : RegionOf(c) = r}]
    /\ UNCHANGED <<latchVars, threadVars, taskVars, pool, prepared, raftVars>>

FinishRemoved(r) ==
    /\ pc[Remover(r)] = "idle"
    /\ \E c \in toFinish[r] :
         /\ toFinish' = [toFinish EXCEPT ![r] = @ \ {c}]
         /\ FinishBeforeProposal(Remover(r), c, "WrongLeader", <<>>)
    /\ UNCHANGED <<latchVars, pool, prepared, regions, raftVars>>

\* MountMigrationPeer: a new peer of the Region, which catches up by snapshot.
Mount(r) ==
    /\ ~peer[r].alive
    /\ r \notin regions
    /\ toFinish[r] = {} /\ pc[Remover(r)] = "idle"
    /\ regions' = regions \cup {r}
    /\ peer' = [peer EXCEPT ![r].alive = TRUE]
    /\ store' = [store EXCEPT ![r].healthy = TRUE]
    /\ UNCHANGED <<quietVars, proposeQueue, log, rejected, notify, effects>>

CallNext(x) == Admit(x) \/ Insert(x) \/ FindTask(x) \/ AcquireLatches(x) \/ SubmitOwn(x)
WorkerNext(w) == Execute(w) \/ Prepare(w) \/ Recheck(w) \/ Propose(w)
FinishNext(t) == DispatchNext(t) \/ ReleaseLatches(t) \/ GrantWaiter(t) \/ Released(t)
ApplierNext(r) ==
    \/ ApplyNext(r)
    \/ \E n \in 2 .. Len(log[r]) : ApplyBatch(r, n)
    \/ OnApplied(r)
    \/ OnProposalRejected(r)
PollerNext(r) == \E n \in 1 .. Len(proposeQueue[r]) : Poll(r, n)
RemoverNext(r) == OnRegionRemoved(r) \/ FinishRemoved(r)
RaftNext(r) ==
    \/ LoseLeadership(r)
    \/ BecomeLeader(r)
    \/ \E n \in 0 .. Len(log[r]) - 1 : Overwrite(r, n)
    \/ InstallSnapshot(r)
    \/ \E k \in plan.keys : ForeignWrite(r, k)
    \/ RemovePeer(r)
    \/ Mount(r)

ThreadNext ==
    /\ \/ \E x \in Calls : CallNext(x) \/ DeadlinePasses(x)
       \/ \E w \in Workers : WorkerNext(w)
       \/ \E t \in Thread : FinishNext(t)
       \/ \E r \in Regions : PollerNext(r) \/ ApplierNext(r) \/ RemoverNext(r)
    /\ UNCHANGED plan

Next ==
    \/ ThreadNext
    \/ (\E r \in Regions : RaftNext(r)) /\ UNCHANGED plan

\* As long as one of the threads can go on, one of them does: the deadline thread
\* wakes every ten milliseconds, and a Raft group with a majority commits what its
\* log keeps.  Nothing is assumed about elections, lost suffixes, snapshots and the
\* placement of Regions.  A workload has finitely many calls and every step brings
\* one of them further, so that no thread can be passed over for ever.
Fairness == WF_vars(ThreadNext)

Spec == Init /\ [][Next]_vars /\ Fairness

(***************************************************************************)
(* Properties.                                                             *)
(***************************************************************************)
\* The threads use the latch table the way its specification allows: whatever the
\* order of their critical sections, every command is registered once, and no pass
\* over the waiting commands is entered by another thread.
ImplementsLatches == LatchSpec

EntriesOf(r) ==
    {log[r][i] : i \in DOMAIN log[r]} \cup {proposeQueue[r][i] : i \in DOMAIN proposeQueue[r]}

InFlight(r) ==
    {e \in EntriesOf(r) :
        e.kind = "prepared" /\ e.checkedIn = peer[r].term /\ ~IsDuplicate(r, e)}

\* A write keeps its latches while it is on its way through Raft in the term in
\* which its worker found the peer leading, unless it was carried out already for
\* another attempt of its client.  Whatever times out, is retried or is removed
\* in between, its task is still pending and holds every key the write changes.
\* The comment on OnApplied calls its call the point at which the latch can be
\* released.
InFlightLatched ==
    \A r \in Regions : peer[r].leader => \A e \in InFlight(r) :
        \E c \in held \cap tasks :
            /\ RequestKey(source[c]) = e.key
            /\ DOMAIN e.expected \subseteq want[c].keys

\* A write that enters the log in the term in which its worker found the peer
\* leading still meets the revisions it expects when it is its turn, so that
\* ApplyPrepared does not refuse a committed entry and stop the Region.
SameTermWritesApply ==
    \A r \in Regions :
        LET e == Head(log[r]) IN
        /\ log[r] # <<>>
        /\ e.kind = "prepared"
        /\ e.checkedIn = e.term
        /\ ~IsDuplicate(r, e)
        => MeetsRevisions(r, <<e>>)

\* As long as the peers lead as they did from the start, a latch belongs to a
\* pending task, or a thread is about to release it: Schedule looks its task up and
\* acquires the latches in two critical sections.
LatchesOwned ==
    (\A r \in Regions : peer[r].leader /\ peer[r].term = 1 /\ peer[r].retired = 0) =>
        \A c \in waiting \cup held :
            c \in tasks \/ \E t \in Thread : pc[t] = "release" /\ cur[t] = c

\* A call is answered once: the deadline thread, the workers, the apply thread
\* and the removal of the Region never answer a call that has its answer.
AnsweredOnce ==
    [][\A x \in Calls : answer[x] # "none" => answer'[x] = answer[x]]_answer

\* A client that is told its command was applied has had its write carried out,
\* although OnApplied is also called for entries skipped as duplicates.
AppliedMeansDone ==
    \A x \in Made : CallOf[x].rpc /\ answer[x] = "Applied" => RequestKey(x) \in effects

\* The same for the commands of the recovery manager.
RecoveryMeansDone ==
    \A x \in Made : ~CallOf[x].rpc /\ answer[x] = "Applied" => RequestKey(x) \in effects

\* All calls are answered, whatever happens to their commands.
CallsAnswered == <>(\A x \in Made : answer[x] # "none")

\* Every task leaves the table, and with it its latches: as there are finitely
\* many calls, the table of pending tasks ends up empty.
TasksEnd == <>[](tasks = {})
=============================================================================
