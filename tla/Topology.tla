------------------------------ MODULE Topology ------------------------------
(***************************************************************************)
(* The control plane at work: the metadata nodes with their balancer (an   *)
(* evaluator that plans operators and an executor that drives them), the   *)
(* Stores that report heartbeats, and the administrator's commands, all    *)
(* changing the replicated metadata state through MetadataClient.          *)
(*                                                                         *)
(* The metadata Raft group is its log of applied commands.  A call applies *)
(* its command at one point between its start and its return; because the  *)
(* client repeats a command it has no answer for, a second copy may be     *)
(* applied later, and a call that times out leaves a command behind that   *)
(* may be applied at any later time or never.  Reads are linearizable.     *)
(*                                                                         *)
(* Of a Region's Raft group the model has the descriptor its peers apply   *)
(* (epoch and members), the roles Raft counts votes with, and the one      *)
(* membership change that may be in its log.                               *)
(***************************************************************************)
EXTENDS AutoBalancerPlanner

CONSTANTS
    Nodes,          \* the metadata nodes
    Workloads,      \* what administrators and faults may do; see Init
    Setup,          \* the commands of the cluster's start, in order
    HeartbeatTimeout \* how long a heartbeat is fresh

VARIABLES
    plan,           \* the workload of this behaviour
    sm,             \* the metadata state machine
    late,           \* copies of commands on their way, and whether they had their effect
    left,           \* how often each fault, tick, report or evaluation may still happen
    leader,         \* the metadata node that leads
    evaluator,      \* per node: the command its evaluator is about to submit
    executor,       \* per node: the operator its executor drives
    task,           \* per administrator command of the workload: its progress
    group,          \* per Region: epoch and membership of its Raft group
    sequence,       \* per Store: the sequence number of its last heartbeat
    now             \* the wall clock

clients == <<evaluator, executor, task>>
world == <<leader, group, sequence, now>>
log == <<sm, late>>
vars == <<plan, sm, late, left, leader, evaluator, executor, task, group, sequence, now>>

Idle == [pc |-> "idle"]
View == sm.published
Spend(x) == left[x] > 0 /\ left' = [left EXCEPT ![x] = @ - 1]

\* The wall clock of a machine; those of plan.ahead are ahead of the others.
Clock(x) == IF x \in plan.ahead THEN now + 1 ELSE now

----------------------------------------------------------------------------
(* MetadataClient and MetadataConsensusNode.                               *)

TimeoutResult == [error |-> "TIMEOUT", revision |-> 0, value |-> NoValue]

Copy(c, effective) == [command |-> c, effective |-> effective]

\* The log after command c has been applied: every member computes the same.
Logged(c, applied) ==
    LET changed == applied.state.live # sm.live
    IN [sm |-> applied.state, result |-> applied.result, left |-> left, changed |-> changed,
        late |-> IF changed THEN {IF x.command = c THEN Copy(c, TRUE) ELSE x : x \in late}
                            ELSE late]
AfterApply(c) == Logged(c, Apply(sm, c))

\* What MetadataClient::Mutate may come to: the command applied and answered,
\* perhaps with a second copy on its way; or no answer before the deadline.
Answers(c, applied) ==
    {applied}
      \cup {[applied EXCEPT !.late = @ \cup {Copy(c, applied.changed)}, !.left.repeats = @ - 1] :
             x \in {1} \cap 1 .. left.repeats}
      \cup {[sm |-> sm, late |-> late \cup {Copy(c, FALSE)}, result |-> TimeoutResult,
             left |-> [left EXCEPT !.timeouts = @ - 1]] :
             x \in {1} \cap 1 .. left.timeouts}
Mutate(c) == Answers(c, AfterApply(c))

Comes(o) == sm' = o.sm /\ late' = o.late /\ left' = o.left

\* A copy left behind reaches the state machine after all; it is the last one,
\* or another attempt of the same call has left one more.
ApplyLate ==
    \E x \in late : \E o \in {AfterApply(x.command)} :
      /\ \/ Comes([o EXCEPT !.late = late \ {x}])
         \/ left.repeats > 0 /\ Comes([o EXCEPT !.left.repeats = @ - 1])
      /\ UNCHANGED <<plan, clients, world>>

\* A lookup that found the metadata unavailable until its deadline.
LookupFails == Spend("timeouts")

----------------------------------------------------------------------------
(* The Regions' Raft groups: RegionPeer::ProposeConfChange accepts a       *)
(* change into the leader's log, ApplyConfChange applies it once committed.*)

NoChange == [type |-> "NONE"]
Epoch(id) == group[id].epoch

\* A group as it starts from its descriptor.
Formed(region) ==
    LET members == {region.peers[k].peer : k \in DOMAIN region.peers}
        Learns(p) == \E k \in DOMAIN region.peers :
                       region.peers[k].peer = p /\ region.peers[k].learner
    IN [epoch |-> EpochOf(region), pending |-> NoChange,
        learner |-> [p \in members |-> Learns(p)],
        role |-> [p \in members |-> IF Learns(p) THEN "Learner" ELSE "Voter"]]

\* ApplyConfChange of RegionPeer (the descriptor) and of Raft (the roles).
\* Only the epoch can refuse a change; one of a peer that is not there
\* advances the configuration version all the same.
Changed(g, change) ==
    LET p == change.peer
        next == [g EXCEPT !.epoch.conf = @ + 1]
    IN CASE change.type = "ADD_LEARNER" ->
              [next EXCEPT !.learner = (p :> TRUE) @@ @, !.role = (p :> "Learner") @@ @]
         [] change.type = "PROMOTE_LEARNER" ->
              [next EXCEPT !.learner = [x \in DOMAIN @ |-> x # p /\ @[x]],
                           !.role = [x \in DOMAIN @ |-> IF x = p THEN "Voter" ELSE @[x]]]
         [] change.type = "REMOVE_PEER" ->
              [next EXCEPT !.learner = Without(@, p),
                           !.role = [x \in DOMAIN @ |-> IF x = p THEN "Removed" ELSE @[x]]]

ApplyConfChange(id) ==
    LET g == group[id]
    IN /\ g.pending # NoChange
       /\ group' = [group EXCEPT ![id] =
            [(IF g.pending.epoch = g.epoch THEN Changed(g, g.pending) ELSE g)
               EXCEPT !.pending = NoChange]]
       /\ UNCHANGED <<plan, log, left, clients, leader, sequence, now>>

\* A new leader of the Region has not got the change in its log, or the old
\* one has stepped down before it was appended.
LoseConfChange(id) ==
    /\ group[id].pending # NoChange
    /\ group' = [group EXCEPT ![id].pending = NoChange]
    /\ UNCHANGED <<plan, log, left, clients, leader, sequence, now>>

\* ProposeConfChange: refused while another change is in flight, with another
\* epoch than the descriptor's, and by a peer that does not lead.
Acceptable(id, epoch) == group[id].pending = NoChange /\ epoch = Epoch(id)

\* ProposeMembershipChange of the administrator's tool: with the epoch it
\* knows, at every endpoint in turn; the answer of the one may be lost.
ProposeMembershipChange(id, type, peer, epoch, accepted) ==
    \/ /\ Acceptable(id, epoch)
       /\ group' = [group EXCEPT ![id].pending =
                       [type |-> type, peer |-> peer, epoch |-> epoch]]
       /\ accepted \/ plan.unanswered
    \/ ~accepted /\ group' = group

----------------------------------------------------------------------------
(* AutoBalancer::EvaluateOnce.                                             *)

CreateCommand(p) ==
    [kind |-> "CreateSchedulingOperator", mutation |-> <<"autobalance", p.id>>,
     expectedRevision |-> p.operator.sourceRevision, id |-> p.id, operator |-> p.operator]

\* The evaluator keeps neither evidence nor cooldown from one evaluation to
\* the next: the planner starts from none.
PlansOf(n) == Plan(View, Clock(n), <<>>, <<>>)

EvaluateOnce(n) ==
    /\ evaluator[n] = Idle
    /\ leader = n
    /\ PlansOf(n) # <<>>
    /\ Spend("evaluations")
    /\ evaluator' = [evaluator EXCEPT ![n] = [pc |-> "submit",
                                              command |-> CreateCommand(Head(PlansOf(n)))]]
    /\ UNCHANGED <<plan, log, executor, task, world>>

SubmitOperator(n) ==
    /\ evaluator[n].pc = "submit"
    /\ \E o \in Mutate(evaluator[n].command) : Comes(o)
    /\ evaluator' = [evaluator EXCEPT ![n] = Idle]
    /\ UNCHANGED <<plan, executor, task, world>>

----------------------------------------------------------------------------
(* AutoBalancer::ReconcileOnce and TopologyOperationCoordinator.  One step *)
(* of the executor is the code up to and including its next call.          *)

UpdateCommand(n, id, from, to, attempts, irreversible) ==
    [kind |-> "UpdateSchedulingOperator", mutation |-> <<"op-update", id, to, attempts>>,
     expectedRevision |-> 0, id |-> id, expectedPhase |-> from, phase |-> to,
     attempts |-> attempts, irreversible |-> irreversible, updatedAt |-> Clock(n)]

ReconcileOnce(n) ==
    /\ executor[n] = Idle
    /\ leader = n
    /\ \E id \in ActiveOperators(View) :
         LET op == View.operators[id]
         IN executor' = [executor EXCEPT ![n] =
              [pc |-> IF op.phase = "CANCELLING" THEN "cancelled" ELSE "dispatch",
               id |-> id, op |-> op]]
    /\ UNCHANGED <<plan, log, left, evaluator, task, world>>

\* shouldStop, as the executor of n sees it.
ShouldStop(n) == leader # n

\* The executor goes on with e.
Goes(n, e) == executor' = [executor EXCEPT ![n] = e]
At(n, pc) == executor[n].pc = pc
Step(n, pc) == [executor[n] EXCEPT !.pc = pc]

\* Where it asks, the executor gives up once its node does not lead.
Stops(n) ==
    /\ ShouldStop(n)
    /\ executor[n].pc \in {"dispatch", "lookup", "mount", "learner", "catchup", "promote",
                           "remove", "commitSplit", "propose", "cancelled"}
    /\ Goes(n, Idle)
    /\ UNCHANGED <<plan, log, left, evaluator, task, world>>

\* The process of a node ends, between any two steps, and starts again; what
\* its two loops were doing is gone.
Crash(n) ==
    /\ executor[n] # Idle \/ evaluator[n] # Idle
    /\ Spend("crashes")
    /\ executor' = [executor EXCEPT ![n] = Idle]
    /\ evaluator' = [evaluator EXCEPT ![n] = Idle]
    /\ leader' \in IF leader = n THEN Nodes ELSE {leader}
    /\ UNCHANGED <<plan, log, task, group, sequence, now>>

\* UpdateOperatorPhase, whose result is not looked at.
UpdatePhase(n, pc, from, to, attempts, irreversible, then) ==
    LET c == UpdateCommand(n, executor[n].id, from, to, attempts, irreversible)
    IN /\ At(n, pc)
       /\ \E o \in Mutate(c) : Comes(o)
       /\ Goes(n, then)
       /\ UNCHANGED <<plan, evaluator, task, world>>

FailingDispatched(n, from) == [pc |-> "fail", id |-> executor[n].id, from |-> "DISPATCHING"]
Failing(n, from) == [pc |-> "fail", id |-> executor[n].id, from |-> from]

Dispatch(n) ==
    /\ ~ShouldStop(n)
    /\ UpdatePhase(n, "dispatch", "PENDING", "DISPATCHING", 1, FALSE, Step(n, "lookup"))

Cancelled(n) ==
    /\ ~ShouldStop(n)
    /\ UpdatePhase(n, "cancelled", "CANCELLING", "CANCELLED", executor[n].op.attempts + 1,
                   FALSE, Idle)

\* An exception of the lookup fails a move; nothing catches that of a split,
\* and the process ends.
Lookup(n) ==
    LET op == executor[n].op
        found == [pc |-> IF op.type = "MOVE_PEER" THEN "prepare" ELSE "prepareSplit",
                  id |-> executor[n].id, op |-> op, revision |-> View.revision,
                  original |-> View.regions[op.region]]
    IN /\ At(n, "lookup")
       /\ ~ShouldStop(n)
       /\ \/ Goes(n, found) /\ UNCHANGED <<left, evaluator>>
          \/ /\ LookupFails
             /\ op.type = "MOVE_PEER"
             /\ Goes(n, Failing(n, "DISPATCHING"))
             /\ UNCHANGED evaluator
          \/ /\ LookupFails
             /\ op.type = "SPLIT_REGION"
             /\ Goes(n, Idle)
             /\ evaluator' = [evaluator EXCEPT ![n] = Idle]
       /\ UNCHANGED <<plan, log, task, world>>

PrepareMove(n) ==
    LET e == executor[n]
        c == [kind |-> "PrepareMovePeer", mutation |-> <<"move-peer:prepare", e.id>>,
              expectedRevision |-> e.revision, region |-> e.op.region, from |-> e.op.source,
              to |-> e.op.target, epoch |-> EpochOf(e.original)]
    IN /\ At(n, "prepare")
       /\ \E o \in Mutate(c) :
            /\ Comes(o)
            /\ Goes(n, IF o.result.error = "OK"
                       THEN [pc |-> "mount", id |-> e.id, op |-> e.op, original |-> e.original,
                             peer |-> o.result.value.migration.target.peer]
                       ELSE Failing(n, "DISPATCHING"))
       /\ UNCHANGED <<plan, evaluator, task, world>>

\* A step that is left to a hook.  The balancer sets none, and the step is
\* passed over; a hook that is set answers yes or no.
Hook(n, pc, from, then) ==
    /\ At(n, pc)
    /\ ~ShouldStop(n)
    /\ \/ Goes(n, Step(n, then))
       \/ plan.hooked /\ Goes(n, Failing(n, from))
    /\ UNCHANGED <<plan, log, left, evaluator, task, world>>

Mount(n) == Hook(n, "mount", "DISPATCHING", "learner")
AddLearner(n) == Hook(n, "learner", "DISPATCHING", "waiting")

Waiting(n) ==
    UpdatePhase(n, "waiting", "DISPATCHING", "WAITING", 1, FALSE, Step(n, "catchup"))

CatchUp(n) == Hook(n, "catchup", "WAITING", "promote")
PromoteLearner(n) == Hook(n, "promote", "WAITING", "irreversible")

Irreversible(n) ==
    UpdatePhase(n, "irreversible", "WAITING", "WAITING", 1, TRUE, Step(n, "remove"))

\* The answer of the hook that removes the source, if there is one, is not
\* looked at.
RemoveSource(n) ==
    /\ At(n, "remove")
    /\ ~ShouldStop(n)
    /\ Goes(n, Step(n, "commit"))
    /\ UNCHANGED <<plan, log, left, evaluator, task, world>>

\* A command whose result is not looked at and whose revision is not set.
Blindly(n, pc, c, then) ==
    /\ At(n, pc)
    /\ \E o \in Mutate(c) : Comes(o)
    /\ Goes(n, Step(n, then))
    /\ UNCHANGED <<plan, evaluator, task, world>>

\* Nor is that of the hook that retires the source after it.
CommitMove(n) ==
    LET e == executor[n]
    IN Blindly(n, "commit",
               [kind |-> "CommitMovePeer", mutation |-> <<"move-peer:commit", e.id>>,
                expectedRevision |-> 0, region |-> e.op.region, peer |-> e.peer,
                epoch |-> EpochOf(e.original)], "succeed")

PrepareSplit(n) ==
    LET e == executor[n]
    IN Blindly(n, "prepareSplit",
               [kind |-> "PrepareSplit", mutation |-> <<"split:prep", e.id>>,
                expectedRevision |-> 0, region |-> e.op.region,
                key |-> e.original.start + 1, epoch |-> EpochOf(e.original)], "commitSplit")

CommitSplit(n) ==
    /\ ~ShouldStop(n)
    /\ Blindly(n, "commitSplit",
               [kind |-> "CommitSplit", mutation |-> <<"split:commit", executor[n].id>>,
                expectedRevision |-> 0, region |-> executor[n].op.region], "committed")

Committed(n) ==
    UpdatePhase(n, "committed", "DISPATCHING", "WAITING", 1, TRUE, Step(n, "propose"))

\* AdminSplit is proposed for the child and its progress polled.
ProposeSplit(n) ==
    /\ At(n, "propose")
    /\ ~ShouldStop(n)
    /\ Goes(n, Step(n, "succeed"))
    /\ UNCHANGED <<plan, log, left, evaluator, task, world>>

Succeed(n) == UpdatePhase(n, "succeed", "WAITING", "SUCCEEDED", 1, TRUE, Idle)
FailOperator(n) == UpdatePhase(n, "fail", executor[n].from, "FAILED", 1, FALSE, Idle)

Execute(n) ==
    \/ Dispatch(n) \/ Cancelled(n) \/ Lookup(n) \/ PrepareMove(n) \/ Mount(n)
    \/ AddLearner(n) \/ Waiting(n) \/ CatchUp(n) \/ PromoteLearner(n) \/ Irreversible(n)
    \/ RemoveSource(n) \/ CommitMove(n) \/ PrepareSplit(n) \/ CommitSplit(n)
    \/ Committed(n) \/ ProposeSplit(n) \/ Succeed(n) \/ FailOperator(n) \/ Stops(n)

----------------------------------------------------------------------------
(* The administrator's commands: each is a process of its own.             *)

Becomes(i, t) == task' = [task EXCEPT ![i] = t]
TaskAt(i, kind, pc) == plan.tasks[i].kind = kind /\ task[i].pc = pc
Done == [pc |-> "done"]

\* A step of a command that calls Mutate and goes on with Then(result).
Call(i, c, Then(_)) ==
    /\ \E o \in Mutate(c) : Comes(o) /\ Becomes(i, Then(o.result))
    /\ UNCHANGED <<plan, evaluator, executor, world>>

\* A step that neither calls the metadata nor changes a group.
Locally(i, t) == Becomes(i, t) /\ UNCHANGED <<plan, log, left, evaluator, executor, world>>

(* SplitRegion.                                                            *)
SplitLookup(i) ==
    LET region == View.regions[plan.tasks[i].region]
    IN /\ TaskAt(i, "split", "start")
       /\ Locally(i, IF region.split # NoSplit
                     THEN Done
                     ELSE [pc |-> "prepare", revision |-> View.revision, region |-> region])

SplitPrepare(i) ==
    LET t == task[i]
        job == plan.tasks[i]
        c == [kind |-> "PrepareSplit",
              mutation |-> <<"split-prepare", job.region, job.key, t.revision>>,
              expectedRevision |-> t.revision, region |-> job.region, key |-> job.key,
              epoch |-> EpochOf(t.region)]
    IN /\ TaskAt(i, "split", "prepare")
       /\ Call(i, c, LAMBDA r : IF r.error # "OK" THEN Done
                               ELSE [pc |-> "commit", revision |-> t.revision,
                                     region |-> t.region, prepared |-> r.revision])

SplitCommit(i) ==
    LET t == task[i]
        job == plan.tasks[i]
        c == [kind |-> "CommitSplit",
              mutation |-> <<"split-commit", job.region, job.key, t.revision>>,
              expectedRevision |-> t.prepared, region |-> job.region]
    IN /\ TaskAt(i, "split", "commit")
       /\ Call(i, c, LAMBDA r : IF r.error # "OK" THEN Done
                               ELSE [pc |-> "propose", region |-> t.region])

\* AdminSplit goes to the parent's group with the epoch of before the split;
\* the child is looked up by its start key, and polled for.
SplitPropose(i) ==
    LET job == plan.tasks[i]
        children == {id \in DOMAIN View.regions : View.regions[id].start = job.key}
        child == CHOOSE id \in children : TRUE
    IN /\ TaskAt(i, "split", "propose")
       /\ \/ group' = group
          \/ /\ children # {}
             /\ Epoch(job.region) = EpochOf(task[i].region)
             /\ group' = [group EXCEPT ![job.region].epoch.version = @ + 1]
                           @@ (child :> Formed(View.regions[child]))
       /\ Becomes(i, Done)
       /\ UNCHANGED <<plan, log, left, evaluator, executor, leader, sequence, now>>

(* MovePeer.                                                               *)
MoveLookup(i) ==
    LET job == plan.tasks[i]
        region == View.regions[job.region]
    IN /\ TaskAt(i, "move", "start")
       /\ Locally(i, IF ~Hosts(region, job.from) \/ Hosts(region, job.to)
                     THEN Done
                     ELSE [pc |-> "prepare", revision |-> View.revision, original |-> region])

MovePrepare(i) ==
    LET t == task[i]
        job == plan.tasks[i]
        c == [kind |-> "PrepareMovePeer",
              mutation |-> <<"move-peer:prepare:admin", job.region, job.from, job.to,
                             t.original.conf>>,
              expectedRevision |-> t.revision, region |-> job.region, from |-> job.from,
              to |-> job.to, epoch |-> EpochOf(t.original)]
    IN /\ TaskAt(i, "move", "prepare")
       /\ Call(i, c, LAMBDA r :
               IF r.error # "OK" THEN Done
               ELSE [pc |-> "mount", prepared |-> r.revision, original |-> t.original,
                     target |-> r.value.migration.target.peer,
                     source |-> r.value.migration.source])

\* PrepareMigrationTarget: the target's Store mounts it or refuses.
MoveMount(i) ==
    /\ TaskAt(i, "move", "mount")
    /\ \/ Locally(i, [task[i] EXCEPT !.pc = "add"])
       \/ Locally(i, [task[i] EXCEPT !.pc = "cancel"])

\* One membership change, with the epoch the command last saw.
Propose(i, pc, type, peer, epoch, then, otherwise) ==
    /\ TaskAt(i, "move", pc)
    /\ \E accepted \in BOOLEAN :
         /\ ProposeMembershipChange(plan.tasks[i].region, type, peer, epoch, accepted)
         /\ Becomes(i, IF accepted THEN then ELSE otherwise)
    /\ UNCHANGED <<plan, log, left, evaluator, executor, leader, sequence, now>>

\* PollMigrationStatus: the state waited for is seen, or the wait times out.
Poll(i, pc, ready, then, otherwise) ==
    /\ TaskAt(i, "move", pc)
    /\ \/ ready /\ Locally(i, then)
       \/ Locally(i, otherwise)

MoveGroup(i) == group[plan.tasks[i].region]
IsLearner(i, b) ==
    task[i].target \in DOMAIN MoveGroup(i).learner /\ MoveGroup(i).learner[task[i].target] = b
Proceed(i, pc) == [task[i] EXCEPT !.pc = pc]
WithEpoch(i, pc) ==
    [x \in DOMAIN task[i] \cup {"epoch"} |->
       IF x = "epoch" THEN MoveGroup(i).epoch ELSE IF x = "pc" THEN pc ELSE task[i][x]]

MoveAdd(i) ==
    Propose(i, "add", "ADD_LEARNER", task[i].target, EpochOf(task[i].original),
            Proceed(i, "caughtUp"), Proceed(i, "cancel"))

MoveCaughtUp(i) ==
    Poll(i, "caughtUp", IsLearner(i, TRUE),
         WithEpoch(i, "promote"), Proceed(i, "cancelLearner"))

MovePromoteUnchecked(i) ==
    Propose(i, "promote", "PROMOTE_LEARNER", task[i].target, task[i].epoch,
            Proceed(i, "promoted"), Proceed(i, "remove"))
MovePromote(i) ==
    Propose(i, "promote", "PROMOTE_LEARNER", task[i].target, task[i].epoch,
            Proceed(i, "promoted"), Done)

MovePromoted(i) ==
    Poll(i, "promoted", IsLearner(i, FALSE), WithEpoch(i, "remove"), Done)

MoveRemove(i) ==
    Propose(i, "remove", "REMOVE_PEER", task[i].source, task[i].epoch,
            Proceed(i, "removed"), Done)

MoveRemoved(i) ==
    Poll(i, "removed", task[i].source \notin DOMAIN MoveGroup(i).learner, Proceed(i, "commit"), Done)

MoveCommit(i) ==
    LET t == task[i]
        job == plan.tasks[i]
        c == [kind |-> "CommitMovePeer",
              mutation |-> <<"move-peer:commit:admin", job.region, t.target>>,
              expectedRevision |-> t.prepared, region |-> job.region, peer |-> t.target,
              epoch |-> EpochOf(t.original)]
    IN TaskAt(i, "move", "commit") /\ Call(i, c, LAMBDA r : Done)

\* cancelPrepared, with or without the removal of the learner.
MoveCancelLearner(i) ==
    Propose(i, "cancelLearner", "REMOVE_PEER", task[i].target,
            [EpochOf(task[i].original) EXCEPT !.conf = @ + 1],
            Proceed(i, "cancel"), Proceed(i, "cancel"))

MoveCancel(i) ==
    LET t == task[i]
        job == plan.tasks[i]
        c == [kind |-> "CancelMovePeer",
              mutation |-> <<"move-peer:cancel", job.region, t.target>>,
              expectedRevision |-> t.prepared, region |-> job.region, peer |-> t.target]
    IN TaskAt(i, "move", "cancel") /\ Call(i, c, LAMBDA r : Done)

(* BalancerCancel, UpdateBalancerConfig and single mutations.              *)
BalancerCancel(i) ==
    /\ TaskAt(i, "cancel", "start")
    /\ \E id \in DOMAIN View.operators :
         Call(i, [kind |-> "CancelSchedulingOperator", mutation |-> <<"balancer-cancel", id, i>>,
                  expectedRevision |-> 0, id |-> id, updatedAt |-> Clock("admin")], LAMBDA r : Done)

BalancerStatus(i) ==
    /\ TaskAt(i, "config", "start")
    /\ Locally(i, [pc |-> "update", revision |-> View.revision, config |-> View.config])

UpdateBalancerConfig(i) ==
    LET t == task[i]
        c == [kind |-> "UpdateAutoBalancerConfig", mutation |-> <<"balancer-config", i>>,
              expectedRevision |-> t.revision,
              config |-> [t.config EXCEPT !.paused = plan.tasks[i].paused,
                                          !.version = @ + 1]]
    IN TaskAt(i, "config", "update") /\ Call(i, c, LAMBDA r : Done)

MutateRead(i) ==
    /\ TaskAt(i, "rpc", "start")
    /\ Locally(i, [pc |-> "submit", revision |-> View.revision])

MutateSubmit(i) ==
    /\ TaskAt(i, "rpc", "submit")
    /\ Call(i, [mutation |-> <<"rpc", i>>, expectedRevision |-> task[i].revision]
                 @@ plan.tasks[i].command, LAMBDA r : Done)

Administer(i) ==
    \/ SplitLookup(i) \/ SplitPrepare(i) \/ SplitCommit(i) \/ SplitPropose(i)
    \/ MoveLookup(i) \/ MovePrepare(i) \/ MoveMount(i) \/ MoveAdd(i) \/ MoveCaughtUp(i)
    \/ MovePromote(i) \/ MovePromoted(i) \/ MoveRemove(i) \/ MoveRemoved(i) \/ MoveCommit(i)
    \/ MoveCancelLearner(i) \/ MoveCancel(i)
    \/ BalancerCancel(i) \/ BalancerStatus(i) \/ UpdateBalancerConfig(i)
    \/ MutateRead(i) \/ MutateSubmit(i)

----------------------------------------------------------------------------
(* The Stores, the clock and the leadership of the metadata group.         *)

\* CollectHeartbeat: the Store's load and the Regions it hosts.
CollectHeartbeat(s) ==
    LET load == plan.load[s]
        Leads(r) == \E p \in ToSet(r.peers) : p.store = s /\ p.peer = r.leader
        hosted == {id \in DOMAIN View.regions \cap DOMAIN group : Hosts(View.regions[id], s)}
    IN [store |-> s, sequence |-> sequence[s] + 1, expires |-> now + HeartbeatTimeout,
        full |-> load.full, used |-> load.used, requests |-> load.requests,
        regions |-> [id \in hosted |->
                       [epoch |-> Epoch(id), leader |-> Leads(View.regions[id]), bytes |-> load.bytes,
                        requests |-> load.requests, generation |-> 1]]]

ReportHeartbeat(s) ==
    LET c == [kind |-> "ReportStoreHeartbeat",
              mutation |-> <<"heartbeat", s, sequence[s] + 1>>, expectedRevision |-> 0,
              heartbeat |-> CollectHeartbeat(s)]
    IN /\ left.reports > 0 /\ s \in DOMAIN plan.load
       /\ sequence' = [sequence EXCEPT ![s] = @ + 1]
       /\ \E o \in {AfterApply(c), [AfterApply(c) EXCEPT !.sm = sm,
                                                       !.late = late \cup {Copy(c, FALSE)}]} :
            Comes([o EXCEPT !.left.reports = @ - 1])
       /\ UNCHANGED <<plan, clients, leader, group, now>>

\* The sequence number of a Store starts over with its process.
RestartStore(s) ==
    /\ sequence[s] > 0
    /\ Spend("restarts")
    /\ sequence' = [sequence EXCEPT ![s] = 0]
    /\ UNCHANGED <<plan, log, clients, leader, group, now>>

Tick ==
    /\ Spend("ticks")
    /\ now' = now + 1
    /\ UNCHANGED <<plan, log, clients, leader, group, sequence>>

ElectLeader(n) ==
    /\ n # leader
    /\ Spend("elections")
    /\ leader' = n
    /\ UNCHANGED <<plan, log, clients, group, sequence, now>>

Started == FoldLeft(LAMBDA s, c : Apply(s, c).state, NewStateMachine, Setup)

Init ==
    /\ plan \in Workloads
    /\ sm = Started
    /\ late = {}
    /\ left = plan.left
    /\ leader \in Nodes
    /\ evaluator = [n \in Nodes |-> Idle]
    /\ executor = [n \in Nodes |-> Idle]
    /\ task = [i \in DOMAIN plan.tasks |-> [pc |-> "start"]]
    /\ group = [id \in DOMAIN Started.live.regions |-> Formed(Started.live.regions[id])]
    /\ sequence = [s \in DOMAIN Started.live.stores |->
                     IF s \in DOMAIN Started.live.heartbeats
                     THEN Started.live.heartbeats[s].sequence ELSE 0]
    /\ now = 0

Next ==
    \/ ApplyLate
    \/ Tick
    \/ \E n \in Nodes :
         \/ EvaluateOnce(n) \/ SubmitOperator(n) \/ ReconcileOnce(n) \/ Execute(n)
         \/ ElectLeader(n) \/ Crash(n)
    \/ \E i \in DOMAIN plan.tasks : Administer(i)
    \/ \E id \in DOMAIN group : ApplyConfChange(id) \/ LoseConfChange(id)
    \/ \E s \in DOMAIN sequence : ReportHeartbeat(s) \/ RestartStore(s)

\* The executor's loop never stops: every call it makes returns, so that what
\* it has started ends, and the leader's takes up an operator that is active.
\* (Each step of an execution is enabled until it is taken: this is the weak
\* fairness of ReconcileOnce and Execute, said of the states.)
Waits(n) == leader = n /\ executor[n] = Idle /\ ActiveOperators(View) # {}
Fairness ==
    \A n \in Nodes : []<>(executor[n] = Idle) /\ []<>~Waits(n)

Spec == Init /\ [][Next]_vars /\ Fairness

----------------------------------------------------------------------------
(* Properties.                                                             *)

Live == sm.live
Phases == {"PENDING", "DISPATCHING", "WAITING", "CANCELLING"} \cup Terminal

\* The Stores that have been given another address: the peers of Regions
\* keep the one they were created with.
Readdressed ==
    {x \in DOMAIN Started.live.stores : Live.stores[x] # Started.live.stores[x]}

\* The Regions partition the keyspace, and an identifier promised to a split's
\* child or a move's target is not used by, or promised to, anything else,
\* whatever splits, moves and repeated commands interleave.  As long as no
\* Store has been given another address, the catalog is valid, agrees with the
\* Stores, and is the one readers see.
PeerIdsOf(region) == {region.peers[k].peer : k \in DOMAIN region.peers}
Promises ==
    {Live.regions[id].split : id \in DOMAIN Live.regions} \ {NoSplit}
MoveTargets == {Live.migrations[id].target.peer : id \in DOMAIN Live.migrations}
CatalogConsistent ==
    /\ Contiguous(Live.regions) /\ CoveredInterval(Live.regions) = <<0, End>>
    /\ Readdressed = {} => /\ sm.published = sm.live
                          /\ RegionCatalog(Live.regions)
                          /\ MatchesStores(Live.regions, Live.stores)
    /\ \A x \in Promises :
         /\ x.id \notin DOMAIN Live.regions /\ x.id <= Live.high.region
         /\ \A y \in Promises : x # y => x.id # y.id /\ PeerIdsOf(x.child) \cap PeerIdsOf(y.child) = {}
    /\ LET used == UNION {PeerIdsOf(Live.regions[id]) : id \in DOMAIN Live.regions}
           promised == UNION {PeerIdsOf(x.child) : x \in Promises}
       IN /\ used \cap promised = {} /\ MoveTargets \cap (used \cup promised) = {}
          /\ Cardinality(MoveTargets) = Cardinality(DOMAIN Live.migrations)
          /\ \A p \in used \cup promised \cup MoveTargets : p <= Live.high.peer

\* A member that restarts from a snapshot it accepts continues with the state
\* the others have, its index of active operators and its table of answered
\* mutations included; and it accepts one taken at any point, as long as no
\* Store has been given another address than its peers have.
RecoveryReproduces ==
    /\ Readdressed = {} => Restorable(Snapshot(sm))
    /\ Restorable(Snapshot(sm)) => Restore(Snapshot(sm)) = sm

\* Every snapshot is accepted: what the specification of the metadata service
\* says of recovery.
SnapshotsAccepted == Restorable(Snapshot(sm))

\* The revision and the epochs of the Regions never fall; a Region whose
\* range changes has a higher version, one whose peers change a higher
\* configuration version; a heartbeat never replaces a later one.
EpochsAdvance ==
    [][/\ Live'.revision >= Live.revision
       /\ Live'.regions # Live.regions => Live'.revision > Live.revision
       /\ \A id \in DOMAIN Live.regions \cap DOMAIN Live'.regions :
            EpochAdvanced(Live.regions[id], Live'.regions[id])
       /\ \A s \in DOMAIN Live.heartbeats :
            Live'.heartbeats[s].sequence >= Live.heartbeats[s].sequence]_vars

\* A balancer configuration without a version takes the next one, so that a
\* copy of it is a new change once its result has been forgotten.
Unversioned(c) == c.kind = "UpdateAutoBalancerConfig" /\ c.config.version = 0

\* A copy of a command that has had its effect changes nothing when it
\* arrives, however late: as long as its result is remembered, and also after
\* it has been forgotten, save for an unversioned balancer configuration.
AppliedAtMostOnce ==
    \A x \in late :
      x.effective =>
        \/ Apply(sm, x.command).state.live = Live
        \/ Unversioned(x.command) /\ x.command.mutation \notin DOMAIN sm.dedup

\* No interleaving of moves by several administrators, of splits, lost answers
\* and lost proposals leaves a Region with fewer voters than it was created
\* with: an epoch read before another change is refused.
VotersOf(id) == {p \in DOMAIN group[id].role : group[id].role[p] = "Voter"}
ReplicasKept ==
    \A id \in DOMAIN group \cap DOMAIN Started.live.regions :
      Cardinality(VotersOf(id)) >= Len(Started.live.regions[id].peers)

\* Under one leader whose calls are answered, and with clocks that agree, every
\* operator ends, cancelled or not, wherever a hook fails.
OperatorsEnd ==
    plan.stable /\ plan.ahead = {} => []<>(ActiveOperators(View) = {})

\* The same with whatever clocks: a cancellation is carried out.
CancelledOperatorsEnd == plan.stable => []<>(ActiveOperators(View) = {})
=============================================================================
