------------------------ MODULE AutoBalancerPlanner ------------------------
(***************************************************************************)
(* The planner of the balancer: from one view of the metadata it derives   *)
(* the topology operations worth doing, replica repairs first, then        *)
(* splits, then moves that even out the load of the Stores.                *)
(*                                                                         *)
(* Ratios are in percent, scores in hundredths of a percent.               *)
(***************************************************************************)
EXTENDS MetadataStateMachine

CONSTANTS
    MaximumDiskUsed,       \* percent of a disk above which a Store takes no peer
    ImbalanceThreshold,    \* difference of scores worth a move
    SplitSize,             \* size of a Region worth a split
    SplitRequests          \* requests of a Region worth a split

Fresh(view, now, s) ==
    s \in DOMAIN view.heartbeats /\ view.heartbeats[s].expires > now

Eligible(view, now, s) ==
    /\ Fresh(view, now, s)
    /\ ~view.heartbeats[s].full
    /\ view.heartbeats[s].used <= MaximumDiskUsed

RegionCount(heartbeat) == Cardinality(DOMAIN heartbeat.regions)

\* More than half of the score is the disk, the rest Regions and requests.
Score(view, s) ==
    LET reports == {view.heartbeats[x] : x \in DOMAIN view.heartbeats}
        maxRegions == Largest(1, {RegionCount(h) : h \in reports})
        maxRequests == Largest(1, {h.requests : h \in reports})
        h == view.heartbeats[s]
    IN IF s \notin DOMAIN view.heartbeats THEN 0
       ELSE 55 * h.used + (2500 * RegionCount(h)) \div maxRegions
                        + (2000 * h.requests) \div maxRequests

BaseOperator(view, id, now) ==
    [region |-> id, sourceRevision |-> view.revision, epoch |-> EpochOf(view.regions[id]),
     phase |-> "PENDING", createdAt |-> now, updatedAt |-> now, attempts |-> 0, irreversible |-> FALSE,
     cancelRequested |-> FALSE]

OperatorId(view, id, kind, source, target) ==
    <<"auto", view.revision, id, kind, source, target>>

MovePlan(view, id, now, kind, source, target, benefit) ==
    [id |-> OperatorId(view, id, kind, source, target), reason |-> kind, benefit |-> benefit,
     operator |-> BaseOperator(view, id, now)
                    @@ [type |-> "MOVE_PEER", source |-> source, target |-> target]]

SplitPlan(view, id, now, generation) ==
    [id |-> OperatorId(view, id, "split", 0, generation), reason |-> "split", benefit |-> 10000,
     operator |-> BaseOperator(view, id, now)
                    @@ [type |-> "SPLIT_REGION", source |-> 0, target |-> 0]]

\* A Region with topology work in progress is left alone by every pass.
Busy(view, id) ==
    \/ id \in DOMAIN view.active
    \/ id \in DOMAIN view.migrations
    \/ view.regions[id].split # NoSplit

(* A pass carries the plans so far, the operations of each Store and the   *)
(* budget that is left.                                                    *)
Start(view) ==
    LET active == Cardinality(ActiveOperators(view))
        limit == view.config.maximumActiveOperators
    IN [plans |-> <<>>, byStore |-> [s \in DOMAIN view.stores |-> ActiveOnStore(view, s)],
        budget |-> IF active >= limit THEN 0 ELSE limit - active]

Planned(pass) == {pass.plans[i].operator.region : i \in DOMAIN pass.plans}

WithPlan(pass, plan) ==
    [plans |-> Append(pass.plans, plan),
     byStore |-> [s \in DOMAIN pass.byStore |->
                    pass.byStore[s] + (IF s \in StoresOf(plan.operator) THEN 1 ELSE 0)],
     budget |-> pass.budget - 1]

UnderLimit(view, pass, s) == pass.byStore[s] < view.config.maximumActivePerStore

\* The Store with the lowest (highest) score, the lower identifier first.
Lowest(view, S) ==
    CHOOSE s \in S : \A x \in S \ {s} :
      Score(view, s) < Score(view, x) \/ (Score(view, s) = Score(view, x) /\ s < x)
Highest(view, S) ==
    CHOOSE s \in S : \A x \in S \ {s} :
      Score(view, s) > Score(view, x) \/ (Score(view, s) = Score(view, x) /\ s < x)

Targets(view, now, pass, id) ==
    {s \in DOMAIN view.stores : /\ Eligible(view, now, s)
                                /\ ~Hosts(view.regions[id], s)
                                /\ UnderLimit(view, pass, s)}

Voters(region) == {p.store : p \in {q \in ToSet(region.peers) : ~q.learner}}

RepairStep(view, now, pass, id) ==
    LET voters == Voters(view.regions[id])
        live == {s \in voters : Fresh(view, now, s)}
        targets == Targets(view, now, pass, id)
        source == Min(voters \ live)
    IN IF \/ pass.budget = 0 \/ Busy(view, id)
          \/ Cardinality(live) >= view.config.replicationFactor
          \/ live = voters \/ targets = {}
       THEN pass
       ELSE WithPlan(pass, MovePlan(view, id, now, "repair", source,
                                    Lowest(view, targets), 10000))

\* The observation a split is decided on: that of the first peer that leads,
\* otherwise the largest.
Observation(view, now, id) ==
    LET peers == view.regions[id].peers
        reports == [i \in DOMAIN peers |->
                      LET s == peers[i].store
                      IN IF Fresh(view, now, s) /\ id \in DOMAIN view.heartbeats[s].regions
                         THEN view.heartbeats[s].regions[id]
                         ELSE NoValue]
        known == SelectSeq(reports, LAMBDA r : r # NoValue)
        Better(best, r) ==
          IF best = NoValue THEN r
          ELSE IF best.leader THEN best
          ELSE IF r.leader \/ r.bytes > best.bytes THEN r ELSE best
    IN FoldLeft(Better, NoValue, known)

AboveThreshold(view, now, id) ==
    LET best == Observation(view, now, id)
    IN /\ best # NoValue
       /\ best.generation # 0
       /\ best.bytes >= SplitSize \/ best.requests >= SplitRequests

\* How many evaluations in a row a Region has been above the threshold.
Evidence(view, now, windows) ==
    [id \in DOMAIN view.regions |->
       IF AboveThreshold(view, now, id)
       THEN (IF id \in DOMAIN windows THEN windows[id] ELSE 0) + 1
       ELSE 0]

CoolingDown(cooldown, now, id) == id \in DOMAIN cooldown /\ cooldown[id] > now

SplitStep(view, now, windows, cooldown, pass, id) ==
    IF \/ ~AboveThreshold(view, now, id)
       \/ Evidence(view, now, windows)[id] < view.config.splitConsecutiveWindows
       \/ pass.budget = 0 \/ id \in Planned(pass) \/ Busy(view, id)
       \/ CoolingDown(cooldown, now, id)
    THEN pass
    ELSE WithPlan(pass, SplitPlan(view, id, now, Observation(view, now, id).generation))

BalanceStep(view, now, cooldown, pass) ==
    LET open == {s \in DOMAIN view.stores : Fresh(view, now, s) /\ UnderLimit(view, pass, s)}
        able == {s \in open : Eligible(view, now, s)}
        source == Highest(view, open)
        target == Lowest(view, able)
        benefit == Score(view, source) - Score(view, target)
        movable == SelectSeq(InOrder(view.regions),
                             LAMBDA id : /\ id \notin Planned(pass) /\ ~Busy(view, id)
                                         /\ Hosts(view.regions[id], source)
                                         /\ ~Hosts(view.regions[id], target)
                                         /\ ~CoolingDown(cooldown, now, id))
    IN IF \/ pass.budget = 0 \/ open = {} \/ able = {} \/ source = target
          \/ benefit <= ImbalanceThreshold \/ movable = <<>>
       THEN pass
       ELSE WithPlan(pass, MovePlan(view, Head(movable), now, "balance", source, target, benefit))

Rank(reason) == CHOOSE i \in 1 .. 3 : <<"repair", "split", "balance">>[i] = reason

\* The order of the plans: by reason, then by benefit, then by identifiers.
Before(a, b) ==
    LET key(p) == <<Rank(p.reason), -p.benefit, p.operator.region, p.operator.source,
                    p.operator.target>>
        i == CHOOSE i \in 1 .. 6 :
               /\ i = 6 \/ key(a)[i] # key(b)[i]
               /\ \A j \in 1 .. i - 1 : key(a)[j] = key(b)[j]
    IN i < 6 /\ key(a)[i] < key(b)[i]

\* The ranked plans for a view.
Plan(view, now, windows, cooldown) ==
    LET ids == InOrder(view.regions)
        repaired == FoldLeft(LAMBDA pass, id : RepairStep(view, now, pass, id), Start(view), ids)
        split == FoldLeft(LAMBDA pass, id : SplitStep(view, now, windows, cooldown, pass, id),
                          repaired, ids)
        balanced == FoldLeft(LAMBDA pass, i : BalanceStep(view, now, cooldown, pass),
                             split, [i \in 1 .. split.budget |-> i])
    IN IF view.regions = <<>> \/ ~view.config.enabled \/ view.config.paused
       THEN <<>>
       ELSE SortSeq(balanced.plans, Before)
=============================================================================
