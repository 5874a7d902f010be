----------------------- MODULE MetadataStateMachine -----------------------
(***************************************************************************)
(* The replicated metadata state (MetadataStateMachine): the catalog of    *)
(* Regions with their epochs and peers, the Stores, the high waters of     *)
(* identifiers, splits and moves in progress, Store heartbeats, the        *)
(* balancer's configuration and its operators, and the results of recent   *)
(* mutations.                                                              *)
(*                                                                         *)
(* A state is a record; Apply(s, c) gives the state and the result after   *)
(* command c, as every member computes them from the log.  A handler that  *)
(* throws before it assigns leaves the state alone; PublishLocked, which   *)
(* validates the catalog once more, throws after the assignments: the      *)
(* state then has them, the published view does not.                       *)
(*                                                                         *)
(* Keys are 0 (the empty lower bound) to End (the empty upper bound).      *)
(***************************************************************************)
EXTENDS Integers, Sequences, FiniteSets, TLC, FiniteSetsExt, SequencesExt, Functions

CONSTANTS
    End,            \* the upper bound of the keyspace
    DedupRetention  \* how many mutation results are kept

NoValue == [none |-> TRUE]
NoSplit == [key |-> 0]

(* The phases of an operator.                                              *)
Terminal == {"SUCCEEDED", "CANCELLED", "FAILED"}
IsTerminal(phase) == phase \in Terminal

ValidTransition(from, to) ==
    \/ from = to
    \/ from = "PENDING" /\ to \in {"DISPATCHING", "CANCELLING", "CANCELLED", "FAILED"}
    \/ from = "DISPATCHING" /\ to \in {"WAITING", "SUCCEEDED", "CANCELLING", "FAILED"}
    \/ from = "WAITING" /\ to \in {"DISPATCHING", "SUCCEEDED", "CANCELLING", "FAILED"}
    \/ from = "CANCELLING" /\ to \in {"CANCELLED", "FAILED"}

DefaultAutoBalancerConfig ==
    [enabled |-> TRUE, paused |-> FALSE, version |-> 1, replicationFactor |-> 3,
     splitConsecutiveWindows |-> 3,
     maximumActiveOperators |-> 1, maximumActivePerStore |-> 1]

ValidConfig(config) ==
    /\ config.maximumActiveOperators > 0
    /\ config.maximumActivePerStore \in 1 .. config.maximumActiveOperators

NewStateMachine ==
    LET view == [revision |-> 0, regions |-> <<>>, stores |-> <<>>,
                 high |-> [region |-> 0, peer |-> 0, store |-> 0],
                 migrations |-> <<>>, heartbeats |-> <<>>,
                 config |-> DefaultAutoBalancerConfig,
                 operators |-> <<>>, active |-> <<>>]
    IN [live |-> view, published |-> view, dedup |-> <<>>, dedupOrder |-> <<>>]

----------------------------------------------------------------------------
(* Region descriptors.                                                     *)

SameEpoch(region, epoch) == region.version = epoch.version /\ region.conf = epoch.conf
EpochOf(region) == [version |-> region.version, conf |-> region.conf]
EpochOlder(e, f) == e.version < f.version \/ (e.version = f.version /\ e.conf < f.conf)
Hosts(region, store) == \E p \in ToSet(region.peers) : p.store = store
SamePeers(r, q) ==
    /\ Len(r.peers) = Len(q.peers)
    /\ \A i \in DOMAIN r.peers :
         \A f \in {"peer", "store", "addr"} : r.peers[i][f] = q.peers[i][f]

\* The identifiers of regions, in the order of their ranges.
InOrder(regions) ==
    SetToSortSeq(DOMAIN regions, LAMBDA a, b : regions[a].start < regions[b].start)

Contiguous(regions) ==
    LET ids == InOrder(regions)
    IN \A i \in 2 .. Len(ids) : regions[ids[i - 1]].end = regions[ids[i]].start

CoveredInterval(regions) ==
    LET ids == InOrder(regions) IN <<regions[Head(ids)].start, regions[Last(ids)].end>>

PeersOf(regions) == UNION {{id} \X DOMAIN regions[id].peers : id \in DOMAIN regions}
PeerAt(regions, x) == regions[x[1]].peers[x[2]]

\* What the constructor of RegionCatalog accepts.
RegionCatalog(regions) ==
    /\ DOMAIN regions # {}
    /\ \A id \in DOMAIN regions :
         LET r == regions[id]
         IN /\ r.peers # <<>>
            /\ r.start < r.end
            /\ r.version > 0 /\ r.conf > 0
            /\ \E p \in ToSet(r.peers) : p.peer = r.leader
    /\ Contiguous(regions)
    /\ CoveredInterval(regions) = <<0, End>>
    /\ \A x, y \in PeersOf(regions) :
         LET p == PeerAt(regions, x)
             q == PeerAt(regions, y)
         IN /\ x # y => p.peer # q.peer
            /\ p.store = q.store => p.addr = q.addr

MatchesStores(regions, stores) ==
    \A x \in PeersOf(regions) :
      LET p == PeerAt(regions, x)
      IN p.store \in DOMAIN stores /\ stores[p.store] = p.addr

Largest(floor, S) == Max(S \cup {floor})

RecomputeHighWater(v) ==
    [region |-> Largest(v.high.region, DOMAIN v.regions),
     peer |-> Largest(v.high.peer, {PeerAt(v.regions, x).peer : x \in PeersOf(v.regions)}),
     store |-> Largest(v.high.store,
                       DOMAIN v.stores \cup {PeerAt(v.regions, x).store : x \in PeersOf(v.regions)})]

----------------------------------------------------------------------------
(* Results.  A handler maps the live state and a command to an outcome:    *)
(* the live state after it, whether it was published, and the result.      *)

Result(error, v, value) == [error |-> error, revision |-> v.revision, value |-> value]

Error(v, code) == [live |-> v, publish |-> FALSE, result |-> Result(code, v, NoValue)]

\* PublishLocked: the view is validated after the state has been assigned.
Publish(v, value) ==
    IF v.regions = <<>> \/ RegionCatalog(v.regions)
    THEN [live |-> v, publish |-> TRUE, result |-> Result("OK", v, value)]
    ELSE Error(v, "INVALID_ARGUMENT")

\* The preconditions are checked in order; the first that fails decides.
FirstFailing(checks) == SelectInSeq(checks, LAMBDA check : ~check[1])
Checked(v, checks, outcome) ==
    LET i == FirstFailing(checks) IN IF i = 0 THEN outcome ELSE Error(v, checks[i][2])

----------------------------------------------------------------------------
(* The catalog.                                                            *)

BootstrapLocked(v, c) ==
    LET next == [v EXCEPT !.revision = 1, !.regions = c.regions, !.stores = c.stores]
    IN IF v.revision # 0 THEN Error(v, "ALREADY_BOOTSTRAPPED")
       ELSE IF \/ c.expectedRevision # 0
               \/ ~RegionCatalog(c.regions)
               \/ ~MatchesStores(c.regions, c.stores)
       THEN Error(v, "INVALID_ARGUMENT")
       ELSE Publish([next EXCEPT !.high = RecomputeHighWater(next)], NoValue)

\* The revision a command was decided on is still the current one.
AtRevisionUnchecked(v, c) == TRUE
AtRevision(v, c) == c.expectedRevision = v.revision

\* A Region that is replaced under its own identifier.
EpochAdvanced(old, new) ==
    LET rangeChanged == <<old.start, old.end>> # <<new.start, new.end>>
    IN /\ IF rangeChanged THEN new.version > old.version ELSE new.version >= old.version
       /\ IF SamePeers(old, new) THEN new.conf >= old.conf ELSE new.conf > old.conf

ReplacementAdvances(removed, added) ==
    \A id \in DOMAIN added :
      IF id \in DOMAIN removed
      THEN EpochAdvanced(removed[id], added[id])
      ELSE \A old \in DOMAIN removed : added[id].version > removed[old].version

ReplaceRegionsLocked(v, c) ==
    LET removed == Restrict(v.regions, c.remove \cap DOMAIN v.regions)
        retained == Restrict(v.regions, DOMAIN v.regions \ c.remove)
        next == [v EXCEPT !.revision = @ + 1, !.regions = c.add @@ retained]
    IN IF v.revision = 0 THEN Error(v, "INVALID_ARGUMENT")
       ELSE IF ~AtRevision(v, c) THEN Error(v, "REVISION_MISMATCH")
       ELSE IF \/ c.remove = {} \/ c.add = <<>>
               \/ ~(c.remove \subseteq DOMAIN v.regions)
               \/ ~Contiguous(removed) \/ ~Contiguous(c.add)
               \/ CoveredInterval(removed) # CoveredInterval(c.add)
               \/ ~ReplacementAdvances(removed, c.add)
               \/ DOMAIN c.add \cap DOMAIN retained # {}
               \/ ~RegionCatalog(next.regions)
       THEN Error(v, "INVALID_ARGUMENT")
       ELSE Publish([next EXCEPT !.high = RecomputeHighWater(next)], NoValue)

AllocateIdsLocked(v, c) ==
    IF v.revision = 0 THEN Error(v, "INVALID_ARGUMENT")
    ELSE IF ~AtRevision(v, c) THEN Error(v, "REVISION_MISMATCH")
    ELSE IF c.count = 0 THEN Error(v, "INVALID_ARGUMENT")
    ELSE Publish([v EXCEPT !.high[c.space] = @ + c.count, !.revision = @ + 1],
                 [first |-> v.high[c.space] + 1, count |-> c.count])

\* The precondition of the topology commands.
Current(v, c) == v.revision # 0 /\ AtRevision(v, c)

PutStoreLocked(v, c) ==
    IF ~Current(v, c) THEN Error(v, "REVISION_MISMATCH")
    ELSE Publish([v EXCEPT !.stores = (c.store :> c.addr) @@ @,
                           !.high.store = Largest(@, {c.store}),
                           !.revision = @ + 1], NoValue)

----------------------------------------------------------------------------
(* Splits: PrepareSplit allocates the child, CommitSplit publishes it.     *)

\* A child has a peer on each Store of its parent, under new identifiers.
ChildOfReused(v, parent, key) ==
    LET peers == [i \in DOMAIN parent.peers |->
                    [parent.peers[i] EXCEPT !.peer = v.high.peer + i - 1]]
    IN [parent EXCEPT !.start = key, !.version = 1, !.conf = 1,
                      !.peers = peers, !.leader = peers[1].peer, !.split = NoSplit]
ChildOf(v, parent, key) ==
    LET peers == [i \in DOMAIN parent.peers |->
                    [parent.peers[i] EXCEPT !.peer = v.high.peer + i]]
    IN [parent EXCEPT !.start = key, !.version = 1, !.conf = 1,
                      !.peers = peers, !.leader = peers[1].peer, !.split = NoSplit]

PrepareSplitLocked(v, c) ==
    LET parent == v.regions[c.region]
        child == ChildOf(v, parent, c.key)
        id == v.high.region + 1
        next == [v EXCEPT !.revision = @ + 1,
                          !.regions[c.region].split =
                            [key |-> c.key, id |-> id, child |-> child],
                          !.high.region = id,
                          !.high.peer = @ + Len(parent.peers)]
    IN IF v.revision = 0 THEN Error(v, "INVALID_ARGUMENT")
       ELSE IF ~AtRevision(v, c) THEN Error(v, "REVISION_MISMATCH")
       ELSE IF c.region \notin DOMAIN v.regions THEN Error(v, "INVALID_ARGUMENT")
       ELSE IF parent.split # NoSplit THEN Error(v, "INVALID_ARGUMENT")
       ELSE IF ~SameEpoch(parent, c.epoch) THEN Error(v, "REVISION_MISMATCH")
       ELSE IF ~(parent.start < c.key /\ c.key < parent.end) THEN Error(v, "INVALID_ARGUMENT")
       ELSE Publish([next EXCEPT !.high = RecomputeHighWater(next)],
                    next.regions[c.region])

CommitSplitLocked(v, c) ==
    LET parent == v.regions[c.region]
        pending == parent.split
        shrunken == [parent EXCEPT !.split = NoSplit, !.end = pending.key, !.version = @ + 1]
        child == [pending.child EXCEPT !.end = parent.end]
        next == [v EXCEPT !.revision = @ + 1,
                          !.regions = (pending.id :> child) @@ (c.region :> shrunken) @@ @]
    IN IF ~Current(v, c) THEN Error(v, "REVISION_MISMATCH")
       ELSE IF c.region \notin DOMAIN v.regions \/ parent.split = NoSplit
       THEN Error(v, "INVALID_ARGUMENT")
       ELSE IF ~RegionCatalog(next.regions) THEN Error(v, "INVALID_ARGUMENT")
       ELSE Publish([next EXCEPT !.high = RecomputeHighWater(next)],
                    [parent |-> shrunken, id |-> pending.id, child |-> child])

\* The acknowledgment of a node is checked and leaves nothing behind.
AckSplitLocked(v, c) ==
    IF ~Current(v, c) THEN Error(v, "REVISION_MISMATCH")
    ELSE IF ~(c.children \subseteq DOMAIN v.regions) THEN Error(v, "INVALID_ARGUMENT")
    ELSE [live |-> v, publish |-> FALSE, result |-> Result("OK", v, NoValue)]

----------------------------------------------------------------------------
(* Moves of a peer: one at a time per Region.                              *)

PeerOnStore(region, store) ==
    SelectInSeq(region.peers, LAMBDA p : p.store = store)

PrepareMovePeerLocked(v, c) ==
    LET region == v.regions[c.region]
        target == [peer |-> v.high.peer + 1, store |-> c.to, addr |-> v.stores[c.to],
                   learner |-> TRUE]
        migration == [source |-> region.peers[PeerOnStore(region, c.from)].peer,
                      target |-> target]
        mounted == [region EXCEPT !.conf = @ + 1, !.peers = Append(@, target)]
    IN IF ~Current(v, c) THEN Error(v, "REVISION_MISMATCH")
       ELSE IF c.region \notin DOMAIN v.regions \/ c.region \in DOMAIN v.migrations
       THEN Error(v, "INVALID_ARGUMENT")
       ELSE IF ~SameEpoch(region, c.epoch) THEN Error(v, "REVISION_MISMATCH")
       ELSE IF \/ ~Hosts(region, c.from) \/ Hosts(region, c.to)
               \/ c.to \notin DOMAIN v.stores
       THEN Error(v, "INVALID_ARGUMENT")
       ELSE Publish([v EXCEPT !.high.peer = @ + 1, !.revision = @ + 1,
                              !.migrations = (c.region :> migration) @@ @],
                    [migration |-> migration, mounted |-> mounted])

InFlight(v, c) ==
    c.region \in DOMAIN v.migrations /\ v.migrations[c.region].target.peer = c.peer

Without(f, x) == Restrict(f, DOMAIN f \ {x})

\* The target takes the place of the source, and its lead; the three changes
\* of the membership have each advanced the configuration epoch.
CommitMovePeerLocked(v, c) ==
    LET region == v.regions[c.region]
        migration == v.migrations[c.region]
        at == SelectInSeq(region.peers, LAMBDA p : p.peer = migration.source)
        moved == [region EXCEPT
                    !.peers[at] = [migration.target EXCEPT !.learner = FALSE],
                    !.leader = IF @ = migration.source THEN migration.target.peer ELSE @,
                    !.conf = @ + 3]
    IN IF ~Current(v, c) THEN Error(v, "REVISION_MISMATCH")
       ELSE IF ~InFlight(v, c) \/ c.region \notin DOMAIN v.regions
       THEN Error(v, "INVALID_ARGUMENT")
       ELSE IF ~SameEpoch(region, c.epoch) THEN Error(v, "REVISION_MISMATCH")
       ELSE IF at = 0 THEN Error(v, "INVALID_ARGUMENT")
       ELSE Publish([v EXCEPT !.regions[c.region] = moved, !.revision = @ + 1,
                              !.migrations = Without(@, c.region)], moved)

CancelMovePeerLocked(v, c) ==
    IF ~Current(v, c) THEN Error(v, "REVISION_MISMATCH")
    ELSE IF ~InFlight(v, c) THEN Error(v, "INVALID_ARGUMENT")
    ELSE Publish([v EXCEPT !.migrations = Without(@, c.region), !.revision = @ + 1], NoValue)

----------------------------------------------------------------------------
(* Heartbeats and the balancer's configuration.  They do not move the      *)
(* revision.                                                               *)

\* An unset revision (0) is not compared.
RevisionFits(v, c) == c.expectedRevision \in {0, v.revision}

\* The report of a Region with an epoch older than the one known is ignored.
MergedRegions(old, new) ==
    [id \in DOMAIN new |->
       IF id \in DOMAIN old /\ EpochOlder(new[id].epoch, old[id].epoch) THEN old[id] ELSE new[id]]

\* A heartbeat that is not newer than the one known.
SupersededNever(v, h) == FALSE
Superseded(v, h) ==
    h.store \in DOMAIN v.heartbeats /\ h.sequence <= v.heartbeats[h.store].sequence

ReportStoreHeartbeatLocked(v, c) ==
    LET h == c.heartbeat
        known == h.store \in DOMAIN v.heartbeats
        merged == IF known
                  THEN [h EXCEPT !.regions = MergedRegions(v.heartbeats[h.store].regions, @)]
                  ELSE h
    IN IF v.revision = 0 THEN Error(v, "INVALID_ARGUMENT")
       ELSE IF ~RevisionFits(v, c) THEN Error(v, "REVISION_MISMATCH")
       ELSE IF h.sequence = 0 \/ h.store \notin DOMAIN v.stores THEN Error(v, "INVALID_ARGUMENT")
       ELSE IF Superseded(v, h)
       THEN [live |-> v, publish |-> FALSE,
             result |-> Result("OK", v, v.heartbeats[h.store])]
       ELSE Publish([v EXCEPT !.heartbeats = (h.store :> merged) @@ @], merged)

UpdateAutoBalancerConfigLocked(v, c) ==
    LET config == IF c.config.version = 0
                  THEN [c.config EXCEPT !.version = v.config.version + 1]
                  ELSE c.config
    IN IF v.revision = 0 THEN Error(v, "INVALID_ARGUMENT")
       ELSE IF ~RevisionFits(v, c) THEN Error(v, "REVISION_MISMATCH")
       ELSE IF config.version <= v.config.version \/ ~ValidConfig(config)
       THEN Error(v, "INVALID_ARGUMENT")
       ELSE Publish([v EXCEPT !.config = config], config)

----------------------------------------------------------------------------
(* Operators.                                                              *)

ActiveOperators(v) == {o \in DOMAIN v.operators : ~IsTerminal(v.operators[o].phase)}
StoresOf(op) == {op.source, op.target} \ {0}
ActiveOnStore(v, store) ==
    Cardinality({o \in ActiveOperators(v) : store \in StoresOf(v.operators[o])})

SafeDestination(v, op) ==
    LET region == v.regions[op.region]
    IN /\ Hosts(region, op.source) /\ ~Hosts(region, op.target)
       /\ op.target \in DOMAIN v.heartbeats
       /\ v.heartbeats[op.target].expires > op.createdAt
       /\ ~v.heartbeats[op.target].full

CreateSchedulingOperatorLocked(v, c) ==
    LET op == c.operator
        known == c.id \in DOMAIN v.operators
    IN Checked(v,
         << <<Current(v, c), "REVISION_MISMATCH">>,
            <<op.sourceRevision = v.revision /\ op.phase = "PENDING", "INVALID_ARGUMENT">>,
            <<known => /\ v.operators[c.id].region = op.region
                       /\ v.operators[c.id].type = op.type, "CONFLICT">>,
            <<known \/ (v.config.enabled /\ ~v.config.paused), "CONFLICT">>,
            <<known \/ op.region \notin DOMAIN v.active, "CONFLICT">>,
            <<known \/ op.region \in DOMAIN v.regions, "INVALID_ARGUMENT">>,
            <<known \/ SameEpoch(v.regions[op.region], op.epoch), "REVISION_MISMATCH">>,
            <<known \/ Cardinality(DOMAIN v.active) < v.config.maximumActiveOperators,
              "CONFLICT">>,
            <<known \/ op.type # "MOVE_PEER" \/ op.source # op.target, "INVALID_ARGUMENT">>,
            <<known \/ op.type # "MOVE_PEER" \/ SafeDestination(v, op), "CONFLICT">>,
            <<known \/ \A s \in StoresOf(op) :
                         ActiveOnStore(v, s) < v.config.maximumActivePerStore, "CONFLICT">> >>,
         IF known
         THEN [live |-> v, publish |-> FALSE, result |-> Result("OK", v, v.operators[c.id])]
         ELSE Publish([v EXCEPT !.operators = (c.id :> op) @@ @,
                                !.active = (op.region :> c.id) @@ @], op))

WithPhase(v, id, op) ==
    [v EXCEPT !.operators[id] = op,
              !.active = IF IsTerminal(op.phase) THEN Without(@, op.region) ELSE @]

UpdateSchedulingOperatorLocked(v, c) ==
    LET op == v.operators[c.id]
        next == [op EXCEPT !.phase = c.phase, !.attempts = c.attempts,
                           !.irreversible = @ \/ c.irreversible, !.updatedAt = c.updatedAt]
    IN IF ~RevisionFits(v, c) THEN Error(v, "REVISION_MISMATCH")
       ELSE IF c.id \notin DOMAIN v.operators THEN Error(v, "NOT_FOUND")
       ELSE IF \/ op.phase # c.expectedPhase
               \/ ~ValidTransition(op.phase, c.phase)
               \/ c.attempts < op.attempts \/ c.updatedAt < op.updatedAt
       THEN Error(v, "CONFLICT")
       ELSE Publish(WithPhase(v, c.id, next), next)

CancelSchedulingOperatorLocked(v, c) ==
    LET op == v.operators[c.id]
        next == [op EXCEPT !.cancelRequested = TRUE, !.updatedAt = Largest(@, {c.updatedAt}),
                           !.phase = IF @ = "PENDING" THEN "CANCELLED" ELSE "CANCELLING"]
    IN IF ~RevisionFits(v, c) THEN Error(v, "REVISION_MISMATCH")
       ELSE IF c.id \notin DOMAIN v.operators THEN Error(v, "NOT_FOUND")
       ELSE IF IsTerminal(op.phase)
       THEN [live |-> v, publish |-> FALSE, result |-> Result("OK", v, op)]
       ELSE IF op.irreversible THEN Error(v, "CONFLICT")
       ELSE Publish(WithPhase(v, c.id, next), next)

----------------------------------------------------------------------------
(* Apply, snapshots and recovery.                                          *)

ApplyLocked(v, c) ==
    CASE c.kind = "Bootstrap" -> BootstrapLocked(v, c)
      [] c.kind = "ReplaceRegions" -> ReplaceRegionsLocked(v, c)
      [] c.kind = "AllocateIds" -> AllocateIdsLocked(v, c)
      [] c.kind = "PutStore" -> PutStoreLocked(v, c)
      [] c.kind = "PrepareSplit" -> PrepareSplitLocked(v, c)
      [] c.kind = "CommitSplit" -> CommitSplitLocked(v, c)
      [] c.kind = "AckSplit" -> AckSplitLocked(v, c)
      [] c.kind = "PrepareMovePeer" -> PrepareMovePeerLocked(v, c)
      [] c.kind = "CommitMovePeer" -> CommitMovePeerLocked(v, c)
      [] c.kind = "CancelMovePeer" -> CancelMovePeerLocked(v, c)
      [] c.kind = "ReportStoreHeartbeat" -> ReportStoreHeartbeatLocked(v, c)
      [] c.kind = "UpdateAutoBalancerConfig" -> UpdateAutoBalancerConfigLocked(v, c)
      [] c.kind = "CreateSchedulingOperator" -> CreateSchedulingOperatorLocked(v, c)
      [] c.kind = "UpdateSchedulingOperator" -> UpdateSchedulingOperatorLocked(v, c)
      [] c.kind = "CancelSchedulingOperator" -> CancelSchedulingOperatorLocked(v, c)

\* RecordResultLocked: the result is kept, an error as well; the oldest goes.
Recorded(s, mutation, result) ==
    LET order == Append(s.dedupOrder, mutation)
        kept == IF Len(order) > DedupRetention THEN Tail(order) ELSE order
    IN [s EXCEPT !.dedup = Restrict((mutation :> result) @@ @, ToSet(kept)),
                 !.dedupOrder = kept]

\* The state and the result once command c has had outcome o.
Settled(s, c, o) ==
    LET next == [s EXCEPT !.live = o.live, !.published = IF o.publish THEN o.live ELSE @]
    IN [state |-> Recorded(next, c.mutation, o.result), result |-> o.result]

\* The state and the result after command c.
Apply(s, c) ==
    IF c.mutation \in DOMAIN s.dedup
    THEN [state |-> s, result |-> s.dedup[c.mutation]]
    ELSE Settled(s, c, ApplyLocked(s.live, c))

\* The answered mutations a snapshot holds.
MutationsSucceeded(s) ==
    LET order == SelectSeq(s.dedupOrder, LAMBDA m : s.dedup[m].error = "OK")
    IN [i \in DOMAIN order |-> [mutation |-> order[i], result |-> s.dedup[order[i]]]]
Mutations(s) ==
    [i \in DOMAIN s.dedupOrder |->
       [mutation |-> s.dedupOrder[i], result |-> s.dedup[s.dedupOrder[i]]]]

\* What a snapshot holds: the index of active operators is not in it.
Snapshot(s) == [live |-> [s.live EXCEPT !.active = <<>>], mutations |-> Mutations(s)]

\* What Restore accepts; a member that refuses its snapshot stops.
Restorable(snap) ==
    LET v == snap.live
    IN /\ IF v.revision = 0 THEN v.regions = <<>> ELSE RegionCatalog(v.regions)
       /\ MatchesStores(v.regions, v.stores)
       /\ DOMAIN v.heartbeats \subseteq DOMAIN v.stores
       /\ ValidConfig(v.config)
       /\ \A o \in DOMAIN v.operators : v.operators[o].sourceRevision <= v.revision
       /\ \A o, p \in ActiveOperators(v) :
            v.operators[o].region = v.operators[p].region => o = p

Restore(snap) ==
    LET v == snap.live
        active == ActiveOperators(v)
        index == [r \in {v.operators[o].region : o \in active} |->
                    CHOOSE o \in active : v.operators[o].region = r]
        live == [v EXCEPT !.active = index, !.high = RecomputeHighWater(v)]
    IN [live |-> live, published |-> live,
        dedup |-> [m \in {snap.mutations[i].mutation : i \in DOMAIN snap.mutations} |->
                     LET i == SelectInSeq(snap.mutations, LAMBDA x : x.mutation = m)
                     IN snap.mutations[i].result],
        dedupOrder |-> [i \in DOMAIN snap.mutations |-> snap.mutations[i].mutation]]
=============================================================================
