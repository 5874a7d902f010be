-------------------------------- MODULE Tso --------------------------------
(***************************************************************************)
(* The timestamp oracle: a Raft group whose log holds inclusive range high *)
(* waters (TsoConsensusNode), the durable floor each member keeps in a     *)
(* file (PersistentTimestampOracle), and the client that looks for the     *)
(* leader (RemoteTimestampOracle).                                         *)
(*                                                                         *)
(* A leader answers Next from the range it has reserved, without a lock    *)
(* and without a log entry, as long as its fence is valid: a quorum        *)
(* confirmed it as leader less than FenceDuration ago.  Only when the      *)
(* range or the fence is used up does a call take slowPathMutex_.  The     *)
(* loads and stores of the lock-free path are steps of their own.          *)
(*                                                                         *)
(* The Raft group is abstract: one committed log, and the uncommitted      *)
(* proposals of which a new leader keeps some.                             *)
(* The steady clock is seen through timers that run down; wall clocks may  *)
(* show anything in the walls.                                              *)
(***************************************************************************)
EXTENDS Integers, Sequences, FiniteSets, FiniteSetsExt

CONSTANTS
    Nodes,               \* the members of the group
    Caller,              \* the client processes, each with one call at a time
    RangeSize,           \* timestamps per reservation
    LogicalSize,         \* timestamps per millisecond of physical time
    MaxLag,              \* how far a range may trail the wall clock
    FenceDuration,       \* the length of a fence
    MinElectionTimeout,  \* how long a leader contact blocks a vote
    SnapshotEvery,       \* a snapshot every so many entries
    Plans,               \* the workloads: which calls may come one after the other, how
                         \* many terms and restarts there may be, what wall clocks may
                         \* show, how many calls there are at once, and which members
                         \* may take their time between looking at their election
                         \* timers and their elections
    StaleObserves,       \* whether an Observe that returns when its fence has run out
                         \* counts among those whose timestamps were observed
    MaxTimestamp         \* the exhaustion sentinel, 2^64 - 1 in the code

Timestamps == 1 .. (MaxTimestamp - 1)

\* Observe takes no notice of zero and refuses the greatest number.
Request ==
    [op : {"Next", "Peek"}, arg : {0}] \cup [op : {"Observe"}, arg : Timestamps]

ASSUME TsoAssumption ==
    /\ IsFiniteSet(Nodes) /\ Nodes # {}
    /\ RangeSize \in Nat \ {0}
    /\ FenceDuration \in Nat /\ MinElectionTimeout \in Nat
    /\ FenceDuration < MinElectionTimeout
    /\ MaxTimestamp \in Nat
    /\ LogicalSize \in Nat \ {0} /\ MaxLag \in Nat /\ SnapshotEvery \in Nat \ {0}
    /\ StaleObserves \in BOOLEAN
    /\ Plans \subseteq
         [calls : Seq(SUBSET Request), terms : Nat, restarts : Nat, walls : SUBSET Nat,
          late : SUBSET Nodes, atOnce : Nat]

NoTerm == 0

VARIABLES
    raft,       \* of a member: m_currentTerm, m_status = Leader, for how long
                \* its contact with a leader still blocks a vote, and whether
                \* its ticker has found the election timer expired and is yet
                \* to call doElection
    log,        \* the committed high waters, and the terms they were committed in
    proposals,  \* the proposals not committed
    tail,       \* those of them in the log of the newest leader, in order
    readyTerm,  \* the newest term that has a committed entry
    member,     \* the fields of a TsoConsensusNode and of its durable floor
    call,       \* where a call is, and its local variables
    plan,       \* what is left of the workload
    issued, bound, floor \* what the callers have seen (TimestampService)

groupVars == <<raft, log, proposals, tail, readyTerm>>
seenVars == <<issued, bound, floor>>
vars == <<groupVars, member, call, plan, seenVars>>

NewMember ==
    [segmentLimit |-> 0, nextTs |-> 1, applied |-> 0, committedHighWater |-> 0,
     nextTimestamp |-> 0, activeRangeHighWater |-> 0, activeRangeTerm |-> NoTerm,
     fenceTerm |-> NoTerm, fenceLeft |-> 0,
     snapshot |-> [index |-> 0, highWater |-> 0]]

\* The local variables of a call are dropped where the code leaves their scope.
NoRound == [term |-> NoTerm, left |-> 0, readIndex |-> 0, acks |-> {}]
NoCall ==
    [at |-> "idle", op |-> "None", arg |-> 0, node |-> "none",
     locked |-> FALSE, reserving |-> FALSE, try |-> 0, term |-> NoTerm, high |-> 0, value |-> 0,
     proposalTerm |-> NoTerm, read |-> NoRound]

Init ==
    /\ raft = [n \in Nodes |->
                 [term |-> NoTerm, leading |-> FALSE, contact |-> 0, due |-> FALSE]]
    /\ log = <<>> /\ proposals = {} /\ tail = <<>>
    /\ readyTerm = NoTerm
    /\ member = [n \in Nodes |-> NewMember]
    /\ call = [c \in Caller |-> NoCall]
    /\ plan \in Plans
    /\ issued = {} /\ bound = 0
    /\ floor = [c \in Caller |-> -1]

----------------------------------------------------------------------------
(* The Raft group.                                                         *)

Less(timer) == IF timer = 0 THEN 0 ELSE timer - 1

\* All timers run down; one that matters is still running.
Tick ==
    /\ raft' = [n \in Nodes |-> [raft[n] EXCEPT !.contact = Less(@)]]
    /\ member' = [n \in Nodes |-> [member[n] EXCEPT !.fenceLeft = Less(@)]]
    /\ call' = [c \in Caller |-> [call[c] EXCEPT !.read.left = Less(@)]]
    /\ <<raft, member, call>>' # <<raft, member, call>>
    /\ UNCHANGED <<log, proposals, tail, readyTerm, plan, seenVars>>

IsQuorum(Q) == 2 * Cardinality(Q) > Cardinality(Nodes)
Quorums == {Q \in SUBSET Nodes : IsQuorum(Q) /\ \A v \in Q : ~IsQuorum(Q \ {v})}
NewestTerm == Max({raft[n].term : n \in Nodes})

\* The election timer has run out, and a vote for a higher term is not refused.
Electable(v) == raft[v].contact = 0

\* electionTimeOutTicker finds the timer expired and lets go of the lock.
Expire(n) ==
    /\ n \in plan.late
    /\ ~raft[n].leading /\ ~raft[n].due
    /\ Electable(n)
    /\ raft' = [raft EXCEPT ![n].due = TRUE]
    /\ UNCHANGED <<log, proposals, tail, readyTerm, member, call, plan, seenVars>>

\* A leader proposes above all that its log holds.
InOrder(kept) ==
    {s \in [1 .. Cardinality(kept) -> kept] :
        /\ Range(s) = kept
        /\ \A i, j \in DOMAIN s : i < j => s[i].highWater <= s[j].highWater}

\* doElection, and the votes.  It does not look at the timer again: the candidate
\* may have heard of a leader since its ticker did.  The voters may not have.  A
\* leader votes too: the contact it remembers is one with a leader before it.
\* Votes beyond a quorum would only bring more members to the new term.
Elect(n, Q) ==
    /\ n \in Q
    /\ ~raft[n].leading
    /\ Electable(n) \/ raft[n].due
    /\ \A v \in Q \ {n} : Electable(v)
    /\ NewestTerm < plan.terms
    /\ raft' = [v \in Nodes |->
                  IF v \in Q
                  THEN [raft[v] EXCEPT !.term = NewestTerm + 1, !.leading = (v = n),
                                       !.due = @ /\ v # n]
                  ELSE raft[v]]
    /\ \E kept \in SUBSET proposals : tail' \in InOrder(kept)
    /\ UNCHANGED <<log, proposals, readyTerm, member, call, plan, seenVars>>

\* An AppendEntries or a snapshot of leader l reaches m.
Hear(l, m) ==
    /\ raft[l].leading /\ m # l
    /\ raft[m].term <= raft[l].term
    /\ raft' = [raft EXCEPT ![m].term = raft[l].term, ![m].leading = FALSE,
                            ![m].contact = MinElectionTimeout]
    /\ UNCHANGED <<log, proposals, tail, readyTerm, plan, seenVars>>

\* A heartbeat outside of a read round.  One of the term m is in already would
\* only put an election off.
Heartbeat(l, m) ==
    /\ raft[m].term # raft[l].term
    /\ Hear(l, m)
    /\ UNCHANGED <<member, call>>

\* A quorum holds the tail of the newest leader, its no-op included.
Commit ==
    /\ \E n \in Nodes : raft[n].leading /\ raft[n].term = NewestTerm
    /\ readyTerm # NewestTerm \/ tail # <<>>
    /\ readyTerm' = NewestTerm
    /\ log' = log \o [i \in 1 .. Len(tail) |->
                       [highWater |-> tail[i].highWater, term |-> NewestTerm]]
    /\ proposals' = proposals \ Range(tail)
    /\ tail' = <<>>
    /\ UNCHANGED <<raft, member, call, plan, seenVars>>

----------------------------------------------------------------------------
(* The fields of a member.                                                 *)

Compose(physical) == physical * LogicalSize
TooOld(ts, wall) == wall - (ts \div LogicalSize) > MaxLag

\* The durable floor.  With segments of one timestamp the new limit is the
\* value asked for.
LocalPeek(m, wall) == Max({m.nextTs, Compose(wall)})
LocalObserve(m, ts) ==
    IF ts < m.nextTs
    THEN m
    ELSE [m EXCEPT !.segmentLimit = Max({@, ts + 1}), !.nextTs = ts + 1]

DropRange(m) == [m EXCEPT !.activeRangeTerm = NoTerm]

ValidFenceTerm(n) ==
    IF /\ member[n].fenceLeft > 0
       /\ raft[n].leading
       /\ raft[n].term = member[n].fenceTerm
    THEN member[n].fenceTerm
    ELSE NoTerm

\* The loads of TryAllocateFast(t) before the swap.
InRange(n, t) == t # NoTerm /\ member[n].activeRangeTerm = t
LoadRange(k, t, try) ==
    [k EXCEPT !.at = "swap", !.try = try, !.term = t,
              !.high = member[k.node].activeRangeHighWater]

----------------------------------------------------------------------------
(* The client.                                                             *)

\* The calls one of which comes next in the workload.
Upcoming == IF plan.calls = <<>> THEN {} ELSE Head(plan.calls)

\* A client sends a request to an endpoint.  The next endpoint it tries after a
\* failure is a call of its own, which has to return at least as much.  Next
\* starts without the lock.
Invoke(c, n, op, arg) ==
    /\ call[c].at = "idle"
    /\ Cardinality({d \in Caller : call[d].at # "idle"}) < plan.atOnce
    /\ plan' = [plan EXCEPT !.calls = Tail(@)]
    /\ LET k == [NoCall EXCEPT !.at = "lock", !.op = op, !.arg = arg, !.node = n, !.try = 1]
           t == ValidFenceTerm(n)
       IN call' = [call EXCEPT ![c] =
                     IF op = "Next" /\ InRange(n, t) THEN LoadRange(k, t, 1) ELSE k]
    /\ floor' = [floor EXCEPT ![c] = bound]
    /\ UNCHANGED <<groupVars, member, issued, bound>>

Finish(c) ==
    /\ call' = [call EXCEPT ![c] = NoCall]
    /\ floor' = [floor EXCEPT ![c] = -1]

\* The call throws, or returns a value that only reads.  A reply that is lost
\* is a timestamp fewer in the hands of the callers.
Fail(c) == Finish(c) /\ UNCHANGED <<issued, bound>>

ReturnTimestamp(c) ==
    /\ Finish(c)
    /\ issued' = issued \cup {call[c].value}
    /\ bound' = Max({bound, call[c].value})

ReturnObserved(c) ==
    /\ Finish(c)
    /\ bound' = Max({bound, call[c].arg})
    /\ UNCHANGED issued

----------------------------------------------------------------------------
(* Next, Peek and Observe in a member.                                     *)

Node(c) == call[c].node
M(c) == member[Node(c)]
SetMember(c, m) == member' = [member EXCEPT ![Node(c)] = m]

\* The call goes on at step `at'.
Goto(c, at) == call' = [call EXCEPT ![c].at = at] /\ UNCHANGED seenVars

EnterReserve(c) ==
    /\ call' = [call EXCEPT ![c].at = "require", ![c].reserving = TRUE]
    /\ UNCHANGED seenVars

\* TryAllocateFast returns 0: to the slow path, to a reservation, or an error.
Missed(c) ==
    \/ call[c].try = 1 /\ Goto(c, "lock")
    \/ call[c].try = 2 /\ EnterReserve(c)
    \/ call[c].try = 3 /\ Fail(c)

Available(ts, high) == ts < MaxTimestamp /\ ts <= high

\* The compare-and-swap that succeeds, on the value it finds.
Swap(c) ==
    /\ call[c].at = "swap"
    /\ \E wall \in plan.walls :
         LET ts == M(c).nextTimestamp IN
         IF ~TooOld(ts, wall) /\ Available(ts, call[c].high)
         THEN /\ SetMember(c, [M(c) EXCEPT !.nextTimestamp = ts + 1])
              /\ call' = [call EXCEPT ![c].at = "check", ![c].value = ts]
              /\ UNCHANGED seenVars
         ELSE Missed(c) /\ UNCHANGED member

FenceHolds(c) == ValidFenceTerm(Node(c)) = call[c].term

\* The check after the swap; a timestamp whose call fails here is a gap.
Check(c) ==
    /\ call[c].at = "check"
    /\ IF FenceHolds(c) THEN ReturnTimestamp(c) ELSE Fail(c)
    /\ UNCHANGED member

\* Where a call goes with a valid fence: on with ReserveRangeLocked, which
\* insists on the term it began with, or to the operation.
HaveFence(c, t) ==
    LET k == [call[c] EXCEPT !.locked = TRUE, !.try = 2, !.read = NoRound] IN
    \/ /\ k.reserving /\ k.term # t
       /\ Fail(c)
    \/ /\ ~(k.reserving /\ k.term # t)
       /\ call' = [call EXCEPT ![c] =
            IF k.reserving THEN [k EXCEPT !.at = "propose"]
            ELSE IF k.op # "Next" THEN [k EXCEPT !.at = k.op, !.term = t]
            ELSE IF InRange(k.node, t) THEN LoadRange(k, t, 2)
            ELSE [k EXCEPT !.at = "require", !.reserving = TRUE, !.term = t]]
       /\ UNCHANGED seenVars

NoFence(c) == SetMember(c, [M(c) EXCEPT !.fenceLeft = 0])

\* ReadIndex starts its round once the term has a committed entry.
Round(c, left) ==
    IF readyTerm = raft[Node(c)].term
    THEN [term |-> readyTerm, left |-> left, readIndex |-> Len(log), acks |-> {Node(c)}]
    ELSE [NoRound EXCEPT !.left = left]

\* slowPathMutex_ is taken, or held already; then RequireValidFenceLocked up to
\* the call of ReadIndex.
Require(c) ==
    /\ \/ call[c].at = "require"
       \/ /\ call[c].at = "lock"
          /\ ~\E d \in Caller : call[d].locked /\ Node(d) = Node(c)
    /\ LET n == Node(c) IN
       \/ /\ ValidFenceTerm(n) # NoTerm
          /\ HaveFence(c, ValidFenceTerm(n))
          /\ UNCHANGED member
       \/ /\ ValidFenceTerm(n) = NoTerm /\ raft[n].leading
          /\ call' = [call EXCEPT ![c].at = "round", ![c].locked = TRUE,
                                  ![c].read = Round(c, FenceDuration)]
          /\ UNCHANGED <<member, seenVars>>
       \/ /\ ValidFenceTerm(n) = NoTerm /\ ~raft[n].leading
          /\ NoFence(c)
          /\ Fail(c)

\* A round that had to wait for the first committed entry of the term.
StartRound(c) ==
    /\ call[c].at = "round"
    /\ call[c].read.term = NoTerm
    /\ raft[Node(c)].leading
    /\ readyTerm = raft[Node(c)].term
    /\ call' = [call EXCEPT ![c].read = Round(c, @.left)]
    /\ UNCHANGED <<member, seenVars>>

Acknowledge(c, m) ==
    /\ call[c].at = "round"
    /\ m \notin call[c].read.acks /\ ~IsQuorum(call[c].read.acks)
    /\ raft[Node(c)].term = call[c].read.term
    /\ Hear(Node(c), m)
    /\ call' = [call EXCEPT ![c].read.acks = @ \cup {m}]
    /\ UNCHANGED member

\* Mutant of FenceLeft: the fence is measured from the end of the round.
FenceLeftLate(c) == FenceDuration

\* The fence is measured from before the round.
FenceLeft(c) == call[c].read.left

BarrierApplied(c) == M(c).applied >= call[c].read.readIndex

\* A quorum has answered, the read index is applied and the term has not changed.
FinishRound(c) ==
    /\ call[c].at = "round"
    /\ IsQuorum(call[c].read.acks)
    /\ raft[Node(c)].leading /\ raft[Node(c)].term = call[c].read.term
    /\ BarrierApplied(c)
    /\ IF FenceLeft(c) > 0
       THEN /\ SetMember(c, [M(c) EXCEPT !.fenceTerm = call[c].read.term,
                                         !.fenceLeft = FenceLeft(c)])
            /\ HaveFence(c, call[c].read.term)
       ELSE NoFence(c) /\ Fail(c)

\* The round is aborted by a step-down, or it runs into its deadline.
FailRound(c) ==
    /\ call[c].at = "round"
    /\ NoFence(c)
    /\ Fail(c)

\* Mutant of RangeStart: the clock is trusted to be ahead of all ranges.
RangeStartAtClock(c, wall) == Max({Compose(wall), call[c].arg + 1})

RangeStart(c, wall) ==
    Max({M(c).committedHighWater + 1, LocalPeek(M(c), wall), Compose(wall), call[c].arg + 1})

\* The highest number is kept back as the sign of exhaustion.
Fits(first) == first < MaxTimestamp - (RangeSize - 1)

\* The floor is made durable and the range is proposed.  The call throws when
\* the timestamps are used up or the file cannot be written.
Propose(c) ==
    /\ call[c].at = "propose"
    /\ \E wall \in plan.walls :
         LET n == Node(c)
             first == RangeStart(c, wall)
             high == first + (RangeSize - 1)
             p == [node |-> n, highWater |-> high]
         IN \/ /\ Fail(c)
               /\ UNCHANGED <<member, proposals, tail>>
            \/ /\ Fits(first)
               /\ SetMember(c, LocalObserve(M(c), high))
               /\ IF raft[n].leading
                  THEN /\ proposals' = proposals \cup {p}
                       /\ tail' = IF raft[n].term = NewestTerm THEN Append(tail, p) ELSE tail
                       /\ call' = [call EXCEPT ![c].at = "wait", ![c].value = first,
                                               ![c].high = high,
                                               ![c].proposalTerm = raft[n].term]
                       /\ UNCHANGED seenVars
                  ELSE Fail(c) /\ UNCHANGED <<proposals, tail>>
    /\ UNCHANGED <<raft, log, readyTerm>>

\* The proposal is rejected, or no result comes in time.
FailProposal(c) == call[c].at = "wait" /\ Fail(c) /\ UNCHANGED member

\* The range is committed: the three stores that publish it are separate steps.
PublishNext(c) ==
    /\ call[c].at = "committed"
    /\ IF /\ call[c].proposalTerm = call[c].term
          /\ ValidFenceTerm(Node(c)) = call[c].proposalTerm
       THEN /\ SetMember(c, [M(c) EXCEPT !.nextTimestamp = call[c].value])
            /\ Goto(c, "publish high")
       ELSE SetMember(c, DropRange(M(c))) /\ Fail(c)

PublishHighWater(c) ==
    /\ call[c].at = "publish high"
    /\ SetMember(c, [M(c) EXCEPT !.activeRangeHighWater = call[c].high])
    /\ Goto(c, "publish term")

\* The last store; Observe is done, Next goes back to the fast path.
PublishTerm(c) ==
    /\ call[c].at = "publish term"
    /\ SetMember(c, [M(c) EXCEPT !.activeRangeTerm = call[c].proposalTerm])
    /\ IF call[c].op = "Observe" THEN ReturnObserved(c) ELSE Goto(c, "reserved")

\* The last try of the fast path.
Reserved(c) ==
    /\ call[c].at = "reserved"
    /\ LET t == ValidFenceTerm(Node(c)) IN
         \/ t = NoTerm /\ Fail(c)
         \/ t # NoTerm /\ ~InRange(Node(c), t) /\ Fail(c)
         \/ /\ t # NoTerm /\ InRange(Node(c), t)
            /\ call' = [call EXCEPT ![c] = LoadRange(@, t, 3)]
            /\ UNCHANGED seenVars
    /\ UNCHANGED member

\* Mutant of PeekValue: the active range counts although it is used up.
PeekValueStale(n, t, wall) == member[n].nextTimestamp

PeekValue(n, t, wall) ==
    LET m == member[n] IN
    IF /\ m.activeRangeTerm = t
       /\ m.nextTimestamp <= m.activeRangeHighWater
       /\ ~TooOld(m.nextTimestamp, wall)
    THEN m.nextTimestamp
    ELSE Max({m.committedHighWater + 1, LocalPeek(m, wall)})

Peek(c) == call[c].at = "Peek" /\ Fail(c) /\ UNCHANGED member

\* Observe under the fence it has found: inside the active range, below the
\* committed high water, or above it, where a new range is reserved.  The fence
\* is not looked at again below the committed high water: the call returns even
\* if it has run out, and StaleObserves says whether its timestamp then counts
\* as observed, which is all that ReturnObserved and Fail differ in.
Observe(c) ==
    /\ call[c].at = "Observe"
    /\ LET ts == call[c].arg
           m == LocalObserve(M(c), ts)
           inRange == m.activeRangeTerm = call[c].term /\ ts < m.activeRangeHighWater
       IN \/ /\ inRange
             /\ SetMember(c, [m EXCEPT !.nextTimestamp = Max({@, ts + 1})])
             /\ IF FenceHolds(c) THEN ReturnObserved(c) ELSE Fail(c)
          \/ /\ ~inRange
             /\ ts <= m.committedHighWater
             /\ SetMember(c, DropRange(m))
             /\ IF FenceHolds(c) \/ StaleObserves THEN ReturnObserved(c) ELSE Fail(c)
          \/ /\ ~inRange
             /\ ts > m.committedHighWater
             /\ SetMember(c, m)
             /\ EnterReserve(c)

----------------------------------------------------------------------------
(* The apply loop and restarts.                                            *)

Waits(c, n, high) == call[c].at = "wait" /\ Node(c) = n /\ call[c].high = high

\* ApplyHighWater, with the snapshot it takes every so many entries.
Applied(m, index, high) ==
    LET greatest == Max({m.committedHighWater, high}) IN
    [LocalObserve(m, high) EXCEPT
        !.applied = index,
        !.committedHighWater = greatest,
        !.snapshot = IF index % SnapshotEvery = 0
                     THEN [index |-> index, highWater |-> greatest]
                     ELSE @]

InProgress(n) == \E c \in Caller : call[c].at # "idle" /\ Node(c) = n

\* A member learns of a committed entry from the leader that committed it or
\* from a later one.  A follower applies too.  When it does makes no difference
\* as long as it serves no call, so that it is left until then.
Apply(n) ==
    /\ raft[n].leading \/ InProgress(n)
    /\ member[n].applied < Len(log)
    /\ LET index == member[n].applied + 1
           high == log[index].highWater
       IN /\ log[index].term <= raft[n].term
          /\ member' = [member EXCEPT ![n] = Applied(@, index, high)]
          /\ call' = [c \in Caller |->
                        IF Waits(c, n, high) THEN [call[c] EXCEPT !.at = "committed"]
                        ELSE call[c]]
    /\ UNCHANGED <<groupVars, plan, seenVars>>

\* A member that lags behind the log of the leader gets its snapshot.
InstallSnapshot(l, n) ==
    /\ member[n].applied < member[l].snapshot.index
    /\ Hear(l, n)
    /\ LET s == member[l].snapshot
           m == DropRange(LocalObserve(member[n], s.highWater))
       IN member' = [member EXCEPT ![n] =
                       [m EXCEPT !.snapshot = s, !.applied = s.index,
                                 !.committedHighWater = Max({@, s.highWater})]]
    /\ UNCHANGED call

\* A member stops, as it does when an entry cannot be applied, and comes back
\* with its files.
Restart(n, wall) ==
    /\ plan.restarts > 0
    /\ plan' = [plan EXCEPT !.restarts = @ - 1]
    /\ raft' = [raft EXCEPT ![n].leading = FALSE, ![n].contact = MinElectionTimeout,
                            ![n].due = FALSE]
    /\ member' = [member EXCEPT ![n] =
                    [NewMember EXCEPT !.segmentLimit = member[n].segmentLimit,
                                      !.nextTs = Max({member[n].segmentLimit + 1, Compose(wall)}),
                                      !.snapshot = member[n].snapshot,
                                      !.applied = member[n].snapshot.index,
                                      !.committedHighWater = member[n].snapshot.highWater]]
    /\ LET lost == {c \in Caller : call[c].at # "idle" /\ Node(c) = n} IN
         /\ call' = [c \in Caller |-> IF c \in lost THEN NoCall ELSE call[c]]
         /\ floor' = [c \in Caller |-> IF c \in lost THEN -1 ELSE floor[c]]
    /\ UNCHANGED <<log, proposals, tail, readyTerm, issued, bound>>

----------------------------------------------------------------------------
\* The steps of a call in a member that leave the group alone.
Serve(c) ==
    /\ \/ Swap(c) \/ Check(c) \/ Require(c) \/ StartRound(c) \/ FinishRound(c) \/ FailRound(c)
       \/ FailProposal(c)
       \/ PublishNext(c) \/ PublishHighWater(c) \/ PublishTerm(c) \/ Reserved(c)
       \/ Peek(c) \/ Observe(c)
    /\ UNCHANGED <<groupVars, plan>>

Next ==
    \/ Tick
    \/ \E n \in Nodes : Expire(n) \/ \E Q \in Quorums : Elect(n, Q)
    \/ \E l, m \in Nodes : Heartbeat(l, m) \/ InstallSnapshot(l, m)
    \/ Commit
    \/ \E n \in Nodes : Apply(n) \/ \E wall \in plan.walls : Restart(n, wall)
    \/ \E c \in Caller :
         \/ \E n \in Nodes :
              \/ \E k \in Upcoming : Invoke(c, n, k.op, k.arg)
              \/ Acknowledge(c, n)
         \/ Serve(c)
         \/ Propose(c) /\ UNCHANGED <<plan>>

Spec == Init /\ [][Next]_vars

----------------------------------------------------------------------------
\* The lease argument in Raft::RequestVote: because a voter refuses a higher
\* term until the minimum election timeout after it heard of a leader, the
\* fences of two members are never valid at once.  Not so when a member may be
\* late with its election.
AtMostOneFence ==
    \A m, n \in Nodes :
        ValidFenceTerm(m) # NoTerm /\ ValidFenceTerm(n) # NoTerm => m = n

\* Whatever a candidate does, the voters keep the lease: while the fence of a
\* leader is valid, another member leads a newer term only if it is one of those
\* that confirmed the fence, so that it acknowledged the leader after its own
\* election timer had expired.  What it remembers of that contact outlasts the fence.
RivalConfirmedFence ==
    \A m, n \in Nodes :
        ValidFenceTerm(m) # NoTerm /\ raft[n].leading /\ raft[n].term > raft[m].term
            => raft[n].contact > member[m].fenceLeft

\* The calls to a member that another one has replaced.  Under a valid fence there
\* are none, but for a late election.
Outdated == {c \in Caller : call[c].at # "idle" /\ raft[Node(c)].term < NewestTerm}

\* Under a valid fence Peek returns more than any timestamp a caller has had
\* from Next or handed to Observe, unless the member has been replaced.
PeekAhead ==
    \A c \in Caller \ Outdated, wall \in plan.walls :
        call[c].at = "Peek" /\ FenceHolds(c)
            => PeekValue(Node(c), call[c].term, wall) > bound

Oracle ==
    INSTANCE TimestampService
        WITH issued <- issued, bound <- bound, floor <- floor, excused <- Outdated

\* The group implements the oracle interface: a timestamp is given once, and
\* exceeds every timestamp returned, or observed under a valid fence, before its
\* call began, unless the member that gives it has been replaced.
ImplementsOracle == Oracle!ServiceSpec
=============================================================================
