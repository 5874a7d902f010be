-------------------------------- MODULE Raft --------------------------------
(***************************************************************************)
(* One Raft group of a Region (src/raft/raft.cpp) with the files its peers *)
(* keep (Persister), and the part of the Region peer that consumes the     *)
(* group: the apply loop, the restore of snapshots, log garbage collection,*)
(* membership changes and linearizable reads (src/raft/region_peer.cpp).   *)
(*                                                                         *)
(* Every handler runs under m_mtx, so it is one action; what the code does *)
(* between two critical sections (an RPC, a push to the apply channel, the *)
(* serialization of a snapshot) separates actions.  A replication worker   *)
(* has one call outstanding per follower.  A call may be lost, its answer  *)
(* may be lost, and a delayed call may run after its caller gave it up.    *)
(* A vote that the leader-contact rule of RequestVote refuses leaves the   *)
(* voter as it was and grants nothing: it is a call that is not answered.  *)
(***************************************************************************)
EXTENDS Persister, FiniteSets, FiniteSetsExt, SequencesExt

CONSTANTS
    Server,      \* peers of the group, positive integers
    Reader,      \* handlers that serve one linearizable read each
    Workloads    \* the scenarios: see Init

VARIABLES
    plan,        \* the scenario of this behaviour
    left,        \* what remains of the scenario's budgets
    node,        \* [Server -> the fields of class Raft]
    file,        \* [Server -> the files of its Persister]
    machine,     \* [Server -> the Region state machine]
    chan,        \* [Server -> applyChan]
    batch,       \* [Server -> messages the applier took and has not pushed]
    gc,          \* [Server -> the snapshot RaftLogGcLoop captured]
    net,         \* [Server -> [Server -> the replication worker's call]]
    ballot,      \* [Server -> [Server -> the RequestVote call]]
    late,        \* calls whose caller gave up, still to be executed
    read,        \* [Reader -> a linearizable read]
    elected,     \* history: who won which term
    chosen,      \* history: the committed entries
    regressed    \* history: peers restored to a snapshot older than their state

vars == <<plan, left, node, file, machine, chan, batch, gc, net, ballot, late, read,
          elected, chosen, regressed>>

None == 0
NoCall == [pc |-> "none"]
NoRound == [ctx |-> 0]
NoGc == [index |-> 0]
Noop == [kind |-> "noop"]
PutOf(c) == [kind |-> "put", id |-> c]
ConfOf(change, peer, version, id) ==
    [kind |-> "conf", change |-> change, peer |-> peer, version |-> version, id |-> id]

-----------------------------------------------------------------------------
(* The log.  n.log holds the entries after the snapshot boundary. *)

getLastLogIndex(n) == n.snapIdx + Len(n.log)

getLastLogTerm(n) == IF n.log = <<>> THEN n.snapTerm ELSE Last(n.log).term

getLogTermFromLogIndex(n, i) == IF i = n.snapIdx THEN n.snapTerm ELSE n.log[i - n.snapIdx].term

EntryAt(n, i) == n.log[i - n.snapIdx]

\* mutant: the longer log wins, whatever its last term
UpToDateByLength(n, index, term) == index >= getLastLogIndex(n)

UpToDate(n, index, term) ==
    \/ term > getLastLogTerm(n)
    \/ term = getLastLogTerm(n) /\ index >= getLastLogIndex(n)

Voters(n) == {p \in Server : n.roles[p] = "Voter"}

getQuorum(n) == (Cardinality(Voters(n)) \div 2) + 1

\* mutant: a new leader answers reads at the commit index it inherited
hasCommittedEntryInAnyTerm(n) == n.commit \in n.snapIdx .. getLastLogIndex(n)

hasCommittedEntryInCurrentTerm(n) ==
    /\ n.commit \in n.snapIdx .. getLastLogIndex(n)
    /\ getLogTermFromLogIndex(n, n.commit) = n.term

(* leaderUpdateCommitIndex scans down from the end of the log.  A replicated *)
(* index below the snapshot boundary fails the assertion of                  *)
(* getLogTermFromLogIndex, unless an entry of the term above it commits.     *)
Replicated(n) ==
    {i \in n.commit + 1 .. getLastLogIndex(n) :
        Cardinality({p \in Voters(n) : p = n.me \/ n.match[p] >= i}) >= getQuorum(n)}

Committable(n) ==
    {i \in Replicated(n) : i >= n.snapIdx /\ getLogTermFromLogIndex(n, i) = n.term}

CommitAsserts(n) == Committable(n) = {} /\ \E i \in Replicated(n) : i < n.snapIdx

leaderUpdateCommitIndex(n) ==
    IF Committable(n) = {} THEN n ELSE [n EXCEPT !.commit = Max(Committable(n))]

-----------------------------------------------------------------------------
(* Roles. *)

abortReadIndex(n) == [n EXCEPT !.pending = {}, !.round = NoRound]

(* A higher term invalidates the role, the vote and the pending reads. *)
StepDown(n, term) ==
    [abortReadIndex(n) EXCEPT !.term = term, !.voted = None, !.status = "Follower"]

(* A call of a leader: AppendEntries and InstallSnapshot up to the checks of *)
(* the prefix.                                                               *)
Followed(n, term) ==
    LET m == IF term > n.term THEN StepDown(n, term) ELSE n
    IN  IF m.status = "Leader" THEN [abortReadIndex(m) EXCEPT !.status = "Follower"]
        ELSE [m EXCEPT !.status = "Follower"]

(* The winner of an election appends a no-op of its term. *)
BecomeLeader(n) ==
    [n EXCEPT !.status = "Leader", !.votes = 0,
              !.next = [p \in Server |-> getLastLogIndex(n) + 1],
              !.match = [p \in Server |-> 0],
              !.told = [p \in Server |-> 0],
              !.log = Append(@, [term |-> n.term, cmd |-> Noop])]

(* completeReadRoundIfQuorum: the voters that acknowledged the round's context. *)
completeReadRoundIfQuorum(n) ==
    IF n.round # NoRound /\ Cardinality(n.round.acks \cap Voters(n)) >= getQuorum(n)
    THEN [n EXCEPT !.round = NoRound,
                   !.results = @ \cup {[reader |-> r, index |-> n.round.index, term |-> n.term] :
                                       r \in n.round.waiters}]
    ELSE n

(* A read round starts when none is active, and takes every waiting read. *)
WithRound(n) ==
    IF n.status = "Leader" /\ n.round = NoRound /\ n.pending # {}
       /\ hasCommittedEntryInCurrentTerm(n)
    THEN completeReadRoundIfQuorum(
            [n EXCEPT !.ctx = @ + 1, !.pending = {},
                      !.round = [ctx |-> n.ctx + 1, index |-> n.commit,
                                 acks |-> {n.me}, waiters |-> n.pending]])
    ELSE n

removeReadWaiter(n, r) ==
    LET m == [n EXCEPT !.pending = @ \ {r}]
    IN  IF m.round = NoRound THEN m
        ELSE IF m.round.waiters \subseteq {r} THEN [m EXCEPT !.round = NoRound]
        ELSE [m EXCEPT !.round.waiters = @ \ {r}]

-----------------------------------------------------------------------------
(* What the actions have in common. *)

(* History: whatever a peer commits first is chosen at that index. *)
Choose(n) ==
    chosen' = chosen \o [i \in 1 .. (Max({n.commit, Len(chosen)}) - Len(chosen)) |->
                            EntryAt(n, Len(chosen) + i)]

(* A peer that wins writes down its term. *)
Elect(n) == elected' = elected \cup {[term |-> n.term, server |-> n.me]}

Spend(what) == left[what] > 0 /\ left' = [left EXCEPT ![what] = @ - 1]

(* init and RegionPeer::Start: the Raft state comes from the file, the rest  *)
(* of it and the queues start over, membership comes from the descriptor the *)
(* node was given, the snapshot is restored when there is one.  The engine's *)
(* data survive; what it restores replaces them.  Its own calls are gone, and *)
(* the call it died in fails.                                                *)
Booted(s, f) ==
    LET p == ReadPersist(f) IN
    [me |-> s, term |-> p.term, voted |-> p.voted, status |-> "Follower", votes |-> 0,
     log |-> p.log, snapIdx |-> p.snapIdx, snapTerm |-> p.snapTerm,
     commit |-> 0, applied |-> p.snapIdx,
     next |-> [q \in Server |-> 0], match |-> [q \in Server |-> 0],
     told |-> [q \in Server |-> 0],
     roles |-> plan.roles[s], removed |-> FALSE, queue |-> <<>>, confQueued |-> FALSE,
     pending |-> {}, round |-> NoRound, ctx |-> 0, results |-> {}]

Restored(m, f) ==
    IF f.data = NoGc
    THEN [m EXCEPT !.index = 0, !.skip = 0, !.lastConf = 0, !.version = 0, !.nextConf = 1]
    ELSE [m EXCEPT !.index = f.snapIdx, !.skip = f.snapIdx, !.content = f.data.content,
                   !.lastConf = f.data.lastConf, !.version = 0, !.nextConf = 1]

Reboot(s, f, failed) ==
    /\ file' = [file EXCEPT ![s] = f]
    /\ node' = [node EXCEPT ![s] = Booted(s, f)]
    /\ machine' = [machine EXCEPT ![s] = Restored(@, f)]
    /\ chan' = [chan EXCEPT ![s] = <<>>]
    /\ batch' = [batch EXCEPT ![s] = <<>>]
    /\ gc' = [gc EXCEPT ![s] = NoGc]
    /\ net' = [l \in Server |-> [p \in Server |->
                  IF l = s \/ <<l, p>> = failed THEN NoCall ELSE net[l][p]]]
    /\ ballot' = [ballot EXCEPT ![s] = [p \in Server |-> NoCall]]

-----------------------------------------------------------------------------
(* Elections. *)

(* doElection, on the election timer or Campaign. *)
doElection(s) ==
    LET n == node[s]
        c == [abortReadIndex(n) EXCEPT !.status = "Candidate", !.term = @ + 1,
                                       !.voted = s, !.votes = 1]
        w == leaderUpdateCommitIndex(BecomeLeader(c))
    IN  /\ n.status # "Leader" /\ ~n.removed /\ n.roles[s] # "Learner"
        /\ s \in plan.candidates /\ Spend("elections")
        /\ IF getQuorum(c) = 1
           THEN /\ node' = [node EXCEPT ![s] = w]
                /\ file' = [file EXCEPT ![s] = SaveRaftState(@, w)]
                /\ Elect(w) /\ Choose(w)
                /\ UNCHANGED ballot
           ELSE /\ node' = [node EXCEPT ![s] = c]
                /\ file' = [file EXCEPT ![s] = SaveRaftState(@, c)]
                /\ ballot' = [ballot EXCEPT ![s] = [p \in Server |->
                      IF p # s /\ p \in Voters(c)
                      THEN [pc |-> "asked", term |-> c.term, last |-> getLastLogIndex(c),
                            lastTerm |-> getLastLogTerm(c)]
                      ELSE NoCall]]
                /\ UNCHANGED <<elected, chosen>>
        /\ UNCHANGED <<plan, machine, chan, batch, gc, net, late, read, regressed>>

\* mutant: the vote already given in the term is not looked at
GrantsAgain(n, c, q) == UpToDate(n, q.last, q.lastTerm)

Grants(n, c, q) == UpToDate(n, q.last, q.lastTerm) /\ n.voted \in {None, c}

(* RequestVote at voter v; whatever it answers it saves its state.  A refusal *)
(* that tells the candidate no higher term changes nothing there.             *)
RequestVote(c, v) ==
    LET q == ballot[c][v]
        n == node[v]
        refused == n.removed \/ n.roles[v] = "Learner" \/ n.roles[c] # "Voter"
                   \/ q.term < n.term
        m == IF q.term > n.term THEN StepDown(n, q.term) ELSE n
        granted == ~refused /\ Grants(m, c, q)
        r == IF refused THEN n ELSE IF granted THEN [m EXCEPT !.voted = c] ELSE m
    IN  /\ q.pc = "asked" /\ {c, v} \notin plan.cut
        /\ node' = [node EXCEPT ![v] = r]
        /\ file' = [file EXCEPT ![v] = SaveRaftState(@, r)]
        /\ ballot' = [ballot EXCEPT ![c][v] =
              IF granted \/ r.term > q.term
              THEN [pc |-> "answered", term |-> r.term, granted |-> granted] ELSE NoCall]
        /\ UNCHANGED <<plan, left, machine, chan, batch, gc, net, late, read, elected,
                       chosen, regressed>>

(* sendRequestVote once it has an answer. *)
VoteAnswered(c, v) ==
    LET q == ballot[c][v]
        n == node[c]
        m == [n EXCEPT !.votes = @ + 1]
        won == q.term = n.term /\ q.granted /\ m.votes >= getQuorum(n)
        r == IF q.term > n.term THEN StepDown(n, q.term)
             ELSE IF q.term < n.term \/ ~q.granted THEN n
             ELSE IF won THEN BecomeLeader(m) ELSE m
    IN  /\ q.pc = "answered"
        /\ ballot' = [ballot EXCEPT ![c][v] = NoCall]
        /\ node' = [node EXCEPT ![c] = r]
        /\ file' = IF q.term > n.term \/ won
                   THEN [file EXCEPT ![c] = SaveRaftState(@, r)] ELSE file
        /\ IF won THEN Elect(r) ELSE UNCHANGED elected
        /\ UNCHANGED <<plan, left, machine, chan, batch, gc, net, late, read, chosen, regressed>>

-----------------------------------------------------------------------------
(* Replication. *)

(* replicationWorker: the call for follower p, from the leader's latest      *)
(* state.  A follower behind the snapshot boundary is handed to              *)
(* leaderSendSnapShot, which reads term and snapshot later.  Only calls that *)
(* tell the follower something are made: told is the commit index last sent, *)
(* news to a follower that applies.                                          *)
HasNews(n, p) ==
    \/ n.next[p] <= getLastLogIndex(n)
    \/ n.commit > n.told[p] /\ p \in plan.appliers
    \/ n.round # NoRound /\ p \notin n.round.acks

Calls == {c \in Server \X Server : net[c[1]][c[2]] # NoCall}

replicationWorker(l, p) ==
    LET n == WithRound(node[l])
        prev == n.next[p] - 1
    IN  /\ p # l /\ {l, p} \notin plan.cut /\ net[l][p] = NoCall
        /\ ~n.removed /\ n.status = "Leader" /\ n.roles[p] \in {"Voter", "Learner"}
        /\ HasNews(n, p) /\ Cardinality(Calls) < plan.calls
        /\ node' = [node EXCEPT ![l] = [n EXCEPT !.told[p] =
              IF p \in plan.appliers THEN n.commit ELSE @]]
        /\ net' = [net EXCEPT ![l][p] =
              IF n.next[p] <= n.snapIdx
              THEN [pc |-> "behind"]
              ELSE [pc |-> "asked", kind |-> "append", from |-> l, to |-> p, term |-> n.term,
                    prev |-> prev, prevTerm |-> getLogTermFromLogIndex(n, prev),
                    entries |-> SubSeq(n.log, prev - n.snapIdx + 1, Len(n.log)),
                    commit |-> n.commit,
                    ctx |-> IF n.round = NoRound THEN 0 ELSE n.round.ctx]]
        /\ UNCHANGED <<plan, left, file, machine, chan, batch, gc, ballot, late, read, elected,
                       chosen, regressed>>

(* leaderSendSnapShot: the snapshot on file with the term of now, whether or *)
(* not the sender still leads.                                               *)
leaderSendSnapShot(l, p) ==
    LET n == node[l] IN
    /\ net[l][p].pc = "behind"
    /\ net' = [net EXCEPT ![l][p] =
          [pc |-> "asked", kind |-> "snapshot", from |-> l, to |-> p, term |-> n.term,
           index |-> n.snapIdx, snapTerm |-> n.snapTerm, data |-> file[l].data]]
    /\ UNCHANGED <<plan, left, node, file, machine, chan, batch, gc, ballot, late, read,
                   elected, chosen, regressed>>

(* The accepted part of AppendEntries1: entries that conflict cut the log,   *)
(* entries past its end extend it.                                           *)
Spliced(n, q) ==
    LET clash == {i \in 1 .. Len(q.entries) :
                    /\ q.prev + i <= getLastLogIndex(n)
                    /\ getLogTermFromLogIndex(n, q.prev + i) # q.entries[i].term}
        keep == IF clash = {} THEN getLastLogIndex(n) ELSE q.prev + Min(clash) - 1
    IN  SubSeq(n.log, 1, keep - n.snapIdx) \o SubSeq(q.entries, keep - q.prev + 1, Len(q.entries))

matchLog(n, q) ==
    /\ q.prev \in n.snapIdx .. getLastLogIndex(n)
    /\ q.prevTerm = getLogTermFromLogIndex(n, q.prev)

(* AppendEntries1: the peer afterwards. *)
Appended(n, q) ==
    LET m == Followed(n, q.term)
        e == [m EXCEPT !.log = Spliced(m, q)]
    IN  IF n.removed \/ q.term < n.term THEN n
        ELSE IF ~matchLog(m, q) THEN m
        ELSE [e EXCEPT !.commit = Max({@, Min({q.commit, getLastLogIndex(e)})})]

(* Where the leader should go on: past the end, past the snapshot, or at the *)
(* first index of the conflicting term.                                      *)
UpdateNextIndex(n, q) ==
    LET other == {i \in n.snapIdx .. q.prev :
                    getLogTermFromLogIndex(n, i) # getLogTermFromLogIndex(n, q.prev)}
    IN  IF q.prev > getLastLogIndex(n) THEN getLastLogIndex(n) + 1
        ELSE IF q.prev < n.snapIdx THEN n.snapIdx + 1
        ELSE IF other = {} THEN q.prev ELSE Max(other) + 1

AppendReply(n, q) ==
    LET m == Followed(n, q.term)
        stale == n.removed \/ q.term < n.term
    IN  [pc |-> "answered", kind |-> "append", gone |-> n.removed,
         term |-> IF stale THEN n.term ELSE m.term,
         success |-> ~stale /\ matchLog(m, q),
         next |-> IF stale \/ matchLog(m, q) THEN None ELSE UpdateNextIndex(m, q),
         match |-> q.prev + Len(q.entries), askedTerm |-> q.term,
         ctx |-> IF stale THEN 0 ELSE q.ctx]

(* The DEFER of AppendEntries1: a cut log is saved whole, a log that only    *)
(* grew is appended.                                                         *)
AppendSaved(f, n, m) ==
    IF m.term = n.term /\ m.log = n.log THEN f
    ELSE IF IsPrefix(n.log, m.log) THEN AppendRaftState(f, m, Len(n.log))
    ELSE SaveRaftState(f, m)

(* InstallSnapshot of a snapshot in one chunk: the log behind the boundary   *)
(* goes, what lies past it stays.                                            *)
Covers(n, q) == q.index <= n.snapIdx

Installed(n, q) ==
    LET m == Followed(n, q.term) IN
    IF q.term < n.term THEN n
    ELSE IF Covers(m, q) THEN m
    ELSE [m EXCEPT !.log = SubSeq(@, q.index - m.snapIdx + 1, Len(@)),
                   !.snapIdx = q.index, !.snapTerm = q.snapTerm,
                   !.commit = Max({@, q.index}), !.applied = Max({@, q.index})]

(* A call arrives: the follower, its files, and a snapshot for its machine. *)
Execute(q) ==
    LET s == q.to
        n == node[s]
        m == IF q.kind = "append" THEN Appended(n, q) ELSE Installed(n, q)
        fresh == q.kind = "snapshot" /\ m.snapIdx # n.snapIdx
    IN  /\ node' = [node EXCEPT ![s] = m]
        /\ file' = [file EXCEPT ![s] =
              IF fresh THEN Save(m, q.data)
              ELSE IF q.kind = "append" THEN AppendSaved(@, n, m)
              ELSE IF m.term # n.term THEN SaveRaftState(@, m) ELSE @]
        /\ chan' = IF fresh
                   THEN [chan EXCEPT ![s] =
                            Append(@, [kind |-> "snapshot", index |-> q.index, data |-> q.data])]
                   ELSE chan
        /\ IF fresh THEN UNCHANGED chosen ELSE Choose(m)

Deliver(l, p) ==
    LET q == net[l][p] IN
    /\ q.pc = "asked"
    /\ Execute(q)
    /\ net' = [net EXCEPT ![l][p] =
          IF q.kind = "append" THEN AppendReply(node[p], q)
          ELSE [pc |-> "answered", kind |-> "snapshot", term |-> Max({node[p].term, q.term}),
                askedTerm |-> q.term, index |-> q.index]]
    /\ UNCHANGED <<plan, left, machine, batch, gc, ballot, late, read, elected, regressed>>

(* The answer is lost; a call that is lost is one that is not made. *)
Lose(l, p) ==
    /\ net[l][p].pc = "answered" /\ plan.lossy
    /\ net' = [net EXCEPT ![l][p] = NoCall]
    /\ UNCHANGED <<plan, left, node, file, machine, chan, batch, gc, ballot, late, read,
                   elected, chosen, regressed>>

(* The caller gives up on a call that is still on its way. *)
Delay(l, p) ==
    /\ net[l][p].pc = "asked"
    /\ Spend("late")
    /\ late' = late \cup {net[l][p]}
    /\ net' = [net EXCEPT ![l][p] = NoCall]
    /\ UNCHANGED <<plan, node, file, machine, chan, batch, gc, ballot, read, elected, chosen,
                   regressed>>

DeliverLate ==
    \E q \in late :
        /\ late' = late \ {q}
        /\ Execute(q)
        /\ UNCHANGED <<plan, left, machine, batch, gc, net, ballot, read, elected, regressed>>

(* HandleAppendEntriesReply.  Stepping down here is not saved. *)
Acknowledged(n, p, q) ==
    IF n.round # NoRound /\ q.ctx = n.round.ctx /\ q.askedTerm = n.term
    THEN completeReadRoundIfQuorum([n EXCEPT !.round.acks = @ \cup {p}])
    ELSE n

HandleAppendEntriesReply(l, p) ==
    LET q == net[l][p]
        n == node[l]
        a == Acknowledged(n, p, q)
        m == Max({n.match[p], q.match})
        r == leaderUpdateCommitIndex([a EXCEPT !.match[p] = m, !.next[p] = m + 1])
    IN  /\ q.pc = "answered" /\ q.kind = "append"
        /\ net' = [net EXCEPT ![l][p] = NoCall]
        /\ node' = [node EXCEPT ![l] =
              IF q.gone THEN n
              ELSE IF q.term > n.term THEN StepDown(n, q.term)
              ELSE IF q.term < n.term \/ n.status # "Leader" THEN n
              ELSE IF q.success THEN r
              ELSE [a EXCEPT !.next[p] = q.next]]
        /\ Choose(node'[l])
        /\ UNCHANGED <<plan, left, file, machine, chan, batch, gc, ballot, late, read, elected,
                       regressed>>

(* leaderSendSnapShot with the answer. *)
SnapshotAnswered(l, p) ==
    LET q == net[l][p]
        n == node[l]
        r == IF n.status # "Leader" \/ n.term # q.askedTerm THEN n
             ELSE IF q.term > n.term THEN StepDown(n, q.term)
             ELSE [n EXCEPT !.match[p] = q.index, !.next[p] = q.index + 1]
    IN  /\ q.pc = "answered" /\ q.kind = "snapshot"
        /\ net' = [net EXCEPT ![l][p] = NoCall]
        /\ node' = [node EXCEPT ![l] = r]
        /\ file' = IF r.term # n.term THEN [file EXCEPT ![l] = SaveRaftState(@, r)] ELSE file
        /\ UNCHANGED <<plan, left, machine, chan, batch, gc, ballot, late, read, elected,
                       chosen, regressed>>

-----------------------------------------------------------------------------
(* Proposals. *)

(* Start, from PutAppend or the transaction scheduler: a leader queues the   *)
(* command.  A client may offer a command again, to another peer.            *)
Start(s, c) ==
    /\ node[s].status = "Leader" /\ ~node[s].removed
    /\ s \in plan.proposers /\ Spend("puts")
    /\ node' = [node EXCEPT ![s].queue = Append(@, PutOf(c))]
    /\ UNCHANGED <<plan, file, machine, chan, batch, gc, net, ballot, late, read, elected,
                   chosen, regressed>>

IsConf(cmd) == cmd.kind = "conf"

HasConfChangeInFlight(n) ==
    \/ n.confQueued
    \/ \E i \in n.applied + 1 .. getLastLogIndex(n) : i > n.snapIdx /\ IsConf(EntryAt(n, i).cmd)

IsPeerCaughtUp(n, p) == n.status = "Leader" /\ n.match[p] >= n.commit - plan.lag

(* ProposeConfChange, and MaybePromoteLearner for a promotion: the next      *)
(* membership change of the scenario, at the epoch the proposer knows.  A    *)
(* peer that does not lead refuses it, which only uses up a request number.  *)
ProposeConfChange(s) ==
    LET n == node[s]
        c == plan.confs[Len(plan.confs) - left.confs + 1]
    IN  /\ Spend("confs")
        /\ n.status = "Leader" /\ ~n.removed /\ ~HasConfChangeInFlight(n)
        /\ c.change = "promote" => IsPeerCaughtUp(n, c.peer) /\ n.roles[c.peer] = "Learner"
        /\ node' = [node EXCEPT
              ![s].queue = Append(@, ConfOf(c.change, c.peer, machine[s].version,
                                            machine[s].nextConf)),
              ![s].confQueued = TRUE]
        /\ machine' = [machine EXCEPT ![s].nextConf = @ + 1]
        /\ UNCHANGED <<plan, file, chan, batch, gc, net, ballot, late, read, elected, chosen,
                       regressed>>

(* raftPollerTicker: a leader appends the queued commands, saves them once   *)
(* and triggers replication; any other peer rejects them.  A failed          *)
(* assertion ends the process before anything is saved.                      *)
raftPollerTicker(s) ==
    LET n == node[s]
        q == [n EXCEPT !.queue = <<>>, !.confQueued = FALSE]
        e == [q EXCEPT !.log = @ \o [i \in 1 .. Len(n.queue) |->
                                       [term |-> n.term, cmd |-> n.queue[i]]]]
        m == leaderUpdateCommitIndex(e)
    IN  /\ n.queue # <<>>
        /\ IF n.status # "Leader"
           THEN /\ node' = [node EXCEPT ![s] = q]
                /\ UNCHANGED <<file, machine, chan, batch, gc, net, ballot, chosen>>
           ELSE IF CommitAsserts(e)
           THEN Reboot(s, file[s], <<>>) /\ UNCHANGED chosen
           ELSE /\ node' = [node EXCEPT ![s] = WithRound(m)]
                /\ file' = [file EXCEPT ![s] = AppendRaftState(@, m, Len(n.log))]
                /\ Choose(m)
                /\ UNCHANGED <<machine, chan, batch, gc, net, ballot>>
        /\ UNCHANGED <<plan, left, late, read, elected, regressed>>

-----------------------------------------------------------------------------
(* Apply. *)

(* applierTicker takes the committed entries under the lock ... *)
applierTake(s) ==
    LET n == node[s] IN
    /\ s \in plan.appliers
    /\ batch[s] = <<>> /\ ~n.removed /\ n.applied < n.commit
    /\ batch' = [batch EXCEPT ![s] = [i \in 1 .. n.commit - n.applied |->
          [kind |-> "entry", index |-> n.applied + i, cmd |-> EntryAt(n, n.applied + i).cmd]]]
    /\ node' = [node EXCEPT ![s].applied = n.commit]
    /\ UNCHANGED <<plan, left, file, machine, chan, gc, net, ballot, late, read, elected,
                   chosen, regressed>>

(* ... and pushes them without it. *)
applierPush(s) ==
    /\ batch[s] # <<>>
    /\ chan' = [chan EXCEPT ![s] = @ \o batch[s]]
    /\ batch' = [batch EXCEPT ![s] = <<>>]
    /\ UNCHANGED <<plan, left, node, file, machine, gc, net, ballot, late, read, elected,
                   chosen, regressed>>

(* ApplyConfChange of the Region peer and of Raft. *)
ConfApplied(n, c) ==
    LET new == n.roles[c.peer] = "None"
        r == [n EXCEPT !.roles[c.peer] =
                CASE c.change = "learner" -> "Learner"
                  [] c.change = "promote" -> IF new THEN @ ELSE "Voter"
                  [] c.change = "remove" -> IF new THEN @ ELSE "Removed"]
    IN  IF c.change = "learner" /\ new
        THEN [r EXCEPT !.match[c.peer] = 0, !.next[c.peer] = getLastLogIndex(n) + 1]
        ELSE IF r.roles[n.me] = "Removed"
        THEN [abortReadIndex(r) EXCEPT !.removed = TRUE,
                 !.status = IF @ = "Leader" THEN "Follower" ELSE @]
        ELSE r

(* GetCommandFromRaft: entries behind an installed snapshot are skipped, a   *)
(* request that was executed is not executed again, and a membership change  *)
(* counts only at the epoch it was proposed at.                              *)
Skipped(m, msg) == msg.index <= m.skip

Executed(m, msg) ==
    LET a == [m EXCEPT !.index = Max({@, msg.index})] IN
    CASE Skipped(m, msg) -> a
      [] ~Skipped(m, msg) /\ msg.cmd.kind = "put" -> [a EXCEPT !.content = @ \cup {msg.cmd.id}]
      [] ~Skipped(m, msg) /\ IsConf(msg.cmd) ->
            IF msg.cmd.id <= m.lastConf THEN a
            ELSE [a EXCEPT !.lastConf = msg.cmd.id,
                           !.version = IF msg.cmd.version = m.version THEN @ + 1 ELSE @]
      [] OTHER -> a

(* GetSnapShotFromRaft: the engine takes the snapshot's content; the applied *)
(* index only moves forward.                                                 *)
SnapshotRestored(m, msg) ==
    [m EXCEPT !.content = msg.data.content, !.lastConf = msg.data.lastConf,
              !.skip = msg.index, !.index = Max({@, msg.index})]

(* ReadRaftApplyCommandLoop, one message. *)
ReadRaftApplyCommand(s) ==
    LET msg == Head(chan[s])
        m == machine[s]
        r == IF msg.kind = "entry" THEN Executed(m, msg) ELSE SnapshotRestored(m, msg)
    IN  /\ chan[s] # <<>>
        /\ chan' = [chan EXCEPT ![s] = Tail(@)]
        /\ machine' = [machine EXCEPT ![s] = r]
        /\ node' = IF r.version # m.version
                   THEN [node EXCEPT ![s] = ConfApplied(@, msg.cmd)] ELSE node
        /\ regressed' = IF msg.kind = "snapshot" /\ msg.index < m.index
                        THEN regressed \cup {s} ELSE regressed
        /\ UNCHANGED <<plan, left, file, batch, gc, net, ballot, late, read, elected, chosen>>

-----------------------------------------------------------------------------
(* Log garbage collection. *)

\* mutant: the snapshot is labelled with what the applier took
CompactIndexTaken(n, m) == Min({n.applied, n.commit, getLastLogIndex(n)})

(* What Raft and the Region state machine both have behind them. *)
CompactIndex(n, m) == Min({m.index, n.applied, n.commit, getLastLogIndex(n)})

(* RaftLogGcLoop decides and captures at one applied index ... *)
EvaluateLogGc(s) ==
    LET n == node[s]
        m == machine[s]
        applied == CompactIndex(n, m)
    IN  /\ gc[s] = NoGc /\ s \in plan.compactors /\ Spend("snaps")
        /\ m.index >= n.snapIdx /\ applied > n.snapIdx
        /\ gc' = [gc EXCEPT ![s] = [index |-> applied, content |-> m.content,
                                    lastConf |-> m.lastConf]]
        /\ UNCHANGED <<plan, node, file, machine, chan, batch, net, ballot, late, read,
                       elected, chosen, regressed>>

(* ... and publishes later, unless the boundary has moved past it. *)
Compacted(n, index) ==
    [n EXCEPT !.log = SubSeq(@, index - n.snapIdx + 1, Len(@)), !.snapIdx = index,
              !.snapTerm = getLogTermFromLogIndex(n, index),
              !.commit = Max({@, index}), !.applied = Max({@, index})]

Publishable(s) == node[s].snapIdx < gc[s].index /\ gc[s].index <= node[s].commit

Snapshot(s) ==
    /\ gc[s] # NoGc
    /\ gc' = [gc EXCEPT ![s] = NoGc]
    /\ IF Publishable(s)
       THEN /\ node' = [node EXCEPT ![s] = Compacted(@, gc[s].index)]
            /\ file' = [file EXCEPT ![s] = Save(node'[s], gc[s])]
            /\ machine' = [machine EXCEPT ![s].skip = Max({@, gc[s].index})]
       ELSE UNCHANGED <<node, file, machine>>
    /\ UNCHANGED <<plan, left, chan, batch, net, ballot, late, read, elected, chosen, regressed>>

-----------------------------------------------------------------------------
(* Linearizable reads: ReadIndex and LinearizableReadBarrier. *)

Finish(r, fine) == read' = [read EXCEPT ![r] = [pc |-> "done", fine |-> fine]]

ReadIndex(r, s) ==
    /\ read[r].pc = "idle" /\ r \in plan.readers
    /\ node[s].status = "Leader"
    /\ node' = [node EXCEPT ![s] = WithRound([@ EXCEPT !.pending = @ \cup {r}])]
    /\ read' = [read EXCEPT ![r] = [pc |-> "asked", at |-> s,
                   need |-> UNION {machine[p].content : p \in Server}]]
    /\ UNCHANGED <<plan, left, file, machine, chan, batch, gc, net, ballot, late, elected,
                   chosen, regressed>>

ResultsOf(n, r) == {x \in n.results : x.reader = r}

(* The wait for the read index, the check of the term and the read itself. *)
ServeRead(r) ==
    LET s == read[r].at
        n == node[s]
    IN  /\ read[r].pc = "asked"
        /\ \E x \in ResultsOf(n, r) :
              /\ machine[s].index >= x.index
              /\ Finish(r, (n.status = "Leader" /\ n.term = x.term)
                             => read[r].need \subseteq machine[s].content)
              /\ node' = [node EXCEPT ![s].results = @ \ {x}]
        /\ UNCHANGED <<plan, left, file, machine, chan, batch, gc, net, ballot, late, elected,
                       chosen, regressed>>

(* The deadline passes, or the peer stopped leading. *)
FailRead(r) ==
    LET s == read[r].at IN
    /\ read[r].pc = "asked"
    /\ Finish(r, TRUE)
    /\ node' = [node EXCEPT ![s] =
          [removeReadWaiter(@, r) EXCEPT !.results = @ \ ResultsOf(node[s], r)]]
    /\ UNCHANGED <<plan, left, file, machine, chan, batch, gc, net, ballot, late, elected,
                   chosen, regressed>>

-----------------------------------------------------------------------------
(* Crashes. *)

Restart(s) ==
    /\ s \in plan.crashers /\ Spend("restarts")
    /\ Reboot(s, file[s], <<>>)
    /\ UNCHANGED <<plan, late, read, elected, chosen, regressed>>

(* A follower dies while it saves the entries of an AppendEntries. *)
DieAppending(l, p) ==
    LET q == net[l][p]
        n == node[p]
        m == Appended(n, q)
    IN  /\ q.pc = "asked" /\ q.kind = "append"
        /\ m.log # n.log /\ IsPrefix(n.log, m.log)
        /\ Spend("torn")
        /\ Reboot(p, TornAppend(file[p], m, Len(n.log)), <<l, p>>)
        /\ UNCHANGED <<plan, late, read, elected, chosen, regressed>>

(* A peer dies while it publishes a snapshot. *)
DieCompacting(s) ==
    /\ gc[s] # NoGc /\ Publishable(s)
    /\ Spend("torn")
    /\ Reboot(s, TornCommit(file[s], gc[s]), <<>>)
    /\ UNCHANGED <<plan, late, read, elected, chosen, regressed>>

-----------------------------------------------------------------------------
(* A scenario gives the membership as each peer knows it, the peer that     *)
(* leads at the start with its no-op applied everywhere (or none), who       *)
(* campaigns, proposes, applies, compacts and crashes, the pairs that are    *)
(* cut off from each other, whether answers get lost and how many calls are  *)
(* out at a time, the commands, the readers and the membership changes in    *)
(* order, the catch-up lag, and how often each event happens.                *)
InitNode(s, w) ==
    LET led == w.led # None /\ w.roles[w.led][s] = "Voter"
        log == IF led THEN <<[term |-> 1, cmd |-> Noop]>> ELSE <<>>
    IN  [me |-> s, term |-> IF led THEN 1 ELSE 0, voted |-> IF led THEN w.led ELSE None,
         status |-> IF s = w.led THEN "Leader" ELSE "Follower", votes |-> 0,
         log |-> log, snapIdx |-> 0, snapTerm |-> 0,
         commit |-> Len(log), applied |-> Len(log),
         next |-> [p \in Server |-> IF s = w.led THEN 2 ELSE 0],
         match |-> [p \in Server |-> IF s = w.led /\ p # s /\ w.roles[s][p] = "Voter" THEN 1 ELSE 0],
         told |-> [p \in Server |-> IF s = w.led /\ w.roles[s][p] = "Voter" THEN 1 ELSE 0],
         roles |-> w.roles[s], removed |-> FALSE, queue |-> <<>>, confQueued |-> FALSE,
         pending |-> {}, round |-> NoRound, ctx |-> 0, results |-> {}]

Init ==
    /\ plan \in Workloads
    /\ left = [elections |-> plan.elections, puts |-> plan.puts, restarts |-> plan.restarts,
               torn |-> plan.torn, late |-> plan.late, snaps |-> plan.snaps,
               confs |-> Len(plan.confs)]
    /\ node = [s \in Server |-> InitNode(s, plan)]
    /\ file = [s \in Server |-> SaveRaftState([data |-> NoGc], InitNode(s, plan))]
    /\ machine = [s \in Server |-> [index |-> node[s].applied, skip |-> 0, content |-> {}, lastConf |-> 0,
                                    version |-> 0, nextConf |-> 1]]
    /\ chan = [s \in Server |-> <<>>]
    /\ batch = [s \in Server |-> <<>>]
    /\ gc = [s \in Server |-> NoGc]
    /\ net = [s \in Server |-> [p \in Server |-> NoCall]]
    /\ ballot = [s \in Server |-> [p \in Server |-> NoCall]]
    /\ late = {}
    /\ read = [r \in Reader |-> [pc |-> "idle"]]
    /\ elected = IF plan.led = None THEN {} ELSE {[term |-> 1, server |-> plan.led]}
    /\ chosen = IF plan.led = None THEN <<>> ELSE <<[term |-> 1, cmd |-> Noop]>>
    /\ regressed = {}

Next ==
    \/ \E s \in Server :
          \/ doElection(s) \/ raftPollerTicker(s) \/ ProposeConfChange(s)
          \/ applierTake(s) \/ applierPush(s) \/ ReadRaftApplyCommand(s)
          \/ EvaluateLogGc(s) \/ Snapshot(s) \/ Restart(s) \/ DieCompacting(s)
          \/ \E c \in plan.commands : Start(s, c)
          \/ \E p \in Server :
                \/ RequestVote(s, p) \/ VoteAnswered(s, p)
                \/ replicationWorker(s, p) \/ leaderSendSnapShot(s, p)
                \/ Deliver(s, p) \/ Lose(s, p) \/ Delay(s, p) \/ DieAppending(s, p)
                \/ HandleAppendEntriesReply(s, p) \/ SnapshotAnswered(s, p)
          \/ \E r \in Reader : ReadIndex(r, s)
    \/ \E r \in Reader : ServeRead(r) \/ FailRead(r)
    \/ DeliverLate

Spec == Init /\ [][Next]_vars

-----------------------------------------------------------------------------
(* Two peers never win the same term, whatever restarts and lost answers lie *)
(* between their elections: RequestVote grants one vote per term and saves   *)
(* it before it answers.                                                     *)
ElectionSafety == \A a, b \in elected : a.term = b.term => a.server = b.server

(* The leader of the latest term has every entry committed before it, in its *)
(* log or behind its snapshot boundary: elections go by UpToDate, and only   *)
(* entries of the leader's own term are counted.                             *)
LeaderCompleteness ==
    \A s \in Server :
        (node[s].status = "Leader" /\ \A e \in elected : e.term <= node[s].term) =>
            /\ getLastLogIndex(node[s]) >= Len(chosen)
            /\ \A i \in node[s].snapIdx + 1 .. Len(chosen) : EntryAt(node[s], i) = chosen[i]

CommandsUpTo(i) ==
    {chosen[j].cmd.id : j \in {k \in 1 .. i : chosen[k].cmd.kind = "put"}}

(* A Region's data are the effects of committed commands only, and a peer    *)
(* that reports an applied index holds every effect up to it, across batches *)
(* that pass an installed snapshot, compaction and restarts; the exception   *)
(* is a peer that restored a snapshot older than its state.                  *)
AppliedIsChosen ==
    \A s \in Server :
        /\ machine[s].content \subseteq CommandsUpTo(Len(chosen))
        /\ s \notin regressed => CommandsUpTo(machine[s].index) \subseteq machine[s].content

(* A linearizable read sees every command whose effect some peer showed      *)
(* before the read began: its round starts after it and a quorum answers the *)
(* round's own context.                                                      *)
ReadsCurrent == \A r \in Reader : read[r].pc = "done" => read[r].fine

(* "Ignore snapshots already covered by local state" (raft.cpp:622): a peer  *)
(* is never restored to a snapshot older than the state it has.              *)
CoveredSnapshotsIgnored == regressed = {}

(* "A crash before the header write leaves an ignored tail"                  *)
(* (persister.cpp:127): what a restart would read is the log the peer has.   *)
DurableLog ==
    \A s \in Server : ReadPersist(file[s]).log = node[s].log

=============================================================================
