------------------------------- MODULE MCRaft -------------------------------
(* Scenarios of the Raft group for TLC. *)
EXTENDS Raft

Three == [s \in Server |-> [p \in Server |-> "Voter"]]

(* Peers 1 and 2 vote; peer 3 was created to become a learner. *)
Joining == [s \in Server |-> [p \in Server |->
              IF p # 3 THEN "Voter" ELSE IF s = 3 THEN "Learner" ELSE "None"]]

(* Peer 1 alone, and 2 created to become a learner. *)
Alone == [s \in Server |-> [p \in Server |->
              CASE p = 1 -> "Voter" [] p = 2 /\ s = 2 -> "Learner" [] OTHER -> "None"]]

Base == [roles |-> Three, led |-> 1, commands |-> {1}, readers |-> {}, confs |-> <<>>,
         candidates |-> {2}, appliers |-> {}, crashers |-> {}, proposers |-> {1},
         compactors |-> Server, cut |-> {}, lossy |-> TRUE, lag |-> 0, calls |-> 1,
         elections |-> 0, puts |-> 0, restarts |-> 0, torn |-> 0, late |-> 0, snaps |-> 0]

RaftWorkloads == <<
    \* 1: an election from nothing, and a rival
    [Base EXCEPT !.led = None, !.elections = 2, !.candidates = {1, 2}, !.crashers = {3},
                 !.restarts = 1],
    \* 2: a proposal, then a new leader
    [Base EXCEPT !.elections = 1, !.puts = 1, !.restarts = 1, !.crashers = {1, 3}],
    \* 3: two new leaders
    [Base EXCEPT !.elections = 2, !.puts = 1, !.candidates = {1, 2}, !.lossy = FALSE],
    \* 4: two reads across a change of leader
    [Base EXCEPT !.elections = 1, !.puts = 1, !.readers = {"r1"}, !.proposers = {2}, !.appliers = {2}],
    \* 5: a follower caught up by a snapshot while its applier holds a batch
    [Base EXCEPT !.puts = 1, !.snaps = 2, !.late = 1, !.appliers = {1, 2}, !.compactors = {1, 2}],
    \* 6: a snapshot, a restart and an election
    [Base EXCEPT !.puts = 1, !.snaps = 1, !.compactors = {1}, !.appliers = {1}, !.restarts = 1,
                 !.crashers = {1}, !.cut = {{2, 3}}, !.lossy = FALSE,
                 !.elections = 1, !.candidates = {1}],
    \* 7: a voter joins
    [Base EXCEPT !.roles = Joining, !.appliers = {1, 3}, !.elections = 1, !.candidates = {2},
                 !.confs = <<[change |-> "learner", peer |-> 3], [change |-> "promote", peer |-> 3]>>],
    \* 8: a single voter grows
    [Base EXCEPT !.roles = Alone, !.led = None, !.appliers = {1, 2}, !.elections = 2,
                 !.candidates = {1, 2},
                 !.confs = <<[change |-> "learner", peer |-> 2], [change |-> "promote", peer |-> 2]>>],
    \* 9: a voter leaves
    [Base EXCEPT !.appliers = {1}, !.elections = 1, !.candidates = {3},
                 !.confs = <<[change |-> "remove", peer |-> 3]>>],
    \* 10: the leader leaves
    [Base EXCEPT !.appliers = {1, 2}, !.elections = 1, !.candidates = {2}, !.lossy = FALSE,
                 !.confs = <<[change |-> "remove", peer |-> 1]>>],
    \* 11: deaths within a save
    [Base EXCEPT !.puts = 1, !.torn = 1, !.snaps = 1, !.appliers = {1}],
    \* 12: two reads and a slow leader
    [Base EXCEPT !.puts = 1, !.readers = {"r1", "r2"}, !.appliers = {1, 2}],
    \* 13: a read at a new leader that does not know yet what is committed
    [Base EXCEPT !.elections = 1, !.puts = 1, !.readers = {"r1"}, !.appliers = {1}, !.lossy = FALSE],
    \* 14: calls that arrive late, at a peer that has moved on
    [Base EXCEPT !.puts = 1, !.late = 1, !.elections = 1]
>>

MCServer == 1 .. 3
MCReader == {"r1", "r2"}

(* A leader of two terms compacts its log, and meets a peer with a longer one. *)
SnapshotWorkloads == {[Base EXCEPT !.elections = 2, !.puts = 2, !.snaps = 1, !.appliers = {1},
                                   !.compactors = {2}, !.crashers = {2}, !.restarts = 1,
                                   !.cut = {{1, 3}}]}

(* A peer dies while it appends, and carries on with the file it left. *)
TailWorkloads == {[Base EXCEPT !.commands = {1, 2}, !.puts = 2, !.torn = 1]}

MCRaftWorkloads == {RaftWorkloads[i] : i \in DOMAIN RaftWorkloads}
=============================================================================
