----------------------------- MODULE MCRegions -----------------------------
(* Scenarios of clients and nodes for TLC. *)
EXTENDS Regions

D(id, s, e, v, c, ps) == [id |-> id, start |-> s, end |-> e, version |-> v, conf |-> c, peers |-> ps]

Whole(ps) == {D(1, 1, 3, 1, 1, ps)}
Halves(ps) == {D(1, 1, 2, 2, 1, ps), D(2, 2, 3, 1, 1, ps)}
Apart(v, c) == {D(1, 1, 2, v, c, <<1, 2>>), D(2, 2, 3, 1, c, <<1, 2>>)}

Put(w, k) == [op |-> "put", w |-> w, key |-> k]
Get(k)    == [op |-> "get", w |-> 0, key |-> k]

(* Write 1 goes to the left of the split key, 2 and 3 to the right. *)
Base == [catalogs |-> <<Whole(<<1, 2>>), Halves(<<1, 2>>)>>, key |-> <<1, 2, 2>>,
         splitrev |-> 2, meta |-> 1, past |-> <<>>,
         todo |-> [t \in {"c1", "c2"} |-> <<>>], led |-> 1, slow |-> FALSE, confs |-> <<>>,
         live |-> FALSE, crashers |-> {}, sources |-> {}, targets |-> {},
         scanfails |-> 0, losses |-> 0, elections |-> 0, diskfails |-> 0, retires |-> 0,
         timeouts |-> 0, mounts |-> 0, splits |-> 0, proposed |-> 0, restarts |-> 0]

Split == [Base EXCEPT !.meta = 2, !.past = <<2>>, !.splits = 1]

RegionWorkloads == <<
    \* 1: a write, then a read, race with a split
    [Split EXCEPT !.past = <<>>, !.todo = [c1 |-> <<Put(2, 2), Get(2)>>, c2 |-> <<>>]],
    \* 2: a split, and restarts of the only replica
    [Split EXCEPT !.catalogs = <<Whole(<<1>>), Halves(<<1>>)>>, !.restarts = 3, !.crashers = {1},
                  !.todo = [c1 |-> <<Put(3, 2)>>, c2 |-> <<>>]],
    \* 3: a write, a split, and a restart of the follower
    [Split EXCEPT !.restarts = 1, !.crashers = {2}, !.todo = [c1 |-> <<Put(3, 2)>>, c2 |-> <<>>]],
    \* 4: a split is asked for twice
    [Split EXCEPT !.splits = 2, !.todo = [c1 |-> <<Put(3, 2)>>, c2 |-> <<>>]],
    \* 5: the leader removes itself under a read
    [Base EXCEPT !.live = TRUE, !.catalogs = <<Whole(<<1, 2>>)>>, !.led = 2, !.past = <<2>>,
                 !.confs = <<[change |-> "remove", peer |-> 2]>>,
                 !.todo = [c1 |-> <<Get(2)>>, c2 |-> <<Put(3, 2)>>]],
    \* 6: a source is retired under a read, and the drain may time out
    [Base EXCEPT !.live = TRUE, !.catalogs = <<Whole(<<1, 2>>)>>, !.past = <<2>>, !.sources = {1},
                 !.retires = 2, !.timeouts = 1, !.todo = [c1 |-> <<Get(2)>>, c2 |-> <<Put(3, 2)>>]],
    \* 7: a replica is mounted and added, and taken back
    [Base EXCEPT !.catalogs = <<Whole(<<1>>)>>, !.targets = {2}, !.mounts = 1, !.sources = {2},
                 !.retires = 1, !.confs = <<[change |-> "add", peer |-> 2]>>,
                 !.todo = [c1 |-> <<Put(1, 1)>>, c2 |-> <<Get(1)>>]],
    \* 8: two refreshes at two revisions
    [Base EXCEPT !.live = TRUE, !.catalogs = <<Apart(1, 1), Apart(1, 2), Apart(1, 3)>>,
                 !.restarts = 1, !.crashers = {1}, !.todo = [c1 |-> <<Get(1)>>, c2 |-> <<Get(2)>>]],
    \* 9: calls and answers are lost, and a write is sent again
    [Split EXCEPT !.losses = 1, !.todo = [c1 |-> <<Put(3, 2)>>, c2 |-> <<>>]],
    \* 10: a read races with a split and a change of leader
    [Split EXCEPT !.live = TRUE, !.meta = 1, !.elections = 1, !.todo = [c1 |-> <<Get(2)>>, c2 |-> <<>>]],
    \* 11: a split and nothing else
    [Split EXCEPT !.live = TRUE, !.splits = 2],
    \* 12: two threads share a refresh, which may fail
    [Base EXCEPT !.live = TRUE, !.catalogs = <<Apart(1, 1), Apart(1, 2)>>, !.scanfails = 1,
                 !.todo = [c1 |-> <<Get(2)>>, c2 |-> <<Get(2)>>]],
    \* 13: a write and a read across a change of leader
    [Base EXCEPT !.catalogs = <<Whole(<<1, 2>>)>>, !.elections = 1,
                 !.todo = [c1 |-> <<Put(1, 1)>>, c2 |-> <<Get(1)>>]],
    \* 14: a disk fails while a Region splits
    [Split EXCEPT !.diskfails = 1, !.todo = [c1 |-> <<Put(3, 2)>>, c2 |-> <<>>]],
    \* 15: a slow leader answers a write that has been sent again
    [Base EXCEPT !.catalogs = <<Whole(<<1, 2>>)>>, !.slow = TRUE, !.losses = 1,
                 !.todo = [c1 |-> <<Put(1, 1)>>, c2 |-> <<Get(1)>>]]
>>

(* A write races with a split. *)
SplitWriteWorkloads == {RegionWorkloads[1]}

(* A replica removes itself. *)
SourceWorkloads == {RegionWorkloads[5]}

MCNode    == {1, 2}
MCClient  == {"c1", "c2"}
MCRegionPlans == {RegionWorkloads[i] : i \in DOMAIN RegionWorkloads}
=============================================================================
