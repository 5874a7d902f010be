------------------------------ MODULE Regions ------------------------------
(***************************************************************************)
(* Clients, storage nodes and the metadata catalogue while a Region is     *)
(* split, moved or restarted:                                              *)
(*   - client threads that route by a shared cache and retry               *)
(*     (region_request_sender.cpp, region_cache.cpp);                      *)
(*   - nodes that look a Region up, check a request and execute it         *)
(*     (node_server.cpp, region_registry.cpp, region_peer.cpp);            *)
(*   - the split of Region 1, whose right part becomes Region 2: the       *)
(*     descriptor shrinks when the command is applied, a thread moves the  *)
(*     data, the node mounts the child;                                    *)
(*   - the mount and the retirement of a moved replica.                    *)
(*                                                                         *)
(* A Raft group is its committed log and its leader (Raft.tla is about how *)
(* the peers agree on them); a proposal commits at once when the leader    *)
(* reaches a majority, and what is committed becomes known to a peer only  *)
(* by calls its node lets pass.  The catalogue takes the values that the   *)
(* scenario gives it, one revision each (Topology.tla is about how they    *)
(* come about).  A write is a number; a write or a read stands for the     *)
(* transactional calls of MvccStorage.tla and TxnScheduler.tla.            *)
(***************************************************************************)
EXTENDS RegionNode

CONSTANTS Node,           \* numbers; a peer has the number of its node
          Client,         \* client threads, which share one cache
          RegionPlans,    \* scenarios
          MaxAttempts     \* of one request

VARIABLES plan, meta, table, invalid, req, log, leader, node, peer, disk, mat, retire, acked, used

vars == <<plan, meta, table, invalid, req, log, leader, node, peer, disk, mat, retire, acked, used>>
cache  == <<table, invalid>>
groups == <<log, leader>>
local  == <<node, disk, mat, retire>>

RegionIds == {1, 2}
SplitKey  == 2
KeyOf(w)  == plan.key[w]

Used(what) == [used EXCEPT ![what] = @ + 1]
Left(what) == used[what] < plan[what]

Catalog      == [rev |-> meta, regions |-> plan.catalogs[meta]]
Committed(r) == Len(log[r])
Elements(s)  == {s[i] : i \in DOMAIN s}

-----------------------------------------------------------------------------
(* Client: RegionRequestSender and RegionCache. *)

Idle(todo) == [pc |-> "idle", todo |-> todo, tries |-> 0, d |-> NoRegion, order |-> <<>>, at |-> 0,
               kind |-> "None", idx |-> 0, floor |-> {}, got |-> {}, on |-> 0,
               answer |-> [rev |-> 0, regions |-> {}]]

Op(t)      == Head(req[t].todo)
Goes(t, r) == req' = [req EXCEPT ![t] = r]

(* The request is over, for better or worse. *)
Ended(r) == Idle(Tail(r.todo))

Begin(t) ==
    /\ req[t].pc = "idle" /\ req[t].todo # <<>>
    /\ Goes(t, [req[t] EXCEPT !.pc = "resolve", !.floor = {w \in acked : KeyOf(w) = Op(t).key}])
    /\ UNCHANGED <<plan, meta, cache, groups, peer, local, acked, used>>

Usable(k) == {d \in FindKey(table, k) : d.id \notin invalid}

(* The peers in the order of the descriptor, whose first peer is the one it
   names as the leader. *)
Routed(r, d) == [r EXCEPT !.pc = "send", !.d = d, !.order = d.peers, !.at = 0, !.on = 0]

(* A hit, or a refresh. *)
Resolve(t) ==
    /\ req[t].pc = "resolve"
    /\ IF Usable(Op(t).key) # {}
       THEN \E d \in Usable(Op(t).key) : Goes(t, Routed(req[t], d))
       ELSE Goes(t, [req[t] EXCEPT !.pc = "refresh"])
    /\ UNCHANGED <<plan, meta, cache, groups, peer, local, acked, used>>

Refreshing(u) == req[u].pc \in {"fetch", "publish", "clear"}

(* The first thread asks for a Region, the others wait for its answer. *)
LookupOrRefresh(t) ==
    /\ req[t].pc = "refresh"
    /\ \E d \in FindKey(table, Op(t).key) :
         IF d.id \notin invalid THEN Goes(t, Routed(req[t], d))
         ELSE LET ahead == {u \in Client : Refreshing(u) /\ req[u].d.id = d.id} IN
              IF ahead = {} THEN Goes(t, [req[t] EXCEPT !.pc = "fetch", !.d = d])
              ELSE \E u \in ahead : Goes(t, [req[t] EXCEPT !.pc = "share", !.on = u])
    /\ UNCHANGED <<plan, meta, cache, groups, peer, local, acked, used>>

(* The slot is done, and the threads that wait for it are not woken. *)
SlotDoneAlone(t, ok) ==
    Goes(t, IF ok THEN [req[t] EXCEPT !.pc = "again", !.d = NoRegion,
                                      !.answer = [rev |-> 0, regions |-> {}]]
            ELSE Ended(req[t]))

(* The slot is done: those who wait look again, or fail with its error. *)
SlotDone(t, ok) ==
    req' = [u \in Client |->
              IF u = t \/ (req[u].pc = "share" /\ req[u].on = t)
              THEN IF ok THEN [req[u] EXCEPT !.pc = "again", !.on = 0, !.d = NoRegion,
                                             !.answer = [rev |-> 0, regions |-> {}]]
                         ELSE Ended(req[u])
              ELSE req[u]]

(* All of the catalogue at one revision. *)
ScanRegions(t) ==
    /\ req[t].pc = "fetch"
    /\ Goes(t, [req[t] EXCEPT !.pc = "publish", !.answer = Catalog])
    /\ UNCHANGED <<plan, meta, cache, groups, peer, local, acked, used>>

ScanFails(t) ==
    /\ req[t].pc = "fetch" /\ Left("scanfails")
    /\ SlotDone(t, FALSE)
    /\ used' = Used("scanfails")
    /\ UNCHANGED <<plan, meta, cache, groups, peer, local, acked>>

ReplaceInterval(t) ==
    /\ req[t].pc = "publish"
    /\ LET v == Verdict(table, req[t].answer) IN
       IF v = "newer"
       THEN /\ table' = Publish(table, req[t].answer)
            /\ Goes(t, [req[t] EXCEPT !.pc = "clear",
                          !.answer.regions = @ \cup Replaced(table, req[t].answer.regions)])
       ELSE SlotDone(t, v = "stale") /\ UNCHANGED table
    /\ UNCHANGED <<plan, meta, invalid, groups, peer, local, acked, used>>

(* The flags go after the table is published, under another lock. *)
ClearInvalidated(t) ==
    /\ req[t].pc = "clear"
    /\ invalid' = invalid \ {d.id : d \in req[t].answer.regions}
    /\ SlotDone(t, TRUE)
    /\ UNCHANGED <<plan, meta, table, groups, peer, local, acked, used>>

LookAgain(t) ==
    /\ req[t].pc = "again"
    /\ IF Usable(Op(t).key) = {} THEN Goes(t, Ended(req[t]))
       ELSE \E d \in Usable(Op(t).key) : Goes(t, Routed(req[t], d))
    /\ UNCHANGED <<plan, meta, cache, groups, peer, local, acked, used>>

(* One round over the peers is over: another attempt, or the end. *)
NextAttempt(r) ==
    IF r.tries + 1 = MaxAttempts THEN Ended(r)
    ELSE [Idle(r.todo) EXCEPT !.pc = "resolve", !.tries = r.tries + 1, !.floor = r.floor]

(* The next peer of the round; a node that is down, or a lost call, is a
   failure of the transport. *)
Send(t) ==
    /\ req[t].pc = "send"
    /\ IF req[t].order = <<>> THEN Goes(t, NextAttempt(req[t])) /\ UNCHANGED used
       ELSE LET n == Head(req[t].order)
                r == [req[t] EXCEPT !.order = Tail(@), !.at = n] IN
            \/ Goes(t, IF node[n].up THEN [r EXCEPT !.pc = "lookup"] ELSE r) /\ UNCHANGED used
            \/ node[n].up /\ Left("losses") /\ Goes(t, r) /\ used' = Used("losses")
    /\ UNCHANGED <<plan, meta, cache, groups, peer, local, acked>>

NeedsRefresh(kind) == kind \in {"EpochNotMatch", "RegionNotFound", "PeerNotFound", "KeyNotInRegion"}

(* An answer ends the request, leads to the next peer, or casts doubt on
   the route.  An answer that is lost counts as a failure of the transport. *)
Receive(t) ==
    /\ req[t].pc = "reply"
    /\ LET r == req[t] IN
       \/ /\ r.kind = "None"
          /\ Goes(t, Ended(r)) /\ UNCHANGED <<invalid, used>>
       \/ /\ NeedsRefresh(r.kind)
          /\ Goes(t, NextAttempt(r)) /\ invalid' = invalid \cup {r.d.id} /\ UNCHANGED used
       \/ /\ r.kind \in {"NotLeader", "Transport"}
          /\ Goes(t, [r EXCEPT !.pc = "send", !.kind = "None"]) /\ UNCHANGED <<invalid, used>>
       \/ /\ r.kind = "None" /\ Left("losses")
          /\ Goes(t, [r EXCEPT !.pc = "send", !.got = {}])
          /\ used' = Used("losses") /\ UNCHANGED invalid
    /\ UNCHANGED <<plan, meta, table, groups, peer, local, acked>>

-----------------------------------------------------------------------------
(* Raft groups, as far as the nodes let their calls pass. *)

Header(d, from, to) == [from |-> from, peer |-> to, version |-> d.version, conf |-> d.conf]

Registered(n, r) == node[n].up /\ r \in node[n].ids

(* The call of peer m to peer n gets through to its Raft node. *)
Reaches(m, n, r) ==
    /\ n \in Elements(peer[m][r].desc.peers)
    /\ Registered(n, r) /\ peer[n][r].state = "Serving"
    /\ ValidateRaftPeerRequest(peer[n][r], Header(peer[m][r].desc, m, n))

Majority(m, r) ==
    2 * Cardinality({m} \cup {n \in Node \ {m} : Reaches(m, n, r)}) > Len(peer[m][r].desc.peers)

(* The leader m appends the entry and a majority takes it; without one the
   proposal is not decided, and is left out. *)
Proposed(m, r, e) ==
    /\ log' = [log EXCEPT ![r] = Append(@, e)]
    /\ peer' = [peer EXCEPT ![m][r].told = Committed(r) + 1]

Elect(n, r) ==
    /\ leader[r] = 0
    /\ peer[n][r].state = "Serving" /\ n \in Elements(peer[n][r].desc.peers)
    /\ Majority(n, r)
    /\ leader' = [leader EXCEPT ![r] = n]
    /\ peer' = [peer EXCEPT ![n][r].told = Committed(r)]
    /\ UNCHANGED <<plan, meta, cache, req, log, local, acked, used>>

StepDown(r) ==
    /\ leader[r] # 0 /\ Left("elections")
    /\ leader' = [leader EXCEPT ![r] = 0]
    /\ used' = Used("elections")
    /\ UNCHANGED <<plan, meta, cache, req, log, peer, local, acked>>

LearnCommit(n, r) ==
    /\ leader[r] \notin {0, n} /\ Reaches(leader[r], n, r)
    /\ peer[n][r].told < Committed(r)
    /\ peer' = [peer EXCEPT ![n][r].told = Committed(r)]
    /\ UNCHANGED <<plan, meta, cache, req, groups, local, acked, used>>

-----------------------------------------------------------------------------
(* Node: a request. *)

At(t)     == peer[req[t].at][req[t].d.id]
With(t, p) == [peer EXCEPT ![req[t].at][req[t].d.id] = p]
Released(p) == [p EXCEPT !.inflight = @ - 1]
Answers(t, kind) == Goes(t, [req[t] EXCEPT !.pc = "reply", !.kind = kind, !.idx = 0])

(* RegionRegistry::Lookup: the view, and the first look at the life cycle. *)
Lookup(t) ==
    /\ req[t].pc = "lookup"
    /\ IF Registered(req[t].at, req[t].d.id) /\ At(t).state = "Serving"
       THEN Goes(t, [req[t] EXCEPT !.pc = "acquire"])
       ELSE Answers(t, "RegionNotFound")
    /\ UNCHANGED <<plan, meta, cache, groups, peer, local, acked, used>>

Acquired(p) == [p EXCEPT !.inflight = @ + 1]

(* The handle is counted before the second look. *)
TryAcquireRequest(t) ==
    /\ req[t].pc = "acquire"
    /\ peer' = With(t, Acquired(At(t)))
    /\ Goes(t, [req[t] EXCEPT !.pc = "check"])
    /\ UNCHANGED <<plan, meta, cache, groups, local, acked, used>>

(* The second look, and the checks of the dispatcher and of the handler.  A
   descriptor that lost the peer makes the dispatcher throw: no answer. *)
Refusal(p, h, k) ==
    IF p.state # "Serving" THEN "RegionNotFound"
    ELSE IF ~HasLocal(p) THEN "Transport" ELSE ValidateRegionRequest(p, h, k)

Dispatch(t) ==
    /\ req[t].pc = "check"
    /\ LET p == At(t)
           kind == Refusal(p, Header(req[t].d, 0, req[t].at), Op(t).key) IN
       IF kind = "None"
       THEN Goes(t, [req[t] EXCEPT !.pc = "prepare"]) /\ UNCHANGED peer
       ELSE Answers(t, kind) /\ peer' = With(t, Released(p))
    /\ UNCHANGED <<plan, meta, cache, groups, local, acked, used>>

OwnsKey(p, k) == Contains(p.desc, k)

Versions(n, r, k) == {w \in disk[n].data[r] : KeyOf(w) = k}

(* The latch of the key: what was proposed before it is applied. *)
KeySettled(n, r, k) ==
    \A i \in (peer[n][r].applied + 1) .. Committed(r) :
        log[r][i].op = "put" => KeyOf(log[r][i].w) # k

(* A barrier at what the leader happens to have applied. *)
ReadBarrierLocal(n, r) == peer[n][r].applied

(* LinearizableReadBarrier: the read waits for the commit index. *)
ReadBarrier(n, r) == Committed(r)

(* The scheduler prepares and proposes a write, which carries the revision
   of the key it found; a write that is already there needs nothing.  A read
   takes the commit index for its barrier. *)
Prepare(t) ==
    /\ req[t].pc = "prepare"
    /\ LET n == req[t].at
           r == req[t].d.id
           found == Versions(n, r, Op(t).key) IN
       \/ /\ leader[r] # n
          /\ Answers(t, "NotLeader") /\ peer' = With(t, Released(At(t)))
          /\ UNCHANGED <<log, acked>>
       \/ /\ leader[r] = n /\ Op(t).op = "get" /\ Majority(n, r)
          /\ Goes(t, [req[t] EXCEPT !.pc = "wait", !.idx = ReadBarrier(n, r)])
          /\ UNCHANGED <<log, peer, acked>>
       \/ /\ leader[r] = n /\ Op(t).op = "put" /\ KeySettled(n, r, Op(t).key)
          /\ IF Op(t).w \in found
             THEN /\ Answers(t, "None") /\ acked' = acked \cup {Op(t).w}
                  /\ peer' = With(t, Released(At(t)))
                  /\ UNCHANGED log
             ELSE /\ Majority(n, r)
                  /\ Proposed(n, r, [op |-> "put", w |-> Op(t).w, rev |-> Cardinality(found)])
                  /\ Goes(t, [req[t] EXCEPT !.pc = "wait", !.idx = Committed(r) + 1])
                  /\ UNCHANGED acked
    /\ UNCHANGED <<plan, meta, cache, leader, local, used>>

(* The entry is applied: the write is acknowledged, the read is served. *)
Finish(t) ==
    /\ req[t].pc = "wait" /\ At(t).applied >= req[t].idx
    /\ LET n == req[t].at
           r == req[t].d.id IN
       \/ /\ Op(t).op = "put"
          /\ Answers(t, "None")
          /\ acked' = acked \cup {Op(t).w}
       \/ /\ Op(t).op = "get" /\ leader[r] = n
          /\ Goes(t, [req[t] EXCEPT !.pc = "reply", !.idx = 0, !.got = Versions(n, r, Op(t).key)])
          /\ UNCHANGED acked
       \/ /\ Op(t).op = "get" /\ leader[r] # n
          /\ Answers(t, "NotLeader")
          /\ UNCHANGED acked
    /\ peer' = With(t, Released(At(t)))
    /\ UNCHANGED <<plan, meta, cache, groups, local, used>>

(* The deadline of the request passes before its entry is applied, or before
   the leader finds a majority for it. *)
TimeOut(t) ==
    /\ \/ req[t].pc = "wait" /\ At(t).applied < req[t].idx
       \/ req[t].pc = "prepare" /\ leader[req[t].d.id] = req[t].at
    /\ \/ plan.slow \/ ~At(t).healthy \/ leader[req[t].d.id] # req[t].at
       \/ ~Majority(req[t].at, req[t].d.id)
    /\ Answers(t, "NotLeader") /\ peer' = With(t, Released(At(t)))
    /\ UNCHANGED <<plan, meta, cache, groups, local, acked, used>>

-----------------------------------------------------------------------------
(* Region peer: the apply thread. *)

Applied(p) == [p EXCEPT !.applied = @ + 1]

AlreadyWritten(n, r, i) == i <= disk[n].index[r]

(* A prepared write is skipped when the store has it, and stops the state
   machine when the key is not at the revision it was prepared for.  The
   range of the Region is not looked at. *)
ApplyPrepared(n, r, e) ==
    LET p == peer[n][r]
        i == p.applied + 1 IN
    /\ IF AlreadyWritten(n, r, i)
       THEN peer' = [peer EXCEPT ![n][r] = Applied(p)] /\ UNCHANGED disk
       ELSE IF Cardinality(Versions(n, r, KeyOf(e.w))) # e.rev
       THEN peer' = [peer EXCEPT ![n][r].healthy = FALSE] /\ UNCHANGED disk
       ELSE /\ peer' = [peer EXCEPT ![n][r] = Applied(p)]
            /\ disk' = [disk EXCEPT ![n].data[r] = @ \cup {e.w}, ![n].index[r] = i]
    /\ UNCHANGED <<node, mat, retire>>

(* The descriptor shrinks here; the data is left to a thread of its own,
   unless one is running. *)
ApplyAdminSplit(n, e) ==
    LET p == peer[n][1] IN
    /\ IF e.id <= p.split \/ SplitIgnored(p, e, disk[n].phase)
       THEN /\ peer' = [peer EXCEPT ![n][1] = [Applied(p) EXCEPT !.split = Max({@, e.id})]]
            /\ UNCHANGED <<disk, mat>>
       ELSE /\ peer' = [peer EXCEPT ![n][1] = [Applied(Shrunk(p, e)) EXCEPT !.split = e.id]]
            /\ disk' = [disk EXCEPT ![n].phase = Checkpointing]
            /\ mat' = IF mat[n].pc = "idle" THEN [mat EXCEPT ![n] = Thread(disk[n].phase)] ELSE mat
    /\ UNCHANGED <<node, retire>>

(* The change takes effect; a peer that removes itself retires, and is
   stopped when no handle is counted.  A scenario has one change, so its
   number is never taken for a duplicate. *)
ApplyConfChange(n, r, e) ==
    LET p == peer[n][r]
        q == Applied(ConfApplied(p, e))
        gone == e.change = "remove" /\ IsTargetSelf(p, e) IN
    /\ IF ~ConfMatches(p, e)
       THEN peer' = [peer EXCEPT ![n][r] = Applied(p)] /\ UNCHANGED retire
       ELSE /\ peer' = [peer EXCEPT ![n][r] = IF gone THEN Retiring(q) ELSE q]
            /\ retire' = IF ~gone THEN retire
                         ELSE IF p.inflight = 0 THEN [retire EXCEPT ![n].apply = "mark"]
                         ELSE [retire EXCEPT ![n].callback = "find"]
    /\ UNCHANGED <<node, disk, mat>>

GetCommandFromRaft(n, r) ==
    LET p == peer[n][r]
        e == log[r][p.applied + 1] IN
    /\ p.state # "None" /\ p.healthy /\ p.applied < p.told /\ retire[n].apply = "idle"
    /\ \/ e.op = "put"   /\ ApplyPrepared(n, r, e)
       \/ e.op = "split" /\ ApplyAdminSplit(n, e)
       \/ e.op = "conf"  /\ ApplyConfChange(n, r, e)
    /\ UNCHANGED <<plan, meta, cache, req, groups, acked, used>>

(* The process of a node ends: clients see a failure of the transport. *)
AtServer == {"lookup", "acquire", "check", "prepare", "wait"}
Disconnected(n) ==
    [t \in Client |-> IF req[t].at = n /\ req[t].pc \in AtServer
                      THEN [req[t] EXCEPT !.pc = "reply", !.kind = "Transport", !.idx = 0]
                      ELSE req[t]]
NoRetirement == [apply |-> "idle", callback |-> "idle", rpc |-> "idle"]
Gone(n) ==
    /\ req' = Disconnected(n)
    /\ leader' = [r \in RegionIds |-> IF leader[r] = n THEN 0 ELSE leader[r]]
    /\ mat' = [mat EXCEPT ![n] = NoThread]
    /\ retire' = [retire EXCEPT ![n] = NoRetirement]

(* MarkStopped on the apply thread; a handle that is counted by now makes it
   throw, which nothing on that thread catches. *)
MarkStopped(n) ==
    /\ retire[n].apply = "mark"
    /\ IF MayStop(peer[n][1])
       THEN /\ peer' = [peer EXCEPT ![n][1].state = "Stopped"]
            /\ retire' = [retire EXCEPT ![n].apply = "idle", ![n].callback = "find"]
            /\ UNCHANGED <<req, leader, node, mat>>
       ELSE /\ Gone(n)
            /\ node' = [node EXCEPT ![n] = NoNode]
            /\ peer' = [peer EXCEPT ![n] = [r \in RegionIds |-> NoPeer]]
    /\ UNCHANGED <<plan, meta, cache, log, disk, acked, used>>

-----------------------------------------------------------------------------
(* The split thread of Region 1. *)

Steps(n, pc) == mat' = [mat EXCEPT ![n] = IF pc = "idle" THEN NoThread ELSE [@ EXCEPT !.pc = pc]]
SplitStep(n, from) ==
    /\ mat[n].pc = from
    /\ UNCHANGED <<plan, meta, cache, req, groups, retire, acked>>

CreateCheckpoint(n) ==
    /\ SplitStep(n, "checkpoint")
    /\ disk' = [disk EXCEPT ![n].pending[mat[n].gen] = disk[n].data[1]]
    /\ Steps(n, "ready")
    /\ UNCHANGED <<node, peer, used>>

CheckpointFails(n) ==
    /\ SplitStep(n, "checkpoint") /\ Left("diskfails")
    /\ disk' = [disk EXCEPT ![n].pending[mat[n].gen] = Absent]
    /\ Steps(n, "idle")
    /\ used' = Used("diskfails")
    /\ UNCHANGED <<node, peer>>

WriteSplitState(n) ==
    /\ \E s \in {<<"ready", ChildReady, "rename">>, <<"shrunk", ParentShrunk, "clean">>,
                 <<"done", Complete, "announce">>} :
         /\ SplitStep(n, s[1])
         /\ disk' = [disk EXCEPT ![n].phase = s[2]]
         /\ Steps(n, s[3])
    /\ UNCHANGED <<node, peer, used>>

(* The checkpoint becomes the directory of the child, unless there is one;
   the left part goes, and so does the index of the parent's log. *)
RenameChild(n) ==
    /\ SplitStep(n, "rename")
    /\ LET from == IF disk[n].data[2] # Absent THEN disk[n].data[2]
                   ELSE disk[n].pending[mat[n].gen] IN
       IF from = Absent THEN Steps(n, "idle") /\ UNCHANGED disk
       ELSE /\ disk' = [disk EXCEPT ![n].data[2] = RightOf(from, SplitKey, plan.key),
                                    ![n].index[2] = 0,
                                    ![n].pending[mat[n].gen] =
                                        IF disk[n].data[2] = Absent THEN Absent ELSE @]
            /\ Steps(n, "shrunk")
    /\ UNCHANGED <<node, peer, used>>

CleanParent(n) ==
    /\ SplitStep(n, "clean")
    /\ disk' = [disk EXCEPT ![n].data[1] = LeftOf(@, SplitKey, plan.key)]
    /\ Steps(n, "done")
    /\ UNCHANGED <<node, peer, used>>

IndexOf(n, d) == CHOOSE i \in DOMAIN d.peers : d.peers[i] = n
Opened(data)  == IF data = Absent THEN {} ELSE data
Child         == CHOOSE d \in plan.catalogs[plan.splitrev] : d.id = 2

(* NodeServer::MaterializeSplitChild: the child opens its store and starts;
   whether the registry takes it is not looked at.  The revision is that of
   the parent's descriptor, set by the split or by a boot after it. *)
MaterializeSplitChild(n) ==
    /\ SplitStep(n, "announce")
    /\ IF node[n].made THEN UNCHANGED <<node, peer, disk>>
       ELSE /\ node' = [node EXCEPT ![n].made = TRUE,
                                    ![n].rev = Max({@, plan.splitrev}),
                                    ![n].ids = IF plan.splitrev >= node[n].rev
                                               THEN @ \cup {2} ELSE @]
            /\ peer' = [peer EXCEPT ![n][2] = Created(Child, IndexOf(n, Child))]
            /\ disk' = [disk EXCEPT ![n].data[2] = Opened(@)]
    /\ Steps(n, "idle")
    /\ UNCHANGED used

-----------------------------------------------------------------------------
(* Retirement and mount of a replica of Region 1. *)

RetireGoes(n, k, pc) == retire' = [retire EXCEPT ![n][k] = pc]
RetireStep(n, k, from) ==
    /\ retire[n][k] = from
    /\ UNCHANGED <<plan, meta, cache, req, groups, mat, acked>>

(* RetireMigrationSource starts a retirement with the present revision. *)
RetireMigrationSource(n) ==
    /\ RetireStep(n, "rpc", "idle") /\ node[n].up /\ Left("retires")
    /\ n \in plan.sources
    /\ RetireGoes(n, "rpc", "find")
    /\ used' = Used("retires")
    /\ UNCHANGED <<node, peer, disk>>

(* The peer is looked for by the number its descriptor gives it now: another
   number, or none, ends the retirement.  The registry then drops it. *)
Found(n) == node[n].hosted /\ HasLocal(peer[n][1]) /\ LocalPeer(peer[n][1]) = n
Unregister(n, k) ==
    /\ RetireStep(n, k, "find")
    /\ IF Found(n) /\ meta >= node[n].rev /\ 1 \in node[n].ids
       THEN /\ node' = [node EXCEPT ![n].rev = meta, ![n].ids = @ \ {1}]
            /\ peer' = [peer EXCEPT ![n][1] = Retiring(@)]
            /\ RetireGoes(n, k, "drain")
       ELSE RetireGoes(n, k, "idle") /\ UNCHANGED <<node, peer>>
    /\ UNCHANGED <<disk, used>>

WaitForDrain(n, k) ==
    /\ RetireStep(n, k, "drain") /\ peer[n][1].inflight = 0
    /\ RetireGoes(n, k, "stop")
    /\ UNCHANGED <<node, peer, disk, used>>

DrainTimesOut(n, k) ==
    /\ RetireStep(n, k, "drain") /\ peer[n][1].inflight # 0 /\ Left("timeouts")
    /\ RetireGoes(n, k, "idle")
    /\ used' = Used("timeouts")
    /\ UNCHANGED <<node, peer, disk>>

(* MarkStopped of the registry: a handle counted since makes it throw, and
   the retirement ends there. *)
StopRetired(n, k) ==
    /\ RetireStep(n, k, "stop")
    /\ IF MayStop(peer[n][1])
       THEN peer' = [peer EXCEPT ![n][1].state = "Stopped"] /\ RetireGoes(n, k, "erase")
       ELSE RetireGoes(n, k, "idle") /\ UNCHANGED peer
    /\ UNCHANGED <<node, disk, used>>

(* The node forgets the peer, and a thread stops it and deletes its store:
   one step, for no scenario mounts the Region again in between. *)
DeleteStorageData(n, k) ==
    /\ RetireStep(n, k, "erase")
    /\ node' = [node EXCEPT ![n].hosted = FALSE]
    /\ peer' = [peer EXCEPT ![n][1] = [NoPeer EXCEPT !.inflight = peer[n][1].inflight]]
    /\ disk' = [disk EXCEPT ![n].data[1] = Absent, ![n].index[1] = 0]
    /\ RetireGoes(n, k, "idle")
    /\ UNCHANGED used

(* PrepareMigrationTarget: the replica is mounted at the membership that the
   others have once they applied its addition. *)
Mounted(n) == LET d == CHOOSE d \in Catalog.regions : d.id = 1 IN
              [d EXCEPT !.conf = @ + 1, !.peers = Append(@, n)]
MountMigrationPeer(n) ==
    /\ node[n].up /\ ~node[n].hosted /\ n \in plan.targets /\ Left("mounts")
    /\ n \notin Elements((CHOOSE d \in Catalog.regions : d.id = 1).peers)
    /\ peer' = [peer EXCEPT ![n][1] = Created(Mounted(n), IndexOf(n, Mounted(n)))]
    /\ disk' = [disk EXCEPT ![n].data[1] = Opened(@)]
    /\ node' = [node EXCEPT ![n].hosted = TRUE,
                            ![n].rev = Max({@, meta}),
                            ![n].ids = IF meta >= node[n].rev THEN @ \cup {1} ELSE @]
    /\ used' = Used("mounts")
    /\ UNCHANGED <<plan, meta, cache, req, groups, mat, retire, acked>>

-----------------------------------------------------------------------------
(* The operator's commands, and the process of a node. *)

PublishMeta ==
    /\ meta < Len(plan.catalogs)
    /\ meta' = meta + 1
    /\ UNCHANGED <<plan, cache, req, groups, peer, local, acked, used>>

Parent == CHOOSE d \in plan.catalogs[1] : d.id = 1

(* The split is proposed once its outcome is published, with the epoch of
   the Region before it. *)
ProposeAdminSplit(n) ==
    LET p == peer[n][1] IN
    /\ Left("splits") /\ meta >= plan.splitrev
    /\ leader[1] = n /\ Registered(n, 1) /\ p.state = "Serving" /\ HasLocal(p) /\ Majority(n, 1)
    /\ ValidateIdentity(p, Header(Parent, 0, n)) = "None"
    /\ log' = [log EXCEPT ![1] = Append(@, [op |-> "split", id |-> p.asked + 1, parent |-> Parent,
                                            key |-> SplitKey])]
    /\ peer' = [peer EXCEPT ![n][1].told = Committed(1) + 1, ![n][1].asked = @ + 1]
    /\ used' = Used("splits")
    /\ UNCHANGED <<plan, meta, cache, req, leader, local, acked>>

HasConfChangeInFlight(n, r) ==
    \E i \in (peer[n][r].applied + 1) .. Committed(r) : log[r][i].op = "conf"

ProposeConfChange(n) ==
    LET p == peer[n][1]
        c == plan.confs[used.proposed + 1] IN
    /\ used.proposed < Len(plan.confs)
    /\ leader[1] = n /\ Registered(n, 1) /\ p.state = "Serving" /\ HasLocal(p) /\ Majority(n, 1)
    /\ ~HasConfChangeInFlight(n, 1)
    /\ Proposed(n, 1, [op |-> "conf", change |-> c.change, peer |-> c.peer,
                       version |-> p.desc.version, conf |-> p.desc.conf])
    /\ used' = Used("proposed")
    /\ UNCHANGED <<plan, meta, cache, req, leader, local, acked>>

(* BootstrapNodeRegions: the Regions that the configuration of the node
   names, at their descriptors in the catalogue of now, or no node at all. *)
Booted(n, rev) ==
    LET old == Parent
        new == CHOOSE d \in plan.catalogs[rev] : d.id = 1
        me  == IndexOf(n, old) IN
    IF n \in Elements(old.peers) /\ me <= Len(new.peers)
    THEN [node |-> [up |-> TRUE, rev |-> rev, ids |-> {1}, hosted |-> TRUE, made |-> FALSE],
          peer |-> Created(new, me)]
    ELSE [node |-> NoNode, peer |-> NoPeer]

Restart(n) ==
    /\ Left("restarts") /\ n \in plan.crashers
    /\ Gone(n)
    /\ node' = [node EXCEPT ![n] = Booted(n, meta).node]
    /\ peer' = [peer EXCEPT ![n] = <<Booted(n, meta).peer, NoPeer>>]
    /\ disk' = [disk EXCEPT ![n].data[1] = IF Booted(n, meta).node.up THEN Opened(@) ELSE @]
    /\ used' = Used("restarts")
    /\ UNCHANGED <<plan, meta, cache, log, acked>>

-----------------------------------------------------------------------------
(* At the start the writes of plan.past, to different keys, are applied
   everywhere. *)
Init ==
    /\ plan \in RegionPlans
    /\ meta = plan.meta
    /\ table = [rev |-> 1, regions |-> plan.catalogs[1]]
    /\ invalid = {}
    /\ req = [t \in Client |-> Idle(plan.todo[t])]
    /\ log = <<[i \in DOMAIN plan.past |-> [op |-> "put", w |-> plan.past[i], rev |-> 0]], <<>>>>
    /\ leader = <<plan.led, 0>>
    /\ node = [n \in Node |-> IF n \in Elements(Parent.peers) THEN Booted(n, 1).node
                              ELSE [NoNode EXCEPT !.up = TRUE, !.rev = 1]]
    /\ peer = [n \in Node |->
                 <<[Booted(n, 1).peer EXCEPT !.told = Len(plan.past), !.applied = Len(plan.past)],
                   NoPeer>>]
    /\ disk = [n \in Node |->
                 [data  |-> <<IF n \in Elements(Parent.peers) THEN Elements(plan.past) ELSE Absent,
                              Absent>>,
                  index |-> <<Len(plan.past), 0>>, phase |-> 0,
                  pending |-> [g \in 1 .. 3 |-> Absent]]]
    /\ mat = [n \in Node |-> NoThread]
    /\ retire = [n \in Node |-> NoRetirement]
    /\ acked = Elements(plan.past)
    /\ used = [scanfails |-> 0, losses |-> 0, elections |-> 0, diskfails |-> 0, retires |-> 0,
               timeouts |-> 0, mounts |-> 0, splits |-> 0, proposed |-> 0, restarts |-> 0]

ClientStep(t) ==
    \/ Begin(t) \/ Resolve(t) \/ LookupOrRefresh(t) \/ ScanRegions(t) \/ ScanFails(t)
    \/ ReplaceInterval(t) \/ ClearInvalidated(t) \/ LookAgain(t) \/ Send(t) \/ Receive(t)
    \/ Lookup(t) \/ TryAcquireRequest(t) \/ Dispatch(t) \/ Prepare(t) \/ Finish(t) \/ TimeOut(t)

NodeStep(n) ==
    \/ \E r \in RegionIds : Elect(n, r) \/ LearnCommit(n, r) \/ GetCommandFromRaft(n, r)
    \/ MarkStopped(n)
    \/ CreateCheckpoint(n) \/ CheckpointFails(n) \/ WriteSplitState(n) \/ RenameChild(n)
    \/ CleanParent(n) \/ MaterializeSplitChild(n)
    \/ RetireMigrationSource(n) \/ MountMigrationPeer(n)
    \/ \E k \in {"callback", "rpc"} :
         \/ Unregister(n, k) \/ WaitForDrain(n, k) \/ DrainTimesOut(n, k)
         \/ StopRetired(n, k) \/ DeleteStorageData(n, k)
    \/ ProposeAdminSplit(n) \/ ProposeConfChange(n) \/ Restart(n)

Next ==
    \/ \E t \in Client : ClientStep(t)
    \/ \E n \in Node : NodeStep(n)
    \/ \E r \in RegionIds : StepDown(r)
    \/ PublishMeta

(* The scenarios marked live do not stop while something can move: every
   thread is run by its operating system, and all of them end. *)
Spec == Init /\ [][Next]_vars /\ WF_vars(plan.live /\ Next)

-----------------------------------------------------------------------------
(* Properties. *)

SplitAt == {i \in DOMAIN log[1] : log[1][i].op = "split"}
Stray(i) == log[1][i].op = "put" /\ KeyOf(log[1][i].w) >= SplitKey /\ \E s \in SplitAt : s < i

(* On one node at most one registered peer answers for a key, at every step
   of a split: the parent shrinks before the child is there
   (region_peer.cpp ApplyAdminSplit: "the single-owner invariant"). *)
SingleOwner ==
    \A n \in Node : \A k \in 1 .. 2 :
        Cardinality({r \in RegionIds : /\ Registered(n, r) /\ peer[n][r].state = "Serving"
                                       /\ Contains(peer[n][r].desc, k)}) <= 1

(* Whatever crash or failure meets the thread that moves the data, what a
   node wrote for entries ahead of the split stays in one of its two stores,
   and right of the split key it is in the child's once the child is there. *)
HistoryKept ==
    \A n \in Node : disk[n].data[1] # Absent =>
        \A i \in 1 .. disk[n].index[1] :
            log[1][i].op = "put" /\ ~Stray(i) =>
                /\ log[1][i].w \in disk[n].data[1] \cup disk[n].data[2]
                /\ (KeyOf(log[1][i].w) >= SplitKey /\ 2 \in node[n].ids) => log[1][i].w \in disk[n].data[2]

(* The writes that Region 1 took after its split. *)
Strayed == {log[1][i].w : i \in {i \in DOMAIN log[1] : Stray(i)}}

(* The peer answers the read of t. *)
Served(t) ==
    /\ req[t].pc = "wait" /\ Op(t).op = "get"
    /\ req'[t].pc = "reply" /\ req'[t].kind = "None"

(* A read whose peer still owns the key when it reads the store returns every
   write that was acknowledged before the read began, whichever Region took
   it, except writes that Region 1 took after its split.  TxnGet looks at the
   range before its barrier only: see ReadsAcrossSplit. *)
ReadsSeeAcknowledged ==
    [][\A t \in Client :
         Served(t) /\ OwnsKey(At(t), Op(t).key) => req[t].floor \ Strayed \subseteq req'[t].got]_vars

(* The same of every read, also of one that a split overtakes between the
   look at the range and the read of the store.  The code does not have it. *)
ReadsAcrossSplit ==
    [][\A t \in Client : Served(t) => req[t].floor \ Strayed \subseteq req'[t].got]_vars

(* The table that all threads route by never goes back: not in its revision
   and not in the epoch of a Region, in whatever order the answers of
   concurrent refreshes are published. *)
CacheAdvances ==
    [][/\ table'.rev >= table.rev
       /\ \A d \in table.regions, e \in table'.regions :
            d.id = e.id => e.version >= d.version /\ e.conf >= d.conf]_vars

(* Every request ends, with an answer or an error: no thread waits for a
   refresh that nobody makes, or for a handle that is gone. *)
RequestsEnd == plan.live => <>[](\A t \in Client : req[t].pc = "idle" /\ req[t].todo = <<>>)

(* An acknowledged write is in the store of the Region that owns its key,
   once the child that takes over the key is registered and has applied its
   log. *)
AcknowledgedKept ==
    \A n \in Node : (2 \in node[n].ids /\ peer[n][2].applied = Committed(2)) =>
        \A w \in acked : KeyOf(w) >= SplitKey => w \in disk[n].data[2]

(* A replica that applied its own removal and has no retirement under way is
   out of the registry. *)
RemovedIsUnregistered ==
    \A n \in Node : peer[n][1].state \in {"Retiring", "Stopped"} /\ retire[n] = NoRetirement
                    => 1 \notin node[n].ids
=============================================================================
