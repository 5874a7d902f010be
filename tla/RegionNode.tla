----------------------------- MODULE RegionNode -----------------------------
(***************************************************************************)
(* What one storage node holds for its Regions: the registry               *)
(* (server/region_registry.cpp), the life cycle and the split of a Region  *)
(* peer (raft/region_peer.cpp), and the checks on a request                *)
(* (server/region_request_validator.cpp).                                  *)
(*                                                                         *)
(* A peer is a record: its life cycle, the handles on it, its descriptor   *)
(* and its index in it, the entries it knows committed, those it applied,  *)
(* whether its state machine still runs, the splits it proposed and the    *)
(* last number of a split it applied.                                      *)
(*                                                                         *)
(* A store is what the disk of a node keeps: the data of each Region (a    *)
(* set of writes, or Absent), the index of the last write in it, the file  *)
(* with the phase of the split, and the checkpoint directories that are    *)
(* not renamed yet, by generation.  A node is the revision and the Regions *)
(* of the registry's view, whether it hosts Region 1, and whether it       *)
(* mounted the child of a split.                                           *)
(***************************************************************************)
EXTENDS RegionCache

Absent == {0}        \* no such directory; writes are numbers above 0

Checkpointing == 1
ChildReady    == 2
ParentShrunk  == 3
Complete      == 4

NoRegion == [id |-> 0, start |-> 0, end |-> 0, version |-> 0, conf |-> 0, peers |-> <<>>]

NoPeer == [state |-> "None", inflight |-> 0, desc |-> NoRegion, me |-> 0, told |-> 0,
           applied |-> 0, healthy |-> TRUE, asked |-> 0, split |-> 0]

NoNode == [up |-> FALSE, rev |-> 0, ids |-> {}, hosted |-> FALSE, made |-> FALSE]

Created(d, me) == [NoPeer EXCEPT !.state = "Serving", !.desc = d, !.me = me]

-----------------------------------------------------------------------------
(* Life cycle. *)

(* BeginRetire: only a serving peer changes. *)
Retiring(p) == IF p.state = "Serving" THEN [p EXCEPT !.state = "Retiring"] ELSE p

(* MarkStopped throws when a handle is out. *)
MayStop(p) == p.state = "Stopped" \/ (p.state = "Retiring" /\ p.inflight = 0)

(* The descriptor of the peer itself, found by the index the peer was
   created with; a shorter list makes the look-up throw. *)
HasLocal(p)      == p.me <= Len(p.desc.peers)
LocalPeer(p)     == p.desc.peers[p.me]

-----------------------------------------------------------------------------
(* Checks on a request: a header names the peer and the epoch. *)

ValidateIdentity(p, h) ==
    CASE h.peer # LocalPeer(p) -> "PeerNotFound"
      [] h.peer = LocalPeer(p) /\ <<h.version, h.conf>> # <<p.desc.version, p.desc.conf>>
             -> "EpochNotMatch"
      [] OTHER -> "None"

ValidateRegionRequest(p, h, k) ==
    IF ValidateIdentity(p, h) # "None" THEN ValidateIdentity(p, h)
    ELSE IF Contains(p.desc, k) THEN "None" ELSE "KeyNotInRegion"

(* Raft calls pass between peers that are at most one split apart, and at
   the same membership. *)
ValidateRaftPeerRequest(p, h) ==
    /\ HasLocal(p)
    /\ h.peer = LocalPeer(p)
    /\ \E i \in DOMAIN p.desc.peers : p.desc.peers[i] = h.from
    /\ h.conf = p.desc.conf
    /\ h.version \in {p.desc.version, p.desc.version - 1, p.desc.version + 1}

-----------------------------------------------------------------------------
(* ApplyAdminSplit.  A command carries the parent it was made for and the
   split key; the child takes the rest of the range. *)

ExactMatch(p, c) ==
    /\ <<p.desc.version, p.desc.conf>> = <<c.parent.version, c.parent.conf>>
    /\ <<p.desc.start, p.desc.end>> = <<c.parent.start, c.parent.end>>
AlreadyShrunk(p, c) == p.desc.version = c.parent.version + 1 /\ p.desc.end = c.key

(* The epoch goes on, the range stays. *)
ShrunkVersionOnly(p, c) ==
    IF AlreadyShrunk(p, c) THEN p ELSE [p EXCEPT !.desc.version = c.parent.version + 1]

Shrunk(p, c) ==
    IF AlreadyShrunk(p, c) THEN p
    ELSE [p EXCEPT !.desc.end = c.key, !.desc.version = c.parent.version + 1]

(* The apply is refused, or finds a split that is complete. *)
SplitIgnored(p, c, phase) ==
    \/ ~ExactMatch(p, c) /\ ~AlreadyShrunk(p, c)
    \/ AlreadyShrunk(p, c) /\ phase = Complete

(* A thread that trusts the phase of an earlier start one step too far. *)
ThreadAhead(phase) ==
    [from |-> phase, gen |-> 1,
     pc   |-> CASE phase = 0            -> "checkpoint"
                [] phase < ParentShrunk -> "clean"
                [] OTHER                -> "announce"]

(* Thread that moves the data: the phase it was started from picks the
   first step, and is taken for the generation as well. *)
Thread(phase) ==
    [from |-> phase,
     gen  |-> IF phase > 0 THEN phase ELSE 1,
     pc   |-> CASE phase < ChildReady   -> "checkpoint"
                [] phase = ChildReady   -> "rename"
                [] phase = ParentShrunk -> "clean"
                [] OTHER                -> "announce"]

NoThread == [from |-> 0, gen |-> 0, pc |-> "idle"]

RightOf(writes, key, keyOf) == {w \in writes : keyOf[w] >= key}
LeftOf(writes, key, keyOf)  == {w \in writes : keyOf[w] < key}

-----------------------------------------------------------------------------
(* ApplyConfChange; the index of the peer in its own descriptor is not
   looked up again.  Learners and voters are told apart in Raft.tla only. *)
ConfMatches(p, c) == p.desc.version = c.version /\ p.desc.conf = c.conf

IsTargetSelf(p, c) == HasLocal(p) /\ LocalPeer(p) = c.peer

ConfApplied(p, c) ==
    [p EXCEPT !.desc.conf = @ + 1,
              !.desc.peers =
                CASE c.change = "remove" -> SelectSeq(@, LAMBDA q : q # c.peer)
                  [] c.change = "add" /\ c.peer \notin {@[i] : i \in DOMAIN @} -> Append(@, c.peer)
                  [] OTHER -> @]
=============================================================================
