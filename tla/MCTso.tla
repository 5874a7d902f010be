------------------------------- MODULE MCTso -------------------------------
(***************************************************************************)
(* An instance of Tso for TLC.                                             *)
(***************************************************************************)
EXTENDS Tso, TLC

CONSTANTS n1, n2, n3, c1, c2

Symmetry == Permutations(Nodes) \cup Permutations(Caller)

Op(name, arg) == [op |-> name, arg |-> arg]

\* The first n calls are all out of `ops'.
Times(n, ops) == [i \in 1 .. n |-> ops]

\* Three allocations from two ranges, and an election between any two steps.
Allocations ==
    [calls |-> Times(3, {Op("Next", 0)}), terms |-> 2, restarts |-> 0, walls |-> {0},
     late |-> {}, atOnce |-> 2]

\* Every operation.
Operations ==
    [Allocations EXCEPT !.calls = Times(2, {Op("Next", 0), Op("Peek", 0), Op("Observe", 5)})]

\* Every operation, and a wall clock that jumps past the range.
Clocks == [Operations EXCEPT !.terms = 1, !.walls = {0, 2}]

\* A timestamp of the first range is observed while that range is allocated.
Observation ==
    [Allocations EXCEPT !.calls = Times(3, {Op("Next", 0), Op("Observe", 2)}), !.terms = 1]

\* A restart of any member at any time.
Restarts == [Allocations EXCEPT !.calls = Tail(@), !.restarts = 1]

\* The numbers run out: a range above the one observed does not fit.
Exhaustion == [Allocations EXCEPT !.calls = Times(1, {Op("Observe", MaxTimestamp - 2)})]

\* A member whose election comes late, with one call at a time.
Late ==
    [Allocations EXCEPT
       !.calls = Times(2, {Op("Next", 0)}) \o <<{Op("Next", 0), Op("Peek", 0)}>>,
       !.atOnce = 1, !.late = Nodes]

Workloads == {Allocations, Operations, Clocks, Observation, Restarts, Exhaustion, Late}
LateWorkloads == {Late}
ObserveWorkloads == {[Observation EXCEPT !.terms = 2]}

\* After the last election nobody asks how long ago a member heard of a leader,
\* unless it leads, or whether its timer has expired.
LastTerm == \E n \in Nodes : raft[n].term = plan.terms
View ==
    <<[n \in Nodes |->
         IF LastTerm /\ ~raft[n].leading
         THEN [raft[n] EXCEPT !.contact = 0, !.due = FALSE]
         ELSE raft[n]],
      log, proposals, tail, readyTerm, member, call, plan, seenVars>>
=============================================================================
