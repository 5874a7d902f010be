----------------------------- MODULE MCTopology -----------------------------
(***************************************************************************)
(* Two metadata nodes, three Stores and one Region with two peers.  Each   *)
(* workload combines administrator commands with the balancer and faults.  *)
(***************************************************************************)
EXTENDS Topology

MCAddr(s) == <<"a", "b", "c">>[s]
MCPeer(id, s) == [peer |-> id, store |-> s, addr |-> MCAddr(s), learner |-> FALSE]
MCRegions ==
    1 :> [start |-> 0, end |-> End, version |-> 1, conf |-> 1, leader |-> 1, split |-> NoSplit,
          peers |-> <<MCPeer(1, 1), MCPeer(2, 2)>>]

MCHeartbeat(s, expires, used) ==
    [kind |-> "ReportStoreHeartbeat", mutation |-> <<"heartbeat", s, 1>>, expectedRevision |-> 0,
     heartbeat |-> [store |-> s, sequence |-> 1, expires |-> expires, full |-> FALSE,
                    used |-> used, requests |-> 0,
                    regions |-> IF s = 3 THEN <<>>
                                ELSE 1 :> [epoch |-> [version |-> 1, conf |-> 1], leader |-> s = 1,
                                           bytes |-> 1, requests |-> 0, generation |-> 1]]]

\* Store 2 is loaded more than Store 3; Store 1 goes stale at the first tick,
\* Store 3 at the second.
MCSetup ==
    <<[kind |-> "Bootstrap", mutation |-> <<"bootstrap">>, expectedRevision |-> 0,
       regions |-> MCRegions, stores |-> [s \in 1 .. 3 |-> MCAddr(s)]],
      MCHeartbeat(1, 1, 20), MCHeartbeat(2, 9, 80), MCHeartbeat(3, 2, 10)>>

MCNone == [repeats |-> 0, timeouts |-> 0, evaluations |-> 0, reports |-> 0, restarts |-> 0,
           ticks |-> 0, elections |-> 0, crashes |-> 0]
MCLoad == [s \in {1} |-> [full |-> FALSE, used |-> 50, requests |-> 0, bytes |-> 1]]
MCPlan(tasks, bounds, stable) ==
    [tasks |-> tasks, left |-> bounds @@ MCNone, load |-> MCLoad, stable |-> stable,
     unanswered |-> FALSE, hooked |-> FALSE, ahead |-> {}]
MCHot(p) == [p EXCEPT !.load[1].bytes = 9]
MCUnanswered(p) == [p EXCEPT !.unanswered = TRUE]
MCHooked(p) == [p EXCEPT !.hooked = TRUE]
MCAhead(p) == [p EXCEPT !.ahead = {"admin"}]

MCSplit(key) == [kind |-> "split", region |-> 1, key |-> key]
MCMove == [kind |-> "move", region |-> 1, from |-> 1, to |-> 3]
MCCancel == [kind |-> "cancel"]
MCPause(b) == [kind |-> "config", paused |-> b]
MCRpc(command) == [kind |-> "rpc", command |-> command]

MCAllocate == MCRpc([kind |-> "AllocateIds", space |-> "peer", count |-> 2])
MCPutStore == MCRpc([kind |-> "PutStore", store |-> 4, addr |-> "d"])
MCReaddress == MCRpc([kind |-> "PutStore", store |-> 1, addr |-> "e"])
MCAck == MCRpc([kind |-> "AckSplit", children |-> {2}])
MCSplitAtOnce ==
    MCRpc([kind |-> "UpdateAutoBalancerConfig",
           config |-> [DefaultAutoBalancerConfig EXCEPT !.version = 0,
                                                        !.splitConsecutiveWindows = 1]])
MCReplace ==
    LET r == [MCRegions[1] EXCEPT !.version = 2]
        right == [r EXCEPT !.start = 2, !.leader = 11, !.peers = <<MCPeer(11, 1), MCPeer(12, 2)>>]
    IN MCRpc([kind |-> "ReplaceRegions", remove |-> {1},
              add |-> (1 :> [r EXCEPT !.end = 2]) @@ (11 :> right)])

MCWorkloads ==
    {MCPlan(<<MCSplit(2), MCMove>>, [repeats |-> 1, timeouts |-> 1], FALSE),
     MCPlan(<<MCSplit(2), MCSplit(1), MCAck>>, [repeats |-> 1, timeouts |-> 1], FALSE),
     MCPlan(<<MCMove, MCMove>>, [repeats |-> 1], FALSE),
     MCHooked(MCPlan(<<MCCancel>>, [evaluations |-> 2, ticks |-> 2], TRUE)),
     MCPlan(<<MCMove, MCCancel>>, [evaluations |-> 1], TRUE),
     MCAhead(MCPlan(<<MCCancel>>, [evaluations |-> 1, ticks |-> 1], TRUE)),
     MCPlan(<<MCCancel>>, [evaluations |-> 1, elections |-> 1, crashes |-> 1], FALSE),
     MCPlan(<<MCPause(TRUE)>>, [evaluations |-> 1, timeouts |-> 1], FALSE),
     MCPlan(<<MCPause(TRUE), MCPause(FALSE)>>, [evaluations |-> 1], FALSE),
     MCPlan(<<>>, [evaluations |-> 1, reports |-> 1, restarts |-> 1, ticks |-> 1], FALSE),
     MCPlan(<<>>, [evaluations |-> 1, reports |-> 2], FALSE),
     MCHot(MCPlan(<<MCSplitAtOnce>>, [evaluations |-> 1, reports |-> 1, timeouts |-> 1], FALSE)),
     MCHot(MCPlan(<<MCSplitAtOnce>>, [evaluations |-> 1, reports |-> 1], TRUE)),
     MCPlan(<<MCSplitAtOnce, MCMove, MCPause(TRUE)>>, [repeats |-> 2], FALSE),
     MCUnanswered(MCPlan(<<MCMove>>, [repeats |-> 1, reports |-> 1], FALSE)),
     MCPlan(<<MCAllocate, MCReplace, MCSplit(1)>>, [repeats |-> 1], FALSE),
     MCPlan(<<MCPutStore, MCMove>>, [repeats |-> 1], FALSE),
     MCPlan(<<MCReaddress, MCSplit(2), MCMove>>, [repeats |-> 1], FALSE)}
MCAheadWorkload == {MCAhead(MCPlan(<<MCCancel>>, [evaluations |-> 1, ticks |-> 1], TRUE))}
MCReaddressWorkload == {MCPlan(<<MCReaddress>>, <<>>, FALSE)}
=============================================================================
