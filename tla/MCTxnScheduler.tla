--------------------------- MODULE MCTxnScheduler ---------------------------
(***************************************************************************)
(* Instances of TxnScheduler for TLC: one Region, and a few calls.         *)
(***************************************************************************)
EXTENDS TxnScheduler, TLC

CONSTANTS x1, x2, x3, w1, w2

KeyCall(client, number, keys) ==
    [client |-> client, number |-> number, rpc |-> client # RecoveryClient,
     want |-> [region |-> 1, mode |-> "Keys", keys |-> keys]]
GcCall(number) ==
    [client |-> RecoveryClient, number |-> number, rpc |-> FALSE,
     want |-> [region |-> 1, mode |-> "RegionExclusive", keys |-> {}]]

Base == [calls |-> <<>>, workers |-> {w1}, keys |-> {1}, terms |-> 1, lost |-> 0,
         foreign |-> 0, retired |-> 0]

\* Writes of different keys, and a garbage collection of the Region.
Mixed ==
    [Base EXCEPT !.workers = {w1, w2},
       !.calls = x1 :> KeyCall("a", 1, {1}) @@ x2 :> KeyCall("b", 1, {2}) @@ x3 :> GcCall(1)]

\* Two writes of one key, a change of leader that loses the log's end, and a
\* Region that is retired.
Elections ==
    [Base EXCEPT !.calls = x1 :> KeyCall("a", 1, {1}) @@ x2 :> KeyCall("b", 1, {1}),
                 !.terms = 2, !.lost = 1, !.retired = 1]

\* Two writes of one key, and a write of another leader between them.
Foreign == [Elections EXCEPT !.lost = 0, !.foreign = 1, !.retired = 0]

\* A write, its retry, and a write of another client of the same key.
Retried ==
    [Base EXCEPT !.calls = x1 :> KeyCall("a", 1, {1}) @@ x2 :> KeyCall("a", 1, {1})
                             @@ x3 :> KeyCall("b", 1, {1})]

\* A write and a lock resolved by the recovery manager.
Recovered ==
    [Base EXCEPT !.calls = x1 :> KeyCall("a", 1, {1}) @@ x2 :> KeyCall(RecoveryClient, 1, {1}),
                 !.terms = 2, !.foreign = 1]

\* Two writes of one key, and a lost suffix of the log.
Lossy ==
    [Base EXCEPT !.calls = x1 :> KeyCall("a", 1, {1}) @@ x2 :> KeyCall("b", 1, {1}),
                 !.terms = 2, !.lost = 1]

\* The workers are interchangeable.
Symmetry == Permutations(Workers)
SafetyWorkloads ==
    {Mixed} \cup {[p EXCEPT !.workers = {w}] : p \in {Elections, Foreign}, w \in Workers}
LiveWorkloads == {Retried}
RecoveryWorkloads == {Recovered}
LossyWorkloads == {Lossy}
=============================================================================
