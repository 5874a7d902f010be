-------------------------- MODULE TimestampService --------------------------
(***************************************************************************)
(* What the timestamp oracle promises its callers (the TimestampOracle     *)
(* interface).  A call of Next that returns gets a timestamp no other call *)
(* gets, greater than every timestamp that had been returned or observed   *)
(* when the call began.  A call may fail instead, and a timestamp may be   *)
(* skipped.  The second promise may be waived for some of the callers.     *)
(***************************************************************************)
EXTENDS Integers

CONSTANTS
    Caller,     \* the callers, each with one call at a time
    Timestamps  \* the timestamps

VARIABLES
    issued,  \* the timestamps returned by Next
    bound,   \* the greatest timestamp returned or observed so far
    floor,   \* for a call in progress, the bound when it began
    excused  \* the callers whose timestamps need not be in order

serviceVars == <<issued, bound, floor>>

NoCall == -1

ServiceInit ==
    /\ issued = {}
    /\ bound = 0
    /\ floor = [c \in Caller |-> NoCall]

Call(c) ==
    /\ floor[c] = NoCall
    /\ floor' = [floor EXCEPT ![c] = bound]
    /\ UNCHANGED <<issued, bound>>

Raise(ts) == bound' = IF ts > bound THEN ts ELSE bound

ReturnNext(c) ==
    /\ floor[c] # NoCall
    /\ floor' = [floor EXCEPT ![c] = NoCall]
    /\ \E ts \in Timestamps \ issued :
         /\ ts > floor[c] \/ c \in excused
         /\ issued' = issued \cup {ts}
         /\ Raise(ts)

\* The end of Observe.
ReturnObserve(c) ==
    /\ floor[c] # NoCall
    /\ floor' = [floor EXCEPT ![c] = NoCall]
    /\ \E ts \in Timestamps : Raise(ts)
    /\ UNCHANGED issued

\* Calls that fail, several at once when a member stops, or that only read.
ReturnNothing(C) ==
    /\ \A c \in C : floor[c] # NoCall
    /\ floor' = [c \in Caller |-> IF c \in C THEN NoCall ELSE floor[c]]
    /\ UNCHANGED <<issued, bound>>

ServiceNext ==
    \/ \E c \in Caller : Call(c) \/ ReturnNext(c) \/ ReturnObserve(c)
    \/ \E C \in SUBSET Caller : ReturnNothing(C)

ServiceSpec == ServiceInit /\ [][ServiceNext]_serviceVars
=============================================================================
