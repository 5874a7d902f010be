---------------------------- MODULE NodeLatches ----------------------------
(***************************************************************************)
(* The latch table of one storage node (NodeLatchManager).  A command asks *)
(* either for a set of keys of a Region or for the whole Region, is queued *)
(* behind the commands that asked before it, and owns everything it asked  *)
(* for or nothing.                                                         *)
(*                                                                         *)
(* Every entry point of the table runs under one mutex.  Acquire is one    *)
(* step.  Release is a step that gives the latches back and starts a pass  *)
(* over the waiting commands, GrantNext is one iteration of that pass, and *)
(* `releasing' is the command whose Release still holds the mutex.         *)
(*                                                                         *)
(* The hash slots only spread the resources over buckets, so the table is  *)
(* a function of the resource; an erased entry is one without an owner and *)
(* without waiters.  The counters of the table are left out.               *)
(***************************************************************************)
EXTENDS Naturals, Sequences, FiniteSets

CONSTANTS
    Regions,     \* the Regions hosted by the node
    Keys,        \* the keys of a Region
    MaxCommand   \* bound: command ids are 1 .. MaxCommand

ASSUME MaxCommandAssumption == MaxCommand \in Nat

VARIABLES
    want,             \* what each command asked for
    waiting,          \* the registered commands that own nothing yet
    held,             \* the registered commands that own what they asked for
    owner,            \* the owner of a (Region, key), 0 for none
    waiters,          \* the queue of a (Region, key)
    exclusiveOwner,   \* the owner of a whole Region, 0 for none
    activeKeyOwners,  \* how many commands own keys of a Region
    exclusiveWaiters, \* the queue for a whole Region
    releasing,        \* the command being released, 0 when the mutex is free
    candidates,       \* the waiting commands the pass has still to try
    ready             \* the commands the pass has granted, in order

gateVars == <<exclusiveOwner, activeKeyOwners, exclusiveWaiters>>
tableVars == <<waiting, held, owner, waiters, gateVars>>
passVars == <<releasing, candidates, ready>>
latchVars == <<want, tableVars, passVars>>

Command == 1 .. MaxCommand
ResourceId == Regions \X Keys
Want == [region : Regions, mode : {"Keys", "RegionExclusive"}, keys : SUBSET Keys]
NoWant == [mode |-> "None", keys |-> {}]

\* The requests a caller may make: a key latch needs at least one key.
WellFormed(w) == w.mode = "Keys" <=> w.keys # {}

Resources(w) == {w.region} \X w.keys
Registered(c) == c \in waiting \cup held

LatchInit ==
    /\ want = [c \in Command |-> NoWant]
    /\ waiting = {}
    /\ held = {}
    /\ owner = [x \in ResourceId |-> 0]
    /\ waiters = [x \in ResourceId |-> <<>>]
    /\ exclusiveOwner = [r \in Regions |-> 0]
    /\ activeKeyOwners = [r \in Regions |-> 0]
    /\ exclusiveWaiters = [r \in Regions |-> <<>>]
    /\ releasing = 0
    /\ candidates = {}
    /\ ready = <<>>

IsFront(c, queue) == queue # <<>> /\ Head(queue) = c

\* Mutant of CanGrantRegion: the owners of keys are not counted.
CanGrantRegionUncounted(c, w, regionQueue) ==
    exclusiveOwner[w.region] = 0 /\ IsFront(c, regionQueue[w.region])

CanGrantRegion(c, w, regionQueue) ==
    /\ exclusiveOwner[w.region] = 0
    /\ activeKeyOwners[w.region] = 0
    /\ IsFront(c, regionQueue[w.region])

NoEarlierExclusive(c, queue) == ~(queue # <<>> /\ Head(queue) < c)

CanGrantKeys(c, w, keyQueue, regionQueue) ==
    /\ exclusiveOwner[w.region] = 0
    /\ NoEarlierExclusive(c, regionQueue[w.region])
    /\ \A x \in Resources(w) : owner[x] = 0 /\ IsFront(c, keyQueue[x])

CanGrant(c, w, keyQueue, regionQueue) ==
    IF w.mode = "RegionExclusive"
    THEN CanGrantRegion(c, w, regionQueue)
    ELSE CanGrantKeys(c, w, keyQueue, regionQueue)

GrantRegion(c, w, keyQueue, regionQueue) ==
    /\ exclusiveWaiters' = [regionQueue EXCEPT ![w.region] = Tail(@)]
    /\ exclusiveOwner' = [exclusiveOwner EXCEPT ![w.region] = c]
    /\ waiters' = keyQueue
    /\ UNCHANGED <<owner, activeKeyOwners>>

GrantKeys(c, w, keyQueue, regionQueue) ==
    /\ waiters' = [x \in ResourceId |->
                       IF x \in Resources(w) THEN Tail(keyQueue[x]) ELSE keyQueue[x]]
    /\ owner' = [x \in ResourceId |-> IF x \in Resources(w) THEN c ELSE owner[x]]
    /\ activeKeyOwners' = [activeKeyOwners EXCEPT ![w.region] = @ + 1]
    /\ exclusiveWaiters' = regionQueue
    /\ UNCHANGED exclusiveOwner

\* A successful TryGrantLocked, on the queues given.
Grant(c, w, keyQueue, regionQueue) ==
    /\ held' = held \cup {c}
    /\ waiting' = waiting \ {c}
    /\ \/ w.mode = "RegionExclusive" /\ GrantRegion(c, w, keyQueue, regionQueue)
       \/ w.mode = "Keys" /\ GrantKeys(c, w, keyQueue, regionQueue)

\* The queues once command c, asking for w, stands at their end.
KeyQueue(c, w) ==
    [x \in ResourceId |-> IF x \in Resources(w) THEN Append(waiters[x], c) ELSE waiters[x]]
RegionQueue(c, w) ==
    IF w.mode = "RegionExclusive"
    THEN [exclusiveWaiters EXCEPT ![w.region] = Append(@, c)]
    ELSE exclusiveWaiters

Acquire(c, w) ==
    /\ releasing = 0
    /\ ~Registered(c)
    /\ want' = [want EXCEPT ![c] = w]
    /\ \/ /\ CanGrant(c, w, KeyQueue(c, w), RegionQueue(c, w))
          /\ Grant(c, w, KeyQueue(c, w), RegionQueue(c, w))
       \/ /\ ~CanGrant(c, w, KeyQueue(c, w), RegionQueue(c, w))
          /\ waiting' = waiting \cup {c}
          /\ waiters' = KeyQueue(c, w)
          /\ exclusiveWaiters' = RegionQueue(c, w)
          /\ UNCHANGED <<held, owner, exclusiveOwner, activeKeyOwners>>
    /\ UNCHANGED passVars

\* A command stands at most once in a queue.
Position(queue, c) == CHOOSE i \in DOMAIN queue : queue[i] = c
Without(queue, c) ==
    IF c \in {queue[i] : i \in DOMAIN queue}
    THEN [i \in 1 .. Len(queue) - 1 |->
              IF i < Position(queue, c) THEN queue[i] ELSE queue[i + 1]]
    ELSE queue

ReleaseHeld(c) ==
    LET w == want[c] IN
    /\ exclusiveOwner' =
         [r \in Regions |-> IF /\ w.mode = "RegionExclusive"
                               /\ r = w.region
                               /\ exclusiveOwner[r] = c
                            THEN 0 ELSE exclusiveOwner[r]]
    /\ owner' = [x \in ResourceId |->
                    IF x \in Resources(w) /\ owner[x] = c THEN 0 ELSE owner[x]]
    /\ activeKeyOwners' =
         [r \in Regions |-> IF w.mode = "Keys" /\ r = w.region /\ activeKeyOwners[r] > 0
                            THEN activeKeyOwners[r] - 1 ELSE activeKeyOwners[r]]
    /\ UNCHANGED <<waiters, exclusiveWaiters>>

ReleaseWaiting(c) ==
    LET w == want[c] IN
    /\ waiters' = [x \in ResourceId |->
                      IF x \in Resources(w) THEN Without(waiters[x], c) ELSE waiters[x]]
    /\ exclusiveWaiters' =
         [r \in Regions |-> IF w.mode = "RegionExclusive" /\ r = w.region
                            THEN Without(exclusiveWaiters[r], c) ELSE exclusiveWaiters[r]]
    /\ UNCHANGED <<owner, exclusiveOwner, activeKeyOwners>>

\* Release and Cancel are the same function; the pass follows in GrantNext.
Release(c) ==
    /\ releasing = 0
    /\ Registered(c)
    /\ held' = held \ {c}
    /\ waiting' = waiting \ {c}
    /\ \/ c \in held /\ ReleaseHeld(c)
       \/ c \notin held /\ ReleaseWaiting(c)
    /\ releasing' = c
    /\ candidates' = waiting \ {c}
    /\ ready' = <<>>
    /\ UNCHANGED want

\* Mutant of GrantNext: the pass stops after the first command it grants.
GrantNextOnce ==
    /\ releasing # 0
    /\ candidates # {}
    /\ \E c \in candidates :
         /\ \A d \in candidates : c <= d
         /\ \/ /\ CanGrant(c, want[c], waiters, exclusiveWaiters)
               /\ Grant(c, want[c], waiters, exclusiveWaiters)
               /\ ready' = Append(ready, c)
               /\ candidates' = {}
            \/ /\ ~CanGrant(c, want[c], waiters, exclusiveWaiters)
               /\ candidates' = candidates \ {c}
               /\ UNCHANGED <<tableVars, ready>>
    /\ UNCHANGED <<want, releasing>>

Lowest(commands) == CHOOSE c \in commands : \A d \in commands : c <= d

\* One iteration of GrantReadyLocked, in ascending order of the command ids.
GrantNext ==
    /\ releasing # 0
    /\ candidates # {}
    /\ LET c == Lowest(candidates) IN
         /\ candidates' = candidates \ {c}
         /\ \/ /\ CanGrant(c, want[c], waiters, exclusiveWaiters)
               /\ Grant(c, want[c], waiters, exclusiveWaiters)
               /\ ready' = Append(ready, c)
            \/ /\ ~CanGrant(c, want[c], waiters, exclusiveWaiters)
               /\ UNCHANGED <<tableVars, ready>>
    /\ UNCHANGED <<want, releasing>>

\* Release returns the granted commands and gives up the mutex.
Return ==
    /\ releasing # 0
    /\ candidates = {}
    /\ releasing' = 0
    /\ ready' = <<>>
    /\ UNCHANGED <<want, tableVars, candidates>>

(***************************************************************************)
(* The table on its own: its callers register every command once, in any   *)
(* order, and release it when they please.                                 *)
(***************************************************************************)
LatchNext ==
    \/ \E c \in Command, w \in Want :
         want[c] = NoWant /\ WellFormed(w) /\ Acquire(c, w)
    \/ \E c \in Command : Release(c)
    \/ GrantNext
    \/ Return

LatchSpec == LatchInit /\ [][LatchNext]_latchVars

\* Every variable of the latch table has its type.
LatchTypeOK ==
    /\ want \in [Command -> Want \cup {NoWant}]
    /\ waiting \in SUBSET Command
    /\ held \in SUBSET Command
    /\ owner \in [ResourceId -> Command \cup {0}]
    /\ waiters \in [ResourceId -> Seq(Command)]
    /\ exclusiveOwner \in [Regions -> Command \cup {0}]
    /\ activeKeyOwners \in [Regions -> Nat]
    /\ exclusiveWaiters \in [Regions -> Seq(Command)]
    /\ releasing \in Command \cup {0}
    /\ candidates \in SUBSET Command
    /\ ready \in Seq(Command)

\* The tables of the latch manager say the same as the states of the commands:
\* a key is owned by the held command that asked for it, a Region counts its held
\* key commands, and a command is queued where it asked exactly while it waits.
TablesAgree ==
    /\ \A x \in ResourceId : \A c \in Command :
         /\ owner[x] = c <=> c \in held /\ x \in Resources(want[c])
         /\ c \in {waiters[x][i] : i \in DOMAIN waiters[x]}
              <=> c \in waiting /\ x \in Resources(want[c])
    /\ \A r \in Regions :
         activeKeyOwners[r] =
           Cardinality({c \in held : want[c].mode = "Keys" /\ want[c].region = r})

Conflict(v, w) ==
    /\ v.region = w.region
    /\ \/ v.mode = "RegionExclusive"
       \/ w.mode = "RegionExclusive"
       \/ v.keys \cap w.keys # {}

\* Two commands that hold latches never conflict: they share no key of a
\* Region, and a command that holds a whole Region is alone in it.  TryGrantLocked
\* counts the owners of keys and Release decrements the count, so this depends on
\* every grant, cancellation and release before.
LatchExclusion ==
    \A c, d \in held : c # d => ~Conflict(want[c], want[d])

\* No wake-up is missed: whenever the table's mutex is free, no waiting command
\* could be granted what it asks for.  GrantReadyLocked tries every command only
\* once, in the order of the ids and not in the order of the queues.
NoMissedGrant ==
    releasing = 0 =>
        \A c \in waiting : ~CanGrant(c, want[c], waiters, exclusiveWaiters)
=============================================================================
