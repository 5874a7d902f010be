------------------------- MODULE NodeLatchesProofs -------------------------
(***************************************************************************)
(* Proofs about the latch table, for every set of Regions and keys and     *)
(* every number of commands.  The tables are taken in two halves: Owners   *)
(* relates the owners and counters to the commands that hold latches,      *)
(* Queues relates the queues to the commands that wait.  A grant moves a   *)
(* command from the second to the first, also one that was queued only in  *)
(* passing, which is why both halves take the tables as parameters.        *)
(***************************************************************************)
EXTENDS NodeLatches, FiniteSetTheorems, SequenceTheorems, WellFoundedInduction, TLAPS

Asked(w) == w \in Want /\ WellFormed(w)

KeyOwners(wt, hold, r) == {c \in hold : wt[c].mode = "Keys" /\ wt[c].region = r}

Owners(wt, hold, own, exclusive, active) ==
    /\ hold \in SUBSET Command
    /\ own \in [ResourceId -> Command \cup {0}]
    /\ exclusive \in [Regions -> Command \cup {0}]
    /\ active \in [Regions -> Nat]
    /\ \A c \in hold : Asked(wt[c])
    /\ \A x \in ResourceId : \A c \in Command :
         own[x] = c <=> c \in hold /\ x \in Resources(wt[c])
    /\ \A r \in Regions : \A c \in Command :
         exclusive[r] = c
           <=> c \in hold /\ wt[c].mode = "RegionExclusive" /\ wt[c].region = r
    /\ \A r \in Regions : active[r] = Cardinality(KeyOwners(wt, hold, r))
    /\ \A r \in Regions : exclusive[r] # 0 => active[r] = 0

InQueue(q) == {q[i] : i \in DOMAIN q}

\* A queue holds each command of S once, and no other.
QueueOf(q, S) ==
    /\ q \in Seq(Command)
    /\ \A i, j \in DOMAIN q : q[i] = q[j] => i = j
    /\ InQueue(q) = S

KeyWaiters(wt, wait, x) == {c \in wait : x \in Resources(wt[c])}
RegionWaiters(wt, wait, r) ==
    {c \in wait : wt[c].mode = "RegionExclusive" /\ wt[c].region = r}

Queues(wt, wait, keyQueue, regionQueue) ==
    /\ wait \in SUBSET Command
    /\ keyQueue \in [ResourceId -> Seq(Command)]
    /\ regionQueue \in [Regions -> Seq(Command)]
    /\ \A c \in wait : Asked(wt[c])
    /\ \A x \in ResourceId : QueueOf(keyQueue[x], KeyWaiters(wt, wait, x))
    /\ \A r \in Regions : QueueOf(regionQueue[r], RegionWaiters(wt, wait, r))

\* CanGrant, with all tables as parameters.
Grantable(c, w, own, exclusive, active, keyQueue, regionQueue) ==
    /\ exclusive[w.region] = 0
    /\ w.mode = "RegionExclusive" =>
         active[w.region] = 0 /\ IsFront(c, regionQueue[w.region])
    /\ w.mode # "RegionExclusive" =>
         /\ NoEarlierExclusive(c, regionQueue[w.region])
         /\ \A x \in Resources(w) : own[x] = 0 /\ IsFront(c, keyQueue[x])

GrantableNow(c) ==
    Grantable(c, want[c], owner, exclusiveOwner, activeKeyOwners, waiters, exclusiveWaiters)

\* What the pass of GrantReadyLocked has established so far.
Passed ==
    /\ candidates \subseteq waiting
    /\ releasing = 0 => candidates = {}
    /\ \A c \in waiting \ candidates : ~GrantableNow(c)

LatchInv ==
    /\ want \in [Command -> Want \cup {NoWant}]
    /\ releasing \in Command \cup {0}
    /\ ready \in Seq(Command)
    /\ waiting \cap held = {}
    /\ Owners(want, held, owner, exclusiveOwner, activeKeyOwners)
    /\ Queues(want, waiting, waiters, exclusiveWaiters)
    /\ Passed

-----------------------------------------------------------------------------
(* Queues.                                                                 *)

LEMMA CommandFacts == Command \subseteq Nat /\ 0 \notin Command
BY MaxCommandAssumption, SMTT(40) DEF Command

LEMMA LowestExists ==
    ASSUME NEW S \in SUBSET Nat, S # {}
    PROVE  \E d \in S : \A e \in S : d <= e
<1> DEFINE R == OpToRel(<, Nat)
<1>1. IsWellFoundedOn(R, Nat)
  BY NatLessThanWellFounded, ZenonT(40)
<1>2. PICK d \in S : \A e \in S : ~(<<e, d>> \in R)
  BY <1>1, WFMin, ZenonT(40)
<1>3. ASSUME NEW e \in S PROVE d <= e
  <2>1. d \in Nat /\ e \in Nat /\ <<e, d>> \notin R
    BY <1>2, ZenonT(40)
  <2>2. e < d => <<e, d>> \in R
    BY <2>1, ZenonT(40) DEF OpToRel
  <2>3. ~(e < d)
    BY <2>1, <2>2, ZenonT(40)
  <2>4. QED BY ONLY <2>3, S \in SUBSET Nat, d \in S, e \in S, SMTT(40)
<1>4. QED BY <1>3, ZenonT(40)

LEMMA QueueAppend ==
    ASSUME NEW q, NEW S, QueueOf(q, S), NEW c \in Command, c \notin S
    PROVE  QueueOf(Append(q, c), S \cup {c})
<1>1. /\ q \in Seq(Command) /\ Len(q) \in Nat /\ DOMAIN q = 1 .. Len(q)
      /\ Append(q, c) \in Seq(Command)
      /\ Len(Append(q, c)) = Len(q) + 1
      /\ DOMAIN Append(q, c) = 1 .. Len(q) + 1
      /\ \A i \in 1 .. Len(q) : Append(q, c)[i] = q[i]
      /\ Append(q, c)[Len(q) + 1] = c
  BY AppendProperties, LenProperties, SMTT(40) DEF QueueOf
<1>2. \A i \in 1 .. Len(q) : q[i] # c
  BY <1>1, ZenonT(40) DEF QueueOf, InQueue
<1>3. \A i, j \in DOMAIN Append(q, c) : Append(q, c)[i] = Append(q, c)[j] => i = j
  BY <1>1, <1>2, SMTT(40) DEF QueueOf
<1>4. InQueue(Append(q, c)) = S \cup {c}
  <2>1. \A d \in S : \E i \in 1 .. Len(q) : q[i] = d
    BY <1>1, ZenonT(40) DEF QueueOf, InQueue
  <2>2. \A i \in 1 .. Len(q) : q[i] \in S
    BY <1>1, ZenonT(40) DEF QueueOf, InQueue
  <2>3. \A d \in S \cup {c} : d \in InQueue(Append(q, c))
    <3>1. ASSUME NEW d \in S PROVE d \in InQueue(Append(q, c))
      BY <1>1, <2>1, SMTT(40) DEF InQueue
    <3>2. c \in InQueue(Append(q, c))
      BY <1>1, SMTT(40) DEF InQueue
    <3>3. QED BY <3>1, <3>2, ZenonT(40)
  <2>4. \A d \in InQueue(Append(q, c)) : d \in S \cup {c}
    BY <1>1, <2>2, SMTT(40) DEF InQueue
  <2>5. QED BY <2>3, <2>4, ZenonT(40)
<1>5. QED BY <1>1, <1>3, <1>4, ZenonT(40) DEF QueueOf

LEMMA QueueTail ==
    ASSUME NEW q, NEW S, QueueOf(q, S), NEW c, IsFront(c, q)
    PROVE  QueueOf(Tail(q), S \ {c})
<1>1. /\ q \in Seq(Command) /\ Len(q) \in Nat /\ DOMAIN q = 1 .. Len(q) /\ Len(q) > 0
      /\ q[1] = c
      /\ Tail(q) \in Seq(Command)
      /\ Len(Tail(q)) = Len(q) - 1
      /\ DOMAIN Tail(q) = 1 .. Len(q) - 1
      /\ \A i \in 1 .. Len(q) - 1 : Tail(q)[i] = q[i + 1]
  BY HeadTailProperties, LenProperties, EmptySeq, SMTT(40) DEF QueueOf, IsFront
<1>2. \A i \in 2 .. Len(q) : q[i] # c
  BY <1>1, SMTT(40) DEF QueueOf
<1>3. \A i, j \in DOMAIN Tail(q) : Tail(q)[i] = Tail(q)[j] => i = j
  BY <1>1, SMTT(40) DEF QueueOf
<1>4. InQueue(Tail(q)) = S \ {c}
  <2>1. ASSUME NEW d \in S \ {c} PROVE d \in InQueue(Tail(q))
    <3>1. PICK i \in 1 .. Len(q) : q[i] = d
      BY <1>1, SMTT(40) DEF QueueOf, InQueue
    <3>2. i - 1 \in 1 .. Len(q) - 1 /\ Tail(q)[i - 1] = d
      BY <1>1, <3>1, SMTT(40)
    <3>3. QED BY <1>1, <3>2, ZenonT(40) DEF InQueue
  <2>2. ASSUME NEW i \in DOMAIN Tail(q) PROVE Tail(q)[i] \in S \ {c}
    <3>1. i + 1 \in 2 .. Len(q) /\ Tail(q)[i] = q[i + 1]
      BY <1>1, SMTT(40)
    <3>2. q[i + 1] \in S
      BY <1>1, <3>1, SMTT(40) DEF QueueOf, InQueue
    <3>3. QED BY <1>2, <3>1, <3>2, ZenonT(40)
  <2>3. QED BY <2>1, <2>2, ZenonT(40) DEF InQueue
<1>5. QED BY <1>1, <1>3, <1>4, ZenonT(40) DEF QueueOf

LEMMA QueueWithout ==
    ASSUME NEW q, NEW S, QueueOf(q, S), NEW c \in S
    PROVE  QueueOf(Without(q, c), S \ {c})
<1> DEFINE k == Position(q, c)
           t == Without(q, c)
<1>1. q \in Seq(Command) /\ Len(q) \in Nat /\ DOMAIN q = 1 .. Len(q)
  BY LenProperties, ZenonT(40) DEF QueueOf
<1>2. c \in InQueue(q)
  BY ZenonT(40) DEF QueueOf
<1>3. k \in 1 .. Len(q) /\ q[k] = c
  BY <1>1, <1>2, ZenonT(40) DEF InQueue, Position
<1>4. \A i \in 1 .. Len(q) : q[i] = c => i = k
  BY <1>1, <1>3, ZenonT(40) DEF QueueOf
<1> HIDE DEF k
<1>5. t = [i \in 1 .. Len(q) - 1 |-> IF i < k THEN q[i] ELSE q[i + 1]]
  BY <1>2, ZenonT(40) DEF Without, InQueue, k
<1>6. \A i \in 1 .. Len(q) : q[i] \in Command
  BY <1>1, ElementOfSeq, ZenonT(40)
<1>7. /\ t \in Seq(Command) /\ DOMAIN t = 1 .. Len(q) - 1
      /\ \A i \in 1 .. Len(q) - 1 : t[i] = IF i < k THEN q[i] ELSE q[i + 1]
  <2>1. Len(q) - 1 \in Nat
    BY <1>1, <1>3, SMTT(40)
  <2>2. t \in [1 .. Len(q) - 1 -> Command]
    BY <1>1, <1>5, <1>6, SMTT(40)
  <2>3. t \in Seq(Command)
    BY <2>1, <2>2, SeqDef, ZenonT(40)
  <2>4. QED BY <1>5, <2>3, ZenonT(40)
<1> HIDE DEF t
<1>8. ASSUME NEW i \in DOMAIN t, NEW j \in DOMAIN t, t[i] = t[j] PROVE i = j
  <2>1. \A a, b \in 1 .. Len(q) : q[a] = q[b] => a = b
    BY <1>1, ZenonT(40) DEF QueueOf
  <2>2. i \in 1 .. Len(q) - 1 /\ j \in 1 .. Len(q) - 1
    BY <1>7, ZenonT(40)
  <2>3. CASE i < k /\ j < k
    BY <1>1, <1>3, <1>7, <1>8, <2>1, <2>2, <2>3, SMTT(40)
  <2>4. CASE i < k /\ ~(j < k)
    BY <1>1, <1>3, <1>7, <1>8, <2>1, <2>2, <2>4, SMTT(40)
  <2>5. CASE ~(i < k) /\ j < k
    BY <1>1, <1>3, <1>7, <1>8, <2>1, <2>2, <2>5, SMTT(40)
  <2>6. CASE ~(i < k) /\ ~(j < k)
    BY <1>1, <1>3, <1>7, <1>8, <2>1, <2>2, <2>6, SMTT(40)
  <2>7. QED BY <2>3, <2>4, <2>5, <2>6, ZenonT(40)
<1>9. InQueue(t) = S \ {c}
  <2>1. ASSUME NEW d \in S \ {c} PROVE d \in InQueue(t)
    <3>1. PICK i \in 1 .. Len(q) : q[i] = d
      BY <1>1, ZenonT(40) DEF QueueOf, InQueue
    <3>2. CASE i < k
      BY <1>1, <1>3, <1>7, <3>1, <3>2, SMTT(40) DEF InQueue
    <3>3. CASE ~(i < k)
      <4>1. i - 1 \in 1 .. Len(q) - 1 /\ t[i - 1] = d
        BY <1>1, <1>3, <1>7, <3>1, <3>3, SMTT(40)
      <4>2. QED BY <1>7, <4>1, ZenonT(40) DEF InQueue
    <3>4. QED BY <3>2, <3>3, ZenonT(40)
  <2>2. ASSUME NEW i \in DOMAIN t PROVE t[i] \in S \ {c}
    <3>1. PICK j \in 1 .. Len(q) : t[i] = q[j] /\ j # k
      BY <1>1, <1>3, <1>7, SMTT(40)
    <3>2. q[j] \in S
      BY <1>1, ZenonT(40) DEF QueueOf, InQueue
    <3>3. QED BY <1>4, <3>1, <3>2, ZenonT(40)
  <2>3. QED BY <2>1, <2>2, ZenonT(40) DEF InQueue
<1>10. QED BY <1>7, <1>8, <1>9, ZenonT(40) DEF QueueOf, t

-----------------------------------------------------------------------------
(* Owners.                                                                 *)

LEMMA AskedFacts ==
    ASSUME NEW w, Asked(w)
    PROVE  /\ w.region \in Regions
           /\ w.mode \in {"Keys", "RegionExclusive"}
           /\ Resources(w) \in SUBSET ResourceId
           /\ w.mode = "RegionExclusive" => Resources(w) = {}
           /\ \A x \in Resources(w) : x[1] = w.region
BY ZenonT(40) DEF Asked, Want, WellFormed, Resources, ResourceId

LEMMA KeyOwnersFinite ==
    ASSUME NEW wt, NEW hold \in SUBSET Command, NEW r
    PROVE  IsFiniteSet(KeyOwners(wt, hold, r)) /\ Cardinality(KeyOwners(wt, hold, r)) \in Nat
<1>1. IsFiniteSet(Command)
  BY FS_Interval, MaxCommandAssumption, SMTT(40) DEF Command
<1>2. KeyOwners(wt, hold, r) \subseteq Command
  BY ZenonT(40) DEF KeyOwners
<1>3. QED BY <1>1, <1>2, FS_Subset, FS_CardinalityType, ZenonT(40)

LEMMA OwnersWant ==
    ASSUME NEW wt, NEW hold, NEW own, NEW exclusive, NEW active,
           Owners(wt, hold, own, exclusive, active),
           NEW T, wt \in [Command -> T],
           NEW c \in Command, c \notin hold, NEW w
    PROVE  Owners([wt EXCEPT ![c] = w], hold, own, exclusive, active)
<1> DEFINE wt1 == [wt EXCEPT ![c] = w]
<1>1. \A d \in hold : wt1[d] = wt[d]
  BY SMTT(40) DEF Owners
<1>2. \A r \in Regions : KeyOwners(wt1, hold, r) = KeyOwners(wt, hold, r)
  BY <1>1, ZenonT(40) DEF KeyOwners
<1> HIDE DEF wt1
<1>3. \A d \in hold : Asked(wt1[d])
  BY <1>1, ZenonT(40) DEF Owners
<1>4. \A x \in ResourceId : \A d \in Command :
          own[x] = d <=> d \in hold /\ x \in Resources(wt1[d])
  BY <1>1, ZenonT(40) DEF Owners
<1>5. \A r \in Regions : \A d \in Command :
          exclusive[r] = d
            <=> d \in hold /\ wt1[d].mode = "RegionExclusive" /\ wt1[d].region = r
  BY <1>1, SMTT(40) DEF Owners
<1>6. \A r \in Regions : active[r] = Cardinality(KeyOwners(wt1, hold, r))
  BY <1>2, ZenonT(40) DEF Owners
<1>7. Owners(wt1, hold, own, exclusive, active)
  BY <1>3, <1>4, <1>5, <1>6, ZenonT(40) DEF Owners
<1>8. QED BY <1>7, ZenonT(40) DEF wt1

LEMMA OwnersGrantKeys ==
    ASSUME NEW wt, NEW hold, NEW own, NEW exclusive, NEW active,
           Owners(wt, hold, own, exclusive, active),
           NEW c \in Command, c \notin hold,
           Asked(wt[c]), wt[c].mode = "Keys",
           exclusive[wt[c].region] = 0,
           \A x \in Resources(wt[c]) : own[x] = 0
    PROVE  Owners(wt, hold \cup {c},
                  [x \in ResourceId |-> IF x \in Resources(wt[c]) THEN c ELSE own[x]],
                  exclusive, [active EXCEPT ![wt[c].region] = @ + 1])
<1> DEFINE w == wt[c]
           own1 == [x \in ResourceId |-> IF x \in Resources(w) THEN c ELSE own[x]]
           active1 == [active EXCEPT ![w.region] = @ + 1]
           hold1 == hold \cup {c}
<1>1. /\ w.region \in Regions /\ Resources(w) \in SUBSET ResourceId
  BY AskedFacts, ZenonT(40)
<1>2. /\ hold1 \in SUBSET Command
      /\ own1 \in [ResourceId -> Command \cup {0}]
      /\ active1 \in [Regions -> Nat]
      /\ \A d \in hold1 : Asked(wt[d])
  BY <1>1, SMTT(40) DEF Owners
<1>3. ASSUME NEW x \in ResourceId, NEW d \in Command
      PROVE  own1[x] = d <=> d \in hold1 /\ x \in Resources(wt[d])
  BY CommandFacts, SMTT(40) DEF Owners
<1>4. ASSUME NEW r \in Regions, NEW d \in Command
      PROVE  exclusive[r] = d
               <=> d \in hold1 /\ wt[d].mode = "RegionExclusive" /\ wt[d].region = r
  BY SMTT(40) DEF Owners
<1>5. ASSUME NEW r \in Regions PROVE active1[r] = Cardinality(KeyOwners(wt, hold1, r))
  <2>1. CASE r = w.region
    <3>1. KeyOwners(wt, hold1, r) = KeyOwners(wt, hold, r) \cup {c}
      BY <2>1, ZenonT(40) DEF KeyOwners
    <3>2. c \notin KeyOwners(wt, hold, r)
      BY ZenonT(40) DEF KeyOwners
    <3>3. Cardinality(KeyOwners(wt, hold1, r)) = Cardinality(KeyOwners(wt, hold, r)) + 1
      <4>1. hold \in SUBSET Command
        BY ZenonT(40) DEF Owners
      <4>2. IsFiniteSet(KeyOwners(wt, hold, r))
        BY <4>1, KeyOwnersFinite, ZenonT(40)
      <4> HIDE DEF hold1
      <4>3. QED BY <3>1, <3>2, <4>2, FS_AddElement, ZenonT(40)
    <3>4. active[r] = Cardinality(KeyOwners(wt, hold, r)) /\ active1[r] = active[r] + 1
      BY <1>1, <2>1, SMTT(40) DEF Owners
    <3>5. QED BY <3>3, <3>4, ZenonT(40)
  <2>2. CASE r # w.region
    <3>1. KeyOwners(wt, hold1, r) = KeyOwners(wt, hold, r)
      BY <2>2, ZenonT(40) DEF KeyOwners
    <3>2. QED BY <2>2, <3>1, SMTT(40) DEF Owners
  <2>3. QED BY <2>1, <2>2, ZenonT(40)
<1>6. ASSUME NEW r \in Regions, exclusive[r] # 0 PROVE active1[r] = 0
  BY <1>6, SMTT(40) DEF Owners
<1> HIDE DEF own1, active1, hold1
<1>7. Owners(wt, hold1, own1, exclusive, active1)
  BY <1>2, <1>3, <1>4, <1>5, <1>6, ZenonT(40) DEF Owners
<1>8. QED BY <1>7, ZenonT(40) DEF own1, active1, hold1

LEMMA OwnersGrantRegion ==
    ASSUME NEW wt, NEW hold, NEW own, NEW exclusive, NEW active,
           Owners(wt, hold, own, exclusive, active),
           NEW c \in Command, c \notin hold,
           Asked(wt[c]), wt[c].mode = "RegionExclusive",
           exclusive[wt[c].region] = 0,
           active[wt[c].region] = 0
    PROVE  Owners(wt, hold \cup {c}, own,
                  [exclusive EXCEPT ![wt[c].region] = c], active)
<1> DEFINE w == wt[c]
           exclusive1 == [exclusive EXCEPT ![w.region] = c]
           hold1 == hold \cup {c}
<1>1. w.region \in Regions /\ Resources(w) = {}
  BY AskedFacts, ZenonT(40)
<1>2. /\ hold1 \in SUBSET Command
      /\ exclusive1 \in [Regions -> Command \cup {0}]
      /\ \A d \in hold1 : Asked(wt[d])
  BY <1>1, ZenonT(40) DEF Owners
<1>3. ASSUME NEW x \in ResourceId, NEW d \in Command
      PROVE  own[x] = d <=> d \in hold1 /\ x \in Resources(wt[d])
  BY <1>1, ZenonT(40) DEF Owners
<1>4. ASSUME NEW r \in Regions, NEW d \in Command
      PROVE  exclusive1[r] = d
               <=> d \in hold1 /\ wt[d].mode = "RegionExclusive" /\ wt[d].region = r
  BY <1>1, CommandFacts, SMTT(40) DEF Owners
<1>5. ASSUME NEW r \in Regions PROVE active[r] = Cardinality(KeyOwners(wt, hold1, r))
  <2>1. KeyOwners(wt, hold1, r) = KeyOwners(wt, hold, r)
    BY ZenonT(40) DEF KeyOwners
  <2>2. QED BY <2>1, ZenonT(40) DEF Owners
<1>6. ASSUME NEW r \in Regions, exclusive1[r] # 0 PROVE active[r] = 0
  BY <1>1, <1>6, SMTT(40) DEF Owners
<1> HIDE DEF exclusive1, hold1
<1>7. Owners(wt, hold1, own, exclusive1, active)
  BY <1>2, <1>3, <1>4, <1>5, <1>6, ZenonT(40) DEF Owners
<1>8. QED BY <1>7, ZenonT(40) DEF exclusive1, hold1

HeldReleased(w, c, own, exclusive, active, own1, exclusive1, active1) ==
    /\ exclusive1 = [r \in Regions |->
          IF w.mode = "RegionExclusive" /\ r = w.region /\ exclusive[r] = c
          THEN 0 ELSE exclusive[r]]
    /\ own1 = [x \in ResourceId |->
          IF x \in Resources(w) /\ own[x] = c THEN 0 ELSE own[x]]
    /\ active1 = [r \in Regions |->
          IF w.mode = "Keys" /\ r = w.region /\ active[r] > 0
          THEN active[r] - 1 ELSE active[r]]

LEMMA OwnersRelease ==
    ASSUME NEW wt, NEW hold, NEW own, NEW exclusive, NEW active,
           Owners(wt, hold, own, exclusive, active),
           NEW c \in hold,
           NEW own1, NEW exclusive1, NEW active1,
           HeldReleased(wt[c], c, own, exclusive, active, own1, exclusive1, active1)
    PROVE  Owners(wt, hold \ {c}, own1, exclusive1, active1)
<1> DEFINE w == wt[c]
           hold1 == hold \ {c}
<1>1. /\ c \in Command /\ Asked(w) /\ w.region \in Regions
      /\ w.mode \in {"Keys", "RegionExclusive"}
      /\ w.mode = "RegionExclusive" => Resources(w) = {}
  BY AskedFacts, ZenonT(40) DEF Owners
<1>0. /\ exclusive1 = [r \in Regions |->
            IF w.mode = "RegionExclusive" /\ r = w.region /\ exclusive[r] = c
            THEN 0 ELSE exclusive[r]]
      /\ own1 = [x \in ResourceId |->
            IF x \in Resources(w) /\ own[x] = c THEN 0 ELSE own[x]]
      /\ active1 = [r \in Regions |->
            IF w.mode = "Keys" /\ r = w.region /\ active[r] > 0
            THEN active[r] - 1 ELSE active[r]]
  BY ZenonT(40) DEF HeldReleased
<1>2. /\ hold1 \in SUBSET Command
      /\ own1 \in [ResourceId -> Command \cup {0}]
      /\ exclusive1 \in [Regions -> Command \cup {0}]
      /\ active1 \in [Regions -> Nat]
      /\ \A d \in hold1 : Asked(wt[d])
  BY <1>0, SMTT(40) DEF Owners
<1>3. ASSUME NEW x \in ResourceId, NEW d \in Command
      PROVE  own1[x] = d <=> d \in hold1 /\ x \in Resources(wt[d])
  BY <1>0, <1>1, CommandFacts, ZenonT(40) DEF Owners
<1>4. ASSUME NEW r \in Regions, NEW d \in Command
      PROVE  exclusive1[r] = d
               <=> d \in hold1 /\ wt[d].mode = "RegionExclusive" /\ wt[d].region = r
  BY <1>0, <1>1, CommandFacts, SMTT(40) DEF Owners
<1>5. ASSUME NEW r \in Regions PROVE active1[r] = Cardinality(KeyOwners(wt, hold1, r))
  <2>0. hold \in SUBSET Command /\ active[r] = Cardinality(KeyOwners(wt, hold, r))
    BY ZenonT(40) DEF Owners
  <2>1. CASE w.mode = "Keys" /\ r = w.region
    <3>1. KeyOwners(wt, hold1, r) = KeyOwners(wt, hold, r) \ {c} /\ c \in KeyOwners(wt, hold, r)
      BY <2>1, ZenonT(40) DEF KeyOwners
    <3>2. Cardinality(KeyOwners(wt, hold1, r)) = Cardinality(KeyOwners(wt, hold, r)) - 1
      <4> DEFINE K == KeyOwners(wt, hold, r)
      <4>1. IsFiniteSet(K)
        BY <2>0, KeyOwnersFinite, ZenonT(40)
      <4> HIDE DEF K
      <4>2. Cardinality(K \ {c}) = IF c \in K THEN Cardinality(K) - 1 ELSE Cardinality(K)
        BY <4>1, FS_RemoveElement, ZenonT(40)
      <4>3. QED BY <3>1, <4>2, ZenonT(40) DEF K
    <3>3. Cardinality(KeyOwners(wt, hold1, r)) \in Nat /\ active[r] \in Nat
      BY <2>0, <1>2, KeyOwnersFinite, ZenonT(40)
    <3>4. QED BY <1>0, <2>0, <2>1, <3>2, <3>3, SMTT(40)
  <2>2. CASE ~(w.mode = "Keys" /\ r = w.region)
    <3>1. KeyOwners(wt, hold1, r) = KeyOwners(wt, hold, r)
      BY <2>2, ZenonT(40) DEF KeyOwners
    <3>2. QED BY <1>0, <2>0, <2>2, <3>1, ZenonT(40)
  <2>3. QED BY <2>1, <2>2, ZenonT(40)
<1>6. ASSUME NEW r \in Regions, exclusive1[r] # 0 PROVE active1[r] = 0
  BY <1>0, <1>6, SMTT(40) DEF Owners
<1> HIDE DEF hold1
<1>7. Owners(wt, hold1, own1, exclusive1, active1)
  BY <1>2, <1>3, <1>4, <1>5, <1>6, ZenonT(40) DEF Owners
<1>8. QED BY <1>7, ZenonT(40) DEF hold1

-----------------------------------------------------------------------------
(* Queues of all resources.                                                *)

KeyQueuesJoined(w, c, keyQueue, kq) ==
    kq = [x \in ResourceId |->
             IF x \in Resources(w) THEN Append(keyQueue[x], c) ELSE keyQueue[x]]

RegionQueuesJoined(w, c, regionQueue, rq) ==
    rq = IF w.mode = "RegionExclusive"
         THEN [regionQueue EXCEPT ![w.region] = Append(@, c)]
         ELSE regionQueue

LEMMA QueuesEnqueue ==
    ASSUME NEW wt, NEW wait, NEW keyQueue, NEW regionQueue,
           Queues(wt, wait, keyQueue, regionQueue),
           NEW c \in Command, c \notin wait, NEW w, Asked(w),
           NEW wt1, wt1[c] = w, \A d \in wait : wt1[d] = wt[d],
           NEW kq1, KeyQueuesJoined(w, c, keyQueue, kq1),
           NEW rq1, RegionQueuesJoined(w, c, regionQueue, rq1)
    PROVE  Queues(wt1, wait \cup {c}, kq1, rq1)
<1> DEFINE wait1 == wait \cup {c}
<1> USE DEF KeyQueuesJoined, RegionQueuesJoined
<1>1. w.region \in Regions
  BY AskedFacts, ZenonT(40)
<1>2. wait \in SUBSET Command /\ wt1[c] = w /\ \A d \in wait : wt1[d] = wt[d]
  BY ZenonT(40) DEF Queues
<1>3. wait1 \in SUBSET Command /\ \A d \in wait1 : Asked(wt1[d])
  BY <1>2, ZenonT(40) DEF Queues
<1>4. ASSUME NEW x \in ResourceId PROVE QueueOf(kq1[x], KeyWaiters(wt1, wait1, x))
  <2>1. QueueOf(keyQueue[x], KeyWaiters(wt, wait, x)) /\ c \notin KeyWaiters(wt, wait, x)
    BY ZenonT(40) DEF Queues, KeyWaiters
  <2>2. CASE x \in Resources(w)
    <3>1. KeyWaiters(wt1, wait1, x) = KeyWaiters(wt, wait, x) \cup {c}
      BY <1>2, <2>2, ZenonT(40) DEF KeyWaiters
    <3>2. QueueOf(Append(keyQueue[x], c), KeyWaiters(wt, wait, x) \cup {c})
      BY <2>1, QueueAppend, ZenonT(40)
    <3>3. QED BY <2>2, <3>1, <3>2, ZenonT(40)
  <2>3. CASE x \notin Resources(w)
    <3>1. KeyWaiters(wt1, wait1, x) = KeyWaiters(wt, wait, x)
      BY <1>2, <2>3, ZenonT(40) DEF KeyWaiters
    <3>2. QED BY <2>1, <2>3, <3>1, ZenonT(40)
  <2>4. QED BY <2>2, <2>3, ZenonT(40)
<1>5. ASSUME NEW r \in Regions PROVE QueueOf(rq1[r], RegionWaiters(wt1, wait1, r))
  <2>1. /\ QueueOf(regionQueue[r], RegionWaiters(wt, wait, r))
        /\ c \notin RegionWaiters(wt, wait, r)
        /\ regionQueue \in [Regions -> Seq(Command)]
    BY ZenonT(40) DEF Queues, RegionWaiters
  <2>2. CASE w.mode = "RegionExclusive" /\ r = w.region
    <3>1. RegionWaiters(wt1, wait1, r) = RegionWaiters(wt, wait, r) \cup {c}
      BY <1>2, <2>2, ZenonT(40) DEF RegionWaiters
    <3>2. rq1[r] = Append(regionQueue[r], c)
      BY <2>1, <2>2, ZenonT(40)
    <3>3. QueueOf(Append(regionQueue[r], c), RegionWaiters(wt, wait, r) \cup {c})
      BY <2>1, QueueAppend, ZenonT(40)
    <3>4. QED BY <3>1, <3>2, <3>3, ZenonT(40)
  <2>3. CASE ~(w.mode = "RegionExclusive" /\ r = w.region)
    <3>1. RegionWaiters(wt1, wait1, r) = RegionWaiters(wt, wait, r)
      BY <1>2, <2>3, ZenonT(40) DEF RegionWaiters
    <3>2. rq1[r] = regionQueue[r]
      BY <2>1, <2>3, ZenonT(40)
    <3>3. QED BY <2>1, <3>1, <3>2, ZenonT(40)
  <2>4. QED BY <2>2, <2>3, ZenonT(40)
<1>6. kq1 \in [ResourceId -> Seq(Command)]
  <2>1. \A x \in ResourceId : kq1[x] \in Seq(Command)
    BY <1>4, ZenonT(40) DEF QueueOf
  <2>2. QED BY <2>1, ZenonT(40)
<1>7. rq1 \in [Regions -> Seq(Command)]
  <2>1. \A r \in Regions : rq1[r] \in Seq(Command)
    BY <1>5, ZenonT(40) DEF QueueOf
  <2>2. \E S : rq1 \in [Regions -> S]
    <3>1. regionQueue \in [Regions -> Seq(Command)]
      BY ZenonT(40) DEF Queues
    <3>2. DOMAIN rq1 = Regions /\ rq1 = [r \in Regions |-> rq1[r]]
      BY <3>1, ZenonT(40)
    <3>3. QED BY <2>1, <3>2, ZenonT(40)
  <2>3. QED BY <2>1, <2>2, ZenonT(40)
<1> HIDE DEF wait1
<1>8. Queues(wt1, wait1, kq1, rq1)
  BY <1>3, <1>4, <1>5, <1>6, <1>7, ZenonT(40) DEF Queues
<1>9. QED BY <1>8, ZenonT(40) DEF wait1

KeyQueuesLeft(wt, wait, c, keyQueue, keyQueue1) ==
    \A x \in ResourceId :
        IF x \in Resources(wt[c])
        THEN QueueOf(keyQueue1[x], KeyWaiters(wt, wait, x) \ {c})
        ELSE keyQueue1[x] = keyQueue[x]

RegionQueuesLeft(wt, wait, c, regionQueue, regionQueue1) ==
    \A r \in Regions :
        IF wt[c].mode = "RegionExclusive" /\ wt[c].region = r
        THEN QueueOf(regionQueue1[r], RegionWaiters(wt, wait, r) \ {c})
        ELSE regionQueue1[r] = regionQueue[r]

\* A command leaves the queues it stands in, at their front or elsewhere.
LEMMA QueuesRemove ==
    ASSUME NEW wt, NEW wait, NEW keyQueue, NEW regionQueue,
           Queues(wt, wait, keyQueue, regionQueue),
           NEW c \in wait,
           NEW keyQueue1, keyQueue1 = [x \in ResourceId |-> keyQueue1[x]],
           NEW regionQueue1, regionQueue1 = [r \in Regions |-> regionQueue1[r]],
           KeyQueuesLeft(wt, wait, c, keyQueue, keyQueue1),
           RegionQueuesLeft(wt, wait, c, regionQueue, regionQueue1)
    PROVE  Queues(wt, wait \ {c}, keyQueue1, regionQueue1)
<1>1. ASSUME NEW x \in ResourceId
      PROVE  QueueOf(keyQueue1[x], KeyWaiters(wt, wait \ {c}, x))
  <2>1. QueueOf(keyQueue[x], KeyWaiters(wt, wait, x))
    BY ZenonT(40) DEF Queues
  <2>2. KeyWaiters(wt, wait \ {c}, x) = KeyWaiters(wt, wait, x) \ {c}
    BY ZenonT(40) DEF KeyWaiters
  <2>3. x \notin Resources(wt[c]) => KeyWaiters(wt, wait, x) \ {c} = KeyWaiters(wt, wait, x)
    BY ZenonT(40) DEF KeyWaiters
  <2>4. QED BY <2>1, <2>2, <2>3, ZenonT(40) DEF KeyQueuesLeft
<1>2. ASSUME NEW r \in Regions
      PROVE  QueueOf(regionQueue1[r], RegionWaiters(wt, wait \ {c}, r))
  <2>1. QueueOf(regionQueue[r], RegionWaiters(wt, wait, r))
    BY ZenonT(40) DEF Queues
  <2>2. RegionWaiters(wt, wait \ {c}, r) = RegionWaiters(wt, wait, r) \ {c}
    BY ZenonT(40) DEF RegionWaiters
  <2>3. ~(wt[c].mode = "RegionExclusive" /\ wt[c].region = r)
          => RegionWaiters(wt, wait, r) \ {c} = RegionWaiters(wt, wait, r)
    BY ZenonT(40) DEF RegionWaiters
  <2>4. QED BY <2>1, <2>2, <2>3, ZenonT(40) DEF RegionQueuesLeft
<1>3. keyQueue1 \in [ResourceId -> Seq(Command)]
  BY <1>1, ZenonT(40) DEF QueueOf
<1>4. regionQueue1 \in [Regions -> Seq(Command)]
  BY <1>2, ZenonT(40) DEF QueueOf
<1>5. QED BY <1>1, <1>2, <1>3, <1>4, ZenonT(40) DEF Queues

LEMMA QueuesGrantKeys ==
    ASSUME NEW wt, NEW wait, NEW keyQueue, NEW regionQueue,
           Queues(wt, wait, keyQueue, regionQueue),
           NEW c \in wait, wt[c].mode = "Keys",
           \A x \in Resources(wt[c]) : IsFront(c, keyQueue[x]),
           NEW keyQueue1,
           keyQueue1 = [x \in ResourceId |->
                           IF x \in Resources(wt[c]) THEN Tail(keyQueue[x]) ELSE keyQueue[x]]
    PROVE  Queues(wt, wait \ {c}, keyQueue1, regionQueue)
<1>1. ASSUME NEW x \in ResourceId, x \in Resources(wt[c])
      PROVE  QueueOf(keyQueue1[x], KeyWaiters(wt, wait, x) \ {c})
  <2>1. QueueOf(keyQueue[x], KeyWaiters(wt, wait, x))
    BY ZenonT(40) DEF Queues
  <2>2. QED BY <1>1, <2>1, QueueTail, ZenonT(40)
<1>2. regionQueue = [r \in Regions |-> regionQueue[r]]
  BY ZenonT(40) DEF Queues
<1>3. keyQueue1 = [x \in ResourceId |-> keyQueue1[x]]
  BY ZenonT(40)
<1>4. KeyQueuesLeft(wt, wait, c, keyQueue, keyQueue1)
  BY <1>1, ZenonT(40) DEF KeyQueuesLeft
<1>5. RegionQueuesLeft(wt, wait, c, regionQueue, regionQueue)
  BY ZenonT(40) DEF RegionQueuesLeft
<1>6. QED BY ONLY <1>2, <1>3, <1>4, <1>5, QueuesRemove,
             Queues(wt, wait, keyQueue, regionQueue), c \in wait, ZenonT(40)

LEMMA QueuesGrantRegion ==
    ASSUME NEW wt, NEW wait, NEW keyQueue, NEW regionQueue,
           Queues(wt, wait, keyQueue, regionQueue),
           NEW c \in wait, wt[c].mode = "RegionExclusive",
           IsFront(c, regionQueue[wt[c].region]),
           NEW regionQueue1,
           regionQueue1 = [regionQueue EXCEPT ![wt[c].region] = Tail(@)]
    PROVE  Queues(wt, wait \ {c}, keyQueue, regionQueue1)
<1>1. /\ Resources(wt[c]) = {} /\ wt[c].region \in Regions
      /\ regionQueue \in [Regions -> Seq(Command)]
      /\ keyQueue \in [ResourceId -> Seq(Command)]
  BY AskedFacts, ZenonT(40) DEF Queues
<1>2. QueueOf(regionQueue1[wt[c].region], RegionWaiters(wt, wait, wt[c].region) \ {c})
  <2>1. QueueOf(regionQueue[wt[c].region], RegionWaiters(wt, wait, wt[c].region))
    BY <1>1, ZenonT(40) DEF Queues
  <2>2. regionQueue1[wt[c].region] = Tail(regionQueue[wt[c].region])
    BY <1>1, ZenonT(40)
  <2>3. QED BY <2>1, <2>2, QueueTail, SMTT(40)
<1>3. RegionQueuesLeft(wt, wait, c, regionQueue, regionQueue1)
  BY <1>1, <1>2, ZenonT(40) DEF RegionQueuesLeft
<1>4. /\ keyQueue = [x \in ResourceId |-> keyQueue[x]]
      /\ regionQueue1 = [r \in Regions |-> regionQueue1[r]]
  BY <1>1, ZenonT(40)
<1>5. KeyQueuesLeft(wt, wait, c, keyQueue, keyQueue)
  BY <1>1, ZenonT(40) DEF KeyQueuesLeft
<1>6. QED BY ONLY <1>3, <1>4, <1>5, QueuesRemove,
             Queues(wt, wait, keyQueue, regionQueue), c \in wait, ZenonT(40)

LEMMA QueuesCancel ==
    ASSUME NEW wt, NEW wait, NEW keyQueue, NEW regionQueue,
           Queues(wt, wait, keyQueue, regionQueue),
           NEW c \in wait,
           NEW keyQueue1, NEW regionQueue1,
           keyQueue1 = [x \in ResourceId |->
               IF x \in Resources(wt[c]) THEN Without(keyQueue[x], c) ELSE keyQueue[x]],
           regionQueue1 = [r \in Regions |->
               IF wt[c].mode = "RegionExclusive" /\ r = wt[c].region
               THEN Without(regionQueue[r], c) ELSE regionQueue[r]]
    PROVE  Queues(wt, wait \ {c}, keyQueue1, regionQueue1)
<1>1. ASSUME NEW x \in ResourceId, x \in Resources(wt[c])
      PROVE  QueueOf(keyQueue1[x], KeyWaiters(wt, wait, x) \ {c})
  <2>1. QueueOf(keyQueue[x], KeyWaiters(wt, wait, x)) /\ c \in KeyWaiters(wt, wait, x)
    BY <1>1, ZenonT(40) DEF Queues, KeyWaiters
  <2>2. QED BY <1>1, <2>1, QueueWithout, ZenonT(40)
<1>2. ASSUME NEW r \in Regions, wt[c].mode = "RegionExclusive", wt[c].region = r
      PROVE  QueueOf(regionQueue1[r], RegionWaiters(wt, wait, r) \ {c})
  <2>1. QueueOf(regionQueue[r], RegionWaiters(wt, wait, r)) /\ c \in RegionWaiters(wt, wait, r)
    BY <1>2, ZenonT(40) DEF Queues, RegionWaiters
  <2>2. QED BY <1>2, <2>1, QueueWithout, ZenonT(40)
<1>3. KeyQueuesLeft(wt, wait, c, keyQueue, keyQueue1)
  BY <1>1, ZenonT(40) DEF KeyQueuesLeft
<1>4. RegionQueuesLeft(wt, wait, c, regionQueue, regionQueue1)
  BY <1>2, ZenonT(40) DEF RegionQueuesLeft
<1>5. /\ keyQueue1 = [x \in ResourceId |-> keyQueue1[x]]
      /\ regionQueue1 = [r \in Regions |-> regionQueue1[r]]
  BY ZenonT(40)
<1>6. QED BY ONLY <1>3, <1>4, <1>5, QueuesRemove,
             Queues(wt, wait, keyQueue, regionQueue), c \in wait, ZenonT(40)

-----------------------------------------------------------------------------
(* Grants.  The command granted stands in the queues given, with wt what    *)
(* the commands asked for; it need not have been waiting before.            *)

LEMMA GrantableDef ==
    ASSUME NEW c, NEW w, NEW keyQueue, NEW regionQueue
    PROVE  CanGrant(c, w, keyQueue, regionQueue)
             <=> Grantable(c, w, owner, exclusiveOwner, activeKeyOwners, keyQueue, regionQueue)
BY ZenonT(40) DEF CanGrant, CanGrantRegion, CanGrantKeys, Grantable

LEMMA GrantTables ==
    ASSUME NEW wt, NEW wait, NEW keyQueue, NEW regionQueue,
           Owners(wt, held, owner, exclusiveOwner, activeKeyOwners),
           Queues(wt, wait, keyQueue, regionQueue),
           NEW c \in wait, c \notin held,
           CanGrant(c, wt[c], keyQueue, regionQueue),
           Grant(c, wt[c], keyQueue, regionQueue)
    PROVE  /\ Owners(wt, held', owner', exclusiveOwner', activeKeyOwners')
           /\ Queues(wt, wait \ {c}, waiters', exclusiveWaiters')
<1>1. c \in Command /\ Asked(wt[c]) /\ held' = held \cup {c}
  BY ZenonT(40) DEF Queues, Grant
<1>2. CASE wt[c].mode = "RegionExclusive"
  <2>1. /\ exclusiveOwner[wt[c].region] = 0 /\ activeKeyOwners[wt[c].region] = 0
        /\ IsFront(c, regionQueue[wt[c].region])
    BY <1>2, ZenonT(40) DEF CanGrant, CanGrantRegion
  <2>2. /\ exclusiveWaiters' = [regionQueue EXCEPT ![wt[c].region] = Tail(@)]
        /\ exclusiveOwner' = [exclusiveOwner EXCEPT ![wt[c].region] = c]
        /\ waiters' = keyQueue /\ owner' = owner /\ activeKeyOwners' = activeKeyOwners
    BY <1>2, ZenonT(40) DEF Grant, GrantRegion
  <2>3. Owners(wt, held', owner', exclusiveOwner', activeKeyOwners')
    BY <1>1, <1>2, <2>1, <2>2, OwnersGrantRegion, ZenonT(40)
  <2>4. Queues(wt, wait \ {c}, waiters', exclusiveWaiters')
    BY <1>2, <2>1, <2>2, QueuesGrantRegion, ZenonT(40)
  <2>5. QED BY <2>3, <2>4, ZenonT(40)
<1>3. CASE wt[c].mode = "Keys"
  <2>1. /\ exclusiveOwner[wt[c].region] = 0
        /\ \A x \in Resources(wt[c]) : owner[x] = 0
        /\ \A x \in Resources(wt[c]) : IsFront(c, keyQueue[x])
    BY <1>3, ZenonT(40) DEF CanGrant, CanGrantKeys
  <2>2. /\ waiters' = [x \in ResourceId |->
                IF x \in Resources(wt[c]) THEN Tail(keyQueue[x]) ELSE keyQueue[x]]
        /\ owner' = [x \in ResourceId |-> IF x \in Resources(wt[c]) THEN c ELSE owner[x]]
        /\ activeKeyOwners' = [activeKeyOwners EXCEPT ![wt[c].region] = @ + 1]
        /\ exclusiveWaiters' = regionQueue /\ exclusiveOwner' = exclusiveOwner
    BY <1>3, ZenonT(40) DEF Grant, GrantKeys
  <2>3. Owners(wt, held', owner', exclusiveOwner', activeKeyOwners')
    BY <1>1, <1>3, <2>1, <2>2, OwnersGrantKeys, ZenonT(40)
  <2>4. Queues(wt, wait \ {c}, waiters', exclusiveWaiters')
    BY <1>3, <2>1, <2>2, QueuesGrantKeys, ZenonT(40)
  <2>5. QED BY <2>3, <2>4, ZenonT(40)
<1>4. QED BY <1>1, <1>2, <1>3, AskedFacts, ZenonT(40)

\* A grant enables no other grant.
LEMMA GrantBlocks ==
    ASSUME NEW wt, NEW keyQueue, NEW regionQueue,
           Owners(wt, held, owner, exclusiveOwner, activeKeyOwners),
           NEW c \in Command, Asked(wt[c]),
           regionQueue \in [Regions -> Seq(Command)],
           Grant(c, wt[c], keyQueue, regionQueue),
           NEW d, Asked(wt[d]),
           ~Grantable(d, wt[d], owner, exclusiveOwner, activeKeyOwners, keyQueue, regionQueue)
    PROVE  ~Grantable(d, wt[d], owner', exclusiveOwner', activeKeyOwners',
                      waiters', exclusiveWaiters')
<1>1. /\ wt[c].region \in Regions /\ wt[d].region \in Regions
      /\ Resources(wt[c]) \in SUBSET ResourceId /\ Resources(wt[d]) \in SUBSET ResourceId
      /\ \A x \in Resources(wt[d]) : x[1] = wt[d].region
      /\ wt[c].mode \in {"Keys", "RegionExclusive"} /\ wt[d].mode \in {"Keys", "RegionExclusive"}
  BY AskedFacts, ZenonT(40)
<1>2. c # 0
  BY CommandFacts, ZenonT(40)
<1>t. /\ owner \in [ResourceId -> Command \cup {0}]
      /\ exclusiveOwner \in [Regions -> Command \cup {0}]
      /\ activeKeyOwners \in [Regions -> Nat]
  BY ZenonT(40) DEF Owners
<1>3. CASE wt[c].mode = "RegionExclusive"
  <2>1. /\ exclusiveWaiters' = [regionQueue EXCEPT ![wt[c].region] = Tail(@)]
        /\ exclusiveOwner' = [exclusiveOwner EXCEPT ![wt[c].region] = c]
        /\ waiters' = keyQueue /\ owner' = owner /\ activeKeyOwners' = activeKeyOwners
    BY <1>3, ZenonT(40) DEF Grant, GrantRegion
  <2>2. CASE wt[d].region = wt[c].region
    BY <1>1, <1>2, <1>t, <2>1, <2>2, ZenonT(40) DEF Grantable
  <2>3. CASE wt[d].region # wt[c].region
    <3>1. /\ exclusiveWaiters'[wt[d].region] = regionQueue[wt[d].region]
          /\ exclusiveOwner'[wt[d].region] = exclusiveOwner[wt[d].region]
      BY <1>1, <1>t, <2>1, <2>3, ZenonT(40)
    <3>2. QED BY <2>1, <3>1, ZenonT(40) DEF Grantable
  <2>4. QED BY <2>2, <2>3, ZenonT(40)
<1>4. CASE wt[c].mode = "Keys"
  <2>1. /\ waiters' = [x \in ResourceId |->
                IF x \in Resources(wt[c]) THEN Tail(keyQueue[x]) ELSE keyQueue[x]]
        /\ owner' = [x \in ResourceId |-> IF x \in Resources(wt[c]) THEN c ELSE owner[x]]
        /\ activeKeyOwners' = [activeKeyOwners EXCEPT ![wt[c].region] = @ + 1]
        /\ exclusiveWaiters' = regionQueue /\ exclusiveOwner' = exclusiveOwner
    BY <1>4, ZenonT(40) DEF Grant, GrantKeys
  <2>2. CASE wt[d].mode = "RegionExclusive"
    <3>1. CASE wt[d].region = wt[c].region
      <4>1. activeKeyOwners'[wt[d].region] = activeKeyOwners[wt[d].region] + 1
        BY <1>1, <1>t, <2>1, <3>1, ZenonT(40)
      <4>2. activeKeyOwners'[wt[d].region] # 0
        BY <1>1, <1>t, <4>1, SMTT(40)
      <4>3. QED BY <2>2, <4>2, ZenonT(40) DEF Grantable
    <3>2. CASE wt[d].region # wt[c].region
      <4>1. activeKeyOwners'[wt[d].region] = activeKeyOwners[wt[d].region]
        BY <1>1, <1>t, <2>1, <3>2, ZenonT(40)
      <4>2. QED BY <2>1, <2>2, <4>1, ZenonT(40) DEF Grantable
    <3>3. QED BY <3>1, <3>2, ZenonT(40)
  <2>3. CASE wt[d].mode = "Keys"
    <3>1. CASE \E x \in Resources(wt[d]) : x \in Resources(wt[c])
      <4>1. PICK x \in Resources(wt[d]) : x \in Resources(wt[c])
        BY <3>1, ZenonT(40)
      <4>2. owner'[x] = c
        BY <1>1, <2>1, <4>1, ZenonT(40)
      <4>3. QED BY <1>2, <2>3, <4>2, ZenonT(40) DEF Grantable
    <3>2. CASE \A x \in Resources(wt[d]) : x \notin Resources(wt[c])
      <4>1. \A x \in Resources(wt[d]) : owner'[x] = owner[x] /\ waiters'[x] = keyQueue[x]
        BY <1>1, <2>1, <3>2, ZenonT(40)
      <4>2. QED BY <2>1, <2>3, <4>1, ZenonT(40) DEF Grantable
    <3>3. QED BY <3>1, <3>2, ZenonT(40)
  <2>4. QED BY <1>1, <2>2, <2>3, ZenonT(40)
<1>5. QED BY <1>1, <1>3, <1>4, ZenonT(40)

\* Nor does a command that queues up behind the others.
LEMMA EnqueueBlocks ==
    ASSUME LatchInv, NEW c \in Command, NEW w, Asked(w),
           NEW d \in Command, d # c, NEW v, Asked(v),
           ~Grantable(d, v, owner, exclusiveOwner, activeKeyOwners, waiters, exclusiveWaiters)
    PROVE  ~Grantable(d, v, owner, exclusiveOwner, activeKeyOwners,
                      KeyQueue(c, w), RegionQueue(c, w))
<1>1. /\ waiters \in [ResourceId -> Seq(Command)]
      /\ exclusiveWaiters \in [Regions -> Seq(Command)]
  BY ZenonT(40) DEF LatchInv, Queues
<1>2. ASSUME NEW q \in Seq(Command)
      PROVE  /\ IsFront(d, Append(q, c)) => IsFront(d, q)
             /\ NoEarlierExclusive(d, Append(q, c)) => NoEarlierExclusive(d, q)
  <2>1. Append(q, c) # <<>> /\ Head(Append(q, c)) = IF q = <<>> THEN c ELSE Head(q)
    BY HeadTailAppend, AppendProperties, SMTT(40)
  <2>2. QED BY <2>1, ZenonT(40) DEF IsFront, NoEarlierExclusive
<1>3. /\ v.region \in Regions /\ w.region \in Regions
      /\ Resources(v) \in SUBSET ResourceId
  BY AskedFacts, ZenonT(40)
<1>4. ASSUME NEW x \in ResourceId
      PROVE  IsFront(d, KeyQueue(c, w)[x]) => IsFront(d, waiters[x])
  BY <1>1, <1>2, ZenonT(40) DEF KeyQueue
<1>5. ASSUME NEW r \in Regions
      PROVE  /\ IsFront(d, RegionQueue(c, w)[r]) => IsFront(d, exclusiveWaiters[r])
             /\ NoEarlierExclusive(d, RegionQueue(c, w)[r])
                  => NoEarlierExclusive(d, exclusiveWaiters[r])
  <2>1. RegionQueue(c, w)[r] \in {exclusiveWaiters[r], Append(exclusiveWaiters[r], c)}
    BY <1>1, <1>3, ZenonT(40) DEF RegionQueue
  <2>2. QED BY <1>1, <1>2, <2>1, ZenonT(40)
<1>6. QED BY <1>3, <1>4, <1>5, ZenonT(40) DEF Grantable

-----------------------------------------------------------------------------
(* The invariant.                                                          *)

LEMMA LatchInitInv == LatchInit => LatchInv
<1> SUFFICES ASSUME LatchInit PROVE LatchInv
  BY ZenonT(40)
<1>1. QueueOf(<<>>, {})
  BY EmptySeq, SMTT(40) DEF QueueOf, InQueue
<1>2. Cardinality({}) = 0
  BY FS_EmptySet, ZenonT(40)
<1>3. \A r : KeyOwners(want, {}, r) = {}
  BY ZenonT(40) DEF KeyOwners
<1>4. Owners(want, held, owner, exclusiveOwner, activeKeyOwners)
  BY <1>2, <1>3, CommandFacts, ZenonT(40) DEF Owners, LatchInit
<1>5. \A x : KeyWaiters(want, {}, x) = {} /\ RegionWaiters(want, {}, x) = {}
  BY ZenonT(40) DEF KeyWaiters, RegionWaiters
<1>6. Queues(want, waiting, waiters, exclusiveWaiters)
  <2>1. <<>> \in Seq(Command)
    BY EmptySeq, ZenonT(40)
  <2>2. QED BY <1>1, <1>5, <2>1, ZenonT(40) DEF Queues, LatchInit
<1>7. Passed
  BY ZenonT(40) DEF Passed, LatchInit
<1>8. QED BY <1>4, <1>6, <1>7, EmptySeq, ZenonT(40) DEF LatchInv, LatchInit

LEMMA AcquireStep ==
    ASSUME LatchInv, NEW c \in Command, NEW w, Asked(w), Acquire(c, w)
    PROVE  LatchInv'
<1> DEFINE kq == KeyQueue(c, w)
           rq == RegionQueue(c, w)
           wait1 == waiting \cup {c}
<1>1. /\ want \in [Command -> Want \cup {NoWant}]
      /\ want' = [want EXCEPT ![c] = w]
      /\ releasing = 0 /\ candidates = {} /\ releasing' = releasing
      /\ candidates' = candidates /\ ready' = ready
      /\ c \notin waiting /\ c \notin held
      /\ waiting \in SUBSET Command
  BY ZenonT(40) DEF LatchInv, Passed, Acquire, Registered, passVars, Queues
<1>2. want' \in [Command -> Want \cup {NoWant}] /\ want'[c] = w
  BY <1>1, ZenonT(40) DEF Asked
<1>3. Owners(want', held, owner, exclusiveOwner, activeKeyOwners)
  BY <1>1, OwnersWant, ZenonT(40) DEF LatchInv
<1>4. Queues(want', wait1, kq, rq)
  <2>1. Queues(want, waiting, waiters, exclusiveWaiters)
    BY ZenonT(40) DEF LatchInv
  <2>2. /\ KeyQueuesJoined(w, c, waiters, kq)
        /\ RegionQueuesJoined(w, c, exclusiveWaiters, rq)
    BY ZenonT(40) DEF KeyQueue, RegionQueue, KeyQueuesJoined, RegionQueuesJoined
  <2>3. want'[c] = w /\ \A d \in waiting : want'[d] = want[d]
    BY <1>1, ZenonT(40)
  <2> HIDE DEF kq, rq
  <2>4. QED BY ONLY <1>1, <2>1, <2>2, <2>3, QueuesEnqueue, Asked(w), c \in Command, ZenonT(40)
<1>5. ASSUME NEW d \in waiting
      PROVE  /\ want'[d] = want[d] /\ Asked(want'[d]) /\ d # c
             /\ ~Grantable(d, want'[d], owner, exclusiveOwner, activeKeyOwners, kq, rq)
  <2>1. want'[d] = want[d] /\ d # c /\ Asked(want[d]) /\ d \in Command
    BY <1>1, ZenonT(40) DEF LatchInv, Queues
  <2>2. ~GrantableNow(d)
    BY <1>1, ZenonT(40) DEF LatchInv, Passed
  <2>3. ~Grantable(d, want[d], owner, exclusiveOwner, activeKeyOwners, kq, rq)
    BY <2>1, <2>2, EnqueueBlocks, ZenonT(40) DEF GrantableNow
  <2>4. QED BY <2>1, <2>3, ZenonT(40)
<1> HIDE DEF kq, rq
<1>6. CASE CanGrant(c, w, kq, rq) /\ Grant(c, w, kq, rq)
  <2>1. /\ Owners(want', held', owner', exclusiveOwner', activeKeyOwners')
        /\ Queues(want', wait1 \ {c}, waiters', exclusiveWaiters')
    <3>1. /\ c \in wait1
          /\ CanGrant(c, want'[c], kq, rq)
          /\ Grant(c, want'[c], kq, rq)
      BY <1>2, <1>6, ZenonT(40)
    <3>2. QED BY <1>1, <1>3, <1>4, <3>1, GrantTables, ZenonT(40)
  <2>2. waiting' = waiting /\ wait1 \ {c} = waiting /\ held' = held \cup {c}
    BY <1>1, <1>6, ZenonT(40) DEF Grant
  <2>3. ASSUME NEW d \in waiting
        PROVE  ~GrantableNow(d)'
    <3>1. rq \in [Regions -> Seq(Command)]
      BY <1>4, ZenonT(40) DEF Queues
    <3>2. QED BY <1>2, <1>3, <1>5, <1>6, <3>1, GrantBlocks, ZenonT(40) DEF GrantableNow
  <2>4. Passed'
    BY <1>1, <2>2, <2>3, ZenonT(40) DEF Passed
  <2>5. QED BY <1>1, <1>2, <2>1, <2>2, <2>4, ZenonT(40) DEF LatchInv
<1>7. CASE /\ ~CanGrant(c, w, kq, rq)
           /\ waiting' = waiting \cup {c}
           /\ waiters' = kq
           /\ exclusiveWaiters' = rq
           /\ UNCHANGED <<held, owner, exclusiveOwner, activeKeyOwners>>
  <2>1. /\ Owners(want', held', owner', exclusiveOwner', activeKeyOwners')
        /\ Queues(want', waiting', waiters', exclusiveWaiters')
    BY <1>3, <1>4, <1>7, ZenonT(40)
  <2>2. ASSUME NEW d \in waiting'
        PROVE  ~GrantableNow(d)'
    BY <1>2, <1>5, <1>7, GrantableDef, ZenonT(40) DEF GrantableNow
  <2>3. Passed'
    BY <1>1, <2>2, ZenonT(40) DEF Passed
  <2>4. QED BY <1>1, <1>2, <1>7, <2>1, <2>3, ZenonT(40) DEF LatchInv
<1>8. QED BY <1>6, <1>7, ZenonT(40) DEF Acquire, kq, rq

LEMMA ReleaseStep ==
    ASSUME LatchInv, NEW c \in Command, Release(c)
    PROVE  LatchInv'
<1>1. /\ want' = want /\ held' = held \ {c} /\ waiting' = waiting \ {c}
      /\ releasing' = c /\ candidates' = waiting \ {c} /\ ready' = <<>>
      /\ c \in waiting \cup held
  BY ZenonT(40) DEF Release, Registered
<1>2. /\ Owners(want, held, owner, exclusiveOwner, activeKeyOwners)
      /\ Queues(want, waiting, waiters, exclusiveWaiters)
      /\ waiting \cap held = {}
  BY ZenonT(40) DEF LatchInv
<1>3. Passed'
  BY <1>1, CommandFacts, ZenonT(40) DEF Passed
<1>4. CASE c \in held /\ ReleaseHeld(c)
  <2>1. Owners(want, held', owner', exclusiveOwner', activeKeyOwners')
    <3>1. HeldReleased(want[c], c, owner, exclusiveOwner, activeKeyOwners,
                       owner', exclusiveOwner', activeKeyOwners')
      BY <1>4, ZenonT(40) DEF ReleaseHeld, HeldReleased
    <3>2. Owners(want, held \ {c}, owner', exclusiveOwner', activeKeyOwners')
      BY <1>2, <1>4, <3>1, OwnersRelease, ZenonT(40)
    <3>3. QED BY <1>1, <3>2, ZenonT(40)
  <2>2. waiting' = waiting /\ waiters' = waiters /\ exclusiveWaiters' = exclusiveWaiters
    BY <1>1, <1>2, <1>4, ZenonT(40) DEF ReleaseHeld
  <2>3. QED BY <1>1, <1>2, <1>3, <2>1, <2>2, EmptySeq, ZenonT(40) DEF LatchInv
<1>5. CASE c \notin held /\ ReleaseWaiting(c)
  <2>1. Queues(want, waiting', waiters', exclusiveWaiters')
    BY <1>1, <1>2, <1>5, QueuesCancel, ZenonT(40) DEF ReleaseWaiting
  <2>2. /\ held' = held /\ owner' = owner /\ exclusiveOwner' = exclusiveOwner
        /\ activeKeyOwners' = activeKeyOwners
    BY <1>1, <1>5, ZenonT(40) DEF ReleaseWaiting
  <2>3. QED BY <1>1, <1>2, <1>3, <2>1, <2>2, EmptySeq, ZenonT(40) DEF LatchInv
<1>6. QED BY <1>4, <1>5, ZenonT(40) DEF Release

LEMMA GrantNextStep ==
    ASSUME LatchInv, GrantNext
    PROVE  LatchInv'
<1> DEFINE c == Lowest(candidates)
<1>1. /\ want' = want /\ releasing' = releasing /\ releasing # 0
      /\ candidates # {} /\ candidates \subseteq waiting /\ waiting \in SUBSET Command
      /\ candidates' = candidates \ {c}
  BY ZenonT(40) DEF GrantNext, LatchInv, Passed, Queues
<1>2. c \in candidates
  <2>1. candidates \in SUBSET Nat
    BY <1>1, CommandFacts, ZenonT(40)
  <2>2. \E d \in candidates : \A e \in candidates : d <= e
    BY <1>1, <2>1, LowestExists, ZenonT(40)
  <2>3. QED BY <2>2, ZenonT(40) DEF Lowest
<1> HIDE DEF c
<1>3. /\ Owners(want, held, owner, exclusiveOwner, activeKeyOwners)
      /\ Queues(want, waiting, waiters, exclusiveWaiters)
      /\ waiting \cap held = {}
      /\ c \in waiting /\ c \in Command /\ c \notin held
      /\ \A d \in waiting : Asked(want[d])
      /\ exclusiveWaiters \in [Regions -> Seq(Command)]
  BY <1>1, <1>2, ZenonT(40) DEF LatchInv, Queues
<1>4. CASE /\ CanGrant(c, want[c], waiters, exclusiveWaiters)
           /\ Grant(c, want[c], waiters, exclusiveWaiters)
           /\ ready' = Append(ready, c)
  <2>1. /\ Owners(want, held', owner', exclusiveOwner', activeKeyOwners')
        /\ Queues(want, waiting \ {c}, waiters', exclusiveWaiters')
    BY <1>3, <1>4, GrantTables, ZenonT(40)
  <2>2. waiting' = waiting \ {c} /\ held' = held \cup {c}
    BY <1>4, ZenonT(40) DEF Grant
  <2>3. ASSUME NEW d \in waiting' \ candidates'
        PROVE  ~GrantableNow(d)'
    <3>1. d \in waiting \ candidates
      BY <1>1, <2>2, ZenonT(40)
    <3>2. ~GrantableNow(d) /\ Asked(want[d]) /\ Asked(want[c])
      BY <1>3, <3>1, ZenonT(40) DEF LatchInv, Passed
    <3>3. QED BY <1>1, <1>3, <1>4, <3>2, GrantBlocks, ZenonT(40) DEF GrantableNow
  <2>4. Passed'
    BY <1>1, <2>2, <2>3, ZenonT(40) DEF Passed
  <2>5. ready' \in Seq(Command)
    BY <1>3, <1>4, AppendProperties, ZenonT(40) DEF LatchInv
  <2>6. QED BY <1>1, <1>3, <2>1, <2>2, <2>4, <2>5, ZenonT(40) DEF LatchInv
<1>5. CASE /\ ~CanGrant(c, want[c], waiters, exclusiveWaiters)
           /\ UNCHANGED <<tableVars, ready>>
  <2>1. /\ waiting' = waiting /\ held' = held /\ owner' = owner /\ waiters' = waiters
        /\ exclusiveOwner' = exclusiveOwner /\ activeKeyOwners' = activeKeyOwners
        /\ exclusiveWaiters' = exclusiveWaiters /\ ready' = ready
    BY <1>5, ZenonT(40) DEF tableVars, gateVars
  <2>2. Passed'
    BY <1>1, <1>5, <2>1, GrantableDef, ZenonT(40) DEF LatchInv, Passed, GrantableNow
  <2>3. QED BY <1>1, <2>1, <2>2, ZenonT(40) DEF LatchInv
<1>6. QED BY <1>4, <1>5, ZenonT(40) DEF GrantNext, c

LEMMA ReturnStep ==
    ASSUME LatchInv, Return
    PROVE  LatchInv'
<1>1. /\ want' = want /\ waiting' = waiting /\ held' = held /\ owner' = owner
      /\ waiters' = waiters /\ exclusiveOwner' = exclusiveOwner
      /\ activeKeyOwners' = activeKeyOwners /\ exclusiveWaiters' = exclusiveWaiters
      /\ candidates' = candidates /\ candidates = {} /\ releasing' = 0 /\ ready' = <<>>
  BY ZenonT(40) DEF Return, tableVars, gateVars
<1>2. Passed'
  BY <1>1, ZenonT(40) DEF LatchInv, Passed, GrantableNow
<1>3. QED BY <1>1, <1>2, EmptySeq, ZenonT(40) DEF LatchInv

LEMMA LatchStutter ==
    ASSUME LatchInv, UNCHANGED latchVars
    PROVE  LatchInv'
<1>1. /\ want' = want /\ waiting' = waiting /\ held' = held /\ owner' = owner
      /\ waiters' = waiters /\ exclusiveOwner' = exclusiveOwner
      /\ activeKeyOwners' = activeKeyOwners /\ exclusiveWaiters' = exclusiveWaiters
      /\ candidates' = candidates /\ releasing' = releasing /\ ready' = ready
  BY ZenonT(40) DEF latchVars, tableVars, gateVars, passVars
<1>2. Passed'
  BY <1>1, ZenonT(40) DEF LatchInv, Passed, GrantableNow
<1>3. QED BY <1>1, <1>2, ZenonT(40) DEF LatchInv

LEMMA LatchInductive == LatchInv /\ [LatchNext]_latchVars => LatchInv'
<1> SUFFICES ASSUME LatchInv, [LatchNext]_latchVars PROVE LatchInv'
  BY ZenonT(40)
<1>1. CASE \E c \in Command, w \in Want :
             want[c] = NoWant /\ WellFormed(w) /\ Acquire(c, w)
  BY <1>1, AcquireStep, ZenonT(40) DEF Asked
<1>2. CASE \E c \in Command : Release(c)
  BY <1>2, ReleaseStep, ZenonT(40)
<1>3. CASE GrantNext
  BY <1>3, GrantNextStep, ZenonT(40)
<1>4. CASE Return
  BY <1>4, ReturnStep, ZenonT(40)
<1>5. CASE UNCHANGED latchVars
  BY <1>5, LatchStutter, ZenonT(40)
<1>6. QED BY <1>1, <1>2, <1>3, <1>4, <1>5, ZenonT(40) DEF LatchNext

LEMMA LatchInvariance == LatchSpec => []LatchInv
BY LatchInitInv, LatchInductive, PTL DEF LatchSpec

-----------------------------------------------------------------------------
(* What the invariant says.                                                *)

LEMMA ExclusionFromTables == LatchInv => LatchExclusion
<1> SUFFICES ASSUME LatchInv, NEW c \in held, NEW d \in held, c # d,
                    Conflict(want[c], want[d])
             PROVE  FALSE
  BY ZenonT(40) DEF LatchExclusion
<1>1. /\ Owners(want, held, owner, exclusiveOwner, activeKeyOwners)
      /\ c \in Command /\ d \in Command /\ held \in SUBSET Command
      /\ Asked(want[c]) /\ Asked(want[d])
      /\ want[c].region = want[d].region
  BY ZenonT(40) DEF LatchInv, Owners, Conflict
<1>2. ASSUME NEW e \in held, NEW f \in held, e # f,
             want[e].mode = "RegionExclusive", want[f].region = want[e].region
      PROVE  FALSE
  <2> DEFINE r == want[e].region
  <2>1. e \in Command /\ f \in Command /\ r \in Regions /\ exclusiveOwner[r] = e
    BY <1>1, <1>2, AskedFacts, SMTT(40) DEF Owners
  <2>2. want[f].mode # "RegionExclusive"
    BY <1>1, <1>2, <2>1, SMTT(40) DEF Owners
  <2>3. f \in KeyOwners(want, held, r)
    BY <1>1, <1>2, <2>2, AskedFacts, SMTT(40) DEF KeyOwners, Owners
  <2>4. Cardinality(KeyOwners(want, held, r)) # 0
    BY <1>1, <2>3, KeyOwnersFinite, FS_EmptySet, ZenonT(40)
  <2>5. exclusiveOwner[r] # 0 => activeKeyOwners[r] = 0
    BY <1>1, <2>1, ZenonT(40) DEF Owners
  <2>6. activeKeyOwners[r] = Cardinality(KeyOwners(want, held, r))
    BY <1>1, <2>1, ZenonT(40) DEF Owners
  <2>7. exclusiveOwner[r] # 0
    BY <2>1, CommandFacts, ZenonT(40)
  <2>8. QED BY <2>4, <2>5, <2>6, <2>7, ZenonT(40)
<1>3. ASSUME NEW k \in want[c].keys \cap want[d].keys
      PROVE  FALSE
  <2>1. <<want[c].region, k>> \in Resources(want[c]) \cap Resources(want[d])
    BY <1>1, ZenonT(40) DEF Resources
  <2>2. <<want[c].region, k>> \in ResourceId
    BY <1>1, <2>1, AskedFacts, ZenonT(40)
  <2>3. QED BY <1>1, <2>1, <2>2, SMTT(40) DEF Owners
<1>4. QED BY <1>1, <1>2, <1>3, ZenonT(40) DEF Conflict

LEMMA NoMissedFromPassed == LatchInv => NoMissedGrant
BY GrantableDef, ZenonT(40) DEF LatchInv, Passed, GrantableNow, NoMissedGrant

\* The variables of the latch table keep their types.
THEOREM LatchesTyped == LatchSpec => []LatchTypeOK
<1>1. LatchInv => LatchTypeOK
  BY ZenonT(40) DEF LatchInv, Owners, Queues, Passed, LatchTypeOK
<1>2. QED BY <1>1, LatchInvariance, PTL

\* Owners, counters and queues of the latch manager say the same as the states of
\* the commands, whatever was granted, cancelled and released before.
THEOREM LatchTablesAgree == LatchSpec => []TablesAgree
<1>1. ASSUME LatchInv PROVE TablesAgree
  <2>1. ASSUME NEW x \in ResourceId, NEW c \in Command
        PROVE  /\ owner[x] = c <=> c \in held /\ x \in Resources(want[c])
               /\ c \in {waiters[x][i] : i \in DOMAIN waiters[x]}
                    <=> c \in waiting /\ x \in Resources(want[c])
    <3>1. owner[x] = c <=> c \in held /\ x \in Resources(want[c])
      BY <1>1, ZenonT(40) DEF LatchInv, Owners
    <3>2. {waiters[x][i] : i \in DOMAIN waiters[x]} = KeyWaiters(want, waiting, x)
      BY <1>1, ZenonT(40) DEF LatchInv, Queues, QueueOf, InQueue
    <3>3. QED BY <3>1, <3>2, ZenonT(40) DEF KeyWaiters
  <2>2. ASSUME NEW r \in Regions
        PROVE  activeKeyOwners[r] =
                 Cardinality({c \in held : want[c].mode = "Keys" /\ want[c].region = r})
    BY <1>1, ZenonT(40) DEF LatchInv, Owners, KeyOwners
  <2>3. QED BY <2>1, <2>2, ZenonT(40) DEF TablesAgree
<1>2. QED BY <1>1, LatchInvariance, PTL

\* Two commands that hold latches never conflict: TryGrantLocked and Release keep
\* the count of key owners and the exclusive owner of a Region in step with the
\* commands, and the exclusive owner excludes any key owner.
THEOREM LatchesExclude == LatchSpec => []LatchExclusion
BY ExclusionFromTables, LatchInvariance, PTL

\* GrantReadyLocked misses no command, although it tries each of them once, in the
\* order of the ids: granting a command, or queueing one behind the others, lets
\* no further command be granted.
THEOREM LatchesMissNoGrant == LatchSpec => []NoMissedGrant
BY NoMissedFromPassed, LatchInvariance, PTL
=============================================================================
