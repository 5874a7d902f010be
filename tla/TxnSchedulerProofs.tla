------------------------- MODULE TxnSchedulerProofs -------------------------
(***************************************************************************)
(* Proofs about the scheduler, for every workload, number of calls and     *)
(* workers and size of the queues: its threads use the latch table only as *)
(* the table's specification allows, and no call is answered twice.        *)
(***************************************************************************)
EXTENDS TxnScheduler, NodeLatchesProofs

Entering == {"new", "insert"}
Registering == {"find", "acquire"}
Elsewhere == {"submit", "dispatch", "release", "granting", "done", "idle",
              "prepare", "recheck", "propose"}

\* The calls that are past Insert; each of them was given at most one command id.
Entered == {x \in Calls : pc[x] \notin Entering}

\* A command id is given out once, and a call that has still to register its command
\* in the latch table is the only one with that id.
IdsInv ==
    /\ plan \in Workloads
    /\ pc \in [Thread -> Entering \cup Registering \cup Elsewhere]
    /\ cur \in [Thread -> Nat]
    /\ want \in [Command -> Want \cup {NoWant}]
    /\ nextCommandId \in Nat
    /\ nextCommandId <= Cardinality(Entered)
    /\ tasks \subseteq 1 .. nextCommandId
    /\ \A t \in Thread : pc[t] = "release" => cur[t] \in 1 .. nextCommandId
    /\ \A x \in Calls : pc[x] \in Entering \cup Registering => x \in Made
    /\ \A x \in Calls : pc[x] \in Registering =>
         cur[x] \in 1 .. nextCommandId /\ want[cur[x]] = NoWant
    /\ \A x, y \in Calls :
         pc[x] \in Registering /\ pc[y] \in Registering /\ cur[x] = cur[y] => x = y
    /\ \A c \in Command : c > nextCommandId => want[c] = NoWant

\* A call to be answered has no answer, and one task only has to answer it.
AnswersInv ==
    /\ responses \in [Command -> SUBSET Calls]
    /\ \A c \in Command : c \notin tasks => responses[c] = {}
    /\ \A c \in Command : \A x \in responses[c] : answer[x] = "none" /\ pc[x] \notin Entering
    /\ \A c, d \in Command : c # d => responses[c] \cap responses[d] = {}
    /\ \A x \in Calls : pc[x] \in Entering => answer[x] = "none"

AnswersKept == \A x \in Calls : answer[x] # "none" => answer'[x] = answer[x]

SchedulerInv == IdsInv /\ AnswersInv

-----------------------------------------------------------------------------
(* Command ids.                                                            *)

LEMMA EnteredFinite ==
    ASSUME NEW S \in SUBSET Calls
    PROVE  /\ IsFiniteSet(S) /\ Cardinality(S) \in Nat
           /\ Cardinality(S) <= Cardinality(Calls)
           /\ \A T \in SUBSET S : IsFiniteSet(T) /\ Cardinality(T) <= Cardinality(S)
<1>1. IsFiniteSet(Calls)
  BY BoundsAssumption, ZenonT(40)
<1>2. IsFiniteSet(S) /\ Cardinality(S) <= Cardinality(Calls)
  BY <1>1, FS_Subset, ZenonT(40)
<1>3. QED BY <1>2, FS_Subset, FS_CardinalityType, ZenonT(40)

LEMMA IdsWithinBound ==
    ASSUME IdsInv
    PROVE  1 .. nextCommandId \subseteq Command
<1>1. Entered \in SUBSET Calls /\ nextCommandId \in Nat /\ nextCommandId <= Cardinality(Entered)
  BY ZenonT(40) DEF IdsInv, Entered
<1>2. Cardinality(Entered) \in Nat /\ Cardinality(Entered) <= Cardinality(Calls)
  BY <1>1, EnteredFinite, ZenonT(40)
<1>3. Cardinality(Calls) \in Nat
  BY BoundsAssumption, FS_CardinalityType, ZenonT(40)
<1>4. QED BY <1>1, <1>2, <1>3, BoundsAssumption, MaxCommandAssumption, SMTT(40) DEF Command

LEMMA IdsWithinBoundAfter ==
    ASSUME IdsInv'
    PROVE  1 .. nextCommandId' \subseteq Command
<1>1. Entered' \in SUBSET Calls /\ nextCommandId' \in Nat /\ nextCommandId' <= Cardinality(Entered')
  BY ZenonT(40) DEF IdsInv, Entered
<1>2. Cardinality(Entered') \in Nat /\ Cardinality(Entered') <= Cardinality(Calls)
  BY <1>1, EnteredFinite, ZenonT(40)
<1>3. Cardinality(Calls) \in Nat
  BY BoundsAssumption, FS_CardinalityType, ZenonT(40)
<1>4. QED BY <1>1, <1>2, <1>3, BoundsAssumption, MaxCommandAssumption, SMTT(40) DEF Command

\* A thread moves on, not into one of the first four stages of Schedule, and works on
\* k from then on.
LEMMA ThreadMoves ==
    ASSUME IdsInv, NEW t \in Thread, NEW v \in Elsewhere, NEW k \in Nat,
           v = "release" => k \in 1 .. nextCommandId,
           pc' = [pc EXCEPT ![t] = v],
           cur' = [cur EXCEPT ![t] = k],
           tasks' \subseteq tasks,
           nextCommandId' = nextCommandId, want' = want, plan' = plan
    PROVE  IdsInv'
<1>1. /\ pc \in [Thread -> Entering \cup Registering \cup Elsewhere]
      /\ cur \in [Thread -> Nat]
      /\ Calls \subseteq Thread
      /\ v \notin Entering /\ v \notin Registering
  BY ZenonT(40) DEF IdsInv, Thread, Elsewhere, Entering, Registering
<1>2. /\ pc' \in [Thread -> Entering \cup Registering \cup Elsewhere]
      /\ cur' \in [Thread -> Nat]
  BY <1>1, ZenonT(40)
<1>3. \A s \in Thread : s # t => pc'[s] = pc[s] /\ cur'[s] = cur[s]
  BY <1>1, ZenonT(40)
<1>4. pc'[t] = v /\ cur'[t] = k
  BY <1>1, ZenonT(40)
<1>5. nextCommandId' <= Cardinality(Entered')
  <2>1. Entered \subseteq Entered' /\ Entered' \in SUBSET Calls
    BY <1>1, <1>3, <1>4, ZenonT(40) DEF Entered
  <2>2. /\ Cardinality(Entered) <= Cardinality(Entered')
        /\ Cardinality(Entered) \in Nat /\ Cardinality(Entered') \in Nat
    <3>1. Entered \in SUBSET Entered' /\ Entered \in SUBSET Calls
      BY <2>1, ZenonT(40)
    <3>2. QED BY <2>1, <3>1, EnteredFinite, ZenonT(40)
  <2>3. QED BY <2>2, SMTT(40) DEF IdsInv
<1>6. Made' = Made
  BY ZenonT(40) DEF Made
<1>7. QED BY <1>1, <1>2, <1>3, <1>4, <1>5, <1>6, ZenonT(40) DEF IdsInv

LEMMA IdsUnchanged ==
    ASSUME IdsInv, pc' = pc, cur' = cur, tasks' = tasks,
           nextCommandId' = nextCommandId, want' = want, plan' = plan
    PROVE  IdsInv'
<1>1. Entered' = Entered /\ Made' = Made
  BY ZenonT(40) DEF Entered, Made
<1>2. QED BY <1>1, ZenonT(40) DEF IdsInv

\* Where GoOn leaves the thread.
LEMMA GoOnTarget ==
    ASSUME NEW t, NEW commands, GoOn(t, commands)
    PROVE  \E v \in Elsewhere \ {"release"} : pc' = [pc EXCEPT ![t] = v]
<1>1. CASE commands # <<>>
  <2>1. pc' = [pc EXCEPT ![t] = "dispatch"]
    BY <1>1, ZenonT(40) DEF GoOn
  <2>2. "dispatch" \in Elsewhere \ {"release"}
    BY ZenonT(40) DEF Elsewhere
  <2>3. QED BY <2>1, <2>2, ZenonT(40)
<1>2. CASE commands = <<>>
  <2>1. pc' = [pc EXCEPT ![t] = Home(t)]
    BY <1>2, ZenonT(40) DEF GoOn
  <2>2. Home(t) \in Elsewhere \ {"release"}
    BY ZenonT(40) DEF Elsewhere, Home
  <2>3. QED BY <2>1, <2>2, ZenonT(40)
<1>3. QED BY <1>1, <1>2, ZenonT(40)

LEMMA GoOnIds ==
    ASSUME IdsInv, NEW t \in Thread, NEW commands, GoOn(t, commands), cur' = cur,
           tasks' \subseteq tasks, nextCommandId' = nextCommandId, want' = want, plan' = plan
    PROVE  IdsInv'
<1>1. PICK v \in Elsewhere \ {"release"} : pc' = [pc EXCEPT ![t] = v]
  BY GoOnTarget, ZenonT(40)
<1>2. cur[t] \in Nat /\ cur' = [cur EXCEPT ![t] = cur[t]]
  BY ZenonT(40) DEF IdsInv
<1>3. QED BY <1>1, <1>2, ThreadMoves, ZenonT(40)

LEMMA FinishIds ==
    ASSUME IdsInv, NEW t \in Thread, NEW c, NEW result, NEW commands,
           FinishBeforeProposal(t, c, result, commands), want' = want, plan' = plan
    PROVE  IdsInv'
<1>1. CASE c \in tasks /\ EndTask(t, c, result)
  <2>1. c \in Nat /\ c \in 1 .. nextCommandId
    BY <1>1, SMTT(40) DEF IdsInv
  <2>2. /\ pc' = [pc EXCEPT ![t] = "release"] /\ cur' = [cur EXCEPT ![t] = c]
        /\ tasks' \subseteq tasks /\ nextCommandId' = nextCommandId
    BY <1>1, ZenonT(40) DEF EndTask
  <2>3. "release" \in Elsewhere
    BY ZenonT(40) DEF Elsewhere
  <2>4. QED BY <2>1, <2>2, <2>3, ThreadMoves, ZenonT(40)
<1>2. CASE c \notin tasks /\ GoOn(t, commands) /\ UNCHANGED <<cur, taskVars>>
  <2>1. cur' = cur /\ tasks' \subseteq tasks /\ nextCommandId' = nextCommandId
    BY <1>2, ZenonT(40) DEF taskVars
  <2>2. QED BY <1>2, <2>1, GoOnIds, ZenonT(40)
<1>3. QED BY <1>1, <1>2, ZenonT(40) DEF FinishBeforeProposal

LEMMA SubmitIds ==
    ASSUME IdsInv, NEW t \in Thread, NEW c, NEW commands, Submit(t, c, commands),
           want' = want, plan' = plan
    PROVE  IdsInv'
<1>1. CASE GoOn(t, commands) /\ UNCHANGED <<cur, taskVars>>
  <2>1. cur' = cur /\ tasks' \subseteq tasks /\ nextCommandId' = nextCommandId
    BY <1>1, ZenonT(40) DEF taskVars
  <2>2. QED BY <1>1, <2>1, GoOnIds, ZenonT(40)
<1>2. CASE FinishBeforeProposal(t, c, "WrongLeader", commands)
  BY <1>2, FinishIds, ZenonT(40)
<1>3. QED BY <1>1, <1>2, ZenonT(40) DEF Submit

LEMMA AdmitIds ==
    ASSUME IdsInv, NEW x \in Calls, Admit(x), plan' = plan
    PROVE  IdsInv'
<1>1. /\ x \in Thread /\ cur \in [Thread -> Nat] /\ pc[x] = "new"
      /\ pc \in [Thread -> Entering \cup Registering \cup Elsewhere]
      /\ Calls \subseteq Thread
      /\ cur' = cur /\ tasks' = tasks /\ nextCommandId' = nextCommandId /\ want' = want
  BY ZenonT(40) DEF IdsInv, Thread, Admit, latchVars
<1>2. CASE pc' = [pc EXCEPT ![x] = "done"]
  <2>1. "done" \in Elsewhere /\ cur[x] \in Nat /\ cur' = [cur EXCEPT ![x] = cur[x]]
    BY <1>1, ZenonT(40) DEF Elsewhere
  <2>2. QED BY <1>1, <1>2, <2>1, ThreadMoves, ZenonT(40)
<1>3. CASE pc' = [pc EXCEPT ![x] = "insert"]
  <2>1. /\ pc'[x] = "insert" /\ \A t \in Thread : t # x => pc'[t] = pc[t]
        /\ pc' \in [Thread -> Entering \cup Registering \cup Elsewhere]
    BY <1>1, <1>3, ZenonT(40) DEF Entering
  <2>2. Entered' = Entered /\ Made' = Made
    BY <1>1, <2>1, ZenonT(40) DEF Entered, Entering, Made
  <2>3. QED BY <1>1, <2>1, <2>2, ZenonT(40) DEF IdsInv, Entering, Registering
<1>4. QED BY <1>2, <1>3, ZenonT(40) DEF Admit

LEMMA InsertIds ==
    ASSUME IdsInv, NEW x \in Calls, Insert(x), plan' = plan
    PROVE  IdsInv'
<1>1. /\ x \in Thread /\ cur \in [Thread -> Nat] /\ pc[x] = "insert"
      /\ pc \in [Thread -> Entering \cup Registering \cup Elsewhere]
      /\ Calls \subseteq Thread /\ want' = want
  BY ZenonT(40) DEF IdsInv, Thread, Insert, latchVars
<1>2. CASE /\ pc' = [pc EXCEPT ![x] = "done"]
           /\ cur' = cur /\ tasks' = tasks /\ nextCommandId' = nextCommandId
  <2>1. "done" \in Elsewhere /\ cur[x] \in Nat /\ cur' = [cur EXCEPT ![x] = cur[x]]
    BY <1>1, <1>2, ZenonT(40) DEF Elsewhere
  <2>2. QED BY <1>1, <1>2, <2>1, ThreadMoves, ZenonT(40)
<1>3. CASE /\ nextCommandId' = nextCommandId + 1
           /\ tasks' = tasks \cup {nextCommandId'}
           /\ cur' = [cur EXCEPT ![x] = nextCommandId']
           /\ pc' = [pc EXCEPT ![x] = "find"]
  <2>1. /\ nextCommandId \in Nat /\ nextCommandId' \in Nat
        /\ nextCommandId < nextCommandId'
    BY <1>3, SMTT(40) DEF IdsInv
  <2>2. /\ pc'[x] = "find" /\ cur'[x] = nextCommandId'
        /\ \A t \in Thread : t # x => pc'[t] = pc[t] /\ cur'[t] = cur[t]
        /\ pc' \in [Thread -> Entering \cup Registering \cup Elsewhere]
        /\ cur' \in [Thread -> Nat]
    BY <1>1, <1>3, <2>1, ZenonT(40) DEF Registering
  <2>3. Made' = Made
    BY ZenonT(40) DEF Made
  <2>4. nextCommandId' <= Cardinality(Entered')
    <3>1. Entered' = Entered \cup {x} /\ x \notin Entered
      BY <1>1, <2>2, ZenonT(40) DEF Entered, Entering
    <3>2. Entered \in SUBSET Calls
      BY ZenonT(40) DEF Entered
    <3>3. IsFiniteSet(Entered) /\ Cardinality(Entered) \in Nat
      BY <3>2, EnteredFinite, ZenonT(40)
    <3>4. Cardinality(Entered') = Cardinality(Entered) + 1
      BY <3>1, <3>3, FS_AddElement, ZenonT(40)
    <3>5. QED BY <1>3, <3>3, <3>4, SMTT(40) DEF IdsInv
  <2>5. nextCommandId' \in Command
    <3>1. Entered' \in SUBSET Calls
      BY ZenonT(40) DEF Entered
    <3>2. Cardinality(Entered') \in Nat /\ Cardinality(Entered') <= Cardinality(Calls)
      BY <3>1, EnteredFinite, ZenonT(40)
    <3>3. Cardinality(Calls) \in Nat
      BY BoundsAssumption, FS_CardinalityType, ZenonT(40)
    <3>4. QED BY <1>3, <2>1, <2>4, <3>2, <3>3, BoundsAssumption, MaxCommandAssumption, SMTT(40)
              DEF Command
  <2>6. want'[nextCommandId'] = NoWant
    BY <1>1, <2>1, <2>5, ZenonT(40) DEF IdsInv
  <2>7. tasks' \subseteq 1 .. nextCommandId'
    BY <1>3, <2>1, SMTT(40) DEF IdsInv
  <2>8. \A t \in Thread : pc'[t] = "release" => cur'[t] \in 1 .. nextCommandId'
    BY <2>1, <2>2, SMTT(40) DEF IdsInv
  <2>9. \A y \in Calls : pc'[y] \in Entering \cup Registering => y \in Made
    BY <1>1, <2>2, ZenonT(40) DEF IdsInv, Entering
  <2>10. \A y \in Calls : pc'[y] \in Registering =>
           cur'[y] \in 1 .. nextCommandId' /\ want'[cur'[y]] = NoWant
    BY <1>1, <2>1, <2>2, <2>6, SMTT(40) DEF IdsInv
  <2>11. \A y, z \in Calls :
           pc'[y] \in Registering /\ pc'[z] \in Registering /\ cur'[y] = cur'[z] => y = z
    BY <1>1, <2>1, <2>2, SMTT(40) DEF IdsInv
  <2>12. \A c \in Command : c > nextCommandId' => want'[c] = NoWant
    BY <1>1, <1>3, <2>1, CommandFacts, SMTT(40) DEF IdsInv
  <2>13. QED BY <1>1, <2>1, <2>2, <2>3, <2>4, <2>7, <2>8, <2>9, <2>10, <2>11, <2>12, ZenonT(40) DEF IdsInv
<1>4. QED BY <1>2, <1>3, ZenonT(40) DEF Insert

LEMMA FindIds ==
    ASSUME IdsInv, NEW x \in Calls, FindTask(x), plan' = plan
    PROVE  IdsInv'
<1>1. /\ x \in Thread /\ cur \in [Thread -> Nat] /\ pc[x] = "find"
      /\ pc \in [Thread -> Entering \cup Registering \cup Elsewhere]
      /\ Calls \subseteq Thread
      /\ cur' = cur /\ tasks' = tasks /\ nextCommandId' = nextCommandId /\ want' = want
  BY ZenonT(40) DEF IdsInv, Thread, FindTask, latchVars, taskVars
<1>2. CASE pc' = [pc EXCEPT ![x] = "done"]
  <2>1. "done" \in Elsewhere /\ cur[x] \in Nat /\ cur' = [cur EXCEPT ![x] = cur[x]]
    BY <1>1, ZenonT(40) DEF Elsewhere
  <2>2. QED BY <1>1, <1>2, <2>1, ThreadMoves, ZenonT(40)
<1>3. CASE pc' = [pc EXCEPT ![x] = "acquire"]
  <2>1. /\ pc'[x] = "acquire" /\ \A t \in Thread : t # x => pc'[t] = pc[t]
        /\ pc' \in [Thread -> Entering \cup Registering \cup Elsewhere]
    BY <1>1, <1>3, ZenonT(40) DEF Registering
  <2>2. Entered' = Entered /\ Made' = Made
    BY <1>1, <2>1, ZenonT(40) DEF Entered, Entering, Made
  <2>3. QED BY <1>1, <2>1, <2>2, SMTT(40) DEF IdsInv, Entering, Registering
<1>4. QED BY <1>2, <1>3, ZenonT(40) DEF FindTask

\* A call registers its own command, for the first time.
LEMMA AcquireAllowed ==
    ASSUME IdsInv, NEW x \in Calls, pc[x] = "acquire"
    PROVE  cur[x] \in Command /\ want[cur[x]] = NoWant /\ Asked(CallOf[x].want)
<1>1. x \in Made /\ cur[x] \in 1 .. nextCommandId /\ want[cur[x]] = NoWant /\ plan \in Workloads
  BY ZenonT(40) DEF IdsInv, Registering
<1>2. QED BY <1>1, IdsWithinBound, CallsAssumption, ZenonT(40) DEF Asked, Made, CallOf

LEMMA AcquireIds ==
    ASSUME IdsInv, NEW x \in Calls, AcquireLatches(x), plan' = plan
    PROVE  IdsInv'
<1> DEFINE k == cur[x]
           w == CallOf[x].want
<1>1. /\ x \in Thread /\ cur \in [Thread -> Nat] /\ pc[x] = "acquire"
      /\ pc \in [Thread -> Entering \cup Registering \cup Elsewhere]
      /\ Calls \subseteq Thread /\ cur' = cur
      /\ tasks' = tasks /\ nextCommandId' = nextCommandId
  BY ZenonT(40) DEF IdsInv, Thread, AcquireLatches, taskVars
<1>2. k \in Command /\ w \in Want /\ k \in 1 .. nextCommandId
  BY <1>1, AcquireAllowed, ZenonT(40) DEF Asked, IdsInv, Registering
<1>3. want \in [Command -> Want \cup {NoWant}] /\ want' = [want EXCEPT ![k] = w]
  BY ZenonT(40) DEF IdsInv, AcquireLatches, Acquire
<1>4. PICK v \in {"submit", "done"} : pc' = [pc EXCEPT ![x] = v]
  BY ZenonT(40) DEF AcquireLatches
<1>5. /\ pc'[x] = v /\ v \notin Entering \cup Registering /\ v # "release"
      /\ \A t \in Thread : t # x => pc'[t] = pc[t]
      /\ pc' \in [Thread -> Entering \cup Registering \cup Elsewhere]
  BY <1>1, <1>4, ZenonT(40) DEF Entering, Registering, Elsewhere
<1>6. Entered' = Entered /\ Made' = Made
  BY <1>1, <1>5, ZenonT(40) DEF Entered, Entering, Made
<1>7. /\ want' \in [Command -> Want \cup {NoWant}]
      /\ \A c \in Command : c # k => want'[c] = want[c]
  BY <1>2, <1>3, ZenonT(40)
<1>8. \A y \in Calls : pc'[y] \in Registering =>
          cur'[y] \in 1 .. nextCommandId' /\ want'[cur'[y]] = NoWant
  <2> SUFFICES ASSUME NEW y \in Calls, pc'[y] \in Registering
               PROVE  cur'[y] \in 1 .. nextCommandId' /\ want'[cur'[y]] = NoWant
    BY ZenonT(40)
  <2>1. y # x /\ pc[y] \in Registering
    BY <1>1, <1>5, ZenonT(40)
  <2>2. /\ cur[y] \in 1 .. nextCommandId /\ want[cur[y]] = NoWant
        /\ cur[y] # cur[x]
    BY <1>1, <2>1, ZenonT(40) DEF IdsInv, Registering
  <2>3. cur[y] \in Command
    BY <2>2, IdsWithinBound, ZenonT(40)
  <2>4. QED BY <1>1, <1>7, <2>2, <2>3, ZenonT(40)
<1>9. \A c \in Command : c > nextCommandId' => want'[c] = NoWant
  <2>1. \A c \in Command : c > nextCommandId => c # k
    BY <1>2, CommandFacts, SMTT(40) DEF IdsInv
  <2>2. QED BY <1>1, <1>7, <2>1, ZenonT(40) DEF IdsInv
<1> HIDE DEF k, w
<1>10. QED BY <1>1, <1>5, <1>6, <1>7, <1>8, <1>9, ZenonT(40) DEF IdsInv

-----------------------------------------------------------------------------
(* Answers.                                                                *)

LEMMA AnswersQuiet ==
    ASSUME AnswersInv, tasks' = tasks, responses' = responses, answer' = answer,
           \A x \in Calls : pc'[x] \in Entering => pc[x] \in Entering
    PROVE  AnswersInv' /\ AnswersKept
BY ZenonT(40) DEF AnswersInv, AnswersKept

LEMMA ThreadLeaves ==
    ASSUME IdsInv, NEW t \in Thread, NEW v, v \notin Entering, pc' = [pc EXCEPT ![t] = v]
    PROVE  \A x \in Calls : pc'[x] \in Entering => pc[x] \in Entering
BY ZenonT(40) DEF IdsInv, Thread

LEMMA GoOnLeaves ==
    ASSUME IdsInv, NEW t \in Thread, NEW commands, GoOn(t, commands)
    PROVE  \A x \in Calls : pc'[x] \in Entering => pc[x] \in Entering
<1>1. PICK v \in {"done", "idle", "dispatch"} : pc' = [pc EXCEPT ![t] = v]
  BY ZenonT(40) DEF GoOn, Home
<1>2. v \notin Entering
  BY ZenonT(40) DEF Entering
<1>3. QED BY <1>1, <1>2, ThreadLeaves, ZenonT(40)

LEMMA EndAnswers ==
    ASSUME IdsInv, AnswersInv, NEW t \in Thread, NEW c \in tasks, NEW result,
           EndTask(t, c, result)
    PROVE  AnswersInv' /\ AnswersKept
<1>1. c \in Command
  BY IdsWithinBound, ZenonT(40) DEF IdsInv
<1>2. /\ responses \in [Command -> SUBSET Calls]
      /\ tasks' = tasks \ {c}
      /\ responses' = [responses EXCEPT ![c] = {}]
      /\ answer' = [x \in Calls |-> IF x \in responses[c] THEN result ELSE answer[x]]
      /\ pc' = [pc EXCEPT ![t] = "release"]
  BY ZenonT(40) DEF EndTask, Answer, AnswersInv
<1>3. \A x \in Calls : pc'[x] \in Entering => pc[x] \in Entering
  <2>1. "release" \notin Entering
    BY ZenonT(40) DEF Entering
  <2>2. QED BY <1>2, <2>1, ThreadLeaves, ZenonT(40)
<1>4. /\ responses'[c] = {} /\ \A d \in Command : d # c => responses'[d] = responses[d]
      /\ responses' \in [Command -> SUBSET Calls]
  BY <1>1, <1>2, ZenonT(40)
<1>5. \A x \in Calls : x \notin responses[c] => answer'[x] = answer[x]
  BY <1>2, ZenonT(40)
<1>6. \A d \in Command : d \notin tasks' => responses'[d] = {}
  BY <1>2, <1>4, ZenonT(40) DEF AnswersInv
<1>7. ASSUME NEW d \in Command, NEW x \in responses'[d]
      PROVE  answer'[x] = "none" /\ pc'[x] \notin Entering
  <2>1. d # c /\ x \in responses[d] /\ x \in Calls
    BY <1>4, ZenonT(40)
  <2>2. x \notin responses[c]
    BY <1>1, <2>1, ZenonT(40) DEF AnswersInv
  <2>3. QED BY <1>3, <1>5, <2>1, <2>2, ZenonT(40) DEF AnswersInv
<1>8. \A d, e \in Command : d # e => responses'[d] \cap responses'[e] = {}
  BY <1>4, ZenonT(40) DEF AnswersInv
<1>9. ASSUME NEW x \in Calls, pc'[x] \in Entering PROVE answer'[x] = "none"
  <2>1. pc[x] \in Entering /\ answer[x] = "none"
    BY <1>3, <1>9, ZenonT(40) DEF AnswersInv
  <2>2. x \notin responses[c]
    BY <1>1, <2>1, ZenonT(40) DEF AnswersInv
  <2>3. QED BY <1>5, <2>1, <2>2, ZenonT(40)
<1>10. AnswersKept
  BY <1>1, <1>5, ZenonT(40) DEF AnswersInv, AnswersKept
<1>11. QED BY <1>4, <1>6, <1>7, <1>8, <1>9, <1>10, ZenonT(40) DEF AnswersInv

LEMMA FinishAnswers ==
    ASSUME IdsInv, AnswersInv, NEW t \in Thread, NEW c, NEW result, NEW commands,
           FinishBeforeProposal(t, c, result, commands)
    PROVE  AnswersInv' /\ AnswersKept
<1>1. CASE c \in tasks /\ EndTask(t, c, result)
  BY <1>1, EndAnswers, ZenonT(40)
<1>2. CASE GoOn(t, commands) /\ UNCHANGED <<cur, taskVars>>
  <2>1. tasks' = tasks /\ responses' = responses /\ answer' = answer
    BY <1>2, ZenonT(40) DEF taskVars
  <2>2. QED BY <1>2, <2>1, GoOnLeaves, AnswersQuiet, ZenonT(40)
<1>3. QED BY <1>1, <1>2, ZenonT(40) DEF FinishBeforeProposal

LEMMA SubmitAnswers ==
    ASSUME IdsInv, AnswersInv, NEW t \in Thread, NEW c, NEW commands, Submit(t, c, commands)
    PROVE  AnswersInv' /\ AnswersKept
<1>1. CASE GoOn(t, commands) /\ UNCHANGED <<cur, taskVars>>
  <2>1. tasks' = tasks /\ responses' = responses /\ answer' = answer
    BY <1>1, ZenonT(40) DEF taskVars
  <2>2. QED BY <1>1, <2>1, GoOnLeaves, AnswersQuiet, ZenonT(40)
<1>2. CASE FinishBeforeProposal(t, c, "WrongLeader", commands)
  BY <1>2, FinishAnswers, ZenonT(40)
<1>3. QED BY <1>1, <1>2, ZenonT(40) DEF Submit

\* A call is answered before it has a task, or because its deadline has passed.
LEMMA OneAnswered ==
    ASSUME IdsInv, AnswersInv, NEW x \in Calls, NEW result, Answer({x}, result),
           answer[x] = "none", tasks' = tasks,
           responses' \in [Command -> SUBSET Calls],
           \A c \in Command : responses'[c] \subseteq responses[c] \ {x},
           pc'[x] \notin Entering,
           \A y \in Calls : pc'[y] \in Entering => pc[y] \in Entering
    PROVE  AnswersInv' /\ AnswersKept
<1>1. \A y \in Calls : y # x => answer'[y] = answer[y]
  BY ZenonT(40) DEF Answer
<1>2. \A c \in Command : c \notin tasks' => responses'[c] = {}
  BY ZenonT(40) DEF AnswersInv
<1>3. ASSUME NEW c \in Command, NEW y \in responses'[c]
      PROVE  answer'[y] = "none" /\ pc'[y] \notin Entering
  <2>1. y \in responses[c] /\ y # x /\ y \in Calls
    BY ZenonT(40)
  <2>2. QED BY <1>1, <2>1, ZenonT(40) DEF AnswersInv
<1>4. \A c, d \in Command : c # d => responses'[c] \cap responses'[d] = {}
  <2> SUFFICES ASSUME NEW c \in Command, NEW d \in Command, c # d,
                      NEW y \in responses'[c] \cap responses'[d]
               PROVE  FALSE
    BY ZenonT(40)
  <2>1. y \in responses[c] /\ y \in responses[d]
    BY ZenonT(40)
  <2>2. QED BY <2>1, ZenonT(40) DEF AnswersInv
<1>5. \A y \in Calls : pc'[y] \in Entering => answer'[y] = "none"
  BY <1>1, ZenonT(40) DEF AnswersInv
<1>6. AnswersKept
  BY <1>1, ZenonT(40) DEF AnswersKept
<1>7. QED BY <1>2, <1>3, <1>4, <1>5, <1>6, ZenonT(40) DEF AnswersInv

LEMMA AdmitAnswers ==
    ASSUME IdsInv, AnswersInv, NEW x \in Calls, Admit(x)
    PROVE  AnswersInv' /\ AnswersKept
<1>1. /\ pc[x] = "new" /\ pc[x] \in Entering /\ x \in Thread
      /\ tasks' = tasks /\ responses' = responses
      /\ pc \in [Thread -> Entering \cup Registering \cup Elsewhere] /\ Calls \subseteq Thread
  BY ZenonT(40) DEF Admit, Entering, Thread, IdsInv
<1>2. CASE pc' = [pc EXCEPT ![x] = "insert"] /\ answer' = answer
  <2>1. \A y \in Calls : pc'[y] \in Entering => pc[y] \in Entering
    BY <1>1, <1>2, ZenonT(40)
  <2>2. QED BY <1>1, <1>2, <2>1, AnswersQuiet, ZenonT(40)
<1>3. CASE Answer({x}, "WrongLeader") /\ pc' = [pc EXCEPT ![x] = "done"]
  <2>1. /\ \A y \in Calls : pc'[y] \in Entering => pc[y] \in Entering
        /\ pc'[x] \notin Entering
    BY <1>1, <1>3, ZenonT(40) DEF Entering
  <2>2. /\ answer[x] = "none" /\ responses' \in [Command -> SUBSET Calls]
        /\ \A c \in Command : responses'[c] \subseteq responses[c] \ {x}
    BY <1>1, ZenonT(40) DEF AnswersInv
  <2>3. QED BY <1>1, <1>3, <2>1, <2>2, OneAnswered, ZenonT(40)
<1>4. QED BY <1>2, <1>3, ZenonT(40) DEF Admit

LEMMA InsertAnswers ==
    ASSUME IdsInv, AnswersInv, IdsInv', NEW x \in Calls, Insert(x)
    PROVE  AnswersInv' /\ AnswersKept
<1>1. /\ pc[x] = "insert" /\ pc[x] \in Entering /\ x \in Thread
      /\ pc \in [Thread -> Entering \cup Registering \cup Elsewhere] /\ Calls \subseteq Thread
      /\ responses \in [Command -> SUBSET Calls]
  BY ZenonT(40) DEF Insert, Entering, Thread, IdsInv, AnswersInv
<1>2. answer[x] = "none" /\ \A c \in Command : x \notin responses[c]
  BY <1>1, ZenonT(40) DEF AnswersInv
<1>3. PICK v \in {"done", "find"} : pc' = [pc EXCEPT ![x] = v]
  BY ZenonT(40) DEF Insert
<1>4. /\ \A y \in Calls : pc'[y] \in Entering => pc[y] \in Entering
      /\ pc'[x] \notin Entering
  BY <1>1, <1>3, ZenonT(40) DEF Entering
<1>5. ASSUME NEW c \in tasks', c \in Command, tasks' = tasks \cup {c}, answer' = answer,
             responses' = [responses EXCEPT ![c] = responses[c] \cup {x}]
      PROVE  AnswersInv' /\ AnswersKept
  <2>1. /\ responses'[c] = responses[c] \cup {x}
        /\ \A d \in Command : d # c => responses'[d] = responses[d]
        /\ responses' \in [Command -> SUBSET Calls]
    BY <1>1, <1>5, ZenonT(40)
  <2>2. \A d \in Command : d \notin tasks' => responses'[d] = {}
    BY <1>5, <2>1, ZenonT(40) DEF AnswersInv
  <2>3. ASSUME NEW d \in Command, NEW y \in responses'[d]
        PROVE  answer'[y] = "none" /\ pc'[y] \notin Entering
    <3>1. y = x \/ y \in responses[d]
      BY <2>1, ZenonT(40)
    <3>2. y \in Calls
      BY <2>1, ZenonT(40)
    <3>3. QED BY <1>2, <1>4, <1>5, <3>1, <3>2, ZenonT(40) DEF AnswersInv
  <2>4. \A d, e \in Command : d # e => responses'[d] \cap responses'[e] = {}
    <3> SUFFICES ASSUME NEW d \in Command, NEW e \in Command, d # e,
                        NEW y \in responses'[d] \cap responses'[e]
                 PROVE  FALSE
      BY ZenonT(40)
    <3>1. y # x
      BY <1>2, <2>1, ZenonT(40)
    <3>2. y \in responses[d] /\ y \in responses[e]
      BY <2>1, <3>1, SMTT(40)
    <3>3. QED BY <3>2, ZenonT(40) DEF AnswersInv
  <2>5. \A y \in Calls : pc'[y] \in Entering => answer'[y] = "none"
    BY <1>4, <1>5, ZenonT(40) DEF AnswersInv
  <2>6. AnswersKept
    BY <1>5, ZenonT(40) DEF AnswersKept
  <2>7. QED BY <2>1, <2>2, <2>3, <2>4, <2>5, <2>6, ZenonT(40) DEF AnswersInv
<1>6. CASE /\ \E c \in TaskFor(RequestKey(x)) :
                responses' = [responses EXCEPT ![c] = @ \cup {x}]
           /\ tasks' = tasks /\ answer' = answer
  <2>1. PICK c \in tasks : responses' = [responses EXCEPT ![c] = @ \cup {x}]
    BY <1>6, ZenonT(40) DEF TaskFor
  <2>2. c \in Command /\ c \in tasks' /\ tasks' = tasks \cup {c}
    BY <1>6, IdsWithinBound, ZenonT(40) DEF IdsInv
  <2>3. QED BY <1>5, <1>6, <2>1, <2>2, ZenonT(40)
<1>7. CASE /\ Answer({x}, "WrongLeader") /\ tasks' = tasks /\ responses' = responses
  <2>1. /\ responses' \in [Command -> SUBSET Calls]
        /\ \A c \in Command : responses'[c] \subseteq responses[c] \ {x}
    BY <1>1, <1>2, <1>7, ZenonT(40)
  <2>2. QED BY <1>2, <1>4, <1>7, <2>1, OneAnswered, ZenonT(40)
<1>8. CASE /\ nextCommandId' = nextCommandId + 1
           /\ tasks' = tasks \cup {nextCommandId'}
           /\ responses' = [responses EXCEPT ![nextCommandId'] = {x}]
           /\ answer' = answer
  <2>1. nextCommandId' \in Command /\ nextCommandId' \in tasks'
    BY <1>8, IdsWithinBoundAfter, ZenonT(40) DEF IdsInv
  <2>2. nextCommandId' \notin tasks
    BY <1>8, SMTT(40) DEF IdsInv
  <2>3. responses[nextCommandId'] = {}
    BY <2>1, <2>2, ZenonT(40) DEF AnswersInv
  <2>4. responses' = [responses EXCEPT ![nextCommandId'] = responses[nextCommandId'] \cup {x}]
    BY <1>8, <2>3, ZenonT(40)
  <2>5. QED BY <1>5, <1>8, <2>1, <2>4, ZenonT(40)
<1>9. QED BY <1>6, <1>7, <1>8, ZenonT(40) DEF Insert

LEMMA DeadlineAnswers ==
    ASSUME IdsInv, AnswersInv, NEW x \in Calls, DeadlinePasses(x)
    PROVE  AnswersInv' /\ AnswersKept
<1>1. PICK c \in tasks : x \in responses[c] /\ responses' = [responses EXCEPT ![c] = @ \ {x}]
  BY ZenonT(40) DEF DeadlinePasses
<1>2. /\ Answer({x}, "Timeout") /\ pc' = pc /\ tasks' = tasks
      /\ responses \in [Command -> SUBSET Calls]
  BY ZenonT(40) DEF DeadlinePasses, threadVars, AnswersInv
<1>3. c \in Command
  BY IdsWithinBound, ZenonT(40) DEF IdsInv
<1>4. answer[x] = "none" /\ pc[x] \notin Entering
  BY <1>1, <1>3, ZenonT(40) DEF AnswersInv
<1>5. \A d \in Command : d # c => x \notin responses[d]
  BY <1>1, <1>3, ZenonT(40) DEF AnswersInv
<1>6. /\ responses' \in [Command -> SUBSET Calls]
      /\ \A d \in Command : responses'[d] \subseteq responses[d] \ {x}
  BY <1>1, <1>2, <1>3, <1>5, ZenonT(40)
<1>7. QED BY <1>2, <1>4, <1>6, OneAnswered, ZenonT(40)

-----------------------------------------------------------------------------
(* The steps.                                                              *)

LEMMA Resting ==
    ASSUME SchedulerInv, UNCHANGED <<threadVars, taskVars>>, want' = want, plan' = plan
    PROVE  SchedulerInv' /\ AnswersKept
<1>1. /\ pc' = pc /\ cur' = cur /\ tasks' = tasks /\ nextCommandId' = nextCommandId
      /\ responses' = responses /\ answer' = answer
  BY ZenonT(40) DEF threadVars, taskVars
<1>2. IdsInv'
  BY <1>1, IdsUnchanged, ZenonT(40) DEF SchedulerInv
<1>3. AnswersInv' /\ AnswersKept
  BY <1>1, AnswersQuiet, ZenonT(40) DEF SchedulerInv
<1>4. QED BY <1>2, <1>3, ZenonT(40) DEF SchedulerInv

LEMMA Moving ==
    ASSUME SchedulerInv, NEW t \in Thread, NEW v \in Elsewhere \ {"release"}, NEW k \in Nat,
           pc' = [pc EXCEPT ![t] = v], cur' = [cur EXCEPT ![t] = k],
           UNCHANGED taskVars, want' = want, plan' = plan
    PROVE  SchedulerInv' /\ AnswersKept
<1>1. /\ tasks' = tasks /\ nextCommandId' = nextCommandId
      /\ responses' = responses /\ answer' = answer
  BY ZenonT(40) DEF taskVars
<1>2. IdsInv'
  BY <1>1, ThreadMoves, ZenonT(40) DEF SchedulerInv
<1>3. v \notin Entering
  BY ZenonT(40) DEF Elsewhere, Entering
<1>4. AnswersInv' /\ AnswersKept
  BY <1>1, <1>3, ThreadLeaves, AnswersQuiet, ZenonT(40) DEF SchedulerInv
<1>5. QED BY <1>2, <1>4, ZenonT(40) DEF SchedulerInv

\* The same, the thread keeping its command.
LEMMA MovingOn ==
    ASSUME SchedulerInv, NEW t \in Thread, NEW v \in Elsewhere \ {"release"},
           pc' = [pc EXCEPT ![t] = v], cur' = cur,
           UNCHANGED taskVars, want' = want, plan' = plan
    PROVE  SchedulerInv' /\ AnswersKept
<1>1. cur[t] \in Nat /\ cur' = [cur EXCEPT ![t] = cur[t]]
  BY ZenonT(40) DEF SchedulerInv, IdsInv
<1>2. QED BY <1>1, Moving, ZenonT(40)

LEMMA GoingOn ==
    ASSUME SchedulerInv, NEW t \in Thread, NEW commands, GoOn(t, commands),
           cur' = cur, UNCHANGED taskVars, want' = want, plan' = plan
    PROVE  SchedulerInv' /\ AnswersKept
<1>1. PICK v \in Elsewhere \ {"release"} : pc' = [pc EXCEPT ![t] = v]
  BY GoOnTarget, ZenonT(40)
<1>2. QED BY <1>1, MovingOn, ZenonT(40)

LEMMA Finishing ==
    ASSUME SchedulerInv, NEW t \in Thread, NEW c, NEW result, NEW commands,
           FinishBeforeProposal(t, c, result, commands), want' = want, plan' = plan
    PROVE  SchedulerInv' /\ AnswersKept
BY FinishIds, FinishAnswers, ZenonT(40) DEF SchedulerInv

LEMMA ThreadsAreThreads ==
    /\ Calls \subseteq Thread /\ Workers \subseteq Thread
    /\ \A r \in Regions : Applier(r) \in Thread /\ Remover(r) \in Thread
BY ZenonT(40) DEF Thread

LEMMA CallStep ==
    ASSUME SchedulerInv, NEW x \in Calls, CallNext(x) \/ DeadlinePasses(x), plan' = plan
    PROVE  SchedulerInv' /\ AnswersKept
<1>1. CASE Admit(x)
  BY <1>1, AdmitIds, AdmitAnswers, ZenonT(40) DEF SchedulerInv
<1>2. CASE Insert(x)
  BY <1>2, InsertIds, InsertAnswers, ZenonT(40) DEF SchedulerInv
<1>3. CASE FindTask(x)
  <2>1. IdsInv'
    BY <1>3, FindIds, ZenonT(40) DEF SchedulerInv
  <2>2. PICK v \in {"acquire", "done"} : pc' = [pc EXCEPT ![x] = v]
    BY <1>3, ZenonT(40) DEF FindTask
  <2>3. tasks' = tasks /\ responses' = responses /\ answer' = answer /\ v \notin Entering
    BY <1>3, ZenonT(40) DEF FindTask, taskVars, Entering
  <2>4. QED BY <2>1, <2>2, <2>3, ThreadLeaves, AnswersQuiet, ThreadsAreThreads, ZenonT(40) DEF SchedulerInv
<1>4. CASE AcquireLatches(x)
  <2>1. IdsInv'
    BY <1>4, AcquireIds, ZenonT(40) DEF SchedulerInv
  <2>2. PICK v \in {"submit", "done"} : pc' = [pc EXCEPT ![x] = v]
    BY <1>4, ZenonT(40) DEF AcquireLatches
  <2>3. tasks' = tasks /\ responses' = responses /\ answer' = answer /\ v \notin Entering
    BY <1>4, ZenonT(40) DEF AcquireLatches, taskVars, Entering
  <2>4. QED BY <2>1, <2>2, <2>3, ThreadLeaves, AnswersQuiet, ThreadsAreThreads, ZenonT(40) DEF SchedulerInv
<1>5. CASE SubmitOwn(x)
  <2>1. Submit(x, cur[x], <<>>) /\ want' = want /\ x \in Thread
    BY <1>5, ThreadsAreThreads, ZenonT(40) DEF SubmitOwn, latchVars
  <2>2. QED BY <2>1, SubmitIds, SubmitAnswers, ZenonT(40) DEF SchedulerInv
<1>6. CASE DeadlinePasses(x)
  <2>1. /\ pc' = pc /\ cur' = cur /\ tasks' = tasks /\ nextCommandId' = nextCommandId
        /\ want' = want
    BY <1>6, ZenonT(40) DEF DeadlinePasses, latchVars, threadVars
  <2>2. QED BY <1>6, <2>1, IdsUnchanged, DeadlineAnswers, ZenonT(40) DEF SchedulerInv
<1>7. QED BY <1>1, <1>2, <1>3, <1>4, <1>5, <1>6, ZenonT(40) DEF CallNext

LEMMA WorkerStep ==
    ASSUME SchedulerInv, NEW w \in Workers, WorkerNext(w), plan' = plan
    PROVE  SchedulerInv' /\ AnswersKept
<1>1. w \in Thread
  BY ThreadsAreThreads, ZenonT(40)
<1>2. CASE Execute(w)
  <2>1. want' = want
    BY <1>2, ZenonT(40) DEF Execute, latchVars
  <2>2. CASE UNCHANGED <<threadVars, taskVars, prepared>>
    BY <2>1, <2>2, Resting, ZenonT(40)
  <2>3. CASE /\ Head(pool) \in tasks
             /\ cur' = [cur EXCEPT ![w] = Head(pool)]
             /\ pc' = [pc EXCEPT ![w] =
                          IF IsGarbageCollect(Head(pool)) THEN "recheck" ELSE "prepare"]
             /\ UNCHANGED <<todo, taskVars>>
    <3>1. Head(pool) \in Nat
      <4>1. Head(pool) \in tasks
        BY <2>3, ZenonT(40)
      <4>2. tasks \subseteq Nat
        BY SMTT(40) DEF SchedulerInv, IdsInv
      <4>3. QED BY <4>1, <4>2, ZenonT(40)
    <3>2. PICK v \in Elsewhere \ {"release"} : pc' = [pc EXCEPT ![w] = v]
      <4>1. "recheck" \in Elsewhere \ {"release"} /\ "prepare" \in Elsewhere \ {"release"}
        BY ZenonT(40) DEF Elsewhere
      <4>2. pc' = [pc EXCEPT ![w] = "recheck"] \/ pc' = [pc EXCEPT ![w] = "prepare"]
        BY <2>3, ZenonT(40)
      <4>3. QED BY <4>1, <4>2, ZenonT(40)
    <3>3. UNCHANGED taskVars
      BY <2>3, ZenonT(40)
    <3>4. QED BY <1>1, <2>1, <2>3, <3>1, <3>2, <3>3, Moving, ZenonT(40)
  <2>4. CASE \E result : FinishBeforeProposal(w, Head(pool), result, <<>>)
    BY <1>1, <2>1, <2>4, Finishing, ZenonT(40)
  <2>5. QED BY <1>2, <2>2, <2>3, <2>4, ZenonT(40) DEF Execute
<1>3. CASE Prepare(w)
  <2>1. want' = want
    BY <1>3, ZenonT(40) DEF Prepare, latchVars
  <2>2. CASE pc' = [pc EXCEPT ![w] = "recheck"] /\ UNCHANGED <<cur, todo, taskVars>>
    <3>1. "recheck" \in Elsewhere \ {"release"} /\ cur' = cur /\ UNCHANGED taskVars
      BY <2>2, ZenonT(40) DEF Elsewhere
    <3>2. QED BY <1>1, <2>1, <2>2, <3>1, MovingOn, ZenonT(40)
  <2>3. CASE FinishBeforeProposal(w, cur[w], "Status", <<>>)
    BY <1>1, <2>1, <2>3, Finishing, ZenonT(40)
  <2>4. QED BY <1>3, <2>2, <2>3, ZenonT(40) DEF Prepare
<1>4. CASE Recheck(w)
  <2>1. want' = want
    BY <1>4, ZenonT(40) DEF Recheck, latchVars
  <2>2. CASE pc' = [pc EXCEPT ![w] = "propose"] /\ UNCHANGED <<cur, todo, taskVars, prepared>>
    <3>1. "propose" \in Elsewhere \ {"release"} /\ cur' = cur /\ UNCHANGED taskVars
      BY <2>2, ZenonT(40) DEF Elsewhere
    <3>2. QED BY <1>1, <2>1, <2>2, <3>1, MovingOn, ZenonT(40)
  <2>3. CASE FinishBeforeProposal(w, cur[w], "Timeout", <<>>)
    BY <1>1, <2>1, <2>3, Finishing, ZenonT(40)
  <2>4. QED BY <1>4, <2>2, <2>3, ZenonT(40) DEF Recheck
<1>5. CASE Propose(w)
  <2>1. want' = want
    BY <1>5, ZenonT(40) DEF Propose, latchVars
  <2>2. CASE GoOn(w, <<>>) /\ UNCHANGED <<cur, taskVars>>
    <3>1. cur' = cur /\ UNCHANGED taskVars
      BY <2>2, ZenonT(40)
    <3>2. QED BY <1>1, <2>1, <2>2, <3>1, GoingOn, ZenonT(40)
  <2>3. CASE FinishBeforeProposal(w, cur[w], "WrongLeader", <<>>)
    BY <1>1, <2>1, <2>3, Finishing, ZenonT(40)
  <2>4. QED BY <1>5, <2>2, <2>3, ZenonT(40) DEF Propose
<1>6. QED BY <1>2, <1>3, <1>4, <1>5, ZenonT(40) DEF WorkerNext

LEMMA FinishStep ==
    ASSUME SchedulerInv, NEW t \in Thread, FinishNext(t), plan' = plan
    PROVE  SchedulerInv' /\ AnswersKept
<1>1. CASE DispatchNext(t)
  <2>1. want' = want
    BY <1>1, ZenonT(40) DEF DispatchNext, latchVars
  <2>2. CASE Submit(t, Head(todo[t]), Tail(todo[t]))
    BY <2>1, <2>2, SubmitIds, SubmitAnswers, ZenonT(40) DEF SchedulerInv
  <2>3. CASE GoOn(t, Tail(todo[t])) /\ UNCHANGED <<cur, taskVars, pool>>
    <3>1. cur' = cur /\ UNCHANGED taskVars
      BY <2>3, ZenonT(40)
    <3>2. QED BY <2>1, <2>3, <3>1, GoingOn, ZenonT(40)
  <2>4. QED BY <1>1, <2>2, <2>3, ZenonT(40) DEF DispatchNext
<1>2. CASE ReleaseLatches(t)
  <2>1. cur' = cur /\ UNCHANGED taskVars
    BY <1>2, ZenonT(40) DEF ReleaseLatches
  <2>2. CASE Release(cur[t]) /\ pc' = [pc EXCEPT ![t] = "granting"]
    <3>1. "granting" \in Elsewhere \ {"release"} /\ want' = want
      BY <2>2, ZenonT(40) DEF Elsewhere, Release
    <3>2. QED BY <2>1, <2>2, <3>1, MovingOn, ZenonT(40)
  <2>3. CASE GoOn(t, todo[t]) /\ UNCHANGED latchVars
    <3>1. want' = want
      BY <2>3, ZenonT(40) DEF latchVars
    <3>2. QED BY <2>1, <2>3, <3>1, GoingOn, ZenonT(40)
  <2>4. QED BY <1>2, <2>2, <2>3, ZenonT(40) DEF ReleaseLatches
<1>3. CASE GrantWaiter(t)
  <2>1. UNCHANGED <<threadVars, taskVars>> /\ want' = want
    BY <1>3, ZenonT(40) DEF GrantWaiter, GrantNext
  <2>2. QED BY <2>1, Resting, ZenonT(40)
<1>4. CASE Released(t)
  <2>1. GoOn(t, ready \o todo[t]) /\ cur' = cur /\ UNCHANGED taskVars /\ want' = want
    BY <1>4, ZenonT(40) DEF Released, Return
  <2>2. QED BY <2>1, GoingOn, ZenonT(40)
<1>5. QED BY <1>1, <1>2, <1>3, <1>4, ZenonT(40) DEF FinishNext

LEMMA RegionStep ==
    ASSUME SchedulerInv, NEW r \in Regions,
           PollerNext(r) \/ ApplierNext(r) \/ RemoverNext(r) \/ RaftNext(r), plan' = plan
    PROVE  SchedulerInv' /\ AnswersKept
<1>1. Applier(r) \in Thread /\ Remover(r) \in Thread
  BY ThreadsAreThreads, ZenonT(40)
<1>2. CASE PollerNext(r)
  <2>1. UNCHANGED <<threadVars, taskVars>> /\ want' = want
    BY <1>2, ZenonT(40) DEF PollerNext, Poll, latchVars
  <2>2. QED BY <2>1, Resting, ZenonT(40)
<1>3. CASE ApplyNext(r) \/ \E n \in 2 .. Len(log[r]) : ApplyBatch(r, n)
  <2>1. UNCHANGED <<threadVars, taskVars>> /\ want' = want
    BY <1>3, ZenonT(40) DEF ApplyNext, ApplyBatch, latchVars
  <2>2. QED BY <2>1, Resting, ZenonT(40)
<1>4. CASE OnApplied(r)
  <2>1. want' = want
    BY <1>4, ZenonT(40) DEF OnApplied, latchVars
  <2>2. CASE UNCHANGED <<threadVars, taskVars>>
    BY <2>1, <2>2, Resting, ZenonT(40)
  <2>3. CASE \E c \in TaskFor(Head(notify[r]).key) :
               EndTask(Applier(r), c, "Applied") /\ UNCHANGED todo
    <3>1. PICK c \in tasks : EndTask(Applier(r), c, "Applied") /\ UNCHANGED todo
      BY <2>3, ZenonT(40) DEF TaskFor
    <3>3. AnswersInv' /\ AnswersKept
      BY <1>1, <3>1, EndAnswers, ZenonT(40) DEF SchedulerInv
    <3>4. IdsInv'
      <4>1. /\ c \in Nat /\ c \in 1 .. nextCommandId /\ "release" \in Elsewhere
            /\ pc' = [pc EXCEPT ![Applier(r)] = "release"]
            /\ cur' = [cur EXCEPT ![Applier(r)] = c]
            /\ tasks' \subseteq tasks /\ nextCommandId' = nextCommandId
        BY <3>1, SMTT(40) DEF EndTask, SchedulerInv, IdsInv, Elsewhere
      <4>2. QED BY <1>1, <2>1, <4>1, ThreadMoves, ZenonT(40) DEF SchedulerInv
    <3>5. QED BY <3>3, <3>4, ZenonT(40) DEF SchedulerInv
  <2>4. QED BY <1>4, <2>2, <2>3, ZenonT(40) DEF OnApplied
<1>5. CASE OnProposalRejected(r)
  <2>1. want' = want
    BY <1>5, ZenonT(40) DEF OnProposalRejected, latchVars
  <2>2. CASE UNCHANGED <<threadVars, taskVars>>
    BY <2>1, <2>2, Resting, ZenonT(40)
  <2>3. CASE \E c \in TaskFor(Head(rejected[r]).key) :
               FinishBeforeProposal(Applier(r), c, "WrongLeader", <<>>)
    BY <1>1, <2>1, <2>3, Finishing, ZenonT(40)
  <2>4. QED BY <1>5, <2>2, <2>3, ZenonT(40) DEF OnProposalRejected
<1>6. CASE OnRegionRemoved(r)
  <2>1. UNCHANGED <<threadVars, taskVars>> /\ want' = want
    BY <1>6, ZenonT(40) DEF OnRegionRemoved, latchVars
  <2>2. QED BY <2>1, Resting, ZenonT(40)
<1>7. CASE FinishRemoved(r)
  <2>1. want' = want
    BY <1>7, ZenonT(40) DEF FinishRemoved, latchVars
  <2>2. \E c : FinishBeforeProposal(Remover(r), c, "WrongLeader", <<>>)
    BY <1>7, ZenonT(40) DEF FinishRemoved
  <2>3. QED BY <1>1, <2>1, <2>2, Finishing, ZenonT(40)
<1>8. CASE RaftNext(r)
  <2>1. UNCHANGED quietVars
    BY <1>8, ZenonT(40) DEF RaftNext, LoseLeadership, BecomeLeader, Overwrite, InstallSnapshot,
                ForeignWrite, RemovePeer, Mount
  <2>2. UNCHANGED <<threadVars, taskVars>> /\ want' = want
    BY <2>1, ZenonT(40) DEF quietVars, latchVars
  <2>3. QED BY <2>2, Resting, ZenonT(40)
<1>9. QED BY <1>2, <1>3, <1>4, <1>5, <1>6, <1>7, <1>8, ZenonT(40) DEF ApplierNext, RemoverNext

LEMMA SchedulerInit == Init => SchedulerInv
<1> SUFFICES ASSUME Init PROVE SchedulerInv
  BY ZenonT(40)
<1>1. plan \in Workloads /\ Made \subseteq Calls /\ Calls \subseteq Thread
  BY CallsAssumption, ThreadsAreThreads, ZenonT(40) DEF Init, Made
<1>2. /\ pc \in [Thread -> {"new", "done", "idle"}]
      /\ \A x \in Calls : pc[x] = "new" => x \in Made
  BY <1>1, ZenonT(40) DEF Init
<1>3. Entered \in SUBSET Calls
  BY ZenonT(40) DEF Entered
<1>4. 0 <= Cardinality(Entered)
  BY <1>3, EnteredFinite, SMTT(40)
<1>5. /\ cur = [t \in Thread |-> 0] /\ want = [c \in Command |-> NoWant]
      /\ nextCommandId = 0 /\ tasks = {} /\ responses = [c \in Command |-> {}]
      /\ answer = [x \in Calls |-> "none"]
  BY ZenonT(40) DEF Init, LatchInit
<1>6. IdsInv
  BY <1>1, <1>2, <1>4, <1>5, ZenonT(40) DEF IdsInv, Entering, Registering, Elsewhere
<1>7. AnswersInv
  BY <1>5, ZenonT(40) DEF AnswersInv
<1>8. QED BY <1>6, <1>7, ZenonT(40) DEF SchedulerInv

LEMMA SchedulerStep ==
    ASSUME SchedulerInv, [Next]_vars
    PROVE  SchedulerInv' /\ AnswersKept
<1>1. CASE ThreadNext
  <2>1. plan' = plan
    BY <1>1, ZenonT(40) DEF ThreadNext
  <2>2. QED BY <1>1, <2>1, CallStep, WorkerStep, FinishStep, RegionStep, ZenonT(40) DEF ThreadNext
<1>2. CASE (\E r \in Regions : RaftNext(r)) /\ UNCHANGED plan
  BY <1>2, RegionStep, ZenonT(40)
<1>3. CASE UNCHANGED vars
  <2>1. UNCHANGED <<threadVars, taskVars>> /\ want' = want /\ plan' = plan
    BY <1>3, ZenonT(40) DEF vars, latchVars
  <2>2. QED BY <2>1, Resting, ZenonT(40)
<1>4. QED BY <1>1, <1>2, <1>3, ZenonT(40) DEF Next

\* Only four actions touch the latch table, and each of them is a step of it.
LEMMA LatchStep ==
    ASSUME SchedulerInv, [Next]_vars
    PROVE  [LatchNext]_latchVars
<1>1. ASSUME NEW x \in Calls, AcquireLatches(x) PROVE LatchNext
  <2>1. Acquire(cur[x], CallOf[x].want) /\ pc[x] = "acquire"
    BY <1>1, ZenonT(40) DEF AcquireLatches
  <2>2. cur[x] \in Command /\ want[cur[x]] = NoWant /\ Asked(CallOf[x].want)
    BY <2>1, AcquireAllowed, ZenonT(40) DEF SchedulerInv
  <2>3. QED BY <2>1, <2>2, ZenonT(40) DEF LatchNext, Asked
<1>2. ASSUME NEW x \in Calls, CallNext(x) \/ DeadlinePasses(x), ~AcquireLatches(x)
      PROVE  UNCHANGED latchVars
  BY <1>2, ZenonT(40) DEF CallNext, Admit, Insert, FindTask, SubmitOwn, DeadlinePasses
<1>3. ASSUME NEW w \in Workers, WorkerNext(w) PROVE UNCHANGED latchVars
  BY <1>3, ZenonT(40) DEF WorkerNext, Execute, Prepare, Recheck, Propose
<1>4. ASSUME NEW t \in Thread, FinishNext(t) PROVE [LatchNext]_latchVars
  <2>1. CASE DispatchNext(t)
    BY <2>1, ZenonT(40) DEF DispatchNext
  <2>2. CASE ReleaseLatches(t)
    <3>1. cur[t] \in Command
      BY <2>2, IdsWithinBound, ZenonT(40) DEF ReleaseLatches, SchedulerInv, IdsInv
    <3>2. QED BY <2>2, <3>1, ZenonT(40) DEF ReleaseLatches, LatchNext
  <2>3. CASE GrantWaiter(t)
    BY <2>3, ZenonT(40) DEF GrantWaiter, LatchNext
  <2>4. CASE Released(t)
    BY <2>4, ZenonT(40) DEF Released, LatchNext
  <2>5. QED BY <1>4, <2>1, <2>2, <2>3, <2>4, ZenonT(40) DEF FinishNext
<1>5. ASSUME NEW r \in Regions, PollerNext(r) \/ ApplierNext(r) \/ RemoverNext(r)
      PROVE  UNCHANGED latchVars
  BY <1>5, ZenonT(40) DEF PollerNext, Poll, ApplierNext, ApplyNext, ApplyBatch, OnApplied,
              OnProposalRejected, RemoverNext, OnRegionRemoved, FinishRemoved
<1>6. ASSUME NEW r \in Regions, RaftNext(r) PROVE UNCHANGED latchVars
  <2>1. UNCHANGED quietVars
    BY <1>6, ZenonT(40) DEF RaftNext, LoseLeadership, BecomeLeader, Overwrite, InstallSnapshot,
                ForeignWrite, RemovePeer, Mount
  <2>2. QED BY <2>1, ZenonT(40) DEF quietVars
<1>7. UNCHANGED vars => UNCHANGED latchVars
  BY ZenonT(40) DEF vars
<1>8. QED BY <1>1, <1>2, <1>3, <1>4, <1>5, <1>6, <1>7, ZenonT(40) DEF Next, ThreadNext

LEMMA SchedulerInvariance == Spec => []SchedulerInv
<1>1. SchedulerInv /\ [Next]_vars => SchedulerInv'
  BY SchedulerStep, ZenonT(40)
<1>2. QED BY <1>1, SchedulerInit, PTL DEF Spec

\* The scheduler implements the latch table's specification: RPC threads, workers,
\* apply threads, the deadline thread and retirements call Acquire, Release and
\* the pass of GrantReadyLocked only in ways the table allows.  Every command id
\* is registered at most once, although Schedule gives up the task table's mutex
\* between Insert and Acquire.
THEOREM SchedulerImplementsLatches == Spec => ImplementsLatches
<1>1. Init => LatchInit
  BY ZenonT(40) DEF Init
<1>2. SchedulerInv /\ [Next]_vars => [LatchNext]_latchVars
  BY LatchStep, ZenonT(40)
<1>3. QED BY <1>1, <1>2, SchedulerInvariance, PTL DEF Spec, ImplementsLatches, LatchSpec

\* Under the scheduler, two commands that hold latches never conflict.
THEOREM SchedulerLatchesExclude == Spec => []LatchExclusion
BY SchedulerImplementsLatches, LatchesExclude, ZenonT(40) DEF ImplementsLatches

\* Under the scheduler, no waiting command is passed over by a release.
THEOREM SchedulerMissesNoGrant == Spec => []NoMissedGrant
BY SchedulerImplementsLatches, LatchesMissNoGrant, ZenonT(40) DEF ImplementsLatches

\* The deadline thread, the workers, the apply threads and retirements never
\* answer a call that has its answer: a call waits in one task only, and whoever
\* answers it removes it from the task in the same critical section.
THEOREM CallsAnsweredOnce == Spec => AnsweredOnce
<1>1. SchedulerInv /\ [Next]_vars
        => [\A x \in Calls : answer[x] # "none" => answer'[x] = answer[x]]_answer
  BY SchedulerStep, ZenonT(40) DEF AnswersKept
<1>2. QED BY <1>1, SchedulerInvariance, PTL DEF Spec, AnsweredOnce
=============================================================================
