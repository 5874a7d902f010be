----------------------------- MODULE TsoProofs -----------------------------
(***************************************************************************)
(* The lease argument of the timestamp oracle, for any number of members,  *)
(* callers, terms and restarts: while the fence of a leader is valid, only *)
(* a member that confirmed it can lead a newer term, and when no member is *)
(* late with its election two fences are never valid at once.  All that is *)
(* asked of the timers is FenceDuration < MinElectionTimeout.              *)
(***************************************************************************)
EXTENDS Tso, FiniteSetTheorems, TLAPS

Peer == [term : Nat, leading : BOOLEAN, contact : 0 .. MinElectionTimeout, due : BOOLEAN]

\* The group: a term has one leader, and only a quorum brings in a new term.
GroupOK(R) ==
    /\ R \in [Nodes -> Peer]
    /\ \E n \in Nodes : \A m \in Nodes : R[m].term <= R[n].term
    /\ \A n \in Nodes : R[n].leading => R[n].term > 0
    /\ \A m, n \in Nodes :
         R[m].leading /\ R[n].leading /\ R[m].term = R[n].term => m = n
    /\ \A n \in Nodes :
         R[n].term > 0 =>
           \E Q \in SUBSET Nodes : IsQuorum(Q) /\ \A v \in Q : R[v].term >= R[n].term

\* A quorum outside of A is in terms newer than T.
Apart(R, T, A) ==
    \E Q \in SUBSET Nodes : IsQuorum(Q) /\ \A v \in Q : v \notin A /\ R[v].term > T

\* The members of A, which confirmed the leader n of term T, vote for nobody within
\* the time left; if another member leads a newer term, it is one of them, or one
\* of a term they had no part in.
Backed(R, n, T, left, A) ==
    /\ \A v \in A : v # n => R[v].contact > left
    /\ \A x \in Nodes : R[x].leading /\ R[x].term > T => x \in A \/ Apart(R, T, A)

LeaseIn(R, n, T, left, A) ==
    R[n].leading /\ R[n].term = T /\ left > 0 => Backed(R, n, T, left, A)

ReadOK(r) ==
    /\ DOMAIN r = DOMAIN NoRound
    /\ r.term \in Nat /\ r.left \in 0 .. FenceDuration /\ r.acks \in SUBSET Nodes

CallOK(k) ==
    /\ DOMAIN k = DOMAIN NoCall
    /\ k.at # "idle" => k.node \in Nodes
    /\ ReadOK(k.read)

\* A round in progress is a lease in the making.
RoundOK(R, k) ==
    k.at = "round" =>
        /\ k.read.term <= R[k.node].term
        /\ LeaseIn(R, k.node, k.read.term, k.read.left, k.read.acks)

MemberOK(m) ==
    /\ DOMAIN m = DOMAIN NewMember
    /\ m.fenceTerm \in Nat /\ m.fenceLeft \in 0 .. FenceDuration

\* A fence is a lease that a quorum backs.
FenceOK(R, n, m) ==
    /\ m.fenceTerm <= R[n].term
    /\ \E A \in SUBSET Nodes : IsQuorum(A) /\ LeaseIn(R, n, m.fenceTerm, m.fenceLeft, A)

CallsOK(R, C) ==
    /\ DOMAIN C = Caller
    /\ \A c \in Caller : CallOK(C[c]) /\ RoundOK(R, C[c])

MembersOK(R, M1) ==
    /\ DOMAIN M1 = Nodes
    /\ \A n \in Nodes : MemberOK(M1[n]) /\ FenceOK(R, n, M1[n])

FenceInv == GroupOK(raft) /\ CallsOK(raft, call) /\ MembersOK(raft, member)

-----------------------------------------------------------------------------
(* Quorums and the newest term.                                            *)

LEMMA QuorumsMeet ==
    ASSUME NEW P \in SUBSET Nodes, NEW Q \in SUBSET Nodes, IsQuorum(P), IsQuorum(Q)
    PROVE  \E v \in P : v \in Q
<1>1. IsFiniteSet(Nodes) /\ IsFiniteSet(P) /\ IsFiniteSet(Q)
  BY TsoAssumption, FS_Subset, ZenonT(40)
<1>2. Cardinality(P) \in Nat /\ Cardinality(Q) \in Nat /\ Cardinality(Nodes) \in Nat
  BY <1>1, FS_CardinalityType, ZenonT(40)
<1>3. Cardinality(P) + Cardinality(Q) > Cardinality(Nodes)
  BY <1>2, SMTT(40) DEF IsQuorum
<1>4. P \cap Q # {}
  BY <1>1, <1>3, FS_MajoritiesIntersect, ZenonT(40)
<1>5. QED BY <1>4, ZenonT(40)

LEMMA AllAreQuorum == IsQuorum(Nodes)
<1>1. IsFiniteSet(Nodes) /\ Nodes # {}
  BY TsoAssumption, ZenonT(40)
<1>2. Cardinality(Nodes) \in Nat /\ Cardinality(Nodes) # 0
  BY <1>1, FS_CardinalityType, FS_EmptySet, ZenonT(40)
<1>3. QED BY <1>2, SMTT(40) DEF IsQuorum

LEMMA NewestIsNewest ==
    ASSUME GroupOK(raft)
    PROVE  NewestTerm \in Nat /\ \A m \in Nodes : raft[m].term <= NewestTerm
<1> DEFINE S == {raft[n].term : n \in Nodes}
<1>1. PICK n \in Nodes : \A m \in Nodes : raft[m].term <= raft[n].term
  BY ZenonT(40) DEF GroupOK
<1>2. \A m \in Nodes : raft[m].term \in Nat
  BY ZenonT(40) DEF GroupOK, Peer
<1>3. raft[n].term \in S /\ \A y \in S : raft[n].term >= y
  BY <1>1, <1>2, ZenonT(40)
<1>4. NewestTerm \in S /\ \A y \in S : NewestTerm >= y
  BY <1>3, ZenonT(40) DEF NewestTerm, Max
<1>5. QED BY <1>2, <1>4, ZenonT(40)

\* A leader that has just begun to ask is backed by itself.
LEMMA LeaseBegins ==
    ASSUME NEW R, GroupOK(R), NEW n \in Nodes, NEW left
    PROVE  LeaseIn(R, n, R[n].term, left, {n})
<1> SUFFICES ASSUME NEW m \in Nodes, R[m].term > R[n].term
             PROVE  Apart(R, R[n].term, {n})
  BY ZenonT(40) DEF LeaseIn, Backed
<1>1. \A v \in Nodes : R[v].term \in Nat
  BY ZenonT(40) DEF GroupOK, Peer
<1>2. PICK Q \in SUBSET Nodes : IsQuorum(Q) /\ \A v \in Q : R[v].term >= R[m].term
  BY <1>1, SMTT(40) DEF GroupOK
<1>3. \A v \in Q : v \notin {n} /\ R[v].term > R[n].term
  BY <1>1, <1>2, SMTT(40)
<1>4. QED BY <1>2, <1>3, ZenonT(40) DEF Apart

\* With a quorum behind it, only one of that quorum leads a newer term.
LEMMA RivalIsBacker ==
    ASSUME NEW R, GroupOK(R), NEW n \in Nodes, NEW left, NEW A \in SUBSET Nodes,
           IsQuorum(A), LeaseIn(R, n, R[n].term, left, A), R[n].leading, left > 0,
           NEW x \in Nodes, R[x].leading, R[x].term > R[n].term
    PROVE  R[x].contact > left
<1>1. Backed(R, n, R[n].term, left, A)
  BY ZenonT(40) DEF LeaseIn
<1>2. ~Apart(R, R[n].term, A)
  BY QuorumsMeet, ZenonT(40) DEF Apart
<1>3. x \in A
  BY <1>1, <1>2, ZenonT(40) DEF Backed
<1>4. x # n
  <2>1. R[n].term \in Nat
    BY ZenonT(40) DEF GroupOK, Peer
  <2>2. QED BY <2>1, SMTT(40)
<1>5. QED BY <1>1, <1>3, <1>4, ZenonT(40) DEF Backed

-----------------------------------------------------------------------------
(* What the steps of the group do to terms and leases.                     *)

\* Terms only grow.
Grown(R, S) == \A n \in Nodes : S[n].term >= R[n].term

LEMMA ApartGrows ==
    ASSUME NEW R, NEW S, R \in [Nodes -> Peer], S \in [Nodes -> Peer], Grown(R, S),
           NEW T \in Nat, NEW A, Apart(R, T, A)
    PROVE  Apart(S, T, A)
<1>1. PICK Q \in SUBSET Nodes : IsQuorum(Q) /\ \A v \in Q : v \notin A /\ R[v].term > T
  BY ZenonT(40) DEF Apart
<1>2. \A v \in Nodes : R[v].term \in Nat /\ S[v].term \in Nat /\ S[v].term >= R[v].term
  BY ZenonT(40) DEF Grown, Peer
<1>3. \A v \in Q : v \notin A /\ S[v].term > T
  BY <1>1, <1>2, SMTT(40)
<1>4. QED BY <1>1, <1>3, ZenonT(40) DEF Apart

Heard(R, S, l, m) ==
    /\ R[l].leading /\ m # l /\ R[m].term <= R[l].term
    /\ S = [R EXCEPT ![m].term = R[l].term, ![m].leading = FALSE,
                     ![m].contact = MinElectionTimeout]

LEMMA HeardGroup ==
    ASSUME NEW R, NEW S, GroupOK(R), NEW l \in Nodes, NEW m \in Nodes, Heard(R, S, l, m)
    PROVE  GroupOK(S) /\ Grown(R, S)
<1>1. R \in [Nodes -> Peer]
  BY ZenonT(40) DEF GroupOK
<1>2. /\ S[m] = [term |-> R[l].term, leading |-> FALSE, contact |-> MinElectionTimeout,
                  due |-> R[m].due]
      /\ \A n \in Nodes : n # m => S[n] = R[n]
  BY <1>1, ZenonT(40) DEF Heard, Peer
<1>3. S \in [Nodes -> Peer]
  <2>1. S[m] \in Peer
    BY <1>1, <1>2, TsoAssumption, SMTT(40) DEF Peer
  <2>2. QED BY <1>1, <1>2, <2>1, ZenonT(40) DEF Heard
<1>4. \A n \in Nodes : R[n].term \in Nat /\ S[n].term \in Nat
  BY <1>1, <1>3, ZenonT(40) DEF Peer
<1>5. Grown(R, S)
  <2>1. R[m].term <= R[l].term
    BY ZenonT(40) DEF Heard
  <2>2. QED BY <1>2, <1>4, <2>1, SMTT(40) DEF Grown
<1>6. \E n \in Nodes : \A x \in Nodes : S[x].term <= S[n].term
  <2>1. PICK n \in Nodes : \A x \in Nodes : R[x].term <= R[n].term
    BY ZenonT(40) DEF GroupOK
  <2>2. S[n].term >= R[n].term
    BY <1>5, ZenonT(40) DEF Grown
  <2>3. \A x \in Nodes : S[x].term <= R[n].term
    BY <1>2, <2>1, SMTT(40)
  <2>4. QED BY <1>4, <2>2, <2>3, SMTT(40)
<1>7. \A n \in Nodes : S[n].leading => n # m /\ R[n].leading /\ S[n].term = R[n].term
  BY <1>2, SMTT(40)
<1>8. \A n \in Nodes :
         S[n].term > 0 =>
           \E Q \in SUBSET Nodes : IsQuorum(Q) /\ \A v \in Q : S[v].term >= S[n].term
  <2>1. SUFFICES ASSUME NEW n \in Nodes, S[n].term > 0
                 PROVE  \E Q \in SUBSET Nodes :
                          IsQuorum(Q) /\ \A v \in Q : S[v].term >= S[n].term
    BY ZenonT(40)
  <2>2. PICK x \in Nodes : R[x].term = S[n].term
    BY <1>2, SMTT(40)
  <2>3. PICK Q \in SUBSET Nodes : IsQuorum(Q) /\ \A v \in Q : R[v].term >= R[x].term
    BY <2>1, <2>2, ZenonT(40) DEF GroupOK
  <2>4. \A v \in Q : S[v].term >= S[n].term
    BY <1>4, <1>5, <2>2, <2>3, SMTT(40) DEF Grown
  <2>5. QED BY <2>3, <2>4, ZenonT(40)
<1>9. QED BY <1>3, <1>5, <1>6, <1>7, <1>8, ZenonT(40) DEF GroupOK

\* A contact with a leader renews the promise of m; nobody in a newer term hears l.
LEMMA HeardLease ==
    ASSUME NEW R, NEW S, GroupOK(R), NEW l \in Nodes, NEW m \in Nodes, Heard(R, S, l, m),
           NEW n \in Nodes, NEW T \in Nat, NEW left \in 0 .. FenceDuration,
           NEW A \in SUBSET Nodes, LeaseIn(R, n, T, left, A)
    PROVE  LeaseIn(S, n, T, left, A)
<1> SUFFICES ASSUME S[n].leading, S[n].term = T, left > 0
             PROVE  Backed(S, n, T, left, A)
  BY ZenonT(40) DEF LeaseIn
<1>1. R \in [Nodes -> Peer] /\ S \in [Nodes -> Peer] /\ Grown(R, S)
  BY HeardGroup, ZenonT(40) DEF GroupOK
<1>2. /\ S[m] = [term |-> R[l].term, leading |-> FALSE, contact |-> MinElectionTimeout,
                  due |-> R[m].due]
      /\ \A x \in Nodes : x # m => S[x] = R[x]
  BY <1>1, ZenonT(40) DEF Heard, Peer
<1>3. Backed(R, n, T, left, A)
  BY <1>2, SMTT(40) DEF LeaseIn
<1>4. \A v \in A : v # n => S[v].contact > left
  <2>1. MinElectionTimeout > left
    BY TsoAssumption, SMTT(40)
  <2>2. QED BY <1>2, <1>3, <2>1, SMTT(40) DEF Backed
<1>5. ASSUME NEW x \in Nodes, S[x].leading, S[x].term > T
      PROVE  x \in A \/ Apart(S, T, A)
  <2>1. R[x].leading /\ R[x].term > T
    BY <1>2, <1>5, SMTT(40)
  <2>2. x \in A \/ Apart(R, T, A)
    BY <1>3, <2>1, ZenonT(40) DEF Backed
  <2>3. QED BY <1>1, <2>2, ApartGrows, ZenonT(40)
<1>6. QED BY <1>4, <1>5, ZenonT(40) DEF Backed

\* The member that answers a round joins those that back the leader.
LEMMA HeardJoins ==
    ASSUME NEW R, NEW S, GroupOK(R), NEW n \in Nodes, NEW m \in Nodes, Heard(R, S, n, m),
           NEW left \in 0 .. FenceDuration,
           NEW A \in SUBSET Nodes, LeaseIn(R, n, R[n].term, left, A)
    PROVE  LeaseIn(S, n, R[n].term, left, A \cup {m})
<1> SUFFICES ASSUME left > 0
             PROVE  Backed(S, n, R[n].term, left, A \cup {m})
  BY ZenonT(40) DEF LeaseIn
<1>1. R \in [Nodes -> Peer] /\ S \in [Nodes -> Peer] /\ Grown(R, S)
  BY HeardGroup, ZenonT(40) DEF GroupOK
<1>2. /\ S[m] = [term |-> R[n].term, leading |-> FALSE, contact |-> MinElectionTimeout,
                  due |-> R[m].due]
      /\ \A x \in Nodes : x # m => S[x] = R[x]
      /\ R[n].leading /\ R[m].term <= R[n].term
  BY <1>1, ZenonT(40) DEF Heard, Peer
<1>3. Backed(R, n, R[n].term, left, A)
  BY <1>2, ZenonT(40) DEF LeaseIn
<1>4. \A v \in A \cup {m} : v # n => S[v].contact > left
  <2>1. MinElectionTimeout > left
    BY TsoAssumption, SMTT(40)
  <2>2. QED BY <1>2, <1>3, <2>1, SMTT(40) DEF Backed
<1>5. ASSUME NEW x \in Nodes, S[x].leading, S[x].term > R[n].term
      PROVE  x \in A \cup {m} \/ Apart(S, R[n].term, A \cup {m})
  <2>1. \A v \in Nodes : R[v].term \in Nat /\ S[v].term \in Nat /\ S[v].term >= R[v].term
    BY <1>1, ZenonT(40) DEF Grown, Peer
  <2>2. R[x].leading /\ R[x].term > R[n].term
    BY <1>2, <1>5, SMTT(40)
  <2>3. CASE x \in A
    BY <2>3, ZenonT(40)
  <2>4. CASE Apart(R, R[n].term, A)
    <3>1. PICK Q \in SUBSET Nodes :
            IsQuorum(Q) /\ \A v \in Q : v \notin A /\ R[v].term > R[n].term
      BY <2>4, ZenonT(40) DEF Apart
    <3>2. m \notin Q
      BY <1>2, <2>1, <3>1, SMTT(40)
    <3>3. \A v \in Q : v \notin A \cup {m} /\ S[v].term > R[n].term
      BY <2>1, <3>1, <3>2, SMTT(40)
    <3>4. QED BY <3>1, <3>3, ZenonT(40) DEF Apart
  <2>5. QED BY <1>3, <2>2, <2>3, <2>4, ZenonT(40) DEF Backed
<1>6. QED BY <1>4, <1>5, ZenonT(40) DEF Backed

\* The members of Q bring n to the new term t.
Elected(R, S, n, Q, t) ==
    /\ n \in Q /\ Q \in SUBSET Nodes /\ IsQuorum(Q)
    /\ ~R[n].leading
    /\ R[n].contact = 0 \/ R[n].due
    /\ \A v \in Q \ {n} : R[v].contact = 0
    /\ t \in Nat /\ \A v \in Nodes : R[v].term < t
    /\ S = [v \in Nodes |->
              IF v \in Q
              THEN [R[v] EXCEPT !.term = t, !.leading = (v = n), !.due = @ /\ v # n]
              ELSE R[v]]

Retermed(r, s, t, b, d) == s = [r EXCEPT !.term = t, !.leading = b, !.due = d]

LEMMA RetermedPeer ==
    ASSUME NEW r \in Peer, NEW t \in Nat, NEW b \in BOOLEAN, NEW d \in BOOLEAN, NEW s,
           Retermed(r, s, t, b, d)
    PROVE  s \in Peer /\ s.term = t /\ s.leading = b /\ s.contact = r.contact /\ s.due = d
BY ZenonT(40) DEF Peer, Retermed

LEMMA ElectedPeers ==
    ASSUME NEW R, NEW S, GroupOK(R), NEW n, NEW Q, NEW t, Elected(R, S, n, Q, t)
    PROVE  /\ S \in [Nodes -> Peer]
           /\ \A v \in Nodes : R[v].term \in Nat /\ S[v].contact = R[v].contact
           /\ \A v \in Nodes : v \notin Q => S[v] = R[v]
           /\ \A v \in Q : /\ S[v].term = t /\ (S[v].leading <=> v = n)
                           /\ S[v].due => R[v].due
<1>1. R \in [Nodes -> Peer]
  BY ZenonT(40) DEF GroupOK
<1>2. ASSUME NEW v \in Q
      PROVE  /\ S[v] \in Peer /\ S[v].term = t /\ (S[v].leading <=> v = n)
             /\ S[v].contact = R[v].contact /\ (S[v].due => R[v].due)
  <2>1. PICK b \in BOOLEAN : b <=> v = n
    BY ZenonT(40)
  <2>2. PICK d \in BOOLEAN : d <=> R[v].due /\ v # n
    BY ZenonT(40)
  <2>3. Retermed(R[v], S[v], t, b, d) /\ t \in Nat /\ R[v] \in Peer
    <3>1. /\ S[v] = [R[v] EXCEPT !.term = t, !.leading = (v = n), !.due = @ /\ v # n]
          /\ t \in Nat /\ R[v] \in Peer
      BY <1>1, ZenonT(40) DEF Elected
    <3>2. S[v] = [R[v] EXCEPT !.term = t, !.leading = (v = n), !.due = (R[v].due /\ v # n)]
      BY <3>1, ZenonT(40) DEF Peer
    <3>3. b = (v = n) /\ d = (R[v].due /\ v # n)
      BY <2>1, <2>2, ZenonT(40)
    <3>4. QED BY <3>1, <3>2, <3>3, ZenonT(40) DEF Retermed
  <2>4. /\ S[v] \in Peer /\ S[v].term = t /\ S[v].leading = b
        /\ S[v].contact = R[v].contact /\ S[v].due = d
    BY <2>1, <2>2, <2>3, RetermedPeer, SMTT(40)
  <2>5. QED BY <2>1, <2>2, <2>4, ZenonT(40)
<1>3. ASSUME NEW v \in Nodes, v \notin Q PROVE S[v] = R[v]
  BY <1>3, ZenonT(40) DEF Elected
<1>4. S \in [Nodes -> Peer]
  <2>1. \A v \in Nodes : S[v] \in Peer
    BY <1>1, <1>2, <1>3, ZenonT(40)
  <2>2. S = [v \in Nodes |-> S[v]]
    BY ZenonT(40) DEF Elected
  <2>3. QED BY <2>1, <2>2, ZenonT(40)
<1>5. \A v \in Nodes : R[v].term \in Nat
  BY <1>1, ZenonT(40) DEF Peer
<1>6. \A v \in Nodes : S[v].contact = R[v].contact
  BY <1>2, <1>3, ZenonT(40)
<1>7. QED BY <1>2, <1>3, <1>4, <1>5, <1>6, ZenonT(40)

LEMMA ElectedGroup ==
    ASSUME NEW R, NEW S, GroupOK(R), NEW n, NEW Q, NEW t, Elected(R, S, n, Q, t)
    PROVE  GroupOK(S) /\ Grown(R, S)
<1>1. /\ S \in [Nodes -> Peer]
      /\ \A v \in Nodes : R[v].term \in Nat
      /\ \A v \in Nodes : v \notin Q => S[v] = R[v]
      /\ \A v \in Q : S[v].term = t /\ (S[v].leading <=> v = n)
  BY ElectedPeers, SMTT(40)
<1>2. n \in Q /\ Q \subseteq Nodes /\ IsQuorum(Q) /\ t \in Nat /\ \A v \in Nodes : R[v].term < t
  BY ZenonT(40) DEF Elected
<1>3. \A v \in Nodes : S[v].term \in Nat /\ S[v].term <= t /\ (S[v].term = t <=> v \in Q)
  BY <1>1, <1>2, SMTT(40)
<1>4. Grown(R, S)
  BY <1>1, <1>2, SMTT(40) DEF Grown
<1>5. \E x \in Nodes : \A m \in Nodes : S[m].term <= S[x].term
  BY <1>1, <1>2, <1>3, ZenonT(40)
<1>6. \A x \in Nodes : S[x].leading => S[x].term > 0
  <2>1. t > 0
    BY <1>1, <1>2, SMTT(40)
  <2>2. QED BY <1>1, <2>1, ZenonT(40) DEF GroupOK
<1>7. \A x, y \in Nodes : S[x].leading /\ S[y].leading /\ S[x].term = S[y].term => x = y
  <2>1. SUFFICES ASSUME NEW x \in Nodes, NEW y \in Nodes,
                        S[x].leading, S[y].leading, S[x].term = S[y].term
                 PROVE  x = y
    BY ZenonT(40)
  <2>2. x \in Q <=> y \in Q
    BY <1>3, <2>1, ZenonT(40)
  <2>3. CASE x \in Q
    BY <1>1, <2>1, <2>2, <2>3, ZenonT(40)
  <2>4. CASE x \notin Q
    BY <1>1, <2>1, <2>2, <2>4, ZenonT(40) DEF GroupOK
  <2>5. QED BY <2>3, <2>4, ZenonT(40)
<1>8. \A x \in Nodes :
         S[x].term > 0 =>
           \E P \in SUBSET Nodes : IsQuorum(P) /\ \A v \in P : S[v].term >= S[x].term
  BY <1>1, <1>2, <1>3, ZenonT(40)
<1>9. QED BY <1>1, <1>4, <1>5, <1>6, <1>7, <1>8, ZenonT(40) DEF GroupOK

\* Nobody who backs the leader n votes for another member while time is left, and n
\* does not either.
LEMMA ElectedLease ==
    ASSUME NEW R, NEW S, GroupOK(R), NEW e, NEW P, NEW t, Elected(R, S, e, P, t),
           NEW n \in Nodes, NEW T \in Nat, T <= R[n].term, NEW left \in 0 .. FenceDuration,
           NEW A \in SUBSET Nodes, LeaseIn(R, n, T, left, A)
    PROVE  LeaseIn(S, n, T, left, A)
<1> SUFFICES ASSUME S[n].leading, S[n].term = T, left > 0
             PROVE  Backed(S, n, T, left, A)
  BY ZenonT(40) DEF LeaseIn
<1>0. S \in [Nodes -> Peer] /\ R \in [Nodes -> Peer] /\ Grown(R, S)
  BY ElectedGroup, ZenonT(40) DEF GroupOK
<1>1. /\ \A v \in Nodes : R[v].term \in Nat /\ S[v].contact = R[v].contact
      /\ \A v \in Nodes : v \notin P => S[v] = R[v]
      /\ \A v \in P : S[v].term = t /\ (S[v].leading <=> v = e)
  BY ElectedPeers, SMTT(40)
<1>2. /\ P \in SUBSET Nodes /\ IsQuorum(P) /\ t \in Nat /\ e \in P
      /\ \A v \in P : v # e => R[v].contact = 0
      /\ \A v \in Nodes : R[v].term < t
  BY ZenonT(40) DEF Elected
<1>3. n \notin P
  BY <1>1, <1>2, SMTT(40)
<1>4. Backed(R, n, T, left, A)
  BY <1>1, <1>3, ZenonT(40) DEF LeaseIn
<1>5. ASSUME e \notin A PROVE Apart(S, T, A)
  <2>1. \A v \in P : v \notin A
    BY <1>2, <1>3, <1>4, <1>5, SMTT(40) DEF Backed
  <2>2. T < t
    BY <1>1, <1>2, SMTT(40)
  <2>3. QED BY <1>1, <1>2, <2>1, <2>2, ZenonT(40) DEF Apart
<1>6. ASSUME NEW x \in Nodes, S[x].leading, S[x].term > T
      PROVE  x \in A \/ Apart(S, T, A)
  <2>1. CASE x \in P
    BY <1>1, <1>5, <1>6, <2>1, ZenonT(40)
  <2>2. CASE x \notin P
    <3>1. R[x].leading /\ R[x].term > T
      BY <1>1, <1>6, <2>2, ZenonT(40)
    <3>2. x \in A \/ Apart(R, T, A)
      BY <1>4, <3>1, ZenonT(40) DEF Backed
    <3>3. QED BY <1>0, <3>2, ApartGrows, ZenonT(40)
  <2>3. QED BY <2>1, <2>2, ZenonT(40)
<1>7. \A v \in A : v # n => S[v].contact > left
  BY <1>1, <1>4, ZenonT(40) DEF Backed
<1>8. QED BY <1>6, <1>7, ZenonT(40) DEF Backed

\* A restarted member leads no more, and waits like one that heard of a leader.
Restarted(R, S, m) ==
    S = [R EXCEPT ![m].leading = FALSE, ![m].contact = MinElectionTimeout, ![m].due = FALSE]

LEMMA RestartedPeers ==
    ASSUME NEW R, NEW S, GroupOK(R), NEW m \in Nodes, Restarted(R, S, m)
    PROVE  /\ S \in [Nodes -> Peer]
           /\ ~S[m].leading /\ S[m].contact = MinElectionTimeout /\ ~S[m].due
           /\ \A v \in Nodes : S[v].term = R[v].term /\ R[v].term \in Nat
           /\ \A v \in Nodes : v # m => S[v] = R[v]
<1>1. R \in [Nodes -> Peer]
  BY ZenonT(40) DEF GroupOK
<1>2. /\ S[m] = [term |-> R[m].term, leading |-> FALSE, contact |-> MinElectionTimeout,
                  due |-> FALSE]
      /\ \A v \in Nodes : v # m => S[v] = R[v]
  BY <1>1, ZenonT(40) DEF Restarted, Peer
<1>3. S[m] \in Peer
  BY <1>1, <1>2, TsoAssumption, SMTT(40) DEF Peer
<1>4. S \in [Nodes -> Peer]
  BY <1>1, <1>2, <1>3, ZenonT(40) DEF Restarted
<1>5. \A v \in Nodes : R[v].term \in Nat
  BY <1>1, ZenonT(40) DEF Peer
<1>6. QED BY <1>2, <1>4, <1>5, SMTT(40)

LEMMA RestartedGroup ==
    ASSUME NEW R, NEW S, GroupOK(R), NEW m \in Nodes, Restarted(R, S, m)
    PROVE  GroupOK(S) /\ Grown(R, S)
<1>1. /\ S \in [Nodes -> Peer]
      /\ ~S[m].leading
      /\ \A v \in Nodes : S[v].term = R[v].term /\ R[v].term \in Nat
      /\ \A v \in Nodes : v # m => S[v] = R[v]
  BY RestartedPeers, SMTT(40)
<1>2. Grown(R, S)
  BY <1>1, SMTT(40) DEF Grown
<1>3. \E n \in Nodes : \A x \in Nodes : S[x].term <= S[n].term
  BY <1>1, ZenonT(40) DEF GroupOK
<1>4. \A n \in Nodes : S[n].leading => R[n].leading
  BY <1>1, ZenonT(40)
<1>5. \A n \in Nodes :
         S[n].term > 0 =>
           \E Q \in SUBSET Nodes : IsQuorum(Q) /\ \A v \in Q : S[v].term >= S[n].term
  <2>1. SUFFICES ASSUME NEW n \in Nodes, S[n].term > 0
                 PROVE  \E Q \in SUBSET Nodes :
                          IsQuorum(Q) /\ \A v \in Q : S[v].term >= S[n].term
    BY ZenonT(40)
  <2>2. PICK Q \in SUBSET Nodes : IsQuorum(Q) /\ \A v \in Q : R[v].term >= R[n].term
    BY <1>1, <2>1, ZenonT(40) DEF GroupOK
  <2>3. QED BY <1>1, <2>2, ZenonT(40)
<1>6. QED BY <1>1, <1>2, <1>3, <1>4, <1>5, ZenonT(40) DEF GroupOK

LEMMA RestartedLease ==
    ASSUME NEW R, NEW S, GroupOK(R), NEW m \in Nodes, Restarted(R, S, m),
           NEW n \in Nodes, NEW T \in Nat, NEW left \in 0 .. FenceDuration,
           NEW A \in SUBSET Nodes, LeaseIn(R, n, T, left, A)
    PROVE  LeaseIn(S, n, T, left, A)
<1> SUFFICES ASSUME S[n].leading, S[n].term = T, left > 0
             PROVE  Backed(S, n, T, left, A)
  BY ZenonT(40) DEF LeaseIn
<1>1. /\ ~S[m].leading /\ S[m].contact = MinElectionTimeout
      /\ \A v \in Nodes : S[v].term = R[v].term /\ R[v].term \in Nat
      /\ \A v \in Nodes : v # m => S[v] = R[v]
  BY RestartedPeers, ZenonT(40)
<1>2. Backed(R, n, T, left, A)
  BY <1>1, ZenonT(40) DEF LeaseIn
<1>3. \A v \in A : v # n => S[v].contact > left
  <2>1. MinElectionTimeout > left
    BY TsoAssumption, SMTT(40)
  <2>2. QED BY <1>1, <1>2, <2>1, ZenonT(40) DEF Backed
<1>4. ASSUME NEW x \in Nodes, S[x].leading, S[x].term > T
      PROVE  x \in A \/ Apart(S, T, A)
  <2>1. R[x].leading /\ R[x].term > T
    BY <1>1, <1>4, ZenonT(40)
  <2>2. CASE Apart(R, T, A)
    BY <1>1, <2>2, ZenonT(40) DEF Apart
  <2>3. QED BY <1>2, <2>1, <2>2, ZenonT(40) DEF Backed
<1>5. QED BY <1>3, <1>4, ZenonT(40) DEF Backed

\* The timers of the group run down.
Ticked(R, S) == S = [n \in Nodes |-> [R[n] EXCEPT !.contact = Less(@)]]

LEMMA TickedPeers ==
    ASSUME NEW R, NEW S, GroupOK(R), Ticked(R, S)
    PROVE  /\ S \in [Nodes -> Peer]
           /\ \A v \in Nodes : /\ S[v].term = R[v].term /\ R[v].term \in Nat
                               /\ S[v].leading <=> R[v].leading
                               /\ S[v].contact = Less(R[v].contact)
                               /\ R[v].contact \in Nat /\ S[v].due = R[v].due
<1>1. R \in [Nodes -> Peer]
  BY ZenonT(40) DEF GroupOK
<1>2. ASSUME NEW v \in Nodes
      PROVE  /\ S[v] = [term |-> R[v].term, leading |-> R[v].leading,
                        contact |-> Less(R[v].contact), due |-> R[v].due]
             /\ S[v] \in Peer
             /\ R[v].term \in Nat /\ R[v].contact \in Nat
  <2>1. R[v] \in Peer
    BY <1>1, ZenonT(40)
  <2>2. Less(R[v].contact) \in 0 .. MinElectionTimeout
    BY <2>1, TsoAssumption, SMTT(40) DEF Less, Peer
  <2>3. S[v] = [R[v] EXCEPT !.contact = Less(@)]
    BY ZenonT(40) DEF Ticked
  <2>4. QED BY <2>1, <2>2, <2>3, SMTT(40) DEF Peer
<1>3. S \in [Nodes -> Peer]
  <2>1. S = [v \in Nodes |-> S[v]]
    BY ZenonT(40) DEF Ticked
  <2>2. QED BY <1>2, <2>1, ZenonT(40)
<1>4. QED BY <1>2, <1>3, SMTT(40)

LEMMA TickedGroup ==
    ASSUME NEW R, NEW S, GroupOK(R), Ticked(R, S)
    PROVE  GroupOK(S)
<1>1. /\ S \in [Nodes -> Peer]
      /\ \A v \in Nodes : S[v].term = R[v].term /\ (S[v].leading <=> R[v].leading)
  BY TickedPeers, ZenonT(40)
<1>2. \A n \in Nodes :
         S[n].term > 0 =>
           \E Q \in SUBSET Nodes : IsQuorum(Q) /\ \A v \in Q : S[v].term >= S[n].term
  <2>1. SUFFICES ASSUME NEW n \in Nodes, S[n].term > 0
                 PROVE  \E Q \in SUBSET Nodes :
                          IsQuorum(Q) /\ \A v \in Q : S[v].term >= S[n].term
    BY ZenonT(40)
  <2>2. PICK Q \in SUBSET Nodes : IsQuorum(Q) /\ \A v \in Q : R[v].term >= R[n].term
    BY <1>1, <2>1, ZenonT(40) DEF GroupOK
  <2>3. QED BY <1>1, <2>2, ZenonT(40)
<1>3. \E n \in Nodes : \A x \in Nodes : S[x].term <= S[n].term
  BY <1>1, ZenonT(40) DEF GroupOK
<1>4. QED BY <1>1, <1>2, <1>3, ZenonT(40) DEF GroupOK

LEMMA TickedLease ==
    ASSUME NEW R, NEW S, GroupOK(R), Ticked(R, S),
           NEW n \in Nodes, NEW T \in Nat, NEW left \in Nat,
           NEW A \in SUBSET Nodes, LeaseIn(R, n, T, left, A)
    PROVE  LeaseIn(S, n, T, Less(left), A)
<1> SUFFICES ASSUME S[n].leading, S[n].term = T, Less(left) > 0
             PROVE  Backed(S, n, T, Less(left), A)
  BY ZenonT(40) DEF LeaseIn
<1>1. \A v \in Nodes : /\ S[v].term = R[v].term /\ (S[v].leading <=> R[v].leading)
                       /\ S[v].contact = Less(R[v].contact) /\ R[v].contact \in Nat
  BY TickedPeers, SMTT(40)
<1>2. left > 0 /\ Less(left) = left - 1
  BY SMTT(40) DEF Less
<1>3. Backed(R, n, T, left, A)
  BY <1>1, <1>2, ZenonT(40) DEF LeaseIn
<1>4. \A v \in A : v # n => S[v].contact > Less(left)
  BY <1>1, <1>2, <1>3, SMTT(40) DEF Backed, Less
<1>5. ASSUME NEW x \in Nodes, S[x].leading, S[x].term > T
      PROVE  x \in A \/ Apart(S, T, A)
  <2>1. R[x].leading /\ R[x].term > T
    BY <1>1, <1>5, ZenonT(40)
  <2>2. CASE Apart(R, T, A)
    BY <1>1, <2>2, ZenonT(40) DEF Apart
  <2>3. QED BY <1>3, <2>1, <2>2, ZenonT(40) DEF Backed
<1>6. QED BY <1>4, <1>5, ZenonT(40) DEF Backed

-----------------------------------------------------------------------------
(* The calls and members over a step of the group.                         *)

LeasesKept(R, S) ==
    \A n \in Nodes, T \in Nat, left \in 0 .. FenceDuration, A \in SUBSET Nodes :
        T <= R[n].term /\ LeaseIn(R, n, T, left, A) => LeaseIn(S, n, T, left, A)

LEMMA CallKept ==
    ASSUME NEW R, NEW S, R \in [Nodes -> Peer], S \in [Nodes -> Peer],
           Grown(R, S), LeasesKept(R, S), NEW k, CallOK(k), RoundOK(R, k)
    PROVE  RoundOK(S, k)
<1> SUFFICES ASSUME k.at = "round"
             PROVE  /\ k.read.term <= S[k.node].term
                    /\ LeaseIn(S, k.node, k.read.term, k.read.left, k.read.acks)
  BY ZenonT(40) DEF RoundOK
<1>1. /\ k.node \in Nodes /\ k.read.term \in Nat /\ k.read.left \in 0 .. FenceDuration
      /\ k.read.acks \in SUBSET Nodes
  BY ZenonT(40) DEF CallOK, ReadOK
<1>2. /\ k.read.term <= R[k.node].term
      /\ LeaseIn(R, k.node, k.read.term, k.read.left, k.read.acks)
  BY ZenonT(40) DEF RoundOK
<1>3. R[k.node].term \in Nat /\ S[k.node].term \in Nat /\ R[k.node].term <= S[k.node].term
  BY <1>1, ZenonT(40) DEF Grown, Peer
<1>4. k.read.term <= S[k.node].term
  BY <1>1, <1>2, <1>3, SMTT(40)
<1>5. LeaseIn(S, k.node, k.read.term, k.read.left, k.read.acks)
  BY <1>1, <1>2, ZenonT(40) DEF LeasesKept
<1>6. QED BY <1>4, <1>5, ZenonT(40)

LEMMA FenceKept ==
    ASSUME NEW R, NEW S, R \in [Nodes -> Peer], S \in [Nodes -> Peer],
           Grown(R, S), LeasesKept(R, S), NEW n \in Nodes, NEW m, MemberOK(m), FenceOK(R, n, m)
    PROVE  FenceOK(S, n, m)
<1>1. m.fenceTerm \in Nat /\ m.fenceLeft \in 0 .. FenceDuration
  BY ZenonT(40) DEF MemberOK
<1>2. PICK A \in SUBSET Nodes : IsQuorum(A) /\ LeaseIn(R, n, m.fenceTerm, m.fenceLeft, A)
  BY ZenonT(40) DEF FenceOK
<1>3. m.fenceTerm <= R[n].term
  BY ZenonT(40) DEF FenceOK
<1>4. R[n].term \in Nat /\ S[n].term \in Nat /\ R[n].term <= S[n].term
  BY ZenonT(40) DEF Grown, Peer
<1>5. LeaseIn(S, n, m.fenceTerm, m.fenceLeft, A)
  BY <1>1, <1>2, <1>3, ZenonT(40) DEF LeasesKept
<1>6. m.fenceTerm <= S[n].term
  BY <1>1, <1>3, <1>4, SMTT(40)
<1>7. QED BY <1>2, <1>5, <1>6, ZenonT(40) DEF FenceOK

LEMMA AllKept ==
    ASSUME NEW R, NEW S, GroupOK(R), GroupOK(S), Grown(R, S), LeasesKept(R, S)
    PROVE  /\ \A C : CallsOK(R, C) => CallsOK(S, C)
           /\ \A M1 : MembersOK(R, M1) => MembersOK(S, M1)
<1>1. R \in [Nodes -> Peer] /\ S \in [Nodes -> Peer]
  BY ZenonT(40) DEF GroupOK
<1>2. ASSUME NEW C, CallsOK(R, C) PROVE CallsOK(S, C)
  BY <1>1, <1>2, CallKept, ZenonT(40) DEF CallsOK
<1>3. ASSUME NEW M1, MembersOK(R, M1) PROVE MembersOK(S, M1)
  BY <1>1, <1>3, FenceKept, ZenonT(40) DEF MembersOK
<1>4. QED BY <1>2, <1>3, ZenonT(40)

-----------------------------------------------------------------------------
(* The steps of a call.                                                    *)

\* The call ends, or goes on outside of a round.
Moved(k, k2) ==
    \/ k2 = NoCall
    \/ /\ DOMAIN k2 = DOMAIN k /\ k2.node = k.node
       /\ (k2.read = k.read /\ k2.at # "round") \/ k2.read = NoRound

Stepped(C, D, c) ==
    /\ DOMAIN D = DOMAIN C
    /\ \A d \in Caller : d # c => D[d] = C[d]
    /\ Moved(C[c], D[c])

LEMMA NoRoundOK == ReadOK(NoRound) /\ NoRound.term = 0 /\ NoRound.left = 0 /\ NoRound.acks = {}
BY TsoAssumption, SMTT(40) DEF ReadOK, NoRound, NoTerm

LEMMA NoCallOK == CallOK(NoCall) /\ \A R : RoundOK(R, NoCall)
<1>1. NoCall.at = "idle" /\ NoCall.read = NoRound
  BY ZenonT(40) DEF NoCall
<1>2. QED BY <1>1, NoRoundOK, ZenonT(40) DEF CallOK, RoundOK

\* A round that has not begun is a lease in no term.
LEMMA UnbegunOK ==
    ASSUME NEW R, GroupOK(R), NEW k, k.node \in Nodes, k.read.term = 0
    PROVE  RoundOK(R, k)
<1>1. R[k.node].term \in Nat /\ (R[k.node].leading => R[k.node].term > 0)
  BY ZenonT(40) DEF GroupOK, Peer
<1>2. LeaseIn(R, k.node, k.read.term, k.read.left, k.read.acks)
  BY <1>1, SMTT(40) DEF LeaseIn
<1>3. QED BY <1>1, <1>2, SMTT(40) DEF RoundOK

LEMMA MovedOK ==
    ASSUME NEW R, GroupOK(R), NEW k, CallOK(k), k.at # "idle", NEW k2, Moved(k, k2)
    PROVE  CallOK(k2) /\ RoundOK(R, k2)
<1>1. CASE k2 = NoCall
  BY <1>1, NoCallOK, ZenonT(40)
<1>2. CASE /\ DOMAIN k2 = DOMAIN k /\ k2.node = k.node
           /\ (k2.read = k.read /\ k2.at # "round") \/ k2.read = NoRound
  <2>1. CallOK(k2)
    BY <1>2, NoRoundOK, ZenonT(40) DEF CallOK
  <2>2. RoundOK(R, k2)
    <3>1. CASE k2.at # "round"
      BY <3>1, ZenonT(40) DEF RoundOK
    <3>2. CASE k2.read = NoRound
      <4>1. k2.node \in Nodes /\ k2.read.term = 0
        BY <1>2, <3>2, NoRoundOK, ZenonT(40) DEF CallOK
      <4>2. QED BY <4>1, UnbegunOK, ZenonT(40)
    <3>3. QED BY <1>2, <3>1, <3>2, ZenonT(40)
  <2>3. QED BY <2>1, <2>2, ZenonT(40)
<1>3. QED BY <1>1, <1>2, ZenonT(40) DEF Moved

LEMMA SteppedOK ==
    ASSUME NEW R, GroupOK(R), NEW C, NEW D, CallsOK(R, C), NEW c \in Caller,
           C[c].at # "idle", Stepped(C, D, c)
    PROVE  CallsOK(R, D)
<1>1. CallOK(D[c]) /\ RoundOK(R, D[c])
  BY MovedOK, ZenonT(40) DEF CallsOK, Stepped
<1>2. QED BY <1>1, ZenonT(40) DEF CallsOK, Stepped

\* The ways the actions move a call.
LEMMA FinishStepped ==
    ASSUME FenceInv, NEW c \in Caller, Finish(c)
    PROVE  Stepped(call, call', c)
BY ZenonT(40) DEF FenceInv, CallsOK, Finish, Stepped, Moved

LEMMA GotoStepped ==
    ASSUME FenceInv, NEW c \in Caller, NEW at, at # "round", Goto(c, at)
    PROVE  Stepped(call, call', c)
<1>1. DOMAIN call = Caller /\ DOMAIN call[c] = DOMAIN NoCall
  BY ZenonT(40) DEF FenceInv, CallsOK, CallOK
<1>2. DOMAIN NoCall = {"at", "op", "arg", "node", "locked", "reserving", "try", "term",
                       "high", "value", "proposalTerm", "read"}
  BY ZenonT(40) DEF NoCall
<1>3. call' = [call EXCEPT ![c] = [call[c] EXCEPT !.at = at]]
  BY ZenonT(40) DEF Goto
<1>4. call'[c] = [call[c] EXCEPT !.at = at] /\ DOMAIN call' = Caller
  BY <1>1, <1>3, ZenonT(40)
<1>5. DOMAIN call'[c] = DOMAIN call[c] /\ call'[c].node = call[c].node
      /\ call'[c].read = call[c].read /\ call'[c].at = at
  BY <1>1, <1>2, <1>4, ZenonT(40)
<1>6. QED BY <1>1, <1>3, <1>5, ZenonT(40) DEF Stepped, Moved

LEMMA CallFields ==
    DOMAIN NoCall = {"at", "op", "arg", "node", "locked", "reserving", "try", "term",
                     "high", "value", "proposalTerm", "read"}
BY ZenonT(40) DEF NoCall

LEMMA EnterReserveStepped ==
    ASSUME FenceInv, NEW c \in Caller, EnterReserve(c)
    PROVE  Stepped(call, call', c)
<1>1. DOMAIN call = Caller /\ DOMAIN call[c] = DOMAIN NoCall
  BY ZenonT(40) DEF FenceInv, CallsOK, CallOK
<1>2. /\ DOMAIN call' = Caller
      /\ \A d \in Caller : d # c => call'[d] = call[d]
      /\ call'[c] = [call[c] EXCEPT !.at = "require", !.reserving = TRUE]
  BY <1>1, CallFields, ZenonT(40) DEF EnterReserve
<1>3. /\ DOMAIN call'[c] = DOMAIN call[c] /\ call'[c].node = call[c].node
      /\ call'[c].read = call[c].read /\ call'[c].at = "require"
  BY <1>1, <1>2, CallFields, ZenonT(40)
<1>4. QED BY <1>1, <1>2, <1>3, ZenonT(40) DEF Stepped, Moved

LEMMA MissedStepped ==
    ASSUME FenceInv, NEW c \in Caller, Missed(c)
    PROVE  Stepped(call, call', c)
<1>1. Goto(c, "lock") \/ EnterReserve(c) \/ Finish(c)
  BY ZenonT(40) DEF Missed, Fail
<1>2. QED BY <1>1, GotoStepped, EnterReserveStepped, FinishStepped, ZenonT(40)

LEMMA HaveFenceStepped ==
    ASSUME FenceInv, NEW c \in Caller, NEW t, HaveFence(c, t)
    PROVE  Stepped(call, call', c)
<1> DEFINE k == [call[c] EXCEPT !.locked = TRUE, !.try = 2, !.read = NoRound]
           next == IF k.reserving THEN [k EXCEPT !.at = "propose"]
                   ELSE IF k.op # "Next" THEN [k EXCEPT !.at = k.op, !.term = t]
                   ELSE IF InRange(k.node, t) THEN LoadRange(k, t, 2)
                   ELSE [k EXCEPT !.at = "require", !.reserving = TRUE, !.term = t]
<1>1. DOMAIN call = Caller /\ DOMAIN call[c] = DOMAIN NoCall
  BY ZenonT(40) DEF FenceInv, CallsOK, CallOK
<1>2. CASE Fail(c)
  BY <1>2, FinishStepped, ZenonT(40) DEF Fail
<1>3. CASE call' = [call EXCEPT ![c] = next]
  <2>1. DOMAIN k = DOMAIN NoCall /\ k.node = call[c].node /\ k.read = NoRound
    BY <1>1, CallFields, ZenonT(40)
  <2> HIDE DEF k
  <2>2. DOMAIN next = DOMAIN NoCall /\ next.node = k.node /\ next.read = NoRound
    BY <2>1, CallFields, ZenonT(40) DEF LoadRange
  <2> HIDE DEF next
  <2>3. /\ DOMAIN call' = Caller /\ call'[c] = next
        /\ \A d \in Caller : d # c => call'[d] = call[d]
    BY <1>1, <1>3, ZenonT(40)
  <2>4. QED BY <1>1, <2>1, <2>2, <2>3, ZenonT(40) DEF Stepped, Moved
<1>4. QED BY <1>2, <1>3, ZenonT(40) DEF HaveFence

-----------------------------------------------------------------------------
(* The fields of a member.                                                 *)

\* The fence is left alone or given up.
Edited(m, m2) ==
    /\ DOMAIN m2 = DOMAIN m /\ m2.fenceTerm = m.fenceTerm
    /\ m2.fenceLeft = m.fenceLeft \/ m2.fenceLeft = 0

EditedAt(M1, M2, n) ==
    /\ DOMAIN M2 = DOMAIN M1
    /\ \A v \in Nodes : v # n => M2[v] = M1[v]
    /\ Edited(M1[n], M2[n])

LEMMA MemberFields ==
    DOMAIN NewMember = {"segmentLimit", "nextTs", "applied", "committedHighWater",
                        "nextTimestamp", "activeRangeHighWater", "activeRangeTerm",
                        "fenceTerm", "fenceLeft", "snapshot"}
BY ZenonT(40) DEF NewMember

LEMMA EditedOK ==
    ASSUME NEW R, NEW M1, NEW M2, MembersOK(R, M1), NEW n \in Nodes, EditedAt(M1, M2, n)
    PROVE  MembersOK(R, M2)
<1>1. MemberOK(M1[n]) /\ FenceOK(R, n, M1[n]) /\ Edited(M1[n], M2[n])
  BY ZenonT(40) DEF MembersOK, EditedAt
<1>2. MemberOK(M2[n])
  BY <1>1, TsoAssumption, SMTT(40) DEF MemberOK, Edited
<1>3. PICK A \in SUBSET Nodes :
        IsQuorum(A) /\ LeaseIn(R, n, M1[n].fenceTerm, M1[n].fenceLeft, A)
  BY <1>1, ZenonT(40) DEF FenceOK
<1>4. LeaseIn(R, n, M2[n].fenceTerm, M2[n].fenceLeft, A)
  <2>1. CASE M2[n].fenceLeft = M1[n].fenceLeft
    BY <1>1, <1>3, <2>1, ZenonT(40) DEF Edited
  <2>2. CASE M2[n].fenceLeft = 0
    BY <2>2, SMTT(40) DEF LeaseIn
  <2>3. QED BY <1>1, <2>1, <2>2, ZenonT(40) DEF Edited
<1>5. M2[n].fenceTerm <= R[n].term
  BY <1>1, ZenonT(40) DEF FenceOK, Edited
<1>6. MemberOK(M2[n]) /\ FenceOK(R, n, M2[n])
  BY <1>2, <1>3, <1>4, <1>5, ZenonT(40) DEF FenceOK
<1>7. QED BY <1>6, ZenonT(40) DEF MembersOK, EditedAt

LEMMA LocalObserveEdits ==
    ASSUME NEW m, DOMAIN m = DOMAIN NewMember, NEW ts
    PROVE  Edited(m, LocalObserve(m, ts))
BY MemberFields, ZenonT(40) DEF LocalObserve, Edited

LEMMA EditsCompose ==
    ASSUME NEW m, NEW m2, NEW m3, Edited(m, m2), Edited(m2, m3)
    PROVE  Edited(m, m3)
BY ZenonT(40) DEF Edited

\* What the steps of a call have to leave.
StepOK == CallsOK(raft, call') /\ MembersOK(raft, member')

LEMMA SetMemberOK ==
    ASSUME FenceInv, NEW c \in Caller, call[c].at # "idle", NEW m, SetMember(c, m),
           Edited(M(c), m)
    PROVE  MembersOK(raft, member')
<1>1. Node(c) \in Nodes /\ DOMAIN member = Nodes
  BY ZenonT(40) DEF FenceInv, CallsOK, CallOK, MembersOK, Node
<1>2. EditedAt(member, member', Node(c))
  BY <1>1, ZenonT(40) DEF SetMember, EditedAt, M
<1>3. QED BY <1>1, <1>2, EditedOK, ZenonT(40) DEF FenceInv

LEMMA MoveOK ==
    ASSUME FenceInv, NEW c \in Caller, call[c].at # "idle", Stepped(call, call', c),
           MembersOK(raft, member')
    PROVE  StepOK
BY SteppedOK, ZenonT(40) DEF FenceInv, StepOK

LEMMA MemberShape ==
    ASSUME FenceInv, NEW c \in Caller, call[c].at # "idle"
    PROVE  /\ Node(c) \in Nodes /\ DOMAIN M(c) = DOMAIN NewMember
           /\ MembersOK(raft, member) /\ (member' = member => MembersOK(raft, member'))
BY ZenonT(40) DEF FenceInv, CallsOK, CallOK, MembersOK, MemberOK, Node, M

-----------------------------------------------------------------------------
(* One lemma for each step of a call that leaves the group alone.          *)

LEMMA SwapOK ==
    ASSUME FenceInv, NEW c \in Caller, Swap(c)
    PROVE  StepOK
<1>1. call[c].at # "idle"
  BY ZenonT(40) DEF Swap
<1>2. CASE Missed(c) /\ UNCHANGED member
  BY <1>1, <1>2, MissedStepped, MoveOK, MemberShape, ZenonT(40)
<1>3. ASSUME NEW ts,
             SetMember(c, [M(c) EXCEPT !.nextTimestamp = ts + 1]),
             call' = [call EXCEPT ![c].at = "check", ![c].value = ts]
      PROVE  StepOK
  <2>1. Edited(M(c), [M(c) EXCEPT !.nextTimestamp = ts + 1])
    BY <1>1, MemberShape, MemberFields, ZenonT(40) DEF Edited
  <2>2. MembersOK(raft, member')
    BY <1>1, <1>3, <2>1, SetMemberOK, ZenonT(40)
  <2>3. DOMAIN call = Caller /\ DOMAIN call[c] = DOMAIN NoCall
    BY ZenonT(40) DEF FenceInv, CallsOK, CallOK
  <2>4. /\ DOMAIN call' = Caller
        /\ \A d \in Caller : d # c => call'[d] = call[d]
        /\ call'[c] = [call[c] EXCEPT !.at = "check", !.value = ts]
    BY <1>3, <2>3, CallFields, ZenonT(40)
  <2>5. /\ DOMAIN call'[c] = DOMAIN call[c] /\ call'[c].node = call[c].node
        /\ call'[c].read = call[c].read /\ call'[c].at = "check"
    BY <2>3, <2>4, CallFields, ZenonT(40)
  <2>6. Stepped(call, call', c)
    BY <2>3, <2>4, <2>5, ZenonT(40) DEF Stepped, Moved
  <2>7. QED BY <1>1, <2>2, <2>6, MoveOK, ZenonT(40)
<1>4. QED BY <1>2, <1>3, ZenonT(40) DEF Swap

LEMMA CheckOK ==
    ASSUME FenceInv, NEW c \in Caller, Check(c)
    PROVE  StepOK
<1>1. call[c].at # "idle" /\ Finish(c) /\ member' = member
  BY ZenonT(40) DEF Check, ReturnTimestamp, Fail
<1>2. QED BY <1>1, FinishStepped, MoveOK, MemberShape, ZenonT(40)

LEMMA NoFenceOK ==
    ASSUME FenceInv, NEW c \in Caller, call[c].at # "idle", NoFence(c), Finish(c)
    PROVE  StepOK
<1>1. Edited(M(c), [M(c) EXCEPT !.fenceLeft = 0])
  BY MemberShape, MemberFields, ZenonT(40) DEF Edited
<1>2. MembersOK(raft, member')
  BY <1>1, SetMemberOK, ZenonT(40) DEF NoFence
<1>3. QED BY <1>2, FinishStepped, MoveOK, ZenonT(40)

\* A round begins, or waits for the first entry of its term.
LEMMA RoundBegins ==
    ASSUME FenceInv, NEW c \in Caller, call[c].at # "idle", NEW left \in 0 .. FenceDuration,
           NEW k, DOMAIN k = DOMAIN NoCall, k.node = Node(c), k.read = Round(c, left)
    PROVE  CallOK(k) /\ RoundOK(raft, k)
<1>1. Node(c) \in Nodes /\ GroupOK(raft)
  BY MemberShape, ZenonT(40) DEF FenceInv
<1>2. CASE readyTerm = raft[Node(c)].term
  <2>1. /\ DOMAIN k.read = DOMAIN NoRound
        /\ k.read.term = raft[Node(c)].term /\ k.read.left = left
        /\ k.read.acks = {Node(c)}
    BY <1>2, SMTT(40) DEF Round, NoRound
  <2>2. k.read.term \in Nat
    BY <1>1, <2>1, ZenonT(40) DEF GroupOK, Peer
  <2>3. CallOK(k)
    BY <1>1, <2>1, <2>2, ZenonT(40) DEF CallOK, ReadOK
  <2>4. LeaseIn(raft, k.node, k.read.term, k.read.left, k.read.acks)
    <3>1. LeaseIn(raft, Node(c), raft[Node(c)].term, left, {Node(c)})
      BY <1>1, LeaseBegins, ZenonT(40)
    <3>2. QED BY <2>1, <3>1, ZenonT(40)
  <2>5. QED BY <2>1, <2>2, <2>3, <2>4, SMTT(40) DEF RoundOK
<1>3. CASE readyTerm # raft[Node(c)].term
  <2>1. k.read = [NoRound EXCEPT !.left = left]
    BY <1>3, ZenonT(40) DEF Round
  <2>2. /\ DOMAIN k.read = DOMAIN NoRound
        /\ k.read.term = 0 /\ k.read.left = left /\ k.read.acks = {}
    BY <2>1, ZenonT(40) DEF NoRound, NoTerm
  <2>3. CallOK(k)
    BY <1>1, <2>2, SMTT(40) DEF CallOK, ReadOK
  <2>4. QED BY <1>1, <2>2, <2>3, UnbegunOK, ZenonT(40)
<1>4. QED BY <1>2, <1>3, ZenonT(40)

LEMMA RequireOK ==
    ASSUME FenceInv, NEW c \in Caller, Require(c)
    PROVE  StepOK
<1>1. call[c].at # "idle"
  BY ZenonT(40) DEF Require
<1>2. ASSUME NEW t, HaveFence(c, t), UNCHANGED member
      PROVE  StepOK
  BY <1>1, <1>2, HaveFenceStepped, MoveOK, MemberShape, ZenonT(40)
<1>3. CASE /\ call' = [call EXCEPT ![c].at = "round", ![c].locked = TRUE,
                                   ![c].read = Round(c, FenceDuration)]
           /\ UNCHANGED member
  <2>1. DOMAIN call = Caller /\ DOMAIN call[c] = DOMAIN NoCall
    BY ZenonT(40) DEF FenceInv, CallsOK, CallOK
  <2>2. /\ DOMAIN call' = Caller
        /\ \A d \in Caller : d # c => call'[d] = call[d]
        /\ call'[c] = [call[c] EXCEPT !.at = "round", !.locked = TRUE,
                                      !.read = Round(c, FenceDuration)]
    BY <1>3, <2>1, CallFields, ZenonT(40)
  <2>3. /\ DOMAIN call'[c] = DOMAIN NoCall /\ call'[c].node = Node(c)
        /\ call'[c].read = Round(c, FenceDuration)
    BY <2>1, <2>2, CallFields, ZenonT(40) DEF Node
  <2>4. FenceDuration \in 0 .. FenceDuration
    BY TsoAssumption, SMTT(40)
  <2>5. CallOK(call'[c]) /\ RoundOK(raft, call'[c])
    BY <1>1, <2>3, <2>4, RoundBegins, ZenonT(40)
  <2>6. CallsOK(raft, call')
    BY <2>2, <2>5, ZenonT(40) DEF CallsOK, FenceInv
  <2>7. QED BY <1>1, <1>3, <2>6, MemberShape, ZenonT(40) DEF StepOK
<1>4. CASE NoFence(c) /\ Fail(c)
  BY <1>1, <1>4, NoFenceOK, ZenonT(40) DEF Fail
<1>5. QED BY <1>2, <1>3, <1>4, ZenonT(40) DEF Require

LEMMA StartRoundOK ==
    ASSUME FenceInv, NEW c \in Caller, StartRound(c)
    PROVE  StepOK
<1>1. call[c].at # "idle"
  BY ZenonT(40) DEF StartRound
<1>2. DOMAIN call = Caller /\ DOMAIN call[c] = DOMAIN NoCall /\ ReadOK(call[c].read)
  BY ZenonT(40) DEF FenceInv, CallsOK, CallOK
<1>3. /\ DOMAIN call' = Caller
      /\ \A d \in Caller : d # c => call'[d] = call[d]
      /\ call'[c] = [call[c] EXCEPT !.read = Round(c, call[c].read.left)]
  BY <1>2, CallFields, ZenonT(40) DEF StartRound
<1>4. /\ DOMAIN call'[c] = DOMAIN NoCall /\ call'[c].node = Node(c)
      /\ call'[c].read = Round(c, call[c].read.left)
  BY <1>2, <1>3, CallFields, ZenonT(40) DEF Node
<1>5. call[c].read.left \in 0 .. FenceDuration
  BY <1>2, ZenonT(40) DEF ReadOK
<1>6. CallOK(call'[c]) /\ RoundOK(raft, call'[c])
  BY <1>1, <1>4, <1>5, RoundBegins, ZenonT(40)
<1>7. CallsOK(raft, call')
  BY <1>3, <1>6, ZenonT(40) DEF CallsOK, FenceInv
<1>8. member' = member
  BY ZenonT(40) DEF StartRound
<1>9. QED BY <1>1, <1>7, <1>8, MemberShape, ZenonT(40) DEF StepOK

\* The quorum that answered the round backs the fence.
LEMMA FinishRoundOK ==
    ASSUME FenceInv, NEW c \in Caller, FinishRound(c)
    PROVE  StepOK
<1>1. call[c].at = "round" /\ call[c].at # "idle"
  BY ZenonT(40) DEF FinishRound
<1>2. CASE NoFence(c) /\ Fail(c)
  BY <1>1, <1>2, NoFenceOK, ZenonT(40) DEF Fail
<1>3. CASE /\ SetMember(c, [M(c) EXCEPT !.fenceTerm = call[c].read.term,
                                        !.fenceLeft = FenceLeft(c)])
           /\ HaveFence(c, call[c].read.term)
  <2>1. Node(c) \in Nodes /\ DOMAIN M(c) = DOMAIN NewMember /\ DOMAIN member = Nodes
    BY <1>1, MemberShape, ZenonT(40) DEF FenceInv, MembersOK
  <2>2. /\ call[c].read.term \in Nat /\ call[c].read.left \in 0 .. FenceDuration
        /\ call[c].read.acks \in SUBSET Nodes
        /\ call[c].read.term <= raft[Node(c)].term
        /\ LeaseIn(raft, Node(c), call[c].read.term, call[c].read.left, call[c].read.acks)
    BY <1>1, ZenonT(40) DEF FenceInv, CallsOK, CallOK, ReadOK, RoundOK, Node
  <2>3. IsQuorum(call[c].read.acks)
    BY ZenonT(40) DEF FinishRound
  <2>4. /\ DOMAIN member' = Nodes
        /\ \A v \in Nodes : v # Node(c) => member'[v] = member[v]
        /\ member'[Node(c)] = [M(c) EXCEPT !.fenceTerm = call[c].read.term,
                                           !.fenceLeft = FenceLeft(c)]
    BY <1>3, <2>1, ZenonT(40) DEF SetMember
  <2>5. /\ DOMAIN member'[Node(c)] = DOMAIN NewMember
        /\ member'[Node(c)].fenceTerm = call[c].read.term
        /\ member'[Node(c)].fenceLeft = call[c].read.left
    BY <2>1, <2>4, MemberFields, ZenonT(40) DEF FenceLeft
  <2>6. MemberOK(member'[Node(c)])
    BY <2>2, <2>5, ZenonT(40) DEF MemberOK
  <2>7. FenceOK(raft, Node(c), member'[Node(c)])
    BY <2>2, <2>3, <2>5, ZenonT(40) DEF FenceOK
  <2>8. MembersOK(raft, member')
    BY <2>4, <2>6, <2>7, ZenonT(40) DEF MembersOK, FenceInv
  <2>9. QED BY <1>1, <1>3, <2>8, HaveFenceStepped, MoveOK, ZenonT(40)
<1>4. QED BY <1>2, <1>3, ZenonT(40) DEF FinishRound

LEMMA PublishOK ==
    ASSUME FenceInv, NEW c \in Caller,
           PublishNext(c) \/ PublishHighWater(c) \/ PublishTerm(c)
    PROVE  StepOK
<1>1. call[c].at # "idle"
  BY ZenonT(40) DEF PublishNext, PublishHighWater, PublishTerm
<1>2. DOMAIN M(c) = DOMAIN NewMember
  BY <1>1, MemberShape, ZenonT(40)
<1>3. \A v : /\ Edited(M(c), [M(c) EXCEPT !.nextTimestamp = v])
             /\ Edited(M(c), [M(c) EXCEPT !.activeRangeHighWater = v])
             /\ Edited(M(c), [M(c) EXCEPT !.activeRangeTerm = v])
  BY <1>2, MemberFields, ZenonT(40) DEF Edited
<1>4. MembersOK(raft, member')
  <2>1. CASE PublishNext(c)
    <3>1. \/ SetMember(c, [M(c) EXCEPT !.nextTimestamp = call[c].value])
          \/ SetMember(c, [M(c) EXCEPT !.activeRangeTerm = NoTerm])
      BY <2>1, ZenonT(40) DEF PublishNext, DropRange
    <3>2. QED BY <1>1, <1>3, <3>1, SetMemberOK, ZenonT(40)
  <2>2. CASE PublishHighWater(c)
    BY <1>1, <1>3, <2>2, SetMemberOK, ZenonT(40) DEF PublishHighWater
  <2>3. CASE PublishTerm(c)
    BY <1>1, <1>3, <2>3, SetMemberOK, ZenonT(40) DEF PublishTerm
  <2>4. QED BY <2>1, <2>2, <2>3, ZenonT(40)
<1>5. Goto(c, "publish high") \/ Goto(c, "publish term") \/ Goto(c, "reserved") \/ Finish(c)
  BY ZenonT(40) DEF PublishNext, PublishHighWater, PublishTerm, Fail, ReturnObserved
<1>6. Stepped(call, call', c)
  BY <1>5, GotoStepped, FinishStepped, ZenonT(40)
<1>7. QED BY <1>1, <1>4, <1>6, MoveOK, ZenonT(40)

LEMMA ReservedOK ==
    ASSUME FenceInv, NEW c \in Caller, Reserved(c)
    PROVE  StepOK
<1>1. call[c].at # "idle" /\ member' = member
  BY ZenonT(40) DEF Reserved
<1>2. CASE Fail(c)
  BY <1>1, <1>2, FinishStepped, MoveOK, MemberShape, ZenonT(40) DEF Fail
<1>3. ASSUME NEW t, call' = [call EXCEPT ![c] = LoadRange(@, t, 3)]
      PROVE  StepOK
  <2>1. DOMAIN call = Caller /\ DOMAIN call[c] = DOMAIN NoCall
    BY ZenonT(40) DEF FenceInv, CallsOK, CallOK
  <2>2. /\ DOMAIN call' = Caller
        /\ \A d \in Caller : d # c => call'[d] = call[d]
        /\ call'[c] = LoadRange(call[c], t, 3)
    BY <1>3, <2>1, ZenonT(40)
  <2>3. /\ DOMAIN call'[c] = DOMAIN call[c] /\ call'[c].node = call[c].node
        /\ call'[c].read = call[c].read /\ call'[c].at = "swap"
    BY <2>1, <2>2, CallFields, ZenonT(40) DEF LoadRange
  <2>4. Stepped(call, call', c)
    BY <2>1, <2>2, <2>3, ZenonT(40) DEF Stepped, Moved
  <2>5. QED BY <1>1, <2>4, MoveOK, MemberShape, ZenonT(40)
<1>4. QED BY <1>2, <1>3, ZenonT(40) DEF Reserved

LEMMA ObserveOK ==
    ASSUME FenceInv, NEW c \in Caller, Observe(c)
    PROVE  StepOK
<1> DEFINE m == LocalObserve(M(c), call[c].arg)
<1>1. call[c].at # "idle"
  BY ZenonT(40) DEF Observe
<1>2. DOMAIN M(c) = DOMAIN NewMember
  BY <1>1, MemberShape, ZenonT(40)
<1>3. Edited(M(c), m) /\ DOMAIN m = DOMAIN NewMember
  BY <1>2, LocalObserveEdits, ZenonT(40) DEF Edited
<1> HIDE DEF m
<1>4. \A v : /\ Edited(m, [m EXCEPT !.nextTimestamp = v])
             /\ Edited(m, [m EXCEPT !.activeRangeTerm = v])
  BY <1>3, MemberFields, ZenonT(40) DEF Edited
<1>5. \/ \E v : SetMember(c, [m EXCEPT !.nextTimestamp = v])
      \/ SetMember(c, [m EXCEPT !.activeRangeTerm = NoTerm])
      \/ SetMember(c, m)
  BY ZenonT(40) DEF Observe, DropRange, m
<1>6. MembersOK(raft, member')
  BY <1>1, <1>3, <1>4, <1>5, EditsCompose, SetMemberOK, ZenonT(40)
<1>7. Finish(c) \/ EnterReserve(c)
  BY ZenonT(40) DEF Observe, ReturnObserved, Fail
<1>8. QED BY <1>1, <1>6, <1>7, FinishStepped, EnterReserveStepped, MoveOK, ZenonT(40)

LEMMA ServeOK ==
    ASSUME FenceInv, NEW c \in Caller, Serve(c)
    PROVE  StepOK
<1>1. CASE FailRound(c)
  BY <1>1, NoFenceOK, ZenonT(40) DEF FailRound, Fail
<1>2. CASE FailProposal(c) \/ Peek(c)
  <2>1. call[c].at # "idle" /\ Finish(c) /\ member' = member
    BY <1>2, ZenonT(40) DEF FailProposal, Peek, Fail
  <2>2. QED BY <2>1, FinishStepped, MoveOK, MemberShape, ZenonT(40)
<1>3. QED BY <1>1, <1>2, SwapOK, CheckOK, RequireOK, StartRoundOK, FinishRoundOK,
             PublishOK, ReservedOK, ObserveOK, ZenonT(40) DEF Serve

\* A call of c that waits for the range it proposed up to high.
AwaitsRange(c, high) ==
    \E first, term : call' = [call EXCEPT ![c].at = "wait", ![c].value = first,
                                          ![c].high = high, ![c].proposalTerm = term]

\* Propose leaves the fence alone too.
LEMMA ProposeOK ==
    ASSUME FenceInv, NEW c \in Caller, Propose(c)
    PROVE  StepOK /\ raft' = raft
<1>1. call[c].at # "idle" /\ raft' = raft
  BY ZenonT(40) DEF Propose
<1>2. CASE Finish(c) /\ member' = member
  BY <1>1, <1>2, FinishStepped, MoveOK, MemberShape, ZenonT(40)
<1>3. ASSUME NEW high, SetMember(c, LocalObserve(M(c), high)),
             Finish(c) \/ AwaitsRange(c, high)
      PROVE  StepOK
  <2>1. MembersOK(raft, member')
    BY <1>1, <1>3, MemberShape, LocalObserveEdits, SetMemberOK, ZenonT(40)
  <2>2. CASE Finish(c)
    BY <1>1, <2>1, <2>2, FinishStepped, MoveOK, ZenonT(40)
  <2>3. CASE AwaitsRange(c, high)
    <3>0. PICK first, term :
             call' = [call EXCEPT ![c].at = "wait", ![c].value = first,
                                  ![c].high = high, ![c].proposalTerm = term]
      BY <2>3, ZenonT(40) DEF AwaitsRange
    <3>1. DOMAIN call = Caller /\ DOMAIN call[c] = DOMAIN NoCall
      BY ZenonT(40) DEF FenceInv, CallsOK, CallOK
    <3>2. /\ DOMAIN call' = Caller
          /\ \A d \in Caller : d # c => call'[d] = call[d]
          /\ call'[c] = [call[c] EXCEPT !.at = "wait", !.value = first,
                                        !.high = high, !.proposalTerm = term]
      BY <3>0, <3>1, CallFields, ZenonT(40)
    <3>3. /\ DOMAIN call'[c] = DOMAIN call[c] /\ call'[c].node = call[c].node
          /\ call'[c].read = call[c].read /\ call'[c].at = "wait"
      BY <3>1, <3>2, CallFields, ZenonT(40)
    <3>4. Stepped(call, call', c)
      BY <3>1, <3>2, <3>3, ZenonT(40) DEF Stepped, Moved
    <3>5. QED BY <1>1, <2>1, <3>4, MoveOK, ZenonT(40)
  <2>4. QED BY <1>3, <2>2, <2>3, ZenonT(40)
<1>4. QED
  <2>1. PICK wall, high :
           /\ high = RangeStart(c, wall) + (RangeSize - 1)
           /\ \/ Fail(c) /\ UNCHANGED <<member, proposals, tail>>
              \/ /\ SetMember(c, LocalObserve(M(c), high))
                 /\ \/ Fail(c)
                    \/ call' = [call EXCEPT ![c].at = "wait", ![c].value = RangeStart(c, wall),
                                            ![c].high = high,
                                            ![c].proposalTerm = raft[Node(c)].term]
    BY ZenonT(40) DEF Propose
  <2>2. Fail(c) => Finish(c)
    BY ZenonT(40) DEF Fail
  <2>3. CASE Fail(c) /\ UNCHANGED <<member, proposals, tail>>
    BY <1>2, <2>2, <2>3, ZenonT(40)
  <2>4. CASE /\ SetMember(c, LocalObserve(M(c), high))
             /\ \/ Fail(c)
                \/ call' = [call EXCEPT ![c].at = "wait", ![c].value = RangeStart(c, wall),
                                        ![c].high = high, ![c].proposalTerm = raft[Node(c)].term]
    <3>1. Finish(c) \/ AwaitsRange(c, high)
      BY <2>2, <2>4, ZenonT(40) DEF AwaitsRange
    <3>2. QED BY <1>1, <1>3, <2>4, <3>1, ZenonT(40)
  <2>5. QED BY <1>1, <2>1, <2>3, <2>4, ZenonT(40)

-----------------------------------------------------------------------------
(* The steps of the group and of its environment.                          *)

LEMMA InvokeOK ==
    ASSUME FenceInv, NEW c \in Caller, NEW n \in Nodes, NEW op, NEW arg, Invoke(c, n, op, arg)
    PROVE  FenceInv'
<1> DEFINE k == [NoCall EXCEPT !.at = "lock", !.op = op, !.arg = arg, !.node = n, !.try = 1]
<1>1. raft' = raft /\ member' = member
  BY ZenonT(40) DEF Invoke, groupVars
<1>2. DOMAIN k = DOMAIN NoCall /\ k.node = n /\ k.at = "lock" /\ k.read = NoRound
  BY ZenonT(40) DEF NoCall
<1> HIDE DEF k
<1>3. call' = [call EXCEPT ![c] = k]
      \/ \E t : call' = [call EXCEPT ![c] = LoadRange(k, t, 1)]
  BY ZenonT(40) DEF Invoke, k
<1>4. ASSUME NEW k2, call' = [call EXCEPT ![c] = k2], DOMAIN k2 = DOMAIN NoCall,
             k2.node = n, k2.at # "round", k2.read = NoRound
      PROVE  CallsOK(raft, call')
  <2>1. CallOK(k2) /\ RoundOK(raft, k2)
    BY <1>4, NoRoundOK, ZenonT(40) DEF CallOK, RoundOK
  <2>2. QED BY <1>4, <2>1, ZenonT(40) DEF CallsOK, FenceInv
<1>5. \A t : LET k2 == LoadRange(k, t, 1) IN
               DOMAIN k2 = DOMAIN NoCall /\ k2.node = n /\ k2.at # "round" /\ k2.read = NoRound
  BY <1>2, CallFields, ZenonT(40) DEF LoadRange
<1>6. CallsOK(raft, call')
  BY <1>2, <1>3, <1>4, <1>5, ZenonT(40)
<1>7. QED BY <1>1, <1>6, ZenonT(40) DEF FenceInv

LEMMA HearHeard ==
    ASSUME NEW l \in Nodes, NEW m \in Nodes, Hear(l, m)
    PROVE  Heard(raft, raft', l, m)
BY ZenonT(40) DEF Hear, Heard

LEMMA HeardKeeps ==
    ASSUME NEW R, NEW S, GroupOK(R), NEW l \in Nodes, NEW m \in Nodes, Heard(R, S, l, m)
    PROVE  GroupOK(S) /\ Grown(R, S) /\ LeasesKept(R, S)
<1>1. GroupOK(S) /\ Grown(R, S)
  BY HeardGroup, ZenonT(40)
<1>2. LeasesKept(R, S)
  BY HeardLease, ZenonT(40) DEF LeasesKept
<1>3. QED BY <1>1, <1>2, ZenonT(40)

LEMMA HeartbeatOK ==
    ASSUME FenceInv, NEW l \in Nodes, NEW m \in Nodes, Heartbeat(l, m)
    PROVE  FenceInv'
<1>1. member' = member /\ call' = call /\ Heard(raft, raft', l, m)
  BY HearHeard, ZenonT(40) DEF Heartbeat
<1>2. /\ GroupOK(raft') /\ Grown(raft, raft') /\ LeasesKept(raft, raft')
      /\ GroupOK(raft)
  BY <1>1, HeardKeeps, ZenonT(40) DEF FenceInv
<1>3. CallsOK(raft', call) /\ MembersOK(raft', member)
  BY <1>2, AllKept, ZenonT(40) DEF FenceInv
<1>4. QED BY <1>1, <1>2, <1>3, ZenonT(40) DEF FenceInv

LEMMA InstallSnapshotOK ==
    ASSUME FenceInv, NEW l \in Nodes, NEW n \in Nodes, InstallSnapshot(l, n)
    PROVE  FenceInv'
<1> DEFINE s == member[l].snapshot
           m == DropRange(LocalObserve(member[n], s.highWater))
<1>1. call' = call /\ Heard(raft, raft', l, n)
  BY HearHeard, ZenonT(40) DEF InstallSnapshot
<1>2. /\ GroupOK(raft') /\ Grown(raft, raft') /\ LeasesKept(raft, raft')
      /\ GroupOK(raft)
  BY <1>1, HeardKeeps, ZenonT(40) DEF FenceInv
<1>3. CallsOK(raft', call) /\ MembersOK(raft', member)
  BY <1>2, AllKept, ZenonT(40) DEF FenceInv
<1>4. DOMAIN member = Nodes /\ DOMAIN member[n] = DOMAIN NewMember
  BY ZenonT(40) DEF FenceInv, MembersOK, MemberOK
<1>5. Edited(member[n], LocalObserve(member[n], s.highWater))
      /\ DOMAIN LocalObserve(member[n], s.highWater) = DOMAIN NewMember
  BY <1>4, LocalObserveEdits, ZenonT(40) DEF Edited
<1>6. Edited(LocalObserve(member[n], s.highWater), m) /\ DOMAIN m = DOMAIN NewMember
  BY <1>5, MemberFields, ZenonT(40) DEF DropRange, Edited
<1>7. member' = [member EXCEPT ![n] =
                  [m EXCEPT !.snapshot = s, !.applied = s.index,
                            !.committedHighWater = Max({@, s.highWater})]]
  BY ZenonT(40) DEF InstallSnapshot
<1> HIDE DEF m
<1>8. Edited(m, member'[n]) /\ DOMAIN member' = DOMAIN member
      /\ \A v \in Nodes : v # n => member'[v] = member[v]
  BY <1>4, <1>6, <1>7, MemberFields, ZenonT(40) DEF Edited
<1>9. EditedAt(member, member', n)
  BY <1>5, <1>6, <1>8, EditsCompose, ZenonT(40) DEF EditedAt
<1>10. MembersOK(raft', member')
  BY <1>3, <1>9, EditedOK, ZenonT(40)
<1>11. QED BY <1>1, <1>2, <1>3, <1>10, ZenonT(40) DEF FenceInv

LEMMA ElectOK ==
    ASSUME FenceInv, NEW n \in Nodes, NEW Q \in Quorums, Elect(n, Q)
    PROVE  FenceInv'
<1>1. member' = member /\ call' = call
  BY ZenonT(40) DEF Elect
<1>2. NewestTerm \in Nat /\ \A v \in Nodes : raft[v].term <= NewestTerm
  BY NewestIsNewest, ZenonT(40) DEF FenceInv
<1>3. \A v \in Nodes : raft[v].term \in Nat
  BY ZenonT(40) DEF FenceInv, GroupOK, Peer
<1>4. NewestTerm + 1 \in Nat /\ \A v \in Nodes : raft[v].term < NewestTerm + 1
  BY <1>2, <1>3, SMTT(40)
<1>5. Elected(raft, raft', n, Q, NewestTerm + 1)
  BY <1>4, ZenonT(40) DEF Elect, Elected, Electable, Quorums
<1>6. GroupOK(raft') /\ Grown(raft, raft') /\ GroupOK(raft)
  BY <1>5, ElectedGroup, ZenonT(40) DEF FenceInv
<1>7. LeasesKept(raft, raft')
  BY <1>5, <1>6, ElectedLease, ZenonT(40) DEF LeasesKept
<1>8. CallsOK(raft', call) /\ MembersOK(raft', member)
  BY <1>6, <1>7, AllKept, ZenonT(40) DEF FenceInv
<1>9. QED BY <1>1, <1>6, <1>8, ZenonT(40) DEF FenceInv

\* The ticker leaves terms, leaders and contacts alone.
LEMMA ExpireKeeps ==
    ASSUME GroupOK(raft), NEW n \in Nodes, Expire(n)
    PROVE  /\ raft' \in [Nodes -> Peer]
           /\ \A v \in Nodes : /\ raft'[v].term = raft[v].term
                               /\ raft'[v].leading = raft[v].leading
                               /\ raft'[v].contact = raft[v].contact
<1>1. raft \in [Nodes -> Peer]
  BY ZenonT(40) DEF GroupOK
<1>4. /\ raft'[n] = [term |-> raft[n].term, leading |-> raft[n].leading,
                     contact |-> raft[n].contact, due |-> TRUE]
      /\ \A v \in Nodes : v # n => raft'[v] = raft[v]
  BY <1>1, ZenonT(40) DEF Expire, Peer
<1>5. raft'[n] \in Peer
  <2>1. raft[n] \in Peer
    BY <1>1, ZenonT(40)
  <2>2. QED BY <1>4, <2>1, SMTT(40) DEF Peer
<1>6. raft' \in [Nodes -> Peer]
  <2>1. \A v \in Nodes : raft'[v] \in Peer
    BY <1>1, <1>4, <1>5, ZenonT(40)
  <2>2. raft' = [v \in Nodes |-> raft'[v]]
    BY <1>1, ZenonT(40) DEF Expire
  <2>3. QED BY <2>1, <2>2, ZenonT(40)
<1>7. /\ raft'[n].term = raft[n].term /\ raft'[n].leading = raft[n].leading
      /\ raft'[n].contact = raft[n].contact
  BY <1>4, SMTT(40)
<1>8. QED BY <1>4, <1>6, <1>7, ZenonT(40)

LEMMA ExpireOK ==
    ASSUME FenceInv, NEW n \in Nodes, Expire(n)
    PROVE  FenceInv'
<1>1. member' = member /\ call' = call /\ GroupOK(raft)
  BY ZenonT(40) DEF Expire, FenceInv
<1>2. /\ raft' \in [Nodes -> Peer]
      /\ \A v \in Nodes : /\ raft'[v].term = raft[v].term
                          /\ raft'[v].leading = raft[v].leading
                          /\ raft'[v].contact = raft[v].contact
  BY <1>1, ExpireKeeps, ZenonT(40)
<1>3. GroupOK(raft')
  <2>1. \A x \in Nodes :
           raft'[x].term > 0 =>
             \E Q \in SUBSET Nodes : IsQuorum(Q) /\ \A v \in Q : raft'[v].term >= raft'[x].term
    <3>1. SUFFICES ASSUME NEW x \in Nodes, raft'[x].term > 0
                   PROVE  \E Q \in SUBSET Nodes :
                            IsQuorum(Q) /\ \A v \in Q : raft'[v].term >= raft'[x].term
      BY ZenonT(40)
    <3>2. PICK Q \in SUBSET Nodes : IsQuorum(Q) /\ \A v \in Q : raft[v].term >= raft[x].term
      BY <1>1, <1>2, <3>1, ZenonT(40) DEF GroupOK
    <3>3. QED BY <1>2, <3>2, ZenonT(40)
  <2>2. \E x \in Nodes : \A v \in Nodes : raft'[v].term <= raft'[x].term
    BY <1>1, <1>2, ZenonT(40) DEF GroupOK
  <2>3. \A x \in Nodes : raft'[x].leading => raft'[x].term > 0
    BY <1>1, <1>2, ZenonT(40) DEF GroupOK
  <2>4. \A x, y \in Nodes :
           raft'[x].leading /\ raft'[y].leading /\ raft'[x].term = raft'[y].term => x = y
    BY <1>1, <1>2, ZenonT(40) DEF GroupOK
  <2>5. QED BY <1>2, <2>1, <2>2, <2>3, <2>4, ZenonT(40) DEF GroupOK
<1>4. Grown(raft, raft')
  <2>1. \A v \in Nodes : raft[v].term \in Nat
    BY <1>1, ZenonT(40) DEF GroupOK, Peer
  <2>2. QED BY <1>2, <2>1, SMTT(40) DEF Grown
<1>5. \A T \in Nat, A \in SUBSET Nodes : Apart(raft, T, A) => Apart(raft', T, A)
  BY <1>1, <1>2, <1>4, ApartGrows, ZenonT(40) DEF GroupOK
<1>6. LeasesKept(raft, raft')
  BY <1>2, <1>5, ZenonT(40) DEF LeasesKept, LeaseIn, Backed
<1>7. CallsOK(raft', call) /\ MembersOK(raft', member)
  BY <1>1, <1>3, <1>4, <1>6, AllKept, ZenonT(40) DEF FenceInv
<1>8. QED BY <1>1, <1>3, <1>7, ZenonT(40) DEF FenceInv

LEMMA ApplyOK ==
    ASSUME FenceInv, NEW n \in Nodes, Apply(n)
    PROVE  FenceInv'
<1>1. raft' = raft
  BY ZenonT(40) DEF Apply, groupVars
<1>2. DOMAIN member = Nodes /\ DOMAIN member[n] = DOMAIN NewMember
  BY ZenonT(40) DEF FenceInv, MembersOK, MemberOK
<1>3. ASSUME NEW index, NEW high
      PROVE  Edited(member[n], Applied(member[n], index, high))
  <2>1. Edited(member[n], LocalObserve(member[n], high))
        /\ DOMAIN LocalObserve(member[n], high) = DOMAIN NewMember
    BY <1>2, LocalObserveEdits, ZenonT(40) DEF Edited
  <2>2. Edited(LocalObserve(member[n], high), Applied(member[n], index, high))
    BY <2>1, MemberFields, ZenonT(40) DEF Applied, Edited
  <2>3. QED BY <2>1, <2>2, EditsCompose, ZenonT(40)
<1>4. \E index, high : member' = [member EXCEPT ![n] = Applied(member[n], index, high)]
  BY <1>2, ZenonT(40) DEF Apply
<1>5. EditedAt(member, member', n)
  BY <1>2, <1>3, <1>4, SMTT(40) DEF EditedAt
<1>6. MembersOK(raft, member')
  BY <1>5, EditedOK, ZenonT(40) DEF FenceInv
<1>7. DOMAIN call' = Caller
      /\ \A c \in Caller : \/ call'[c] = call[c]
                           \/ /\ call[c].at = "wait"
                              /\ call'[c] = [call[c] EXCEPT !.at = "committed"]
  BY ZenonT(40) DEF Apply, Waits
<1>8. ASSUME NEW c \in Caller PROVE CallOK(call'[c]) /\ RoundOK(raft, call'[c])
  <2>1. CASE call'[c] = call[c]
    BY <2>1, ZenonT(40) DEF FenceInv, CallsOK
  <2>2. CASE call[c].at = "wait" /\ call'[c] = [call[c] EXCEPT !.at = "committed"]
    <3>1. CallOK(call[c]) /\ DOMAIN call[c] = DOMAIN NoCall
      BY ZenonT(40) DEF FenceInv, CallsOK, CallOK
    <3>2. Moved(call[c], call'[c])
      BY <2>2, <3>1, CallFields, ZenonT(40) DEF Moved
    <3>3. QED BY <2>2, <3>1, <3>2, MovedOK, ZenonT(40) DEF FenceInv
  <2>3. QED BY <1>7, <2>1, <2>2, ZenonT(40)
<1>9. CallsOK(raft, call')
  BY <1>7, <1>8, ZenonT(40) DEF CallsOK
<1>10. QED BY <1>1, <1>6, <1>9, ZenonT(40) DEF FenceInv

\* A member comes back without a fence and without its calls.
LEMMA RestartOK ==
    ASSUME FenceInv, NEW n \in Nodes, NEW wall, Restart(n, wall)
    PROVE  FenceInv'
<1>1. Restarted(raft, raft', n)
  BY ZenonT(40) DEF Restart, Restarted
<1>2. GroupOK(raft') /\ Grown(raft, raft') /\ GroupOK(raft)
  BY <1>1, RestartedGroup, ZenonT(40) DEF FenceInv
<1>3. LeasesKept(raft, raft')
  BY <1>1, <1>2, RestartedLease, ZenonT(40) DEF LeasesKept
<1>4. CallsOK(raft', call) /\ MembersOK(raft', member)
  BY <1>2, <1>3, AllKept, ZenonT(40) DEF FenceInv
<1>5. DOMAIN call' = Caller /\ \A c \in Caller : call'[c] = call[c] \/ call'[c] = NoCall
  BY ZenonT(40) DEF Restart
<1>6. CallsOK(raft', call')
  BY <1>4, <1>5, NoCallOK, ZenonT(40) DEF CallsOK
<1>7. DOMAIN member = Nodes
  BY <1>4, ZenonT(40) DEF MembersOK
<1>8. /\ DOMAIN member' = Nodes
      /\ \A v \in Nodes : v # n => member'[v] = member[v]
      /\ DOMAIN member'[n] = DOMAIN NewMember
      /\ member'[n].fenceTerm = 0 /\ member'[n].fenceLeft = 0
  BY <1>7, ZenonT(40) DEF Restart, NewMember, NoTerm
<1>9. MemberOK(member'[n])
  BY <1>8, TsoAssumption, SMTT(40) DEF MemberOK
<1>10. FenceOK(raft', n, member'[n])
  <2>1. LeaseIn(raft', n, member'[n].fenceTerm, member'[n].fenceLeft, Nodes)
    BY <1>8, SMTT(40) DEF LeaseIn
  <2>2. raft'[n].term \in Nat
    BY <1>2, ZenonT(40) DEF GroupOK, Peer
  <2>3. QED BY <1>8, <2>1, <2>2, AllAreQuorum, SMTT(40) DEF FenceOK
<1>11. MembersOK(raft', member')
  BY <1>4, <1>8, <1>9, <1>10, ZenonT(40) DEF MembersOK
<1>12. QED BY <1>2, <1>6, <1>11, ZenonT(40) DEF FenceInv

LEMMA LessBounded ==
    ASSUME NEW i \in 0 .. FenceDuration
    PROVE  Less(i) \in 0 .. FenceDuration /\ i \in Nat
BY TsoAssumption, SMTT(40) DEF Less

\* Fences, rounds and the contacts that block votes run down together.
LEMMA TickOK ==
    ASSUME FenceInv, Tick
    PROVE  FenceInv'
<1>1. Ticked(raft, raft') /\ GroupOK(raft)
  BY ZenonT(40) DEF Tick, Ticked, FenceInv
<1>2. GroupOK(raft')
  BY <1>1, TickedGroup, ZenonT(40)
<1>3. \A v \in Nodes : raft'[v].term = raft[v].term
  BY <1>1, TickedPeers, ZenonT(40)
<1>4. ASSUME NEW c \in Caller PROVE CallOK(call'[c]) /\ RoundOK(raft', call'[c])
  <2>1. CallOK(call[c]) /\ RoundOK(raft, call[c])
    BY ZenonT(40) DEF FenceInv, CallsOK
  <2>2. DOMAIN call[c] = DOMAIN NoCall /\ DOMAIN call[c].read = {"term", "left", "readIndex", "acks"}
    BY <2>1, ZenonT(40) DEF CallOK, ReadOK, NoRound
  <2>3. call'[c] = [call[c] EXCEPT !.read.left = Less(@)]
    BY ZenonT(40) DEF Tick
  <2>4. /\ DOMAIN call'[c] = DOMAIN NoCall /\ call'[c].at = call[c].at
        /\ call'[c].node = call[c].node
        /\ call'[c].read = [call[c].read EXCEPT !.left = Less(@)]
    <3>1. DOMAIN call'[c] = DOMAIN call[c]
      BY <2>3, ZenonT(40)
    <3>2. "at" \in DOMAIN call[c] /\ "node" \in DOMAIN call[c] /\ "read" \in DOMAIN call[c]
      BY <2>2, CallFields, ZenonT(40)
    <3>3. QED BY <2>2, <2>3, <3>1, <3>2, ZenonT(40)
  <2>5. /\ DOMAIN call'[c].read = DOMAIN call[c].read
        /\ call'[c].read.term = call[c].read.term
        /\ call'[c].read.left = Less(call[c].read.left)
        /\ call'[c].read.acks = call[c].read.acks
    BY <2>2, <2>4, ZenonT(40)
  <2>6. call[c].read.left \in Nat /\ Less(call[c].read.left) \in 0 .. FenceDuration
    BY <2>1, LessBounded, ZenonT(40) DEF CallOK, ReadOK
  <2>7. CallOK(call'[c])
    BY <2>1, <2>4, <2>5, <2>6, ZenonT(40) DEF CallOK, ReadOK
  <2>8. ASSUME call'[c].at = "round"
        PROVE  /\ call'[c].read.term <= raft'[call'[c].node].term
               /\ LeaseIn(raft', call'[c].node, call'[c].read.term, call'[c].read.left,
                          call'[c].read.acks)
    <3>1. /\ call[c].node \in Nodes /\ call[c].read.term \in Nat
          /\ call[c].read.acks \in SUBSET Nodes
          /\ call[c].read.term <= raft[call[c].node].term
          /\ LeaseIn(raft, call[c].node, call[c].read.term, call[c].read.left,
                     call[c].read.acks)
      BY <2>1, <2>4, <2>8, ZenonT(40) DEF CallOK, ReadOK, RoundOK
    <3>2. LeaseIn(raft', call[c].node, call[c].read.term, Less(call[c].read.left),
                  call[c].read.acks)
      BY <1>1, <2>6, <3>1, TickedLease, ZenonT(40)
    <3>3. QED BY <1>3, <2>4, <2>5, <3>1, <3>2, ZenonT(40)
  <2>9. QED BY <2>7, <2>8, ZenonT(40) DEF RoundOK
<1>5. CallsOK(raft', call')
  <2>1. DOMAIN call' = Caller
    BY ZenonT(40) DEF Tick
  <2>2. QED BY <1>4, <2>1, ZenonT(40) DEF CallsOK
<1>6. ASSUME NEW n \in Nodes PROVE MemberOK(member'[n]) /\ FenceOK(raft', n, member'[n])
  <2>1. MemberOK(member[n]) /\ FenceOK(raft, n, member[n])
    BY ZenonT(40) DEF FenceInv, MembersOK
  <2>2. member'[n] = [member[n] EXCEPT !.fenceLeft = Less(@)]
    BY ZenonT(40) DEF Tick
  <2>3. /\ DOMAIN member'[n] = DOMAIN NewMember
        /\ member'[n].fenceTerm = member[n].fenceTerm
        /\ member'[n].fenceLeft = Less(member[n].fenceLeft)
    BY <2>1, <2>2, MemberFields, ZenonT(40) DEF MemberOK
  <2>4. member[n].fenceLeft \in Nat /\ Less(member[n].fenceLeft) \in 0 .. FenceDuration
        /\ member[n].fenceTerm \in Nat
    BY <2>1, LessBounded, ZenonT(40) DEF MemberOK
  <2>5. PICK A \in SUBSET Nodes :
          IsQuorum(A) /\ LeaseIn(raft, n, member[n].fenceTerm, member[n].fenceLeft, A)
    BY <2>1, ZenonT(40) DEF FenceOK
  <2>6. LeaseIn(raft', n, member[n].fenceTerm, Less(member[n].fenceLeft), A)
    BY <1>1, <2>4, <2>5, TickedLease, ZenonT(40)
  <2>7. member[n].fenceTerm <= raft'[n].term
    BY <1>3, <2>1, ZenonT(40) DEF FenceOK
  <2>8. MemberOK(member'[n])
    BY <2>3, <2>4, ZenonT(40) DEF MemberOK
  <2>9. FenceOK(raft', n, member'[n])
    BY <2>3, <2>5, <2>6, <2>7, ZenonT(40) DEF FenceOK
  <2>10. QED BY <2>8, <2>9, ZenonT(40)
<1>7. MembersOK(raft', member')
  <2>1. DOMAIN member' = Nodes
    BY ZenonT(40) DEF Tick
  <2>2. QED BY <1>6, <2>1, ZenonT(40) DEF MembersOK
<1>8. QED BY <1>2, <1>5, <1>7, ZenonT(40) DEF FenceInv

\* A member answers the round of c, and hears of its leader by it.
LEMMA AcknowledgeOK ==
    ASSUME FenceInv, NEW c \in Caller, NEW m \in Nodes, Acknowledge(c, m)
    PROVE  FenceInv'
<1>1. /\ call[c].at = "round" /\ member' = member
      /\ raft[Node(c)].term = call[c].read.term
      /\ call' = [call EXCEPT ![c].read.acks = @ \cup {m}]
      /\ Hear(Node(c), m)
  BY ZenonT(40) DEF Acknowledge
<1>2. /\ CallOK(call[c]) /\ RoundOK(raft, call[c]) /\ Node(c) \in Nodes
      /\ DOMAIN call = Caller /\ GroupOK(raft)
  BY <1>1, ZenonT(40) DEF FenceInv, CallsOK, CallOK, Node
<1>3. Heard(raft, raft', Node(c), m)
  BY <1>1, <1>2, HearHeard, ZenonT(40)
<1>4. GroupOK(raft') /\ Grown(raft, raft') /\ LeasesKept(raft, raft')
  BY <1>2, <1>3, HeardKeeps, ZenonT(40)
<1>5. CallsOK(raft', call) /\ MembersOK(raft', member)
  BY <1>2, <1>4, AllKept, ZenonT(40) DEF FenceInv
<1>6. DOMAIN call[c] = DOMAIN NoCall /\ DOMAIN call[c].read = {"term", "left", "readIndex", "acks"}
  BY <1>2, ZenonT(40) DEF CallOK, ReadOK, NoRound
<1>7. /\ DOMAIN call' = Caller
      /\ \A d \in Caller : d # c => call'[d] = call[d]
      /\ call'[c] = [call[c] EXCEPT !.read.acks = @ \cup {m}]
  BY <1>1, <1>2, ZenonT(40)
<1>8. /\ DOMAIN call'[c] = DOMAIN NoCall /\ call'[c].at = call[c].at
      /\ call'[c].node = call[c].node
      /\ call'[c].read = [call[c].read EXCEPT !.acks = @ \cup {m}]
  BY <1>6, <1>7, CallFields, ZenonT(40)
<1>9. /\ DOMAIN call'[c].read = DOMAIN call[c].read
      /\ call'[c].read.term = call[c].read.term
      /\ call'[c].read.left = call[c].read.left
      /\ call'[c].read.acks = call[c].read.acks \cup {m}
  BY <1>6, <1>8, ZenonT(40)
<1>10. CallOK(call'[c])
  BY <1>2, <1>8, <1>9, ZenonT(40) DEF CallOK, ReadOK
<1>11. RoundOK(raft', call'[c])
  <2>1. /\ call[c].read.left \in 0 .. FenceDuration /\ call[c].read.acks \in SUBSET Nodes
        /\ LeaseIn(raft, Node(c), raft[Node(c)].term, call[c].read.left, call[c].read.acks)
    BY <1>1, <1>2, ZenonT(40) DEF CallOK, ReadOK, RoundOK, Node
  <2>2. LeaseIn(raft', Node(c), raft[Node(c)].term, call[c].read.left,
                call[c].read.acks \cup {m})
    BY <1>2, <1>3, <2>1, HeardJoins, ZenonT(40)
  <2>3. raft[Node(c)].term \in Nat /\ raft'[Node(c)].term = raft[Node(c)].term
    BY <1>2, <1>3, ZenonT(40) DEF Heard, GroupOK, Peer
  <2>4. raft[Node(c)].term <= raft'[Node(c)].term
    BY <2>3, SMTT(40)
  <2>5. call'[c].node = Node(c) /\ call'[c].read.term = raft[Node(c)].term
    BY <1>1, <1>8, <1>9, ZenonT(40) DEF Node
  <2>6. QED BY <1>9, <2>2, <2>4, <2>5, ZenonT(40) DEF RoundOK
<1>12. CallsOK(raft', call')
  BY <1>5, <1>7, <1>10, <1>11, ZenonT(40) DEF CallsOK
<1>13. QED BY <1>1, <1>4, <1>5, <1>12, ZenonT(40) DEF FenceInv

-----------------------------------------------------------------------------
LEMMA FenceInit == Init => FenceInv
<1> SUFFICES ASSUME Init PROVE FenceInv
  BY ZenonT(40)
<1>1. /\ raft = [n \in Nodes |-> [term |-> 0, leading |-> FALSE, contact |-> 0, due |-> FALSE]]
      /\ member = [n \in Nodes |-> NewMember] /\ call = [c \in Caller |-> NoCall]
  BY ZenonT(40) DEF Init, NoTerm
<1>2. GroupOK(raft)
  <2>1. raft \in [Nodes -> Peer]
    BY <1>1, TsoAssumption, SMTT(40) DEF Peer
  <2>2. \A n \in Nodes : raft[n].term = 0 /\ ~raft[n].leading
    BY <1>1, ZenonT(40)
  <2>3. QED BY <2>1, <2>2, TsoAssumption, SMTT(40) DEF GroupOK
<1>3. CallsOK(raft, call)
  BY <1>1, NoCallOK, ZenonT(40) DEF CallsOK
<1>4. MembersOK(raft, member)
  <2>1. NewMember.fenceTerm = 0 /\ NewMember.fenceLeft = 0
    BY ZenonT(40) DEF NewMember, NoTerm
  <2>2. MemberOK(NewMember)
    BY <2>1, TsoAssumption, SMTT(40) DEF MemberOK
  <2>3. \A n \in Nodes : FenceOK(raft, n, NewMember)
    <3>1. \A n \in Nodes : LeaseIn(raft, n, NewMember.fenceTerm, NewMember.fenceLeft, Nodes)
      BY <2>1, SMTT(40) DEF LeaseIn
    <3>2. \A n \in Nodes : raft[n].term = 0
      BY <1>1, ZenonT(40)
    <3>3. QED BY <2>1, <3>1, <3>2, AllAreQuorum, SMTT(40) DEF FenceOK
  <2>4. QED BY <1>1, <2>2, <2>3, ZenonT(40) DEF MembersOK
<1>5. QED BY <1>2, <1>3, <1>4, ZenonT(40) DEF FenceInv

LEMMA FenceStep == FenceInv /\ [Next]_vars => FenceInv'
<1> SUFFICES ASSUME FenceInv, [Next]_vars PROVE FenceInv'
  BY ZenonT(40)
<1>1. ASSUME raft' = raft, StepOK PROVE FenceInv'
  BY <1>1, ZenonT(40) DEF StepOK, FenceInv
<1>2. ASSUME NEW c \in Caller, Serve(c) PROVE FenceInv'
  <2>1. raft' = raft
    BY <1>2, ZenonT(40) DEF Serve, groupVars
  <2>2. QED BY <1>1, <1>2, <2>1, ServeOK, ZenonT(40)
<1>3. ASSUME NEW c \in Caller, Propose(c) PROVE FenceInv'
  BY <1>1, <1>3, ProposeOK, ZenonT(40)
<1>4. CASE Commit \/ UNCHANGED vars
  <2>1. raft' = raft /\ member' = member /\ call' = call
    BY <1>4, ZenonT(40) DEF Commit, vars, groupVars
  <2>2. QED BY <2>1, ZenonT(40) DEF FenceInv
<1>5. QED BY <1>2, <1>3, <1>4, TickOK, ExpireOK, ElectOK, HeartbeatOK, InstallSnapshotOK, ApplyOK,
             RestartOK, InvokeOK, AcknowledgeOK, ZenonT(40) DEF Next

LEMMA FenceInvariance == Spec => []FenceInv
BY FenceInit, FenceStep, PTL DEF Spec

\* While the fence of a leader is valid, a member that leads a newer term is one of
\* those that confirmed it (the lease argument in Raft::RequestVote).  Until then
\* none of that quorum votes for another member, and when the last of them answered
\* no newer term had begun without one of them.
THEOREM RivalConfirmed == Spec => []RivalConfirmedFence
<1>1. ASSUME FenceInv PROVE RivalConfirmedFence
  <2>1. SUFFICES ASSUME NEW m \in Nodes, NEW n \in Nodes, ValidFenceTerm(m) # NoTerm,
                        raft[n].leading, raft[n].term > raft[m].term
                 PROVE  raft[n].contact > member[m].fenceLeft
    BY ZenonT(40) DEF RivalConfirmedFence
  <2>2. GroupOK(raft)
    BY <1>1, ZenonT(40) DEF FenceInv
  <2>3. member[m].fenceLeft > 0 /\ raft[m].leading /\ raft[m].term = member[m].fenceTerm
    BY <2>1, ZenonT(40) DEF ValidFenceTerm
  <2>4. PICK A \in SUBSET Nodes :
          IsQuorum(A) /\ LeaseIn(raft, m, member[m].fenceTerm, member[m].fenceLeft, A)
    BY <1>1, ZenonT(40) DEF FenceInv, MembersOK, FenceOK
  <2>5. LeaseIn(raft, m, raft[m].term, member[m].fenceLeft, A)
    BY <2>3, <2>4, ZenonT(40)
  <2>6. QED BY <2>1, <2>2, <2>3, <2>4, <2>5, RivalIsBacker, ZenonT(40)
<1>2. QED BY <1>1, FenceInvariance, PTL

-----------------------------------------------------------------------------
(* Members that are not late.                                              *)

\* Nobody is on the way to an election, and a leader is not one that has just heard
\* of another.
InTime(R) == \A n \in Nodes : ~R[n].due /\ (R[n].leading => R[n].contact = 0)

Punctual ==
    /\ DOMAIN plan = {"calls", "terms", "restarts", "walls", "late", "atOnce"}
    /\ plan.late = {} => InTime(raft)

LEMMA PunctualInit == Init => Punctual
<1> SUFFICES ASSUME Init PROVE Punctual
  BY ZenonT(40)
<1>1. plan \in [calls : Seq(SUBSET Request), terms : Nat, restarts : Nat, walls : SUBSET Nat,
                late : SUBSET Nodes, atOnce : Nat]
  BY TsoAssumption, ZenonT(40) DEF Init
<1>2. \A n \in Nodes : ~raft[n].due /\ ~raft[n].leading
  BY ZenonT(40) DEF Init
<1>3. QED BY <1>1, <1>2, ZenonT(40) DEF Punctual, InTime

\* The members that may be late stay the same.
LEMMA PlanStep ==
    ASSUME Punctual, [Next]_vars
    PROVE  DOMAIN plan' = DOMAIN plan /\ plan'.late = plan.late
<1>1. ASSUME NEW c \in Caller, NEW n \in Nodes, NEW op, NEW arg, Invoke(c, n, op, arg)
      PROVE  DOMAIN plan' = DOMAIN plan /\ plan'.late = plan.late
  BY <1>1, ZenonT(40) DEF Invoke, Punctual
<1>2. ASSUME NEW n \in Nodes, NEW wall, Restart(n, wall)
      PROVE  DOMAIN plan' = DOMAIN plan /\ plan'.late = plan.late
  BY <1>2, ZenonT(40) DEF Restart, Punctual
<1>3. CASE \E n \in Nodes : Expire(n) \/ (\E Q \in Quorums : Elect(n, Q)) \/ Apply(n)
  BY <1>3, ZenonT(40) DEF Expire, Elect, Apply
<1>4. CASE \E l, m \in Nodes : Heartbeat(l, m) \/ InstallSnapshot(l, m)
  BY <1>4, ZenonT(40) DEF Heartbeat, InstallSnapshot, Hear
<1>5. CASE Tick \/ Commit \/ UNCHANGED vars
  BY <1>5, ZenonT(40) DEF Tick, Commit, vars
<1>6. CASE \E c \in Caller, n \in Nodes : Acknowledge(c, n)
  BY <1>6, ZenonT(40) DEF Acknowledge, Hear
<1>7. CASE \E c \in Caller : Serve(c) \/ (Propose(c) /\ UNCHANGED <<plan>>)
  BY <1>7, ZenonT(40) DEF Serve
<1>8. CASE Next
  BY <1>1, <1>2, <1>3, <1>4, <1>5, <1>6, <1>7, <1>8, ZenonT(40) DEF Next
<1>9. QED BY <1>5, <1>8, ZenonT(40)

LEMMA HeardInTime ==
    ASSUME GroupOK(raft), InTime(raft), NEW l \in Nodes, NEW m \in Nodes, Hear(l, m)
    PROVE  InTime(raft')
<1>1. Heard(raft, raft', l, m) /\ raft \in [Nodes -> Peer]
  BY HearHeard, ZenonT(40) DEF GroupOK
<1>2. /\ raft'[m] = [term |-> raft[l].term, leading |-> FALSE, contact |-> MinElectionTimeout,
                     due |-> raft[m].due]
      /\ \A n \in Nodes : n # m => raft'[n] = raft[n]
  BY <1>1, ZenonT(40) DEF Heard, Peer
<1>3. raft'[m].due = raft[m].due /\ ~raft'[m].leading
  BY <1>2, SMTT(40)
<1>4. QED BY <1>2, <1>3, ZenonT(40) DEF InTime

LEMMA ElectInTime ==
    ASSUME GroupOK(raft), InTime(raft), NEW n \in Nodes, NEW Q \in Quorums, Elect(n, Q)
    PROVE  InTime(raft')
<1>1. NewestTerm \in Nat /\ \A v \in Nodes : raft[v].term <= NewestTerm /\ raft[v].term \in Nat
  BY NewestIsNewest, ZenonT(40) DEF GroupOK, Peer
<1>2. NewestTerm + 1 \in Nat /\ \A v \in Nodes : raft[v].term < NewestTerm + 1
  BY <1>1, SMTT(40)
<1>3. Elected(raft, raft', n, Q, NewestTerm + 1)
  BY <1>2, ZenonT(40) DEF Elect, Elected, Electable, Quorums
<1>4. /\ \A v \in Nodes : raft'[v].contact = raft[v].contact
      /\ \A v \in Nodes : v \notin Q => raft'[v] = raft[v]
      /\ \A v \in Q : (raft'[v].leading <=> v = n) /\ (raft'[v].due => raft[v].due)
  BY <1>3, ElectedPeers, SMTT(40)
<1>5. raft[n].contact = 0
  BY ZenonT(40) DEF Elect, Electable, InTime
<1>6. QED BY <1>4, <1>5, ZenonT(40) DEF InTime

LEMMA PunctualStep == FenceInv /\ Punctual /\ [Next]_vars => Punctual'
<1> SUFFICES ASSUME FenceInv, Punctual, [Next]_vars, plan'.late = {}
             PROVE  InTime(raft')
  BY PlanStep, ZenonT(40) DEF Punctual
<1>1. GroupOK(raft) /\ InTime(raft) /\ plan.late = {}
  BY PlanStep, ZenonT(40) DEF FenceInv, Punctual
<1>2. ASSUME NEW n \in Nodes, NEW wall, Restart(n, wall)
      PROVE  InTime(raft')
  <2>1. Restarted(raft, raft', n)
    BY <1>2, ZenonT(40) DEF Restart, Restarted
  <2>2. ~raft'[n].leading /\ ~raft'[n].due /\ \A v \in Nodes : v # n => raft'[v] = raft[v]
    BY <1>1, <2>1, RestartedPeers, SMTT(40)
  <2>3. QED BY <1>1, <2>2, ZenonT(40) DEF InTime
<1>3. CASE Tick
  <2>1. Ticked(raft, raft')
    BY <1>3, ZenonT(40) DEF Tick, Ticked
  <2>2. \A v \in Nodes : /\ raft'[v].leading <=> raft[v].leading
                         /\ raft'[v].contact = Less(raft[v].contact)
                         /\ raft'[v].due = raft[v].due
    BY <1>1, <2>1, TickedPeers, SMTT(40)
  <2>3. Less(0) = 0
    BY ZenonT(40) DEF Less
  <2>4. QED BY <1>1, <2>2, <2>3, ZenonT(40) DEF InTime
<1>4. CASE \E l, m \in Nodes : Heartbeat(l, m) \/ InstallSnapshot(l, m)
  BY <1>1, <1>4, HeardInTime, ZenonT(40) DEF Heartbeat, InstallSnapshot
<1>5. CASE \E c \in Caller, n \in Nodes : Acknowledge(c, n)
  <2>1. PICK c \in Caller, n \in Nodes : Hear(Node(c), n) /\ call[c].at = "round"
    BY <1>5, ZenonT(40) DEF Acknowledge
  <2>2. Node(c) \in Nodes
    BY <2>1, ZenonT(40) DEF FenceInv, CallsOK, CallOK, Node
  <2>3. QED BY <1>1, <2>1, <2>2, HeardInTime, ZenonT(40)
<1>6. CASE \E n \in Nodes : Expire(n) \/ \E Q \in Quorums : Elect(n, Q)
  BY <1>1, <1>6, ElectInTime, ZenonT(40) DEF Expire
<1>7. ASSUME raft' = raft PROVE InTime(raft')
  BY <1>1, <1>7, ZenonT(40)
<1>8. ASSUME NEW c \in Caller, NEW n \in Nodes, NEW op, NEW arg,
             Invoke(c, n, op, arg)
      PROVE  InTime(raft')
  <2>1. raft' = raft
    BY <1>8, ZenonT(40) DEF Invoke, groupVars
  <2>2. QED BY <1>7, <2>1, ZenonT(40)
<1>9. CASE Commit \/ (\E n \in Nodes : Apply(n)) \/ UNCHANGED vars
           \/ \E c \in Caller : Serve(c) \/ Propose(c)
  <2>1. raft' = raft
    BY <1>9, ZenonT(40) DEF Commit, Apply, Serve, Propose, vars, groupVars
  <2>2. QED BY <1>7, <2>1, ZenonT(40)
<1>10. QED BY <1>2, <1>3, <1>4, <1>5, <1>6, <1>8, <1>9, ZenonT(40) DEF Next

\* When no member is late with its election, two members never have a valid fence at
\* once: the leader of the newer term would remember a contact with the other one.
THEOREM OneFenceInTime == Spec => [](plan.late = {} => AtMostOneFence)
<1>1. ASSUME FenceInv, Punctual, RivalConfirmedFence, plan.late = {}
      PROVE  AtMostOneFence
  <2>1. SUFFICES ASSUME NEW m \in Nodes, NEW n \in Nodes,
                        ValidFenceTerm(m) # NoTerm, ValidFenceTerm(n) # NoTerm
                 PROVE  m = n
    BY ZenonT(40) DEF AtMostOneFence
  <2>2. GroupOK(raft) /\ InTime(raft)
    BY <1>1, ZenonT(40) DEF FenceInv, Punctual
  <2>3. \A x \in Nodes : raft[x].term \in Nat /\ member[x].fenceLeft \in 0 .. FenceDuration
    BY <1>1, <2>2, ZenonT(40) DEF FenceInv, MembersOK, MemberOK, GroupOK, Peer
  <2>4. \A x \in Nodes : ValidFenceTerm(x) # NoTerm => member[x].fenceLeft > 0 /\ raft[x].leading
    BY ZenonT(40) DEF ValidFenceTerm
  <2>5. ASSUME NEW x \in Nodes, NEW y \in Nodes,
               ValidFenceTerm(x) # NoTerm, ValidFenceTerm(y) # NoTerm
        PROVE  ~(raft[y].term > raft[x].term)
    <3>1. SUFFICES ASSUME raft[y].term > raft[x].term PROVE FALSE
      BY ZenonT(40)
    <3>2. raft[y].contact > member[x].fenceLeft
      BY <1>1, <2>4, <2>5, <3>1, ZenonT(40) DEF RivalConfirmedFence
    <3>3. raft[y].contact = 0 /\ member[x].fenceLeft > 0
      BY <2>2, <2>4, <2>5, ZenonT(40) DEF InTime
    <3>4. QED BY <2>3, <3>2, <3>3, SMTT(40)
  <2>6. raft[m].term = raft[n].term
    <3>1. ~(raft[n].term > raft[m].term) /\ ~(raft[m].term > raft[n].term)
      BY <2>1, <2>5, ZenonT(40)
    <3>2. QED BY <2>3, <3>1, SMTT(40)
  <2>7. QED BY <2>1, <2>2, <2>4, <2>6, ZenonT(40) DEF GroupOK
<1>2. QED BY <1>1, FenceInvariance, PunctualInit, PunctualStep, RivalConfirmed, PTL DEF Spec
=============================================================================
