----------------------------- MODULE LeaseProofs -----------------------------
(***************************************************************************)
(* Proofs about the lease loops, for every set of instances and acceptors, *)
(* every TTL and every bound: how long a superseded leader goes on leading.*)
(***************************************************************************)
EXTENDS Lease, Sequences, FiniteSetTheorems, WellFoundedInduction, TLAPS

\* Max of FiniteSetsExt is a greatest element of every finite set that is not
\* empty: Quorum::open and reelect campaign above the greatest term they were told.
LEMMA MaxOfFinite ==
  ASSUME NEW S \in SUBSET Int, IsFiniteSet(S), S # {}
  PROVE  Max(S) \in S /\ \A x \in S : x <= Max(S)
<1>1. PICK seq \in Seq(S) : \A s \in S : \E n \in 1 .. Len(seq) : seq[n] = s
  BY DEF IsFiniteSet
<1> DEFINE Good == {n \in 0 .. Len(seq) : \E x \in S : \A i \in 1 .. n : seq[i] <= x}
           Bad == (0 .. Len(seq)) \ Good
<1>2. Len(seq) \in Nat /\ \A i \in 1 .. Len(seq) : seq[i] \in S
  OBVIOUS
<1>3. Bad = {}
  <2>1. SUFFICES ASSUME Bad # {} PROVE FALSE
    OBVIOUS
  <2>2. Bad \subseteq Nat
    BY <1>2
  <2>3. PICK m \in Bad : \A k \in Bad : ~ (<<k, m>> \in OpToRel(<, Nat))
    <3> HIDE DEF Bad
    <3> QED BY <2>1, <2>2, NatLessThanWellFounded, WFMin, Zenon
  <2>4. \A k \in Bad : ~ (k < m)
    BY <2>2, <2>3, Zenon DEF OpToRel
  <2>m. m \in 0 .. Len(seq) /\ m \notin Good
    OBVIOUS
  <2>5. m # 0
    <3>1. PICK x \in S : TRUE
      OBVIOUS
    <3>2. \A i \in 1 .. 0 : seq[i] <= x
      OBVIOUS
    <3>3. 0 \in Good
      BY <3>2, <1>2
    <3> QED BY <2>m, <3>3
  <2>6. m - 1 \in Good
    <3>1. m - 1 \in 0 .. Len(seq) /\ m - 1 < m
      BY <1>2, <2>m, <2>5
    <3>2. m - 1 \notin Bad
      BY <2>4, <3>1, Zenon
    <3> QED BY <3>1, <3>2
  <2>7. PICK x \in S : \A i \in 1 .. m - 1 : seq[i] <= x
    BY <2>6
  <2>8. seq[m] \in S /\ m \in 1 .. Len(seq)
    BY <1>2, <2>5
  <2>9. \E y \in S : \A i \in 1 .. m : seq[i] <= y
    <3>1. CASE seq[m] <= x
      BY <2>7, <2>8, <3>1
    <3>2. CASE ~ (seq[m] <= x)
      <4>1. \A i \in 1 .. m : seq[i] <= seq[m]
        <5> SUFFICES ASSUME NEW i \in 1 .. m PROVE seq[i] <= seq[m]
          OBVIOUS
        <5>1. i = m \/ i \in 1 .. m - 1
          BY <2>8
        <5>2. seq[i] \in Int /\ seq[m] \in Int /\ x \in Int
          <6>1. i \in 1 .. Len(seq)
            BY <1>2, <2>8
          <6>2. seq[i] \in S /\ seq[m] \in S
            BY <1>2, <2>8, <6>1
          <6> HIDE DEF Bad
          <6> QED BY <6>2, Zenon
        <5> QED BY <2>7, <3>2, <5>1, <5>2
      <4> QED BY <4>1, <2>8, Zenon
    <3> QED BY <3>1, <3>2
  <2> QED BY <2>m, <2>9
<1>4. PICK x \in S : \A i \in 1 .. Len(seq) : seq[i] <= x
  BY <1>2, <1>3
<1>5. \A y \in S : x >= y
  BY <1>1, <1>2, <1>4
<1>6. \E z \in S : \A y \in S : z >= y
  BY <1>5
<1>7. Max(S) \in S /\ \A y \in S : Max(S) >= y
  BY <1>6, Zenon DEF Max
<1> QED BY <1>7

-----------------------------------------------------------------------------
(* The inductive invariant.                                                *)

Majorities == Quorums(LeaseAcceptors)

IsLoop(r) ==
  /\ {"pc", "left", "term", "lsn", "stalled", "seen", "landed", "begun",
      "history"} \subseteq DOMAIN r
  /\ r.left \in Nat /\ r.term \in Nat /\ r.lsn \in Nat /\ r.stalled \in BOOLEAN
  /\ r.landed \subseteq LeaseAcceptors /\ r.history \subseteq Nat
IsAcceptor(r) ==
  /\ {"term", "log", "flush", "up"} \subseteq DOMAIN r
  /\ r.term \in Nat /\ r.log \in Nat /\ r.flush \in Nat

\* What the argument needs of the shape of the state.
Shapes ==
  /\ bound \in Bounds
  /\ DOMAIN acc = LeaseAcceptors /\ \A a \in LeaseAcceptors : IsAcceptor(acc[a])
  /\ DOMAIN inst = Instances /\ \A i \in Instances : IsLoop(inst[i])
  /\ leader \in [Instances -> BOOLEAN]
  /\ over \in [Instances -> Nat]

\* The loop holds a term that it was elected to.
Holds(i) == inst[i].pc \in {"record", "lead", "renew"}

\* A majority's last record is of a later term.
Superseded(i) == \E W \in Majorities : \A a \in W : acc[a].log > inst[i].term

\* A majority that has not taken the record in flight will refuse it.
Blocked(i) ==
  \E Q \in Majorities : \A a \in Q : acc[a].term > inst[i].term /\ a \notin inst[i].landed

\* A record is never of a later term than its acceptor's.
LogsOrdered == \A a \in LeaseAcceptors : acc[a].log <= acc[a].term

\* A term that is held is known to a majority, has one holder, ends the holder's
\* history, and marks what of it landed.
TermsHeld ==
  \A i \in Instances : Holds(i) =>
    /\ \E Q \in Majorities : \A a \in Q : inst[i].term <= acc[a].term
    /\ \A j \in Instances : Holds(j) /\ j # i => inst[j].term # inst[i].term
    /\ \A t \in inst[i].history : t <= inst[i].term
    /\ \A a \in inst[i].landed : inst[i].term <= acc[a].log

\* Only a loop that holds the lease leads, and its clocks are within their timeouts.
LoopsTimed ==
  \A i \in Instances :
    /\ leader[i] <=> inst[i].pc \in {"lead", "renew"}
    /\ inst[i].pc = "lead" =>
         inst[i].left <= renew_interval /\ inst[i].landed = {} /\ ~inst[i].stalled
    /\ inst[i].pc \in {"record", "renew"} => inst[i].left <= append_timeout

\* Of two leaders the earlier one is superseded; and so is a first record under way
\* when there is a later leader, or it will never be acked.
EarlierSuperseded ==
  \A i, j \in Instances :
    leader[j] /\ inst[i].term < inst[j].term =>
      /\ leader[i] => Superseded(i)
      /\ inst[i].pc = "record" => Superseded(i) \/ Blocked(i)

LeaseInv == Shapes /\ LogsOrdered /\ TermsHeld /\ LoopsTimed /\ EarlierSuperseded

\* The ticks a superseded leader may go on: to the end of this append and of the
\* renewal after it, unless this one cannot be acked.
AppendLeft(i) == inst[i].left + IF inst[i].stalled THEN 0 ELSE append_timeout
TicksLeft(i) ==
  IF inst[i].pc = "lead" THEN inst[i].left + 2 * append_timeout
  ELSE IF Blocked(i) THEN AppendLeft(i)
  ELSE AppendLeft(i) + renew_interval + 2 * append_timeout

OverlapLimit == renew_interval + 4 * append_timeout

OverlapInv ==
  \A i \in Instances : over[i] > 0 =>
    leader[i] /\ Superseded(i) /\ over[i] + TicksLeft(i) <= OverlapLimit

-----------------------------------------------------------------------------
(* Majorities and terms.                                                   *)

\* The lease's intervals are numbers of ticks.
LEMMA Intervals ==
  ASSUME bound \in Bounds
  PROVE  TTL \in Nat /\ renew_interval \in Nat /\ renew_interval >= 1 /\ append_timeout = TTL
<1>1. bound.ttl \in Nat /\ bound.ttl \div 3 \in Nat
  BY LeaseAssumption
<1>2. \E x \in {1, bound.ttl \div 3} : \A y \in {1, bound.ttl \div 3} : x >= y
  <2>1. CASE bound.ttl \div 3 >= 1
    BY <1>1, <2>1
  <2>2. CASE ~(bound.ttl \div 3 >= 1)
    BY <1>1, <2>2
  <2> QED BY <2>1, <2>2
<1>3. Max({1, bound.ttl \div 3}) \in {1, bound.ttl \div 3}
        /\ \A y \in {1, bound.ttl \div 3} : Max({1, bound.ttl \div 3}) >= y
  BY <1>2 DEF Max
<1> QED BY <1>1, <1>3 DEF TTL, renew_interval, append_timeout

\* Majorities are finite, not empty, and two of them share an acceptor.
LEMMA MajoritiesMeet ==
  ASSUME NEW Q \in Majorities, NEW W \in Majorities
  PROVE  IsFiniteSet(Q) /\ Q \subseteq LeaseAcceptors /\ \E a \in Q : a \in W
<1>1. Q \subseteq LeaseAcceptors /\ W \subseteq LeaseAcceptors
        /\ Cardinality(Q) >= QUORUM /\ Cardinality(W) >= QUORUM
  BY DEF Majorities, Quorums
<1>2. IsFiniteSet(Q) /\ IsFiniteSet(W)
  BY <1>1, LeaseAssumption, FS_Subset
<1>3. Cardinality(Q) \in Nat /\ Cardinality(W) \in Nat /\ Cardinality(LeaseAcceptors) \in Nat
  BY <1>2, LeaseAssumption, FS_CardinalityType
<1>4. Cardinality(Q) + Cardinality(W) > Cardinality(LeaseAcceptors)
  BY <1>1, <1>3, LeaseAssumption
<1>5. Q \cap W # {}
  BY <1>1, <1>4, LeaseAssumption, FS_MajoritiesIntersect
<1> QED BY <1>1, <1>2, <1>5

\* The acceptors that are up and make a quorum are a majority of all.
LEMMA UpMajority ==
  ASSUME NEW Q \in Quorums(Up)
  PROVE  Q \in Majorities
BY DEF Quorums, Up, Majorities

\* A term above a majority's is above every holder's.
LEMMA AboveAll ==
  ASSUME LeaseInv, NEW Q \in Majorities, NEW T \in Nat, \A a \in Q : acc[a].term < T
  PROVE  \A i \in Instances : Holds(i) => inst[i].term < T
<1> SUFFICES ASSUME NEW i \in Instances, Holds(i)
             PROVE  inst[i].term < T
  OBVIOUS
<1>1. PICK W \in Majorities : \A a \in W : inst[i].term <= acc[a].term
  BY DEF LeaseInv, TermsHeld
<1>2. PICK c \in Q : c \in W
  BY MajoritiesMeet
<1>3. c \in LeaseAcceptors
  BY MajoritiesMeet
<1>4. acc[c].term \in Nat /\ inst[i].term \in Nat
  BY <1>3 DEF LeaseInv, Shapes, IsAcceptor, IsLoop
<1> QED BY <1>1, <1>2, <1>4

\* The terms that finitely many acceptors report are finitely many.
LEMMA ImageFinite ==
  ASSUME NEW S, IsFiniteSet(S), NEW f, S \subseteq DOMAIN f
  PROVE  IsFiniteSet({f[x] : x \in S})
<1> DEFINE g == [x \in S |-> f[x]]
           T == {f[x] : x \in S}
<1>1. g \in Surjection(S, T)
  BY DEF Surjection
<1> HIDE DEF g, T
<1>2. IsFiniteSet(T)
  BY <1>1, FS_Surjection
<1> QED BY <1>2 DEF T

\* The term of an election is above those of the acceptors it asked.
LEMMA NextTerm ==
  ASSUME Shapes, NEW Q \in SUBSET LeaseAcceptors, NEW t \in Nat
  PROVE  LET S == {acc[a].term : a \in Q}
         IN /\ Q # {} => Max(S) + 1 \in Nat /\ \A a \in Q : acc[a].term < Max(S) + 1
            /\ Max(S \cup {t}) + 1 \in Nat /\ \A a \in Q : acc[a].term < Max(S \cup {t}) + 1
<1> DEFINE S == {acc[a].term : a \in Q}
<1>1. IsFiniteSet(Q)
  BY LeaseAssumption, FS_Subset
<1>2. \A a \in Q : acc[a].term \in Nat
  BY <1>1 DEF Shapes, IsAcceptor
<1>3. S \in SUBSET Int /\ S \subseteq Nat /\ (Q # {} => S # {})
  BY <1>1, <1>2
<1>4. IsFiniteSet(S)
  <2> DEFINE f == [a \in Q |-> acc[a].term]
  <2>1. S = {f[a] : a \in Q}
    OBVIOUS
  <2>2. IsFiniteSet({f[a] : a \in Q})
    <3>1. Q \subseteq DOMAIN f
      OBVIOUS
    <3> HIDE DEF f
    <3> QED BY <1>1, <3>1, ImageFinite
  <2> QED BY <2>1, <2>2, Zenon
<1>5. IsFiniteSet(S \cup {t}) /\ S \cup {t} \in SUBSET Int /\ S \cup {t} # {}
  BY <1>3, <1>4, FS_AddElement
<1>6. \A a \in Q : acc[a].term \in S
  OBVIOUS
<1> HIDE DEF S
<1>7. Q # {} => Max(S) \in S /\ \A x \in S : x <= Max(S)
  BY <1>3, <1>4, MaxOfFinite
<1>8. Max(S \cup {t}) \in S \cup {t} /\ \A x \in S \cup {t} : x <= Max(S \cup {t})
  BY <1>5, MaxOfFinite
<1>9. (Q # {} => Max(S) \in Nat) /\ Max(S \cup {t}) \in Nat
  BY <1>3, <1>7, <1>8, Zenon
<1>10. \A a \in Q : acc[a].term < Max(S) + 1 /\ acc[a].term < Max(S \cup {t}) + 1
  <2> SUFFICES ASSUME NEW a \in Q
               PROVE  acc[a].term < Max(S) + 1 /\ acc[a].term < Max(S \cup {t}) + 1
    OBVIOUS
  <2>1. Q # {} /\ acc[a].term \in S /\ acc[a].term \in S \cup {t} /\ acc[a].term \in Nat
    BY <1>2, <1>6
  <2>2. acc[a].term <= Max(S) /\ acc[a].term <= Max(S \cup {t})
    BY <1>7, <1>8, <2>1
  <2>3. Max(S) \in Nat /\ Max(S \cup {t}) \in Nat
    BY <1>9, <2>1
  <2> QED BY <2>1, <2>2, <2>3
<1> QED BY <1>9, <1>10 DEF S

\* The donor of an election has the last record of its quorum.
LEMMA DonorLast ==
  ASSUME Shapes, NEW Q \in Majorities
  PROVE  Donor(Q) \in Q /\ \A a \in Q : acc[a].log <= acc[Donor(Q)].log
<1>1. IsFiniteSet(Q) /\ Q \subseteq LeaseAcceptors /\ Q # {}
  BY MajoritiesMeet
<1>2. \A a \in Q : acc[a].log \in Nat /\ acc[a].flush \in Nat
  BY <1>1 DEF Shapes, IsAcceptor
<1> DEFINE L == {acc[a].log : a \in Q}
<1>0. IsFiniteSet(L)
  <2> DEFINE f == [a \in Q |-> acc[a].log]
  <2>1. L = {f[a] : a \in Q}
    OBVIOUS
  <2>2. IsFiniteSet({f[a] : a \in Q})
    <3>1. Q \subseteq DOMAIN f
      OBVIOUS
    <3> HIDE DEF f
    <3> QED BY <1>1, <3>1, ImageFinite
  <2> QED BY <2>1, <2>2, Zenon
<1>3. L \in SUBSET Int /\ L # {} /\ IsFiniteSet(L)
  BY <1>0, <1>1, <1>2
<1>4. Max(L) \in L /\ \A x \in L : x <= Max(L)
  <2> HIDE DEF L
  <2> QED BY <1>3, MaxOfFinite
<1> DEFINE T == {a \in Q : acc[a].log = Max(L)}
           F == {acc[a].flush : a \in T}
<1>5. T # {} /\ T \subseteq Q
  BY <1>4
<1>6. IsFiniteSet(T)
  BY <1>1, <1>5, FS_Subset, Zenon
<1>7. F \in SUBSET Int /\ F # {}
  <2> HIDE DEF T
  <2> QED BY <1>2, <1>5
<1>8. IsFiniteSet(F)
  <2> DEFINE f == [a \in Q |-> acc[a].flush]
  <2> HIDE DEF T
  <2>1. F = {f[a] : a \in T}
    BY <1>5, Zenon
  <2>2. IsFiniteSet({f[a] : a \in T})
    <3>1. T \subseteq DOMAIN f
      BY <1>5
    <3> HIDE DEF f
    <3> QED BY <1>6, <3>1, ImageFinite
  <2> QED BY <2>1, <2>2, Zenon
<1>9. Max(F) \in F /\ \A x \in F : x <= Max(F)
  <2> HIDE DEF F
  <2> QED BY <1>7, <1>8, MaxOfFinite
<1>10. PICK d \in T : acc[d].flush = Max(F)
  BY <1>9, Zenon
<1>11. \A a \in Q : ~Ahead(acc[a], acc[d])
  <2> SUFFICES ASSUME NEW a \in Q, Ahead(acc[a], acc[d]) PROVE FALSE
    OBVIOUS
  <2>1. acc[a].log \in L /\ acc[d].log = Max(L) /\ d \in Q
    OBVIOUS
  <2>2. acc[a].log <= acc[d].log
    BY <1>4, <2>1
  <2>3. acc[a].log = acc[d].log /\ acc[a].flush > acc[d].flush
    BY <1>2, <2>1, <2>2 DEF Ahead
  <2>4. acc[a].flush \in F
    BY <2>1, <2>3, Zenon
  <2>5. acc[a].flush <= acc[d].flush
    BY <1>9, <1>10, <2>4, Zenon
  <2> QED BY <1>2, <2>1, <2>3, <2>5
<1>12. \E x \in Q : \A a \in Q : ~Ahead(acc[a], acc[x])
  BY <1>11
<1>13. Donor(Q) \in Q /\ \A a \in Q : ~Ahead(acc[a], acc[Donor(Q)])
  <2> HIDE DEF L, T, F
  <2> QED BY <1>12, Zenon DEF Donor
<1> HIDE DEF L, T, F
<1> QED BY <1>2, <1>13 DEF Ahead
-----------------------------------------------------------------------------
(* Every step preserves LeaseInv.                                          *)

\* Terms and records only advance, so a fence stays where it is.
LEMMA FencesKept ==
  ASSUME Shapes, Shapes', NEW i \in Instances, inst'[i].term = inst[i].term,
         \A a \in LeaseAcceptors : acc[a].term <= acc'[a].term /\ acc[a].log <= acc'[a].log,
         \A a \in inst'[i].landed : a \in inst[i].landed \/ acc[a].term <= inst[i].term
  PROVE  (Superseded(i) => Superseded(i)') /\ (Blocked(i) => Blocked(i)')
<1>1. \A W \in Majorities : W \subseteq LeaseAcceptors
  BY DEF Majorities, Quorums
<1>2. \A a \in LeaseAcceptors : /\ acc[a].term \in Nat /\ acc[a].log \in Nat
                               /\ acc'[a].term \in Nat /\ acc'[a].log \in Nat
  BY DEF Shapes, IsAcceptor
<1>3. inst[i].term \in Nat
  BY DEF Shapes, IsLoop
<1>4. ASSUME Superseded(i) PROVE Superseded(i)'
  <2>1. PICK W \in Majorities : \A a \in W : acc[a].log > inst[i].term
    BY <1>4 DEF Superseded
  <2>2. \A a \in W : acc'[a].log > inst'[i].term
    BY <1>1, <1>2, <1>3, <2>1
  <2> QED BY <2>2 DEF Superseded
<1>5. ASSUME Blocked(i) PROVE Blocked(i)'
  <2>1. PICK Q \in Majorities :
          \A a \in Q : acc[a].term > inst[i].term /\ a \notin inst[i].landed
    BY <1>5 DEF Blocked
  <2>2. \A a \in Q : acc'[a].term > inst'[i].term /\ a \notin inst'[i].landed
    BY <1>1, <1>2, <1>3, <2>1
  <2> QED BY <2>2 DEF Blocked
<1> QED BY <1>4, <1>5

\* A step that writes no record, elects nobody and makes no leader.
Calm ==
  /\ \A a \in LeaseAcceptors : acc[a].term <= acc'[a].term /\ acc'[a].log = acc[a].log
  /\ \A i \in Instances : Holds(i)' =>
       /\ Holds(i) /\ (inst'[i].pc = "record" => inst[i].pc = "record")
       /\ inst'[i].term = inst[i].term /\ inst'[i].landed \subseteq inst[i].landed
       /\ inst'[i].history = inst[i].history
  /\ \A i \in Instances : leader'[i] => leader[i]

\* A step that grants at most votes, and lets no loop acquire a term, keeps the invariant
\* and every fence.
LEMMA CalmKeeps ==
  ASSUME LeaseInv, Shapes', LoopsTimed', Calm
  PROVE  LeaseInv' /\ \A i \in Instances : Holds(i)' =>
           (Superseded(i) => Superseded(i)') /\ (Blocked(i) => Blocked(i)')
<1>1. \A a \in LeaseAcceptors : acc[a].term \in Nat /\ acc[a].log \in Nat
  BY DEF LeaseInv, Shapes, IsAcceptor
<1>2. \A i \in Instances : Holds(i)' =>
        (Superseded(i) => Superseded(i)') /\ (Blocked(i) => Blocked(i)')
  <2> SUFFICES ASSUME NEW i \in Instances, Holds(i)'
               PROVE  (Superseded(i) => Superseded(i)') /\ (Blocked(i) => Blocked(i)')
    OBVIOUS
  <2>1. inst'[i].term = inst[i].term /\ inst'[i].landed \subseteq inst[i].landed
    BY DEF Calm
  <2>2. \A a \in LeaseAcceptors : acc[a].term <= acc'[a].term /\ acc[a].log <= acc'[a].log
    BY <1>1 DEF Calm
  <2>3. Shapes
    BY DEF LeaseInv
  <2> QED BY <2>1, <2>2, <2>3, FencesKept
<1>p. \A a \in LeaseAcceptors : acc'[a].term \in Nat /\ acc'[a].log \in Nat
  BY DEF Shapes, IsAcceptor
<1>3. LogsOrdered'
  BY <1>1, <1>p DEF LeaseInv, LogsOrdered, Calm
<1>4. TermsHeld'
  <2> SUFFICES ASSUME NEW i \in Instances, Holds(i)'
               PROVE  /\ \E Q \in Majorities : \A a \in Q : inst'[i].term <= acc'[a].term
                      /\ \A j \in Instances : Holds(j)' /\ j # i => inst'[j].term # inst'[i].term
                      /\ \A t \in inst'[i].history : t <= inst'[i].term
                      /\ \A a \in inst'[i].landed : inst'[i].term <= acc'[a].log
    BY DEF TermsHeld
  <2>1. inst'[i].landed \subseteq LeaseAcceptors /\ inst[i].term \in Nat
    BY DEF LeaseInv, Shapes, IsLoop
  <2>2. PICK Q \in Majorities : \A a \in Q : inst[i].term <= acc[a].term
    BY DEF LeaseInv, TermsHeld, Calm
  <2>3. Q \subseteq LeaseAcceptors
    BY DEF Majorities, Quorums
  <2>4. \A a \in Q : inst'[i].term <= acc'[a].term
    BY <1>1, <1>p, <2>1, <2>2, <2>3 DEF Calm
  <2> QED BY <2>1, <2>4 DEF LeaseInv, TermsHeld, Calm
<1>5. EarlierSuperseded'
  <2> SUFFICES ASSUME NEW i \in Instances, NEW j \in Instances, leader'[j],
                      inst'[i].term < inst'[j].term
               PROVE  /\ leader'[i] => Superseded(i)'
                      /\ inst'[i].pc = "record" => Superseded(i)' \/ Blocked(i)'
    BY DEF EarlierSuperseded
  <2>1. \A k \in Instances : leader'[k] => Holds(k)'
    BY DEF LoopsTimed, Holds
  <2>2. leader[j] /\ inst'[j].term = inst[j].term
    BY <2>1 DEF Calm
  <2>3. ASSUME Holds(i)'
        PROVE  inst[i].term < inst[j].term
    BY <2>2, <2>3 DEF Calm
  <2>4. ASSUME leader'[i] PROVE Superseded(i)'
    BY <1>2, <2>1, <2>2, <2>3, <2>4 DEF LeaseInv, EarlierSuperseded, Calm
  <2>5. ASSUME inst'[i].pc = "record" PROVE Superseded(i)' \/ Blocked(i)'
    <3>1. Holds(i)'
      BY <2>5 DEF Holds
    <3> QED BY <1>2, <2>2, <2>3, <2>5, <3>1 DEF LeaseInv, EarlierSuperseded, Calm
  <2> QED BY <2>4, <2>5
<1> QED BY <1>2, <1>3, <1>4, <1>5 DEF LeaseInv
\* The fresh loop.
LEMMA FreshLoop ==
  ASSUME NEW w \in Nat
  PROVE  /\ IsLoop([LeaseLoop EXCEPT !.left = w]) /\ [LeaseLoop EXCEPT !.left = w].pc = "standby"
         /\ IsLoop([LeaseLoop EXCEPT !.pc = "dead"]) /\ [LeaseLoop EXCEPT !.pc = "dead"].pc = "dead"
BY DEF LeaseLoop, IsLoop

\* A campaign raises terms at most.
Votes ==
  /\ DOMAIN acc' = LeaseAcceptors /\ \A a \in LeaseAcceptors : IsAcceptor(acc'[a])
  /\ \A a \in LeaseAcceptors : acc[a].term <= acc'[a].term /\ acc'[a].log = acc[a].log

\* A step that leaves the acceptors alone grants no vote.
LEMMA NoVotes ==
  ASSUME Shapes, UNCHANGED acc
  PROVE  Votes
BY DEF Votes, Shapes, IsAcceptor

\* A campaign that comes to nothing only raises terms (Quorum::open, reelect).
LEMMA CampaignedVotes ==
  ASSUME LeaseInv, NEW i \in Instances, NEW S \in SUBSET LeaseAcceptors, Campaigned(i, S)
  PROVE  Votes
<1> DEFINE T == Max({acc[a].term : a \in S} \cup {inst[i].term}) + 1
<1>1. acc' = [a \in LeaseAcceptors |-> IF a \in S THEN [acc[a] EXCEPT !.term = T] ELSE acc[a]]
  BY DEF Campaigned
<1>2. IsFiniteSet(S) /\ inst[i].term \in Nat /\ Shapes
  BY LeaseAssumption, FS_Subset DEF LeaseInv, Shapes, IsLoop
<1>3. T \in Nat /\ \A a \in S : acc[a].term < T
  BY <1>2, NextTerm, Zenon
<1> HIDE DEF T
<1>4. \A a \in LeaseAcceptors : IsAcceptor(acc[a])
  BY <1>2 DEF Shapes
<1>5. \A a \in LeaseAcceptors :
        IsAcceptor(acc'[a]) /\ acc[a].term <= acc'[a].term /\ acc'[a].log = acc[a].log
  BY <1>1, <1>3, <1>4 DEF IsAcceptor
<1> QED BY <1>1, <1>5, Zenon DEF Votes

\* Poll, a takeover that fails, a demotion and an end leave a loop that holds nothing.
LEMMA LetsGo ==
  ASSUME LeaseInv, NEW i \in Instances, NEW r, IsLoop(r), r.pc \in {"standby", "elect", "dead"},
         inst' = [inst EXCEPT ![i] = r], leader' \in [Instances -> BOOLEAN],
         over' \in [Instances -> Nat],
         ~leader'[i], \A j \in Instances : j # i => leader'[j] = leader[j],
         Votes, UNCHANGED bound
  PROVE  LeaseInv' /\ Calm
<1>1. Shapes'
  BY Zenon DEF LeaseInv, Shapes, Votes
<1>2. LoopsTimed'
  BY Zenon DEF LeaseInv, Shapes, LoopsTimed, renew_interval, append_timeout, TTL
<1>3. Calm
  BY DEF LeaseInv, Shapes, Calm, Holds, Votes
<1> QED BY <1>1, <1>2, <1>3, CalmKeeps

\* A poll of the acceptors is read-only (poll_acceptors).
LEMMA PollKeeps ==
  ASSUME LeaseInv, NEW i \in Instances, NEW R, Poll(i, R), UNCHANGED bound
  PROVE  LeaseInv' /\ Calm
<1>1. renew_interval \in Nat
  BY Intervals DEF LeaseInv, Shapes
<1> DEFINE lapsed == Virgin(Polled(i, R)) \/ Expired(Polled(i, R))
           r == [inst[i] EXCEPT !.seen = Polled(i, R), !.pc = IF lapsed THEN "elect" ELSE "standby",
                                !.left = IF lapsed THEN 0 ELSE renew_interval]
<1>2. inst' = [inst EXCEPT ![i] = r]
  BY Zenon DEF Poll, LeaseInv, Shapes
<1>3. IsLoop(inst[i])
  BY DEF LeaseInv, Shapes
<1>4. IsLoop(r) /\ r.pc \in {"standby", "elect", "dead"}
  <2> HIDE DEF lapsed
  <2> QED BY <1>1, <1>3 DEF IsLoop
<1>5. ~leader[i]
  BY DEF Poll, LeaseInv, LoopsTimed
<1> HIDE DEF r
<1>6. Votes
  BY NoVotes DEF Poll, LeaseInv
<1> QED BY <1>2, <1>4, <1>5, <1>6, LetsGo, Zenon DEF Poll, LeaseInv, Shapes

\* A lost takeover leaves a standby behind (lease_loop).
LEMMA TakeoverFailsKeeps ==
  ASSUME LeaseInv, NEW i \in Instances, NEW S \in SUBSET LeaseAcceptors, NEW jitter \in Nat,
         TakeoverFails(i, S, jitter), UNCHANGED bound
  PROVE  LeaseInv' /\ Calm
<1>1. renew_interval + jitter \in Nat
  BY Intervals DEF LeaseInv, Shapes
<1>2. ~leader[i]
  BY DEF TakeoverFails, LeaseInv, LoopsTimed
<1>3. Votes
  BY CampaignedVotes DEF TakeoverFails
<1> QED BY <1>1, <1>2, <1>3, FreshLoop, LetsGo, Zenon DEF TakeoverFails, StandBy, LeaseInv, Shapes

\* A failed renewal demotes (lease_loop).
LEMMA RecordFailsKeeps ==
  ASSUME LeaseInv, NEW i \in Instances, NEW S \in SUBSET LeaseAcceptors, NEW jitter \in Nat,
         RecordFails(i, S, jitter), UNCHANGED bound
  PROVE  LeaseInv' /\ Calm
<1> DEFINE w == jitter + IF inst[i].pc = "renew" THEN TTL ELSE renew_interval
<1>1. w \in Nat
  BY Intervals DEF LeaseInv, Shapes
<1>2. inst' = [inst EXCEPT ![i] = [LeaseLoop EXCEPT !.left = w]]
  BY DEF RecordFails, StandBy
<1> HIDE DEF w
<1>3. /\ leader' \in [Instances -> BOOLEAN] /\ over' \in [Instances -> Nat]
      /\ ~leader'[i] /\ \A j \in Instances : j # i => leader'[j] = leader[j]
  BY DEF RecordFails, LeaseInv, Shapes
<1>4. Votes
  BY CampaignedVotes DEF RecordFails
<1> QED BY <1>1, <1>2, <1>3, <1>4, FreshLoop, LetsGo, Zenon

\* A shutdown gives the lease up by silence (lease_loop).
LEMMA LeaseEndsKeeps ==
  ASSUME LeaseInv, NEW i \in Instances, LeaseEnds(i), UNCHANGED bound
  PROVE  LeaseInv' /\ Calm
<1>1. /\ leader' \in [Instances -> BOOLEAN] /\ over' \in [Instances -> Nat]
      /\ ~leader'[i] /\ \A j \in Instances : j # i => leader'[j] = leader[j]
  BY DEF LeaseEnds, LeaseInv, Shapes
<1>2. 0 \in Nat
  OBVIOUS
<1>3. Votes
  BY NoVotes DEF LeaseEnds, LeaseInv
<1> QED BY <1>1, <1>2, <1>3, FreshLoop, LetsGo, Zenon DEF LeaseEnds

\* A renewal begins with nothing landed (HeldLease::renew).
LEMMA RenewDueKeeps ==
  ASSUME LeaseInv, NEW i \in Instances, RenewDue(i), UNCHANGED bound
  PROVE  LeaseInv' /\ Calm
<1>1. TTL \in Nat /\ append_timeout = TTL
  BY Intervals DEF LeaseInv, Shapes
<1>2. Shapes'
  BY <1>1 DEF LeaseInv, Shapes, IsLoop, RenewDue
<1>3. LoopsTimed'
  <2>1. renew_interval' = renew_interval /\ append_timeout' = append_timeout
    BY DEF renew_interval, append_timeout, TTL
  <2> QED BY <1>1, <2>1 DEF LeaseInv, Shapes, IsLoop, LoopsTimed, RenewDue
<1>4. Calm
  <2>1. Votes
    BY NoVotes DEF LeaseInv, RenewDue
  <2>2. \A j \in Instances :
          /\ leader'[j] = leader[j] /\ (inst'[j].pc = "record" => inst[j].pc = "record")
          /\ (Holds(j)' => Holds(j)) /\ inst'[j].term = inst[j].term
          /\ inst'[j].landed = inst[j].landed /\ inst'[j].history = inst[j].history
    BY DEF LeaseInv, Shapes, IsLoop, Holds, RenewDue
  <2> QED BY <2>1, <2>2 DEF Calm, Votes
<1> QED BY <1>2, <1>3, <1>4, CalmKeeps

\* So does the watermark record that follows a holder record (append_holder_record).
LEMMA WatermarkDueKeeps ==
  ASSUME LeaseInv, NEW i \in Instances, WatermarkDue(i), UNCHANGED bound
  PROVE  /\ LeaseInv' /\ Calm
         /\ inst'[i].pc = inst[i].pc /\ inst[i].pc \in {"record", "renew"}
         /\ inst'[i].left = append_timeout /\ inst'[i].landed = {} /\ ~inst'[i].stalled
<1> DEFINE r == [inst[i] EXCEPT !.marked = TRUE, !.lsn = inst[i].lsn + 1, !.left = append_timeout,
                                !.landed = {}, !.begun = 0, !.stalled = FALSE]
<1>1. TTL \in Nat /\ append_timeout = TTL
  BY Intervals DEF LeaseInv, Shapes
<1>2. inst' = [inst EXCEPT ![i] = r]
  BY Zenon DEF LeaseInv, Shapes, WatermarkDue
<1>3. IsLoop(inst[i])
  BY DEF LeaseInv, Shapes
<1>4. /\ IsLoop(r) /\ r.pc = inst[i].pc /\ r.left = append_timeout /\ r.landed = {}
      /\ ~r.stalled /\ r.term = inst[i].term /\ r.history = inst[i].history
  BY <1>1, <1>3 DEF IsLoop
<1> HIDE DEF r
<1>5. inst'[i] = r /\ \A j \in Instances : j # i => inst'[j] = inst[j]
  BY <1>2 DEF LeaseInv, Shapes
<1>6. leader' = leader /\ acc' = acc /\ over' = over /\ inst[i].pc \in {"record", "renew"}
  BY DEF WatermarkDue, Appending
<1>7. Shapes'
  BY <1>2, <1>4, <1>6 DEF LeaseInv, Shapes
<1>8. LoopsTimed'
  <2>1. renew_interval' = renew_interval /\ append_timeout' = append_timeout
    BY DEF renew_interval, append_timeout, TTL
  <2> QED BY <1>1, <1>4, <1>5, <1>6, <2>1 DEF LeaseInv, LoopsTimed
<1>9. Calm
  <2>1. Votes
    BY <1>6, NoVotes DEF LeaseInv
  <2>2. \A j \in Instances :
          /\ leader'[j] = leader[j] /\ (inst'[j].pc = "record" => inst[j].pc = "record")
          /\ (Holds(j)' => Holds(j)) /\ inst'[j].term = inst[j].term
          /\ inst'[j].landed \subseteq inst[j].landed /\ inst'[j].history = inst[j].history
    BY <1>4, <1>5, <1>6 DEF Holds
  <2> QED BY <2>1, <2>2 DEF Calm, Votes
<1> QED BY <1>4, <1>5, <1>6, <1>7, <1>8, <1>9, CalmKeeps

\* A stalled append starts its second timeout (wait_commit).
LEMMA StallsKeeps ==
  ASSUME LeaseInv, NEW i \in Instances, Stalls(i), UNCHANGED bound
  PROVE  LeaseInv' /\ Calm
<1>1. TTL \in Nat /\ append_timeout = TTL
  BY Intervals DEF LeaseInv, Shapes
<1>2. Shapes'
  BY <1>1, Zenon DEF LeaseInv, Shapes, IsLoop, Stalls
<1>3. LoopsTimed'
  <2>1. renew_interval' = renew_interval /\ append_timeout' = append_timeout
    BY DEF renew_interval, append_timeout, TTL
  <2> QED BY <1>1, <2>1 DEF LeaseInv, Shapes, IsLoop, LoopsTimed, Stalls, Appending
<1>4. Calm
  <2>1. Votes
    BY NoVotes DEF LeaseInv, Stalls
  <2>2. \A j \in Instances :
          /\ leader'[j] = leader[j] /\ (inst'[j].pc = "record" => inst[j].pc = "record")
          /\ (Holds(j)' => Holds(j)) /\ inst'[j].term = inst[j].term
          /\ inst'[j].landed = inst[j].landed /\ inst'[j].history = inst[j].history
    BY DEF LeaseInv, Shapes, IsLoop, Holds, Stalls, Appending
  <2> QED BY <2>1, <2>2 DEF Calm, Votes
<1> QED BY <1>2, <1>3, <1>4, CalmKeeps

\* Acceptors come and go with their terms and records.
LEMMA OutageKeeps ==
  ASSUME LeaseInv, Outage, UNCHANGED bound
  PROVE  LeaseInv' /\ Calm
<1>1. Shapes'
  BY DEF LeaseInv, Shapes, IsAcceptor, Outage
<1>2. LoopsTimed'
  BY DEF LeaseInv, LoopsTimed, Outage, renew_interval, append_timeout, TTL
<1>3. Calm
  BY DEF LeaseInv, Shapes, IsAcceptor, Calm, Holds, Outage
<1> QED BY <1>1, <1>2, <1>3, CalmKeeps

\* What a tick does to a loop.
LEMMA TickLoop ==
  ASSUME LeaseInv, Tick, UNCHANGED bound, NEW i \in Instances
  PROVE  /\ IsLoop(inst'[i]) /\ inst'[i].pc = inst[i].pc /\ inst'[i].term = inst[i].term
         /\ inst'[i].landed = inst[i].landed /\ inst'[i].stalled = inst[i].stalled
         /\ inst'[i].history = inst[i].history
         /\ inst'[i].left = IF inst[i].left = 0 THEN 0 ELSE inst[i].left - 1
<1> DEFINE aged == [a \in LeaseAcceptors |-> Aged(inst[i].seen[a])]
           begun == IF Appending(i) THEN Min({TTL, inst[i].begun + 1}) ELSE 0
           left == IF inst[i].left = 0 THEN 0 ELSE inst[i].left - 1
<1>1. inst'[i] = [inst[i] EXCEPT !.left = left, !.begun = begun, !.seen = aged]
  BY Zenon DEF Tick
<1>2. IsLoop(inst[i])
  BY DEF LeaseInv, Shapes
<1>3. left \in Nat
  BY <1>2 DEF IsLoop
<1> HIDE DEF aged, begun, left
<1>4. /\ IsLoop(inst'[i]) /\ inst'[i].pc = inst[i].pc /\ inst'[i].term = inst[i].term
      /\ inst'[i].landed = inst[i].landed /\ inst'[i].stalled = inst[i].stalled
      /\ inst'[i].history = inst[i].history
      /\ inst'[i].left = left
  BY <1>1, <1>2, <1>3 DEF IsLoop
<1> QED BY <1>4 DEF left

\* Time changes clocks only.
LEMMA TickKeeps ==
  ASSUME LeaseInv, Tick, UNCHANGED bound
  PROVE  LeaseInv' /\ Calm
<1>1. Shapes'
  <2>1. over' \in [Instances -> Nat]
    <3>1. over' = [i \in Instances |-> IF leader[i] /\ Later(i) THEN over[i] + 1 ELSE 0]
      BY Zenon DEF Tick
    <3> QED BY <3>1 DEF LeaseInv, Shapes
  <2>2. DOMAIN inst' = Instances
    BY Zenon DEF Tick
  <2> QED BY <2>1, <2>2, TickLoop, Zenon DEF LeaseInv, Shapes, Tick
<1>2. LoopsTimed'
  <2>1. TTL \in Nat /\ append_timeout = TTL /\ renew_interval \in Nat
    BY Intervals DEF LeaseInv, Shapes
  <2>2. renew_interval' = renew_interval /\ append_timeout' = append_timeout
    BY DEF renew_interval, append_timeout, TTL
  <2>3. \A i \in Instances : inst[i].left \in Nat /\ inst'[i].left <= inst[i].left
    BY TickLoop DEF LeaseInv, Shapes, IsLoop
  <2>4. leader' = leader
    BY Zenon DEF Tick
  <2>5. \A i \in Instances : inst'[i].left \in Nat
    BY <1>1 DEF Shapes, IsLoop
  <2> QED BY <2>1, <2>2, <2>3, <2>4, <2>5, TickLoop DEF LeaseInv, LoopsTimed
<1>3. Calm
  <2>1. Votes
    BY NoVotes, Zenon DEF LeaseInv, Tick
  <2>2. leader' = leader
    BY Zenon DEF Tick
  <2> QED BY <2>1, <2>2, TickLoop DEF Calm, Holds, Votes
<1> QED BY <1>1, <1>2, <1>3, CalmKeeps
\* Every quorum's last record is a superseding one, which is not of the holder's
\* history: it is never re-elected (reelect's divergence check).
LEMMA NoStealBack ==
  ASSUME LeaseInv, NEW i \in Instances, Holds(i), Superseded(i), NEW Q \in Majorities,
         acc[Donor(Q)].log \in inst[i].history
  PROVE  FALSE
<1>1. PICK W \in Majorities : \A a \in W : acc[a].log > inst[i].term
  BY DEF Superseded
<1>2. PICK a \in Q : a \in W
  BY MajoritiesMeet
<1>3. Donor(Q) \in Q /\ acc[a].log <= acc[Donor(Q)].log
  BY DonorLast DEF LeaseInv
<1>4. Q \subseteq LeaseAcceptors
  BY DEF Majorities, Quorums
<1>5. inst[i].term \in Nat /\ acc[a].log \in Nat /\ acc[Donor(Q)].log \in Nat
  BY <1>3, <1>4 DEF LeaseInv, Shapes, IsLoop, IsAcceptor
<1>6. acc[Donor(Q)].log <= inst[i].term
  BY DEF LeaseInv, TermsHeld
<1> QED BY <1>1, <1>2, <1>3, <1>5, <1>6

\* A record on a majority makes its holder leader, and supersedes every earlier one
\* (append_holder_record).
LEMMA RecordAckedKeeps ==
  ASSUME LeaseInv, NEW i \in Instances, RecordAcked(i), UNCHANGED bound
  PROVE  LeaseInv'
<1> DEFINE r == [inst[i] EXCEPT !.pc = "lead", !.left = renew_interval, !.landed = {},
                                !.begun = 0, !.stalled = FALSE, !.marked = FALSE]
<1>1. TTL \in Nat /\ append_timeout = TTL /\ renew_interval \in Nat
  BY Intervals DEF LeaseInv, Shapes
<1>2. inst' = [inst EXCEPT ![i] = r]
  BY Zenon DEF LeaseInv, Shapes, RecordAcked
<1>3. IsLoop(inst[i])
  BY DEF LeaseInv, Shapes
<1>4. /\ IsLoop(r) /\ r.pc = "lead" /\ r.left = renew_interval /\ r.landed = {}
      /\ ~r.stalled /\ r.term = inst[i].term /\ r.history = inst[i].history
  BY <1>1, <1>3 DEF IsLoop
<1> HIDE DEF r
<1>5. inst'[i] = r /\ \A j \in Instances : j # i => inst'[j] = inst[j]
  BY <1>2 DEF LeaseInv, Shapes
<1>6. /\ leader' = [leader EXCEPT ![i] = TRUE] /\ acc' = acc /\ over' = over
      /\ inst[i].pc \in {"record", "renew"} /\ Cardinality(inst[i].landed) >= QUORUM
  BY DEF RecordAcked, Appending
<1>7. Shapes'
  BY <1>2, <1>4, <1>6 DEF LeaseInv, Shapes
<1>8. LogsOrdered'
  BY <1>6 DEF LeaseInv, LogsOrdered
<1>9. \A j \in Instances : /\ inst'[j].term = inst[j].term /\ (Holds(j)' <=> Holds(j))
                           /\ inst'[j].landed \subseteq inst[j].landed
                           /\ inst'[j].history = inst[j].history
  BY <1>4, <1>5, <1>6 DEF Holds
<1>10. TermsHeld'
  BY <1>6, <1>9 DEF LeaseInv, TermsHeld
<1>11. LoopsTimed'
  <2>1. renew_interval' = renew_interval /\ append_timeout' = append_timeout
    BY DEF renew_interval, append_timeout, TTL
  <2>2. leader'[i] /\ \A j \in Instances : j # i => leader'[j] = leader[j]
    BY <1>6 DEF LeaseInv, Shapes
  <2> QED BY <1>1, <1>4, <1>5, <2>1, <2>2 DEF LeaseInv, LoopsTimed
<1>12. \A j \in Instances : (Superseded(j) => Superseded(j)') /\ (Blocked(j) => Blocked(j)')
  <2>1. \A a \in LeaseAcceptors : acc[a].term <= acc'[a].term /\ acc[a].log <= acc'[a].log
    BY <1>6 DEF LeaseInv, Shapes, IsAcceptor
  <2> QED BY <1>7, <1>9, <2>1, FencesKept DEF LeaseInv
<1>13. inst[i].landed \in Majorities
  BY <1>3, <1>6 DEF IsLoop, Majorities, Quorums
<1>14. EarlierSuperseded'
  <2> SUFFICES ASSUME NEW k \in Instances, NEW j \in Instances, leader'[j],
                      inst'[k].term < inst'[j].term
               PROVE  /\ leader'[k] => Superseded(k)'
                      /\ inst'[k].pc = "record" => Superseded(k)' \/ Blocked(k)'
    BY DEF EarlierSuperseded
  <2>0. inst[k].term < inst[j].term
    BY <1>9
  <2>1. CASE j = i
    <3>1. \A a \in inst[i].landed : acc[a].log \in Nat /\ inst[i].term <= acc[a].log
      BY <1>3, <1>6 DEF LeaseInv, TermsHeld, Holds, Shapes, IsAcceptor, IsLoop
    <3>2. inst[k].term \in Nat /\ inst[i].term \in Nat
      BY DEF LeaseInv, Shapes, IsLoop
    <3>3. \A a \in inst[i].landed : acc[a].log > inst[k].term
      BY <2>0, <2>1, <3>1, <3>2
    <3>4. Superseded(k)
      BY <1>13, <3>3 DEF Superseded
    <3> QED BY <1>12, <3>4
  <2>2. CASE j # i
    <3>1. leader[j]
      BY <1>6, <2>2 DEF LeaseInv, Shapes
    <3>2. CASE k = i
      <4>1. ~Blocked(i)
        <5>1. \A Q \in Majorities : \E a \in Q : a \in inst[i].landed
          BY <1>13, MajoritiesMeet
        <5> QED BY <5>1 DEF Blocked
      <4>2. Superseded(i)
        <5>1. CASE inst[i].pc = "record"
          BY <2>0, <3>1, <3>2, <4>1, <5>1 DEF LeaseInv, EarlierSuperseded
        <5>2. CASE leader[i]
          BY <2>0, <3>1, <3>2, <5>2 DEF LeaseInv, EarlierSuperseded
        <5>3. CASE inst[i].pc = "renew" /\ ~leader[i]
          BY <5>3 DEF LeaseInv, LoopsTimed
        <5> QED BY <1>6, <5>1, <5>2, <5>3
      <4> QED BY <1>12, <3>2, <4>2
    <3>3. CASE k # i
      <4>1. leader'[k] = leader[k] /\ inst'[k] = inst[k]
        BY <1>5, <1>6, <3>3 DEF LeaseInv, Shapes
      <4> QED BY <1>12, <2>0, <3>1, <4>1 DEF LeaseInv, EarlierSuperseded
    <3> QED BY <3>2, <3>3
  <2> QED BY <2>1, <2>2
<1> QED BY <1>7, <1>8, <1>10, <1>11, <1>14 DEF LeaseInv
\* A record that lands raises the log of one acceptor and lifts no fence.
LEMMA LandKeeps ==
  ASSUME LeaseInv, NEW i \in Instances, NEW c \in LeaseAcceptors, Land(i, c), UNCHANGED bound
  PROVE  /\ LeaseInv'
         /\ \A j \in Instances : (Superseded(j) => Superseded(j)') /\ (Blocked(j) => Blocked(j)')
<1>1. /\ IsLoop(inst[i]) /\ IsAcceptor(acc[c]) /\ acc[c].term <= inst[i].term
      /\ Holds(i) /\ leader' = leader /\ over' = over
  BY DEF LeaseInv, Shapes, Land, Appending, Holds
<1>2. /\ IsAcceptor(acc'[c]) /\ acc'[c].term = inst[i].term /\ acc'[c].log = inst[i].term
      /\ \A a \in LeaseAcceptors : a # c => acc'[a] = acc[a]
  <2>1. acc' = [acc EXCEPT ![c] = [acc[c] EXCEPT !.term = inst[i].term, !.log = inst[i].term,
                                                 !.flush = inst[i].lsn]]
    BY DEF Land
  <2>2. DOMAIN acc = LeaseAcceptors
    BY DEF LeaseInv, Shapes
  <2>3. inst[i].lsn \in Nat
    BY <1>1 DEF IsLoop
  <2> QED BY <1>1, <2>1, <2>2, <2>3 DEF IsAcceptor, IsLoop
<1>3. /\ inst'[i].landed = inst[i].landed \cup {c} /\ IsLoop(inst'[i])
      /\ inst'[i].pc = inst[i].pc /\ inst'[i].term = inst[i].term /\ inst'[i].left = inst[i].left
      /\ inst'[i].stalled = inst[i].stalled /\ inst'[i].history = inst[i].history
      /\ \A j \in Instances : j # i => inst'[j] = inst[j]
  BY <1>1 DEF LeaseInv, Shapes, IsLoop, Land
<1>4. Shapes'
  BY <1>2, <1>3 DEF LeaseInv, Shapes, Land
<1>5. \A a \in LeaseAcceptors : /\ acc[a].term \in Nat /\ acc[a].log \in Nat
                               /\ acc[a].log <= acc[a].term
  BY DEF LeaseInv, Shapes, IsAcceptor, LogsOrdered
<1>t. \A j \in Instances : inst[j].term \in Nat
  BY DEF LeaseInv, Shapes, IsLoop
<1>6. \A a \in LeaseAcceptors : acc[a].term <= acc'[a].term /\ acc[a].log <= acc'[a].log
  BY <1>1, <1>2, <1>5, <1>t
<1>7. \A j \in Instances : (Superseded(j) => Superseded(j)') /\ (Blocked(j) => Blocked(j)')
  <2> SUFFICES ASSUME NEW j \in Instances
               PROVE  (Superseded(j) => Superseded(j)') /\ (Blocked(j) => Blocked(j)')
    OBVIOUS
  <2>1. inst'[j].term = inst[j].term
    BY <1>3
  <2>2. \A a \in inst'[j].landed : a \in inst[j].landed \/ acc[a].term <= inst[j].term
    BY <1>1, <1>3
  <2>3. Shapes
    BY DEF LeaseInv
  <2> QED BY <1>4, <1>6, <2>1, <2>2, <2>3, FencesKept
<1>8. LogsOrdered'
  BY <1>2, <1>5, <1>t DEF LogsOrdered
<1>9. TermsHeld'
  <2> SUFFICES ASSUME NEW j \in Instances, Holds(j)'
               PROVE  /\ \E Q \in Majorities : \A a \in Q : inst'[j].term <= acc'[a].term
                      /\ \A k \in Instances : Holds(k)' /\ k # j => inst'[k].term # inst'[j].term
                      /\ \A t \in inst'[j].history : t <= inst'[j].term
                      /\ \A a \in inst'[j].landed : inst'[j].term <= acc'[a].log
    BY DEF TermsHeld
  <2>1. \A k \in Instances : /\ (Holds(k)' <=> Holds(k)) /\ inst'[k].term = inst[k].term
                             /\ inst'[k].history = inst[k].history
    BY <1>3 DEF Holds
  <2>2. PICK Q \in Majorities : \A a \in Q : inst[j].term <= acc[a].term
    BY <2>1 DEF LeaseInv, TermsHeld
  <2>3. \A a \in Q : inst'[j].term <= acc'[a].term
    <3>1. \A a \in Q : a \in LeaseAcceptors /\ acc'[a].term \in Nat /\ acc[a].term \in Nat
      BY <1>4, <1>5 DEF Shapes, IsAcceptor, Majorities, Quorums
    <3> QED BY <1>6, <1>t, <2>1, <2>2, <3>1
  <2>4. \A k \in Instances : Holds(k)' /\ k # j => inst'[k].term # inst'[j].term
    BY <2>1 DEF LeaseInv, TermsHeld
  <2>5. \A t \in inst'[j].history : t <= inst'[j].term
    BY <2>1 DEF LeaseInv, TermsHeld
  <2>6. \A a \in inst'[j].landed : inst'[j].term <= acc'[a].log
    <3> SUFFICES ASSUME NEW a \in inst'[j].landed
                 PROVE  inst'[j].term <= acc'[a].log
      OBVIOUS
    <3>0. a \in LeaseAcceptors
      BY <1>4 DEF Shapes, IsLoop
    <3>1. CASE a = c /\ j = i
      BY <1>2, <1>t, <2>1, <3>1
    <3>2. CASE a \in inst[j].landed
      <4>1. inst[j].term <= acc[a].log
        BY <2>1, <3>2 DEF LeaseInv, TermsHeld
      <4>2. acc'[a].log \in Nat
        BY <1>4, <3>0 DEF Shapes, IsAcceptor
      <4> QED BY <1>5, <1>6, <1>t, <2>1, <3>0, <4>1, <4>2
    <3> QED BY <1>3, <3>1, <3>2
  <2> QED BY <2>3, <2>4, <2>5, <2>6
<1>10. LoopsTimed'
  <2>1. renew_interval' = renew_interval /\ append_timeout' = append_timeout
    BY DEF renew_interval, append_timeout, TTL
  <2>2. inst[i].pc # "lead"
    BY DEF Land, Appending
  <2> QED BY <1>1, <1>3, <2>1, <2>2, Zenon DEF LeaseInv, LoopsTimed
<1>11. EarlierSuperseded'
  <2>1. \A j \in Instances : inst'[j].pc = inst[j].pc /\ inst'[j].term = inst[j].term
    BY <1>3
  <2> QED BY <1>1, <1>7, <2>1, Zenon DEF LeaseInv, EarlierSuperseded
<1> QED BY <1>4, <1>7, <1>8, <1>9, <1>10, <1>11 DEF LeaseInv
\* What an election at a quorum does: its term is the latest, and an acceptor's log
\* is replaced by one of the quorum's that is no older.
Elected(i, Q, T) ==
  /\ T \in Nat /\ \A a \in Q : acc[a].term < T /\ acc'[a].term = T
  /\ \A a \in Q : /\ acc[a].log <= acc'[a].log
                  /\ \E d \in Q : acc'[a].log = acc[d].log
  /\ \A a \in LeaseAcceptors \ Q : acc'[a] = acc[a]
  /\ inst'[i].term = T /\ inst'[i].landed = {} /\ Holds(i)'
  /\ \A t \in inst'[i].history : t <= T
  /\ \A j \in Instances : j # i => inst'[j] = inst[j]

\* A majority that elects moves its terms above every holder's.
LEMMA CampaignKeeps ==
  ASSUME LeaseInv, Shapes', NEW i \in Instances, NEW Q \in Majorities, NEW T, Elected(i, Q, T)
  PROVE  /\ LogsOrdered' /\ TermsHeld'
         /\ \A j \in Instances : Holds(j) => inst[j].term < T
         /\ \A j \in Instances : j # i =>
              (Superseded(j) => Superseded(j)') /\ (Blocked(j) => Blocked(j)')
<1>1. Q \subseteq LeaseAcceptors
  BY DEF Majorities, Quorums
<1>2. \A j \in Instances : Holds(j) => inst[j].term < T
  BY AboveAll DEF Elected
<1>3. \A a \in LeaseAcceptors : /\ acc[a].term \in Nat /\ acc[a].log \in Nat /\ acc[a].log <= acc[a].term
                               /\ acc'[a].term \in Nat /\ acc'[a].log \in Nat
  BY DEF LeaseInv, Shapes, IsAcceptor, LogsOrdered
<1>t. \A j \in Instances : inst[j].term \in Nat
  BY DEF LeaseInv, Shapes, IsLoop
<1>4. T \in Nat
  BY DEF Elected
<1>5. \A a \in LeaseAcceptors : acc[a].term <= acc'[a].term /\ acc[a].log <= acc'[a].log
  <2> SUFFICES ASSUME NEW a \in LeaseAcceptors
               PROVE  acc[a].term <= acc'[a].term /\ acc[a].log <= acc'[a].log
    OBVIOUS
  <2>1. CASE a \in Q
    BY <1>3, <1>4, <2>1 DEF Elected
  <2>2. CASE a \notin Q
    BY <1>3, <2>2 DEF Elected
  <2> QED BY <2>1, <2>2
<1>7. LogsOrdered'
  <2> SUFFICES ASSUME NEW a \in LeaseAcceptors
               PROVE  acc'[a].log <= acc'[a].term
    BY DEF LogsOrdered
  <2>1. CASE a \in Q
    <3>1. PICK d \in Q : acc'[a].log = acc[d].log
      BY <2>1 DEF Elected
    <3>2. acc'[a].term = T /\ acc[d].term < T
      BY <2>1 DEF Elected
    <3> QED BY <1>1, <1>3, <1>4, <3>1, <3>2
  <2>2. CASE a \notin Q
    BY <1>3, <2>2 DEF Elected
  <2> QED BY <2>1, <2>2
<1>8. TermsHeld'
  <2> SUFFICES ASSUME NEW j \in Instances, Holds(j)'
               PROVE  /\ \E W \in Majorities : \A a \in W : inst'[j].term <= acc'[a].term
                      /\ \A k \in Instances : Holds(k)' /\ k # j => inst'[k].term # inst'[j].term
                      /\ \A t \in inst'[j].history : t <= inst'[j].term
                      /\ \A a \in inst'[j].landed : inst'[j].term <= acc'[a].log
    BY DEF TermsHeld
  <2>1. \A k \in Instances : k # i /\ Holds(k)' =>
          /\ Holds(k) /\ inst'[k].term = inst[k].term /\ inst'[k].landed = inst[k].landed
          /\ inst'[k].history = inst[k].history
    BY DEF Elected, Holds
  <2>2. inst'[i].term = T /\ inst'[i].landed = {} /\ \A t \in inst'[i].history : t <= T
    BY DEF Elected
  <2>3. CASE j = i
    <3>1. \A a \in Q : inst'[j].term <= acc'[a].term
      BY <1>4, <2>2, <2>3 DEF Elected
    <3>2. \A k \in Instances : Holds(k)' /\ k # j => inst'[k].term # inst'[j].term
      BY <1>2, <1>4, <1>t, <2>1, <2>2, <2>3
    <3> QED BY <2>2, <2>3, <3>1, <3>2
  <2>4. CASE j # i
    <3>1. /\ Holds(j) /\ inst'[j].term = inst[j].term /\ inst'[j].landed = inst[j].landed
          /\ inst'[j].history = inst[j].history
      BY <2>1, <2>4
    <3>2. PICK W \in Majorities : \A a \in W : inst[j].term <= acc[a].term
      BY <3>1 DEF LeaseInv, TermsHeld
    <3>3. \A a \in W : inst'[j].term <= acc'[a].term
      <4>1. W \subseteq LeaseAcceptors
        BY DEF Majorities, Quorums
      <4> QED BY <1>3, <1>5, <1>t, <3>1, <3>2, <4>1
    <3>4. \A k \in Instances : Holds(k)' /\ k # j => inst'[k].term # inst'[j].term
      <4> SUFFICES ASSUME NEW k \in Instances, Holds(k)', k # j
                   PROVE  inst'[k].term # inst'[j].term
        OBVIOUS
      <4>1. CASE k = i
        BY <1>2, <1>4, <1>t, <2>2, <3>1, <4>1
      <4>2. CASE k # i
        BY <2>1, <3>1, <4>2 DEF LeaseInv, TermsHeld
      <4> QED BY <4>1, <4>2
    <3>5. \A t \in inst'[j].history : t <= inst'[j].term
      BY <3>1 DEF LeaseInv, TermsHeld
    <3>6. \A a \in inst'[j].landed : inst'[j].term <= acc'[a].log
      <4> SUFFICES ASSUME NEW a \in inst'[j].landed
                   PROVE  inst'[j].term <= acc'[a].log
        OBVIOUS
      <4>1. a \in LeaseAcceptors
        BY DEF Shapes, IsLoop
      <4>2. inst[j].term <= acc[a].log
        BY <3>1 DEF LeaseInv, TermsHeld
      <4> QED BY <1>3, <1>5, <1>t, <3>1, <4>1, <4>2
    <3> QED BY <3>3, <3>4, <3>5, <3>6
  <2> QED BY <2>3, <2>4
<1>9. \A j \in Instances : j # i =>
        (Superseded(j) => Superseded(j)') /\ (Blocked(j) => Blocked(j)')
  <2>1. \A j \in Instances : j # i => inst'[j] = inst[j]
    BY DEF Elected
  <2>2. Shapes
    BY DEF LeaseInv
  <2> QED BY <1>5, <2>1, <2>2, FencesKept
<1> QED BY <1>2, <1>7, <1>8, <1>9

\* A takeover by election (HeldLease::acquire).
LEMMA ElectKeeps ==
  ASSUME LeaseInv, NEW i \in Instances, NEW Q \in Majorities, Elect(i, Q), UNCHANGED bound
  PROVE  /\ LeaseInv'
         /\ \A j \in Instances : j # i =>
              (Superseded(j) => Superseded(j)') /\ (Blocked(j) => Blocked(j)')
<1> DEFINE T == Max({acc[a].term : a \in Q}) + 1
           d == Donor(Q)
           r == [inst[i] EXCEPT !.pc = "record", !.left = append_timeout, !.term = T,
                                !.lsn = acc[d].flush + 1, !.landed = {}, !.begun = 0,
                                !.stalled = FALSE, !.marked = FALSE, !.seen = LeaseLoop.seen,
                                !.history = {acc[d].log, T}]
<1>1. Q \subseteq LeaseAcceptors /\ Shapes
  BY DEF Majorities, Quorums, LeaseInv
<1>2. T \in Nat /\ \A a \in Q : acc[a].term < T
  <2>1. 0 \in Nat /\ Q # {}
    BY MajoritiesMeet
  <2> QED BY <1>1, <2>1, NextTerm, Zenon
<1>3. d \in Q /\ \A a \in Q : acc[a].log <= acc[d].log
  BY <1>1, DonorLast
<1>4. /\ acc' = [a \in LeaseAcceptors |-> IF a \in Q THEN [acc[d] EXCEPT !.term = T] ELSE acc[a]]
      /\ inst' = [inst EXCEPT ![i] = r]
      /\ leader' = leader /\ over' = over /\ inst[i].pc = "elect"
  <2>1. DOMAIN inst = Instances
    BY <1>1 DEF Shapes
  <2>2. /\ acc' = [a \in LeaseAcceptors |-> IF a \in Q THEN [acc[d] EXCEPT !.term = T] ELSE acc[a]]
        /\ inst' = [inst EXCEPT ![i].pc = "record", ![i].left = append_timeout,
                                ![i].term = T, ![i].lsn = acc[d].flush + 1,
                                ![i].landed = {}, ![i].begun = 0, ![i].stalled = FALSE,
                                ![i].marked = FALSE, ![i].seen = LeaseLoop.seen,
                                ![i].history = {acc[d].log, T}]
    BY Zenon DEF Elect
  <2>3. leader' = leader /\ over' = over /\ inst[i].pc = "elect"
    BY Zenon DEF Elect
  <2> HIDE DEF T, d
  <2>4. inst' = [inst EXCEPT ![i] = r]
    BY <2>1, <2>2, Zenon
  <2> QED BY <2>2, <2>3, <2>4, Zenon
<1> HIDE DEF T, d
<1>5. IsAcceptor(acc[d]) /\ IsLoop(inst[i])
  BY <1>1, <1>3 DEF Shapes
<1>6. TTL \in Nat /\ append_timeout = TTL
  BY <1>1, Intervals DEF Shapes
<1>7. /\ IsLoop(r) /\ r.pc = "record" /\ r.left = append_timeout /\ r.term = T /\ r.landed = {}
      /\ r.history = {acc[d].log, T}
  <2>1. /\ r.pc = "record" /\ r.left = append_timeout /\ r.term = T /\ r.landed = {}
        /\ r.history = {acc[d].log, T} /\ r.lsn = acc[d].flush + 1 /\ r.stalled = FALSE
        /\ DOMAIN r = DOMAIN inst[i]
    BY <1>5, Zenon DEF IsLoop
  <2>2. acc[d].log \in Nat /\ acc[d].flush + 1 \in Nat
    BY <1>5 DEF IsAcceptor
  <2> HIDE DEF r
  <2> QED BY <1>2, <1>5, <1>6, <2>1, <2>2, Zenon DEF IsLoop
<1> HIDE DEF r
<1>8. inst'[i] = r /\ \A j \in Instances : j # i => inst'[j] = inst[j]
  BY <1>1, <1>4 DEF Shapes
<1>9. \A a \in Q : IsAcceptor(acc'[a]) /\ acc'[a].term = T /\ acc'[a].log = acc[d].log
  BY <1>1, <1>2, <1>4, <1>5 DEF IsAcceptor
<1>10. \A a \in LeaseAcceptors \ Q : acc'[a] = acc[a]
  BY <1>4
<1>11. Shapes'
  BY <1>1, <1>4, <1>7, <1>9, <1>10 DEF Shapes
<1>12. Elected(i, Q, T)
  <2>1. \A t \in inst'[i].history : t <= T
    <3>1. acc[d].log <= acc[d].term /\ acc[d].term < T
      BY <1>1, <1>2, <1>3 DEF LeaseInv, LogsOrdered
    <3> QED BY <1>2, <1>5, <1>7, <1>8, <3>1 DEF IsAcceptor
  <2> QED BY <1>2, <1>3, <1>7, <1>8, <1>9, <1>10, <2>1 DEF Elected, Holds
<1>13. /\ LogsOrdered' /\ TermsHeld'
       /\ \A j \in Instances : Holds(j) => inst[j].term < T
       /\ \A j \in Instances : j # i =>
            (Superseded(j) => Superseded(j)') /\ (Blocked(j) => Blocked(j)')
  BY <1>11, <1>12, CampaignKeeps, Zenon
<1>14. ~leader[i]
  BY <1>4 DEF LeaseInv, LoopsTimed
<1>15. LoopsTimed'
  <2>1. renew_interval' = renew_interval /\ append_timeout' = append_timeout
    BY DEF renew_interval, append_timeout, TTL
  <2> QED BY <1>4, <1>6, <1>7, <1>8, <1>14, <2>1 DEF LeaseInv, LoopsTimed
<1>16. EarlierSuperseded'
  <2> SUFFICES ASSUME NEW k \in Instances, NEW j \in Instances, leader'[j],
                      inst'[k].term < inst'[j].term
               PROVE  /\ leader'[k] => Superseded(k)'
                      /\ inst'[k].pc = "record" => Superseded(k)' \/ Blocked(k)'
    BY DEF EarlierSuperseded
  <2>1. j # i /\ leader[j] /\ inst'[j] = inst[j]
    BY <1>4, <1>8, <1>14
  <2>2. inst[j].term < T /\ inst[j].term \in Nat
    BY <1>1, <1>13, <2>1 DEF LeaseInv, LoopsTimed, Holds, Shapes, IsLoop
  <2>3. k # i /\ inst'[k] = inst[k] /\ leader'[k] = leader[k]
    BY <1>2, <1>4, <1>7, <1>8, <2>1, <2>2
  <2> QED BY <1>13, <2>1, <2>3, Zenon DEF LeaseInv, EarlierSuperseded
<1> QED BY <1>11, <1>13, <1>15, <1>16 DEF LeaseInv
\* A re-election, whose donor still ends with a record of the proposer (reelect).
LEMMA ReelectKeeps ==
  ASSUME LeaseInv, NEW i \in Instances, NEW Q \in Majorities, Reelect(i, Q), UNCHANGED bound
  PROVE  /\ LeaseInv'
         /\ \A j \in Instances : j # i =>
              (Superseded(j) => Superseded(j)') /\ (Blocked(j) => Blocked(j)')
<1> DEFINE T == Max({acc[a].term : a \in Q} \cup {inst[i].term}) + 1
           r == [inst[i] EXCEPT !.term = T, !.landed = {}, !.history = @ \cup {T}, !.stalled = @ \/ inst[i].left = 0,
                                !.left = IF inst[i].left = 0 THEN append_timeout ELSE @]
<1>1. Q \subseteq LeaseAcceptors /\ Shapes
  BY DEF Majorities, Quorums, LeaseInv
<1>2. IsLoop(inst[i])
  BY <1>1 DEF Shapes
<1>3. T \in Nat /\ \A a \in Q : acc[a].term < T
  <2>1. inst[i].term \in Nat
    BY <1>2 DEF IsLoop
  <2> QED BY <1>1, <2>1, NextTerm, Zenon
<1>4. /\ acc' = [a \in LeaseAcceptors |-> IF a \in Q THEN [acc[a] EXCEPT !.term = T] ELSE acc[a]]
      /\ inst' = [inst EXCEPT ![i] = r]
      /\ leader' = leader /\ over' = over /\ Appending(i)
      /\ acc[Donor(Q)].log \in inst[i].history
  <2>1. DOMAIN inst = Instances
    BY <1>1 DEF Shapes
  <2>2. acc' = [a \in LeaseAcceptors |-> IF a \in Q THEN [acc[a] EXCEPT !.term = T] ELSE acc[a]]
    BY Zenon DEF Reelect
  <2>3. inst' = [inst EXCEPT ![i].term = T, ![i].landed = {}, ![i].history = @ \cup {T}, ![i].stalled = @ \/ inst[i].left = 0,
                             ![i].left = IF inst[i].left = 0 THEN append_timeout ELSE @]
    BY Zenon DEF Reelect
  <2>4. /\ leader' = leader /\ over' = over /\ Appending(i)
        /\ acc[Donor(Q)].log \in inst[i].history
    BY Zenon DEF Reelect, Troubled
  <2> HIDE DEF T
  <2>5. inst' = [inst EXCEPT ![i] = r]
    BY <2>1, <2>3, Zenon
  <2> QED BY <2>2, <2>4, <2>5
<1> HIDE DEF T
<1>5. TTL \in Nat /\ append_timeout = TTL
  BY <1>1, Intervals DEF Shapes
<1>6. /\ IsLoop(r) /\ r.pc = inst[i].pc /\ r.term = T /\ r.landed = {}
      /\ r.history = inst[i].history \cup {T}
      /\ r.left = IF inst[i].left = 0 THEN append_timeout ELSE inst[i].left
  BY <1>2, <1>3, <1>5 DEF IsLoop
<1> HIDE DEF r
<1>7. inst'[i] = r /\ \A j \in Instances : j # i => inst'[j] = inst[j]
  BY <1>1, <1>4 DEF Shapes
<1>8. \A a \in Q : IsAcceptor(acc'[a]) /\ acc'[a].term = T /\ acc'[a].log = acc[a].log
  BY <1>1, <1>3, <1>4 DEF Shapes, IsAcceptor
<1>9. \A a \in LeaseAcceptors \ Q : acc'[a] = acc[a]
  BY <1>4
<1>10. Shapes'
  BY <1>1, <1>4, <1>6, <1>8, <1>9, Zenon DEF Shapes
<1>11. Elected(i, Q, T)
  <2>1. \A a \in Q : acc[a].log \in Nat
    BY <1>1 DEF Shapes, IsAcceptor
  <2>2. \A a \in Q : /\ acc[a].log <= acc'[a].log
                    /\ \E d \in Q : acc'[a].log = acc[d].log
    BY <1>8, <2>1
  <2>3. Holds(i)'
    BY <1>4, <1>6, <1>7 DEF Holds, Appending
  <2>4. Holds(i) /\ inst[i].term \in Nat /\ inst[i].history \subseteq Nat
    BY <1>2, <1>4 DEF Holds, Appending, IsLoop
  <2>5. inst[i].term < T
    BY <1>3, <2>4, AboveAll
  <2>6. \A t \in inst'[i].history : t <= T
    BY <1>3, <1>6, <1>7, <2>4, <2>5 DEF LeaseInv, TermsHeld
  <2> QED BY <1>3, <1>6, <1>7, <1>8, <1>9, <2>2, <2>3, <2>6 DEF Elected
<1>12. /\ LogsOrdered' /\ TermsHeld'
       /\ \A j \in Instances : Holds(j) => inst[j].term < T
       /\ \A j \in Instances : j # i =>
            (Superseded(j) => Superseded(j)') /\ (Blocked(j) => Blocked(j)')
  BY <1>10, <1>11, CampaignKeeps
<1>13. Holds(i) /\ ~Superseded(i)
  <2>1. Holds(i)
    BY <1>4 DEF Holds, Appending
  <2> QED BY <1>4, <2>1, NoStealBack
<1>14. LoopsTimed'
  <2>1. renew_interval' = renew_interval /\ append_timeout' = append_timeout
    BY DEF renew_interval, append_timeout, TTL
  <2> QED BY <1>4, <1>5, <1>6, <1>7, <2>1 DEF LeaseInv, LoopsTimed, Appending
<1>15. EarlierSuperseded'
  <2> SUFFICES ASSUME NEW k \in Instances, NEW j \in Instances, leader'[j],
                      inst'[k].term < inst'[j].term
               PROVE  /\ leader'[k] => Superseded(k)'
                      /\ inst'[k].pc = "record" => Superseded(k)' \/ Blocked(k)'
    BY DEF EarlierSuperseded
  <2>t. \A n \in Instances : inst[n].term \in Nat
    BY <1>1 DEF Shapes, IsLoop
  <2>h. Holds(j) /\ leader[j]
    BY <1>4 DEF LeaseInv, LoopsTimed, Holds
  <2>1. k # i
    <3>1. inst'[j].term <= T
      BY <1>3, <1>6, <1>7, <1>12, <2>t, <2>h
    <3>2. inst'[j].term \in Nat
      BY <1>3, <1>6, <1>7, <2>t
    <3> QED BY <1>3, <1>6, <1>7, <3>1, <3>2
  <2>2. inst'[k] = inst[k] /\ leader'[k] = leader[k]
    BY <1>4, <1>7, <2>1
  <2>3. CASE j # i
    <3>1. inst[k].term < inst[j].term
      BY <1>7, <2>2, <2>3
    <3> QED BY <1>12, <2>1, <2>2, <2>h, <3>1 DEF LeaseInv, EarlierSuperseded
  <2>4. CASE j = i /\ inst[k].term < inst[i].term
    BY <1>12, <2>1, <2>2, <2>4, <2>h DEF LeaseInv, EarlierSuperseded
  <2>5. CASE j = i /\ ~(inst[k].term < inst[i].term)
    <3>1. SUFFICES ASSUME Holds(k)
                   PROVE  ~leader[k] /\ (inst[k].pc = "record" => Blocked(k)')
      <4>1. leader[k] \/ inst[k].pc = "record" => Holds(k)
        BY DEF LeaseInv, LoopsTimed, Holds
      <4> QED BY <2>2, <3>1, <4>1
    <3>2. inst[i].term # inst[k].term
      BY <1>13, <2>1, <3>1 DEF LeaseInv, TermsHeld
    <3>3. inst[i].term < inst[k].term
      BY <2>5, <2>t, <3>2
    <3>4. ~leader[k]
      BY <1>13, <2>5, <2>h, <3>3 DEF LeaseInv, EarlierSuperseded
    <3>5. \A a \in Q : a \notin inst[k].landed
      <4> SUFFICES ASSUME NEW a \in Q, a \in inst[k].landed PROVE FALSE
        OBVIOUS
      <4>1. acc[a].log <= inst[i].term /\ acc[a].log \in Nat
        <5>1. Donor(Q) \in Q /\ acc[a].log <= acc[Donor(Q)].log
          BY <1>1, DonorLast
        <5>2. acc[a].log \in Nat /\ acc[Donor(Q)].log \in Nat
          BY <1>1, <5>1 DEF Shapes, IsAcceptor
        <5>3. acc[Donor(Q)].log <= inst[i].term
          BY <1>4, <1>13 DEF LeaseInv, TermsHeld
        <5> QED BY <2>t, <5>1, <5>2, <5>3
      <4>2. inst[k].term <= acc[a].log
        BY <3>1 DEF LeaseInv, TermsHeld
      <4> QED BY <2>t, <3>3, <4>1, <4>2
    <3>6. \A a \in Q : acc'[a].term > inst'[k].term /\ a \notin inst'[k].landed
      BY <1>3, <1>8, <1>12, <2>2, <2>t, <3>1, <3>5
    <3> QED BY <3>4, <3>6 DEF Blocked
  <2> QED BY <2>3, <2>4, <2>5
<1> QED BY <1>10, <1>12, <1>14, <1>15 DEF LeaseInv
-----------------------------------------------------------------------------
(* Every step preserves OverlapInv.                                        *)

\* A superseded leader that the step does not touch.
Untouched(i) ==
  /\ inst'[i].pc = inst[i].pc /\ inst'[i].left = inst[i].left /\ inst'[i].stalled = inst[i].stalled
  /\ leader'[i] = leader[i] /\ over'[i] = over[i]
  /\ (Superseded(i) => Superseded(i)') /\ (Blocked(i) => Blocked(i)')

InLimit(i) == over[i] > 0 => leader[i] /\ Superseded(i) /\ over[i] + TicksLeft(i) <= OverlapLimit

\* The numbers of the argument.
LEMMA Ticks ==
  ASSUME LeaseInv, NEW i \in Instances
  PROVE  /\ TTL \in Nat /\ append_timeout \in Nat /\ renew_interval \in Nat
         /\ over[i] \in Nat /\ inst[i].left \in Nat /\ inst[i].stalled \in BOOLEAN
         /\ AppendLeft(i) \in Nat /\ TicksLeft(i) \in Nat /\ OverlapLimit \in Nat
<1>1. TTL \in Nat /\ append_timeout \in Nat /\ renew_interval \in Nat
  BY Intervals DEF LeaseInv, Shapes
<1>2. over[i] \in Nat /\ inst[i].left \in Nat /\ inst[i].stalled \in BOOLEAN
  BY DEF LeaseInv, Shapes, IsLoop
<1>3. AppendLeft(i) \in Nat
  BY <1>1, <1>2 DEF AppendLeft
<1>4. OverlapLimit \in Nat
  BY <1>1 DEF OverlapLimit
<1>5. TicksLeft(i) \in Nat
  BY <1>1, <1>2, <1>3 DEF TicksLeft
<1> QED BY <1>1, <1>2, <1>3, <1>4, <1>5

\* The intervals are fixed for a run.
LEMMA SameLimits ==
  ASSUME UNCHANGED bound
  PROVE  /\ renew_interval' = renew_interval /\ append_timeout' = append_timeout
         /\ OverlapLimit' = OverlapLimit
BY DEF OverlapLimit, renew_interval, append_timeout, TTL

\* An instance that a step does not touch stays within its limit.
LEMMA UntouchedKeeps ==
  ASSUME LeaseInv, LeaseInv', NEW i \in Instances, InLimit(i), Untouched(i), UNCHANGED bound
  PROVE  InLimit(i)'
<1> SUFFICES ASSUME over[i] > 0
             PROVE  leader'[i] /\ Superseded(i)' /\ over'[i] + TicksLeft(i)' <= OverlapLimit'
  BY DEF InLimit, Untouched
<1>1. leader[i] /\ Superseded(i) /\ over[i] + TicksLeft(i) <= OverlapLimit
  BY DEF InLimit
<1>2. AppendLeft(i)' = AppendLeft(i)
  BY SameLimits DEF AppendLeft, Untouched
<1>3. TicksLeft(i)' \in Nat /\ TicksLeft(i)' <= TicksLeft(i)
  <2>1. CASE inst[i].pc = "lead"
    BY <2>1, SameLimits, Ticks DEF TicksLeft, Untouched
  <2>2. CASE inst[i].pc # "lead" /\ Blocked(i)'
    BY <1>2, <2>2, SameLimits, Ticks DEF TicksLeft, Untouched
  <2>3. CASE inst[i].pc # "lead" /\ ~Blocked(i)'
    BY <1>2, <2>3, SameLimits, Ticks DEF TicksLeft, Untouched
  <2> QED BY <2>1, <2>2, <2>3
<1>4. over[i] \in Nat /\ TicksLeft(i) \in Nat /\ OverlapLimit \in Nat /\ OverlapLimit' = OverlapLimit
  BY SameLimits, Ticks
<1>5. over[i] + TicksLeft(i)' <= OverlapLimit
  BY <1>1, <1>3, <1>4
<1> QED BY <1>1, <1>4, <1>5 DEF Untouched

\* Nothing of a superseded leader's new record will reach a majority.
LEMMA FreshBlocked ==
  ASSUME LeaseInv', NEW i \in Instances, Superseded(i)', inst'[i].landed = {}
  PROVE  Blocked(i)'
<1>1. PICK W \in Majorities : \A a \in W : acc'[a].log > inst'[i].term
  BY DEF Superseded
<1>2. \A a \in W : acc'[a].log \in Nat /\ acc'[a].term \in Nat /\ acc'[a].log <= acc'[a].term
  BY DEF LeaseInv, LogsOrdered, Shapes, IsAcceptor, Majorities, Quorums
<1>3. inst'[i].term \in Nat
  BY DEF LeaseInv, Shapes, IsLoop
<1>4. \A a \in W : acc'[a].term > inst'[i].term
  BY <1>1, <1>2, <1>3
<1>5. \A a \in W : a \notin inst'[i].landed
  OBVIOUS
<1> QED BY <1>4, <1>5 DEF Blocked

\* A superseded leader that starts a renewal has two append timeouts left.
LEMMA RenewDueInLimit ==
  ASSUME LeaseInv, LeaseInv', NEW i \in Instances, InLimit(i), RenewDue(i), UNCHANGED bound,
         Superseded(i) => Superseded(i)'
  PROVE  InLimit(i)'
<1> SUFFICES ASSUME over[i] > 0
             PROVE  leader'[i] /\ Superseded(i)' /\ over'[i] + TicksLeft(i)' <= OverlapLimit'
  BY DEF InLimit, RenewDue
<1>1. leader[i] /\ Superseded(i) /\ over[i] + TicksLeft(i) <= OverlapLimit
  BY DEF InLimit
<1>2. /\ leader'[i] /\ over'[i] = over[i] /\ acc' = acc /\ inst[i].left = 0 /\ inst[i].pc = "lead"
      /\ inst'[i].pc = "renew" /\ inst'[i].left = append_timeout
      /\ inst'[i].landed = {} /\ ~inst'[i].stalled
  BY <1>1 DEF RenewDue, LeaseInv, LoopsTimed, Shapes, IsLoop
<1>3. Blocked(i)'
  BY <1>1, <1>2, FreshBlocked
<1>4. append_timeout \in Nat /\ append_timeout' = append_timeout /\ OverlapLimit' = OverlapLimit
  BY SameLimits, Ticks
<1>5. TicksLeft(i) = 2 * append_timeout
  BY <1>2, <1>4 DEF TicksLeft
<1>6. AppendLeft(i)' = 2 * append_timeout
  BY <1>2, <1>4 DEF AppendLeft
<1>7. TicksLeft(i)' = 2 * append_timeout
  BY <1>2, <1>3, <1>6 DEF TicksLeft
<1> QED BY <1>1, <1>2, <1>4, <1>5, <1>7

\* A superseded leader whose record was acked has two append timeouts for a watermark.
LEMMA WatermarkDueInLimit ==
  ASSUME LeaseInv, LeaseInv', NEW i \in Instances, InLimit(i), WatermarkDue(i), UNCHANGED bound,
         Superseded(i) => Superseded(i)'
  PROVE  InLimit(i)'
<1> SUFFICES ASSUME over[i] > 0
             PROVE  leader'[i] /\ Superseded(i)' /\ over'[i] + TicksLeft(i)' <= OverlapLimit'
  BY DEF InLimit, WatermarkDue
<1>1. leader[i] /\ Superseded(i) /\ over[i] + TicksLeft(i) <= OverlapLimit
  BY DEF InLimit
<1>2. /\ leader'[i] /\ over'[i] = over[i] /\ inst[i].pc # "lead" /\ inst'[i].pc # "lead"
      /\ inst'[i].left = append_timeout /\ inst'[i].landed = {} /\ ~inst'[i].stalled
  BY <1>1, WatermarkDueKeeps DEF WatermarkDue
<1>3. Blocked(i)'
  BY <1>1, <1>2, FreshBlocked
<1>4. ~Blocked(i)
  <2>1. inst[i].landed \in Majorities
    BY DEF WatermarkDue, LeaseInv, Shapes, IsLoop, Majorities, Quorums
  <2>2. \A Q \in Majorities : \E a \in Q : a \in inst[i].landed
    BY <2>1, MajoritiesMeet
  <2> QED BY <2>2 DEF Blocked
<1>5. append_timeout \in Nat /\ append_timeout' = append_timeout /\ OverlapLimit' = OverlapLimit
  BY SameLimits, Ticks
<1>6. TicksLeft(i) = AppendLeft(i) + renew_interval + 2 * append_timeout
  BY <1>2, <1>4 DEF TicksLeft
<1>7. AppendLeft(i)' = 2 * append_timeout
  BY <1>2, <1>5 DEF AppendLeft
<1>8. TicksLeft(i)' = 2 * append_timeout
  BY <1>2, <1>3, <1>7 DEF TicksLeft
<1>9. /\ AppendLeft(i) \in Nat /\ renew_interval \in Nat /\ over[i] \in Nat /\ OverlapLimit \in Nat
  BY Ticks
<1> QED BY <1>1, <1>2, <1>5, <1>6, <1>8, <1>9

\* A stall uses up the first of an append's two timeouts.
LEMMA StallsInLimit ==
  ASSUME LeaseInv, LeaseInv', NEW i \in Instances, InLimit(i), Stalls(i), UNCHANGED bound,
         Superseded(i) => Superseded(i)', Blocked(i) => Blocked(i)'
  PROVE  InLimit(i)'
<1> SUFFICES ASSUME over[i] > 0
             PROVE  leader'[i] /\ Superseded(i)' /\ over'[i] + TicksLeft(i)' <= OverlapLimit'
  BY DEF InLimit, Stalls
<1>1. leader[i] /\ Superseded(i) /\ over[i] + TicksLeft(i) <= OverlapLimit
  BY DEF InLimit
<1>2. /\ leader'[i] /\ over'[i] = over[i] /\ inst[i].left = 0 /\ ~inst[i].stalled
      /\ inst'[i].pc = inst[i].pc /\ inst'[i].left = append_timeout /\ inst'[i].stalled
      /\ inst[i].pc # "lead"
  BY <1>1 DEF Stalls, Appending, LeaseInv, LoopsTimed, Shapes, IsLoop
<1>3. AppendLeft(i)' = AppendLeft(i)
  BY <1>2, SameLimits, Ticks DEF AppendLeft
<1>4. TicksLeft(i)' \in Nat /\ TicksLeft(i)' <= TicksLeft(i)
  <2>1. CASE Blocked(i)'
    BY <1>2, <1>3, <2>1, SameLimits, Ticks DEF TicksLeft
  <2>2. CASE ~Blocked(i)'
    BY <1>2, <1>3, <2>2, SameLimits, Ticks DEF TicksLeft
  <2> QED BY <2>1, <2>2
<1>5. over[i] \in Nat /\ TicksLeft(i) \in Nat /\ OverlapLimit \in Nat /\ OverlapLimit' = OverlapLimit
  BY SameLimits, Ticks
<1>6. over[i] + TicksLeft(i)' <= OverlapLimit
  BY <1>1, <1>4, <1>5
<1> QED BY <1>1, <1>2, <1>5, <1>6

\* An ack in spite of a later leader sends the old one into its last renewal.
LEMMA RecordAckedInLimit ==
  ASSUME LeaseInv, LeaseInv', NEW i \in Instances, InLimit(i), RecordAcked(i), UNCHANGED bound
  PROVE  InLimit(i)'
<1> SUFFICES ASSUME over[i] > 0
             PROVE  leader'[i] /\ Superseded(i)' /\ over'[i] + TicksLeft(i)' <= OverlapLimit'
  BY DEF InLimit, RecordAcked
<1>1. leader[i] /\ Superseded(i) /\ over[i] + TicksLeft(i) <= OverlapLimit
  BY DEF InLimit
<1>2. /\ leader'[i] /\ over'[i] = over[i] /\ acc' = acc /\ inst'[i].pc = "lead"
      /\ inst'[i].left = renew_interval /\ inst'[i].term = inst[i].term /\ inst[i].pc # "lead"
      /\ inst[i].landed \in Majorities
  BY DEF RecordAcked, Appending, LeaseInv, Shapes, IsLoop, Majorities, Quorums
<1>3. Superseded(i)'
  BY <1>1, <1>2 DEF Superseded
<1>4. ~Blocked(i)
  <2>1. \A Q \in Majorities : \E a \in Q : a \in inst[i].landed
    BY <1>2, MajoritiesMeet
  <2> QED BY <2>1 DEF Blocked
<1>5. TicksLeft(i)' = renew_interval + 2 * append_timeout
  BY <1>2, SameLimits DEF TicksLeft
<1>6. TicksLeft(i) = AppendLeft(i) + renew_interval + 2 * append_timeout
  BY <1>2, <1>4 DEF TicksLeft
<1> QED BY <1>1, <1>2, <1>3, <1>5, <1>6, SameLimits, Ticks

\* Time passes only while no timer is due, so a leader's clock runs down.
LEMMA TickInLimit ==
  ASSUME LeaseInv, LeaseInv', NEW i \in Instances, InLimit(i), Tick, UNCHANGED bound,
         Holds(i)' => (Superseded(i) => Superseded(i)') /\ (Blocked(i) => Blocked(i)')
  PROVE  InLimit(i)'
<1> SUFFICES ASSUME over'[i] > 0
             PROVE  leader'[i] /\ Superseded(i)' /\ over'[i] + TicksLeft(i)' <= OverlapLimit'
  BY DEF InLimit
<1>1. leader[i] /\ Later(i) /\ over'[i] = over[i] + 1 /\ leader' = leader
  <2>1. over' = [k \in Instances |-> IF leader[k] /\ Later(k) THEN over[k] + 1 ELSE 0]
    BY Zenon DEF Tick
  <2>2. leader' = leader
    BY Zenon DEF Tick
  <2>3. over'[i] = IF leader[i] /\ Later(i) THEN over[i] + 1 ELSE 0
    BY <2>1
  <2> QED BY <2>2, <2>3
<1>2. /\ inst'[i].pc = inst[i].pc /\ inst'[i].stalled = inst[i].stalled
      /\ inst'[i].left = IF inst[i].left = 0 THEN 0 ELSE inst[i].left - 1
  BY TickLoop
<1>3. inst[i].pc \in {"lead", "renew"} /\ inst[i].left > 0
  <2>1. inst[i].pc \in {"lead", "renew"}
    BY <1>1 DEF LeaseInv, LoopsTimed
  <2>2. ~Due(i)
    BY Zenon DEF Tick
  <2> QED BY <2>1, <2>2, Ticks DEF Due
<1>4. Superseded(i) /\ Superseded(i)' /\ (Blocked(i) => Blocked(i)')
  <2>1. Superseded(i)
    BY <1>1 DEF Later, LeaseInv, EarlierSuperseded
  <2>2. Holds(i)'
    BY <1>2, <1>3 DEF Holds
  <2> QED BY <2>1, <2>2
<1>5. AppendLeft(i)' = AppendLeft(i) - 1
  BY <1>2, <1>3, SameLimits, Ticks DEF AppendLeft
<1>6. TicksLeft(i)' \in Int /\ TicksLeft(i)' <= TicksLeft(i) - 1
  <2>1. CASE inst[i].pc = "lead"
    BY <1>2, <1>3, <2>1, SameLimits, Ticks DEF TicksLeft
  <2>2. CASE inst[i].pc # "lead" /\ Blocked(i)'
    BY <1>2, <1>5, <2>2, SameLimits, Ticks DEF TicksLeft
  <2>3. CASE inst[i].pc # "lead" /\ ~Blocked(i)'
    BY <1>2, <1>4, <1>5, <2>3, SameLimits, Ticks DEF TicksLeft
  <2> QED BY <2>1, <2>2, <2>3
<1>7. over[i] + TicksLeft(i) <= OverlapLimit
  <2>1. CASE over[i] > 0
    BY <2>1 DEF InLimit
  <2>2. CASE over[i] = 0
    <3>1. inst[i].pc = "lead" => inst[i].left <= renew_interval
      BY DEF LeaseInv, LoopsTimed
    <3>2. inst[i].pc = "renew" => inst[i].left <= append_timeout
      BY DEF LeaseInv, LoopsTimed
    <3>3. inst[i].pc = "renew" => AppendLeft(i) <= 2 * append_timeout
      BY <3>2, Ticks DEF AppendLeft
    <3>4. TicksLeft(i) <= renew_interval + 4 * append_timeout
      <4>1. CASE inst[i].pc = "lead"
        BY <3>1, <4>1, Ticks DEF TicksLeft
      <4>2. CASE inst[i].pc = "renew"
        BY <3>3, <4>2, Ticks DEF TicksLeft
      <4> QED BY <1>3, <4>1, <4>2
    <3> QED BY <2>2, <3>4, Ticks DEF OverlapLimit
  <2> QED BY <2>1, <2>2, Ticks
<1>8. over[i] \in Nat /\ TicksLeft(i) \in Nat /\ OverlapLimit \in Nat /\ OverlapLimit' = OverlapLimit
  BY SameLimits, Ticks
<1>9. over'[i] + TicksLeft(i)' <= OverlapLimit
  BY <1>1, <1>6, <1>7, <1>8
<1> QED BY <1>1, <1>4, <1>8, <1>9

\* A step of instance i that leaves the others alone.
LEMMA OthersInLimit ==
  ASSUME LeaseInv, LeaseInv', OverlapInv, UNCHANGED bound, NEW i \in Instances, InLimit(i)',
         \A j \in Instances : j # i =>
           inst'[j] = inst[j] /\ leader'[j] = leader[j] /\ over'[j] = over[j],
         \A j \in Instances : j # i /\ Holds(j)' =>
           (Superseded(j) => Superseded(j)') /\ (Blocked(j) => Blocked(j)')
  PROVE  OverlapInv'
<1> SUFFICES ASSUME NEW j \in Instances PROVE InLimit(j)'
  BY DEF OverlapInv, InLimit
<1>1. InLimit(j)
  BY DEF OverlapInv, InLimit
<1>2. CASE j = i
  BY <1>2
<1>3. CASE j # i /\ Holds(j)'
  BY <1>1, <1>3, UntouchedKeeps DEF Untouched
<1>4. CASE j # i /\ ~Holds(j)'
  <2>1. ~leader[j]
    BY <1>4 DEF LeaseInv, LoopsTimed, Holds
  <2> QED BY <1>1, <1>4, <2>1 DEF InLimit
<1> QED BY <1>2, <1>3, <1>4

\* Every step of a lease loop keeps both invariants.
LEMMA LeaseStepKeeps ==
  ASSUME LeaseInv, OverlapInv, NEW i \in Instances, LeaseStep(i), UNCHANGED bound
  PROVE  LeaseInv' /\ OverlapInv'
<1>0. /\ DOMAIN inst = Instances /\ leader \in [Instances -> BOOLEAN] /\ over \in [Instances -> Nat]
      /\ InLimit(i) /\ (inst[i].pc \notin {"lead", "renew"} => over[i] = 0)
  BY DEF LeaseInv, Shapes, LoopsTimed, OverlapInv, InLimit
<1>c. ASSUME Calm, LeaseInv'
      PROVE  \A j \in Instances : Holds(j)' =>
               (Superseded(j) => Superseded(j)') /\ (Blocked(j) => Blocked(j)')
  <2>1. Shapes' /\ LoopsTimed'
    BY <1>c DEF LeaseInv
  <2> QED BY <1>c, <2>1, CalmKeeps
<1>1. CASE \E R \in Answering : Poll(i, R)
  <2>1. PICK R \in Answering : Poll(i, R)
    BY <1>1
  <2>2. LeaseInv' /\ Calm
    BY <2>1, PollKeeps
  <2>3. InLimit(i)'
    BY <1>0, <2>1 DEF Poll, InLimit
  <2>4. \A j \in Instances : j # i => inst'[j] = inst[j] /\ leader'[j] = leader[j] /\ over'[j] = over[j]
    BY <1>0, <2>1 DEF Poll
  <2> QED BY <1>c, <2>2, <2>3, <2>4, OthersInLimit
<1>2. CASE \E Q \in Quorums(Up) : Elect(i, Q)
  <2>1. PICK Q \in Quorums(Up) : Elect(i, Q)
    BY <1>2
  <2>2. LeaseInv' /\ \A j \in Instances : j # i =>
          (Superseded(j) => Superseded(j)') /\ (Blocked(j) => Blocked(j)')
    BY <2>1, UpMajority, ElectKeeps
  <2>3. InLimit(i)'
    <3>1. over' = over /\ inst[i].pc = "elect"
      BY <2>1, Zenon DEF Elect
    <3> QED BY <1>0, <3>1 DEF InLimit
  <2>4. \A j \in Instances : j # i => inst'[j] = inst[j] /\ leader'[j] = leader[j] /\ over'[j] = over[j]
    BY <1>0, <2>1, Zenon DEF Elect
  <2> QED BY <2>2, <2>3, <2>4, OthersInLimit
<1>3. CASE \E Q \in Quorums(Up) : Reelect(i, Q)
  <2>1. PICK Q \in Quorums(Up) : Reelect(i, Q)
    BY <1>3
  <2>2. LeaseInv' /\ \A j \in Instances : j # i =>
          (Superseded(j) => Superseded(j)') /\ (Blocked(j) => Blocked(j)')
    BY <2>1, UpMajority, ReelectKeeps
  <2>3. ~Superseded(i)
    <3>1. Holds(i) /\ acc[Donor(Q)].log \in inst[i].history
      BY <2>1, Zenon DEF Reelect, Troubled, Appending, Holds
    <3> QED BY <2>1, <3>1, UpMajority, NoStealBack
  <2>4. InLimit(i)'
    <3>1. over' = over
      BY <2>1, Zenon DEF Reelect
    <3> QED BY <1>0, <2>3, <3>1 DEF InLimit
  <2>5. \A j \in Instances : j # i => inst'[j] = inst[j] /\ leader'[j] = leader[j] /\ over'[j] = over[j]
    BY <1>0, <2>1, Zenon DEF Reelect
  <2> QED BY <2>2, <2>4, <2>5, OthersInLimit
<1>4. CASE \E a \in LeaseAcceptors : Land(i, a)
  <2>1. PICK a \in LeaseAcceptors : Land(i, a)
    BY <1>4
  <2>2. LeaseInv' /\ \A j \in Instances :
          (Superseded(j) => Superseded(j)') /\ (Blocked(j) => Blocked(j)')
    BY <2>1, LandKeeps
  <2>3. Untouched(i)
    BY <1>0, <2>1, <2>2 DEF Land, Untouched, LeaseInv, Shapes, IsLoop
  <2>4. InLimit(i)'
    BY <1>0, <2>2, <2>3, UntouchedKeeps
  <2>5. \A j \in Instances : j # i => inst'[j] = inst[j] /\ leader'[j] = leader[j] /\ over'[j] = over[j]
    BY <1>0, <2>1 DEF Land
  <2> QED BY <2>2, <2>4, <2>5, OthersInLimit
<1>5. CASE \E S \in Answering \cup {{}}, jitter \in 0 .. bound.jitter : TakeoverFails(i, S, jitter)
  <2>1. PICK S \in SUBSET LeaseAcceptors, jitter \in Nat : TakeoverFails(i, S, jitter)
    BY <1>5 DEF Answering, Up
  <2>2. LeaseInv' /\ Calm
    BY <2>1, TakeoverFailsKeeps
  <2>3. InLimit(i)'
    BY <1>0, <2>1 DEF TakeoverFails, InLimit
  <2>4. \A j \in Instances : j # i => inst'[j] = inst[j] /\ leader'[j] = leader[j] /\ over'[j] = over[j]
    BY <1>0, <2>1 DEF TakeoverFails, StandBy
  <2> QED BY <1>c, <2>2, <2>3, <2>4, OthersInLimit
<1>6. CASE \E S \in Answering \cup {{}}, jitter \in 0 .. bound.jitter : RecordFails(i, S, jitter)
  <2>1. PICK S \in SUBSET LeaseAcceptors, jitter \in Nat : RecordFails(i, S, jitter)
    BY <1>6 DEF Answering, Up
  <2>2. LeaseInv' /\ Calm
    BY <2>1, RecordFailsKeeps
  <2>3. InLimit(i)'
    BY <1>0, <2>1 DEF RecordFails, InLimit
  <2>4. \A j \in Instances : j # i => inst'[j] = inst[j] /\ leader'[j] = leader[j] /\ over'[j] = over[j]
    BY <1>0, <2>1 DEF RecordFails, StandBy
  <2> QED BY <1>c, <2>2, <2>3, <2>4, OthersInLimit
<1>7. CASE RenewDue(i)
  <2>1. LeaseInv' /\ Calm
    BY <1>7, RenewDueKeeps
  <2>2. Holds(i)'
    BY <1>0, <1>7 DEF RenewDue, Holds, LeaseInv, Shapes, IsLoop
  <2>3. InLimit(i)'
    BY <1>0, <1>7, <1>c, <2>1, <2>2, RenewDueInLimit
  <2>4. \A j \in Instances : j # i => inst'[j] = inst[j] /\ leader'[j] = leader[j] /\ over'[j] = over[j]
    BY <1>0, <1>7 DEF RenewDue
  <2> QED BY <1>c, <2>1, <2>3, <2>4, OthersInLimit, Zenon
<1>8. CASE Stalls(i)
  <2>1. LeaseInv' /\ Calm
    BY <1>8, StallsKeeps
  <2>2. Holds(i)'
    BY <1>0, <1>8 DEF Stalls, Appending, Holds, LeaseInv, Shapes, IsLoop
  <2>3. InLimit(i)'
    BY <1>0, <1>8, <1>c, <2>1, <2>2, StallsInLimit
  <2>4. \A j \in Instances : j # i => inst'[j] = inst[j] /\ leader'[j] = leader[j] /\ over'[j] = over[j]
    BY <1>0, <1>8 DEF Stalls
  <2> QED BY <1>c, <2>1, <2>3, <2>4, OthersInLimit
<1>9. CASE RecordAcked(i)
  <2>1. LeaseInv'
    BY <1>9, RecordAckedKeeps
  <2>2. InLimit(i)'
    BY <1>0, <1>9, <2>1, RecordAckedInLimit
  <2>3. \A j \in Instances : j # i => inst'[j] = inst[j] /\ leader'[j] = leader[j] /\ over'[j] = over[j]
    BY <1>0, <1>9 DEF RecordAcked
  <2>4. \A j \in Instances : j # i =>
          (Superseded(j) => Superseded(j)') /\ (Blocked(j) => Blocked(j)')
    <3>1. acc' = acc
      BY <1>9 DEF RecordAcked
    <3> QED BY <2>3, <3>1 DEF Superseded, Blocked
  <2> QED BY <2>1, <2>2, <2>3, <2>4, OthersInLimit
<1>10. CASE LeaseEnds(i)
  <2>1. LeaseInv' /\ Calm
    BY <1>10, LeaseEndsKeeps
  <2>2. InLimit(i)'
    BY <1>0, <1>10 DEF LeaseEnds, InLimit
  <2>3. \A j \in Instances : j # i => inst'[j] = inst[j] /\ leader'[j] = leader[j] /\ over'[j] = over[j]
    BY <1>0, <1>10 DEF LeaseEnds
  <2> QED BY <1>c, <2>1, <2>2, <2>3, OthersInLimit
<1>11. CASE WatermarkDue(i)
  <2>1. LeaseInv' /\ Calm
    BY <1>11, WatermarkDueKeeps
  <2>2. Holds(i)'
    BY <1>11, WatermarkDueKeeps DEF Holds
  <2>3. InLimit(i)'
    BY <1>0, <1>11, <1>c, <2>1, <2>2, WatermarkDueInLimit
  <2>4. \A j \in Instances : j # i => inst'[j] = inst[j] /\ leader'[j] = leader[j] /\ over'[j] = over[j]
    BY <1>0, <1>11, Zenon DEF WatermarkDue
  <2> QED BY <1>c, <2>1, <2>3, <2>4, OthersInLimit
<1> QED BY <1>1, <1>2, <1>3, <1>4, <1>5, <1>6, <1>7, <1>8, <1>9, <1>10, <1>11 DEF LeaseStep

\* The world's steps: an outage, a tick, and what leaves the lease alone.
LEMMA WorldKeeps ==
  ASSUME LeaseInv, OverlapInv, Outage \/ Tick \/ UNCHANGED leaseVars, UNCHANGED bound
  PROVE  LeaseInv' /\ OverlapInv'
<1>0. SUFFICES ASSUME LeaseInv' PROVE \A i \in Instances : InLimit(i)'
  <2>1. CASE Outage
    BY <1>0, <2>1, OutageKeeps DEF OverlapInv, InLimit
  <2>2. CASE Tick
    BY <1>0, <2>2, TickKeeps DEF OverlapInv, InLimit
  <2>3. CASE UNCHANGED leaseVars
    <3>1. LeaseInv'
      BY <2>3, Zenon DEF leaseVars, LeaseInv, Shapes, LogsOrdered, TermsHeld, LoopsTimed, EarlierSuperseded,
                  Holds, Superseded, Blocked, renew_interval, append_timeout, TTL
    <3> QED BY <1>0, <3>1 DEF OverlapInv, InLimit
  <2> QED BY <2>1, <2>2, <2>3
<1> SUFFICES ASSUME NEW i \in Instances PROVE InLimit(i)'
  OBVIOUS
<1>1. InLimit(i) /\ Shapes' /\ LoopsTimed'
  BY <1>0, Zenon DEF OverlapInv, InLimit, LeaseInv
<1>2. CASE Outage
  <2>1. Calm /\ inst' = inst /\ leader' = leader /\ over' = over
    BY <1>2, OutageKeeps DEF Outage
  <2>2. Holds(i)' => (Superseded(i) => Superseded(i)') /\ (Blocked(i) => Blocked(i)')
    BY <1>1, <2>1, CalmKeeps
  <2>3. CASE Holds(i)'
    BY <1>0, <1>1, <2>1, <2>2, <2>3, UntouchedKeeps DEF Untouched
  <2>4. CASE ~Holds(i)'
    <3>1. ~leader[i]
      BY <2>1, <2>4 DEF LeaseInv, LoopsTimed, Holds
    <3> QED BY <1>1, <2>1, <3>1 DEF InLimit
  <2> QED BY <2>3, <2>4
<1>3. CASE Tick
  <2>1. Calm
    BY <1>3, TickKeeps
  <2>2. Holds(i)' => (Superseded(i) => Superseded(i)') /\ (Blocked(i) => Blocked(i)')
    BY <1>1, <2>1, CalmKeeps
  <2> QED BY <1>0, <1>1, <1>3, <2>2, TickInLimit
<1>4. CASE UNCHANGED leaseVars
  <2>1. Untouched(i)
    BY <1>4 DEF leaseVars, Untouched, Superseded, Blocked
  <2> QED BY <1>0, <1>1, <2>1, UntouchedKeeps
<1> QED BY <1>2, <1>3, <1>4

\* They hold at the start.
LEMMA LeaseStarts ==
  ASSUME LeaseInit
  PROVE  LeaseInv /\ OverlapInv
<1>1. bound \in Bounds
  BY DEF LeaseInit
<1>2. TTL \in Nat /\ renew_interval \in Nat /\ append_timeout \in Nat
  BY <1>1, Intervals
<1> DEFINE held == bound.start = "held"
           Leading == [LeaseLoop EXCEPT !.pc = "lead", !.left = renew_interval, !.term = 1, !.lsn = 1,
                                !.history = {0, 1}]
<1>3. /\ IsLoop(Leading) /\ Leading.pc = "lead" /\ Leading.left = renew_interval
      /\ Leading.landed = {} /\ ~Leading.stalled /\ Leading.term = 1
      /\ Leading.history = {0, 1}
  BY <1>2 DEF LeaseLoop, IsLoop
<1>4. IsLoop(LeaseLoop) /\ LeaseLoop.pc = "standby"
  BY Zenon DEF LeaseLoop, IsLoop
<1>5. IsLoop([LeaseLoop EXCEPT !.pc = "dead"]) /\ [LeaseLoop EXCEPT !.pc = "dead"].pc = "dead"
  BY <1>4, FreshLoop, Zenon
<1>6. \A i \in Instances :
        inst[i] = IF held /\ i = 1 THEN Leading
                  ELSE IF bound.alone THEN [LeaseLoop EXCEPT !.pc = "dead"] ELSE LeaseLoop
  BY DEF LeaseInit
<1>7. /\ DOMAIN inst = Instances /\ DOMAIN acc = LeaseAcceptors
      /\ leader = [i \in Instances |-> held /\ i = 1] /\ over = [i \in Instances |-> 0]
  BY DEF LeaseInit
<1>8. \A a \in LeaseAcceptors :
        /\ IsAcceptor(acc[a]) /\ acc[a].log = acc[a].term
        /\ acc[a].term = IF held THEN 1 ELSE 0
  BY DEF LeaseInit, IsAcceptor
<1> HIDE DEF Leading, held
<1>9. Shapes
  BY <1>1, <1>3, <1>4, <1>5, <1>6, <1>7, <1>8 DEF Shapes
<1>10. LeaseAcceptors \in Majorities
  <2>1. Cardinality(LeaseAcceptors) \in Nat
    BY LeaseAssumption, FS_CardinalityType
  <2> QED BY <2>1, LeaseAssumption DEF Majorities, Quorums
<1>11. LogsOrdered
  BY <1>8 DEF LogsOrdered
<1>12. \A i \in Instances : Holds(i) =>
         held /\ i = 1 /\ inst[i].term = 1 /\ inst[i].landed = {} /\ inst[i].history = {0, 1}
  BY <1>3, <1>4, <1>5, <1>6, Zenon DEF Holds
<1>13. TermsHeld
  <2> SUFFICES ASSUME NEW i \in Instances, Holds(i)
               PROVE  /\ \A a \in LeaseAcceptors : inst[i].term <= acc[a].term
                      /\ \A j \in Instances : Holds(j) => j = i
                      /\ \A t \in inst[i].history : t <= inst[i].term
                      /\ inst[i].landed = {}
    BY <1>10 DEF TermsHeld
  <2> QED BY <1>8, <1>12
<1>14. LoopsTimed
  <2> SUFFICES ASSUME NEW i \in Instances
               PROVE  /\ leader[i] <=> inst[i].pc \in {"lead", "renew"}
                      /\ inst[i].pc = "lead" => /\ inst[i].left <= renew_interval
                                               /\ inst[i].landed = {} /\ ~inst[i].stalled
                      /\ inst[i].pc \in {"record", "renew"} => inst[i].left <= append_timeout
    BY DEF LoopsTimed
  <2>1. leader[i] <=> held /\ i = 1
    BY <1>7, Zenon
  <2>2. CASE held /\ i = 1
    BY <1>2, <1>3, <1>6, <2>1, <2>2
  <2>3. CASE ~(held /\ i = 1)
    BY <1>4, <1>5, <1>6, <2>1, <2>3, Zenon
  <2> QED BY <2>2, <2>3
<1>15. EarlierSuperseded
  <2> SUFFICES ASSUME NEW i \in Instances, NEW j \in Instances, leader[j], inst[i].term < inst[j].term
               PROVE  ~leader[i] /\ inst[i].pc # "record"
    BY DEF EarlierSuperseded
  <2>1. Holds(j) /\ (leader[i] \/ inst[i].pc = "record" => Holds(i))
    BY <1>14 DEF LoopsTimed, Holds
  <2> QED BY <1>12, <2>1
<1>16. OverlapInv
  BY <1>7 DEF OverlapInv
<1> QED BY <1>9, <1>11, <1>13, <1>14, <1>15, <1>16 DEF LeaseInv

\* The inductive invariant gives the limit.
LEMMA OverlapLimited ==
  ASSUME LeaseInv, OverlapInv
  PROVE  OverlapBounded
<1> SUFFICES ASSUME NEW i \in Instances PROVE over[i] <= renew_interval + 4 * append_timeout
  BY DEF OverlapBounded
<1>1. over[i] > 0 => over[i] + TicksLeft(i) <= OverlapLimit
  BY DEF OverlapInv
<1> QED BY <1>1, Ticks DEF OverlapLimit

-----------------------------------------------------------------------------
(* The theorem.                                                            *)

\* They are inductive.
LEMMA LeaseKeeps ==
  LeaseInv /\ OverlapInv /\ [LeaseNext]_<<bound, leaseVars>> => (LeaseInv /\ OverlapInv)'
<1> SUFFICES ASSUME LeaseInv, OverlapInv, [LeaseNext]_<<bound, leaseVars>>
             PROVE  LeaseInv' /\ OverlapInv'
  OBVIOUS
<1>1. UNCHANGED bound
  BY DEF LeaseNext
<1>2. CASE \E i \in Instances : LeaseStep(i)
  BY <1>1, <1>2, LeaseStepKeeps
<1>3. CASE Outage \/ Tick \/ UNCHANGED leaseVars
  BY <1>1, <1>3, WorldKeeps
<1> QED BY <1>2, <1>3 DEF LeaseNext

\* An instance that lost the lease goes on calling itself leader for at most one renewal
\* interval and four append timeouts of lease.rs, whatever the instances, the acceptors,
\* the intervals and the terms: the renewal it blocks in fails on the higher term, and
\* the loop demotes.
THEOREM LeadershipOverlapBounded == LeaseSpec => []OverlapBounded
<1>1. LeaseInv /\ OverlapInv => OverlapBounded
  BY OverlapLimited
<1>2. LeaseInit => LeaseInv /\ OverlapInv
  BY LeaseStarts
<1> QED BY LeaseKeeps, <1>1, <1>2, PTL DEF LeaseSpec
=============================================================================
