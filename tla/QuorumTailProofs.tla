-------------------------- MODULE QuorumTailProofs --------------------------
(***************************************************************************)
(* Proofs about the replicated tail, for every set of acceptors, every     *)
(* bound and every number of server runs.                                  *)
(***************************************************************************)
EXTENDS QuorumTail, FiniteSetTheorems, TLAPS

\* Max of FiniteSetsExt is a greatest element of every finite set that is not
\* empty: open and reelect campaign above the greatest term they were told.
LEMMA MaxOfFinite ==
  ASSUME NEW S \in SUBSET Int, IsFiniteSet(S), S # {}
  PROVE  Max(S) \in S /\ \A x \in S : x <= Max(S)
<1>1. PICK seq \in Seq(S) : \A s \in S : \E n \in 1 .. Len(seq) : seq[n] = s
  BY DEF IsFiniteSet
<1> DEFINE Good == {n \in 0 .. Len(seq) : \E x \in S : \A i \in 1 .. n : seq[i] <= x}
           Bad == (0 .. Len(seq)) \ Good
<1>2. Len(seq) \in Nat /\ \A i \in 1 .. Len(seq) : seq[i] \in S
  OBVIOUS
<1>3. Bad = {}
  <2>1. SUFFICES ASSUME Bad # {} PROVE FALSE
    OBVIOUS
  <2>2. Bad \subseteq Nat
    BY <1>2
  <2>3. PICK m \in Bad : \A k \in Bad : ~ (<<k, m>> \in OpToRel(<, Nat))
    <3> HIDE DEF Bad
    <3> QED BY <2>1, <2>2, NatLessThanWellFounded, WFMin, Zenon
  <2>4. \A k \in Bad : ~ (k < m)
    BY <2>2, <2>3 DEF OpToRel
  <2>m. m \in 0 .. Len(seq) /\ m \notin Good
    OBVIOUS
  <2>5. m # 0
    <3>1. PICK x \in S : TRUE
      OBVIOUS
    <3>2. \A i \in 1 .. 0 : seq[i] <= x
      OBVIOUS
    <3>3. 0 \in Good
      BY <3>2, <1>2
    <3> QED BY <2>m, <3>3
  <2>6. m - 1 \in Good
    <3>1. m - 1 \in 0 .. Len(seq) /\ m - 1 < m
      BY <1>2, <2>m, <2>5
    <3>2. m - 1 \notin Bad
      BY <2>4, <3>1
    <3> QED BY <3>1, <3>2
  <2>7. PICK x \in S : \A i \in 1 .. m - 1 : seq[i] <= x
    BY <2>6
  <2>8. seq[m] \in S /\ m \in 1 .. Len(seq)
    BY <1>2, <2>5
  <2>9. \E y \in S : \A i \in 1 .. m : seq[i] <= y
    <3>1. CASE seq[m] <= x
      BY <2>7, <2>8, <3>1
    <3>2. CASE ~ (seq[m] <= x)
      <4>1. \A i \in 1 .. m : seq[i] <= seq[m]
        <5> SUFFICES ASSUME NEW i \in 1 .. m PROVE seq[i] <= seq[m]
          OBVIOUS
        <5>1. i = m \/ i \in 1 .. m - 1
          BY <2>8
        <5>2. seq[i] \in Int /\ seq[m] \in Int /\ x \in Int
          <6>1. i \in 1 .. Len(seq)
            BY <1>2, <2>8
          <6>2. seq[i] \in S /\ seq[m] \in S
            BY <1>2, <2>8, <6>1
          <6> HIDE DEF Bad
          <6> QED BY <6>2
        <5> QED BY <2>7, <3>2, <5>1, <5>2
      <4> QED BY <4>1, <2>8
    <3> QED BY <3>1, <3>2
  <2> QED BY <2>m, <2>9
<1>4. PICK x \in S : \A i \in 1 .. Len(seq) : seq[i] <= x
  BY <1>2, <1>3
<1>5. \A y \in S : x >= y
  BY <1>1, <1>2, <1>4
<1>6. \E z \in S : \A y \in S : z >= y
  BY <1>5
<1>7. Max(S) \in S /\ \A y \in S : Max(S) >= y
  BY <1>6 DEF Max
<1> QED BY <1>7

-----------------------------------------------------------------------------
(* The inductive invariant of TermOwned.                                   *)

HasTerm(x) == "term" \in DOMAIN x /\ x.term \in Nat
IsRun(r) == {"st", "term"} \subseteq DOMAIN r /\ r.term \in Nat
IsCamp(c) ==
  /\ {"term", "live", "votes"} \subseteq DOMAIN c
  /\ c.term \in Nat /\ c.live \subseteq Acceptors /\ DOMAIN c.votes \subseteq Acceptors
IsRequest(m) ==
  m.kind \in {"vote", "elected", "append"} /\ m.to \in Acceptors /\ m.term \in Nat

\* What the argument needs of the shape of the state: the terms are numbers,
\* those of requests in flight included.
AccShaped == DOMAIN acc = Acceptors /\ \A a \in Acceptors : HasTerm(acc[a])
RunsShaped == DOMAIN srv = Servers /\ \A s \in Servers : IsRun(srv[s])
CampsShaped == DOMAIN camp = Servers /\ \A s \in Servers : IsCamp(camp[s])
LinksShaped ==
  /\ DOMAIN link = Servers
  /\ \A s \in Servers :
       DOMAIN link[s] = Acceptors /\ \A a \in Acceptors : HasTerm(link[s][a])
StaleShaped == \A m \in stale : IsRequest(m)
Shaped == AccShaped /\ RunsShaped /\ CampsShaped /\ LinksShaped /\ StaleShaped

\* A server that was elected and has not stopped since.
Holding(s) == srv[s].st \in {"read", "elect", "lead"}

\* A vote binds the acceptor to the term.
VotesBind ==
  \A s \in Servers : \A a \in Voters(s) : acc[a].term >= camp[s].term

\* An acceptor votes for one server in a term.
VotesOnce ==
  \A s, t \in Servers :
    s # t /\ camp[s].term = camp[t].term => Voters(s) \cap Voters(t) = {}

\* The acceptors in Q are bound to the term and vote for no other server in it.
Backs(Q, s, term) ==
  /\ \A a \in Q : acc[a].term >= term
  /\ \A t \in Servers : t # s /\ camp[t].term = term => Q \cap Voters(t) = {}

\* The quorum that elected a server still backs it.
HoldersBacked ==
  \A s \in Servers : Holding(s) =>
    \E Q \in SUBSET Acceptors : Cardinality(Q) >= QUORUM /\ Backs(Q, s, srv[s].term)

TermInv == Shaped /\ VotesBind /\ VotesOnce /\ HoldersBacked /\ TermOwned

-----------------------------------------------------------------------------
(* Steps that elect nobody: the acceptors' terms grow, nobody becomes a    *)
(* holder, and no campaign gains a vote.                                   *)

TermsGrow == \A a \in Acceptors : acc[a].term <= acc'[a].term

RunsKept ==
  \A s \in Servers : Holding(s)' => Holding(s) /\ srv'[s].term = srv[s].term

CampsKept ==
  \A s \in Servers :
    \/ Voters(s)' = {}
    \/ camp'[s].term = camp[s].term /\ Voters(s)' = Voters(s)

\* A step that elects nobody keeps the invariant.
LEMMA QuietStep ==
  ASSUME TermInv, Shaped', TermsGrow, RunsKept, CampsKept
  PROVE  TermInv'
<1> USE DEF TermInv
<1>1. VotesBind'
  <2> SUFFICES ASSUME NEW s \in Servers, NEW a \in Voters(s)'
               PROVE  acc'[a].term >= camp'[s].term
    BY DEF VotesBind
  <2>1. camp'[s].term = camp[s].term /\ a \in Voters(s)
    BY DEF CampsKept
  <2>2. a \in Acceptors /\ acc[a].term \in Nat /\ acc'[a].term \in Nat /\ camp[s].term \in Nat
    BY <2>1 DEF Shaped, AccShaped, CampsShaped, HasTerm, IsCamp, Voters
  <2> QED BY <2>1, <2>2 DEF VotesBind, TermsGrow
<1>2. VotesOnce'
  BY DEF VotesOnce, CampsKept
<1>3. HoldersBacked'
  <2> SUFFICES ASSUME NEW s \in Servers, Holding(s)'
               PROVE  \E Q \in SUBSET Acceptors :
                        Cardinality(Q) >= QUORUM /\ Backs(Q, s, srv[s].term)'
    BY DEF HoldersBacked
  <2>1. Holding(s) /\ srv'[s].term = srv[s].term
    BY DEF RunsKept
  <2>2. PICK Q \in SUBSET Acceptors : Cardinality(Q) >= QUORUM /\ Backs(Q, s, srv[s].term)
    BY <2>1 DEF HoldersBacked
  <2>3. \A a \in Q : acc'[a].term >= srv[s].term
    <3> SUFFICES ASSUME NEW a \in Q PROVE acc'[a].term >= srv[s].term
      OBVIOUS
    <3>1. acc[a].term \in Nat /\ acc'[a].term \in Nat /\ srv[s].term \in Nat
      BY DEF Shaped, AccShaped, RunsShaped, HasTerm, IsRun
    <3> QED BY <2>2, <3>1 DEF Backs, TermsGrow
  <2>4. ASSUME NEW t \in Servers, t # s, camp'[t].term = srv[s].term
        PROVE  Q \cap Voters(t)' = {}
    BY <2>2, <2>4 DEF Backs, CampsKept
  <2> QED BY <2>1, <2>2, <2>3, <2>4 DEF Backs
<1>4. TermOwned'
  BY DEF TermOwned, RunsKept, Holding
<1> QED BY <1>1, <1>2, <1>3, <1>4

\* An acceptor that grants a term is bound to no term as high: handle_vote.
LEMMA VoteStep ==
  ASSUME TermInv, Shaped', NEW s \in Servers, NEW a \in Acceptors,
         TermsGrow, UNCHANGED srv,
         acc[a].term < camp[s].term, acc'[a].term = camp[s].term,
         Voters(s)' = Voters(s) \cup {a}, \A t \in Servers : camp'[t].term = camp[t].term,
         \A t \in Servers \ {s} : Voters(t)' = Voters(t)
  PROVE  TermInv'
<1> USE DEF TermInv
<1>t. /\ \A b \in Acceptors : acc[b].term \in Nat /\ acc'[b].term \in Nat
      /\ \A t \in Servers : /\ camp[t].term \in Nat /\ srv[t].term \in Nat
                            /\ Voters(t) \subseteq Acceptors
  BY DEF Shaped, AccShaped, CampsShaped, RunsShaped, HasTerm, IsCamp, IsRun, Voters
<1>1. VotesBind'
  <2> SUFFICES ASSUME NEW t \in Servers, NEW b \in Voters(t)'
               PROVE  acc'[b].term >= camp[t].term
    BY DEF VotesBind
  <2>1. CASE t = s /\ b = a
    BY <1>t, <2>1
  <2>2. CASE b \in Voters(t)
    BY <1>t, <2>2 DEF VotesBind, TermsGrow
  <2> QED BY <2>1, <2>2
<1>2. \A t \in Servers : camp[t].term = camp[s].term => a \notin Voters(t)
  BY <1>t DEF VotesBind
<1>3. VotesOnce'
  <2> SUFFICES ASSUME NEW t \in Servers, NEW u \in Servers, t # u, camp[t].term = camp[u].term
               PROVE  (Voters(t) \cap Voters(u) = {})'
    BY DEF VotesOnce
  <2>1. Voters(t) \cap Voters(u) = {}
    BY DEF VotesOnce
  <2> QED BY <1>2, <2>1
<1>4. HoldersBacked'
  <2> SUFFICES ASSUME NEW t \in Servers, Holding(t)
               PROVE  \E Q \in SUBSET Acceptors :
                        Cardinality(Q) >= QUORUM /\ Backs(Q, t, srv[t].term)'
    BY DEF HoldersBacked, Holding
  <2>1. PICK Q \in SUBSET Acceptors : Cardinality(Q) >= QUORUM /\ Backs(Q, t, srv[t].term)
    BY DEF HoldersBacked
  <2>2. \A b \in Q : acc'[b].term >= srv[t].term
    BY <1>t, <2>1 DEF Backs, TermsGrow
  <2>3. ASSUME NEW u \in Servers, u # t, camp[u].term = srv[t].term
        PROVE  Q \cap Voters(u)' = {}
    <3>1. Q \cap Voters(u) = {}
      BY <2>1, <2>3 DEF Backs
    <3>2. CASE u = s
      <4>1. a \notin Q
        BY <1>t, <2>1, <2>3, <3>2 DEF Backs
      <4> QED BY <3>1, <3>2, <4>1
    <3> QED BY <3>1, <3>2
  <2> QED BY <2>1, <2>2, <2>3 DEF Backs
<1>5. TermOwned'
  BY DEF TermOwned
<1> QED BY <1>1, <1>3, <1>4, <1>5

\* A quorum of votes excludes another holder of the term: it would be backed by
\* a quorum that has no voter in common with this one.
LEMMA ElectStep ==
  ASSUME TermInv, Shaped', NEW s \in Servers,
         UNCHANGED acc, Cardinality(Voters(s)) >= QUORUM,
         srv'[s].term = camp[s].term,
         \A t \in Servers \ {s} : srv'[t] = srv[t],
         CampsKept
  PROVE  TermInv'
<1> USE DEF TermInv
<1>t. \A t \in Servers : Voters(t) \subseteq Acceptors
  BY DEF Shaped, CampsShaped, IsCamp, Voters
<1>g. TermsGrow
  BY DEF TermsGrow, Shaped, AccShaped, HasTerm
<1>1. VotesBind'
  BY DEF VotesBind, CampsKept
<1>2. VotesOnce'
  BY DEF VotesOnce, CampsKept
<1>3. Backs(Voters(s), s, camp[s].term)
  BY DEF Backs, VotesBind, VotesOnce
<1>4. \A t \in Servers : t # s /\ Holding(t) => srv[t].term # camp[s].term
  <2> SUFFICES ASSUME NEW t \in Servers, t # s, Holding(t), srv[t].term = camp[s].term
               PROVE  FALSE
    OBVIOUS
  <2>1. PICK Q \in SUBSET Acceptors : Cardinality(Q) >= QUORUM /\ Backs(Q, t, srv[t].term)
    BY DEF HoldersBacked
  <2>2. Q \cap Voters(s) = {}
    BY <2>1 DEF Backs
  <2>3. Cardinality(Q) + Cardinality(Voters(s)) > Cardinality(Acceptors)
    <3>1. Cardinality(Q) \in Nat /\ Cardinality(Voters(s)) \in Nat /\ Cardinality(Acceptors) \in Nat
      BY <1>t, ConstantsAssumption, FS_Subset, FS_CardinalityType
    <3> QED BY <2>1, <3>1, ConstantsAssumption
  <2> QED BY <1>t, <2>2, <2>3, ConstantsAssumption, FS_MajoritiesIntersect
<1>5. HoldersBacked'
  <2> SUFFICES ASSUME NEW t \in Servers, Holding(t)'
               PROVE  \E Q \in SUBSET Acceptors :
                        Cardinality(Q) >= QUORUM /\ Backs(Q, t, srv[t].term)'
    BY DEF HoldersBacked
  <2>1. \A Q \in SUBSET Acceptors : \A n : Backs(Q, t, n) => Backs(Q, t, n)'
    BY DEF Backs, CampsKept
  <2>2. CASE t = s
    BY <1>t, <1>3, <2>1, <2>2 DEF Backs
  <2>3. CASE t # s
    <3>1. Holding(t) /\ srv'[t].term = srv[t].term
      BY <2>3 DEF Holding
    <3> QED BY <2>1, <3>1 DEF HoldersBacked, Backs
  <2> QED BY <2>2, <2>3
<1>6. TermOwned'
  <2> SUFFICES ASSUME NEW t \in Servers, NEW u \in Servers, Holding(t)', Holding(u)',
                      srv'[t].term = srv'[u].term, t # u
               PROVE  FALSE
    BY DEF TermOwned, Holding
  <2>1. \A v \in Servers \ {s} : Holding(v)' => Holding(v) /\ srv'[v].term # camp[s].term
    BY <1>4 DEF Holding
  <2>2. t # s /\ u # s
    BY <2>1
  <2> QED BY <2>2 DEF TermOwned, Holding
<1> QED BY <1>1, <1>2, <1>5, <1>6

-----------------------------------------------------------------------------
(* What the acceptor's operations do to its term: only a vote or Elected   *)
(* raises it, and nothing lowers it.                                       *)

\* handle_vote
LEMMA AfterVoteTerm ==
  ASSUME NEW x, HasTerm(x), NEW term \in Nat
  PROVE  /\ HasTerm(AfterVote(x, term)) /\ x.term <= AfterVote(x, term).term
         /\ Grants(x, term) => AfterVote(x, term).term = term
BY DEF HasTerm, AfterVote, Grants, Persist

\* SegmentWal::truncate_from
LEMMA TruncateFromTerm ==
  ASSUME NEW x, HasTerm(x), NEW lsn
  PROVE  HasTerm(TruncateFrom(x, lsn)) /\ TruncateFrom(x, lsn).term = x.term
BY DEF HasTerm, TruncateFrom

\* handle_elected
LEMMA AfterElectedTerm ==
  ASSUME NEW x, HasTerm(x), NEW term \in Nat, NEW start, NEW history
  PROVE  /\ HasTerm(AfterElected(x, term, start, history))
         /\ x.term <= AfterElected(x, term, start, history).term
<1> DEFINE x1 == AdoptTerm(x, term)
           x2 == TruncateFrom(x1, start)
<1>1. HasTerm(x1) /\ x.term <= x1.term
  BY AfterVoteTerm DEF AdoptTerm
<1>2. HasTerm(x2) /\ x2.term = x1.term
  BY <1>1, TruncateFromTerm
<1>3. HasTerm(AdoptHistory(x2, history)) /\ AdoptHistory(x2, history).term = x2.term
  <2> HIDE DEF x2
  <2> QED BY <1>2 DEF AdoptHistory, Persist, HasTerm
<1>4. AfterElected(x, term, start, history) \in {x1, AdoptHistory(x2, history)}
  BY DEF AfterElected
<1> HIDE DEF x1, x2
<1> QED BY <1>1, <1>2, <1>3, <1>4

\* handle_append
LEMMA AfterAppendTerm ==
  ASSUME NEW x, HasTerm(x), NEW m, NEW y \in AfterAppendAll(x, m)
  PROVE  HasTerm(y) /\ y.term = x.term
<1> DEFINE x1 == WalAppend(x, m.begin, m.recs)
           x2 == [x1 EXCEPT !.commit = Least(Most(m.commit, x1.commit), Flush(x1))]
           h == Most(x2.horizon, Least(m.horizon, x2.commit))
           x3 == Persist([x2 EXCEPT !.horizon = h])
           Cut(n) == [x3 EXCEPT !.start = n,
                                !.log = SubSeq(x3.log, n - x3.start + 1, Len(x3.log))]
<1>1. HasTerm(x1) /\ x1.term = x.term
  BY DEF WalAppend, HasTerm
<1>2. HasTerm(x2) /\ x2.term = x1.term
  <2> HIDE DEF x1
  <2> QED BY <1>1 DEF HasTerm
<1>3. HasTerm(x3) /\ x3.term = x2.term
  <2> HIDE DEF x2, h
  <2> QED BY <1>2 DEF HasTerm, Persist
<1>4. \A n : HasTerm(Cut(n)) /\ Cut(n).term = x3.term
  <2> HIDE DEF x3
  <2> QED BY <1>3 DEF HasTerm
<1>5. y = x2 \/ \E n : y = Cut(n)
  BY DEF AfterAppendAll
<1> HIDE DEF x1, x2, x3, Cut
<1> QED BY <1>1, <1>2, <1>3, <1>4, <1>5

\* Acceptor::new
LEMMA RebootTerm ==
  ASSUME NEW x, HasTerm(x)
  PROVE  HasTerm(Reboot(x)) /\ Reboot(x).term = x.term
<1> DEFINE x1 == IF x.log = <<>> THEN [x EXCEPT !.start = 0, !.empty = TRUE] ELSE x
<1>1. HasTerm(x1) /\ x1.term = x.term
  BY DEF HasTerm
<1>2. Reboot(x) = [x1 EXCEPT !.commit = Least(x.saved, Flush(x1))]
  BY DEF Reboot
<1> HIDE DEF x1
<1> QED BY <1>1, <1>2 DEF HasTerm

-----------------------------------------------------------------------------
(* The updates the actions are made of. *)

\* A step that leaves the acceptors alone.
LEMMA AcceptorUnchanged ==
  ASSUME Shaped, UNCHANGED acc
  PROVE  AccShaped' /\ TermsGrow
BY DEF Shaped, AccShaped, TermsGrow, HasTerm

\* A step that changes one acceptor and does not lower its term.
LEMMA AcceptorSet ==
  ASSUME Shaped, NEW a \in Acceptors, NEW x, HasTerm(x), acc[a].term <= x.term,
         acc' = [acc EXCEPT ![a] = x]
  PROVE  AccShaped' /\ TermsGrow
BY DEF Shaped, AccShaped, TermsGrow, HasTerm

\* A run that keeps its term, and its state or one in which it holds nothing.
KeepsTerm(r, r1) ==
  /\ IsRun(r1) /\ r1.term = r.term
  /\ r1.st = r.st \/ r1.st \notin {"read", "elect", "lead"}

\* A step that leaves the server runs alone.
LEMMA RunUnchanged ==
  ASSUME Shaped, UNCHANGED srv
  PROVE  RunsShaped' /\ RunsKept
BY DEF Shaped, RunsShaped, RunsKept, Holding

\* A step that changes one server run, which keeps its term.
LEMMA RunSet ==
  ASSUME Shaped, NEW s \in Servers, NEW r, KeepsTerm(srv[s], r),
         srv' = [srv EXCEPT ![s] = r]
  PROVE  RunsShaped' /\ RunsKept
BY DEF Shaped, RunsShaped, RunsKept, Holding, KeepsTerm

\* A step that leaves the campaigns alone.
LEMMA CampUnchanged ==
  ASSUME Shaped, UNCHANGED camp
  PROVE  CampsShaped' /\ CampsKept
BY DEF Shaped, CampsShaped, CampsKept, Voters

\* A server that does not campaign has no votes.
LEMMA NoCampShape == IsCamp(NoCamp) /\ DOMAIN NoCamp.votes = {}
BY DEF IsCamp, NoCamp

\* A campaign starts, or ends, without votes.
LEMMA CampSet ==
  ASSUME Shaped, NEW s \in Servers, NEW c, IsCamp(c), DOMAIN c.votes = {},
         camp' = [camp EXCEPT ![s] = c]
  PROVE  CampsShaped' /\ CampsKept
BY DEF Shaped, CampsShaped, CampsKept, Voters

\* A step that leaves the connections alone.
LEMMA LinkUnchanged ==
  ASSUME Shaped, UNCHANGED link
  PROVE  LinksShaped'
BY DEF Shaped, LinksShaped

\* A step that changes one connection.
LEMMA LinkSet ==
  ASSUME Shaped, NEW s \in Servers, NEW a \in Acceptors, NEW l, HasTerm(l), SetLink(s, a, l)
  PROVE  LinksShaped'
BY DEF Shaped, LinksShaped, SetLink

\* A connection that is down has a term, too.
LEMMA DownShape == HasTerm(Down)
BY DEF HasTerm, Down

\* A step that abandons no request.
LEMMA StaleUnchanged ==
  ASSUME Shaped, UNCHANGED stale
  PROVE  StaleShaped'
BY DEF Shaped, StaleShaped

\* A step that abandons a request.
LEMMA StaleAbandon ==
  ASSUME Shaped, NEW m, IsRequest(m), Abandon(m)
  PROVE  StaleShaped'
BY DEF Shaped, StaleShaped, Abandon

\* A server that stops holds nothing and campaigns for nothing (poison).
LEMMA DiesStep ==
  ASSUME Shaped, NEW s \in Servers, Dies(s)
  PROVE  RunsShaped' /\ RunsKept /\ CampsShaped' /\ CampsKept /\ LinksShaped'
<1>1. RunsShaped' /\ RunsKept
  BY DEF Dies, DeadServer, NewServer, Shaped, RunsShaped, RunsKept, Holding, IsRun
<1>2. CampsShaped' /\ CampsKept
  BY CampSet, NoCampShape DEF Dies
<1>3. LinksShaped'
  BY DownShape DEF Dies, Shaped, LinksShaped
<1> QED BY <1>1, <1>2, <1>3

\* What every step does.
Advances == TermInv' /\ TermsGrow

\* The parts a step of no election is made of.
LEMMA QuietParts ==
  ASSUME TermInv, AccShaped', TermsGrow, RunsShaped', RunsKept, CampsShaped', CampsKept,
         LinksShaped', StaleShaped'
  PROVE  Advances
BY QuietStep DEF Advances, Shaped

-----------------------------------------------------------------------------
(* Elections. *)

\* open and reelect campaign in a term that is a number above those they saw.
LEMMA CampaignStep ==
  ASSUME Shaped, NEW s \in Servers, NEW floor \in Nat, Campaign(s, floor)
  PROVE  CampsShaped' /\ CampsKept
<1>1. PICK live \in SUBSET Acceptors :
        camp' = [camp EXCEPT ![s] =
          [term |-> Max({acc[a].term : a \in live} \cup {floor}) + 1, live |-> live, votes |-> <<>>]]
  BY Zenon DEF Campaign
<1> DEFINE told == {acc[a].term : a \in live}
           seen == told \cup {floor}
           c == [term |-> Max(seen) + 1, live |-> live, votes |-> <<>>]
<1>2. seen \in SUBSET Nat
  BY DEF Shaped, AccShaped, HasTerm
<1>3. IsFiniteSet(seen)
  <2>1. IsFiniteSet(live)
    BY ConstantsAssumption, FS_Subset
  <2>2. IsFiniteSet(told)
    <3> DEFINE f == [a \in live |-> acc[a].term]
    <3>1. f \in Surjection(live, told)
      BY DEF Surjection
    <3> QED BY <2>1, <3>1, FS_Surjection
  <2> QED BY <2>2, FS_AddElement
<1>4. Max(seen) \in Nat
  <2> HIDE DEF told
  <2>1. seen # {} /\ seen \in SUBSET Int
    BY <1>2
  <2> HIDE DEF seen
  <2>2. Max(seen) \in seen
    BY <1>3, <2>1, MaxOfFinite, Zenon
  <2> QED BY <1>2, <2>2
<1>5. IsCamp(c) /\ DOMAIN c.votes = {}
  <2> HIDE DEF seen
  <2> QED BY <1>4 DEF IsCamp
<1>6. camp' = [camp EXCEPT ![s] = c]
  BY <1>1
<1> HIDE DEF c
<1> QED BY <1>5, <1>6, CampSet, Zenon

\* open 1-3: a run greets the acceptors and campaigns.
LEMMA GreetKeeps ==
  ASSUME TermInv, NEW s \in Servers, Greet(s)
  PROVE  Advances
<1> USE DEF TermInv
<1>1. AccShaped' /\ TermsGrow
  BY AcceptorUnchanged DEF Greet
<1>2. RunsShaped' /\ RunsKept
  <2>1. KeepsTerm(srv[s], [srv[s] EXCEPT !.st = "open"])
    BY DEF KeepsTerm, Shaped, RunsShaped, IsRun
  <2>2. srv' = [srv EXCEPT ![s] = [srv[s] EXCEPT !.st = "open"]]
    BY DEF Greet
  <2> QED BY <2>1, <2>2, RunSet, Zenon
<1>3. CampsShaped' /\ CampsKept
  BY CampaignStep DEF Greet
<1>4. LinksShaped' /\ StaleShaped'
  BY LinkUnchanged, StaleUnchanged DEF Greet
<1> QED BY <1>1, <1>2, <1>3, <1>4, QuietParts

\* reelect 1: a leader campaigns again.
LEMMA RegreetKeeps ==
  ASSUME TermInv, NEW s \in Servers, Regreet(s)
  PROVE  Advances
<1> USE DEF TermInv
<1>1. AccShaped' /\ TermsGrow
  BY AcceptorUnchanged DEF Regreet
<1>2. RunsShaped' /\ RunsKept
  BY RunUnchanged DEF Regreet
<1>3. CampsShaped' /\ CampsKept
  <2>1. srv[s].term \in Nat
    BY DEF Shaped, RunsShaped, IsRun
  <2> QED BY <2>1, CampaignStep DEF Regreet
<1>4. LinksShaped' /\ StaleShaped'
  BY LinkUnchanged, StaleUnchanged DEF Regreet
<1> QED BY <1>1, <1>2, <1>3, <1>4, QuietParts

\* handle_vote grants the vote.
LEMMA VoteKeeps ==
  ASSUME TermInv, NEW s \in Servers, NEW a \in Acceptors, Vote(s, a)
  PROVE  Advances
<1> USE DEF TermInv
<1> DEFINE votes == [v \in Voters(s) \cup {a} |->
                       IF v = a THEN VoteAnswer(acc[a]) ELSE camp[s].votes[v]]
           x == AfterVote(acc[a], camp[s].term)
<1>1. /\ HasTerm(acc[a]) /\ camp[s].term \in Nat /\ Grants(acc[a], camp[s].term)
      /\ acc' = [acc EXCEPT ![a] = x] /\ camp' = [camp EXCEPT ![s].votes = votes]
  BY DEF Vote, Shaped, AccShaped, CampsShaped, IsCamp
<1>2. HasTerm(x) /\ acc[a].term <= x.term /\ x.term = camp[s].term
  BY <1>1, AfterVoteTerm
<1>3. AccShaped' /\ TermsGrow /\ acc'[a].term = camp[s].term
  <2> HIDE DEF x
  <2>1. AccShaped' /\ TermsGrow
    BY <1>1, <1>2, AcceptorSet, Zenon
  <2> QED BY <1>1, <1>2, <2>1 DEF Shaped, AccShaped
<1>4. /\ CampsShaped' /\ Voters(s)' = Voters(s) \cup {a}
      /\ \A t \in Servers : camp'[t].term = camp[t].term
      /\ \A t \in Servers \ {s} : Voters(t)' = Voters(t)
  <2>1. DOMAIN votes = Voters(s) \cup {a}
    OBVIOUS
  <2> HIDE DEF votes
  <2> QED BY <1>1, <2>1 DEF Shaped, CampsShaped, IsCamp, Voters
<1>5. LinksShaped'
  BY DownShape DEF Vote, Shaped, LinksShaped
<1>6. RunsShaped' /\ StaleShaped' /\ UNCHANGED srv
  BY RunUnchanged, StaleUnchanged DEF Vote
<1>7. Shaped'
  BY <1>3, <1>4, <1>5, <1>6 DEF Shaped
<1>8. acc[a].term < camp[s].term
  BY <1>1 DEF Grants
<1> HIDE DEF votes, x
<1>9. TermInv'
  BY <1>3, <1>4, <1>6, <1>7, <1>8, VoteStep
<1> QED BY <1>3, <1>9 DEF Advances

\* A refused vote stops the server.
LEMMA VoteRefusedKeeps ==
  ASSUME TermInv, NEW s \in Servers, NEW a \in Acceptors, VoteRefused(s, a)
  PROVE  Advances
BY DiesStep, AcceptorUnchanged, StaleUnchanged, QuietParts DEF VoteRefused, TermInv

\* A vote request that is lost, or handled late.
LEMMA VoteLostKeeps ==
  ASSUME TermInv, NEW s \in Servers, NEW a \in Acceptors, VoteLost(s, a)
  PROVE  Advances
<1> USE DEF TermInv
<1>1. AccShaped' /\ TermsGrow /\ RunsShaped' /\ RunsKept /\ LinksShaped'
  BY AcceptorUnchanged, RunUnchanged, LinkUnchanged DEF VoteLost
<1>2. CampsShaped' /\ CampsKept
  BY DEF VoteLost, Shaped, CampsShaped, CampsKept, Voters, IsCamp
<1>3. StaleShaped'
  <2>1. IsRequest([kind |-> "vote", to |-> a, term |-> camp[s].term])
    BY DEF IsRequest, Shaped, CampsShaped, IsCamp
  <2> QED BY <2>1, StaleAbandon DEF VoteLost
<1> QED BY <1>1, <1>2, <1>3, QuietParts

\* open 5: the download keeps the term.
LEMMA DownloadKeeps ==
  ASSUME TermInv, NEW s \in Servers, Download(s)
  PROVE  Advances
<1> USE DEF TermInv
<1>1. AccShaped' /\ TermsGrow /\ StaleShaped'
  <2>1. UNCHANGED <<acc, stale>>
    BY Zenon DEF Download
  <2> QED BY <2>1, AcceptorUnchanged, StaleUnchanged
<1>2. CASE Dies(s)
  BY <1>1, <1>2, DiesStep, QuietParts
<1>3. ASSUME NEW log, srv' = [srv EXCEPT ![s].log = log], UNCHANGED <<camp, link>>
      PROVE  Advances
  <2> DEFINE r == [srv[s] EXCEPT !.log = log]
  <2>1. srv' = [srv EXCEPT ![s] = r]
    BY <1>3
  <2>2. KeepsTerm(srv[s], r)
    BY DEF KeepsTerm, Shaped, RunsShaped, IsRun
  <2> HIDE DEF r
  <2>3. RunsShaped' /\ RunsKept
    BY <2>1, <2>2, RunSet, Zenon
  <2>4. CampsShaped' /\ CampsKept /\ LinksShaped'
    BY <1>3, CampUnchanged, LinkUnchanged
  <2> QED BY <1>1, <2>3, <2>4, QuietParts
<1>4. \/ Dies(s)
      \/ /\ \E log : srv' = [srv EXCEPT ![s].log = log]
         /\ UNCHANGED <<camp, link>>
  BY Zenon DEF Download
<1> QED BY <1>2, <1>3, <1>4

\* open 4, and the part of reelect that adopts the new term.
LEMMA WinStep ==
  ASSUME TermInv, NEW s \in Servers, NEW r, IsRun(r), r.term = camp[s].term,
         srv' = [srv EXCEPT ![s] = r], Cardinality(Voters(s)) >= QUORUM,
         UNCHANGED <<acc, stale>>, CampsShaped', CampsKept, LinksShaped'
  PROVE  Advances
<1> USE DEF TermInv
<1>1. /\ RunsShaped' /\ srv'[s].term = camp[s].term
      /\ \A t \in Servers \ {s} : srv'[t] = srv[t]
  BY DEF Shaped, RunsShaped
<1>2. AccShaped' /\ TermsGrow /\ StaleShaped'
  BY AcceptorUnchanged, StaleUnchanged
<1>3. Shaped'
  BY <1>1, <1>2 DEF Shaped
<1>4. TermInv'
  BY <1>1, <1>3, ElectStep
<1> QED BY <1>2, <1>4 DEF Advances

\* open 4: a quorum of votes elects the server.
LEMMA ElectKeeps ==
  ASSUME TermInv, NEW s \in Servers, Elect(s)
  PROVE  Advances
<1> USE DEF TermInv
<1>1. UNCHANGED <<acc, stale>>
  BY Zenon DEF Elect
<1>2. CASE Dies(s)
  BY <1>1, <1>2, DiesStep, AcceptorUnchanged, StaleUnchanged, QuietParts
<1>3. CASE ~ Dies(s)
  <2> DEFINE Horizon == Max({camp[s].votes[v].horizon : v \in Voters(s)})
             Elected(d) == [srv[s] EXCEPT
               !.st = "read", !.donor = d, !.term = camp[s].term,
               !.tstart = camp[s].votes[d].flush, !.openAt = camp[s].votes[d].flush,
               !.history = Append(camp[s].votes[d].history,
                                  [term |-> camp[s].term, lsn |-> camp[s].votes[d].flush]),
               !.start = Horizon, !.horizon = Horizon]
  <2>1. PICK d \in Voters(s) : /\ Cardinality(Voters(s)) >= QUORUM
                               /\ srv' = [srv EXCEPT ![s] = Elected(d)]
                               /\ UNCHANGED <<camp, link>>
    BY <1>3, Zenon DEF Elect
  <2>2. IsRun(Elected(d)) /\ Elected(d).term = camp[s].term
    <3> HIDE DEF Horizon
    <3> QED BY DEF IsRun, Shaped, RunsShaped, CampsShaped, IsCamp
  <2>3. CampsShaped' /\ CampsKept /\ LinksShaped'
    BY <2>1, CampUnchanged, LinkUnchanged
  <2> HIDE DEF Elected
  <2> QED BY <1>1, <2>1, <2>2, <2>3, WinStep, Zenon
<1> QED BY <1>2, <1>3

\* open 6-8: the handshakes begin in the term that was won.
LEMMA RecoveredKeeps ==
  ASSUME TermInv, NEW s \in Servers, Recovered(s)
  PROVE  Advances
<1> USE DEF TermInv
<1>1. AccShaped' /\ TermsGrow /\ StaleShaped'
  BY AcceptorUnchanged, StaleUnchanged DEF Recovered
<1>2. RunsShaped' /\ RunsKept
  <2>1. PICK n : srv' = [srv EXCEPT ![s] = [@ EXCEPT !.st = "elect", !.donor = None, !.nextSeq = n]]
    BY Zenon DEF Recovered
  <2>2. srv[s].st = "read"
    BY DEF Recovered
  <2> QED BY <2>1, <2>2 DEF Shaped, RunsShaped, IsRun, RunsKept, Holding
<1>3. CampsShaped' /\ CampsKept
  BY CampSet, NoCampShape DEF Recovered
<1>4. LinksShaped'
  <2> DEFINE l(a) == IF a \in Voters(s)
                     THEN [st |-> "voted", term |-> srv[s].term, flush |-> camp[s].votes[a].flush,
                           history |-> camp[s].votes[a].history]
                     ELSE Down
  <2>1. \A a \in Acceptors : HasTerm(l(a))
    BY DownShape DEF Shaped, RunsShaped, IsRun, HasTerm
  <2>2. link' = [link EXCEPT ![s] = [a \in Acceptors |-> l(a)]]
    BY Zenon DEF Recovered
  <2> HIDE DEF l
  <2> QED BY <2>1, <2>2 DEF Shaped, LinksShaped
<1> QED BY <1>1, <1>2, <1>3, <1>4, QuietParts

\* open 8: the server leads in the term that was won.
LEMMA BeginLeadKeeps ==
  ASSUME TermInv, NEW s \in Servers, BeginLead(s)
  PROVE  Advances
<1> USE DEF TermInv
<1>1. AccShaped' /\ TermsGrow /\ StaleShaped' /\ CampsShaped' /\ CampsKept /\ LinksShaped'
  BY AcceptorUnchanged, StaleUnchanged, CampUnchanged, LinkUnchanged DEF BeginLead
<1>2. RunsShaped' /\ RunsKept
  BY DEF BeginLead, Shaped, RunsShaped, IsRun, RunsKept, Holding
<1> QED BY <1>1, <1>2, QuietParts

\* reelect 2-4: a leader adopts the term it won, gives up or stops.
LEMMA ReadoptKeeps ==
  ASSUME TermInv, NEW s \in Servers, Readopt(s)
  PROVE  Advances
<1> USE DEF TermInv
<1>1. UNCHANGED <<acc, stale>>
  BY Zenon DEF Readopt
<1>a. AccShaped' /\ TermsGrow /\ StaleShaped'
  BY <1>1, AcceptorUnchanged, StaleUnchanged
<1>2. CASE Dies(s)
  BY <1>a, <1>2, DiesStep, QuietParts
<1>3. CASE /\ srv' = [srv EXCEPT ![s].fails = 1]
           /\ camp' = [camp EXCEPT ![s] = NoCamp] /\ UNCHANGED link
  <2>1. RunsShaped' /\ RunsKept
    BY <1>3 DEF Shaped, RunsShaped, IsRun, RunsKept, Holding
  <2>2. CampsShaped' /\ CampsKept /\ LinksShaped'
    BY <1>3, CampSet, NoCampShape, LinkUnchanged
  <2> QED BY <1>a, <2>1, <2>2, QuietParts
<1>4. ASSUME NEW tstart, NEW history, Cardinality(Voters(s)) >= QUORUM,
             srv' = [srv EXCEPT ![s] = [@ EXCEPT
               !.term = camp[s].term, !.tstart = tstart, !.history = history,
               !.flush = [a \in Acceptors |-> 0], !.failed = {}, !.fails = 0]],
             camp' = [camp EXCEPT ![s] = NoCamp], UNCHANGED link
      PROVE  Advances
  <2> DEFINE r == [srv[s] EXCEPT
               !.term = camp[s].term, !.tstart = tstart, !.history = history,
               !.flush = [a \in Acceptors |-> 0], !.failed = {}, !.fails = 0]
  <2>1. srv' = [srv EXCEPT ![s] = r]
    BY <1>4
  <2>2. IsRun(r) /\ r.term = camp[s].term
    BY DEF IsRun, Shaped, RunsShaped, CampsShaped, IsCamp
  <2>3. CampsShaped' /\ CampsKept /\ LinksShaped'
    BY <1>4, CampSet, NoCampShape, LinkUnchanged
  <2> HIDE DEF r
  <2> QED BY <1>1, <1>4, <2>1, <2>2, <2>3, WinStep, Zenon
<1>5. \/ Dies(s)
      \/ /\ srv' = [srv EXCEPT ![s].fails = 1]
         /\ camp' = [camp EXCEPT ![s] = NoCamp] /\ UNCHANGED link
      \/ /\ \E tstart, history : srv' = [srv EXCEPT ![s] = [@ EXCEPT
               !.term = camp[s].term, !.tstart = tstart, !.history = history,
               !.flush = [a \in Acceptors |-> 0], !.failed = {}, !.fails = 0]]
         /\ Cardinality(Voters(s)) >= QUORUM
         /\ camp' = [camp EXCEPT ![s] = NoCamp] /\ UNCHANGED link
  BY Zenon DEF Readopt
<1> QED BY <1>2, <1>3, <1>4, <1>5, Zenon

-----------------------------------------------------------------------------
(* The peers' tasks. *)

\* store_ack
LEMMA StoreAckStep ==
  ASSUME Shaped, NEW s \in Servers, NEW a \in Acceptors, NEW term \in Nat, NEW flush,
         StoreAck(s, a, term, flush)
  PROVE  RunsShaped' /\ RunsKept /\ LinksShaped'
<1> DEFINE r1 == [srv[s] EXCEPT !.flush[a] = flush]
           r2 == [r1 EXCEPT !.commit = RecomputeCommit(r1)]
           up == [Down EXCEPT !.st = "up", !.term = term]
<1>1. KeepsTerm(srv[s], r1)
  BY DEF KeepsTerm, Shaped, RunsShaped, IsRun
<1>2. KeepsTerm(srv[s], r2)
  <2> HIDE DEF r1
  <2> QED BY <1>1 DEF KeepsTerm, IsRun
<1>3. HasTerm(up)
  BY DEF HasTerm, Down
<1>4. \/ srv' = [srv EXCEPT ![s] = r2] /\ SetLink(s, a, up)
      \/ UNCHANGED srv /\ SetLink(s, a, Down)
  BY Zenon DEF StoreAck
<1> HIDE DEF r2, up
<1>5. RunsShaped' /\ RunsKept
  <2>1. CASE srv' = [srv EXCEPT ![s] = r2]
    BY <1>2, <2>1, RunSet, Zenon
  <2>2. CASE UNCHANGED srv
    BY <2>2, RunUnchanged
  <2> QED BY <1>4, <2>1, <2>2
<1>6. LinksShaped'
  BY <1>3, <1>4, DownShape, LinkSet, Zenon
<1> QED BY <1>5, <1>6

\* An answer is read at once or late.
LEMMA AnswerStep ==
  ASSUME Shaped, NEW s \in Servers, NEW a \in Acceptors, NEW term \in Nat, NEW flush,
         Answer(s, a, term, flush)
  PROVE  RunsShaped' /\ RunsKept /\ LinksShaped'
<1> DEFINE acked == [Down EXCEPT !.st = "acked", !.term = term, !.flush = flush]
<1>1. HasTerm(acked)
  BY DEF HasTerm, Down
<1>2. StoreAck(s, a, term, flush) \/ (SetLink(s, a, acked) /\ UNCHANGED srv)
  BY Zenon DEF Answer
<1> HIDE DEF acked
<1>3. CASE StoreAck(s, a, term, flush)
  BY <1>3, StoreAckStep
<1>4. CASE SetLink(s, a, acked) /\ UNCHANGED srv
  BY <1>1, <1>4, RunUnchanged, LinkSet, Zenon
<1> QED BY <1>2, <1>3, <1>4

\* The term of a connection is a number.
LEMMA LinkTerm ==
  ASSUME Shaped, NEW s \in Servers, NEW a \in Acceptors
  PROVE  link[s][a].term \in Nat
BY DEF Shaped, LinksShaped, HasTerm

\* The requests of a connection carry its term.
LEMMA RequestShape ==
  ASSUME Shaped, NEW s \in Servers, NEW a \in Acceptors
  PROVE  /\ IsRequest(ElectedRequest(s, a)) /\ ElectedRequest(s, a).term = link[s][a].term
         /\ IsRequest(Batch(s, a)) /\ Batch(s, a).term = link[s][a].term
<1>1. link[s][a].term \in Nat
  BY LinkTerm
<1>2. IsRequest(ElectedRequest(s, a)) /\ ElectedRequest(s, a).term = link[s][a].term
  BY <1>1 DEF ElectedRequest, IsRequest
<1>3. IsRequest(Batch(s, a)) /\ Batch(s, a).term = link[s][a].term
  BY <1>1 DEF Batch, IsRequest
<1> QED BY <1>2, <1>3

\* run_peer reads an answer after a re-election began.
LEMMA LateAnswerKeeps ==
  ASSUME TermInv, NEW s \in Servers, NEW a \in Acceptors, LateAnswer(s, a)
  PROVE  Advances
<1> USE DEF TermInv
<1>1. AccShaped' /\ TermsGrow /\ CampsShaped' /\ CampsKept /\ StaleShaped'
  BY AcceptorUnchanged, CampUnchanged, StaleUnchanged DEF LateAnswer
<1>2. RunsShaped' /\ RunsKept /\ LinksShaped'
  <2>1. StoreAck(s, a, link[s][a].term, link[s][a].flush)
    BY DEF LateAnswer
  <2> QED BY <2>1, LinkTerm, StoreAckStep
<1> QED BY <1>1, <1>2, QuietParts

\* handshake: the acceptor adopts the server's own term at most.
LEMMA HandshakeVoteKeeps ==
  ASSUME TermInv, NEW s \in Servers, NEW a \in Acceptors, HandshakeVote(s, a)
  PROVE  Advances
<1> USE DEF TermInv
<1> DEFINE x == AfterVote(acc[a], srv[s].term)
           l == [st |-> "voted", term |-> srv[s].term, flush |-> VoteAnswer(x).flush,
                 history |-> VoteAnswer(x).history]
<1>1. HasTerm(acc[a]) /\ srv[s].term \in Nat
  BY DEF Shaped, AccShaped, RunsShaped, IsRun
<1>2. HasTerm(x) /\ acc[a].term <= x.term
  BY <1>1, AfterVoteTerm
<1>3. HasTerm(l)
  <2> HIDE DEF x
  <2> QED BY <1>1 DEF HasTerm
<1>4. /\ acc' = [acc EXCEPT ![a] = x] /\ SetLink(s, a, l)
      /\ UNCHANGED <<srv, camp, stale>>
  BY Zenon DEF HandshakeVote
<1> HIDE DEF x, l
<1>5. AccShaped' /\ TermsGrow
  BY <1>2, <1>4, AcceptorSet, Zenon
<1>6. LinksShaped'
  BY <1>3, <1>4, LinkSet, Zenon
<1>7. RunsShaped' /\ RunsKept /\ CampsShaped' /\ CampsKept /\ StaleShaped'
  BY <1>4, RunUnchanged, CampUnchanged, StaleUnchanged
<1> QED BY <1>5, <1>6, <1>7, QuietParts

\* handshake: the server refuses what the acceptor reports.
LEMMA HandshakeRefusedKeeps ==
  ASSUME TermInv, NEW s \in Servers, NEW a \in Acceptors, HandshakeRefused(s, a)
  PROVE  Advances
<1> USE DEF TermInv
<1>1. AccShaped' /\ TermsGrow /\ CampsShaped' /\ CampsKept /\ StaleShaped'
  BY AcceptorUnchanged, CampUnchanged, StaleUnchanged DEF HandshakeRefused
<1>2. LinksShaped'
  BY DownShape, LinkSet DEF HandshakeRefused
<1>3. UNCHANGED srv \/ srv' = [srv EXCEPT ![s].failed = @ \cup {a}]
  BY Zenon DEF HandshakeRefused
<1>4. RunsShaped' /\ RunsKept
  BY <1>3 DEF Shaped, RunsShaped, IsRun, RunsKept, Holding
<1> QED BY <1>1, <1>2, <1>4, QuietParts

\* handle_elected, and what the server makes of the answer.
LEMMA HandshakeElectedKeeps ==
  ASSUME TermInv, NEW s \in Servers, NEW a \in Acceptors, HandshakeElected(s, a)
  PROVE  Advances
<1> USE DEF TermInv
<1> DEFINE m == ElectedRequest(s, a)
           x == AfterElected(acc[a], m.term, m.start, m.history)
<1>1. m.term \in Nat
  BY RequestShape DEF IsRequest
<1>2. HasTerm(x) /\ acc[a].term <= x.term
  <2>1. HasTerm(acc[a])
    BY DEF Shaped, AccShaped
  <2> HIDE DEF m
  <2> QED BY <1>1, <2>1, AfterElectedTerm
<1>3. /\ acc' = [acc EXCEPT ![a] = x] /\ UNCHANGED stale
      /\ \/ Answer(s, a, m.term, m.start) /\ UNCHANGED camp
         \/ Dies(s)
         \/ SetLink(s, a, Down) /\ UNCHANGED <<srv, camp>>
  BY Zenon DEF HandshakeElected
<1> HIDE DEF m, x
<1>4. AccShaped' /\ TermsGrow /\ StaleShaped'
  BY <1>2, <1>3, AcceptorSet, StaleUnchanged
<1>5. RunsShaped' /\ RunsKept /\ CampsShaped' /\ CampsKept /\ LinksShaped'
  <2>1. CASE Answer(s, a, m.term, m.start) /\ UNCHANGED camp
    BY <1>1, <2>1, AnswerStep, CampUnchanged
  <2>2. CASE Dies(s)
    BY <2>2, DiesStep
  <2>3. CASE SetLink(s, a, Down) /\ UNCHANGED <<srv, camp>>
    BY <2>3, DownShape, LinkSet, RunUnchanged, CampUnchanged
  <2> QED BY <1>3, <2>1, <2>2, <2>3
<1> QED BY <1>4, <1>5, QuietParts

\* A call that is given up on, or a connection that breaks.
LEMMA LostKeeps ==
  ASSUME TermInv, NEW s \in Servers, NEW a \in Acceptors,
         HandshakeLost(s, a) \/ AppendLost(s, a) \/ Disconnect(s, a)
  PROVE  Advances
<1> USE DEF TermInv
<1>1. UNCHANGED <<acc, srv, camp>> /\ SetLink(s, a, Down)
  BY DEF HandshakeLost, AppendLost, Disconnect
<1>2. \/ Abandon(ElectedRequest(s, a)) \/ Abandon(Batch(s, a)) \/ UNCHANGED stale
  BY DEF HandshakeLost, AppendLost, Disconnect
<1>3. StaleShaped'
  BY <1>2, RequestShape, StaleAbandon, StaleUnchanged, Zenon
<1>4. /\ AccShaped' /\ TermsGrow /\ RunsShaped' /\ RunsKept /\ CampsShaped' /\ CampsKept
      /\ LinksShaped'
  BY <1>1, AcceptorUnchanged, RunUnchanged, CampUnchanged, DownShape, LinkSet
<1> QED BY <1>3, <1>4, QuietParts

\* handle_append, and what the server makes of the answer.
LEMMA SendAppendKeeps ==
  ASSUME TermInv, NEW s \in Servers, NEW a \in Acceptors, SendAppend(s, a)
  PROVE  Advances
<1> USE DEF TermInv
<1> DEFINE m == Batch(s, a)
<1>1. m.term \in Nat
  BY RequestShape DEF IsRequest
<1>2. UNCHANGED <<camp, stale>>
  BY Zenon DEF SendAppend
<1>3. \/ \E x \in AfterAppendAll(acc[a], m) :
           acc' = [acc EXCEPT ![a] = x] /\ Answer(s, a, m.term, Flush(x))
      \/ SetLink(s, a, Down) /\ UNCHANGED <<acc, srv>>
  BY Zenon DEF SendAppend
<1>4. HasTerm(acc[a])
  BY DEF Shaped, AccShaped
<1> HIDE DEF m
<1>5. AccShaped' /\ TermsGrow /\ RunsShaped' /\ RunsKept /\ LinksShaped'
  <2>1. ASSUME NEW x \in AfterAppendAll(acc[a], m), acc' = [acc EXCEPT ![a] = x],
               Answer(s, a, m.term, Flush(x))
        PROVE  AccShaped' /\ TermsGrow /\ RunsShaped' /\ RunsKept /\ LinksShaped'
    <3>1. HasTerm(x) /\ x.term = acc[a].term
      BY <1>4, AfterAppendTerm
    <3>2. acc[a].term <= x.term
      BY <1>4, <3>1 DEF HasTerm
    <3> QED BY <1>1, <2>1, <3>1, <3>2, AcceptorSet, AnswerStep
  <2>2. CASE SetLink(s, a, Down) /\ UNCHANGED <<acc, srv>>
    BY <2>2, DownShape, LinkSet, AcceptorUnchanged, RunUnchanged
  <2> QED BY <1>3, <2>1, <2>2
<1>6. CampsShaped' /\ CampsKept /\ StaleShaped'
  BY <1>2, CampUnchanged, StaleUnchanged
<1> QED BY <1>5, <1>6, QuietParts

\* run_peer leaves a connection.
LEMMA LeaveConnectionKeeps ==
  ASSUME TermInv, NEW s \in Servers, NEW a \in Acceptors, LeaveConnection(s, a)
  PROVE  Advances
<1> USE DEF TermInv
<1>1. AccShaped' /\ TermsGrow /\ CampsShaped' /\ CampsKept /\ StaleShaped' /\ LinksShaped'
  BY AcceptorUnchanged, CampUnchanged, StaleUnchanged, DownShape, LinkSet DEF LeaveConnection
<1>2. PICK failed : srv' = [srv EXCEPT ![s].failed = failed]
  BY Zenon DEF LeaveConnection
<1>3. RunsShaped' /\ RunsKept
  BY <1>2 DEF Shaped, RunsShaped, IsRun, RunsKept, Holding
<1> QED BY <1>1, <1>3, QuietParts

-----------------------------------------------------------------------------
(* The tail's operations. *)

\* submit keeps the run's term.
LEMMA SubmitRecordShape ==
  ASSUME NEW s, NEW r, IsRun(r), NEW kind, NEW seq
  PROVE  KeepsTerm(r, SubmitRecord(s, r, kind, seq))
BY DEF SubmitRecord, KeepsTerm, IsRun

\* advance_horizon_locked keeps the run's term.
LEMMA AdvanceHorizonShape ==
  ASSUME NEW r, IsRun(r)
  PROVE  KeepsTerm(r, AdvanceHorizon(r))
<1>1. \/ AdvanceHorizon(r) = r
      \/ \E h, f, b, l : AdvanceHorizon(r) =
           [r EXCEPT !.horizon = h, !.failed = f, !.start = b, !.log = l]
  BY Zenon DEF AdvanceHorizon
<1> QED BY <1>1 DEF KeepsTerm, IsRun

\* append_watermark_off_loop keeps the run's term.
LEMMA RefreshedShape ==
  ASSUME NEW s, NEW r, NEW r1, IsRun(r1)
  PROVE  KeepsTerm(r1, Refreshed(s, r, r1))
<1>1. KeepsTerm(r1, r1)
  BY DEF KeepsTerm
<1> QED BY <1>1, SubmitRecordShape DEF Refreshed

\* Two updates of a run in a row.
LEMMA KeepsTermTwice ==
  ASSUME NEW r, NEW r1, NEW r2, KeepsTerm(r, r1), KeepsTerm(r1, r2)
  PROVE  KeepsTerm(r, r2)
BY DEF KeepsTerm

\* The tail's operations elect nobody.
LEMMA TailStepKeeps ==
  ASSUME TermInv, NEW s \in Servers, TailStep(s)
  PROVE  Advances
<1> USE DEF TermInv
<1>1. UNCHANGED <<acc, camp, link, stale>>
  BY DEF TailStep, SubmitFrame, RecordWatermark, NoteCovered, NudgeHorizon
<1>2. IsRun(srv[s])
  BY DEF Shaped, RunsShaped
<1>3. \E r : KeepsTerm(srv[s], r) /\ srv' = [srv EXCEPT ![s] = r]
  <2>1. CASE SubmitFrame(s)
    <3> DEFINE r1 == SubmitRecord(s, srv[s], "frame", srv[s].nextSeq)
               r2 == [r1 EXCEPT !.nextSeq = @ + 1]
    <3>1. KeepsTerm(srv[s], r1)
      BY <1>2, SubmitRecordShape
    <3>2. KeepsTerm(srv[s], r2)
      <4> HIDE DEF r1
      <4> QED BY <3>1 DEF KeepsTerm, IsRun
    <3>3. srv' = [srv EXCEPT ![s] = r2]
      BY <2>1, Zenon DEF SubmitFrame
    <3> HIDE DEF r2
    <3> QED BY <3>2, <3>3, Zenon
  <2>2. CASE RecordWatermark(s)
    BY <1>2, <2>2, SubmitRecordShape, Zenon DEF RecordWatermark
  <2>3. ASSUME NEW r, KeepsTerm(srv[s], r),
               srv' = [srv EXCEPT ![s] = Refreshed(s, r, AdvanceHorizon(r))]
        PROVE  \E r1 : KeepsTerm(srv[s], r1) /\ srv' = [srv EXCEPT ![s] = r1]
    <3>1. KeepsTerm(r, AdvanceHorizon(r))
      BY <2>3, AdvanceHorizonShape DEF KeepsTerm
    <3>2. KeepsTerm(AdvanceHorizon(r), Refreshed(s, r, AdvanceHorizon(r)))
      BY <3>1, RefreshedShape DEF KeepsTerm
    <3> QED BY <2>3, <3>1, <3>2, KeepsTermTwice, Zenon
  <2>4. CASE NoteCovered(s)
    <3> DEFINE r == [srv[s] EXCEPT !.covered = LastWmSeq(srv[s])]
    <3>1. KeepsTerm(srv[s], r)
      BY <1>2 DEF KeepsTerm, IsRun
    <3>2. srv' = [srv EXCEPT ![s] = Refreshed(s, r, AdvanceHorizon(r))]
      BY <2>4, Zenon DEF NoteCovered
    <3> HIDE DEF r
    <3> QED BY <2>3, <3>1, <3>2, Zenon
  <2>5. CASE NudgeHorizon(s)
    <3>1. KeepsTerm(srv[s], srv[s])
      BY <1>2 DEF KeepsTerm
    <3> QED BY <2>3, <2>5, <3>1, Zenon DEF NudgeHorizon
  <2> QED BY <2>1, <2>2, <2>4, <2>5 DEF TailStep
<1>4. RunsShaped' /\ RunsKept
  BY <1>3, RunSet, Zenon
<1>5. AccShaped' /\ TermsGrow /\ CampsShaped' /\ CampsKept /\ LinksShaped' /\ StaleShaped'
  BY <1>1, AcceptorUnchanged, CampUnchanged, LinkUnchanged, StaleUnchanged
<1> QED BY <1>4, <1>5, QuietParts

-----------------------------------------------------------------------------
(* Faults. *)

\* A request that arrives late raises the acceptor's term or leaves it alone.
LEMMA HandleStaleKeeps ==
  ASSUME TermInv, NEW m \in stale, HandleStale(m)
  PROVE  Advances
<1> USE DEF TermInv
<1>1. IsRequest(m)
  BY DEF Shaped, StaleShaped
<1>2. HasTerm(acc[m.to]) /\ m.to \in Acceptors /\ m.term \in Nat
  BY <1>1 DEF IsRequest, Shaped, AccShaped
<1>3. AccShaped' /\ TermsGrow
  <2>1. \/ UNCHANGED acc
        \/ acc' = [acc EXCEPT ![m.to] = AfterVote(acc[m.to], m.term)]
        \/ acc' = [acc EXCEPT ![m.to] = AfterElected(acc[m.to], m.term, m.start, m.history)]
        \/ \E y \in AfterAppendAll(acc[m.to], m) : acc' = [acc EXCEPT ![m.to] = y]
    BY <1>1 DEF HandleStale, IsRequest
  <2>2. CASE UNCHANGED acc
    BY <2>2, AcceptorUnchanged
  <2>3. CASE acc' = [acc EXCEPT ![m.to] = AfterVote(acc[m.to], m.term)]
    BY <1>2, <2>3, AfterVoteTerm, AcceptorSet, Zenon
  <2>4. CASE acc' = [acc EXCEPT ![m.to] = AfterElected(acc[m.to], m.term, m.start, m.history)]
    BY <1>2, <2>4, AfterElectedTerm, AcceptorSet, Zenon
  <2>5. ASSUME NEW y \in AfterAppendAll(acc[m.to], m), acc' = [acc EXCEPT ![m.to] = y]
        PROVE  AccShaped' /\ TermsGrow
    <3>1. HasTerm(y) /\ y.term = acc[m.to].term
      BY <1>2, AfterAppendTerm
    <3>2. acc[m.to].term <= y.term
      BY <1>2, <3>1 DEF HasTerm
    <3> QED BY <1>2, <2>5, <3>1, <3>2, AcceptorSet
  <2> QED BY <2>1, <2>2, <2>3, <2>4, <2>5
<1>4. StaleShaped' /\ UNCHANGED <<srv, camp, link>>
  BY DEF HandleStale, serverVars, Shaped, StaleShaped
<1>5. RunsShaped' /\ RunsKept /\ CampsShaped' /\ CampsKept /\ LinksShaped'
  BY <1>4, RunUnchanged, CampUnchanged, LinkUnchanged
<1> QED BY <1>3, <1>4, <1>5, QuietParts

\* The restart of an acceptor ends the downloads from it.
LEMMA BreakConnectionsStep ==
  ASSUME Shaped, NEW a \in Acceptors, BreakConnections(a)
  PROVE  RunsShaped' /\ RunsKept /\ CampsShaped' /\ CampsKept /\ LinksShaped'
<1>1. RunsShaped' /\ RunsKept
  <2>1. IsRun(DeadServer) /\ DeadServer.st = "dead"
    BY DEF IsRun, DeadServer, NewServer
  <2>2. srv' = [s \in Servers |->
                  IF srv[s].st = "read" /\ srv[s].donor = a THEN DeadServer ELSE srv[s]]
    BY DEF BreakConnections
  <2> QED BY <2>1, <2>2 DEF Shaped, RunsShaped, RunsKept, Holding
<1>2. CampsShaped' /\ CampsKept
  <2>1. camp' = [s \in Servers |->
                   [camp[s] EXCEPT !.live = IF a \in Undecided(s) THEN @ \ {a} ELSE @]]
    BY DEF BreakConnections
  <2> QED BY <2>1 DEF Shaped, CampsShaped, CampsKept, Voters, IsCamp
<1>3. LinksShaped'
  <2>1. link' = [s \in Servers |-> [link[s] EXCEPT ![a] =
                   IF @.st \in {"up", "voted"} THEN Down ELSE @]]
    BY DEF BreakConnections
  <2> QED BY <2>1, DownShape DEF Shaped, LinksShaped
<1> QED BY <1>1, <1>2, <1>3

\* An acceptor comes back with the term of its control file.
LEMMA AcceptorRestartsKeeps ==
  ASSUME TermInv, NEW a \in Acceptors, AcceptorRestarts(a)
  PROVE  Advances
<1> USE DEF TermInv
<1>1. HasTerm(acc[a])
  BY DEF Shaped, AccShaped
<1>2. HasTerm(Reboot(acc[a])) /\ acc[a].term <= Reboot(acc[a]).term
  BY <1>1, RebootTerm DEF HasTerm
<1>3. acc' = [acc EXCEPT ![a] = Reboot(acc[a])] /\ BreakConnections(a) /\ UNCHANGED stale
  BY Zenon DEF AcceptorRestarts
<1>4. AccShaped' /\ TermsGrow
  BY <1>2, <1>3, AcceptorSet, Zenon
<1> QED BY <1>3, <1>4, BreakConnectionsStep, StaleUnchanged, QuietParts

\* A crash of an acceptor with a log of its term or a later one.
LEMMA CrashStep ==
  ASSUME TermInv, NEW a \in Acceptors, NEW x, HasTerm(x), acc[a].term <= x.term,
         acc' = [acc EXCEPT ![a] = x], BreakConnections(a), UNCHANGED stale
  PROVE  Advances
<1> USE DEF TermInv
<1>1. AccShaped' /\ TermsGrow
  BY AcceptorSet, Zenon
<1> QED BY <1>1, BreakConnectionsStep, StaleUnchanged, QuietParts

\* An acceptor stops inside handle_elected.
LEMMA TornElectedKeeps ==
  ASSUME TermInv, NEW s \in Servers, NEW a \in Acceptors, TornElected(s, a)
  PROVE  Advances
<1> DEFINE m == ElectedRequest(s, a)
           x1 == AdoptTerm(acc[a], m.term)
           Cut(lsn) == TruncateFrom(x1, lsn)
<1>1. HasTerm(acc[a]) /\ m.term \in Nat
  BY RequestShape DEF TermInv, Shaped, AccShaped, IsRequest
<1>2. HasTerm(x1) /\ acc[a].term <= x1.term
  <2> HIDE DEF m
  <2> QED BY <1>1, AfterVoteTerm DEF AdoptTerm
<1>3. \A lsn : HasTerm(Cut(lsn)) /\ Cut(lsn).term = x1.term
  <2> HIDE DEF x1, m
  <2> QED BY <1>2, TruncateFromTerm
<1>4. BreakConnections(a) /\ UNCHANGED stale
      /\ \E lsn : acc' = [acc EXCEPT ![a] = Reboot(Cut(lsn))]
  BY Zenon DEF TornElected
<1> HIDE DEF m, x1, Cut
<1>5. PICK lsn : acc' = [acc EXCEPT ![a] = Reboot(Cut(lsn))]
  BY <1>4, Zenon
<1>6. HasTerm(Reboot(Cut(lsn))) /\ acc[a].term <= Reboot(Cut(lsn)).term
  BY <1>2, <1>3, RebootTerm
<1> QED BY <1>4, <1>5, <1>6, CrashStep, Zenon

\* An acceptor stops inside SegmentWal::append.
LEMMA TornAppendKeeps ==
  ASSUME TermInv, NEW s \in Servers, NEW a \in Acceptors, TornAppend(s, a)
  PROVE  Advances
<1> DEFINE m == Batch(s, a)
           Torn(n) == WalAppend(acc[a], m.begin, SubSeq(m.recs, 1, n))
           Scanned(x) == IF x.log # <<>> THEN Reboot(x)
                         ELSE [x EXCEPT !.commit = Least(x.saved, x.start),
                                        !.empty = x.start = 0]
<1>1. HasTerm(acc[a])
  BY DEF TermInv, Shaped, AccShaped
<1>2. \A n : HasTerm(Torn(n)) /\ Torn(n).term = acc[a].term
  <2> HIDE DEF m
  <2> QED BY <1>1 DEF WalAppend, HasTerm
<1>3. ASSUME NEW x, HasTerm(x) PROVE HasTerm(Scanned(x)) /\ Scanned(x).term = x.term
  <2>1. HasTerm(Reboot(x)) /\ Reboot(x).term = x.term
    BY <1>3, RebootTerm
  <2> QED BY <1>3, <2>1 DEF HasTerm
<1>4. BreakConnections(a) /\ UNCHANGED stale
      /\ \E n : acc' = [acc EXCEPT ![a] = Scanned(Torn(n))]
  BY Zenon DEF TornAppend
<1> HIDE DEF m, Torn, Scanned
<1>5. PICK n : acc' = [acc EXCEPT ![a] = Scanned(Torn(n))]
  BY <1>4, Zenon
<1>6. HasTerm(Scanned(Torn(n))) /\ acc[a].term <= Scanned(Torn(n)).term
  BY <1>1, <1>2, <1>3 DEF HasTerm
<1> QED BY <1>4, <1>5, <1>6, CrashStep, Zenon

\* A server stops.
LEMMA ServerStopsKeeps ==
  ASSUME TermInv, NEW s \in Servers, ServerStops(s)
  PROVE  Advances
BY DiesStep, AcceptorUnchanged, StaleUnchanged, QuietParts DEF ServerStops, TermInv

-----------------------------------------------------------------------------
(* The theorem. *)

\* The initial states: a leader has a quorum that joined its term.
LEMMA TermInit ==
  ASSUME Init
  PROVE  TermInv
<1>1. camp = [s \in Servers |-> NoCamp] /\ stale = {}
  BY DEF Init
<1>2. CampsShaped /\ StaleShaped /\ \A s \in Servers : Voters(s) = {}
  BY <1>1, NoCampShape DEF CampsShaped, StaleShaped, Voters
<1>3. VotesBind /\ VotesOnce
  BY <1>2 DEF VotesBind, VotesOnce
<1>4. HasTerm(NewAcceptor) /\ HasTerm(Joined) /\ Joined.term = 1 /\ IsRun(NewServer)
      /\ NewServer.st = "new"
  BY DEF HasTerm, Joined, NewAcceptor, IsRun, NewServer
<1>5. \A log, empty : HasTerm([Joined EXCEPT !.log = log, !.empty = empty])
  BY DEF HasTerm, Joined, NewAcceptor
<1>6. ASSUME NoServer, AccShaped PROVE TermInv
  <2>1. RunsShaped /\ LinksShaped /\ \A s \in Servers : ~ Holding(s)
    BY <1>4, <1>6, DownShape DEF NoServer, RunsShaped, LinksShaped, Holding
  <2>2. HoldersBacked /\ TermOwned
    BY <2>1 DEF HoldersBacked, TermOwned, Holding
  <2> QED BY <1>2, <1>3, <1>6, <2>1, <2>2 DEF TermInv, Shaped
<1>7. ASSUME NEW joined \in SUBSET Acceptors, Cardinality(joined) >= QUORUM, Leading(1, joined)
      PROVE  TermInv
  <2> DEFINE r == [NewServer EXCEPT !.st = "lead", !.term = 1, !.history = FirstHistory]
             up == [Down EXCEPT !.st = "up", !.term = 1]
  <2>1. AccShaped /\ \A a \in joined : acc[a].term >= 1
    BY <1>4, <1>7 DEF Leading, AccShaped
  <2>2. IsRun(r) /\ r.term = 1 /\ HasTerm(up)
    BY DEF IsRun, NewServer, HasTerm, Down
  <2>3. srv = [t \in Servers |-> IF t = 1 THEN r ELSE NewServer]
    BY <1>7, Zenon DEF Leading
  <2>4. link = [t \in Servers |-> [a \in Acceptors |->
                  IF t = 1 /\ a \in joined THEN up ELSE Down]]
    BY <1>7, Zenon DEF Leading
  <2> HIDE DEF r, up
  <2>5. RunsShaped /\ LinksShaped
    BY <1>4, <2>2, <2>3, <2>4, DownShape DEF RunsShaped, LinksShaped
  <2>6. \A s \in Servers : Holding(s) => s = 1
    BY <1>4, <2>3 DEF Holding
  <2>7. TermOwned
    BY <2>6 DEF TermOwned, Holding
  <2>8. HoldersBacked
    BY <1>2, <1>7, <2>1, <2>2, <2>3, <2>6 DEF HoldersBacked, Backs
  <2> QED BY <1>2, <1>3, <2>1, <2>5, <2>7, <2>8 DEF TermInv, Shaped
<1>8. ASSUME NEW len, Crashed(len) PROVE NoServer /\ AccShaped
  <2>1. NoServer /\ acc = [a \in Acceptors |->
          [Joined EXCEPT !.log = SubSeq(FirstFrames, 1, len[a]), !.empty = len[a] = 0]]
    BY <1>8, Zenon DEF Crashed
  <2> QED BY <1>5, <2>1 DEF AccShaped
<1>9. ASSUME NEW a, NEW n, NEW held, Diverged(a, n, held) PROVE NoServer /\ AccShaped
  <2> DEFINE x == [Joined EXCEPT !.log = SubSeq(FirstFrames, 1, n), !.empty = FALSE]
             second == Append(FirstHistory, [term |-> 2, lsn |-> 0])
             frame == [kind |-> "frame", seq |-> 1, by |-> -1]
             y == [Joined EXCEPT !.term = 2, !.history = second, !.log = <<frame>>,
                                 !.empty = FALSE]
             z == [Joined EXCEPT !.term = 2]
  <2>1. HasTerm(x) /\ HasTerm(y) /\ HasTerm(z)
    <3> HIDE DEF second, frame
    <3> QED BY DEF HasTerm, Joined, NewAcceptor
  <2>2. NoServer /\ acc = [b \in Acceptors |-> IF b = a THEN x ELSE IF b \in held THEN y ELSE z]
    BY <1>9, Zenon DEF Diverged
  <2> HIDE DEF x, y, z
  <2> QED BY <2>1, <2>2 DEF AccShaped
<1> QED BY <1>6, <1>7, <1>8, <1>9, Zenon DEF Init

\* Every step keeps the invariant and lowers no term.
LEMMA TermNext ==
  ASSUME TermInv, Next
  PROVE  Advances
<1>1. ASSUME NEW s \in Servers, Decide(s) PROVE Advances
  BY <1>1, ElectKeeps, RecoveredKeeps, BeginLeadKeeps, ReadoptKeeps DEF Decide
<1>2. ASSUME NEW s \in Servers, NEW a \in Acceptors, Finish(s, a) PROVE Advances
  BY <1>2, LateAnswerKeeps, LeaveConnectionKeeps, HandshakeRefusedKeeps, HandshakeElectedKeeps
     DEF Finish
<1>3. ASSUME NEW s \in Servers, Election(s) PROVE Advances
  BY <1>3, GreetKeeps, RegreetKeeps, DownloadKeeps, VoteKeeps, VoteRefusedKeeps, VoteLostKeeps
     DEF Election
<1>4. ASSUME NEW s \in Servers, NEW a \in Acceptors, PeerStep(s, a) PROVE Advances
  BY <1>2, <1>4, HandshakeVoteKeeps, LostKeeps, SendAppendKeeps DEF PeerStep
<1>5. ASSUME Faults PROVE Advances
  BY <1>5, HandleStaleKeeps, AcceptorRestartsKeeps, TornElectedKeeps, TornAppendKeeps,
     ServerStopsKeeps DEF Faults
<1> QED BY <1>1, <1>2, <1>3, <1>4, <1>5, TailStepKeeps DEF Next, UrgentStep

\* A stuttering step, too.
LEMMA TermStutter ==
  ASSUME TermInv, UNCHANGED vars
  PROVE  Advances
<1> USE DEF TermInv
<1>1. UNCHANGED <<acc, srv, camp, link, stale>>
  BY DEF vars, serverVars
<1> QED BY <1>1, AcceptorUnchanged, RunUnchanged, CampUnchanged, LinkUnchanged, StaleUnchanged,
           QuietParts

\* The invariant that both theorems rest on.
LEMMA TermInvariant == Spec => []TermInv
<1>1. Init => TermInv
  BY TermInit
<1>2. TermInv /\ [Next]_vars => TermInv'
  BY TermNext, TermStutter DEF Advances
<1> QED BY <1>1, <1>2, PTL DEF Spec

\* Whatever the acceptors, the number of server runs and the bounds: no two
\* server runs ever hold the same term (open, reelect, handle_vote).
THEOREM TermOwnership == Spec => []TermOwned
<1>1. TermInv => TermOwned
  BY DEF TermInv
<1> QED BY <1>1, TermInvariant, PTL

\* An acceptor never goes back to an earlier term, whatever requests arrive late
\* and wherever it stops: handle_vote and handle_elected make a term durable
\* before they act on it, and Acceptor::new reads it back.
THEOREM TermsNeverFall == Spec => [][TermsGrow]_vars
<1>1. TermInv /\ [Next]_vars => TermsGrow
  BY TermNext, TermStutter DEF Advances
<1> QED BY <1>1, TermInvariant, PTL DEF Spec
====
