----------------------------- MODULE QuorumTail -----------------------------
(***************************************************************************)
(* The replicated tail (quorum/): three acceptors that keep a term, a term *)
(* history and a write-ahead log, and the server runs that open the tail   *)
(* by an election, stream records to each acceptor over a connection of    *)
(* its own, re-elect themselves when they are fenced or stall, and let the *)
(* acceptors drop what the lake covers.                                    *)
(*                                                                         *)
(* A record occupies one LSN, so an LSN counts records; there is one       *)
(* table.  The tail identity is adopted and the acceptors' control files   *)
(* exist.  Calls are request/response on one connection: a lost answer, a  *)
(* timeout and a broken connection all drop the connection, and a request  *)
(* the server has given up on may still be handled later (`stale`).        *)
(***************************************************************************)
EXTENDS Integers, Sequences, FiniteSets, FiniteSetsExt

CONSTANTS
  Acceptors,    \* QUORUM_SIZE acceptors
  MaxServers,   \* bound on the runs of the server, a restart being another run
  QUORUM,       \* acceptors that make a record durable
  Bounds,       \* the bounds to explore, see Bound
  MaxBatch,     \* MAX_APPEND_BATCH_BYTES
  ReadChunk,    \* recovery_read_chunk
  MaxPeerLag,   \* MAX_PEER_LAG_BYTES
  RefreshSlack  \* WATERMARK_REFRESH_SLACK_BYTES

\* One instance to explore: the initial state, whether two servers may run at
\* once, and bounds on terms, records of a log, records a crashed server left
\* behind, abandoned requests in flight, and faults (lost calls, broken
\* connections, acceptor crashes).
Bound == [start : {"leading", "crashed", "ahead", "diverged"}, rivals : BOOLEAN, terms : Nat, lsn : Nat,
          initial : Nat, stale : Nat, faults : Nat]

ASSUME ConstantsAssumption ==
  /\ IsFiniteSet(Acceptors) /\ MaxServers \in Nat \ {0}
  /\ QUORUM \in Nat /\ 2 * QUORUM > Cardinality(Acceptors)
  /\ Bounds \subseteq Bound
  /\ MaxBatch \in Nat \ {0} /\ ReadChunk \in Nat \ {0}
  /\ MaxPeerLag \in Nat /\ RefreshSlack \in Nat

\* The runs, in the order in which they start.
Servers == 1 .. MaxServers

VARIABLES
  bound,      \* the instance explored, with the faults left
  acc,        \* the acceptors
  srv,        \* the server runs
  camp,       \* the election each server is campaigning in
  link,       \* each server's connection to each acceptor (run_peer)
  stale,      \* requests their sender has given up on
  committed,  \* every record a server ever counted as committed, with its term
  flushed,    \* the highest sequence number the lake covers
  tangled     \* some term started below the start of an earlier one

serverVars == <<srv, camp, link>>
ghostVars == <<committed, flushed, tangled>>
vars == <<bound, acc, serverVars, stale, ghostVars>>

Least(x, y) == IF x < y THEN x ELSE y
Most(x, y) == IF x > y THEN x ELSE y

-----------------------------------------------------------------------------
(* Term histories (proto.rs). *)

\* TermHistory::up_to
UpTo(history, lsn) == SelectSeq(history, LAMBDA e : e.lsn <= lsn)

\* TermHistory::last_log_term
LastLogTerm_Raw(history, flush) == IF history = <<>> THEN 0 ELSE history[Len(history)].term

LastLogTerm(history, flush) ==
  LET h == UpTo(history, flush) IN IF h = <<>> THEN 0 ELSE h[Len(h)].term

\* The length of the common prefix of two histories, by term.
CommonTerms(prop, sk) ==
  LET SameTerms(n) == \A i \in 1 .. n : prop[i].term = sk[i].term
  IN Max({n \in 0 .. Least(Len(prop), Len(sk)) : SameTerms(n)})

\* find_highest_common_point refuses histories that start a term differently.
Disagree(prop, sk) ==
  \E i \in 1 .. CommonTerms(prop, sk) : prop[i].lsn # sk[i].lsn

\* No common point.
None == -1

\* find_highest_common_point: where the logs of the two histories part.
HighestCommonPoint(prop, sk, flush) ==
  LET n == CommonTerms(prop, sk)
      skEnd == IF n + 1 <= Len(sk) THEN sk[n + 1].lsn ELSE flush
  IN IF n = 0 THEN None
     ELSE IF n = Len(prop) THEN flush
     ELSE Least(prop[n + 1].lsn, skEnd)

-----------------------------------------------------------------------------
(* The acceptor (acceptor.rs).  `commit` is in memory and `saved` is its   *)
(* value in the control file; every other part of the control file is      *)
(* written before it is adopted.  `start` is the first LSN the segments    *)
(* retain and `empty` that they never held a record.                       *)

NewAcceptor ==
  [term |-> 0, history |-> <<>>, commit |-> 0, saved |-> 0, horizon |-> 0,
   start |-> 0, log |-> <<>>, empty |-> TRUE]

Flush(x) == x.start + Len(x.log)

\* The record at an LSN of a log.
HasLsn(x, lsn) == lsn \in x.start .. Flush(x) - 1
RecAt(x, lsn) == x.log[lsn - x.start + 1]

\* persist: the control file is written as a whole, the commit with it.
Persist(x) == [x EXCEPT !.saved = x.commit]

\* handle_vote: the term is adopted and made durable before the answer, which
\* reports the positions whether or not the vote is granted.
Grants_Again(x, term) == x.term <= term

Grants(x, term) == x.term < term
AfterVote(x, term) == IF Grants(x, term) THEN Persist([x EXCEPT !.term = term]) ELSE x
VoteAnswer(x) ==
  [flush |-> Flush(x), llt |-> LastLogTerm(x.history, Flush(x)),
   history |-> UpTo(x.history, Flush(x)), horizon |-> Most(x.horizon, x.start)]

\* SegmentWal::truncate_from
TruncateFrom(x, lsn) ==
  IF lsn >= Flush(x) THEN x
  ELSE [x EXCEPT !.start = Least(x.start, lsn),
                 !.log = SubSeq(x.log, 1, lsn - x.start)]

\* handle_elected: the start the acceptor computes from its own log.
ExpectedStart_Unchecked(x, start, history) == start

ExpectedStart(x, start, history) ==
  LET sk == UpTo(x.history, Flush(x))
      common == HighestCommonPoint(history, sk, Flush(x))
  IN IF common # None THEN common
     ELSE IF sk = <<>> /\ x.empty THEN start ELSE Head(history).lsn

ElectedOk(x, term, start, history) ==
  /\ x.term <= term
  /\ ~ Disagree(history, UpTo(x.history, Flush(x)))
  /\ ExpectedStart(x, start, history) = start
  /\ start >= x.commit

\* handle_elected: a higher term is adopted even when the call is then refused;
\* the log is cut before the history is made durable.
AdoptTerm(x, term) == AfterVote(x, term)
AdoptHistory(x, history) ==
  Persist([x EXCEPT !.history = history, !.commit = Least(x.commit, Flush(x))])
AfterElected(x, term, start, history) ==
  LET x1 == AdoptTerm(x, term)
  IN IF ElectedOk(x, term, start, history)
     THEN AdoptHistory(TruncateFrom(x1, start), history) ELSE x1

\* handle_append: the batch must be of the current term and continue the log.
AppendOk(x, m) == x.term = m.term /\ (x.empty \/ m.begin = Flush(x))

\* SegmentWal::append
WalAppend(x, begin, recs) ==
  [x EXCEPT !.start = IF x.empty THEN begin ELSE x.start,
            !.log = x.log \o recs, !.empty = FALSE]

\* handle_append: the commit is bounded by what is on disk, and the horizon by
\* the commit; the horizon is durable before drop_below deletes whole segments
\* under it, never the segment in use.
AfterAppendAll(x, m) ==
  LET x1 == WalAppend(x, m.begin, m.recs)
      x2 == [x1 EXCEPT !.commit = Least(Most(m.commit, x1.commit), Flush(x1))]
      h == Most(x2.horizon, Least(m.horizon, x2.commit))
      x3 == Persist([x2 EXCEPT !.horizon = h])
      cuts == x3.start .. Most(x3.start, Least(h, Flush(x3) - 1))
  IN IF h = x2.horizon THEN {x2}
     ELSE {[x3 EXCEPT !.start = n, !.log = SubSeq(x3.log, n - x3.start + 1, Len(x3.log))]
             : n \in cuts}

\* Acceptor::new, SegmentWal::open: the log starts at its oldest segment and at
\* zero when there is none; the commit is at most the end of the log.
Reboot(x) ==
  LET x1 == IF x.log = <<>> THEN [x EXCEPT !.start = 0, !.empty = TRUE] ELSE x
  IN [x1 EXCEPT !.commit = Least(x.saved, Flush(x1))]

-----------------------------------------------------------------------------
(* The server run (proposer.rs, tail_quorum.rs): new, open (campaigning),  *)
(* read (downloading), elect (handshakes), lead, dead (failed to open,     *)
(* poisoned or crashed).  `start` and `log` are the LogBuf, `openAt` the   *)
(* position whose commit completes the open.                               *)

Down == [st |-> "down", term |-> 0, flush |-> 0, history |-> <<>>]
NoCamp == [term |-> 0, live |-> {}, votes |-> <<>>]

NewServer ==
  [st |-> "new", term |-> 0, tstart |-> 0, openAt |-> 0, history |-> <<>>,
   start |-> 0, log |-> <<>>, commit |-> 0, horizon |-> 0, covered |-> 0,
   nextSeq |-> 1, donor |-> None, flush |-> [a \in Acceptors |-> 0],
   failed |-> {}, fails |-> 0]

DeadServer == [NewServer EXCEPT !.st = "dead"]

\* One server has opened the new tail at term 1, with a quorum or with all.
FirstHistory == <<[term |-> 1, lsn |-> 0]>>

Joined == [NewAcceptor EXCEPT !.term = 1, !.history = FirstHistory]

FirstFrames == [i \in 1 .. bound.initial |-> [kind |-> "frame", seq |-> i, by |-> 0]]

\* A server leads the empty tail; an acceptor may not have joined yet.
Leading(s, joined) ==
  /\ acc = [a \in Acceptors |-> IF a \in joined THEN Joined ELSE NewAcceptor]
  /\ srv = [t \in Servers |->
              IF t = s THEN [NewServer EXCEPT !.st = "lead", !.term = 1, !.history = FirstHistory]
              ELSE NewServer]
  /\ link = [t \in Servers |-> [a \in Acceptors |->
               IF t = s /\ a \in joined THEN [Down EXCEPT !.st = "up", !.term = 1] ELSE Down]]
  /\ committed = {}

NoServer ==
  /\ srv = [s \in Servers |-> NewServer]
  /\ link = [s \in Servers |-> [a \in Acceptors |-> Down]]

\* No server runs.  The first server streamed a prefix of its frames to each
\* acceptor.
Crashed(len) ==
  LET Held(n) == Cardinality({a \in Acceptors : len[a] >= n}) >= QUORUM
  IN /\ acc = [a \in Acceptors |->
          [Joined EXCEPT !.log = SubSeq(FirstFrames, 1, len[a]), !.empty = len[a] = 0]]
     /\ committed = {[lsn |-> n - 1, rec |-> FirstFrames[n], term |-> 1] :
                       n \in {m \in 1 .. bound.initial : Held(m)}}
     /\ NoServer

\* No server runs.  The first server's frames reached only acceptor a; a second
\* one, elected by the others, streamed one frame to those in `held`.
Diverged(a, n, held) ==
  LET second == Append(FirstHistory, [term |-> 2, lsn |-> 0])
      frame == [kind |-> "frame", seq |-> 1, by |-> -1]
  IN /\ acc = [b \in Acceptors |->
          IF b = a THEN [Joined EXCEPT !.log = SubSeq(FirstFrames, 1, n), !.empty = FALSE]
          ELSE IF b \in held THEN [Joined EXCEPT !.term = 2, !.history = second,
                                                 !.log = <<frame>>, !.empty = FALSE]
          ELSE [Joined EXCEPT !.term = 2]]
     /\ committed = IF Cardinality(held) < QUORUM THEN {}
                    ELSE {[lsn |-> 0, rec |-> frame, term |-> 2]}
     /\ NoServer

Init ==
  /\ bound \in Bounds
  /\ \/ /\ bound.start = "leading"
        /\ \E joined \in SUBSET Acceptors :
             Cardinality(joined) >= QUORUM /\ Leading(1, joined)
     \/ /\ bound.start = "crashed"
        /\ \E len \in [Acceptors -> 0 .. bound.initial] : Crashed(len)
     \/ /\ bound.start = "ahead"
        /\ \E a \in Acceptors :
             Crashed([b \in Acceptors |-> IF b = a THEN bound.initial ELSE 0])
     \/ /\ bound.start = "diverged"
        /\ \E a \in Acceptors, n \in 1 .. bound.initial :
             \E held \in SUBSET (Acceptors \ {a}) : held # {} /\ Diverged(a, n, held)
  /\ camp = [s \in Servers |-> NoCamp]
  /\ stale = {}
  /\ flushed = 0 /\ tangled = FALSE

Leads(s) == srv[s].st = "lead"

\* Quorum::open returns once the recovered suffix is committed in this term.
Opened(s) == Leads(s) /\ srv[s].commit >= srv[s].openAt

\* The server stops: a crash, a failed open, a poisoned tail.  A poisoned tail
\* refuses every submit and its peers and supervisor return.
Dies(s) ==
  /\ srv' = [srv EXCEPT ![s] = DeadServer]
  /\ camp' = [camp EXCEPT ![s] = NoCamp]
  /\ link' = [link EXCEPT ![s] = [a \in Acceptors |-> Down]]

SetLink(s, a, l) == link' = [link EXCEPT ![s][a] = l]

\* A lost call, a broken connection or a crash of an acceptor.
Drops == bound.faults > 0 /\ bound' = [bound EXCEPT !.faults = @ - 1]

\* A request the server stops waiting for is lost, or handled later.
Abandon(m) ==
  \/ UNCHANGED stale
  \/ /\ Cardinality(stale) < bound.stale
     /\ stale' = stale \cup {m}

-----------------------------------------------------------------------------
(* Elections: Quorum::open and reelect. *)

\* open 1-3: greet a quorum at least, and campaign above every term seen.
Campaign(s, floor) ==
  \E live \in SUBSET Acceptors :
    LET term == Max({acc[a].term : a \in live} \cup {floor}) + 1
        unreachable == Cardinality(Acceptors \ live)
    IN /\ Cardinality(live) >= QUORUM
       /\ unreachable <= bound.faults
       /\ bound' = [bound EXCEPT !.faults = @ - unreachable]
       /\ term <= bound.terms
       /\ camp' = [camp EXCEPT ![s] = [term |-> term, live |-> live, votes |-> <<>>]]

Greet(s) ==
  /\ srv[s].st = "new"
  /\ \A t \in 1 .. s - 1 : srv[t].st = "dead" \/ (bound.rivals /\ srv[t].st # "new")
  /\ Campaign(s, 0)
  /\ srv' = [srv EXCEPT ![s].st = "open"]
  /\ UNCHANGED <<acc, link, stale, ghostVars>>

\* run_supervisor, reelect 1: an acceptor answered with a higher term, or a
\* waiter stalled for append_timeout.
Regreet(s) ==
  /\ Leads(s) /\ camp[s] = NoCamp
  /\ \/ \E a \in Acceptors : acc[a].term > srv[s].term
     \/ srv[s].commit < Most(Flush(srv[s]), srv[s].openAt)
  /\ Campaign(s, srv[s].term)
  /\ UNCHANGED <<acc, srv, link, stale, ghostVars>>

Voters(s) == DOMAIN camp[s].votes
Undecided(s) == camp[s].live \ Voters(s)

\* The vote fences every connection of a lower term: it can only fail from here.
Vote(s, a) ==
  LET c == camp[s]
      votes == [v \in Voters(s) \cup {a} |->
                  IF v = a THEN VoteAnswer(acc[a]) ELSE c.votes[v]]
  IN /\ a \in Undecided(s) /\ Grants(acc[a], c.term)
     /\ acc' = [acc EXCEPT ![a] = AfterVote(acc[a], c.term)]
     /\ camp' = [camp EXCEPT ![s].votes = votes]
     /\ link' = [t \in Servers |-> [link[t] EXCEPT ![a] = IF @.st = "up" THEN Down ELSE @]]
     /\ UNCHANGED <<srv, stale, bound, ghostVars>>

\* A refusal ends the open; in a re-election a competitor is campaigning, and
\* the supervisor poisons the tail.
VoteRefused(s, a) ==
  /\ a \in Undecided(s) /\ ~ Grants(acc[a], camp[s].term)
  /\ Dies(s)
  /\ UNCHANGED <<acc, stale, bound, ghostVars>>

VoteLost(s, a) ==
  /\ Drops
  /\ a \in Undecided(s)
  /\ camp' = [camp EXCEPT ![s].live = @ \ {a}]
  /\ Abandon([kind |-> "vote", to |-> a, term |-> camp[s].term])
  /\ UNCHANGED <<acc, srv, link, ghostVars>>

\* pick_donor: the greatest (last_log_term, flush).
IsDonor_Longest(votes, d) == \A v \in DOMAIN votes : votes[v].flush <= votes[d].flush

IsDonor(votes, d) ==
  \A v \in DOMAIN votes :
    \/ votes[v].llt < votes[d].llt
    \/ votes[v].llt = votes[d].llt /\ votes[v].flush <= votes[d].flush

\* open 4: the donor's end starts the term; recovery begins at the highest
\* horizon a voter reports.
Elect(s) ==
  LET c == camp[s]
      Horizon == Max({c.votes[v].horizon : v \in Voters(s)})
      Stale(d) == \/ Horizon > c.votes[d].flush
                  \/ c.votes[d].llt >= c.term
  IN /\ srv[s].st = "open" /\ Undecided(s) = {}
     /\ \/ /\ Cardinality(Voters(s)) < QUORUM
           /\ Dies(s)
        \/ \E d \in Voters(s) :
             /\ Cardinality(Voters(s)) >= QUORUM /\ IsDonor(c.votes, d)
             /\ IF Stale(d) THEN Dies(s)
                ELSE /\ srv' = [srv EXCEPT ![s] = [@ EXCEPT
                             !.st = "read", !.donor = d, !.term = c.term,
                             !.tstart = c.votes[d].flush, !.openAt = c.votes[d].flush,
                             !.history = Append(c.votes[d].history,
                                           [term |-> c.term, lsn |-> c.votes[d].flush]),
                             !.start = Horizon, !.horizon = Horizon]]
                     /\ UNCHANGED <<camp, link>>
     /\ UNCHANGED <<acc, stale, bound, ghostVars>>

\* open 5: one chunk read from the donor's log as it is now (handle_read); a
\* range the donor does not retain fails the open.
Download(s) ==
  LET r == srv[s]
      x == acc[r.donor]
      to == Least(r.tstart, Flush(r) + ReadChunk)
  IN /\ r.st = "read" /\ Flush(r) < r.tstart
     /\ IF Flush(r) >= x.start /\ Flush(r) < Flush(x)
        THEN /\ srv' = [srv EXCEPT ![s].log = @ \o
                  SubSeq(x.log, Flush(r) - x.start + 1, Least(to, Flush(x)) - x.start)]
             /\ UNCHANGED <<camp, link>>
        ELSE Dies(s)
     /\ UNCHANGED <<acc, stale, bound, ghostVars>>

SeedSeq_Reuses(log) == Max({1} \cup {log[i].seq : i \in DOMAIN log})

\* worker_main: the next sequence number, from frames and watermarks alike.
SeedSeq(log) == 1 + Max({0} \cup {log[i].seq : i \in DOMAIN log})

\* open 6-8, worker_main: the log buffer and the sequence numbers start from
\* the recovered records; the voters' answers feed their first handshakes.
Recovered(s) ==
  LET r == srv[s]
  IN /\ r.st = "read" /\ Flush(r) = r.tstart
     /\ srv' = [srv EXCEPT ![s] = [@ EXCEPT
          !.st = "elect", !.donor = None,
          !.nextSeq = SeedSeq(r.log)]]
     /\ link' = [link EXCEPT ![s] = [a \in Acceptors |->
          IF a \in Voters(s)
          THEN [st |-> "voted", term |-> r.term, flush |-> camp[s].votes[a].flush,
                history |-> camp[s].votes[a].history]
          ELSE Down]]
     /\ camp' = [camp EXCEPT ![s] = NoCamp]
     /\ UNCHANGED <<acc, stale, bound, ghostVars>>

\* open 8: the peers' tasks are spawned after the first handshakes.
BeginLead(s) ==
  /\ srv[s].st = "elect"
  /\ \A a \in Acceptors : link[s][a].st # "voted"
  /\ srv' = [srv EXCEPT ![s].st = "lead"]
  /\ UNCHANGED <<acc, camp, link, stale, bound, ghostVars>>

\* A history in which a term starts below the start of an earlier one.
IsTangled(h) == \E i, j \in DOMAIN h : i < j /\ h[j].lsn < h[i].lsn

\* reelect 2-4, run_supervisor: the donor's history must be ours up to its end
\* and its end in our buffer; the new term starts there, with every peer
\* unknown again.  Two failed attempts in a row poison the tail.
Readopt(s) ==
  LET r == srv[s]
      c == camp[s]
      Fails == IF r.fails = 1 THEN Dies(s)
               ELSE /\ srv' = [srv EXCEPT ![s].fails = 1]
                    /\ camp' = [camp EXCEPT ![s] = NoCamp]
                    /\ UNCHANGED link
      Adopts(d) ==
        LET h == Append(r.history, [term |-> c.term, lsn |-> c.votes[d].flush])
        IN /\ srv' = [srv EXCEPT ![s] = [@ EXCEPT
                !.term = c.term, !.tstart = c.votes[d].flush, !.history = h,
                !.flush = [a \in Acceptors |-> 0], !.failed = {}, !.fails = 0]]
           /\ camp' = [camp EXCEPT ![s] = NoCamp]
           /\ UNCHANGED link
  IN /\ Leads(s) /\ c.term > 0 /\ Undecided(s) = {}
     /\ \/ Cardinality(Voters(s)) < QUORUM /\ Fails /\ UNCHANGED tangled
        \/ \E d \in Voters(s) :
             /\ Cardinality(Voters(s)) >= QUORUM /\ IsDonor(c.votes, d)
             /\ \/ /\ c.votes[d].history # UpTo(r.history, c.votes[d].flush)
                   /\ Dies(s) /\ UNCHANGED tangled
                \/ /\ c.votes[d].history = UpTo(r.history, c.votes[d].flush)
                   /\ c.votes[d].flush \notin r.start .. Flush(r)
                   /\ Fails /\ UNCHANGED tangled
                \/ /\ c.votes[d].history = UpTo(r.history, c.votes[d].flush)
                   /\ c.votes[d].flush \in r.start .. Flush(r)
                   /\ Adopts(d)
                   /\ tangled' = (tangled \/ IsTangled(srv'[s].history))
     /\ UNCHANGED <<acc, stale, bound, committed, flushed>>

-----------------------------------------------------------------------------
(* One acceptor's streaming task (run_peer, handshake). *)

\* The history of the election a connection was made in.
HistoryAt(s, term) == SelectSeq(srv[s].history, LAMBDA e : e.term <= term)

\* compute_start: the server's mirror of the acceptor's ExpectedStart.
ComputeStart(prop, sk, flush, base) ==
  LET common == HighestCommonPoint(prop, sk, flush)
  IN IF common # None THEN common
     ELSE IF sk = <<>> /\ flush = 0 THEN base ELSE Head(prop).lsn

\* quorum_commit: positions below the term's start do not count.
QuorumCommit(flush, tstart) ==
  LET counted == [a \in Acceptors |-> IF flush[a] < tstart THEN 0 ELSE flush[a]]
  IN Max({0} \cup {n \in {counted[a] : a \in Acceptors} :
                     Cardinality({a \in Acceptors : counted[a] >= n}) >= QUORUM})

\* recompute_commit_at
RecomputeCommit(r) ==
  LET cand == QuorumCommit(r.flush, r.tstart)
  IN IF cand >= r.tstart /\ cand > r.commit THEN cand ELSE r.commit

\* The records of a buffer below its commit position.
Counted(r) ==
  {[lsn |-> n, rec |-> RecAt(r, n), term |-> r.term] : n \in {m \in 0 .. r.commit - 1 : HasLsn(r, m)}}

\* store_ack: an answer to a connection of an earlier term is discarded.
StoreAck(s, a, term, flush) ==
  LET r1 == [srv[s] EXCEPT !.flush[a] = flush]
      r2 == [r1 EXCEPT !.commit = RecomputeCommit(r1)]
  IN IF term = srv[s].term
     THEN /\ srv' = [srv EXCEPT ![s] = r2]
          /\ SetLink(s, a, [Down EXCEPT !.st = "up", !.term = term])
          /\ committed' = committed \cup (Counted(r2) \ Counted(srv[s]))
     ELSE /\ SetLink(s, a, Down)
          /\ UNCHANGED <<srv, committed>>

\* An answer is read at once, or late when a re-election is under way: only then
\* can the delay be told.
Answer(s, a, term, flush) ==
  \/ StoreAck(s, a, term, flush)
  \/ /\ camp[s] # NoCamp
     /\ SetLink(s, a, [Down EXCEPT !.st = "acked", !.term = term, !.flush = flush])
     /\ UNCHANGED <<srv, committed>>

LateAnswer(s, a) ==
  /\ link[s][a].st = "acked"
  /\ StoreAck(s, a, link[s][a].term, link[s][a].flush)
  /\ UNCHANGED <<acc, camp, stale, bound, flushed, tangled>>

\* handshake: vote at our own term; the answer's positions count even when the
\* vote is refused because we hold the term already.
HandshakeVote(s, a) ==
  LET term == srv[s].term
      x == AfterVote(acc[a], term)
  IN /\ Leads(s) /\ link[s][a] = Down /\ a \notin srv[s].failed
     /\ x.term = term
     /\ acc' = [acc EXCEPT ![a] = x]
     /\ SetLink(s, a, [st |-> "voted", term |-> term, flush |-> VoteAnswer(x).flush,
                       history |-> VoteAnswer(x).history])
     /\ UNCHANGED <<srv, camp, stale, bound, ghostVars>>

\* The Elected request of a connection that has its vote answer.
ElectedRequest(s, a) ==
  LET l == link[s][a]
      h == HistoryAt(s, l.term)
  IN [kind |-> "elected", to |-> a, term |-> l.term, history |-> h,
      start |-> ComputeStart(h, l.history, l.flush, srv[s].start)]

\* A start below the buffer marks the peer failed until the next election.
Behind(s, a) == ElectedRequest(s, a).start < srv[s].start

HandshakeRefused(s, a) ==
  LET l == link[s][a]
  IN /\ l.st = "voted"
     /\ \/ /\ Disagree(HistoryAt(s, l.term), l.history)
           /\ UNCHANGED srv
        \/ /\ ~ Disagree(HistoryAt(s, l.term), l.history)
           /\ Behind(s, a)
           /\ srv' = [srv EXCEPT ![s].failed = @ \cup {a}]
     /\ SetLink(s, a, Down)
     /\ UNCHANGED <<acc, camp, stale, bound, ghostVars>>

Sends(s, a) ==
  /\ link[s][a].st = "voted"
  /\ ~ Disagree(HistoryAt(s, link[s][a].term), link[s][a].history)
  /\ ~ Behind(s, a)

\* The acceptor handles Elected and answers; the fence ends an open.
HandshakeElected(s, a) ==
  LET m == ElectedRequest(s, a)
      ok == ElectedOk(acc[a], m.term, m.start, m.history)
  IN /\ Sends(s, a)
     /\ acc' = [acc EXCEPT ![a] = AfterElected(acc[a], m.term, m.start, m.history)]
     /\ \/ ok /\ Answer(s, a, m.term, m.start) /\ UNCHANGED camp
        \/ /\ ~ ok /\ UNCHANGED committed
           /\ IF srv[s].st = "elect" /\ acc[a].term > m.term THEN Dies(s)
              ELSE SetLink(s, a, Down) /\ UNCHANGED <<srv, camp>>
     /\ UNCHANGED <<stale, bound, flushed, tangled>>

HandshakeLost(s, a) ==
  /\ Drops
  /\ Sends(s, a)
  /\ SetLink(s, a, Down)
  /\ Abandon(ElectedRequest(s, a))
  /\ UNCHANGED <<acc, srv, camp, ghostVars>>

\* next_batch: the records from the acked position on, as many as fit.
Batch(s, a) ==
  LET r == srv[s]
      n == Least(MaxBatch, Flush(r) - r.flush[a])
  IN [kind |-> "append", to |-> a, term |-> link[s][a].term, begin |-> r.flush[a],
      recs |-> SubSeq(r.log, r.flush[a] - r.start + 1, r.flush[a] - r.start + n),
      commit |-> r.commit, horizon |-> r.horizon]

Streams(s, a) ==
  /\ Leads(s) /\ link[s][a].st = "up" /\ link[s][a].term = srv[s].term
  /\ a \notin srv[s].failed
  /\ srv[s].flush[a] \in srv[s].start .. Flush(srv[s]) - 1

SendAppend(s, a) ==
  /\ Streams(s, a)
  /\ LET m == Batch(s, a)
     IN IF AppendOk(acc[a], m)
        THEN \E x \in AfterAppendAll(acc[a], m) :
               acc' = [acc EXCEPT ![a] = x] /\ Answer(s, a, m.term, Flush(x))
        ELSE SetLink(s, a, Down) /\ UNCHANGED <<acc, srv, committed>>
  /\ UNCHANGED <<camp, stale, bound, flushed, tangled>>

AppendLost(s, a) ==
  /\ Drops
  /\ Streams(s, a)
  /\ SetLink(s, a, Down)
  /\ Abandon(Batch(s, a))
  /\ UNCHANGED <<acc, srv, camp, ghostVars>>

\* The connection breaks, or its answer is lost.
Disconnect(s, a) ==
  /\ Drops
  /\ link[s][a].st \in {"up", "acked"} /\ Leads(s)
  /\ SetLink(s, a, Down)
  /\ UNCHANGED <<acc, srv, camp, stale, ghostVars>>

\* The task leaves a connection of an earlier term, of an expelled peer, or of a
\* peer whose position is no longer in the buffer, which it marks failed.
Leaves(s, a) ==
  \/ link[s][a].term # srv[s].term
  \/ a \in srv[s].failed \/ srv[s].flush[a] < srv[s].start

LeaveConnection(s, a) ==
  LET gone == link[s][a].term = srv[s].term /\ srv[s].flush[a] < srv[s].start
  IN /\ Leads(s) /\ link[s][a].st = "up" /\ Leaves(s, a)
     /\ SetLink(s, a, Down)
     /\ srv' = [srv EXCEPT ![s].failed = IF gone THEN @ \cup {a} ELSE @]
     /\ UNCHANGED <<acc, camp, stale, bound, ghostVars>>

-----------------------------------------------------------------------------
(* The tail's operations (submit, note_covered, tail_quorum.rs). *)

SubmitRecord(s, r, kind, seq) ==
  [r EXCEPT !.log = Append(@, [kind |-> kind, seq |-> seq, by |-> s])]

\* append_staged: the sequence number is consumed with the submit.
SubmitFrame(s) ==
  LET r == [SubmitRecord(s, srv[s], "frame", srv[s].nextSeq) EXCEPT !.nextSeq = @ + 1]
  IN /\ Opened(s) /\ Flush(srv[s]) < bound.lsn
     /\ srv' = [srv EXCEPT ![s] = r]
     /\ committed' = committed \cup (Counted(r) \ Counted(srv[s]))
     /\ UNCHANGED <<acc, camp, link, stale, bound, flushed, tangled>>

\* last_wm: the last watermark record of the buffer, an index of the log.
LastWm(r) == Max({0} \cup {i \in DOMAIN r.log : r.log[i].kind = "wm"})
LastWmSeq(r) == IF LastWm(r) = 0 THEN 0 ELSE r.log[LastWm(r)].seq

\* RecordWatermark: the flusher committed the frames up to one of them to the
\* lake; a watermark no newer than the last is skipped.
RecordWatermark(s) ==
  LET r == srv[s]
  IN /\ Opened(s) /\ Flush(r) < bound.lsn
     /\ \E i \in 1 .. r.commit - r.start :
          /\ r.log[i].kind = "frame" /\ r.log[i].seq > LastWmSeq(r)
          /\ srv' = [srv EXCEPT ![s] = SubmitRecord(s, r, "wm", r.log[i].seq)]
          /\ flushed' = Most(flushed, r.log[i].seq)
     /\ UNCHANGED <<acc, camp, link, stale, bound, committed, tangled>>

\* coverable_prefix: a frame is coverable when it is covered and a watermark
\* at or above it is retained, a watermark when a later one exists.
Coverable_NoWatermark(r, i) ==
  IF r.log[i].kind = "frame" THEN r.covered >= r.log[i].seq ELSE TRUE

Coverable(r, i) ==
  IF r.log[i].kind = "frame" THEN r.covered >= r.log[i].seq /\ LastWmSeq(r) >= r.log[i].seq
  ELSE LastWm(r) > i

CoverablePrefix(r) ==
  Max({n \in 0 .. Least(Len(r.log), r.commit - r.start) : \A i \in 1 .. n : Coverable(r, i)})

\* coverable_prefix: the walk stops at the last watermark, far behind the head.
NeedsRefresh(r) ==
  LET i == CoverablePrefix(r) + 1
  IN /\ i <= r.commit - r.start /\ r.log[i].kind = "wm"
     /\ Len(r.log) - i + 1 > RefreshSlack

\* advance_horizon_locked: live peers that lag too far are expelled, and the
\* buffer is dropped up to the horizon or the slowest peer that is left.
Kept(r, horizon) ==
  {a \in Acceptors \ r.failed : horizon - Least(horizon, r.flush[a]) <= MaxPeerLag}

AdvanceHorizon(r) ==
  LET h == Most(r.start + CoverablePrefix(r), r.horizon)
      kept == Kept(r, h)
      drop == Least(h, IF kept = {} THEN h ELSE Min({r.flush[a] : a \in kept}))
      base == Most(r.start, drop)
  IN IF h = r.horizon THEN r
     ELSE [r EXCEPT !.horizon = h, !.failed = Acceptors \ kept, !.start = base,
                    !.log = SubSeq(r.log, base - r.start + 1, Len(r.log))]

\* append_watermark_off_loop: a refresh re-appends the watermark at the head.
Refreshed(s, r, r1) ==
  IF NeedsRefresh(r) /\ Flush(r1) < bound.lsn
  THEN SubmitRecord(s, r1, "wm", Most(LastWmSeq(r1), r1.covered)) ELSE r1

\* truncate, note_covered: the flush recorded its watermark, and the commit of
\* the watermark was waited for.
NoteCovered(s) ==
  LET r == [srv[s] EXCEPT !.covered = LastWmSeq(srv[s])]
  IN /\ Opened(s) /\ LastWm(srv[s]) > 0
     /\ srv[s].start + LastWm(srv[s]) <= srv[s].commit
     /\ srv' = [srv EXCEPT ![s] = Refreshed(s, r, AdvanceHorizon(r))]
     /\ srv' # srv
     /\ UNCHANGED <<acc, camp, link, stale, bound, ghostVars>>

\* nudge_horizon: a committed watermark can free what it supersedes.
NudgeHorizon(s) ==
  /\ Opened(s)
  /\ srv[s].start + LastWm(srv[s]) <= srv[s].commit
  /\ srv' = [srv EXCEPT ![s] = Refreshed(s, srv[s], AdvanceHorizon(srv[s]))]
  /\ srv' # srv
  /\ UNCHANGED <<acc, camp, link, stale, bound, ghostVars>>

-----------------------------------------------------------------------------
(* Faults. *)

\* An abandoned request reaches its acceptor after all; nobody reads the answer.
HandleStale(m) ==
  LET x == acc[m.to]
  IN /\ m \in stale /\ stale' = stale \ {m}
     /\ CASE m.kind = "vote" -> acc' = [acc EXCEPT ![m.to] = AfterVote(x, m.term)]
          [] m.kind = "elected" ->
               acc' = [acc EXCEPT ![m.to] = AfterElected(x, m.term, m.start, m.history)]
          [] m.kind = "append" ->
               IF AppendOk(x, m)
               THEN \E y \in AfterAppendAll(x, m) : acc' = [acc EXCEPT ![m.to] = y]
               ELSE UNCHANGED acc
     /\ UNCHANGED <<serverVars, bound, ghostVars>>

\* What a restart of acceptor a does to the connections to it.
BreakConnections(a) ==
  /\ link' = [s \in Servers |-> [link[s] EXCEPT ![a] =
                IF @.st \in {"up", "voted"} THEN Down ELSE @]]
  /\ camp' = [s \in Servers |-> [camp[s] EXCEPT !.live = IF a \in Undecided(s) THEN @ \ {a} ELSE @]]
  /\ srv' = [s \in Servers |-> IF srv[s].st = "read" /\ srv[s].donor = a THEN DeadServer ELSE srv[s]]

AcceptorRestarts(a) ==
  /\ Drops
  /\ acc' = [acc EXCEPT ![a] = Reboot(@)]
  /\ BreakConnections(a)
  /\ UNCHANGED <<stale, ghostVars>>

\* The acceptor stops inside handle_elected, within the cut, which deletes the
\* last segments first, or after it and before the history is durable; or the
\* control file cannot be written, which wedges it.
TornElected(s, a) ==
  LET m == ElectedRequest(s, a)
      Cut(lsn) == TruncateFrom(AdoptTerm(acc[a], m.term), lsn)
  IN /\ Drops
     /\ Sends(s, a) /\ ElectedOk(acc[a], m.term, m.start, m.history)
     /\ \E lsn \in m.start .. Most(m.start, Flush(acc[a])) :
          acc' = [acc EXCEPT ![a] = Reboot(Cut(lsn))]
     /\ BreakConnections(a)
     /\ UNCHANGED <<stale, ghostVars>>

\* The acceptor stops inside SegmentWal::append: a prefix of the batch is on disk.
\* A segment file created for a record that did not reach it is deleted by the
\* next open, which still takes the position from its name.
TornAppend(s, a) ==
  LET m == Batch(s, a)
      Torn(n) == WalAppend(acc[a], m.begin, SubSeq(m.recs, 1, n))
      Scanned(x) == IF x.log # <<>> THEN Reboot(x)
                    ELSE [x EXCEPT !.commit = Least(x.saved, x.start), !.empty = x.start = 0]
  IN /\ Drops
     /\ Streams(s, a) /\ AppendOk(acc[a], m)
     /\ \E n \in 0 .. Len(m.recs) : acc' = [acc EXCEPT ![a] = Scanned(Torn(n))]
     /\ BreakConnections(a)
     /\ UNCHANGED <<stale, ghostVars>>

\* The server crashes, or a second append_timeout poisons it (wait_commit).
ServerStops(s) ==
  /\ srv[s].st \notin {"new", "dead"}
  /\ Dies(s)
  /\ UNCHANGED <<acc, stale, bound, ghostVars>>

-----------------------------------------------------------------------------
(* A step that only its own server can see is taken at once: taking it      *)
(* later, with other steps in between, leads to the same states.  Between   *)
(* the two calls of a handshake an abandoned request can reach the          *)
(* acceptor, and a re-election can begin.                                   *)

Decide(s) == Elect(s) \/ Recovered(s) \/ BeginLead(s) \/ Readopt(s)

Finish(s, a) ==
  \/ LateAnswer(s, a) \/ LeaveConnection(s, a)
  \/ HandshakeRefused(s, a) \/ HandshakeElected(s, a)

Deciding(s) ==
  \/ camp[s].term > 0 /\ Undecided(s) = {} /\ srv[s].st \in {"open", "lead"}
  \/ srv[s].st = "read" /\ Flush(srv[s]) = srv[s].tstart
  \/ srv[s].st = "elect" /\ \A a \in Acceptors : link[s][a].st # "voted"

Finishing(s, a) ==
  /\ camp[s] = NoCamp
  /\ \/ link[s][a].st = "acked"
     \/ link[s][a].st = "up" /\ Leaves(s, a)
     \/ link[s][a].st = "voted" /\ Leads(s) /\ \A m \in stale : m.to # a

Urgent ==
  \E s \in Servers : Deciding(s) \/ \E a \in Acceptors : Finishing(s, a)

UrgentStep ==
  \E s \in Servers :
    \/ Deciding(s) /\ Decide(s)
    \/ \E a \in Acceptors : Finishing(s, a) /\ Finish(s, a)

Election(s) ==
  \/ Greet(s) \/ Regreet(s) \/ Download(s)
  \/ \E a \in Acceptors : Vote(s, a) \/ VoteRefused(s, a) \/ VoteLost(s, a)

PeerStep(s, a) ==
  \/ HandshakeVote(s, a) \/ HandshakeLost(s, a) \/ SendAppend(s, a) \/ AppendLost(s, a)
  \/ Disconnect(s, a) \/ Finish(s, a)

TailStep(s) ==
  SubmitFrame(s) \/ RecordWatermark(s) \/ NoteCovered(s) \/ NudgeHorizon(s)

Faults ==
  \/ \E m \in stale : HandleStale(m)
  \/ \E a \in Acceptors :
       \/ AcceptorRestarts(a)
       \/ \E s \in Servers : TornElected(s, a) \/ TornAppend(s, a)
  \/ \E s \in Servers : ServerStops(s)

Next ==
  \/ UrgentStep
  \/ /\ ~ Urgent
     /\ \/ \E s \in Servers :
             \/ Election(s)
             \/ TailStep(s)
             \/ \E a \in Acceptors : PeerStep(s, a)
        \/ Faults

Spec == Init /\ [][Next]_vars

-----------------------------------------------------------------------------
(* Properties. *)

\* No two server runs hold the same term, overlapping or restarted: handle_vote
\* grants a term once and open and reelect need the votes of a quorum.
TermOwned ==
  \A s, t \in Servers :
    /\ srv[s].st \in {"read", "elect", "lead"} /\ srv[t].st \in {"read", "elect", "lead"}
    /\ srv[s].term = srv[t].term
    => s = t

HoldsRecord(x, c) == HasLsn(x, c.lsn) /\ RecAt(x, c.lsn) = c.rec

\* A position whose record was acknowledged never holds another acknowledged
\* record: pick_donor adopts the most advanced voter and quorum_commit counts no
\* acknowledgement below the start of the term.
Agreement ==
  tangled \/ \A c, d \in committed : c.lsn = d.lsn => c.rec = d.rec

OnQuorum(c) ==
  Cardinality({a \in Acceptors : HoldsRecord(acc[a], c) \/ c.lsn < acc[a].start}) >= QUORUM

\* An acknowledged record stays on a quorum, whatever elections, late Elected
\* requests and acceptor crashes follow (handle_elected's truncation), unless
\* the acceptors dropped it below the horizon.
CommittedHeld == tangled \/ \A c \in committed : OnQuorum(c)

\* The same without exception, as handle_elected states it: "a proposer may never
\* rewind committed records".
NeverRewound == \A c \in committed : OnQuorum(c)

\* A server that has opened the tail (Quorum::open, reelect) holds every record
\* acknowledged in its term or an earlier one, or starts above it.
LeaderComplete ==
  tangled \/ \A s \in Servers : Opened(s) =>
    \A c \in committed : c.term <= srv[s].term =>
      HoldsRecord(srv[s], c) \/ c.lsn < srv[s].start

\* Whatever a server can no longer replay is in the lake, and the watermark
\* that says so is replayed in its stead: coverable_prefix lets the horizon
\* pass a frame only behind a retained watermark.
WatermarkRetained ==
  tangled \/ \A s \in Servers : Opened(s) =>
    \A c \in committed : c.lsn < srv[s].start /\ c.rec.kind = "frame" =>
      /\ c.rec.seq <= flushed
      /\ LastWmSeq(srv[s]) >= c.rec.seq

\* Sequence numbers of acknowledged frames grow with their position, across the
\* runs of the server: worker_main seeds them from the recovered records.
SequenceOrdered ==
  tangled \/ \A c, d \in committed :
    c.rec.kind = "frame" /\ d.rec.kind = "frame" /\ c.lsn < d.lsn => c.rec.seq < d.rec.seq
====
