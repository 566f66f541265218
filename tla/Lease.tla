-------------------------------- MODULE Lease --------------------------------
(* The leader lease of icegresd (src/icegres/src/lease.rs): every instance runs
   lease_loop over a quorum log of its own.  A standby polls the acceptors
   read-only and campaigns when it sees the log frozen at a quorum for a TTL; a
   leader appends a holder record every TTL/3 and steps down when one fails.

   Time is a tick.  An instance is prompt: time does not pass while one of its
   timers is due.  Ages are capped at the TTL, which is all the code compares
   them with.

   An election and a holder record are modelled by what QuorumTail shows of them: the
   election is one step at a quorum of acceptors, the record lands on one acceptor
   at a time. *)
EXTENDS Naturals, FiniteSets, FiniteSetsExt

CONSTANTS
    Instances,       \* the icegresd instances
    LeaseAcceptors,  \* the dedicated trio of lease acceptors
    QUORUM,          \* acceptors that make a quorum
    Bounds           \* the instances to explore; one is picked at the start

\* Instances are numbered from 1; a bound has a TTL of at least one tick.
ASSUME LeaseAssumption ==
    /\ IsFiniteSet(LeaseAcceptors)
    /\ QUORUM \in 0 .. Cardinality(LeaseAcceptors) /\ 2 * QUORUM > Cardinality(LeaseAcceptors)
    /\ Instances \subseteq Nat \ {0} /\ 1 \in Instances
    /\ \A b \in Bounds : b.ttl \in Nat \ {0}

VARIABLES
    bound,   \* the instance picked
    acc,     \* acceptor -> its term, the term and end of its last record
    inst,    \* instance -> the state of its lease loop
    leader,  \* instance -> the value of its leadership watch
    fresh,   \* instance -> history: ticks since its last acked record was begun
    over     \* instance -> history: ticks it has led beside a later leader

leaseVars == <<acc, inst, leader, fresh, over>>

TTL == bound.ttl
renew_interval == Max({1, TTL \div 3})
\* (The floor of one second is the daemon's floor of the TTL too.)
append_timeout == TTL

Unseen == [term |-> 0, flush |-> 0, age |-> 0, reachable |-> FALSE]

LeaseLoop ==
    [pc |-> "standby", left |-> 0, term |-> 0, lsn |-> 0, stalled |-> FALSE,
     seen |-> [a \in LeaseAcceptors |-> Unseen], landed |-> {}, begun |-> 0,
     marked |-> FALSE, history |-> {}]

\* The log is virgin, or instance 1 has just acquired it; it may be alone.
LeaseInit ==
    /\ bound \in Bounds
    /\ LET held == bound.start = "held"
           Leading == [LeaseLoop EXCEPT !.pc = "lead", !.left = renew_interval,
                                        !.term = 1, !.lsn = 1, !.history = {0, 1}]
       IN /\ acc = [a \in LeaseAcceptors |->
                       LET n == IF held THEN 1 ELSE 0
                       IN [term |-> n, log |-> n, flush |-> n, up |-> a \in bound.reach]]
          /\ inst = [i \in Instances |->
                       IF held /\ i = 1 THEN Leading
                       ELSE IF bound.alone THEN [LeaseLoop EXCEPT !.pc = "dead"] ELSE LeaseLoop]
          /\ leader = [i \in Instances |-> held /\ i = 1]
    /\ fresh = [i \in Instances |-> 0]
    /\ over = [i \in Instances |-> 0]

Up == {a \in LeaseAcceptors : acc[a].up}
\* The acceptors that answer a poll or a failed campaign: all that are up, or all but
\* one.
Answering == {R \in SUBSET Up : Cardinality(Up \ R) <= bound.lost}
Quorums(S) == {Q \in SUBSET S : Cardinality(Q) >= QUORUM}

-----------------------------------------------------------------------------
(* ExpiryTracker. *)

\* A tracker that watches the term alone.
Observe_TermOnly(o, a) ==
    IF o # Unseen /\ o.term = acc[a].term THEN [o EXCEPT !.reachable = TRUE]
    ELSE [term |-> acc[a].term, flush |-> acc[a].flush, age |-> 0, reachable |-> TRUE]

\* The clock restarts when the term or the flush position moved.
Observe(o, a) ==
    IF o # Unseen /\ o.term = acc[a].term /\ o.flush = acc[a].flush
    THEN [o EXCEPT !.reachable = TRUE]
    ELSE [term |-> acc[a].term, flush |-> acc[a].flush, age |-> 0, reachable |-> TRUE]

\* A failed probe keeps the clock running.
ObserveUnreachable(o) == [o EXCEPT !.reachable = FALSE]

Expired(seen) ==
    Cardinality({a \in LeaseAcceptors : seen[a].reachable /\ seen[a].age >= TTL}) >= QUORUM

Virgin(seen) ==
    Cardinality({a \in LeaseAcceptors :
                    seen[a].reachable /\ seen[a].term = 0 /\ seen[a].flush = 0}) >= QUORUM

-----------------------------------------------------------------------------
(* Standby. *)

\* poll_acceptors: one round, answered by the acceptors of R.  It is read and judged at
\* once, where the code's answers may be two probe timeouts (a renew interval) old.
Polled(i, R) ==
    [a \in LeaseAcceptors |->
        IF a \in R THEN Observe(inst[i].seen[a], a) ELSE ObserveUnreachable(inst[i].seen[a])]

Poll(i, R) ==
    /\ inst[i].pc = "standby" /\ inst[i].left = 0
    /\ LET lapsed == Virgin(Polled(i, R)) \/ Expired(Polled(i, R))
       IN inst' = [inst EXCEPT ![i].seen = Polled(i, R),
                               ![i].pc = IF lapsed THEN "elect" ELSE "standby",
                               ![i].left = IF lapsed THEN 0 ELSE renew_interval]
    /\ UNCHANGED <<acc, leader, fresh, over>>

Ahead(x, y) == x.log > y.log \/ (x.log = y.log /\ x.flush > y.flush)

\* pick_donor: the last record of a quorum.
Donor(Q) == CHOOSE d \in Q : \A a \in Q : ~Ahead(acc[a], acc[d])

\* Quorum::open: a term above every term of the quorum, whose logs are made equal.
Elect(i, Q) ==
    /\ inst[i].pc = "elect"
    /\ LET term == Max({acc[a].term : a \in Q}) + 1
           donor == Donor(Q)
       IN /\ term <= bound.terms
          /\ acc' = [a \in LeaseAcceptors |->
                        IF a \in Q THEN [acc[donor] EXCEPT !.term = term] ELSE acc[a]]
          /\ inst' = [inst EXCEPT ![i].pc = "record", ![i].left = append_timeout,
                                  ![i].term = term, ![i].lsn = acc[donor].flush + 1,
                                  ![i].landed = {}, ![i].begun = 0, ![i].stalled = FALSE,
                                  ![i].marked = FALSE, ![i].seen = LeaseLoop.seen,
                                  ![i].history = {acc[donor].log, term}]
    /\ UNCHANGED <<leader, fresh, over>>

\* Back to standby with a fresh tracker, after a wait.
StandBy(i, wait) ==
    inst' = [inst EXCEPT ![i] = [LeaseLoop EXCEPT !.left = wait]]

\* A campaign that comes to nothing leaves its term on the acceptors that voted.
Campaigned(i, S) ==
    LET term == Max({acc[a].term : a \in S} \cup {inst[i].term}) + 1
    IN /\ S # {} => term <= bound.terms
       /\ acc' = [a \in LeaseAcceptors |->
                     IF a \in S THEN [acc[a] EXCEPT !.term = term] ELSE acc[a]]

\* The election is lost, or the quorum dipped.
TakeoverFails(i, S, jitter) ==
    /\ inst[i].pc = "elect"
    /\ Campaigned(i, S)
    /\ StandBy(i, renew_interval + jitter)
    /\ UNCHANGED <<leader, fresh, over>>

-----------------------------------------------------------------------------
(* Holder records: submit, then wait_commit. *)

Appending(i) == inst[i].pc \in {"record", "renew"}

RenewDue(i) ==
    /\ inst[i].pc = "lead" /\ inst[i].left = 0
    /\ inst[i].lsn < bound.lsn
    /\ inst' = [inst EXCEPT ![i].pc = "renew", ![i].left = append_timeout,
                            ![i].lsn = @ + 1]
    /\ UNCHANGED <<acc, leader, fresh, over>>

\* The record reaches an acceptor that has seen no later term.
Land(i, a) ==
    /\ Appending(i) /\ a \in Up \ inst[i].landed
    /\ acc[a].term <= inst[i].term
    /\ acc' = [acc EXCEPT ![a] = [@ EXCEPT !.term = inst[i].term, !.log = inst[i].term,
                                       !.flush = inst[i].lsn]]
    /\ inst' = [inst EXCEPT ![i].landed = @ \cup {a}]
    /\ UNCHANGED <<leader, fresh, over>>

\* The holder record is on a quorum.  Now and then a watermark record, submitted and
\* waited for like it, is the second half of the same acquisition or renewal.
\* (bound.marks explores it; bound.lsn counts both kinds of records.)
WatermarkDue(i) ==
    /\ Appending(i) /\ Cardinality(inst[i].landed) >= QUORUM
    /\ bound.marks /\ ~inst[i].marked /\ inst[i].lsn < bound.lsn
    /\ inst' = [inst EXCEPT ![i].marked = TRUE, ![i].lsn = @ + 1, ![i].left = append_timeout,
                            ![i].landed = {}, ![i].begun = 0, ![i].stalled = FALSE]
    /\ fresh' = [fresh EXCEPT ![i] = inst[i].begun]
    /\ UNCHANGED <<acc, leader, over>>

\* The last record is on a quorum: the lease is acquired, or renewed.
RecordAcked(i) ==
    /\ Appending(i) /\ Cardinality(inst[i].landed) >= QUORUM
    /\ inst' = [inst EXCEPT ![i].pc = "lead", ![i].left = renew_interval, ![i].landed = {},
                            ![i].begun = 0, ![i].stalled = FALSE, ![i].marked = FALSE]
    /\ leader' = [leader EXCEPT ![i] = TRUE]
    /\ fresh' = [fresh EXCEPT ![i] = inst[i].begun]
    /\ UNCHANGED <<acc, over>>

\* The proposer is fenced, or its append stalls once: it may campaign again while
\* the quorum's log ends with a record of its own history.
Troubled(i) ==
    /\ Appending(i) /\ Cardinality(inst[i].landed) < QUORUM
    /\ \/ \E a \in Up : acc[a].term > inst[i].term
       \/ inst[i].left = 0 /\ ~inst[i].stalled

Reelect(i, Q) ==
    /\ Troubled(i)
    /\ acc[Donor(Q)].log \in inst[i].history
    /\ LET term == Max({acc[a].term : a \in Q} \cup {inst[i].term}) + 1
       IN /\ term <= bound.terms
          /\ acc' = [a \in LeaseAcceptors |->
                        IF a \in Q THEN [acc[a] EXCEPT !.term = term] ELSE acc[a]]
          /\ inst' = [inst EXCEPT ![i].term = term, ![i].landed = {},
                          ![i].history = @ \cup {term},
                          ![i].stalled = @ \/ inst[i].left = 0,
                          ![i].left = IF inst[i].left = 0 THEN append_timeout ELSE @]
    /\ UNCHANGED <<leader, fresh, over>>

\* A wait_commit that never gives up.
Stalls_Forever(i) ==
    /\ Appending(i) /\ inst[i].left = 0
    /\ inst' = [inst EXCEPT ![i].stalled = TRUE, ![i].left = append_timeout]
    /\ UNCHANGED <<acc, leader, fresh, over>>

\* No quorum answers the one re-election: the wait goes on for a second timeout.
Stalls(i) ==
    /\ Appending(i) /\ inst[i].left = 0 /\ ~inst[i].stalled
    /\ inst' = [inst EXCEPT ![i].stalled = TRUE, ![i].left = append_timeout]
    /\ UNCHANGED <<acc, leader, fresh, over>>

\* The proposer is poisoned: superseded, or out of time twice.
Poisoned(i) ==
    /\ Appending(i) /\ Cardinality(inst[i].landed) < QUORUM
    /\ \/ inst[i].left = 0 /\ inst[i].stalled
       \/ \E a \in Up : acc[a].term > inst[i].term
       \/ Troubled(i) /\ \E Q \in Quorums(Up) : acc[Donor(Q)].log \notin inst[i].history

\* A failed renewal demotes the leader; a failed first record loses the takeover.
RecordFails(i, S, jitter) ==
    /\ Poisoned(i)
    /\ S # {} => Troubled(i)
    /\ Campaigned(i, S)
    /\ leader' = [leader EXCEPT ![i] = FALSE]
    /\ over' = [over EXCEPT ![i] = 0]
    /\ StandBy(i, jitter + IF inst[i].pc = "renew" THEN TTL ELSE renew_interval)
    /\ UNCHANGED fresh

-----------------------------------------------------------------------------
(* An instance stops; the acceptors are cut off. *)

\* Silence is the release: the loop just ends.
LeaseEnds(i) ==
    /\ bound.stops /\ inst[i].pc # "dead"
    /\ inst' = [inst EXCEPT ![i] = [LeaseLoop EXCEPT !.pc = "dead"]]
    /\ leader' = [leader EXCEPT ![i] = FALSE]
    /\ over' = [over EXCEPT ![i] = 0]
    /\ UNCHANGED <<acc, fresh>>

\* The network to the lease acceptors breaks, or heals.  (Acceptors outside
\* bound.reach are down for good.)
Outage ==
    /\ bound.outages
    /\ acc' = [a \in LeaseAcceptors |-> [acc[a] EXCEPT !.up = Up = {} /\ a \in bound.reach]]
    /\ UNCHANGED <<inst, leader, fresh, over>>

Due(i) == inst[i].pc = "elect" \/ (inst[i].pc \notin {"dead", "elect"} /\ inst[i].left = 0)

Later(i) == \E j \in Instances : leader[j] /\ inst[j].term > inst[i].term

Aged(o) == IF o = Unseen THEN Unseen ELSE [o EXCEPT !.age = Min({TTL, @ + 1})]

Tick ==
    /\ \A i \in Instances : ~Due(i)
    /\ inst' = [i \in Instances |->
                  [inst[i] EXCEPT !.left = IF @ = 0 THEN 0 ELSE @ - 1,
                                  !.begun = IF Appending(i) THEN Min({TTL, @ + 1}) ELSE 0,
                                  !.seen = [a \in LeaseAcceptors |-> Aged(@[a])]]]
    /\ fresh' = [i \in Instances |-> IF leader[i] THEN Min({TTL, fresh[i] + 1}) ELSE 0]
    /\ over' = [i \in Instances |-> IF leader[i] /\ Later(i) THEN over[i] + 1 ELSE 0]
    /\ UNCHANGED <<acc, leader>>

LeaseStep(i) ==
    \/ \E R \in Answering : Poll(i, R)
    \/ \E Q \in Quorums(Up) : Elect(i, Q) \/ Reelect(i, Q)
    \/ \E a \in LeaseAcceptors : Land(i, a)
    \/ \E S \in Answering \cup {{}}, jitter \in 0 .. bound.jitter :
          TakeoverFails(i, S, jitter) \/ RecordFails(i, S, jitter)
    \/ RenewDue(i) \/ WatermarkDue(i) \/ RecordAcked(i) \/ Stalls(i) \/ LeaseEnds(i)

\* The lease loops of all instances, whatever each one does with its leadership.
LeaseNext == ((\E i \in Instances : LeaseStep(i)) \/ Outage \/ Tick) /\ UNCHANGED bound

LeaseSpec == LeaseInit /\ [][LeaseNext]_<<bound, leaseVars>>

-----------------------------------------------------------------------------
(* Properties. *)

\* A standby that finds the lease lapsed is right: no leader has begun, within the
\* last TTL, a record that a quorum acked.  (ExpiryTracker::expired: "a quorum of
\* REACHABLE acceptors whose (term, flush_lsn) has not moved for >= TTL".)
TakeoverOnlyWhenLapsed ==
    [][\A i \in Instances :
          (inst[i].pc = "standby" /\ inst'[i].pc = "elect" /\ ~Virgin(inst'[i].seen))
             => \A j \in Instances : leader[j] => fresh[j] >= TTL]_leaseVars

\* A leader that was superseded steps down.  Until then both instances answer clients,
\* and that lasts longer than the renew interval and the two append timeouts of one
\* wait_commit: the renewal in flight when the later leader appeared may hear just
\* before its second timeout that it has a quorum; only the next renewal meets the
\* fence.  (lease.rs: "the old leader learns it lost only at its next renew".)
OverlapBounded ==
    \A i \in Instances : over[i] <= renew_interval + 4 * append_timeout
=============================================================================
