--------------------------- MODULE MCControlPlane ---------------------------
(* Instances of ControlPlane for TLC. *)
EXTENDS ControlPlane

Instance ==
    [start |-> "held", ttl |-> 2, terms |-> 2, lsn |-> 2, stops |-> FALSE, outages |-> FALSE,
     marks |-> FALSE, alone |-> FALSE, reach |-> LeaseAcceptors, jitter |-> 0, lost |-> 0, lease |-> FALSE,
     pids |-> 2, connects |-> 0, faults |-> 0,
     slow |-> 0, pool |-> 0, health |-> FALSE, k8s |-> FALSE, up |-> FALSE]

\* Two lease loops: a virgin log, a leader that stops, renewals that are slow, a
\* leader that is superseded, an acceptor that is down, an outage.
Virginal == [Instance EXCEPT !.start = "virgin", !.lease = TRUE, !.marks = TRUE, !.reach = {1, 2},
                             !.jitter = 1]
Takeover == [Instance EXCEPT !.lease = TRUE, !.marks = TRUE, !.stops = TRUE]
Unanswered == [Takeover EXCEPT !.lsn = 1, !.lost = 1]
SlowRenewals == [Instance EXCEPT !.lease = TRUE, !.marks = TRUE, !.ttl = 3, !.lsn = 3, !.reach = {1, 2}]
LateAck == [SlowRenewals EXCEPT !.marks = FALSE, !.ttl = 1, !.terms = 3, !.lsn = 5]
CutOff == [Instance EXCEPT !.lease = TRUE, !.reach = {1, 2}, !.outages = TRUE]
\* Two clients, a crash or a fenced tail, restarts.
Restarts == [Instance EXCEPT !.connects = 2, !.faults = 1]
Relapses == [Instance EXCEPT !.connects = 1, !.faults = 2, !.health = TRUE]
\* Warm connections.
Pooled == [Instance EXCEPT !.connects = 1, !.faults = 1, !.pool = 2]
Shared == [Instance EXCEPT !.pids = 1, !.connects = 2, !.pool = 1]
\* A compute that is slow to accept.
Slow == [Instance EXCEPT !.pids = 2, !.connects = 2, !.slow = 1]
\* The scaled workload.
Scaled == [Instance EXCEPT !.pids = 1, !.connects = 2, !.faults = 1, !.k8s = TRUE]
StillUp == [Scaled EXCEPT !.up = TRUE, !.connects = 1]
\* Leadership is lost and regained around a spawn.
Demoted == [Instance EXCEPT !.ttl = 1, !.lsn = 2, !.lease = TRUE, !.outages = TRUE,
                            !.alone = TRUE, !.reach = {1, 2}, !.connects = 1]
Deposed == [Demoted EXCEPT !.marks = TRUE, !.pids = 1, !.faults = 1, !.terms = 1]
Handover == [Demoted EXCEPT !.pids = 1, !.connects = 0, !.up = TRUE, !.k8s = TRUE]
AllBounds ==
    {Virginal, Takeover, Unanswered, SlowRenewals, LateAck, CutOff, Restarts, Relapses, Pooled, Shared, Slow,
     Scaled, StillUp, Demoted, Deposed, Handover}

\* A crash whose monitor settles after a client woke the compute again.
OnlyRewoken == {[Restarts EXCEPT !.health = TRUE]}
=============================================================================
