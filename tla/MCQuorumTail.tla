----------------------------- MODULE MCQuorumTail -----------------------------
(* Instances of QuorumTail for TLC. *)
EXTENDS QuorumTail, TLC

CONSTANTS a1, a2, a3

ThreeAcceptors == {a1, a2, a3}

Instance == [start |-> "crashed", rivals |-> FALSE, terms |-> 3, lsn |-> 1,
             initial |-> 1, stale |-> 0, faults |-> 0]

\* Two servers that overlap.
Overlap == [Instance EXCEPT !.start = "leading", !.rivals = TRUE]
\* Crashes, lost calls and requests that arrive late: around one election, and
\* around two.
Restarts == [Instance EXCEPT !.terms = 2, !.lsn = 2, !.initial = 2, !.stale = 1, !.faults = 2]
Reelected == [Instance EXCEPT !.stale = 1, !.faults = 1]
\* The logs of two servers that diverge.
Diverging == [Instance EXCEPT !.start = "diverged", !.terms = 4, !.lsn = 2, !.initial = 2]
\* Frames, watermarks and garbage collection.
Coverage == [Instance EXCEPT !.start = "leading", !.terms = 2, !.lsn = 3]
AllBounds == {Overlap, Restarts, Reelected, Diverging, Coverage}

\* A server re-elects itself before the suffix it recovered is committed again.
Recommit == [Instance EXCEPT !.start = "ahead", !.lsn = 2, !.initial = 2, !.faults = 3]
OnlyRecommit == {Recommit}

\* Acceptors are interchangeable: nothing compares them.
Symmetry == Permutations(Acceptors)
====
