---------------------------- MODULE MCFreshness ----------------------------
(* Instances of Freshness for TLC. *)
EXTENDS Freshness, TLC

CONSTANTS r1, r2

TwoReaders == {r1, r2}

Budget(first, second, most, commits, faults, drops) ==
  [reads |-> (r1 :> first @@ r2 :> second), providers |-> most, version |-> commits,
   faults |-> faults, drops |-> drops, races |-> TRUE]

Faulty == Budget(2, 0, 1, 2, 1, 0)
Twins == Budget(1, 1, 2, 0, 0, 0)
Dropped == Budget(1, 0, 2, 1, 0, 1)
AllBounds == {Faulty, Twins, Dropped}
====
