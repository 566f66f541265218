---------------------------- MODULE MCPlanReuse ----------------------------
(* Instances of PlanReuse for TLC: two readers beside each other and a fault, or one
   reader whose table is dropped and re-created under it. *)
EXTENDS PlanReuse, TLC

CONSTANTS r1, r2

TwoReaders == {r1, r2}

Budget(reads, commits, faults, drops) ==
  [reads |-> reads, providers |-> 1 + drops, version |-> commits, faults |-> faults,
   drops |-> drops, races |-> FALSE]

Faulty == Budget([r \in Readers |-> 1], 1, 1, 0)
Dropped == {Budget([r \in Readers |-> IF r = one THEN 2 ELSE 0], 2, 0, 1) : one \in Readers}
AllBounds == {Faulty} \cup Dropped

\* Readers are interchangeable: nothing compares them, and AllBounds treats them alike.
Symmetry == Permutations(Readers)
====
