--------------------------- MODULE MCWriteBuffer ---------------------------
(* Instances of WriteBuffer for TLC. *)
EXTENDS WriteBuffer, TLC

CONSTANTS s1, s2

TwoStmts == {s1, s2}

\* Statements are interchangeable: nothing compares them.
Symmetry == Permutations(Stmts)
====
