------------------------- MODULE ExactlyOnceInserts -------------------------
(***************************************************************************)
(* What buffered INSERTs promise, without buffer, tail, flusher or         *)
(* restarts: every statement takes effect at most once, a statement whose  *)
(* error is exact never takes effect, and an effect is never undone.       *)
(***************************************************************************)
EXTENDS Naturals

CONSTANT Stmts

VARIABLES
  outcome,   \* what the client knows of each statement
  applied    \* how often each statement took effect in the table

vars == <<outcome, applied>>

Init == /\ outcome = [s \in Stmts |-> "new"]
        /\ applied = [s \in Stmts |-> 0]

Submit(s) == /\ outcome[s] = "new"
             /\ outcome' = [outcome EXCEPT ![s] = "open"]
             /\ UNCHANGED applied

Acknowledge(s) == /\ outcome[s] = "open"
                  /\ outcome' = [outcome EXCEPT ![s] = "acked"]
                  /\ UNCHANGED applied

\* The statement errors and will never take effect.
FailExactly(s) == /\ outcome[s] \in {"new", "open"}
                  /\ applied[s] = 0
                  /\ outcome' = [outcome EXCEPT ![s] = "failed"]
                  /\ UNCHANGED applied

\* The clients of some open statements get no answer, or an error that does
\* not tell: those statements may or may not take effect.
LoseTrack == \E S \in SUBSET {s \in Stmts : outcome[s] = "open"} :
               /\ outcome' = [s \in Stmts |-> IF s \in S THEN "ambiguous" ELSE outcome[s]]
               /\ UNCHANGED applied

\* A group of statements takes effect, atomically.
Apply == \E S \in SUBSET {s \in Stmts : /\ outcome[s] \in {"open", "acked", "ambiguous"}
                                        /\ applied[s] = 0} :
           /\ applied' = [s \in Stmts |-> IF s \in S THEN 1 ELSE applied[s]]
           /\ UNCHANGED outcome

Next == \/ \E s \in Stmts : Submit(s) \/ Acknowledge(s) \/ FailExactly(s)
        \/ LoseTrack \/ Apply

Spec == Init /\ [][Next]_vars
=============================================================================
