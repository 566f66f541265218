------------------------------ MODULE MCLake ------------------------------
(* Instances of Lake for TLC. *)
EXTENDS Lake

CONSTANTS t1, t2, k1, k2

TwoTables == <<t1, t2>>

On(main, dev) == [r \in Refs |-> IF r = "main" THEN main ELSE dev]
Table(chain, keys, main, dev) ==
    [chain |-> chain, refs |-> On(main, dev),
     rows |-> [n \in DOMAIN chain |-> {[id |-> <<chain[n], i>>, key |-> keys[n][i]] :
                                          i \in DOMAIN keys[n]}]]
Pair(a, b) == [t \in Tables |-> IF t = t1 THEN a ELSE b]

Empty == Table(<<>>, <<>>, None, None)
One(n) == Table(<<n>>, <<<<k1>>>>, n, None)
Forked(n) == Table(<<n>>, <<<<k1>>>>, n, n)
DevAhead(n) == Table(<<n, n + 2>>, <<<<k1>>, <<k2>>>>, n, n + 2)
Long(n) == Table(<<n, n + 2, n + 4>>, <<<<k1>>, <<k1, k2>>, <<k2>>>>, n + 4, None)

Do(op) == [op |-> op, ref |-> "main", on |-> t1]
OnDev(op) == [Do(op) EXCEPT !.ref = "dev"]
OnLast(op) == [Do(op) EXCEPT !.on = t2]

Instance == [jobs |-> <<>>, start |-> Pair(One(1), One(2)), enforced |-> FALSE,
             endpoint |-> TRUE, strict |-> FALSE, statements |-> 2, losses |-> FALSE]

\* Three enforced writers of one table, and a merge of the branch one of them writes.
Writers == {[Instance EXCEPT !.jobs = js, !.enforced = TRUE, !.losses = TRUE] :
              js \in {<<Do("insert"), Do("insert"), Do("dml")>>,
                      <<Do("txn"), Do("insert"), Do("dml")>>}}
             \cup {[Instance EXCEPT !.jobs = <<Do("merge"), OnDev("insert"), Do("dml")>>,
                                    !.start = Pair(Forked(1), One(2)), !.enforced = TRUE]}
\* A transaction writes the first snapshot of a table while the branch is cut.
FirstSnapshot == {[Instance EXCEPT !.jobs = <<Do("txn2"), Do("branchAll")>>,
                                   !.start = Pair(Empty, One(2))]}
\* Transactions of two tables, with and without the endpoint, and a branch of
\* the whole lakehouse.
Cuts == {[Instance EXCEPT !.jobs = <<Do("txn2"), Do("branchAll"), OnLast("insert")>>,
                          !.endpoint = e, !.strict = s] : e \in BOOLEAN, s \in BOOLEAN}
          \cup FirstSnapshot
\* Branches and merges.
Branching == {[Instance EXCEPT !.jobs = js, !.start = Pair(a, b)] :
                js \in {<<Do("merge"), Do("insert"), OnDev("insert")>>,
                        <<Do("merge"), Do("drop"), Do("branch")>>,
                        <<Do("dropAll"), OnDev("txn"), Do("branchAt")>>},
                a \in {One(1), DevAhead(1), Forked(1)}, b \in {Forked(2), DevAhead(2)}}
\* Maintenance beside writers.
Upkeep == {[Instance EXCEPT !.jobs = js, !.start = Pair(a, Empty), !.losses = TRUE] :
             js \in {<<Do("expire"), Do("orphans"), Do("insert"), Do("branchAt")>>,
                     <<Do("compact"), Do("orphans"), Do("dml"), Do("expire")>>,
                     <<Do("ingest"), Do("orphans"), Do("compact"), Do("insert")>>,
                     <<Do("expire"), OnDev("insert"), Do("merge"), Do("drop")>>,
                     <<Do("recreate"), Do("insert"), Do("orphans")>>},
             a \in {Empty, Long(1), DevAhead(1)}}
AllBounds == Writers \cup Cuts \cup Branching \cup Upkeep

\* A COMMIT whose answer is lost.
LostCommit == {[Instance EXCEPT !.jobs = <<Do("txn")>>, !.losses = TRUE]}
============================================================================
