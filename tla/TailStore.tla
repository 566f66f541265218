------------------------------ MODULE TailStore ------------------------------
(* What the write buffer does with a durable tail (the TailStore trait of tail.rs):
   clients' statements, the server processes that buffer and flush them, and the
   watermark each commit leaves in the lake.  The backends (LocalWal, PgTail) say
   what an append, a replay, a sidecar write and a truncate do to their storage.

   Statements are numbered in the order they are issued.  A flush is its rotate, one
   atomic commit, the sidecar write and the truncate (the commit itself is modelled
   step by step in WriteBuffer).  Sequence 0 and mark 0 stand for None. *)
EXTENDS Integers, Sequences, FiniteSets, FiniteSetsExt, SequencesExt, TLC

CONSTANTS
    Bounds,     \* the instances: records [backend, stmts, servers, faults, most]
    Servers,    \* the server processes
    Stmts,      \* 1 .. n: the statements
    Identities  \* 1 .. n: the tail identities that can be minted

VARIABLES
    bound,      \* the instance this behaviour is about
    status,     \* per statement: new, staged, acked, failed, doubtful (may still land)
    seqOf,      \* per statement: the sequence it was appended with
    lake,       \* [marks, rows]: watermark per tail identity, copies of each statement
    srv,        \* per server: [st, ident, pending, high, fl, upto]
    spent,      \* number of faults so far
    happened    \* the fault kinds, and the races the code leaves open, so far

clientVars == <<status, seqOf>>
storeVars == <<bound, clientVars, lake, srv, spent, happened>>

Down == [st |-> "down", ident |-> 0, pending |-> {}, high |-> 0, fl |-> "idle", upto |-> 0]

StoreInit ==
    /\ bound \in Bounds
    /\ status = [s \in Stmts |-> "new"] /\ seqOf = [s \in Stmts |-> 0]
    /\ lake = [marks |-> [i \in Identities |-> 0], rows |-> [s \in Stmts |-> 0]]
    /\ srv = [p \in Servers |-> Down]
    /\ spent = 0 /\ happened = {}

Up(p) == srv[p].st = "up"
Max2(a, b) == IF a >= b THEN a ELSE b
StmtsOf(frames) == {f.stmt : f \in frames}
TopSeq(frames) == Max({0} \cup {f.seq : f \in frames})

\* An episode of faults, within the bound; none at all is always possible.
Faulty(kinds) ==
    /\ kinds \subseteq bound.faults
    /\ spent' = IF kinds = {} THEN spent ELSE spent + 1
    /\ spent' <= bound.most
    /\ happened' = happened \cup kinds

\* Server p takes the next statement.
Issues(p, s) ==
    /\ p <= bound.servers /\ Up(p)
    /\ s <= bound.stmts /\ status[s] = "new" /\ \A t \in 1 .. s - 1 : status[t] # "new"

Answers(s, answer) == status' = [status EXCEPT ![s] = answer]

\* The frame has sequence seq: the statement joins `pending` and raises tail_high.
Routes(p, s, seq) ==
    /\ srv' = [srv EXCEPT ![p].pending = @ \cup {s}, ![p].high = seq]
    /\ seqOf' = [seqOf EXCEPT ![s] = seq]

\* effective_watermark: the lake's property for this identity or the sidecar.
EffectiveWatermark(ident, sidecar) == Max2(lake.marks[ident], sidecar)

\* drop_stale_frames.
Surviving(frames, ident, sidecar) ==
    {f \in frames : f.seq > EffectiveWatermark(ident, sidecar)}

\* replay_tail: the frames above the watermark become pending; covered ones go
\* through the flush's sidecar-then-truncate, before the server takes statements.
Boots(p, ident, frames, sidecar) ==
    LET live == Surviving(frames, ident, sidecar)
        stale == live # frames
    IN  srv' = [srv EXCEPT ![p] =
            [st |-> IF stale THEN "boot" ELSE "up", ident |-> ident,
             pending |-> StmtsOf(live), high |-> TopSeq(live),
             fl |-> IF stale THEN "record" ELSE "idle",
             upto |-> IF stale THEN EffectiveWatermark(ident, sidecar) ELSE 0]]

\* A replacement that starts while an older process still holds rows to flush.
Overlaps(p) == \E q \in Servers \ {p} : srv[q].pending # {}

\* flush_table from the claim to the commit: fresh metadata, the guard
\* generation_already_committed, and rows and watermark in one compare-and-swap.
\* An empty snapshot returns before any of it.
Commit(p) ==
    /\ srv[p].fl = "commit"
    /\ LET mine == srv[p] IN
       /\ lake' = IF mine.pending = {} \/ lake.marks[mine.ident] >= mine.high THEN lake
                  ELSE [marks |-> [lake.marks EXCEPT ![mine.ident] = mine.high],
                        rows |-> [s \in Stmts |->
                            lake.rows[s] + IF s \in mine.pending THEN 1 ELSE 0]]
       /\ srv' = IF mine.pending = {} THEN [srv EXCEPT ![p].fl = "idle"]
                 ELSE [srv EXCEPT ![p].pending = {}, ![p].fl = "record",
                                  ![p].upto = mine.high]
    /\ UNCHANGED <<bound, clientVars, spent, happened>>

\* tail_truncate_covered ends: also the end of boot for a server that replayed.
Flushed(server) == [server EXCEPT !.st = "up", !.fl = "idle", !.upto = 0]

\* The process dies: its memory is gone, and the clients of staged statements never
\* learn what became of them.
Dies(p) ==
    /\ srv[p].st # "down"
    /\ srv' = [srv EXCEPT ![p] = Down]
    /\ status' = [s \in Stmts |-> IF status[s] = "staged" THEN "doubtful" ELSE status[s]]
=============================================================================
