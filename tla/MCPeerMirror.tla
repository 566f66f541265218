---------------------------- MODULE MCPeerMirror ----------------------------
(* Instances of KeyedBuffer and PeerMirror for TLC. *)
EXTENDS PeerMirror

CONSTANTS k1, k2

TwoKeys == {k1, k2}

Stmt(kind, ks) == [kind |-> kind, keys |-> ks]
Instance == [rows |-> {Row(k1, {})}, ticks |-> 1, faults |-> 0, foreign |-> 0, crashes |-> 0,
             sessions |-> 0, rivals |-> 0, stalls |-> FALSE,
             stmt |-> <<Stmt("update", {k1}), Stmt("delete", {k1}), Stmt("insert", {k1})>>]
Two(s, t) == [Instance EXCEPT !.stmt = <<s, t, Stmt("none", {})>>]

\* Keyed statements and an INSERT of both keys, with failures, conflicts and a crash.
Lifecycle == [Instance EXCEPT !.faults = 1, !.crashes = 1, !.ticks = 2,
    !.stmt = <<Stmt("update", {k1}), Stmt("delete", {k1}), Stmt("insert", {k1, k2})>>]
\* Keyed and synchronous statements, and another writer.
Mixed == [Instance EXCEPT !.faults = 1, !.foreign = 1,
    !.stmt = <<Stmt("update", {k1}), Stmt("sync", {k1}), Stmt("update", {k1})>>]
\* Duplicates of a declared key.
Duplicates == [Two(Stmt("update", {k1}), Stmt("delete", {k1})) EXCEPT
    !.rows = {Row(k1, {}), Row(k1, {4})}]
\* A mirror of the window: one flush and a key that comes and goes, two flushes,
\* a restart and a reconnection, failing waits and commits, and two peers that
\* serve the table.
Mirrored == [Instance EXCEPT !.sessions = 1]
UpdateAndInsert == Two(Stmt("update", {k1}), Stmt("insert", {k2}))
Retained == [UpdateAndInsert EXCEPT !.sessions = 1, !.ticks = 2]
Reconnected == [UpdateAndInsert EXCEPT !.sessions = 2, !.crashes = 1]
Faulty == [UpdateAndInsert EXCEPT !.sessions = 1, !.faults = 1]
Contested == [Two(Stmt("insert", {k2}), Stmt("none", {})) EXCEPT !.sessions = 2, !.rivals = 2,
    !.stalls = TRUE]
AllBounds == {Lifecycle, Mixed, Duplicates, Mirrored, Retained, Reconnected, Faulty, Contested}

\* A DELETE in flight, its key inserted again, and a conflict.
Reinserted == [Two(Stmt("delete", {k1}), Stmt("insert", {k1})) EXCEPT !.foreign = 1]
OnlyReinserted == {Reinserted}
====
