------------------------------- MODULE MCTails -------------------------------
(* Instances of Tails for TLC. *)
EXTENDS Tails

Local(stmts, faults, most) ==
    [backend |-> "local", stmts |-> stmts, servers |-> 1, faults |-> faults, most |-> most]
Pg(stmts, most) ==
    [backend |-> "pg", stmts |-> stmts, servers |-> 2, faults |-> {"conn", "reply", "crash"},
     most |-> most]

Disk == Local(3, {"fsync", "undo", "cutsync", "marker", "unlink", "unsynced", "poison", "crash", "power"}, 3)
Files == Local(3, {"write", "dirsync", "sidecar", "unlink", "unsynced", "fsync", "crash", "power"}, 2)
Burned == Local(4, {"fsync", "undo", "crash"}, 2)
PowerCut == Local(2, {"crash", "power"}, 2)

AllBounds == {Disk, Files, Burned, Pg(4, 3)}
OnlyPowerCut == {PowerCut}
=============================================================================
