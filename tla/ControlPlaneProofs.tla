-------------------------- MODULE ControlPlaneProofs --------------------------
(* What ControlPlane promises, for any number of instances, clients and computes:
   every live compute is supervised, computes do not run beside each other, and the
   lease protocol, which LeaseProofs is about, runs undisturbed. *)
EXTENDS ControlPlane, LeaseProofs, WellFoundedInduction, TLAPS

-----------------------------------------------------------------------------
(* The inductive invariant of the supervisor.                              *)

\* What the argument needs of the shape of the state.
SuperShapes ==
  /\ DOMAIN proc = Pids /\ \A p \in Pids : {"st", "tail"} \subseteq DOMAIN proc[p]
  /\ {"phase", "pid", "gen", "active"} \subseteq DOMAIN slot /\ slot.gen \in Nat
  /\ DOMAIN task = Clients
  /\ \A c \in Clients : {"pc", "child", "backend", "rewoke"} \subseteq DOMAIN task[c]
  /\ DOMAIN mon = Pids
  /\ \A m \in Pids : {"pc", "child", "gen", "attempts"} \subseteq DOMAIN mon[m]
  /\ \A m \in Pids : mon[m].gen \in Nat /\ mon[m].gen <= slot.gen
  /\ {"replicas", "up", "pc", "led", "flip"} \subseteq DOMAIN k8s

Watches(m) == mon[m].pc \in {"wait", "settle", "spawn", "term"}

\* Who spawns, polls or parks holds the spawn lock; a scaled workload has no processes.
LockHeld ==
  /\ \A c \in Clients : task[c].pc \in {"probe", "spawn", "poll"} => lock = Client(c)
  /\ \A m \in Pids : mon[m].pc = "spawn" => lock = Monitor(m)
  /\ k8s.pc = "patch" => lock = Parker /\ bound.k8s
  /\ \A c \in Clients : task[c].pc = "poll" => bound.k8s
  /\ bound.k8s => \A p \in Pids : proc[p].st = "none"
  /\ slot.phase = "starting" =>
       \/ \E c \in Clients : task[c].pc \in {"spawn", "poll"}
       \/ \E m \in Pids : mon[m].pc = "spawn"

\* A monitor is that of a process that was spawned; a child that is being spawned has
\* no other monitor yet.
ChildrenKnown ==
  /\ \A m \in Pids : mon[m].pc # "none" => proc[m].st # "none"
  /\ \A c \in Clients : task[c].pc = "spawn" =>
       /\ task[c].child \in Pids /\ proc[task[c].child].st # "none"
       /\ mon[task[c].child].pc = "none"
       /\ \A m \in Pids : Watches(m) => mon[m].child # task[c].child
  /\ \A m \in Pids : Watches(m) => mon[m].child \in Pids /\ proc[mon[m].child].st # "none"
  /\ \A m \in Pids : mon[m].pc = "settle" => Exited(mon[m].child)
  /\ \A m, n \in Pids : mon[m].pc = "spawn" /\ n # m /\ Watches(n) => mon[n].child # mon[m].child
  /\ \A m \in Pids : mon[m].pc \in {"backoff", "respawn"} /\ mon[m].gen = slot.gen =>
       slot.phase # "running"

Working(p) == proc[p].st \in {"booting", "opened", "serving", "draining"}

\* While none of the races has occurred, the slot tells which process works, and whether
\* it accepts yet.
SlotTells ==
  Untroubled =>
    /\ \A p \in Pids : Working(p) => slot.pid = p /\ slot.phase \in {"starting", "running"}
    /\ \A p \in Pids : proc[p].st \in {"booting", "opened"} => slot.phase = "starting"
    /\ \A c \in Clients : task[c].pc = "spawn" => slot.pid = task[c].child
    /\ \A m \in Pids : mon[m].pc = "spawn" => slot.pid = mon[m].child

SuperInv == SuperShapes /\ LockHeld /\ ChildrenKnown /\ ComputesSupervised /\ SlotTells

-----------------------------------------------------------------------------
(* Every step preserves SuperInv.                                          *)

\* A spawn takes a process number that was not used before.
LEMMA NewPidUnborn ==
  ASSUME Unborn # {}
  PROVE  NewPid \in Pids /\ proc[NewPid].st = "none"
<1>1. Unborn \subseteq Nat /\ Unborn \subseteq Pids /\ \A p \in Unborn : proc[p].st = "none"
  BY PidsAssumption, Zenon DEF Unborn
<1> HIDE DEF Unborn
<1>2. PICK m \in Unborn : \A k \in Unborn : ~ (<<k, m>> \in OpToRel(<, Nat))
  BY <1>1, NatLessThanWellFounded, WFMin, Zenon
<1>3. \A k \in Unborn : m <= k
  <2> SUFFICES ASSUME NEW k \in Unborn PROVE m <= k
    OBVIOUS
  <2>1. ~ (k < m)
    BY <1>1, <1>2, Zenon DEF OpToRel
  <2> QED BY <1>1, <2>1
<1>4. Min(Unborn) \in Unborn
  BY <1>3 DEF Min
<1> QED BY <1>1, <1>4, Zenon DEF NewPid

\* The holders of the spawn lock.
LEMMA Holders ==
  /\ \A c, d : Client(c) = Client(d) => c = d
  /\ \A m, n : Monitor(m) = Monitor(n) => m = n
  /\ \A c, m : Client(c) # Monitor(m) /\ Client(c) # Open /\ Monitor(m) # Open
  /\ \A c : Client(c) # Parker /\ Monitor(c) # Parker
  /\ Parker # Open
BY DEF Client, Monitor, Open, Parker

\* A step of the processes: none starts, none comes back, and only a working process
\* goes on working.
ProcsRun ==
  \A p \in Pids :
    /\ proc'[p].st = "none" <=> proc[p].st = "none"
    /\ Exited(p) => Exited(p)'
    /\ Live(p)' => Live(p)
    /\ Working(p)' => Working(p)
    /\ proc'[p].st \in {"booting", "opened"} => proc[p].st \in {"booting", "opened"}

\* The client tasks outside the lock.
TasksRun ==
  \A c \in Clients :
    \/ task'[c].pc = task[c].pc /\ task'[c].child = task[c].child
    \/ task[c].pc \notin {"probe", "spawn", "poll"} /\ task'[c].pc \notin {"probe", "spawn", "poll"}

SameSlot == slot'.phase = slot.phase /\ slot'.pid = slot.pid /\ slot'.gen = slot.gen

\* A step that starts no process and moves neither slot, monitors nor lock keeps the
\* invariant.
LEMMA RunsKeep ==
  ASSUME SuperInv, SuperShapes', ProcsRun, TasksRun, SameSlot, mon' = mon, lock' = lock,
         happened' = happened, k8s'.pc = k8s.pc, UNCHANGED bound
  PROVE  SuperInv'
<1>t. \A c \in Clients :
        /\ task'[c].pc \in {"probe", "spawn", "poll"} <=> task[c].pc \in {"probe", "spawn", "poll"}
        /\ task[c].pc \in {"probe", "spawn", "poll"} =>
             task'[c].pc = task[c].pc /\ task'[c].child = task[c].child
  BY DEF TasksRun
<1>1. LockHeld'
  BY <1>t DEF SuperInv, LockHeld, ProcsRun, SameSlot
<1>2. ChildrenKnown'
  BY <1>t DEF SuperInv, ChildrenKnown, ProcsRun, SameSlot, Watches
<1>3. ComputesSupervised'
  <2> SUFFICES ASSUME NEW p \in Pids, Live(p)'
               PROVE  \/ \E c \in Clients : task'[c].pc = "spawn" /\ task'[c].child = p
                      \/ \E m \in Pids : mon'[m].pc \in {"wait", "spawn", "term"} /\ mon'[m].child = p
    BY DEF ComputesSupervised
  <2>1. Live(p)
    BY DEF ProcsRun
  <2> QED BY <1>t, <2>1 DEF SuperInv, ComputesSupervised
<1>4. SlotTells'
  BY <1>t DEF SuperInv, SlotTells, ProcsRun, SameSlot, Untroubled
<1> QED BY <1>1, <1>2, <1>3, <1>4 DEF SuperInv

\* What an update of one process does.
LEMMA SetPoint ==
  ASSUME SuperShapes, NEW p \in Pids, NEW st, proc' = Set(p, st)
  PROVE  /\ DOMAIN proc' = Pids /\ \A q \in Pids : {"st", "tail"} \subseteq DOMAIN proc'[q]
         /\ proc'[p].st = st /\ \A q \in Pids : q # p => proc'[q] = proc[q]
BY DEF SuperShapes, Set

\* A process that goes from one state to another.
LEMMA MoveRuns ==
  ASSUME SuperInv, NEW p \in Pids, NEW st, proc' = Set(p, st), proc[p].st # "none",
         \/ st \in {"clean", "unclean"}
         \/ st = "closing" /\ Live(p)
         \/ st \in {"serving", "draining"} /\ Working(p)
         \/ st = proc[p].st,
         Exited(p) => st \in {"clean", "unclean"}
  PROVE  ProcsRun /\ DOMAIN proc' = Pids /\ \A q \in Pids : {"st", "tail"} \subseteq DOMAIN proc'[q]
<1>1. /\ DOMAIN proc' = Pids /\ \A q \in Pids : {"st", "tail"} \subseteq DOMAIN proc'[q]
      /\ proc'[p].st = st /\ \A q \in Pids : q # p => proc'[q] = proc[q]
  BY SetPoint DEF SuperInv
<1>2. ProcsRun
  BY <1>1 DEF ProcsRun, Exited, Live, Working
<1> QED BY <1>1, <1>2

\* Processes that do not move run on.
LEMMA SameProcs ==
  ASSUME proc' = proc
  PROVE  ProcsRun
BY DEF ProcsRun, Exited, Live, Working

\* The steps of a compute process itself (serve_custom, drain_connections).
LEMMA ProcessKeeps ==
  ASSUME SuperInv, NEW p \in Pids, UNCHANGED bound,
         OpenTail(p) \/ Bind(p) \/ IdleExit(p) \/ Exits(p) \/ Drains(p) \/ Crash(p) \/ RivalFences(p)
         \/ AppendTail(p)
  PROVE  SuperInv'
<1>1. slot' = slot /\ lock' = lock /\ task' = task /\ mon' = mon /\ k8s' = k8s /\ happened' = happened
  BY DEF OpenTail, Bind, IdleExit, Exits, Drains, Crash, RivalFences, AppendTail
<1>2. ProcsRun /\ DOMAIN proc' = Pids /\ \A q \in Pids : {"st", "tail"} \subseteq DOMAIN proc'[q]
  <2>1. CASE OpenTail(p)
    <3>1. /\ proc[p].st = "booting" /\ DOMAIN proc' = Pids
          /\ \A q \in Pids : /\ {"st", "tail"} \subseteq DOMAIN proc'[q]
                             /\ proc'[q].st = IF q = p THEN "opened" ELSE proc[q].st
      BY <2>1 DEF OpenTail, SuperInv, SuperShapes
    <3> QED BY <3>1 DEF ProcsRun, Exited, Live, Working
  <2>2. CASE Bind(p)
    <3>1. /\ proc[p].st = "opened"
          /\ proc' = Set(p, IF \E q \in Pids : Accepts(q) THEN "unclean" ELSE "serving")
      BY <2>2 DEF Bind
    <3> QED BY <3>1, MoveRuns DEF Exited, Live, Working
  <2>3. CASE IdleExit(p)
    <3>1. proc[p].st = "serving" /\ proc' = Set(p, "closing")
      BY <2>3 DEF IdleExit
    <3> QED BY <3>1, MoveRuns DEF Exited, Live
  <2>4. CASE Exits(p) \/ Drains(p)
    <3>1. proc[p].st # "none" /\ proc' = Set(p, "clean")
      BY <2>4 DEF Exits, Drains
    <3> QED BY <3>1, MoveRuns
  <2>5. CASE Crash(p)
    <3>1. proc[p].st # "none" /\ proc' = Set(p, "unclean")
      BY <2>5 DEF Crash, Live
    <3> QED BY <3>1, MoveRuns
  <2>6. CASE RivalFences(p) \/ AppendTail(p)
    <3>0. \E tail : proc' = [proc EXCEPT ![p].tail = tail]
      BY <2>6 DEF RivalFences, AppendTail
    <3>1. /\ DOMAIN proc' = Pids
          /\ \A q \in Pids : {"st", "tail"} \subseteq DOMAIN proc'[q] /\ proc'[q].st = proc[q].st
      BY <3>0 DEF SuperInv, SuperShapes
    <3> QED BY <3>1 DEF ProcsRun, Exited, Live, Working
  <2> QED BY <2>1, <2>2, <2>3, <2>4, <2>5, <2>6
<1>3. SuperShapes'
  BY <1>1, <1>2 DEF SuperInv, SuperShapes
<1>4. TasksRun /\ SameSlot
  BY <1>1 DEF TasksRun, SameSlot
<1> QED BY <1>1, <1>2, <1>3, <1>4, RunsKeep

\* A health watch kills at most the process it watches (health_watch).
LEMMA ProbedKeeps ==
  ASSUME SuperInv, NEW p \in Pids, UNCHANGED bound, Probed(p)
  PROVE  SuperInv'
<1>1. slot' = slot /\ lock' = lock /\ task' = task /\ mon' = mon /\ k8s' = k8s /\ happened' = happened
  BY DEF Probed, HealthTick, HealthAnswer
<1>2. proc' = proc \/ (Live(p) /\ proc' = Set(p, "unclean"))
  BY DEF Probed, HealthTick, HealthAnswer
<1>3. ProcsRun /\ DOMAIN proc' = Pids /\ \A q \in Pids : {"st", "tail"} \subseteq DOMAIN proc'[q]
  <2>1. CASE proc' = proc
    BY <2>1, SameProcs DEF SuperInv, SuperShapes
  <2>2. CASE Live(p) /\ proc' = Set(p, "unclean")
    <3>1. proc[p].st # "none"
      BY <2>2 DEF Live
    <3> QED BY <2>2, <3>1, MoveRuns
  <2> QED BY <1>2, <2>1, <2>2
<1>4. SuperShapes'
  BY <1>1, <1>3 DEF SuperInv, SuperShapes
<1>5. TasksRun /\ SameSlot
  BY <1>1 DEF TasksRun, SameSlot
<1> QED BY <1>1, <1>3, <1>4, <1>5, RunsKeep

\* A client that arrives, is handed a connection, dials or leaves.
LEMMA ClientRuns ==
  ASSUME SuperInv, NEW c \in Clients, UNCHANGED bound,
         HandleClient(c) \/ HandOut(c) \/ Dial(c) \/ SessionEnds(c)
  PROVE  SuperInv'
<1>1. proc' = proc /\ lock' = lock /\ mon' = mon /\ k8s' = k8s /\ happened' = happened
  BY DEF HandleClient, HandOut, Dial, SessionEnds
<1>2. slot' = slot \/ slot' = [slot EXCEPT !.active = slot.active + 1]
                   \/ slot' = [slot EXCEPT !.active = slot.active - 1]
  BY DEF HandleClient, HandOut, Dial, SessionEnds
<1>3. SameSlot /\ {"phase", "pid", "gen", "active"} \subseteq DOMAIN slot'
  BY <1>2 DEF SameSlot, SuperInv, SuperShapes
<1>4. /\ DOMAIN task' = Clients /\ \A d \in Clients : d # c => task'[d] = task[d]
      /\ {"pc", "child", "backend", "rewoke"} \subseteq DOMAIN task'[c]
      /\ task[c].pc \notin {"probe", "spawn", "poll"} /\ task'[c].pc \notin {"probe", "spawn", "poll"}
  <2>1. CASE HandleClient(c)
    BY <2>1 DEF HandleClient, Goto, SuperInv, SuperShapes
  <2>2. CASE HandOut(c)
    BY <2>2 DEF HandOut, Goto, SuperInv, SuperShapes
  <2>3. CASE Dial(c)
    <3> DEFINE again == [NoTask EXCEPT !.pc = "locking", !.rewoke = TRUE]
    <3>1. /\ task[c].pc = "dial"
          /\ \/ task' = [task EXCEPT ![c].pc = "spliced"]
             \/ \E p \in Pids : task' = [task EXCEPT ![c].pc = "spliced", ![c].backend = p]
             \/ task' = [task EXCEPT ![c] = IF task[c].rewoke THEN NoTask ELSE again]
      BY <2>3 DEF Dial, Goto
    <3>2. \A r \in {NoTask, again} : /\ {"pc", "child", "backend", "rewoke"} \subseteq DOMAIN r
                                     /\ r.pc \notin {"probe", "spawn", "poll"}
      <4>1. {"pc", "child", "backend", "rewoke"} \subseteq DOMAIN NoTask /\ NoTask.pc = "idle"
        BY DEF NoTask
      <4>2. {"pc", "child", "backend", "rewoke"} \subseteq DOMAIN again /\ again.pc = "locking"
        BY <4>1
      <4> QED BY <4>1, <4>2, Zenon
    <3> HIDE DEF again
    <3>3. CASE task' = [task EXCEPT ![c] = IF task[c].rewoke THEN NoTask ELSE again]
      BY <3>1, <3>2, <3>3 DEF SuperInv, SuperShapes
    <3> QED BY <3>1, <3>3 DEF SuperInv, SuperShapes
  <2>4. CASE SessionEnds(c)
    BY <2>4 DEF SessionEnds, Gone, NoTask, SuperInv, SuperShapes
  <2> QED BY <2>1, <2>2, <2>3, <2>4
<1>5. TasksRun
  BY <1>4 DEF TasksRun
<1>6. SuperShapes'
  BY <1>1, <1>3, <1>4 DEF SuperInv, SuperShapes, SameSlot
<1> QED BY <1>1, <1>3, <1>5, <1>6, SameProcs, RunsKeep

\* The loops that never touch the slot, and the leadership watch.
LEMMA LoopsKeep ==
  ASSUME SuperInv, UNCHANGED bound,
         \/ \E w \in Refills : WarmStart(w) \/ WarmLoop(w) \/ WarmShake(w)
         \/ IdlePasses \/ PoolDrains \/ LedPasses \/ LeaderSince \/ PodFollows
         \/ Watched \/ UNCHANGED superVars
  PROVE  SuperInv'
<1>1. /\ proc' = proc /\ slot' = slot /\ lock' = lock /\ task' = task /\ mon' = mon
      /\ happened' = happened
  BY DEF WarmStart, WarmLoop, WarmShake, IdlePasses, PoolDrains, LedPasses, LeaderSince, PodFollows,
         Watched, superVars
<1>2. \/ k8s' = k8s \/ k8s' = [k8s EXCEPT !.led = TRUE] \/ k8s' = [k8s EXCEPT !.flip = TRUE]
      \/ k8s' = [k8s EXCEPT !.flip = FALSE, !.led = k8s.led /\ ~leader[Self]]
      \/ k8s' = [k8s EXCEPT !.up = ~k8s.up]
  BY DEF WarmStart, WarmLoop, WarmShake, IdlePasses, PoolDrains, LedPasses, LeaderSince, PodFollows,
         Watched, superVars
<1>3. k8s'.pc = k8s.pc /\ {"replicas", "up", "pc", "led", "flip"} \subseteq DOMAIN k8s'
  BY <1>2 DEF SuperInv, SuperShapes
<1>4. SuperShapes'
  BY <1>1, <1>3 DEF SuperInv, SuperShapes
<1>5. TasksRun /\ SameSlot
  BY <1>1 DEF TasksRun, SameSlot
<1> QED BY <1>1, <1>3, <1>4, <1>5, SameProcs, RunsKeep

\* The child has exited.
Ended(m) == proc'[mon[m].child].st \in {"clean", "unclean"}

\* A monitor that holds no lock takes a step: it lets go of its child only when that
\* is no longer live, and writes the slot as its owner or over a backoff.
MonitorMoves(m, r) ==
  /\ mon' = [mon EXCEPT ![m] = r] /\ {"pc", "child", "gen", "attempts"} \subseteq DOMAIN r
  /\ mon[m].pc \notin {"none", "spawn"} /\ r.pc \in {"none", "settle", "backoff", "respawn", "term"}
  /\ r.gen \in Nat /\ r.gen <= slot.gen
  /\ r.pc \in {"settle", "term"} => mon[m].pc = "wait" /\ r.child = mon[m].child
  /\ r.pc = "settle" => Ended(m)
  /\ mon[m].pc \in {"wait", "term"} /\ r.pc # "term" => Ended(m)
  /\ r.pc \in {"backoff", "respawn"} /\ r.gen = slot.gen => slot'.phase # "running"

SlotMoves(m) ==
  /\ {"phase", "pid", "gen", "active"} \subseteq DOMAIN slot' /\ slot'.gen = slot.gen
  /\ slot'.phase = slot.phase \/ slot'.phase \notin {"starting", "running"}
  /\ happened \subseteq happened'
  /\ Untroubled' =>
       \/ slot'.phase = slot.phase /\ slot'.pid = slot.pid
       \/ slot.phase = "backoff" /\ slot'.pid = slot.pid
       \/ slot.pid = mon[m].child /\ Watches(m) /\ Ended(m)

\* A monitor that moves on without spawning.
LEMMA MonitorMovesKeeps ==
  ASSUME SuperInv, NEW m \in Pids, NEW r, MonitorMoves(m, r), SlotMoves(m), ProcsRun,
         DOMAIN proc' = Pids, \A q \in Pids : {"st", "tail"} \subseteq DOMAIN proc'[q],
         UNCHANGED <<bound, lock, task, k8s>>
  PROVE  SuperInv'
<1>1. mon'[m] = r /\ \A n \in Pids : n # m => mon'[n] = mon[n]
  BY DEF MonitorMoves, SuperInv, SuperShapes
<1>2. DOMAIN mon' = Pids
  BY DEF MonitorMoves, SuperInv, SuperShapes
<1>3. SuperShapes'
  BY <1>1, <1>2 DEF MonitorMoves, SlotMoves, SuperInv, SuperShapes
<1>4. \A n \in Pids : /\ mon'[n].pc = "spawn" <=> mon[n].pc = "spawn"
                      /\ mon'[n].pc = "spawn" => mon'[n] = mon[n]
                      /\ Watches(n)' => Watches(n) /\ mon'[n].child = mon[n].child
                      /\ mon'[n].pc # "none" => mon[n].pc # "none"
                      /\ mon[n].pc = "none" => mon'[n].pc = "none"
  <2>1. \A n \in Pids : n # m => mon'[n] = mon[n]
    BY <1>1
  <2>2. mon'[m].pc # "spawn" /\ mon[m].pc # "spawn" /\ mon[m].pc # "none"
    BY <1>1 DEF MonitorMoves
  <2>3. Watches(m)' => Watches(m) /\ mon'[m].child = mon[m].child
    BY <1>1 DEF MonitorMoves, Watches
  <2> QED BY <2>1, <2>2, <2>3 DEF Watches
<1>5. LockHeld'
  BY <1>4 DEF SuperInv, LockHeld, ProcsRun, SlotMoves
<1>6. ChildrenKnown'
  <2>1. \A n \in Pids : mon'[n].pc # "none" => proc'[n].st # "none"
    BY <1>4 DEF SuperInv, ChildrenKnown, ProcsRun
  <2>2. ASSUME NEW c \in Clients, task'[c].pc = "spawn"
        PROVE  /\ task'[c].child \in Pids /\ proc'[task'[c].child].st # "none"
               /\ mon'[task'[c].child].pc = "none"
               /\ \A n \in Pids : Watches(n)' => mon'[n].child # task'[c].child
    BY <1>4, <2>2 DEF SuperInv, ChildrenKnown, ProcsRun
  <2>3. \A n \in Pids : Watches(n)' => mon'[n].child \in Pids /\ proc'[mon'[n].child].st # "none"
    BY <1>4 DEF SuperInv, ChildrenKnown, ProcsRun
  <2>4. ASSUME NEW n \in Pids, mon'[n].pc = "settle"
        PROVE  proc'[mon'[n].child].st \in {"clean", "unclean"}
    <3>1. CASE n = m
      BY <1>1, <2>4, <3>1 DEF MonitorMoves, Ended
    <3>2. CASE n # m
      <4>1. Watches(n) /\ mon[n].pc = "settle" /\ mon'[n] = mon[n]
        BY <1>1, <2>4, <3>2 DEF Watches
      <4> QED BY <4>1 DEF SuperInv, ChildrenKnown, ProcsRun, Exited
    <3> QED BY <3>1, <3>2
  <2>5. \A k, n \in Pids : mon'[k].pc = "spawn" /\ n # k /\ Watches(n)' =>
          mon'[n].child # mon'[k].child
    BY <1>4 DEF SuperInv, ChildrenKnown
  <2>6. ASSUME NEW n \in Pids, mon'[n].pc \in {"backoff", "respawn"}, mon'[n].gen = slot'.gen
        PROVE  slot'.phase # "running"
    <3>1. CASE n = m
      BY <1>1, <2>6, <3>1 DEF MonitorMoves, SlotMoves
    <3>2. CASE n # m
      BY <1>1, <2>6, <3>2 DEF SuperInv, ChildrenKnown, SlotMoves
    <3> QED BY <3>1, <3>2
  <2> QED BY <2>1, <2>2, <2>3, <2>4, <2>5, <2>6 DEF ChildrenKnown, Exited
<1>7. ComputesSupervised'
  <2> SUFFICES ASSUME NEW p \in Pids, Live(p)'
               PROVE  \/ \E c \in Clients : task'[c].pc = "spawn" /\ task'[c].child = p
                      \/ \E n \in Pids : mon'[n].pc \in {"wait", "spawn", "term"} /\ mon'[n].child = p
    BY DEF ComputesSupervised
  <2>1. Live(p)
    BY DEF ProcsRun
  <2>2. CASE \E c \in Clients : task[c].pc = "spawn" /\ task[c].child = p
    BY <2>2
  <2>3. CASE \E n \in Pids : mon[n].pc \in {"wait", "spawn", "term"} /\ mon[n].child = p
    <3>1. PICK n \in Pids : mon[n].pc \in {"wait", "spawn", "term"} /\ mon[n].child = p
      BY <2>3
    <3>2. CASE n = m
      BY <1>1, <3>1, <3>2 DEF MonitorMoves, Ended, Live
    <3> QED BY <1>1, <3>1, <3>2
  <2> QED BY <2>1, <2>2, <2>3 DEF SuperInv, ComputesSupervised
<1>8. SlotTells'
  <2> SUFFICES ASSUME Untroubled'
               PROVE  /\ \A p \in Pids : Working(p)' =>
                           slot'.pid = p /\ slot'.phase \in {"starting", "running"}
                      /\ \A p \in Pids : proc'[p].st \in {"booting", "opened"} =>
                           slot'.phase = "starting"
                      /\ \A c \in Clients : task'[c].pc = "spawn" => slot'.pid = task'[c].child
                      /\ \A n \in Pids : mon'[n].pc = "spawn" => slot'.pid = mon'[n].child
    BY DEF SlotTells
  <2>0. Untroubled
    BY DEF Untroubled, SlotMoves
  <2>1. CASE slot'.phase = slot.phase /\ slot'.pid = slot.pid
    <3>1. \A p \in Pids : Working(p)' =>
            slot'.pid = p /\ slot'.phase \in {"starting", "running"}
      BY <2>0, <2>1 DEF SuperInv, SlotTells, ProcsRun
    <3>2. \A p \in Pids : proc'[p].st \in {"booting", "opened"} => slot'.phase = "starting"
      BY <2>0, <2>1 DEF SuperInv, SlotTells, ProcsRun
    <3>3. /\ \A c \in Clients : task'[c].pc = "spawn" => slot'.pid = task'[c].child
          /\ \A n \in Pids : mon'[n].pc = "spawn" => slot'.pid = mon'[n].child
      BY <1>4, <2>0, <2>1 DEF SuperInv, SlotTells
    <3> QED BY <3>1, <3>2, <3>3
  <2>2. CASE slot.phase = "backoff" /\ slot'.pid = slot.pid
    <3>1. \A p \in Pids : ~Working(p)
      BY <2>0, <2>2 DEF SuperInv, SlotTells
    <3>2. \A p \in Pids : proc'[p].st \in {"booting", "opened"} => Working(p)
      BY DEF ProcsRun, Working
    <3> QED BY <1>4, <2>0, <2>2, <3>1, <3>2 DEF SuperInv, SlotTells, ProcsRun
  <2>3. CASE slot.pid = mon[m].child /\ Watches(m) /\ Ended(m)
    <3>1. \A p \in Pids : ~Working(p)'
      <4> SUFFICES ASSUME NEW p \in Pids, Working(p)' PROVE FALSE
        OBVIOUS
      <4>1. slot.pid = p
        BY <2>0 DEF SuperInv, SlotTells, ProcsRun
      <4> QED BY <2>3, <4>1 DEF Working, Ended
    <3>2. \A p \in Pids : proc'[p].st \notin {"booting", "opened"}
      BY <3>1 DEF Working
    <3>3. \A c \in Clients : task[c].pc # "spawn"
      <4> SUFFICES ASSUME NEW c \in Clients, task[c].pc = "spawn" PROVE FALSE
        OBVIOUS
      <4>1. slot.pid = task[c].child
        BY <2>0 DEF SuperInv, SlotTells
      <4>2. mon[m].child # task[c].child
        BY <2>3 DEF SuperInv, ChildrenKnown
      <4> QED BY <2>3, <4>1, <4>2
    <3>4. \A n \in Pids : mon[n].pc # "spawn"
      <4> SUFFICES ASSUME NEW n \in Pids, mon[n].pc = "spawn" PROVE FALSE
        OBVIOUS
      <4>1. n # m
        BY DEF MonitorMoves
      <4>2. slot.pid = mon[n].child
        BY <2>0 DEF SuperInv, SlotTells
      <4> QED BY <2>3, <4>1, <4>2, Zenon DEF SuperInv, ChildrenKnown
    <3> QED BY <1>4, <3>1, <3>2, <3>3, <3>4
  <2> QED BY <2>1, <2>2, <2>3 DEF SlotMoves
<1> QED BY <1>3, <1>5, <1>6, <1>7, <1>8 DEF SuperInv

\* A monitor that has ended.
LEMMA NoMonitorShape ==
  /\ {"pc", "child", "gen", "attempts"} \subseteq DOMAIN NoMonitor
  /\ NoMonitor.pc = "none" /\ NoMonitor.gen = 0
BY DEF NoMonitor

\* What is known of a monitor.
LEMMA MonitorFacts ==
  ASSUME SuperInv, NEW m \in Pids
  PROVE  /\ {"pc", "child", "gen", "attempts"} \subseteq DOMAIN mon[m] /\ DOMAIN mon = Pids
         /\ mon[m].gen \in Nat /\ mon[m].gen <= slot.gen /\ slot.gen \in Nat
         /\ {"phase", "pid", "gen", "active"} \subseteq DOMAIN slot
         /\ Watches(m) => mon[m].child \in Pids /\ proc[mon[m].child].st # "none"
         /\ DOMAIN proc = Pids /\ \A q \in Pids : {"st", "tail"} \subseteq DOMAIN proc[q]
BY DEF SuperInv, SuperShapes, ChildrenKnown

\* The monitor reaps its child (monitor_compute).
LEMMA MonitorReapsKeeps ==
  ASSUME SuperInv, NEW m \in Pids, UNCHANGED bound, MonitorReaps(m)
  PROVE  SuperInv'
<1>1. /\ mon[m].pc = "wait" /\ Exited(mon[m].child) /\ proc' = proc /\ slot' = slot
      /\ lock' = lock /\ task' = task /\ k8s' = k8s /\ happened' = happened
      /\ \/ mon' = [mon EXCEPT ![m] = NoMonitor]
         \/ mon' = [mon EXCEPT ![m].pc = "settle"]
  BY DEF MonitorReaps
<1>2. PICK r \in {NoMonitor, [mon[m] EXCEPT !.pc = "settle"]} : mon' = [mon EXCEPT ![m] = r]
  BY <1>1, MonitorFacts
<1>3. MonitorMoves(m, r)
  <2>1. CASE r = NoMonitor
    BY <1>1, <1>2, <2>1, NoMonitorShape, MonitorFacts DEF MonitorMoves, Ended, Exited
  <2>2. CASE r = [mon[m] EXCEPT !.pc = "settle"]
    BY <1>1, <1>2, <2>2, MonitorFacts DEF MonitorMoves, Ended, Exited
  <2> QED BY <1>2, <2>1, <2>2
<1>4. SlotMoves(m)
  BY <1>1, MonitorFacts DEF SlotMoves
<1> QED BY <1>1, <1>3, <1>4, MonitorFacts, SameProcs, MonitorMovesKeeps

\* A clean exit stops the slot, an unclean one leads to a restart (monitor_compute).
LEMMA MonitorSettlesKeeps ==
  ASSUME SuperInv, NEW m \in Pids, UNCHANGED bound, NEW healthy \in BOOLEAN,
         MonitorSettles(m, healthy)
  PROVE  SuperInv'
<1>1. /\ mon[m].pc = "settle" /\ proc' = proc /\ lock' = lock /\ task' = task /\ k8s' = k8s
      /\ happened' = happened \cup Overtaken(m)
      /\ \/ /\ slot' = [slot EXCEPT !.phase = "stopped", !.pid = None]
            /\ mon' = [mon EXCEPT ![m] = NoMonitor]
         \/ /\ slot' = [slot EXCEPT !.phase = "backoff", !.pid = None]
            /\ mon' = [mon EXCEPT ![m].pc = "backoff",
                                  ![m].attempts = IF healthy THEN 0 ELSE mon[m].attempts]
  BY DEF MonitorSettles
<1>2. Ended(m) /\ Watches(m)
  BY <1>1 DEF SuperInv, ChildrenKnown, Exited, Ended, Watches
<1> DEFINE b == [mon[m] EXCEPT !.pc = "backoff",
                               !.attempts = IF healthy THEN 0 ELSE mon[m].attempts]
<1>3. PICK r \in {NoMonitor, b} : mon' = [mon EXCEPT ![m] = r]
  BY <1>1, MonitorFacts, Zenon
<1>4. /\ slot'.phase \in {"stopped", "backoff"} /\ slot'.gen = slot.gen
      /\ {"phase", "pid", "gen", "active"} \subseteq DOMAIN slot'
  BY <1>1, MonitorFacts, Zenon
<1>5. MonitorMoves(m, r)
  <2>1. CASE r = NoMonitor
    BY <1>1, <1>3, <1>4, <2>1, NoMonitorShape, MonitorFacts DEF MonitorMoves
  <2>2. CASE r = b
    BY <1>1, <1>3, <1>4, <2>2, MonitorFacts DEF MonitorMoves
  <2> QED BY <1>3, <2>1, <2>2
<1>6. SlotMoves(m)
  <2>1. Untroubled' => slot.pid = mon[m].child
    BY <1>1 DEF Untroubled, Overtaken
  <2> QED BY <1>1, <1>2, <1>4, <2>1 DEF SlotMoves
<1> QED BY <1>1, <1>5, <1>6, MonitorFacts, SameProcs, MonitorMovesKeeps

\* The restart cap fails the slot; otherwise the monitor waits (monitor_compute).
LEMMA MonitorBacksOffKeeps ==
  ASSUME SuperInv, NEW m \in Pids, UNCHANGED bound, MonitorBacksOff(m)
  PROVE  SuperInv'
<1>1. /\ mon[m].pc = "backoff" /\ proc' = proc /\ lock' = lock /\ task' = task /\ k8s' = k8s
      /\ happened' = happened
      /\ \/ /\ mon' = [mon EXCEPT ![m] = NoMonitor]
            /\ slot' = [slot EXCEPT !.phase = IF slot.phase = "backoff" THEN "failed" ELSE slot.phase]
         \/ /\ mon' = [mon EXCEPT ![m].pc = "respawn", ![m].attempts = mon[m].attempts + 1]
            /\ slot' = slot
  BY DEF MonitorBacksOff
<1> DEFINE b == [mon[m] EXCEPT !.pc = "respawn", !.attempts = mon[m].attempts + 1]
<1>2. PICK r \in {NoMonitor, b} : mon' = [mon EXCEPT ![m] = r] /\ (r = b => slot' = slot)
  <2>1. CASE mon' = [mon EXCEPT ![m] = NoMonitor]
    <3>1. NoMonitor # b
      BY NoMonitorShape, MonitorFacts, Zenon
    <3> QED BY <2>1, <3>1
  <2>2. CASE mon' = [mon EXCEPT ![m].pc = "respawn", ![m].attempts = mon[m].attempts + 1] /\ slot' = slot
    BY <2>2, MonitorFacts, Zenon
  <2> QED BY <1>1, <2>1, <2>2
<1>3. /\ slot'.gen = slot.gen /\ slot'.pid = slot.pid
      /\ {"phase", "pid", "gen", "active"} \subseteq DOMAIN slot'
      /\ slot'.phase = slot.phase \/ (slot.phase = "backoff" /\ slot'.phase = "failed")
  BY <1>1, MonitorFacts
<1>4. MonitorMoves(m, r)
  <2>1. CASE r = NoMonitor
    BY <1>1, <1>2, <2>1, NoMonitorShape, MonitorFacts DEF MonitorMoves
  <2>2. CASE r = b
    <3>1. mon[m].gen = slot.gen => slot.phase # "running"
      BY <1>1 DEF SuperInv, ChildrenKnown
    <3> QED BY <1>1, <1>2, <2>2, <3>1, MonitorFacts DEF MonitorMoves
  <2> QED BY <1>2, <2>1, <2>2
<1>5. SlotMoves(m)
  BY <1>1, <1>3 DEF SlotMoves
<1> QED BY <1>1, <1>4, <1>5, MonitorFacts, SameProcs, MonitorMovesKeeps

\* A monitor that can start no process backs off once more (monitor_compute).
LEMMA MonitorRefusedKeeps ==
  ASSUME SuperInv, NEW m \in Pids, UNCHANGED bound, MonitorRefused(m)
  PROVE  SuperInv'
<1> DEFINE r == [mon[m] EXCEPT !.pc = "backoff"]
<1>1. /\ mon[m].pc = "respawn" /\ lock' = lock /\ mon' = [mon EXCEPT ![m] = r]
      /\ UNCHANGED <<proc, slot, task, k8s, happened>>
  BY MonitorFacts, Zenon DEF MonitorRefused, SpawnRefused
<1>2. MonitorMoves(m, r)
  <2>1. mon[m].gen = slot.gen => slot.phase # "running"
    BY <1>1 DEF SuperInv, ChildrenKnown
  <2> QED BY <1>1, <2>1, MonitorFacts DEF MonitorMoves
<1>3. SlotMoves(m)
  BY <1>1, MonitorFacts DEF SlotMoves
<1> QED BY <1>1, <1>2, <1>3, MonitorFacts, SameProcs, MonitorMovesKeeps

\* Lost leadership, or a newer spawn, ends a monitor that would respawn.
LEMMA MonitorGivesUpKeeps ==
  ASSUME SuperInv, NEW m \in Pids, UNCHANGED <<bound, proc, lock, task, k8s, happened>>,
         mon[m].pc = "respawn",
         NotRespawned(m) \/ (mon' = [mon EXCEPT ![m] = NoMonitor] /\ UNCHANGED slot)
  PROVE  SuperInv'
<1>1. /\ mon' = [mon EXCEPT ![m] = NoMonitor]
      /\ \/ slot' = [slot EXCEPT !.phase = IF slot.phase = "backoff" THEN "stopped" ELSE slot.phase]
         \/ slot' = slot
  BY DEF NotRespawned
<1>2. /\ slot'.gen = slot.gen /\ slot'.pid = slot.pid
      /\ {"phase", "pid", "gen", "active"} \subseteq DOMAIN slot'
      /\ slot'.phase = slot.phase \/ (slot.phase = "backoff" /\ slot'.phase = "stopped")
  BY <1>1, MonitorFacts
<1>3. MonitorMoves(m, NoMonitor)
  BY <1>1, NoMonitorShape, MonitorFacts DEF MonitorMoves
<1>4. SlotMoves(m)
  BY <1>2 DEF SlotMoves
<1> QED BY <1>3, <1>4, MonitorFacts, SameProcs, MonitorMovesKeeps

\* A demoted instance sends SIGTERM to its compute (monitor_compute).
LEMMA MonitorTerminatesKeeps ==
  ASSUME SuperInv, NEW m \in Pids, UNCHANGED bound, MonitorTerminates(m)
  PROVE  SuperInv'
<1> DEFINE p == mon[m].child
<1>1. /\ mon[m].pc = "wait" /\ proc' = Set(p, Signalled(proc[p].st))
      /\ mon' = [mon EXCEPT ![m].pc = "term"]
      /\ slot' = slot /\ lock' = lock /\ task' = task /\ k8s' = k8s /\ happened' = happened
  BY DEF MonitorTerminates
<1>2. p \in Pids /\ proc[p].st # "none"
  BY <1>1, MonitorFacts DEF Watches
<1> HIDE DEF p
<1>3. ProcsRun /\ DOMAIN proc' = Pids /\ \A q \in Pids : {"st", "tail"} \subseteq DOMAIN proc'[q]
  <2>1. CASE proc[p].st \in {"booting", "opened"}
    <3>1. Signalled(proc[p].st) = "unclean"
      BY <2>1 DEF Signalled
    <3> QED BY <1>1, <1>2, <3>1, MoveRuns
  <2>2. CASE proc[p].st = "serving"
    <3>1. Signalled(proc[p].st) = "draining"
      BY <2>2 DEF Signalled
    <3> QED BY <1>1, <1>2, <2>2, <3>1, MoveRuns DEF Working, Exited
  <2>3. CASE proc[p].st \notin {"booting", "opened", "serving"}
    <3>1. Signalled(proc[p].st) = proc[p].st
      BY <2>3 DEF Signalled
    <3> QED BY <1>1, <1>2, <3>1, MoveRuns DEF Exited
  <2> QED BY <2>1, <2>2, <2>3
<1> DEFINE r == [mon[m] EXCEPT !.pc = "term"]
<1>4. mon' = [mon EXCEPT ![m] = r]
  BY <1>1, MonitorFacts
<1>5. MonitorMoves(m, r)
  BY <1>1, <1>4, MonitorFacts DEF MonitorMoves
<1>6. SlotMoves(m)
  BY <1>1, MonitorFacts DEF SlotMoves
<1> QED BY <1>1, <1>3, <1>5, <1>6, MonitorMovesKeeps

\* The demoted instance's compute is gone (monitor_compute).
LEMMA MonitorTerminatedKeeps ==
  ASSUME SuperInv, NEW m \in Pids, UNCHANGED bound, MonitorTerminated(m)
  PROVE  SuperInv'
<1> DEFINE p == mon[m].child
<1>1. /\ mon[m].pc = "term" /\ proc' = IF Exited(p) THEN proc ELSE Set(p, "unclean")
      /\ slot' = [slot EXCEPT !.phase = "stopped", !.pid = None]
      /\ mon' = [mon EXCEPT ![m] = NoMonitor] /\ happened' = happened \cup Overtaken(m)
      /\ lock' = lock /\ task' = task /\ k8s' = k8s
  BY DEF MonitorTerminated
<1>2. p \in Pids /\ proc[p].st # "none" /\ Watches(m)
  BY <1>1, MonitorFacts DEF Watches
<1>e. Ended(m) <=> proc'[p].st \in {"clean", "unclean"}
  BY DEF Ended
<1>u. Untroubled' => slot.pid = p
  BY <1>1 DEF Untroubled, Overtaken
<1> HIDE DEF p
<1>3. /\ ProcsRun /\ DOMAIN proc' = Pids /\ \A q \in Pids : {"st", "tail"} \subseteq DOMAIN proc'[q]
      /\ proc'[p].st \in {"clean", "unclean"}
  <2>1. CASE Exited(p)
    BY <1>1, <2>1, SameProcs, MonitorFacts DEF Exited
  <2>2. CASE ~Exited(p)
    <3>1. proc' = Set(p, "unclean")
      BY <1>1, <2>2
    <3>2. proc'[p].st = "unclean"
      BY <1>2, <3>1, SetPoint DEF SuperInv
    <3> QED BY <1>2, <3>1, <3>2, MoveRuns
  <2> QED BY <2>1, <2>2
<1>4. MonitorMoves(m, NoMonitor)
  BY <1>1, <1>3, <1>e, NoMonitorShape, MonitorFacts DEF MonitorMoves
<1>5. SlotMoves(m)
  <2>1. /\ slot'.phase = "stopped" /\ slot'.gen = slot.gen
        /\ {"phase", "pid", "gen", "active"} \subseteq DOMAIN slot'
    BY <1>1, MonitorFacts
  <2> QED BY <1>1, <1>2, <1>3, <1>e, <1>u, <2>1 DEF SlotMoves, p
<1> QED BY <1>1, <1>3, <1>4, <1>5, MonitorMovesKeeps

\* While the lock is free, or held by a client that probes the port, nothing is spawned.
NothingSpawns ==
  /\ \A c \in Clients : task[c].pc \notin {"spawn", "poll"}
  /\ \A m \in Pids : mon[m].pc # "spawn"
  /\ k8s.pc # "patch" /\ slot.phase # "starting"

\* While the spawn lock is free, nothing spawns.
LEMMA LockFree ==
  ASSUME SuperInv, lock = Open
  PROVE  NothingSpawns /\ \A c \in Clients : task[c].pc # "probe"
<1>1. /\ \A c \in Clients : task[c].pc \notin {"probe", "spawn", "poll"}
      /\ \A m \in Pids : mon[m].pc # "spawn"
      /\ k8s.pc # "patch"
  BY Holders DEF SuperInv, LockHeld
<1> QED BY <1>1 DEF NothingSpawns, SuperInv, LockHeld

\* While a connection probes under the lock, nothing spawns.
LEMMA Probing ==
  ASSUME SuperInv, NEW c \in Clients, task[c].pc = "probe"
  PROVE  NothingSpawns /\ \A d \in Clients : d # c => task[d].pc # "probe"
<1>0. lock = Client(c)
  BY DEF SuperInv, LockHeld
<1>1. /\ \A d \in Clients : d # c => task[d].pc \notin {"probe", "spawn", "poll"}
      /\ \A m \in Pids : mon[m].pc # "spawn"
      /\ k8s.pc # "patch"
  BY <1>0, Holders DEF SuperInv, LockHeld
<1> QED BY <1>1 DEF NothingSpawns, SuperInv, LockHeld

\* What a spawn does to the processes and the slot.
LEMMA SpawnFacts ==
  ASSUME SuperInv, NEW h, Spawn(h)
  PROVE  /\ NewPid \in Pids /\ proc[NewPid].st = "none" /\ mon[NewPid].pc = "none"
         /\ DOMAIN proc' = Pids /\ \A q \in Pids : {"st", "tail"} \subseteq DOMAIN proc'[q]
         /\ proc'[NewPid].st = "booting" /\ \A q \in Pids : q # NewPid => proc'[q] = proc[q]
         /\ {"phase", "pid", "gen", "active"} \subseteq DOMAIN slot'
         /\ slot'.phase = "starting" /\ slot'.pid = NewPid /\ slot'.gen = slot.gen
         /\ lock' = h
<1> DEFINE n == NewPid
<1>1. n \in Pids /\ proc[n].st = "none"
  BY NewPidUnborn DEF Spawn
<1>2. /\ proc' = Set(n, "booting") /\ slot' = [slot EXCEPT !.phase = "starting", !.pid = n]
      /\ lock' = h
  BY DEF Spawn
<1> HIDE DEF n
<1>3. /\ DOMAIN proc' = Pids /\ \A q \in Pids : {"st", "tail"} \subseteq DOMAIN proc'[q]
      /\ proc'[n].st = "booting" /\ \A q \in Pids : q # n => proc'[q] = proc[q]
  BY <1>1, <1>2, SetPoint DEF SuperInv
<1>4. /\ {"phase", "pid", "gen", "active"} \subseteq DOMAIN slot'
      /\ slot'.phase = "starting" /\ slot'.pid = n /\ slot'.gen = slot.gen
  BY <1>2 DEF SuperInv, SuperShapes
<1>5. mon[n].pc = "none"
  BY <1>1 DEF SuperInv, ChildrenKnown
<1> QED BY <1>1, <1>2, <1>3, <1>4, <1>5 DEF n

\* A client spawns.
LEMMA ClientSpawnKeeps ==
  ASSUME SuperInv, NEW c \in Clients, Spawn(Client(c)), ~bound.k8s, NothingSpawns,
         \A d \in Clients : d # c => task[d].pc # "probe",
         task' = [task EXCEPT ![c].pc = "spawn", ![c].child = NewPid],
         happened \subseteq happened', Untroubled' => \A p \in Pids : ~Working(p),
         UNCHANGED <<bound, mon, k8s>>
  PROVE  SuperInv'
<1> DEFINE n == NewPid
<1>1. /\ n \in Pids /\ proc[n].st = "none" /\ mon[n].pc = "none"
      /\ DOMAIN proc' = Pids /\ \A q \in Pids : {"st", "tail"} \subseteq DOMAIN proc'[q]
      /\ proc'[n].st = "booting" /\ \A q \in Pids : q # n => proc'[q] = proc[q]
      /\ {"phase", "pid", "gen", "active"} \subseteq DOMAIN slot'
      /\ slot'.phase = "starting" /\ slot'.pid = n /\ slot'.gen = slot.gen
      /\ lock' = Client(c)
  BY SpawnFacts
<1>2. /\ DOMAIN task' = Clients /\ task'[c].pc = "spawn" /\ task'[c].child = n
      /\ \A d \in Clients : d # c => task'[d] = task[d]
      /\ \A d \in Clients : {"pc", "child", "backend", "rewoke"} \subseteq DOMAIN task'[d]
  BY DEF SuperInv, SuperShapes
<1> HIDE DEF n
<1>3. SuperShapes'
  BY <1>1, <1>2 DEF SuperInv, SuperShapes
<1>4. LockHeld'
  BY <1>1, <1>2 DEF LockHeld, NothingSpawns
<1>5. \A m \in Pids : Watches(m) => mon[m].child # n
  BY <1>1 DEF SuperInv, ChildrenKnown
<1>6. ChildrenKnown'
  <2>1. \A m \in Pids : mon'[m].pc # "none" => proc'[m].st # "none"
    BY <1>1 DEF SuperInv, ChildrenKnown
  <2>2. \A d \in Clients : task'[d].pc = "spawn" =>
          /\ task'[d].child \in Pids /\ proc'[task'[d].child].st # "none"
          /\ mon'[task'[d].child].pc = "none"
          /\ \A m \in Pids : Watches(m)' => mon'[m].child # task'[d].child
    BY <1>1, <1>2, <1>5 DEF NothingSpawns, Watches
  <2>3. \A m \in Pids : Watches(m)' => mon'[m].child \in Pids /\ proc'[mon'[m].child].st # "none"
    BY <1>1 DEF SuperInv, ChildrenKnown, Watches
  <2>4. \A m \in Pids : mon'[m].pc = "settle" => proc'[mon'[m].child].st \in {"clean", "unclean"}
    BY <1>1, <1>5 DEF SuperInv, ChildrenKnown, Watches, Exited
  <2>5. \A m \in Pids : mon'[m].pc # "spawn"
    BY DEF NothingSpawns
  <2> QED BY <1>1, <2>1, <2>2, <2>3, <2>4, <2>5, Zenon DEF ChildrenKnown, Exited
<1>7. ComputesSupervised'
  <2> SUFFICES ASSUME NEW p \in Pids, Live(p)'
               PROVE  \/ \E d \in Clients : task'[d].pc = "spawn" /\ task'[d].child = p
                      \/ \E m \in Pids : mon'[m].pc \in {"wait", "spawn", "term"} /\ mon'[m].child = p
    BY Zenon DEF ComputesSupervised
  <2>1. CASE p = n
    BY <1>2, <2>1
  <2>2. CASE p # n
    <3>1. Live(p)
      BY <1>1, <2>2 DEF Live
    <3> QED BY <3>1 DEF SuperInv, ComputesSupervised, NothingSpawns
  <2> QED BY <2>1, <2>2, Zenon
<1>8. SlotTells'
  <2> SUFFICES ASSUME Untroubled'
               PROVE  /\ \A p \in Pids : Working(p)' => slot'.pid = p
                      /\ \A d \in Clients : task'[d].pc = "spawn" => slot'.pid = task'[d].child
                      /\ \A m \in Pids : mon'[m].pc # "spawn"
    BY <1>1, Zenon DEF SlotTells
  <2>1. \A p \in Pids : Working(p)' => slot'.pid = p
    BY <1>1 DEF Working
  <2> QED BY <1>1, <1>2, <2>1 DEF NothingSpawns
<1> QED BY <1>3, <1>4, <1>6, <1>7, <1>8 DEF SuperInv

\* A monitor spawns.
LEMMA MonitorSpawnKeeps ==
  ASSUME SuperInv, NEW w \in Pids, Spawn(Monitor(w)), ~bound.k8s, NothingSpawns,
         \A d \in Clients : task[d].pc # "probe", mon[w].pc = "respawn",
         mon' = [mon EXCEPT ![w].pc = "spawn", ![w].child = NewPid],
         Untroubled' => \A p \in Pids : ~Working(p),
         UNCHANGED <<bound, task, k8s, happened>>
  PROVE  SuperInv'
<1> DEFINE n == NewPid
<1>1. /\ n \in Pids /\ proc[n].st = "none" /\ mon[n].pc = "none"
      /\ DOMAIN proc' = Pids /\ \A q \in Pids : {"st", "tail"} \subseteq DOMAIN proc'[q]
      /\ proc'[n].st = "booting" /\ \A q \in Pids : q # n => proc'[q] = proc[q]
      /\ {"phase", "pid", "gen", "active"} \subseteq DOMAIN slot'
      /\ slot'.phase = "starting" /\ slot'.pid = n /\ slot'.gen = slot.gen
      /\ lock' = Monitor(w)
  BY SpawnFacts
<1>2. /\ DOMAIN mon' = Pids /\ mon'[w].pc = "spawn" /\ mon'[w].child = n /\ mon'[w].gen = mon[w].gen
      /\ \A m \in Pids : m # w => mon'[m] = mon[m]
      /\ \A m \in Pids : {"pc", "child", "gen", "attempts"} \subseteq DOMAIN mon'[m]
  BY DEF SuperInv, SuperShapes
<1> HIDE DEF n
<1>3. SuperShapes'
  BY <1>1, <1>2 DEF SuperInv, SuperShapes
<1>4. LockHeld'
  BY <1>1, <1>2 DEF LockHeld, NothingSpawns
<1>5. \A m \in Pids : Watches(m) => mon[m].child # n
  BY <1>1 DEF SuperInv, ChildrenKnown
<1>6. ChildrenKnown'
  <2>1. \A m \in Pids : mon'[m].pc # "none" => proc'[m].st # "none"
    BY <1>1, <1>2 DEF SuperInv, ChildrenKnown
  <2>2. \A d \in Clients : task'[d].pc # "spawn"
    BY DEF NothingSpawns
  <2>3. \A m \in Pids : Watches(m)' => mon'[m].child \in Pids /\ proc'[mon'[m].child].st # "none"
    BY <1>1, <1>2 DEF SuperInv, ChildrenKnown, Watches
  <2>4. \A m \in Pids : mon'[m].pc = "settle" => proc'[mon'[m].child].st \in {"clean", "unclean"}
    BY <1>1, <1>2, <1>5 DEF SuperInv, ChildrenKnown, Watches, Exited
  <2>5. \A m, k \in Pids : mon'[m].pc = "spawn" /\ k # m /\ Watches(k)' =>
          mon'[k].child # mon'[m].child
    BY <1>2, <1>5 DEF NothingSpawns, Watches
  <2> QED BY <1>1, <2>1, <2>2, <2>3, <2>4, <2>5, Zenon DEF ChildrenKnown, Exited
<1>7. ComputesSupervised'
  <2> SUFFICES ASSUME NEW p \in Pids, Live(p)'
               PROVE  \E m \in Pids : mon'[m].pc \in {"wait", "spawn", "term"} /\ mon'[m].child = p
    BY Zenon DEF ComputesSupervised
  <2>1. CASE p = n
    BY <1>2, <2>1
  <2>2. CASE p # n
    <3>1. Live(p)
      BY <1>1, <2>2 DEF Live
    <3> QED BY <1>2, <3>1 DEF SuperInv, ComputesSupervised, NothingSpawns
  <2> QED BY <2>1, <2>2, Zenon
<1>8. SlotTells'
  <2> SUFFICES ASSUME Untroubled'
               PROVE  /\ \A p \in Pids : Working(p)' => slot'.pid = p
                      /\ \A d \in Clients : task'[d].pc # "spawn"
                      /\ \A m \in Pids : mon'[m].pc = "spawn" => slot'.pid = mon'[m].child
    BY <1>1, Zenon DEF SlotTells
  <2>1. \A p \in Pids : Working(p)' => slot'.pid = p
    BY <1>1 DEF Working
  <2> QED BY <1>1, <1>2, <2>1 DEF NothingSpawns
<1> QED BY <1>3, <1>4, <1>6, <1>7, <1>8 DEF SuperInv

\* A connection that finds the slot down spawns (ensure_running).
LEMMA EnsureSpawnsKeeps ==
  ASSUME SuperInv, NEW c \in Clients, lock = Open, Spawn(Client(c)), ~bound.k8s,
         slot.phase # "running",
         task' = [task EXCEPT ![c].pc = "spawn", ![c].child = NewPid],
         UNCHANGED <<bound, mon, k8s, happened>>
  PROVE  SuperInv'
<1>1. NothingSpawns /\ \A d \in Clients : task[d].pc # "probe"
  BY LockFree
<1>2. Untroubled' => \A p \in Pids : ~Working(p)
  BY <1>1 DEF SuperInv, SlotTells, NothingSpawns, Untroubled
<1> QED BY <1>1, <1>2, ClientSpawnKeeps, Zenon

\* A connection that finds nothing listening spawns (ensure_running).
LEMMA WakeKeeps ==
  ASSUME SuperInv, NEW c \in Clients, UNCHANGED bound, Wake(c)
  PROVE  SuperInv'
<1>1. NothingSpawns /\ \A d \in Clients : d # c => task[d].pc # "probe"
  BY Probing DEF Wake
<1>2. happened \subseteq happened' /\ (Untroubled' => Untroubled /\ ~Ready)
  BY DEF Wake, Untroubled
<1>3. ~bound.k8s
  BY DEF Wake
<1>4. Untroubled' => \A p \in Pids : ~Working(p)
  <2> SUFFICES ASSUME Untroubled', NEW p \in Pids, Working(p) PROVE FALSE
    OBVIOUS
  <2>1. ~Accepts(p)
    BY <1>2, <1>3 DEF Ready
  <2>2. proc[p].st \in {"booting", "opened"}
    BY <2>1 DEF Working, Accepts
  <2> QED BY <1>1, <1>2, <2>2 DEF SuperInv, SlotTells, NothingSpawns
<1>5. /\ Spawn(Client(c)) /\ task' = [task EXCEPT ![c].pc = "spawn", ![c].child = NewPid]
      /\ UNCHANGED <<mon, k8s>>
  BY DEF Wake
<1> QED BY <1>1, <1>2, <1>3, <1>4, <1>5, ClientSpawnKeeps, Zenon

\* A restart spawns under the lock, or is given up (monitor_compute, demoted).
LEMMA MonitorRespawnsKeeps ==
  ASSUME SuperInv, NEW m \in Pids, UNCHANGED bound, MonitorRespawns(m) \/ MonitorDemoted(m)
  PROVE  SuperInv'
<1>0. /\ mon[m].pc = "respawn" /\ task' = task /\ k8s' = k8s /\ happened' = happened
      /\ \/ /\ NotRespawned(m) \/ (mon' = [mon EXCEPT ![m] = NoMonitor] /\ UNCHANGED slot)
            /\ UNCHANGED <<proc, lock>>
         \/ /\ slot.gen = mon[m].gen /\ lock = Open /\ Spawn(Monitor(m))
            /\ mon' = [mon EXCEPT ![m].pc = "spawn", ![m].child = NewPid]
  BY DEF MonitorRespawns, MonitorDemoted
<1>1. CASE /\ NotRespawned(m) \/ (mon' = [mon EXCEPT ![m] = NoMonitor] /\ UNCHANGED slot)
           /\ UNCHANGED <<proc, lock>>
  BY <1>0, <1>1, MonitorGivesUpKeeps
<1>2. CASE /\ slot.gen = mon[m].gen /\ lock = Open /\ Spawn(Monitor(m))
           /\ mon' = [mon EXCEPT ![m].pc = "spawn", ![m].child = NewPid]
  <2>1. NothingSpawns /\ \A d \in Clients : task[d].pc # "probe"
    BY <1>2, LockFree
  <2>2. slot.phase # "running" /\ ~bound.k8s
    BY <1>0, <1>2 DEF SuperInv, ChildrenKnown, LockHeld
  <2>3. Untroubled' => \A p \in Pids : ~Working(p)
    BY <1>0, <2>1, <2>2 DEF SuperInv, SlotTells, NothingSpawns, Untroubled
  <2> QED BY <1>0, <1>2, <2>1, <2>2, <2>3, MonitorSpawnKeeps, Zenon
<1> QED BY <1>0, <1>1, <1>2

-----------------------------------------------------------------------------
(* The lock changes hands without a spawn.                                 *)

\* No client that spawns is touched; the slot is only set for a workload.
LEMMA LocksKeep ==
  ASSUME SuperInv, LockHeld', UNCHANGED <<bound, proc, mon, happened>>,
         {"replicas", "up", "pc", "led", "flip"} \subseteq DOMAIN k8s',
         DOMAIN task' = Clients,
         \A d \in Clients : {"pc", "child", "backend", "rewoke"} \subseteq DOMAIN task'[d],
         \A d \in Clients : task[d].pc = "spawn" \/ task'[d].pc = "spawn" => task'[d] = task[d],
         {"phase", "pid", "gen", "active"} \subseteq DOMAIN slot',
         slot'.gen = slot.gen, (slot'.phase = slot.phase /\ slot'.pid = slot.pid) \/ bound.k8s
  PROVE  SuperInv'
<1>1. SuperShapes'
  BY DEF SuperInv, SuperShapes
<1>2. bound.k8s => /\ \A p \in Pids : proc[p].st = "none"
                   /\ \A m \in Pids : mon[m].pc = "none"
  BY DEF SuperInv, LockHeld, ChildrenKnown
<1>3. ChildrenKnown'
  <2>1. \A d \in Clients : task'[d].pc = "spawn" => task'[d] = task[d]
    OBVIOUS
  <2>2. \A m \in Pids : mon'[m].pc \in {"backoff", "respawn"} /\ mon'[m].gen = slot'.gen =>
          slot'.phase # "running"
    BY <1>2 DEF SuperInv, ChildrenKnown
  <2> QED BY <2>1, <2>2 DEF SuperInv, ChildrenKnown, Watches, Exited
<1>4. ComputesSupervised'
  BY DEF SuperInv, ComputesSupervised, Live
<1>5. SlotTells'
  <2>1. CASE bound.k8s
    <3>1. \A p \in Pids : ~Working(p)' /\ proc'[p].st \notin {"booting", "opened"}
      BY <1>2, <2>1 DEF Working
    <3>2. \A m \in Pids : mon'[m].pc # "spawn"
      BY <1>2, <2>1
    <3>3. \A d \in Clients : task'[d].pc # "spawn"
      BY <1>2, <2>1 DEF SuperInv, ChildrenKnown
    <3> QED BY <3>1, <3>2, <3>3 DEF SlotTells
  <2>2. CASE slot'.phase = slot.phase /\ slot'.pid = slot.pid
    BY <2>2 DEF SuperInv, SlotTells, Working, Untroubled
  <2> QED BY <2>1, <2>2
<1> QED BY <1>1, <1>3, <1>4, <1>5 DEF SuperInv

\* A client that neither spawned nor spawns.
LEMMA ClientLocksKeeps ==
  ASSUME SuperInv, LockHeld', UNCHANGED <<bound, proc, mon, happened>>,
         {"replicas", "up", "pc", "led", "flip"} \subseteq DOMAIN k8s',
         NEW c \in Clients, DOMAIN task' = Clients,
         {"pc", "child", "backend", "rewoke"} \subseteq DOMAIN task'[c],
         \A d \in Clients : d # c => task'[d] = task[d],
         task[c].pc # "spawn", task'[c].pc # "spawn",
         {"phase", "pid", "gen", "active"} \subseteq DOMAIN slot',
         slot'.gen = slot.gen, (slot'.phase = slot.phase /\ slot'.pid = slot.pid) \/ bound.k8s
  PROVE  SuperInv'
<1>1. \A d \in Clients : {"pc", "child", "backend", "rewoke"} \subseteq DOMAIN task'[d]
  BY DEF SuperInv, SuperShapes
<1>2. \A d \in Clients : task[d].pc = "spawn" \/ task'[d].pc = "spawn" => task'[d] = task[d]
  OBVIOUS
<1> QED BY <1>1, <1>2, LocksKeep

\* A connection takes the spawn lock (ensure_running).
LEMMA EnsureRunningKeeps ==
  ASSUME SuperInv, NEW c \in Clients, UNCHANGED bound, EnsureRunning(c)
  PROVE  SuperInv'
<1>0. /\ task[c].pc = "locking" /\ lock = Open /\ mon' = mon /\ k8s' = k8s /\ happened' = happened
      /\ \/ task' = [task EXCEPT ![c] = NoTask] /\ UNCHANGED <<proc, slot, lock>>
         \/ lock' = Client(c) /\ task' = [task EXCEPT ![c].pc = "probe"] /\ UNCHANGED <<proc, slot>>
         \/ /\ slot.phase # "running" /\ ~bound.k8s /\ Spawn(Client(c))
            /\ task' = [task EXCEPT ![c].pc = "spawn", ![c].child = NewPid]
  BY DEF EnsureRunning, Gone, Goto
<1>1. CASE task' = [task EXCEPT ![c] = NoTask] /\ UNCHANGED <<proc, slot, lock>>
  <2>1. /\ DOMAIN task' = Clients /\ \A d \in Clients : d # c => task'[d] = task[d]
        /\ {"pc", "child", "backend", "rewoke"} \subseteq DOMAIN task'[c] /\ task'[c].pc = "idle"
    BY <1>1 DEF SuperInv, SuperShapes, NoTask
  <2>2. LockHeld'
    BY <1>0, <1>1, <2>1 DEF SuperInv, LockHeld
  <2>3. /\ {"phase", "pid", "gen", "active"} \subseteq DOMAIN slot
        /\ {"replicas", "up", "pc", "led", "flip"} \subseteq DOMAIN k8s
    BY DEF SuperInv, SuperShapes
  <2> QED BY <1>0, <1>1, <2>1, <2>2, <2>3, ClientLocksKeeps
<1>2. CASE lock' = Client(c) /\ task' = [task EXCEPT ![c].pc = "probe"] /\ UNCHANGED <<proc, slot>>
  <2>1. /\ DOMAIN task' = Clients /\ \A d \in Clients : d # c => task'[d] = task[d]
        /\ {"pc", "child", "backend", "rewoke"} \subseteq DOMAIN task'[c] /\ task'[c].pc = "probe"
    BY <1>2 DEF SuperInv, SuperShapes
  <2>2. NothingSpawns /\ \A d \in Clients : task[d].pc # "probe"
    BY <1>0, LockFree
  <2>3. LockHeld'
    BY <1>0, <1>2, <2>1, <2>2 DEF SuperInv, LockHeld, NothingSpawns
  <2>4. /\ {"phase", "pid", "gen", "active"} \subseteq DOMAIN slot
        /\ {"replicas", "up", "pc", "led", "flip"} \subseteq DOMAIN k8s
    BY DEF SuperInv, SuperShapes
  <2> QED BY <1>0, <1>2, <2>1, <2>3, <2>4, ClientLocksKeeps
<1>3. CASE /\ slot.phase # "running" /\ ~bound.k8s /\ Spawn(Client(c))
           /\ task' = [task EXCEPT ![c].pc = "spawn", ![c].child = NewPid]
  BY <1>0, <1>3, EnsureSpawnsKeeps, Zenon
<1> QED BY <1>0, <1>1, <1>2, <1>3

\* What is known of a client that holds the lock.
LEMMA Locked ==
  ASSUME SuperInv, NEW c \in Clients, task[c].pc \in {"probe", "spawn", "poll"}
  PROVE  /\ lock = Client(c) /\ \A d \in Clients : d # c => task[d].pc \notin {"probe", "spawn", "poll"}
         /\ \A m \in Pids : mon[m].pc # "spawn"
         /\ k8s.pc # "patch"
         /\ DOMAIN task = Clients /\ {"pc", "child", "backend", "rewoke"} \subseteq DOMAIN task[c]
         /\ {"phase", "pid", "gen", "active"} \subseteq DOMAIN slot
         /\ {"replicas", "up", "pc", "led", "flip"} \subseteq DOMAIN k8s
<1>0. lock = Client(c)
  BY DEF SuperInv, LockHeld
<1>1. /\ \A d \in Clients : d # c => task[d].pc \notin {"probe", "spawn", "poll"}
      /\ \A m \in Pids : mon[m].pc # "spawn"
      /\ k8s.pc # "patch"
  BY <1>0, Holders DEF SuperInv, LockHeld
<1> QED BY <1>0, <1>1 DEF SuperInv, SuperShapes

\* Where a client goes once the compute is up.
LEMMA OnwardFree == \A c \in Clients : Onward(c) \notin {"probe", "spawn", "poll"}
BY DEF Onward

\* The slot runs and accepts: the lock is released (ensure_running).
LEMMA FastPathKeeps ==
  ASSUME SuperInv, NEW c \in Clients, UNCHANGED bound, FastPath(c)
  PROVE  SuperInv'
<1>0. /\ task[c].pc = "probe" /\ lock' = Open /\ task' = [task EXCEPT ![c].pc = Onward(c)]
      /\ slot' = [slot EXCEPT !.phase = IF bound.k8s THEN "running" ELSE slot.phase]
      /\ UNCHANGED <<proc, mon, k8s, happened>>
  BY DEF FastPath, Goto
<1>1. /\ \A d \in Clients : d # c => task[d].pc \notin {"probe", "spawn", "poll"}
      /\ \A m \in Pids : mon[m].pc # "spawn"
      /\ k8s.pc # "patch"
      /\ DOMAIN task = Clients /\ {"pc", "child", "backend", "rewoke"} \subseteq DOMAIN task[c]
      /\ {"phase", "pid", "gen", "active"} \subseteq DOMAIN slot
      /\ {"replicas", "up", "pc", "led", "flip"} \subseteq DOMAIN k8s
  BY <1>0, Locked
<1>2. /\ DOMAIN task' = Clients /\ {"pc", "child", "backend", "rewoke"} \subseteq DOMAIN task'[c]
      /\ task'[c].pc \notin {"probe", "spawn", "poll"} /\ \A d \in Clients : d # c => task'[d] = task[d]
  BY <1>0, <1>1, OnwardFree
<1>3. /\ {"phase", "pid", "gen", "active"} \subseteq DOMAIN slot'
      /\ slot'.pid = slot.pid /\ slot'.gen = slot.gen
      /\ slot'.phase = IF bound.k8s THEN "running" ELSE slot.phase
  BY <1>0, <1>1
<1>4. slot'.phase # "starting"
  BY <1>0, <1>3, Probing DEF NothingSpawns
<1>5. LockHeld'
  BY <1>0, <1>1, <1>2, <1>4 DEF SuperInv, LockHeld
<1> QED BY <1>0, <1>1, <1>2, <1>3, <1>5, ClientLocksKeeps

\* A connection for which no process can be started ends (spawn_compute).
LEMMA WakeRefusedKeeps ==
  ASSUME SuperInv, NEW c \in Clients, UNCHANGED bound, WakeRefused(c)
  PROVE  SuperInv'
<1>0. /\ lock' = Open /\ task' = [task EXCEPT ![c] = NoTask] /\ UNCHANGED <<proc, slot, mon, k8s, happened>>
      /\ (task[c].pc = "locking" /\ lock = Open) \/ task[c].pc = "probe"
  BY DEF WakeRefused, SpawnRefused, Gone
<1>1. /\ \A d \in Clients : d # c => task[d].pc \notin {"probe", "spawn", "poll"}
      /\ NothingSpawns /\ k8s.pc # "patch"
  <2>1. CASE task[c].pc = "locking" /\ lock = Open
    BY <2>1, LockFree, Holders DEF NothingSpawns, SuperInv, LockHeld
  <2>2. CASE task[c].pc = "probe"
    BY <2>2, Locked, Probing
  <2> QED BY <1>0, <2>1, <2>2
<1>2. /\ DOMAIN task' = Clients /\ \A d \in Clients : d # c => task'[d] = task[d]
      /\ {"pc", "child", "backend", "rewoke"} \subseteq DOMAIN task'[c] /\ task'[c].pc = "idle"
  BY <1>0 DEF SuperInv, SuperShapes, NoTask
<1>3. LockHeld'
  BY <1>0, <1>1, <1>2 DEF SuperInv, LockHeld, NothingSpawns
<1>4. /\ {"phase", "pid", "gen", "active"} \subseteq DOMAIN slot
      /\ {"replicas", "up", "pc", "led", "flip"} \subseteq DOMAIN k8s
  BY DEF SuperInv, SuperShapes
<1> QED BY <1>0, <1>2, <1>3, <1>4, ClientLocksKeeps

\* A scaled workload is woken under the lock (ensure_remote).
LEMMA WakeRemoteKeeps ==
  ASSUME SuperInv, NEW c \in Clients, UNCHANGED bound, WakeRemote(c)
  PROVE  SuperInv'
<1>0. /\ bound.k8s /\ task[c].pc = "probe" /\ lock' = lock /\ task' = [task EXCEPT ![c].pc = "poll"]
      /\ slot' = [slot EXCEPT !.phase = "starting"] /\ UNCHANGED <<proc, mon, happened>>
      /\ k8s' = k8s \/ k8s' = [k8s EXCEPT !.replicas = 1]
  BY DEF WakeRemote, Goto, ScaledUp, SetReplicas
<1>1. /\ \A d \in Clients : d # c => task[d].pc \notin {"probe", "spawn", "poll"}
      /\ \A m \in Pids : mon[m].pc # "spawn"
      /\ k8s.pc # "patch" /\ lock = Client(c)
      /\ DOMAIN task = Clients /\ {"pc", "child", "backend", "rewoke"} \subseteq DOMAIN task[c]
      /\ {"phase", "pid", "gen", "active"} \subseteq DOMAIN slot
      /\ {"replicas", "up", "pc", "led", "flip"} \subseteq DOMAIN k8s
  BY <1>0, Locked
<1>2. /\ DOMAIN task' = Clients /\ {"pc", "child", "backend", "rewoke"} \subseteq DOMAIN task'[c]
      /\ task'[c].pc = "poll" /\ \A d \in Clients : d # c => task'[d] = task[d]
  BY <1>0, <1>1
<1>3. /\ {"phase", "pid", "gen", "active"} \subseteq DOMAIN slot' /\ slot'.gen = slot.gen
      /\ {"replicas", "up", "pc", "led", "flip"} \subseteq DOMAIN k8s' /\ k8s'.pc = k8s.pc
  BY <1>0, <1>1
<1>5. LockHeld'
  BY <1>0, <1>1, <1>2, <1>3 DEF SuperInv, LockHeld
<1> QED BY <1>0, <1>1, <1>2, <1>3, <1>5, ClientLocksKeeps

\* The workload is ready, or is not in time (ensure_remote).
LEMMA RemoteKeeps ==
  ASSUME SuperInv, NEW c \in Clients, UNCHANGED bound, RemoteReady(c) \/ RemoteTimesOut(c)
  PROVE  SuperInv'
<1>0. /\ task[c].pc = "poll" /\ lock' = Open
      /\ task' = [task EXCEPT ![c].pc = Onward(c)] \/ task' = [task EXCEPT ![c] = NoTask]
      /\ slot' = [slot EXCEPT !.phase = "running"] \/ slot' = [slot EXCEPT !.phase = "stopped"]
      /\ UNCHANGED <<proc, mon, k8s, happened>>
  BY DEF RemoteReady, RemoteTimesOut, Goto, Gone
<1>1. /\ \A d \in Clients : d # c => task[d].pc \notin {"probe", "spawn", "poll"}
      /\ \A m \in Pids : mon[m].pc # "spawn"
      /\ k8s.pc # "patch"
      /\ DOMAIN task = Clients /\ {"pc", "child", "backend", "rewoke"} \subseteq DOMAIN task[c]
      /\ {"phase", "pid", "gen", "active"} \subseteq DOMAIN slot
      /\ {"replicas", "up", "pc", "led", "flip"} \subseteq DOMAIN k8s
  BY <1>0, Locked
<1>2. /\ DOMAIN task' = Clients /\ {"pc", "child", "backend", "rewoke"} \subseteq DOMAIN task'[c]
      /\ task'[c].pc \notin {"probe", "spawn", "poll"} /\ \A d \in Clients : d # c => task'[d] = task[d]
  BY <1>0, <1>1, OnwardFree DEF NoTask
<1>3. /\ {"phase", "pid", "gen", "active"} \subseteq DOMAIN slot'
      /\ slot'.gen = slot.gen /\ slot'.phase # "starting"
  BY <1>0, <1>1
<1>4. bound.k8s
  BY <1>0 DEF SuperInv, LockHeld
<1>5. LockHeld'
  BY <1>0, <1>1, <1>2, <1>3 DEF SuperInv, LockHeld
<1> QED BY <1>0, <1>1, <1>2, <1>3, <1>4, <1>5, ClientLocksKeeps

\* The idle loop parks the workload under the lock (k8s_idle_scale_loop).
LEMMA ParkKeeps ==
  ASSUME SuperInv, UNCHANGED bound, ParkTick \/ ParkPatch
  PROVE  SuperInv'
<1>0. /\ DOMAIN task = Clients
      /\ \A d \in Clients : {"pc", "child", "backend", "rewoke"} \subseteq DOMAIN task[d]
      /\ {"phase", "pid", "gen", "active"} \subseteq DOMAIN slot
      /\ {"replicas", "up", "pc", "led", "flip"} \subseteq DOMAIN k8s
  BY DEF SuperInv, SuperShapes
<1>1. CASE ParkTick
  <2>1. /\ bound.k8s /\ lock = Open /\ lock' = Parker /\ k8s' = [k8s EXCEPT !.pc = "patch"]
        /\ UNCHANGED <<proc, slot, task, mon, happened>>
    BY <1>1 DEF ParkTick
  <2>2. NothingSpawns /\ \A d \in Clients : task[d].pc # "probe"
    BY <2>1, LockFree
  <2>3. LockHeld'
    BY <2>1, <2>2 DEF SuperInv, LockHeld, NothingSpawns
  <2>4. {"replicas", "up", "pc", "led", "flip"} \subseteq DOMAIN k8s'
    BY <1>0, <2>1
  <2> QED BY <1>0, <2>1, <2>3, <2>4, LocksKeep
<1>2. CASE ParkPatch
  <2>1. /\ k8s.pc = "patch" /\ lock' = Open /\ UNCHANGED <<proc, task, mon, happened>>
        /\ \/ k8s' = [[k8s EXCEPT !.replicas = 0] EXCEPT !.pc = "idle"]
           \/ k8s' = [k8s EXCEPT !.pc = "idle"]
        /\ slot' = [slot EXCEPT !.phase = "stopped", !.pid = None] \/ slot' = slot
    BY <1>2 DEF ParkPatch, SetReplicas
  <2>2. lock = Parker /\ bound.k8s
    BY <2>1 DEF SuperInv, LockHeld
  <2>3. /\ \A d \in Clients : task[d].pc \notin {"probe", "spawn", "poll"}
        /\ \A m \in Pids : mon[m].pc # "spawn"
    BY <2>2, Holders DEF SuperInv, LockHeld
  <2>4. {"replicas", "up", "pc", "led", "flip"} \subseteq DOMAIN k8s' /\ k8s'.pc = "idle"
    BY <1>0, <2>1, Zenon
  <2>5. /\ {"phase", "pid", "gen", "active"} \subseteq DOMAIN slot' /\ slot'.gen = slot.gen
        /\ slot'.phase = "stopped" \/ slot'.phase = slot.phase
    BY <1>0, <2>1, Zenon
  <2>6. LockHeld'
    BY <2>1, <2>2, <2>3, <2>4, <2>5 DEF SuperInv, LockHeld
  <2> QED BY <1>0, <2>1, <2>2, <2>4, <2>5, <2>6, LocksKeep
<1> QED BY <1>1, <1>2

-----------------------------------------------------------------------------
(* The spawn ends.                                                         *)

\* The new compute accepts: the process the slot names has come up.
LEMMA SpawnReadyFacts ==
  ASSUME SuperInv, NEW p \in Pids, SpawnReady(p), ~bound.k8s
  PROVE  /\ lock' = Open /\ {"phase", "pid", "gen", "active"} \subseteq DOMAIN slot'
         /\ slot'.phase = "running" /\ slot'.pid = slot.pid
         /\ slot.gen \in Nat /\ slot'.gen = slot.gen + 1
         /\ Untroubled => \A q \in Pids : proc[q].st \notin {"booting", "opened"}
<1>1. /\ lock' = Open /\ slot' = [slot EXCEPT !.phase = "running", !.gen = slot.gen + 1]
      /\ \E a \in Pids : Accepts(a)
  BY DEF SpawnReady, Ready
<1>2. /\ {"phase", "pid", "gen", "active"} \subseteq DOMAIN slot'
      /\ slot'.phase = "running" /\ slot'.pid = slot.pid
      /\ slot.gen \in Nat /\ slot'.gen = slot.gen + 1
  BY <1>1 DEF SuperInv, SuperShapes
<1>3. Untroubled => \A q \in Pids : proc[q].st \notin {"booting", "opened"}
  <2> SUFFICES ASSUME Untroubled, NEW q \in Pids, proc[q].st \in {"booting", "opened"} PROVE FALSE
    OBVIOUS
  <2>1. PICK a \in Pids : proc[a].st \in {"serving", "draining"}
    BY <1>1 DEF Accepts
  <2>2. slot.pid = a /\ slot.pid = q
    BY <2>1 DEF SuperInv, SlotTells, Working
  <2> QED BY <2>1, <2>2
<1> QED BY <1>1, <1>2, <1>3

\* A spawn that became ready gets its monitor (ensure_running).
LEMMA WokenKeeps ==
  ASSUME SuperInv, NEW c \in Clients, UNCHANGED bound, Woken(c)
  PROVE  SuperInv'
<1> DEFINE p == task[c].child
           r == [pc |-> "wait", child |-> p, gen |-> slot.gen + 1, attempts |-> 0]
<1>0. /\ task[c].pc = "spawn" /\ SpawnReady(p) /\ mon' = [mon EXCEPT ![p] = r]
      /\ task' = [task EXCEPT ![c].pc = Onward(c), ![c].child = None]
      /\ UNCHANGED <<proc, k8s, happened>>
  BY DEF Woken
<1>1. /\ p \in Pids /\ proc[p].st # "none" /\ mon[p].pc = "none"
      /\ \A m \in Pids : Watches(m) => mon[m].child # p
  BY <1>0 DEF SuperInv, ChildrenKnown
<1>2. ~bound.k8s
  BY <1>1 DEF SuperInv, LockHeld
<1>3. /\ lock' = Open /\ {"phase", "pid", "gen", "active"} \subseteq DOMAIN slot'
      /\ slot'.phase = "running" /\ slot'.pid = slot.pid
      /\ slot.gen \in Nat /\ slot'.gen = slot.gen + 1
      /\ Untroubled => \A q \in Pids : proc[q].st \notin {"booting", "opened"}
  BY <1>0, <1>1, <1>2, SpawnReadyFacts
<1>4. /\ \A d \in Clients : d # c => task[d].pc \notin {"probe", "spawn", "poll"}
      /\ \A m \in Pids : mon[m].pc # "spawn"
      /\ k8s.pc # "patch"
      /\ DOMAIN task = Clients /\ {"pc", "child", "backend", "rewoke"} \subseteq DOMAIN task[c]
  BY <1>0, Locked
<1>5. /\ DOMAIN task' = Clients
      /\ \A d \in Clients : {"pc", "child", "backend", "rewoke"} \subseteq DOMAIN task'[d]
      /\ \A d \in Clients : task'[d].pc \notin {"probe", "spawn", "poll"}
  BY <1>0, <1>4, OnwardFree DEF SuperInv, SuperShapes
<1>6. /\ {"pc", "child", "gen", "attempts"} \subseteq DOMAIN r
      /\ r.pc = "wait" /\ r.child = p /\ r.gen = slot.gen + 1
  OBVIOUS
<1> HIDE DEF r, p
<1>7. /\ DOMAIN mon' = Pids /\ mon'[p] = r /\ \A m \in Pids : m # p => mon'[m] = mon[m]
  BY <1>0, <1>1 DEF SuperInv, SuperShapes
<1>8. SuperShapes'
  BY <1>0, <1>3, <1>5, <1>6, <1>7 DEF SuperInv, SuperShapes
<1>9. LockHeld'
  BY <1>0, <1>2, <1>3, <1>4, <1>5, <1>6, <1>7 DEF LockHeld
<1>10. ChildrenKnown'
  <2>1. \A m \in Pids : mon'[m].pc # "none" => proc'[m].st # "none"
    BY <1>0, <1>1, <1>7 DEF SuperInv, ChildrenKnown
  <2>2. \A m \in Pids : Watches(m)' => mon'[m].child \in Pids /\ proc'[mon'[m].child].st # "none"
    BY <1>0, <1>1, <1>6, <1>7 DEF SuperInv, ChildrenKnown, Watches
  <2>3. \A m \in Pids : mon'[m].pc = "settle" => proc'[mon'[m].child].st \in {"clean", "unclean"}
    BY <1>0, <1>6, <1>7 DEF SuperInv, ChildrenKnown, Exited
  <2>4. \A m \in Pids : mon'[m].pc # "spawn"
    BY <1>4, <1>6, <1>7
  <2>5. \A m \in Pids : mon'[m].pc \in {"backoff", "respawn"} => mon'[m].gen # slot'.gen
    BY <1>3, <1>6, <1>7 DEF SuperInv, SuperShapes
  <2> QED BY <1>5, <2>1, <2>2, <2>3, <2>4, <2>5 DEF ChildrenKnown, Exited
<1>11. ComputesSupervised'
  <2> SUFFICES ASSUME NEW q \in Pids, Live(q)'
               PROVE  \E m \in Pids : mon'[m].pc \in {"wait", "spawn", "term"} /\ mon'[m].child = q
    BY DEF ComputesSupervised
  <2>1. Live(q)
    BY <1>0 DEF Live
  <2>2. CASE q = p
    BY <1>1, <1>6, <1>7, <2>2
  <2>3. CASE q # p
    <3>1. PICK m \in Pids : mon[m].pc \in {"wait", "spawn", "term"} /\ mon[m].child = q
      BY <1>4, <2>1, <2>3 DEF SuperInv, ComputesSupervised, p
    <3> QED BY <1>1, <1>7, <3>1
  <2> QED BY <2>2, <2>3
<1>12. SlotTells'
  <2> SUFFICES ASSUME Untroubled'
               PROVE  \A q \in Pids : /\ Working(q)' => slot'.pid = q
                                      /\ proc'[q].st \notin {"booting", "opened"}
    <3>1. \A m \in Pids : mon'[m].pc # "spawn"
      BY <1>4, <1>6, <1>7
    <3> QED BY <1>3, <1>5, <3>1 DEF SlotTells
  <2> QED BY <1>0, <1>3 DEF SuperInv, SlotTells, Working, Untroubled
<1> QED BY <1>8, <1>9, <1>10, <1>11, <1>12 DEF SuperInv

\* A restarted child passes to the monitor that spawned it (monitor_compute).
LEMMA MonitorRestartedKeeps ==
  ASSUME SuperInv, NEW w \in Pids, UNCHANGED bound, MonitorRestarted(w)
  PROVE  SuperInv'
<1>0. /\ mon[w].pc = "spawn" /\ SpawnReady(mon[w].child)
      /\ mon' = [mon EXCEPT ![w].pc = "wait", ![w].gen = slot.gen + 1]
      /\ UNCHANGED <<proc, task, k8s, happened>>
  BY DEF MonitorRestarted
<1>1. mon[w].child \in Pids /\ proc[mon[w].child].st # "none"
  BY <1>0 DEF SuperInv, ChildrenKnown, Watches
<1>2. ~bound.k8s
  BY <1>1 DEF SuperInv, LockHeld
<1>3. /\ lock' = Open /\ {"phase", "pid", "gen", "active"} \subseteq DOMAIN slot'
      /\ slot'.phase = "running" /\ slot'.pid = slot.pid
      /\ slot.gen \in Nat /\ slot'.gen = slot.gen + 1
      /\ Untroubled => \A q \in Pids : proc[q].st \notin {"booting", "opened"}
  BY <1>0, <1>1, <1>2, SpawnReadyFacts
<1>4. lock = Monitor(w)
  BY <1>0 DEF SuperInv, LockHeld
<1>5. /\ \A d \in Clients : task[d].pc \notin {"probe", "spawn", "poll"}
      /\ \A m \in Pids : m # w => mon[m].pc # "spawn"
      /\ k8s.pc # "patch"
  BY <1>4, Holders DEF SuperInv, LockHeld
<1>6. /\ DOMAIN mon' = Pids /\ mon'[w].pc = "wait" /\ mon'[w].gen = slot.gen + 1
      /\ mon'[w].child = mon[w].child /\ {"pc", "child", "gen", "attempts"} \subseteq DOMAIN mon'[w]
      /\ \A m \in Pids : m # w => mon'[m] = mon[m]
  BY <1>0 DEF SuperInv, SuperShapes
<1>7. \A m \in Pids : mon'[m].pc # "spawn"
  BY <1>5, <1>6
<1>8. SuperShapes'
  BY <1>0, <1>3, <1>6 DEF SuperInv, SuperShapes
<1>9. LockHeld'
  BY <1>0, <1>2, <1>3, <1>5, <1>7, Zenon DEF LockHeld
<1>10. ChildrenKnown'
  <2>1. \A m \in Pids : mon'[m].pc # "none" => proc'[m].st # "none"
    BY <1>0, <1>6 DEF SuperInv, ChildrenKnown
  <2>2. \A m \in Pids : Watches(m)' => mon'[m].child \in Pids /\ proc'[mon'[m].child].st # "none"
    BY <1>0, <1>1, <1>6 DEF SuperInv, ChildrenKnown, Watches
  <2>3. \A m \in Pids : mon'[m].pc = "settle" => proc'[mon'[m].child].st \in {"clean", "unclean"}
    BY <1>0, <1>6 DEF SuperInv, ChildrenKnown, Exited
  <2>5. \A m \in Pids : mon'[m].pc \in {"backoff", "respawn"} => mon'[m].gen # slot'.gen
    BY <1>3, <1>6 DEF SuperInv, SuperShapes
  <2> QED BY <1>0, <1>5, <1>7, <2>1, <2>2, <2>3, <2>5, Zenon DEF ChildrenKnown, Exited
<1>11. ComputesSupervised'
  <2> SUFFICES ASSUME NEW q \in Pids, Live(q)'
               PROVE  \E m \in Pids : mon'[m].pc \in {"wait", "spawn", "term"} /\ mon'[m].child = q
    BY DEF ComputesSupervised
  <2>1. Live(q)
    BY <1>0 DEF Live
  <2>2. PICK m \in Pids : mon[m].pc \in {"wait", "spawn", "term"} /\ mon[m].child = q
    BY <1>5, <2>1 DEF SuperInv, ComputesSupervised
  <2> QED BY <1>6, <2>2
<1>12. SlotTells'
  <2> SUFFICES ASSUME Untroubled'
               PROVE  \A q \in Pids : /\ Working(q)' => slot'.pid = q
                                      /\ proc'[q].st \notin {"booting", "opened"}
    BY <1>0, <1>3, <1>5, <1>7, Zenon DEF SlotTells
  <2> QED BY <1>0, <1>3 DEF SuperInv, SlotTells, Working, Untroubled
<1> QED BY <1>8, <1>9, <1>10, <1>11, <1>12 DEF SuperInv

\* The child is gone: it exited, or the wake timeout killed it.
LEMMA SpawnFailsFacts ==
  ASSUME SuperInv, NEW p \in Pids, SpawnFails(p), proc[p].st # "none"
  PROVE  /\ ProcsRun /\ DOMAIN proc' = Pids /\ \A q \in Pids : {"st", "tail"} \subseteq DOMAIN proc'[q]
         /\ proc'[p].st \in {"clean", "unclean"}
         /\ lock' = Open /\ {"phase", "pid", "gen", "active"} \subseteq DOMAIN slot'
         /\ slot'.phase = "failed" /\ slot'.gen = slot.gen
<1>1. /\ lock' = Open /\ slot' = [slot EXCEPT !.phase = "failed", !.pid = None]
      /\ \/ proc[p].st \in {"clean", "unclean"} /\ proc' = proc
         \/ proc' = Set(p, "unclean")
  BY DEF SpawnFails, fail_slot, Exited
<1>2. /\ ProcsRun /\ DOMAIN proc' = Pids /\ \A q \in Pids : {"st", "tail"} \subseteq DOMAIN proc'[q]
      /\ proc'[p].st \in {"clean", "unclean"}
  <2>1. CASE proc[p].st \in {"clean", "unclean"} /\ proc' = proc
    BY <2>1, SameProcs DEF SuperInv, SuperShapes
  <2>2. CASE proc' = Set(p, "unclean")
    <3>1. ProcsRun /\ DOMAIN proc' = Pids /\ \A q \in Pids : {"st", "tail"} \subseteq DOMAIN proc'[q]
      BY <2>2, MoveRuns
    <3>2. proc'[p].st = "unclean"
      BY <2>2, SetPoint DEF SuperInv
    <3> QED BY <3>1, <3>2
  <2> QED BY <1>1, <2>1, <2>2
<1>3. /\ {"phase", "pid", "gen", "active"} \subseteq DOMAIN slot'
      /\ slot'.phase = "failed" /\ slot'.gen = slot.gen
  BY <1>1 DEF SuperInv, SuperShapes
<1> QED BY <1>1, <1>2, <1>3

\* A spawn that fails leaves no process behind (spawn_compute, fail_slot).
LEMMA WakeFailsKeeps ==
  ASSUME SuperInv, NEW c \in Clients, UNCHANGED bound, WakeFails(c)
  PROVE  SuperInv'
<1> DEFINE p == task[c].child
<1>0. /\ task[c].pc = "spawn" /\ SpawnFails(p) /\ task' = [task EXCEPT ![c] = NoTask]
      /\ UNCHANGED <<mon, k8s, happened>>
  BY DEF WakeFails, Gone
<1>1. /\ p \in Pids /\ proc[p].st # "none"
  BY <1>0 DEF SuperInv, ChildrenKnown
<1>2. ~bound.k8s
  BY <1>1 DEF SuperInv, LockHeld
<1>3. /\ ProcsRun /\ DOMAIN proc' = Pids /\ \A q \in Pids : {"st", "tail"} \subseteq DOMAIN proc'[q]
      /\ proc'[p].st \in {"clean", "unclean"}
      /\ lock' = Open /\ {"phase", "pid", "gen", "active"} \subseteq DOMAIN slot'
      /\ slot'.phase = "failed" /\ slot'.gen = slot.gen
  BY <1>0, <1>1, SpawnFailsFacts
<1>4. /\ \A d \in Clients : d # c => task[d].pc \notin {"probe", "spawn", "poll"}
      /\ \A m \in Pids : mon[m].pc # "spawn"
      /\ k8s.pc # "patch"
  BY <1>0, Locked
<1>5. /\ DOMAIN task' = Clients
      /\ \A d \in Clients : {"pc", "child", "backend", "rewoke"} \subseteq DOMAIN task'[d]
      /\ \A d \in Clients : task'[d].pc \notin {"probe", "spawn", "poll"}
  BY <1>0, <1>4 DEF SuperInv, SuperShapes, NoTask
<1>6. Untroubled => slot.pid = p
  BY <1>0 DEF SuperInv, SlotTells
<1> HIDE DEF p
<1>8. SuperShapes'
  BY <1>0, <1>3, <1>5 DEF SuperInv, SuperShapes
<1>9. LockHeld'
  BY <1>0, <1>2, <1>3, <1>4, <1>5 DEF LockHeld
<1>10. ChildrenKnown'
  <2>1. \A m \in Pids : mon'[m].pc # "none" => proc'[m].st # "none"
    BY <1>0, <1>3 DEF SuperInv, ChildrenKnown, ProcsRun
  <2>2. \A m \in Pids : Watches(m)' => mon'[m].child \in Pids /\ proc'[mon'[m].child].st # "none"
    BY <1>0, <1>3 DEF SuperInv, ChildrenKnown, Watches, ProcsRun
  <2>3. \A m \in Pids : mon'[m].pc = "settle" => proc'[mon'[m].child].st \in {"clean", "unclean"}
    BY <1>0, <1>3, Zenon DEF SuperInv, ChildrenKnown, Exited, ProcsRun, Watches
  <2> QED BY <1>0, <1>3, <1>4, <1>5, <2>1, <2>2, <2>3 DEF ChildrenKnown, Exited
<1>11. ComputesSupervised'
  <2> SUFFICES ASSUME NEW q \in Pids, Live(q)'
               PROVE  \E m \in Pids : mon'[m].pc \in {"wait", "spawn", "term"} /\ mon'[m].child = q
    BY DEF ComputesSupervised
  <2>1. Live(q) /\ q # p
    BY <1>3, Zenon DEF Live, ProcsRun
  <2> QED BY <1>0, <1>4, <2>1 DEF SuperInv, ComputesSupervised, p
<1>12. SlotTells'
  <2> SUFFICES ASSUME Untroubled' PROVE \A q \in Pids : ~Working(q)'
    BY <1>0, <1>4, <1>5, Zenon DEF SlotTells, Working
  <2> SUFFICES ASSUME NEW q \in Pids, Working(q)' PROVE FALSE
    OBVIOUS
  <2>1. Working(q) /\ q # p
    BY <1>3, Zenon DEF Working, ProcsRun
  <2> QED BY <1>0, <1>6, <2>1, Zenon DEF SuperInv, SlotTells, Untroubled
<1> QED BY <1>8, <1>9, <1>10, <1>11, <1>12 DEF SuperInv

\* A restart that fails leaves no process behind (monitor_compute).
LEMMA MonitorRestartFailsKeeps ==
  ASSUME SuperInv, NEW w \in Pids, UNCHANGED bound, MonitorRestartFails(w)
  PROVE  SuperInv'
<1> DEFINE p == mon[w].child
<1>0. /\ mon[w].pc = "spawn" /\ SpawnFails(p) /\ mon' = [mon EXCEPT ![w].pc = "backoff"]
      /\ UNCHANGED <<task, k8s, happened>>
  BY DEF MonitorRestartFails
<1>1. p \in Pids /\ proc[p].st # "none"
  BY <1>0 DEF SuperInv, ChildrenKnown, Watches
<1>2. ~bound.k8s
  BY <1>1 DEF SuperInv, LockHeld
<1>3. /\ ProcsRun /\ DOMAIN proc' = Pids /\ \A q \in Pids : {"st", "tail"} \subseteq DOMAIN proc'[q]
      /\ proc'[p].st \in {"clean", "unclean"}
      /\ lock' = Open /\ {"phase", "pid", "gen", "active"} \subseteq DOMAIN slot'
      /\ slot'.phase = "failed" /\ slot'.gen = slot.gen
  BY <1>0, <1>1, SpawnFailsFacts
<1>4. lock = Monitor(w)
  BY <1>0 DEF SuperInv, LockHeld
<1>5. /\ \A d \in Clients : task[d].pc \notin {"probe", "spawn", "poll"}
      /\ \A m \in Pids : m # w => mon[m].pc # "spawn"
      /\ k8s.pc # "patch"
  BY <1>4, Holders DEF SuperInv, LockHeld
<1>6. /\ DOMAIN mon' = Pids /\ mon'[w].pc = "backoff" /\ mon'[w].gen = mon[w].gen
      /\ {"pc", "child", "gen", "attempts"} \subseteq DOMAIN mon'[w]
      /\ \A m \in Pids : m # w => mon'[m] = mon[m]
  BY <1>0 DEF SuperInv, SuperShapes
<1>7. \A m \in Pids : mon'[m].pc # "spawn"
  BY <1>5, <1>6
<1>77. Untroubled => slot.pid = p
  BY <1>0 DEF SuperInv, SlotTells
<1> HIDE DEF p
<1>8. SuperShapes'
  BY <1>0, <1>3, <1>6 DEF SuperInv, SuperShapes
<1>9. LockHeld'
  BY <1>0, <1>2, <1>3, <1>5, <1>7 DEF LockHeld
<1>10. ChildrenKnown'
  <2>1. \A m \in Pids : mon'[m].pc # "none" => proc'[m].st # "none"
    BY <1>0, <1>3, <1>6 DEF SuperInv, ChildrenKnown, ProcsRun
  <2>2. \A m \in Pids : Watches(m)' => mon'[m].child \in Pids /\ proc'[mon'[m].child].st # "none"
    BY <1>0, <1>3, <1>6 DEF SuperInv, ChildrenKnown, Watches, ProcsRun
  <2>3. \A m \in Pids : mon'[m].pc = "settle" => proc'[mon'[m].child].st \in {"clean", "unclean"}
    BY <1>0, <1>3, <1>6 DEF SuperInv, ChildrenKnown, Exited, ProcsRun, Watches
  <2> QED BY <1>0, <1>3, <1>5, <1>7, <2>1, <2>2, <2>3 DEF ChildrenKnown, Exited
<1>11. ComputesSupervised'
  <2> SUFFICES ASSUME NEW q \in Pids, Live(q)'
               PROVE  \E m \in Pids : mon'[m].pc \in {"wait", "spawn", "term"} /\ mon'[m].child = q
    BY DEF ComputesSupervised
  <2>1. Live(q) /\ q # p
    BY <1>3 DEF Live, ProcsRun
  <2>2. PICK m \in Pids : mon[m].pc \in {"wait", "spawn", "term"} /\ mon[m].child = q
    BY <1>5, <2>1 DEF SuperInv, ComputesSupervised
  <2>3. m # w
    BY <2>1, <2>2 DEF p
  <2> QED BY <1>6, <2>2, <2>3
<1>12. SlotTells'
  <2> SUFFICES ASSUME Untroubled' PROVE \A q \in Pids : ~Working(q)'
    BY <1>0, <1>5, <1>7 DEF SlotTells, Working
  <2> SUFFICES ASSUME NEW q \in Pids, Working(q)' PROVE FALSE
    OBVIOUS
  <2>1. Working(q) /\ q # p
    BY <1>3 DEF Working, ProcsRun
  <2> QED BY <1>0, <1>77, <2>1 DEF SuperInv, SlotTells, Untroubled
<1> QED BY <1>8, <1>9, <1>10, <1>11, <1>12 DEF SuperInv

-----------------------------------------------------------------------------
(* The theorems.                                                           *)

\* SuperInv holds at the start.
LEMMA SuperStarts ==
  ASSUME SuperInit
  PROVE  SuperInv
<1>1. /\ DOMAIN proc = Pids
      /\ \A p \in Pids : {"st", "tail"} \subseteq DOMAIN proc[p] /\ proc[p].st = "none"
  BY DEF SuperInit
<1>2. /\ DOMAIN task = Clients
      /\ \A c \in Clients : {"pc", "child", "backend", "rewoke"} \subseteq DOMAIN task[c] /\ task[c].pc = "idle"
  BY DEF SuperInit, NoTask
<1>3. /\ DOMAIN mon = Pids
      /\ \A m \in Pids : /\ {"pc", "child", "gen", "attempts"} \subseteq DOMAIN mon[m]
                         /\ mon[m].pc = "none" /\ mon[m].gen = 0
  BY DEF SuperInit, NoMonitor
<1>4. /\ {"phase", "pid", "gen", "active"} \subseteq DOMAIN slot /\ slot.gen = 0 /\ slot.phase = "stopped"
      /\ {"replicas", "up", "pc", "led", "flip"} \subseteq DOMAIN k8s /\ k8s.pc = "idle"
  BY Zenon DEF SuperInit
<1>5. SuperShapes
  BY <1>1, <1>2, <1>3, <1>4 DEF SuperShapes
<1>6. LockHeld /\ ChildrenKnown
  BY <1>1, <1>2, <1>3, <1>4 DEF LockHeld, ChildrenKnown, Watches
<1>7. ComputesSupervised /\ SlotTells
  BY <1>1, <1>2, <1>3 DEF ComputesSupervised, SlotTells, Live, Working
<1> QED BY <1>5, <1>6, <1>7 DEF SuperInv

\* Every step of a monitor keeps SuperInv.
LEMMA MonitoredKeeps ==
  ASSUME SuperInv, NEW m \in Pids, UNCHANGED bound, Monitored(m)
  PROVE  SuperInv'
<1>1. CASE MonitorReaps(m)
  BY <1>1, MonitorReapsKeeps
<1>2. CASE MonitorBacksOff(m)
  BY <1>2, MonitorBacksOffKeeps
<1>3. CASE MonitorDemoted(m) \/ MonitorRespawns(m)
  BY <1>3, MonitorRespawnsKeeps
<1>4. CASE MonitorRestarted(m)
  BY <1>4, MonitorRestartedKeeps
<1>5. CASE MonitorRestartFails(m)
  BY <1>5, MonitorRestartFailsKeeps
<1>6. CASE MonitorTerminates(m)
  BY <1>6, MonitorTerminatesKeeps
<1>7. CASE MonitorTerminated(m)
  BY <1>7, MonitorTerminatedKeeps
<1>8. CASE \E healthy \in BOOLEAN : MonitorSettles(m, healthy)
  <2>1. PICK healthy \in BOOLEAN : MonitorSettles(m, healthy)
    BY <1>8
  <2> QED BY <2>1, MonitorSettlesKeeps
<1> QED BY <1>1, <1>2, <1>3, <1>4, <1>5, <1>6, <1>7, <1>8 DEF Monitored

\* Every step of a connection keeps SuperInv.
LEMMA HandledKeeps ==
  ASSUME SuperInv, NEW c \in Clients, UNCHANGED bound, Handled(c)
  PROVE  SuperInv'
<1>1. CASE EnsureRunning(c)
  BY <1>1, EnsureRunningKeeps
<1>2. CASE FastPath(c)
  BY <1>2, FastPathKeeps
<1>3. CASE Wake(c)
  BY <1>3, WakeKeeps
<1>4. CASE Woken(c)
  BY <1>4, WokenKeeps
<1>5. CASE WakeFails(c)
  BY <1>5, WakeFailsKeeps
<1>6. CASE HandOut(c) \/ Dial(c)
  BY <1>6, ClientRuns
<1>7. CASE WakeRemote(c)
  BY <1>7, WakeRemoteKeeps
<1>8. CASE RemoteReady(c) \/ RemoteTimesOut(c)
  BY <1>8, RemoteKeeps
<1> QED BY <1>1, <1>2, <1>3, <1>4, <1>5, <1>6, <1>7, <1>8 DEF Handled

\* Every step of the supervisor keeps SuperInv.
LEMMA SupervisesKeeps ==
  ASSUME SuperInv,
         \/ \E p \in Pids : Supervises(Process(p) \/ Probed(p))
         \/ \E p \in Pids : Supervises(Crash(p) \/ RivalFences(p) \/ AppendTail(p))
         \/ \E m \in Pids : Supervises(Monitored(m) \/ MonitorRefused(m))
         \/ \E c \in Clients : Supervises(HandleClient(c))
         \/ \E c \in Clients : Supervises(Handled(c) \/ WakeRefused(c))
         \/ \E c \in Clients : Supervises(SessionEnds(c))
         \/ Supervises(Background)
  PROVE  SuperInv'
<1>0. UNCHANGED bound
  BY DEF Supervises
<1>1. ASSUME NEW p \in Pids, Process(p) \/ Probed(p) \/ Crash(p) \/ RivalFences(p) \/ AppendTail(p)
      PROVE  SuperInv'
  BY <1>0, <1>1, ProcessKeeps, ProbedKeeps DEF Process
<1>2. ASSUME NEW m \in Pids, Monitored(m) \/ MonitorRefused(m) PROVE SuperInv'
  BY <1>0, <1>2, MonitoredKeeps, MonitorRefusedKeeps
<1>3. ASSUME NEW c \in Clients, HandleClient(c) \/ SessionEnds(c) PROVE SuperInv'
  BY <1>0, <1>3, ClientRuns
<1>4. ASSUME NEW c \in Clients, Handled(c) \/ WakeRefused(c) PROVE SuperInv'
  BY <1>0, <1>4, HandledKeeps, WakeRefusedKeeps
<1>5. ASSUME Background PROVE SuperInv'
  BY <1>0, <1>5, LoopsKeep, ParkKeeps DEF Background
<1> QED BY <1>0, <1>1, <1>2, <1>3, <1>4, <1>5 DEF Supervises

\* SuperInv is inductive.
LEMMA SuperStep == SuperInv /\ [Next]_vars => SuperInv'
<1> SUFFICES ASSUME SuperInv, [Next]_vars PROVE SuperInv'
  OBVIOUS
<1>1. CASE \/ \E p \in Pids : Supervises(Process(p) \/ Probed(p))
           \/ \E p \in Pids : Supervises(Crash(p) \/ RivalFences(p) \/ AppendTail(p))
           \/ \E m \in Pids : Supervises(Monitored(m) \/ MonitorRefused(m))
           \/ \E c \in Clients : Supervises(HandleClient(c))
           \/ \E c \in Clients : Supervises(Handled(c) \/ WakeRefused(c))
           \/ \E c \in Clients : Supervises(SessionEnds(c))
           \/ Supervises(Background)
  BY <1>1, SupervisesKeeps
<1>2. CASE (\E i \in Instances : Leases(LeaseStep(i))) \/ Leases(Outage) \/ Leases(Tick)
  <2>1. Watched /\ UNCHANGED bound
    BY <1>2 DEF Leases
  <2> QED BY <2>1, LoopsKeep
<1>3. CASE UNCHANGED vars
  <2>1. UNCHANGED bound /\ UNCHANGED superVars
    BY <1>3 DEF vars
  <2> QED BY <2>1, LoopsKeep
<1> QED BY <1>1, <1>2, <1>3 DEF Next

\* Whatever the interleaving of connections, monitors, health watches and demotions of
\* icegresd.rs, no live compute is left without the task that spawns it or a monitor.
THEOREM EveryComputeSupervised == Spec => []ComputesSupervised
<1>1. SuperInv => ComputesSupervised
  BY DEF SuperInv
<1>2. Init => SuperInv
  BY SuperStarts DEF Init
<1> QED BY SuperStep, <1>1, <1>2, PTL DEF Spec

\* However many clients connect, restarts race re-wakes and leadership comes and goes,
\* the spawn lock of icegresd.rs and the phase it guards keep computes from running
\* beside each other, but for the two races the code leaves open.
THEOREM ComputesNeverOverlap == Spec => []OneCompute
<1>1. SuperInv => OneCompute
  BY DEF SuperInv, SlotTells, Working, OneCompute
<1>2. Init => SuperInv
  BY SuperStarts DEF Init
<1> QED BY SuperStep, <1>1, <1>2, PTL DEF Spec

\* Supervising computes, proxying to them and scaling them leaves the lease protocol of
\* lease.rs alone: what holds of the lease loops holds of icegresd.
LEMMA LeaseUntouched == Spec => LeaseSpec
<1>1. Init => LeaseInit
  BY DEF Init
<1>2. [Next]_vars => [LeaseNext]_<<bound, leaseVars>>
  <2> SUFFICES ASSUME [Next]_vars PROVE LeaseNext \/ UNCHANGED <<bound, leaseVars>>
    OBVIOUS
  <2>1. CASE (\E i \in Instances : Leases(LeaseStep(i))) \/ Leases(Outage) \/ Leases(Tick)
    BY <2>1 DEF Leases, LeaseNext
  <2>2. CASE UNCHANGED bound /\ UNCHANGED leaseVars
    BY <2>2
  <2>3. \/ (\E i \in Instances : Leases(LeaseStep(i))) \/ Leases(Outage) \/ Leases(Tick)
        \/ UNCHANGED bound /\ UNCHANGED leaseVars
    BY DEF Next, Supervises, vars
  <2> QED BY <2>1, <2>2, <2>3
<1> QED BY <1>1, <1>2, PTL DEF Spec, LeaseSpec

\* So two instances of icegresd that supervise, proxy and scale their computes answer
\* clients beside each other no longer than lease.rs alone lets them.
THEOREM InstancesOverlapBounded == Spec => []OverlapBounded
BY LeaseUntouched, LeadershipOverlapBounded, PTL
=============================================================================
