------------------------------ MODULE Supervisor ------------------------------
(* One icegresd instance and its main compute (src/icegres/src/bin/icegresd.rs),
   the compute's accept loop (src/icegres/src/ops.rs), and the scaled workload that
   takes the compute's place in Kubernetes (src/icegres/src/k8s.rs).

   Tasks interleave at their await points: a client's ensure_running and splice,
   the monitor of every spawn, the health watch of every generation, the pool
   refills and the idle loops.  They share the slot's state, its generation, and
   the spawn lock.  Time is left to the scheduler, except that a window which the
   code measures (idle, led) is a flag that rises once nothing resets it. *)
EXTENDS Lease, Sequences

CONSTANTS
    Clients,               \* client connections
    Pids,                  \* compute processes, numbered in the order of their spawns
    RESTART_MAX_ATTEMPTS,  \* supervised restarts of one crash episode
    HEALTH_MAX_FAILS       \* failed probes that condemn a compute

ASSUME PidsAssumption == Pids \subseteq Nat \ {0}

VARIABLES
    proc,      \* pid -> the compute process
    slot,      \* phase, pid, generation and active sessions of the main slot
    lock,      \* holder of the slot's spawn lock
    task,      \* client -> its handle_client
    mon,       \* pid -> the monitor started for it
    hw,        \* pid -> the health watch started for it
    pool,      \* warm connections, whether the idle window has passed
    warm,      \* refill -> its warm_pool
    k8s,       \* replicas and readiness of the workload, the idle-park loop
    spent,     \* faults injected so far
    happened   \* history: the races the code leaves open that occurred

superVars == <<proc, slot, lock, task, mon, hw, pool, warm, k8s, spent, happened>>

Self == 1
Refills == {1, 2}
None == 0

Open == <<"nobody", 0>>
Client(c) == <<"client", c>>
Monitor(m) == <<"monitor", m>>
Parker == <<"parker", 0>>

NoTask == [pc |-> "idle", child |-> None, backend |-> None, rewoke |-> FALSE]
Unwatched == [on |-> FALSE, gen |-> 0, fails |-> 0, probing |-> FALSE]
NoMonitor == [pc |-> "none", child |-> None, gen |-> 0, attempts |-> 0]

\* A stopped endpoint; in Kubernetes the workload may be up although this instance
\* never proxied to it (a restart of icegresd).
SuperInit ==
    /\ proc = [p \in Pids |-> [st |-> "none", tail |-> "own"]]
    /\ slot = [phase |-> "stopped", pid |-> None, gen |-> 0, active |-> 0]
    /\ lock = Open
    /\ task = [c \in Clients |-> NoTask]
    /\ mon = [p \in Pids |-> NoMonitor]
    /\ hw = [p \in Pids |-> Unwatched]
    /\ pool = [conns |-> <<>>, idle |-> FALSE]
    /\ warm = [w \in Refills |-> [pc |-> "idle", gen |-> 0]]
    /\ k8s = [replicas |-> IF bound.up THEN 1 ELSE 0, up |-> bound.up, pc |-> "idle", led |-> FALSE,
              flip |-> FALSE]
    /\ spent = [connects |-> 0, faults |-> 0, slow |-> 0]
    /\ happened = {}

-----------------------------------------------------------------------------
(* The compute process. *)

Live(p) == proc[p].st \in {"booting", "opened", "serving", "draining", "closing"}
Accepts(p) == proc[p].st \in {"serving", "draining"}
Exited(p) == proc[p].st \in {"clean", "unclean"}

\* tcp_ready on the port of the main slot: whichever process listens there answers.
Ready == IF bound.k8s THEN k8s.up ELSE \E p \in Pids : Accepts(p)

Set(p, st) ==
    [proc EXCEPT ![p] = [st |-> st, tail |-> IF st \in {"clean", "unclean"} THEN "own" ELSE @.tail]]

\* Opening the quorum tail is an election, whose history the acceptors adopt: every
\* other writer is fenced.  It learns so on its next append.
OpenTail(p) ==
    /\ proc[p].st = "booting"
    /\ proc' = [q \in Pids |->
                  IF q = p THEN [st |-> "opened", tail |-> "own"]
                  ELSE [proc[q] EXCEPT !.tail = IF Live(q) /\ @ # "poisoned" THEN "fenced" ELSE @]]
    /\ UNCHANGED <<slot, lock, task, mon, hw, pool, warm, k8s, spent, happened>>

\* serve_custom binds its listener last; the port may be taken.
Bind(p) ==
    /\ proc[p].st = "opened"
    /\ proc' = Set(p, IF \E q \in Pids : Accepts(q) THEN "unclean" ELSE "serving")
    /\ UNCHANGED <<slot, lock, task, mon, hw, pool, warm, k8s, spent, happened>>

Sessions(p) ==
    \/ \E c \in Clients : task[c].backend = p
    \/ \E i \in DOMAIN pool.conns : pool.conns[i].pid = p

\* The idle watchdog ends the accept loop: the listener closes, then the process
\* exits with code 0.
IdleExit(p) ==
    /\ proc[p].st = "serving" /\ ~Sessions(p)
    /\ proc' = Set(p, "closing")
    /\ UNCHANGED <<slot, lock, task, mon, hw, pool, warm, k8s, spent, happened>>

\* The process that closed after idling is gone.
Exits(p) ==
    /\ proc[p].st = "closing"
    /\ proc' = Set(p, "clean")
    /\ UNCHANGED <<slot, lock, task, mon, hw, pool, warm, k8s, spent, happened>>

\* drain_connections waits for the sessions, but not for ever; the buffer is flushed.
Drains(p) ==
    /\ proc[p].st = "draining"
    /\ proc' = Set(p, "clean")
    /\ UNCHANGED <<slot, lock, task, mon, hw, pool, warm, k8s, spent, happened>>

Fault == spent.faults < bound.faults /\ spent' = [spent EXCEPT !.faults = @ + 1]

Crash(p) ==
    /\ Live(p) /\ Fault
    /\ proc' = Set(p, "unclean")
    /\ UNCHANGED <<slot, lock, task, mon, hw, pool, warm, k8s, happened>>

\* The writer of another instance takes the data tail over, or only collects votes
\* for a term it never leads.
RivalFences(p) ==
    /\ proc[p].st = "serving" /\ proc[p].tail \in {"own", "voted"} /\ Fault
    /\ \E tail \in {"fenced", "voted"} \ {proc[p].tail} : proc' = [proc EXCEPT ![p].tail = tail]
    /\ UNCHANGED <<slot, lock, task, mon, hw, pool, warm, k8s, happened>>

\* A session appends.  A fenced proposer campaigns again: it owns the log as before
\* where nobody led the newer term, else it is superseded for good.  Without a quorum
\* the append times out, or the campaigns are used up.
AppendTail(p) ==
    /\ Accepts(p) /\ \E c \in Clients : task[c].backend = p
    /\ \/ /\ proc[p].tail = "fenced"
          /\ proc' = [proc EXCEPT ![p].tail = "poisoned"] /\ UNCHANGED spent
       \/ /\ proc[p].tail = "voted"
          /\ proc' = [proc EXCEPT ![p].tail = "own"] /\ UNCHANGED spent
       \/ /\ proc[p].tail # "poisoned" /\ Fault
          /\ proc' = [proc EXCEPT ![p].tail = "poisoned"]
    /\ UNCHANGED <<slot, lock, task, mon, hw, pool, warm, k8s, happened>>

-----------------------------------------------------------------------------
(* spawn_compute, by the holder of the spawn lock. *)

Unborn == {p \in Pids : p <= bound.pids /\ proc[p].st = "none"}
NewPid == Min(Unborn)

Spawn(holder) ==
    /\ Unborn # {}
    /\ proc' = Set(NewPid, "booting")
    /\ slot' = [slot EXCEPT !.phase = "starting", !.pid = NewPid]
    /\ lock' = holder

\* No process can be started: the slot is left as it was.
SpawnRefused ==
    /\ leader[Self] /\ ~bound.k8s /\ Fault
    /\ lock' = Open

\* Something accepts on the port: the generation moves on and the health watch starts.
SpawnReady(p) ==
    /\ Ready
    /\ slot' = [slot EXCEPT !.phase = "running", !.gen = @ + 1]
    /\ hw' = [hw EXCEPT ![p] = IF bound.health THEN [Unwatched EXCEPT !.on = TRUE, !.gen = slot.gen + 1]
                                  ELSE Unwatched]
    /\ lock' = Open

fail_slot == [slot EXCEPT !.phase = "failed", !.pid = None]

\* The child exited during startup, or it is killed at the wake timeout.
SpawnFails(p) ==
    /\ \/ Exited(p) /\ UNCHANGED <<proc, spent>>
       \/ ~Ready /\ Live(p) /\ Fault /\ proc' = Set(p, "unclean")
    /\ slot' = fail_slot
    /\ lock' = Open

-----------------------------------------------------------------------------
(* handle_client. *)

Goto(c, pc) == task' = [task EXCEPT ![c].pc = pc]
Gone(c) == task' = [task EXCEPT ![c] = NoTask]

\* A client arrives (the first one that is away: they are interchangeable); a standby
\* refuses it.
HandleClient(c) ==
    /\ task[c].pc = "idle" /\ \A d \in Clients : d < c => task[d].pc # "idle"
    /\ leader[Self]
    /\ spent.connects < bound.connects
    /\ spent' = [spent EXCEPT !.connects = @ + 1]
    /\ Goto(c, "locking")
    /\ UNCHANGED <<proc, slot, lock, mon, hw, pool, warm, k8s, happened>>

\* ensure_running without the spawn lock.
EnsureRunning_NoLock(c) ==
    /\ task[c].pc = "locking"
    /\ \/ ~leader[Self] /\ Gone(c) /\ UNCHANGED <<proc, slot, lock>>
       \/ /\ leader[Self] /\ slot.phase = "running"
          /\ lock' = Client(c) /\ Goto(c, "probe") /\ UNCHANGED <<proc, slot>>
       \/ /\ leader[Self] /\ slot.phase # "running"
          /\ Spawn(Client(c))
          /\ task' = [task EXCEPT ![c].pc = "spawn", ![c].child = NewPid]
    /\ UNCHANGED <<mon, hw, pool, warm, k8s, spent, happened>>

\* ensure_running takes the lock, checks leadership again and reads the phase.
EnsureRunning(c) ==
    /\ task[c].pc = "locking" /\ lock = Open
    /\ \/ /\ ~leader[Self]
          /\ Gone(c) /\ UNCHANGED <<proc, slot, lock>>
       \/ /\ leader[Self] /\ (slot.phase = "running" \/ bound.k8s)
          /\ lock' = Client(c) /\ Goto(c, "probe") /\ UNCHANGED <<proc, slot>>
       \/ /\ leader[Self] /\ slot.phase # "running" /\ ~bound.k8s
          /\ Spawn(Client(c))
          /\ task' = [task EXCEPT ![c].pc = "spawn", ![c].child = NewPid]
    /\ UNCHANGED <<mon, hw, pool, warm, k8s, spent, happened>>

\* The compute is up: a client that had failed to dial it dials again.
Onward(c) == IF task[c].rewoke THEN "dial" ELSE "hand"

\* The fast path: the port accepts.
FastPath(c) ==
    /\ task[c].pc = "probe" /\ Ready
    /\ slot' = [slot EXCEPT !.phase = IF bound.k8s THEN "running" ELSE @]
    /\ lock' = Open /\ Goto(c, Onward(c))
    /\ UNCHANGED <<proc, mon, hw, pool, warm, k8s, spent, happened>>

\* The probe fails, be it because a live compute is slow to accept.
Wake(c) ==
    /\ task[c].pc = "probe" /\ ~bound.k8s
    /\ Ready => spent.slow < bound.slow
    /\ Spawn(Client(c))
    /\ task' = [task EXCEPT ![c].pc = "spawn", ![c].child = NewPid]
    /\ spent' = [spent EXCEPT !.slow = IF Ready THEN @ + 1 ELSE @]
    /\ happened' = happened \cup IF Ready THEN {"slow"} ELSE {}
    /\ UNCHANGED <<mon, hw, pool, warm, k8s>>

\* ... or there is no process to wait for.
WakeRefused(c) ==
    /\ \/ task[c].pc = "locking" /\ lock = Open /\ slot.phase # "running"
       \/ task[c].pc = "probe" /\ ~Ready
    /\ SpawnRefused
    /\ Gone(c)
    /\ UNCHANGED <<proc, slot, mon, hw, pool, warm, k8s, happened>>

\* A re-wake that leaves the child to the monitor which is backing off.
Woken_NoMonitor(c) ==
    /\ task[c].pc = "spawn" /\ SpawnReady(task[c].child)
    /\ mon' = IF \E m \in Pids : mon[m].pc = "respawn" THEN mon
              ELSE [mon EXCEPT ![task[c].child] =
                      [pc |-> "wait", child |-> task[c].child, gen |-> slot.gen + 1, attempts |-> 0]]
    /\ task' = [task EXCEPT ![c].pc = Onward(c), ![c].child = None]
    /\ UNCHANGED <<proc, pool, warm, k8s, spent, happened>>

\* The spawn succeeds; a monitor is started for the child.
Woken(c) ==
    /\ task[c].pc = "spawn" /\ SpawnReady(task[c].child)
    /\ mon' = [mon EXCEPT ![task[c].child] =
                 [pc |-> "wait", child |-> task[c].child, gen |-> slot.gen + 1, attempts |-> 0]]
    /\ task' = [task EXCEPT ![c].pc = Onward(c), ![c].child = None]
    /\ UNCHANGED <<proc, pool, warm, k8s, spent, happened>>

WakeFails(c) ==
    /\ task[c].pc = "spawn" /\ SpawnFails(task[c].child)
    /\ Gone(c)
    /\ UNCHANGED <<mon, hw, pool, warm, k8s, happened>>

\* take_warm: the first live connection of the current generation.
TakeWarm ==
    LET Usable(w) == w.gen = slot.gen /\ Live(w.pid)
        at == {i \in DOMAIN pool.conns : Usable(pool.conns[i])}
    IN IF slot.phase # "running" \/ pool.conns = <<>> THEN [got |-> None, rest |-> pool.conns]
       ELSE IF at = {} THEN [got |-> None, rest |-> <<>>]
       ELSE LET i == Min(at) IN [got |-> pool.conns[i].pid,
                                 rest |-> SubSeq(pool.conns, i + 1, Len(pool.conns))]

\* A refill is queued unless enough of them are.
Refilled ==
    IF bound.pool = 0 \/ \A w \in Refills : warm[w].pc # "idle" THEN warm
    ELSE [warm EXCEPT ![Min({w \in Refills : warm[w].pc = "idle"})].pc = "queued"]

\* Hand out a warm connection, or dial: the pool is dry, or the client is not the
\* identity it was warmed for.
HandOut(c) ==
    /\ task[c].pc = "hand"
    /\ warm' = Refilled
    /\ \E take \in {TakeWarm, [got |-> None, rest |-> pool.conns]} :
          /\ pool' = [conns |-> take.rest, idle |-> FALSE]
          /\ IF take.got = None
             THEN Goto(c, "dial") /\ UNCHANGED slot
             ELSE /\ task' = [task EXCEPT ![c].pc = "spliced", ![c].backend = take.got]
                  /\ slot' = [slot EXCEPT !.active = @ + 1]
    /\ UNCHANGED <<proc, lock, mon, hw, k8s, spent, happened>>

\* A failed dial wakes the compute once more.
Dial(c) ==
    /\ task[c].pc = "dial"
    /\ \/ /\ bound.k8s /\ k8s.up
          /\ Goto(c, "spliced") /\ slot' = [slot EXCEPT !.active = @ + 1]
       \/ \E p \in Pids :
             /\ ~bound.k8s /\ Accepts(p)
             /\ task' = [task EXCEPT ![c].pc = "spliced", ![c].backend = p]
             /\ slot' = [slot EXCEPT !.active = @ + 1]
       \/ /\ ~Ready
          /\ task' = [task EXCEPT ![c] = IF @.rewoke THEN NoTask
                                         ELSE [NoTask EXCEPT !.pc = "locking", !.rewoke = TRUE]]
          /\ UNCHANGED slot
    /\ UNCHANGED <<proc, lock, mon, hw, pool, warm, k8s, spent, happened>>

\* The session ends; its backend connection is never pooled again.
SessionEnds(c) ==
    /\ task[c].pc = "spliced"
    /\ Gone(c)
    /\ slot' = [slot EXCEPT !.active = @ - 1]
    /\ pool' = [pool EXCEPT !.idle = FALSE]
    /\ UNCHANGED <<proc, lock, mon, hw, warm, k8s, spent, happened>>

-----------------------------------------------------------------------------
(* monitor_compute. *)

\* The child is gone: unless a newer spawn superseded it, every pooled connection is
\* dropped.
MonitorReaps(m) ==
    /\ mon[m].pc = "wait" /\ Exited(mon[m].child)
    /\ IF slot.gen # mon[m].gen
       THEN mon' = [mon EXCEPT ![m] = NoMonitor] /\ UNCHANGED pool
       ELSE mon' = [mon EXCEPT ![m].pc = "settle"] /\ pool' = [pool EXCEPT !.conns = <<>>]
    /\ UNCHANGED <<proc, slot, lock, task, hw, warm, k8s, spent, happened>>

\* The slot's state is written without a second look at the generation.
Overtaken(m) == IF slot.pid = mon[m].child THEN {} ELSE {"overtaken"}

\* A clean exit is scale to zero; any other opens a crash episode.
MonitorSettles(m, healthy) ==
    /\ mon[m].pc = "settle"
    /\ IF proc[mon[m].child].st = "clean"
       THEN /\ slot' = [slot EXCEPT !.phase = "stopped", !.pid = None]
            /\ mon' = [mon EXCEPT ![m] = NoMonitor]
       ELSE /\ slot' = [slot EXCEPT !.phase = "backoff", !.pid = None]
            /\ mon' = [mon EXCEPT ![m].pc = "backoff", ![m].attempts = IF healthy THEN 0 ELSE @]
    /\ happened' = happened \cup Overtaken(m)
    /\ UNCHANGED <<proc, lock, task, hw, pool, warm, k8s, spent>>

\* One more attempt, or the restart cap.
MonitorBacksOff(m) ==
    /\ mon[m].pc = "backoff"
    /\ IF mon[m].attempts >= RESTART_MAX_ATTEMPTS
       THEN /\ mon' = [mon EXCEPT ![m] = NoMonitor]
            /\ slot' = [slot EXCEPT !.phase = IF @ = "backoff" THEN "failed" ELSE @]
       ELSE /\ mon' = [mon EXCEPT ![m].pc = "respawn", ![m].attempts = @ + 1]
            /\ UNCHANGED slot
    /\ UNCHANGED <<proc, lock, task, hw, pool, warm, k8s, spent, happened>>

\* Lost leadership while backing off: nothing is respawned.
NotRespawned(m) ==
    /\ mon' = [mon EXCEPT ![m] = NoMonitor]
    /\ slot' = [slot EXCEPT !.phase = IF @ = "backoff" THEN "stopped" ELSE @]

MonitorDemoted(m) ==
    /\ mon[m].pc = "respawn" /\ ~leader[Self]
    /\ NotRespawned(m)
    /\ UNCHANGED <<proc, lock, task, hw, pool, warm, k8s, spent, happened>>

\* After the delay, under the lock: superseded, demoted, or a new spawn.
MonitorRespawns(m) ==
    /\ mon[m].pc = "respawn" /\ lock = Open
    /\ \/ /\ slot.gen # mon[m].gen
          /\ mon' = [mon EXCEPT ![m] = NoMonitor] /\ UNCHANGED <<proc, slot, lock>>
       \/ /\ slot.gen = mon[m].gen /\ ~leader[Self]
          /\ NotRespawned(m) /\ UNCHANGED <<proc, lock>>
       \/ /\ slot.gen = mon[m].gen /\ leader[Self]
          /\ Spawn(Monitor(m))
          /\ mon' = [mon EXCEPT ![m].pc = "spawn", ![m].child = NewPid]
    /\ UNCHANGED <<task, hw, pool, warm, k8s, spent, happened>>

MonitorRefused(m) ==
    /\ mon[m].pc = "respawn" /\ lock = Open /\ slot.gen = mon[m].gen
    /\ SpawnRefused
    /\ mon' = [mon EXCEPT ![m].pc = "backoff"]
    /\ UNCHANGED <<proc, slot, task, hw, pool, warm, k8s, happened>>

MonitorRestarted(m) ==
    /\ mon[m].pc = "spawn" /\ SpawnReady(mon[m].child)
    /\ mon' = [mon EXCEPT ![m].pc = "wait", ![m].gen = slot.gen + 1]
    /\ warm' = Refilled
    /\ UNCHANGED <<proc, task, pool, k8s, spent, happened>>

MonitorRestartFails(m) ==
    /\ mon[m].pc = "spawn" /\ SpawnFails(mon[m].child)
    /\ mon' = [mon EXCEPT ![m].pc = "backoff"]
    /\ UNCHANGED <<task, hw, pool, warm, k8s, happened>>

\* SIGTERM: the accept loop drains; a compute that still boots has no handler yet.
Signalled(st) ==
    CASE st \in {"booting", "opened"} -> "unclean"
      [] st = "serving" -> "draining"
      [] OTHER -> st

\* Lost leadership.
MonitorTerminates(m) ==
    /\ mon[m].pc = "wait" /\ ~leader[Self]
    /\ proc' = Set(mon[m].child, Signalled(proc[mon[m].child].st))
    /\ mon' = [mon EXCEPT ![m].pc = "term"]
    /\ UNCHANGED <<slot, lock, task, hw, pool, warm, k8s, spent, happened>>

\* The child exits within two seconds, or it is killed.
MonitorTerminated(m) ==
    /\ mon[m].pc = "term"
    /\ proc' = IF Exited(mon[m].child) THEN proc ELSE Set(mon[m].child, "unclean")
    /\ slot' = [slot EXCEPT !.phase = "stopped", !.pid = None]
    /\ mon' = [mon EXCEPT ![m] = NoMonitor]
    /\ happened' = happened \cup Overtaken(m)
    /\ UNCHANGED <<lock, task, hw, pool, warm, k8s, spent>>

-----------------------------------------------------------------------------
(* health_watch. *)

\* The health listener of a compute whose tail is poisoned answers 503.
Unavailable(p) == proc[p].tail = "poisoned"

\* A probe that only asks whether the port accepts.
Healthy_TcpOnly(p) == Accepts(p)

\* http_health: a 200 in time.
Healthy(p) == Accepts(p) /\ ~Unavailable(p)

\* Every interval: superseded, or gone, or one more probe.
HealthTick(p) ==
    /\ hw[p].on /\ ~hw[p].probing
    /\ hw' = [hw EXCEPT ![p] = IF slot.gen # hw[p].gen \/ slot.phase # "running" \/ slot.pid # p
                               THEN Unwatched ELSE [@ EXCEPT !.probing = TRUE]]
    /\ UNCHANGED <<proc, slot, lock, task, mon, pool, warm, k8s, spent, happened>>

\* The answer.  Before the kill only the generation is looked at again.
HealthAnswer(p) ==
    /\ hw[p].probing
    /\ LET fails == IF Healthy(p) THEN 0 ELSE hw[p].fails + 1
       IN IF fails < HEALTH_MAX_FAILS
          THEN /\ hw' = [hw EXCEPT ![p].fails = fails, ![p].probing = FALSE]
               /\ UNCHANGED proc
          ELSE /\ hw' = [hw EXCEPT ![p] = Unwatched]
               /\ proc' = IF slot.gen = hw[p].gen /\ Live(p) THEN Set(p, "unclean") ELSE proc
    /\ UNCHANGED <<slot, lock, task, mon, pool, warm, k8s, spent, happened>>

-----------------------------------------------------------------------------
(* The pool of warm connections, and the idle loops. *)

\* warm_pool: refills are serialised by the warm lock.
WarmStart(w) ==
    /\ warm[w].pc = "queued"
    /\ \A v \in Refills : warm[v].pc \notin {"loop", "shake"}
    /\ warm' = [warm EXCEPT ![w].pc = "loop"]
    /\ UNCHANGED <<proc, slot, lock, task, mon, hw, pool, k8s, spent, happened>>

\* One turn of the refill loop: stop, or open one more connection.
WarmLoop(w) ==
    /\ warm[w].pc = "loop"
    /\ LET stop == \/ slot.phase # "running"
                   \/ slot.active = 0 /\ pool.idle
                   \/ Len(pool.conns) >= bound.pool
       IN warm' = [warm EXCEPT ![w] = IF stop THEN [pc |-> "idle", gen |-> 0]
                                      ELSE [pc |-> "shake", gen |-> slot.gen]]
    /\ UNCHANGED <<proc, slot, lock, task, mon, hw, pool, k8s, spent, happened>>

\* warm_one: whichever process listens on the port shakes hands.
WarmShake(w) ==
    /\ warm[w].pc = "shake"
    /\ \/ \E p \in Pids :
             /\ Accepts(p)
             /\ pool' = [pool EXCEPT !.conns = Append(@, [pid |-> p, gen |-> warm[w].gen])]
             /\ warm' = [warm EXCEPT ![w].pc = "loop"]
       \/ /\ ~Ready
          /\ warm' = [warm EXCEPT ![w] = [pc |-> "idle", gen |-> 0]]
          /\ UNCHANGED pool
    /\ UNCHANGED <<proc, slot, lock, task, mon, hw, k8s, spent, happened>>

\* The idle window passes without a client session (read where there is a pool or a
\* workload to park).
IdlePasses ==
    /\ bound.pool > 0 \/ bound.k8s
    /\ ~pool.idle /\ slot.active = 0
    /\ pool' = [pool EXCEPT !.idle = TRUE]
    /\ UNCHANGED <<proc, slot, lock, task, mon, hw, warm, k8s, spent, happened>>

\* pool_idle_drain_loop: warm connections would keep the compute awake.
PoolDrains ==
    /\ slot.active = 0 /\ pool.idle /\ pool.conns # <<>>
    /\ pool' = [pool EXCEPT !.conns = <<>>]
    /\ UNCHANGED <<proc, slot, lock, task, mon, hw, warm, k8s, spent, happened>>

-----------------------------------------------------------------------------
(* Kubernetes: ensure_remote, K8sScaler and k8s_idle_scale_loop. *)

\* The workload follows its replica count (external).
PodFollows ==
    /\ bound.k8s /\ k8s.up # (k8s.replicas > 0)
    /\ k8s' = [k8s EXCEPT !.up = ~@]
    /\ UNCHANGED <<proc, slot, lock, task, mon, hw, pool, warm, spent, happened>>

\* The scale subresource: GET, PATCH, and the wake that scales from 0 to 1 only.
Replicas == k8s.replicas
SetReplicas(n) == [k8s EXCEPT !.replicas = n]
ScaledUp == IF Replicas > 0 THEN k8s ELSE SetReplicas(1)

\* A refused PATCH is not fatal.
WakeRemote(c) ==
    /\ bound.k8s /\ task[c].pc = "probe" /\ ~Ready
    /\ \/ k8s' = ScaledUp /\ UNCHANGED spent
       \/ Fault /\ UNCHANGED k8s
    /\ slot' = [slot EXCEPT !.phase = "starting"]
    /\ Goto(c, "poll")
    /\ UNCHANGED <<proc, lock, mon, hw, pool, warm, happened>>

RemoteReady(c) ==
    /\ task[c].pc = "poll" /\ Ready
    /\ slot' = [slot EXCEPT !.phase = "running"]
    /\ lock' = Open /\ Goto(c, Onward(c))
    /\ UNCHANGED <<proc, mon, hw, pool, warm, k8s, spent, happened>>

RemoteTimesOut(c) ==
    /\ task[c].pc = "poll" /\ ~Ready
    /\ slot' = [slot EXCEPT !.phase = "stopped"]
    /\ lock' = Open /\ Gone(c)
    /\ UNCHANGED <<proc, mon, hw, pool, warm, k8s, spent, happened>>

\* One idle window has passed since the last takeover that was stamped.
LedPasses ==
    /\ bound.k8s /\ ~k8s.led
    /\ k8s' = [k8s EXCEPT !.led = TRUE]
    /\ UNCHANGED <<proc, slot, lock, task, mon, hw, pool, warm, spent, happened>>

\* The leadership watch task sees a flip, and stamps a takeover: the window restarts.
LeaderSince ==
    /\ k8s.flip
    /\ k8s' = [k8s EXCEPT !.flip = FALSE, !.led = @ /\ ~leader[Self]]
    /\ UNCHANGED <<proc, slot, lock, task, mon, hw, pool, warm, spent, happened>>

\* A park decision that trusts the phase alone.
ParkDecision_LocalOnly ==
    IF ~leader[Self] \/ slot.active # 0 \/ ~pool.idle \/ ~k8s.led THEN "skip"
    ELSE IF slot.phase = "running" THEN "park" ELSE "skip"

\* k8s_park_decision.
ParkDecision ==
    IF ~leader[Self] \/ slot.active # 0 \/ ~pool.idle \/ ~k8s.led THEN "skip"
    ELSE IF slot.phase = "running" THEN "park" ELSE "probe"

\* A tick of the loop that finds the spawn lock free.
ParkTick ==
    /\ bound.k8s /\ k8s.pc = "idle" /\ lock = Open
    /\ \/ ParkDecision = "park"
       \/ ParkDecision = "probe" /\ Replicas > 0
    /\ lock' = Parker
    /\ k8s' = [k8s EXCEPT !.pc = "patch"]
    /\ UNCHANGED <<proc, slot, task, mon, hw, pool, warm, spent, happened>>

\* The leadership is checked again, then the PATCH lands, or fails.
ParkPatch ==
    /\ k8s.pc = "patch"
    /\ \/ /\ leader[Self]
          /\ k8s' = [SetReplicas(0) EXCEPT !.pc = "idle"]
          /\ pool' = [pool EXCEPT !.conns = <<>>]
          /\ slot' = [slot EXCEPT !.phase = "stopped", !.pid = None]
          /\ UNCHANGED spent
       \/ /\ leader[Self] => Fault
          /\ ~leader[Self] => UNCHANGED spent
          /\ k8s' = [k8s EXCEPT !.pc = "idle"]
          /\ UNCHANGED <<pool, slot>>
    /\ lock' = Open
    /\ UNCHANGED <<proc, task, mon, hw, warm, happened>>
=============================================================================
