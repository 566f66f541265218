----------------------------- MODULE ControlPlane -----------------------------
(* icegresd: the lease loops of all instances together with the supervisor of one
   of them, which follows its leadership watch. *)
EXTENDS Supervisor

vars == <<bound, leaseVars, superVars>>

Init == LeaseInit /\ SuperInit

\* The watch channel tells its tasks of a flip; the idle loop's is the one that keeps
\* what it read.
Watched ==
    /\ k8s' = IF bound.k8s /\ leader'[Self] # leader[Self] THEN [k8s EXCEPT !.flip = TRUE] ELSE k8s
    /\ UNCHANGED <<proc, slot, lock, task, mon, hw, pool, warm, spent, happened>>

Supervises(action) == action /\ UNCHANGED <<bound, leaseVars>>

\* Without --lease-quorum the instance leads for good.
Leases(action) == bound.lease /\ action /\ Watched /\ UNCHANGED bound

Process(p) ==
    \/ OpenTail(p) \/ Bind(p) \/ IdleExit(p) \/ Exits(p) \/ Drains(p)

Probed(p) == HealthTick(p) \/ HealthAnswer(p)

Monitored(m) ==
    \/ MonitorReaps(m) \/ MonitorBacksOff(m) \/ MonitorDemoted(m) \/ MonitorRespawns(m)
    \/ MonitorRestarted(m) \/ MonitorRestartFails(m) \/ MonitorTerminates(m)
    \/ MonitorTerminated(m) \/ \E healthy \in BOOLEAN : MonitorSettles(m, healthy)

Handled(c) ==
    \/ EnsureRunning(c) \/ FastPath(c) \/ Wake(c) \/ Woken(c) \/ WakeFails(c)
    \/ HandOut(c) \/ Dial(c) \/ WakeRemote(c) \/ RemoteReady(c) \/ RemoteTimesOut(c)

Background ==
    \/ \E w \in Refills : WarmStart(w) \/ WarmLoop(w) \/ WarmShake(w)
    \/ IdlePasses \/ PoolDrains \/ LedPasses \/ LeaderSince \/ ParkTick \/ ParkPatch \/ PodFollows

Next ==
    \/ \E p \in Pids : Supervises(Process(p) \/ Probed(p))
    \/ \E p \in Pids : Supervises(Crash(p) \/ RivalFences(p) \/ AppendTail(p))
    \/ \E m \in Pids : Supervises(Monitored(m) \/ MonitorRefused(m))
    \/ \E c \in Clients : Supervises(HandleClient(c))
    \/ \E c \in Clients : Supervises(Handled(c) \/ WakeRefused(c))
    \/ \E c \in Clients : Supervises(SessionEnds(c))
    \/ Supervises(Background)
    \/ \E i \in Instances : Leases(LeaseStep(i))
    \/ Leases(Outage)
    \/ Leases(Tick)

\* The runtime polls every task that is ready, and a compute with nothing to do runs
\* its idle watchdog.  Clients, faults and the lease are under no obligation.
Fairness ==
    /\ \A p \in Pids : WF_vars(Supervises(Process(p))) /\ WF_vars(Supervises(Probed(p)))
    /\ \A m \in Pids : WF_vars(Supervises(Monitored(m)))
    /\ \A c \in Clients : WF_vars(Supervises(Handled(c)))
    /\ \A w \in Refills : WF_vars(Supervises(WarmStart(w) \/ WarmLoop(w) \/ WarmShake(w)))
    /\ WF_vars(Supervises(IdlePasses \/ PoolDrains)) /\ WF_vars(Supervises(LedPasses \/ LeaderSince))
    /\ WF_vars(Supervises(ParkTick \/ ParkPatch)) /\ WF_vars(Supervises(PodFollows))

Spec == Init /\ [][Next]_vars /\ Fairness

-----------------------------------------------------------------------------
(* Properties. *)

\* The races the code leaves open: a live compute that was slow to accept, and a
\* monitor that wrote the slot's state over a newer spawn's.
Untroubled == happened = {}

\* Connections, restarts and re-wakes never run two computes beside each other
\* ("concurrent connections to a cold endpoint spawn exactly one process"): a second
\* one would fence the first on the data tail.
OneCompute ==
    LET Runs(p) == proc[p].st \in {"booting", "opened", "serving"}
    IN Untroubled => \A p, q \in Pids : Runs(p) /\ Runs(q) => p = q

\* "Every compute is a child process watched by a monitor task": whatever happens to
\* the slot, a live child belongs to the task that spawns it or to a monitor.
ComputesSupervised ==
    \A p \in Pids : Live(p) =>
        \/ \E c \in Clients : task[c].pc = "spawn" /\ task[c].child = p
        \/ \E m \in Pids : mon[m].pc \in {"wait", "spawn", "term"} /\ mon[m].child = p

Quiet == leader[Self] /\ \A c \in Clients : task[c].pc = "idle"
Parked == IF bound.k8s THEN k8s.replicas = 0 ELSE \A p \in Pids : ~Live(p)

\* Scale to zero: once no client is left, the warm pool drains and the compute, or
\* the workload, goes away; also one that this instance never proxied to.
ScalesToZero == Quiet ~> (Parked \/ ~Quiet)

\* health_watch: a compute whose tail is poisoned accepts connections and can never ack
\* again; it does not stay, whatever restarts, wakes and demotions come in between.
WedgedReplaced ==
    \A p \in Pids :
        (bound.health /\ proc[p].st = "serving" /\ proc[p].tail = "poisoned")
            ~> (~Live(p) \/ ~Untroubled)
=============================================================================
