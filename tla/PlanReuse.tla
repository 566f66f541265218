----------------------------- MODULE PlanReuse -----------------------------
(***************************************************************************)
(* What a server keeps of a planned statement beside the plan cache, over  *)
(* the bounded-staleness reads of Freshness: the result cache of the       *)
(* pgwire hook (plancache.rs) and the one-shot plans of Flight SQL, which  *)
(* GetFlightInfo or CreatePreparedStatement pins for the DoGet that        *)
(* follows (flight.rs).                                                    *)
(*                                                                         *)
(* An entry of any of them is [version, baked]: the version it is          *)
(* validated by and the one its file list, or its rows, come from.         *)
(***************************************************************************)
EXTENDS Freshness

VARIABLES
  wire,     \* the protocol of this server's readers: "pg" or "flight"
  result,   \* the result cache's entry for the statement
  sink,     \* per reader: what its stream stores when it completes
  ticket    \* per reader: [phase, pin], the plan its DoGet may use

reuseVars == <<result, sink, ticket>>
allVars == <<vars, wire, reuseVars>>

NoTicket == [phase |-> "none", pin |-> NoPlan]

ReuseInit ==
  /\ Init
  /\ wire \in {"pg", "flight"}
  /\ result = NoPlan
  /\ sink = [r \in Readers |-> NoPlan]
  /\ ticket = [r \in Readers |-> NoTicket]

\* versions_current: the entry's version is the table's current one.
VersionsCurrent(entry) == entry # NoPlan /\ entry.version = CurrentVersion

\* PlanCache::lookup and ResultCache::lookup drop an entry that is not current.  (One
\* that other statements have evicted is a miss as well.)
Looked(entry) == IF VersionsCurrent(entry) THEN entry ELSE NoPlan

Serve(r, entry) ==
  Goto(r, [Resting EXCEPT !.since = acked, !.pc = "done", !.got = entry.baked])
PlanFrom(r) == Goto(r, [Resting EXCEPT !.since = acked, !.pc = "lookup"])

Takes(r) ==
  /\ loader[r].pc = "idle" /\ ticket[r].phase = "none" /\ readsLeft[r] > 0
  /\ readsLeft' = [readsLeft EXCEPT ![r] = @ - 1]

\* What may be kept of the plan reader r has made: the versions before and after
\* planning are the same.
Keepable(r) ==
  IF loader[r].before # None /\ loader[r].before = CurrentVersion
  THEN [version |-> loader[r].before, baked |-> loader[r].got] ELSE NoPlan

----------------------------------------------------------------------------
\* PlanCacheHook::run with the result cache.

PgStart(r) ==
  /\ wire = "pg" /\ Takes(r)
  /\ result' = Looked(result)
  /\ IF result' # NoPlan
     THEN Serve(r, result') /\ UNCHANGED <<plan, sink>>
     ELSE /\ plan' = Looked(plan)
          /\ sink' = [sink EXCEPT ![r] = plan']
          /\ IF plan' # NoPlan THEN Serve(r, plan') ELSE PlanFrom(r)
  /\ UNCHANGED <<catalogVars, providers, mountVars, faultsLeft, raced, ddlVars, wire, ticket>>

PgPlanned(r) ==
  /\ wire = "pg" /\ ReadPlanned(r)
  /\ sink' = [sink EXCEPT ![r] = Keepable(r)]
  /\ UNCHANGED <<wire, result, ticket>>

\* ResultCache::insert: what is not keyed by a table's version is not kept.
ResultInsert(entry) == result' = IF entry = NoPlan THEN result ELSE entry

\* CachingTee: the stream runs to its end and its rows are stored, or it fails, is
\* too large or is dropped by the client.
PgDone(r) ==
  /\ wire = "pg" /\ ReadDone(r)
  /\ ResultInsert(sink[r]) \/ UNCHANGED result
  /\ sink' = [sink EXCEPT ![r] = NoPlan]
  /\ UNCHANGED <<wire, ticket>>

----------------------------------------------------------------------------
\* Flight SQL: plan_for_schema, then take_stashed and physical_plan.

\* GetFlightInfo or CreatePreparedStatement: a cached plan is pinned as it is.
InfoStart(r) ==
  /\ wire = "flight" /\ Takes(r)
  /\ plan' = Looked(plan)
  /\ IF plan' # NoPlan
     THEN /\ ticket' = [ticket EXCEPT ![r] = [phase |-> "held", pin |-> plan']]
          /\ UNCHANGED loader
     ELSE /\ ticket' = [ticket EXCEPT ![r] = [phase |-> "info", pin |-> NoPlan]]
          /\ PlanFrom(r)
  /\ UNCHANGED <<catalogVars, providers, mountVars, faultsLeft, raced, ddlVars, wire, result, sink>>

\* A table that is not fresh is not planned for the schema's sake.
InfoIneligible(r) ==
  /\ ticket[r].phase = "info" /\ loader[r].pc = "analyze"
  /\ PlanCacheVersion(loader[r].prov) = None
  /\ Goto(r, Resting)
  /\ ticket' = [ticket EXCEPT ![r].phase = "held"]
  /\ UNCHANGED <<catalogVars, providers, mountVars, plan, readsLeft, faultsLeft, raced, ddlVars,
                 wire, result, sink>>

\* Mutant of InfoPlanned: the versions are only read after planning.
InfoPlanned_NoRecheck(r) ==
  /\ ticket[r].phase = "info" /\ loader[r].pc = "planned"
  /\ Goto(r, Resting)
  /\ LET kept == [version |-> CurrentVersion, baked |-> loader[r].got]
     IN /\ ticket' = [ticket EXCEPT ![r] = [phase |-> "held", pin |-> kept]]
        /\ plan' = IF CurrentVersion # None THEN kept ELSE plan
  /\ UNCHANGED <<catalogVars, providers, mountVars, readsLeft, faultsLeft, raced, ddlVars,
                 wire, result, sink>>

\* The plan is pinned for the DoGet and cached, if the versions did not change.
InfoPlanned(r) ==
  /\ ticket[r].phase = "info" /\ loader[r].pc = "planned"
  /\ Goto(r, Resting)
  /\ ticket' = [ticket EXCEPT ![r] = [phase |-> "held", pin |-> Keepable(r)]]
  /\ plan' = IF Keepable(r) # NoPlan THEN Keepable(r) ELSE plan
  /\ UNCHANGED <<catalogVars, providers, mountVars, readsLeft, faultsLeft, raced, ddlVars,
                 wire, result, sink>>

\* Planning failed: GetFlightInfo errors, CreatePreparedStatement goes on without.
InfoFails(r) ==
  /\ ticket[r].phase = "info" /\ loader[r].pc = "idle"
  /\ \E phase \in {"none", "held"} : ticket' = [ticket EXCEPT ![r].phase = phase]
  /\ UNCHANGED <<vars, wire, result, sink>>

\* STASH_TTL, or stash_plan evicting the oldest; a retried DoGet finds as little.
StashDrops(r) ==
  /\ ticket[r].pin # NoPlan
  /\ ticket' = [ticket EXCEPT ![r].pin = NoPlan]
  /\ UNCHANGED <<vars, wire, result, sink>>

\* Mutant of TakeIfValid: only the age of the stashed plan is checked.
TakeIfValid_TtlOnly(pin) == pin # NoPlan

\* take_if_valid: every table is at the version the plan was made for.
TakeIfValid(pin) == VersionsCurrent(pin)

\* The pinned plan is consumed, of use or not.
TakePin(r) == ticket' = [ticket EXCEPT ![r] = [phase |-> "get", pin |-> NoPlan]]

\* physical_plan: from the plan cache, or planned now (ReadLookup to ReadPlanned).
PhysicalPlan(r) ==
  /\ plan' = Looked(plan)
  /\ IF plan' # NoPlan THEN Serve(r, plan') ELSE PlanFrom(r)

\* DoGet, of a statement's ticket or of a prepared statement.
DoGet(r) ==
  /\ ticket[r].phase = "held" /\ loader[r].pc = "idle"
  /\ TakePin(r)
  /\ \/ TakeIfValid(ticket[r].pin) /\ Serve(r, ticket[r].pin) /\ UNCHANGED plan
     \/ ~TakeIfValid(ticket[r].pin) /\ PhysicalPlan(r)
  /\ UNCHANGED <<catalogVars, providers, mountVars, readsLeft, faultsLeft, raced, ddlVars,
                 wire, result, sink>>

\* The stream ended, or the statement failed.
FlightDone(r) ==
  /\ ticket[r].phase = "get" /\ loader[r].pc \in {"done", "idle"}
  /\ Goto(r, Resting)
  /\ ticket' = [ticket EXCEPT ![r] = NoTicket]
  /\ UNCHANGED <<catalogVars, providers, mountVars, plan, readsLeft, faultsLeft, raced, ddlVars,
                 wire, result, sink>>

----------------------------------------------------------------------------
\* The steps of Freshness that do not touch what is kept here.
Unkept(action) == action /\ UNCHANGED <<wire, reuseVars>>

ReuseNext ==
  \/ Unkept(WriterPlans) \/ Unkept(WriterCommits) \/ Unkept(WriterReturns)
  \/ Unkept(WriterRefused)
  \/ Unkept(ForeignCommit) \/ Unkept(DropUnmounts) \/ Unkept(DropFences) \/ Unkept(DropEnds)
  \/ \E r \in Readers :
       \/ PgStart(r) \/ PgPlanned(r) \/ PgDone(r)
       \/ InfoStart(r) \/ InfoIneligible(r) \/ InfoPlanned(r) \/ InfoFails(r)
       \/ StashDrops(r) \/ DoGet(r) \/ FlightDone(r)
       \/ Unkept(ticket[r].phase = "get" /\ ReadPlanned(r))
       \/ Unkept(ReadAnalyze(r) /\ (ticket[r].phase = "info" => loader'[r].before # None))
       \/ Unkept(ReadLookup(r)) \/ Unkept(ReadMount(r)) \/ Unkept(ReadCheck(r))
       \/ Unkept(ReadFast(r))
  \/ \E l \in Loaders : Unkept(Load(l) \/ LoadFails(l) \/ LoadAborted(l))
  \/ Unkept(RefresherPass \/ RefresherPrunes \/ RefresherDies \/ RefresherRespawned)

ReuseSpec == ReuseInit /\ [][ReuseNext]_allVars

----------------------------------------------------------------------------
\* A cached plan, a cached result and a pinned plan are never older than the
\* version they are validated by: what was planned between the two version checks
\* is at least that version, unless a race the code leaves open came in between
\* (PlanCacheHook::run, CachingTee::store, plan_for_schema).
ReusedNotOlder ==
  raced = {} =>
    \A entry \in {plan, result} \cup {ticket[r].pin : r \in Readers} :
      entry.baked >= entry.version
====
