----------------------------- MODULE Freshness -----------------------------
(***************************************************************************)
(* Bounded-staleness reads of one table (--freshness-ms > 0): the caching  *)
(* provider (cache.rs), its pair of generations and the background         *)
(* refresher (freshness.rs), and the plan cache that is validated through  *)
(* them (plancache.rs).                                                    *)
(*                                                                         *)
(* Every commit moves the metadata to a new location: a version is the     *)
(* number of commits so far.  A read resolves the table's provider, serves *)
(* the cached snapshot while the cache is fresh and loads from the catalog *)
(* otherwise; a local write invalidates the cache after its commit.        *)
(***************************************************************************)
EXTENDS Integers, Sequences

CONSTANTS
  Readers,       \* concurrent read statements
  Bounds,        \* the instances: [reads, providers, version, faults, drops,
                 \* races], which bound them and say if `raced` may happen
  StaleReads     \* stale_read_policy: serve the cache when the catalog is down

ASSUME ConstantsAssumption ==
  /\ StaleReads \in BOOLEAN
  /\ "refresher" \notin Readers

VARIABLES
  bound,       \* the instance this behaviour is about
  version,     \* the catalog's current metadata version
  writer,      \* the local writer: idle, planned with an instance, or landed
  acked,       \* the last version whose local writer has returned
  ddl,         \* a DROP TABLE in progress: idle, fencing or dropping
  providers,   \* sequence of the provider instances built so far
  mounted,     \* CachingSchemaProvider.cached: the instance of the table
  registered,  \* REGISTRY: the instance of the table
  loader,      \* the readers and the refresher
  plan,        \* the plan cache's entry for the statement
  readsLeft, faultsLeft, dropsLeft,
  raced        \* the races the code leaves open that have happened: "straggler", an
               \* older snapshot installed over a newer one; "twins", two instances
               \* built for one table; "ddl", one built or mounted during a drop

catalogVars == <<version, writer, acked>>
ddlVars == <<bound, ddl, dropsLeft>>
mountVars == <<mounted, registered>>
vars == <<catalogVars, ddlVars, providers, mountVars, loader, plan, readsLeft, faultsLeft,
          raced>>

Loaders == Readers \cup {"refresher"}

\* No version, no instance and no plan.
None == -1
Empty == [version |-> None, gen |-> 0]
NoPlan == [version |-> None, baked |-> None]

\* TableFreshness::new: born stale.  `seen` records, for the properties, the
\* newest version a completed load has read.
NewProvider == [writeGen |-> 1, freshGen |-> 0, cached |-> Empty, seen |-> None]

Resting == [pc |-> "idle", prov |-> None, token |-> 0, got |-> None, stale |-> FALSE,
            before |-> None, since |-> 0]

\* The table is mounted at startup, or created later and not yet looked up.
Init ==
  /\ bound \in Bounds
  /\ version = 0 /\ acked = 0 /\ raced = {} /\ ddl = "idle"
  /\ writer = [pc |-> "idle", prov |-> None, version |-> 0]
  /\ \/ providers = <<NewProvider>> /\ mounted = 1 /\ registered = 1
     \/ providers = <<>> /\ mounted = None /\ registered = None
  /\ loader = [l \in Loaders |-> Resting]
  /\ plan = NoPlan
  /\ readsLeft = bound.reads /\ faultsLeft = bound.faults /\ dropsLeft = bound.drops

----------------------------------------------------------------------------
\* TableFreshness and the registry.

IsFresh(p) == providers[p].freshGen = providers[p].writeGen

\* The weak handle of the registry upgrades while someone holds the provider.
Alive(p) == p = mounted \/ \E l \in Loaders : loader[l].prov = p

\* Mutant of CompleteLoad: the generation is read again at the end of the load.
CompleteLoad_RereadsGeneration(p, token, read) ==
  [p EXCEPT !.freshGen = p.writeGen, !.seen = IF @ >= read THEN @ ELSE read]

\* complete_load: fetch_max of the generation observed before the load.
CompleteLoad(p, token, read) ==
  [p EXCEPT !.freshGen = IF @ >= token THEN @ ELSE token,
            !.seen = IF @ >= read THEN @ ELSE read]

Invalidated(p) == [p EXCEPT !.writeGen = @ + 1]

\* invalidate_key, and MarkStaleExec for the instance it was planned with.
Invalidate(p) ==
  providers' = IF p = None THEN providers
               ELSE [providers EXCEPT ![p] = Invalidated(@)]

\* plan_cache_version: of an instance that is fresh and has a snapshot.
PlanCacheVersion(p) == IF IsFresh(p) THEN providers[p].cached.version ELSE None

\* current_version: through the registry.
CurrentVersion ==
  IF registered # None /\ Alive(registered) THEN PlanCacheVersion(registered) ELSE None

Fault == faultsLeft > 0 /\ faultsLeft' = faultsLeft - 1

\* Bound: an instance without races ends where one would happen.
WithinRaces == raced' # {} => bound.races

Goto(l, next) == loader' = [loader EXCEPT ![l] = next]

----------------------------------------------------------------------------
\* Writers.  post_commit invalidates what is registered; a plain INSERT
\* invalidates the instance it was planned with.

\* insert_into: the plan of a plain INSERT holds the instance of its lookup.
WriterPlans ==
  /\ writer.pc = "idle" /\ mounted # None /\ version < bound.version
  /\ writer' = [writer EXCEPT !.pc = "planned", !.prov = mounted]
  /\ UNCHANGED <<version, acked, providers, mountVars, loader, plan, readsLeft, faultsLeft,
                 raced, ddlVars>>

WriterCommits ==
  /\ writer.pc \in {"idle", "planned"} /\ version < bound.version
  /\ version' = version + 1
  /\ writer' = [writer EXCEPT !.pc = "landed", !.version = version + 1]
  /\ UNCHANGED <<acked, providers, mountVars, loader, plan, readsLeft, faultsLeft, raced, ddlVars>>

WriterInstance == IF writer.prov = None THEN registered ELSE writer.prov

WriterReturns ==
  /\ writer.pc = "landed"
  /\ Invalidate(WriterInstance)
  /\ acked' = writer.version
  /\ writer' = [writer EXCEPT !.pc = "idle", !.prov = None]
  /\ UNCHANGED <<version, mountVars, loader, plan, readsLeft, faultsLeft, raced, ddlVars>>

\* A commit is refused, or its statement is abandoned: it invalidates too.
WriterRefused ==
  /\ writer.pc \in {"idle", "planned"} /\ Fault
  /\ Invalidate(WriterInstance)
  /\ writer' = [writer EXCEPT !.pc = "idle", !.prov = None]
  /\ UNCHANGED <<version, acked, mountVars, loader, plan, readsLeft, raced, ddlVars>>

\* Another server, or a commit of an abandoned statement that lands late.
ForeignCommit ==
  /\ version < bound.version
  /\ version' = version + 1
  /\ UNCHANGED <<writer, acked, providers, mountVars, loader, plan, readsLeft, faultsLeft,
                 raced, ddlVars>>

----------------------------------------------------------------------------
\* deregister_table: the instance leaves the schema's map, then the registry, where
\* it is invalidated; then the catalog drops the table.  Its CREATE, which makes the
\* next version, is taken as one with that.  A statement planned with the dropped
\* table is refused by the new one (its uuid).

DropUnmounts ==
  /\ ddl = "idle" /\ dropsLeft > 0 /\ version < bound.version
  /\ ddl' = "fencing" /\ dropsLeft' = dropsLeft - 1
  /\ mounted' = None
  /\ UNCHANGED <<bound, catalogVars, providers, registered, loader, plan, readsLeft,
                 faultsLeft, raced>>

DropFences ==
  /\ ddl = "fencing"
  /\ ddl' = "dropping"
  /\ Invalidate(registered)
  /\ registered' = None
  /\ UNCHANGED <<bound, dropsLeft, catalogVars, mounted, loader, plan, readsLeft,
                 faultsLeft, raced>>

DropEnds ==
  /\ ddl = "dropping" /\ writer.pc # "landed"
  /\ ddl' = "idle"
  /\ version' = version + 1 /\ acked' = version + 1
  /\ writer' = [writer EXCEPT !.pc = "idle", !.prov = None]
  /\ UNCHANGED <<bound, dropsLeft, providers, mountVars, loader, plan, readsLeft,
                 faultsLeft, raced>>

----------------------------------------------------------------------------
\* A read statement: plan cache, provider lookup, current_provider.

\* PlanCacheHook::run: a hit serves the plan; a miss drops a stale entry.
ReadStart(r) ==
  /\ loader[r].pc = "idle" /\ readsLeft[r] > 0
  /\ readsLeft' = [readsLeft EXCEPT ![r] = @ - 1]
  /\ LET read == [Resting EXCEPT !.since = acked]
     IN IF plan # NoPlan /\ plan.version = CurrentVersion
        THEN /\ Goto(r, [read EXCEPT !.pc = "done", !.got = plan.baked])
             /\ plan' = plan
        ELSE /\ Goto(r, [read EXCEPT !.pc = "lookup"])
             /\ plan' = NoPlan
  /\ UNCHANGED <<catalogVars, providers, mountVars, faultsLeft, raced, ddlVars>>

\* CachingSchemaProvider::table finds the instance, or builds and registers one.
ReadLookup(r) ==
  /\ loader[r].pc = "lookup"
  /\ \/ /\ mounted # None
        /\ Goto(r, [loader[r] EXCEPT !.pc = "analyze", !.prov = mounted])
        /\ UNCHANGED <<providers, registered>>
        /\ UNCHANGED raced
     \/ /\ mounted = None /\ Len(providers) < bound.providers
        /\ providers' = Append(providers, NewProvider)
        /\ registered' = Len(providers) + 1
        /\ Goto(r, [loader[r] EXCEPT !.pc = "mount", !.prov = Len(providers) + 1])
        /\ raced' = raced \cup (IF registered # None THEN {"twins"} ELSE {})
                          \cup (IF ddl # "idle" THEN {"ddl"} ELSE {})
  /\ WithinRaces
  /\ UNCHANGED <<catalogVars, mounted, plan, readsLeft, faultsLeft, ddlVars>>

\* ... and then inserts the new instance into the schema's map.
ReadMount(r) ==
  /\ loader[r].pc = "mount"
  /\ mounted' = loader[r].prov
  /\ Goto(r, [loader[r] EXCEPT !.pc = "analyze"])
  /\ raced' = raced \cup (IF ddl # "idle" \/ registered # mounted' THEN {"ddl"} ELSE {})
  /\ WithinRaces
  /\ UNCHANGED <<catalogVars, providers, registered, plan, readsLeft, faultsLeft, ddlVars>>

\* analyze: the version before physical planning.
ReadAnalyze(r) ==
  /\ loader[r].pc = "analyze"
  /\ Goto(r, [loader[r] EXCEPT !.pc = "check", !.before = PlanCacheVersion(loader[r].prov)])
  /\ UNCHANGED <<catalogVars, providers, mountVars, plan, readsLeft, faultsLeft, raced, ddlVars>>

\* current_provider: the fast path, or begin_load.
ReadCheck(r) ==
  /\ loader[r].pc = "check"
  /\ LET p == loader[r].prov
     IN Goto(r, IF IsFresh(p) THEN [loader[r] EXCEPT !.pc = "fast"]
                ELSE [loader[r] EXCEPT !.pc = "load", !.token = providers[p].writeGen])
  /\ UNCHANGED <<catalogVars, providers, mountVars, plan, readsLeft, faultsLeft, raced, ddlVars>>

\* The cached snapshot, read under its lock after the freshness check.
ReadFast(r) ==
  /\ loader[r].pc = "fast"
  /\ LET p == loader[r].prov
     IN Goto(r, IF providers[p].cached # Empty
                THEN [loader[r] EXCEPT !.pc = "planned", !.got = providers[p].cached.version]
                ELSE [loader[r] EXCEPT !.pc = "load", !.token = providers[p].writeGen])
  /\ UNCHANGED <<catalogVars, providers, mountVars, plan, readsLeft, faultsLeft, raced, ddlVars>>

\* The entry is stored if the versions are the same after planning.
ReadPlanned(r) ==
  /\ loader[r].pc = "planned"
  /\ plan' = IF loader[r].before # None /\ loader[r].before = CurrentVersion
             THEN [version |-> loader[r].before, baked |-> loader[r].got]
             ELSE plan
  /\ Goto(r, [loader[r] EXCEPT !.pc = "done", !.prov = None, !.before = None])
  /\ UNCHANGED <<catalogVars, providers, mountVars, readsLeft, faultsLeft, raced, ddlVars>>

ReadDone(r) ==
  /\ loader[r].pc = "done"
  /\ Goto(r, Resting)
  /\ UNCHANGED <<catalogVars, providers, mountVars, plan, readsLeft, faultsLeft, raced, ddlVars>>

----------------------------------------------------------------------------
\* load_current, by a scan or by the refresher.

Finish(l) == IF l = "refresher" THEN Goto(l, Resting)
             ELSE Goto(l, [loader[l] EXCEPT !.pc = "planned", !.token = 0])

\* The catalog answers with its current metadata.
LoadAnswered(l) ==
  /\ loader[l].pc = "load"
  /\ Goto(l, [loader[l] EXCEPT !.pc = "compare", !.got = version])
  /\ UNCHANGED <<catalogVars, providers, mountVars, plan, readsLeft, faultsLeft, raced, ddlVars>>

\* The load fails or times out.  A scan may serve what is cached; the
\* refresher leaves it to its next pass.
LoadFails(l) ==
  /\ loader[l].pc = "load" /\ Fault
  /\ LET cached == providers[loader[l].prov].cached
     IN Goto(l, IF l # "refresher" /\ StaleReads /\ cached # Empty
                THEN [loader[l] EXCEPT !.pc = "planned", !.stale = TRUE, !.token = 0,
                                       !.got = cached.version]
                ELSE Resting)
  /\ UNCHANGED <<catalogVars, providers, mountVars, plan, readsLeft, raced, ddlVars>>

\* Under the read lock: the cached snapshot is still current and counts as
\* fresh, or a provider is built for the new metadata.
LoadCompare(l) ==
  /\ loader[l].pc = "compare"
  /\ LET p == loader[l].prov
     IN IF providers[p].cached.version = loader[l].got
        THEN /\ providers' = [providers EXCEPT ![p] =
                                CompleteLoad(@, loader[l].token, loader[l].got)]
             /\ Finish(l)
        ELSE /\ Goto(l, [loader[l] EXCEPT !.pc = "install"])
             /\ UNCHANGED providers
  /\ UNCHANGED <<catalogVars, mountVars, plan, readsLeft, faultsLeft, raced, ddlVars>>

\* Under the write lock: install unless a later generation is installed.
LoadInstall(l) ==
  /\ loader[l].pc = "install"
  /\ LET p == loader[l].prov
         straggler == providers[p].cached.gen > loader[l].token
     IN /\ providers' = [providers EXCEPT ![p].cached =
             IF straggler THEN @ ELSE [version |-> loader[l].got, gen |-> loader[l].token]]
        /\ raced' = IF providers'[p].cached.version < providers[p].cached.version
                    THEN raced \cup {"straggler"} ELSE raced
  /\ WithinRaces
  /\ Goto(l, [loader[l] EXCEPT !.pc = "complete"])
  /\ UNCHANGED <<catalogVars, ddlVars, mountVars, plan, readsLeft, faultsLeft>>

\* Building it fails, or the refresher's timeout drops the load.
LoadAborted(l) ==
  /\ loader[l].pc = "install" /\ Fault
  /\ Goto(l, Resting)
  /\ UNCHANGED <<catalogVars, providers, mountVars, plan, readsLeft, raced, ddlVars>>

LoadComplete(l) ==
  /\ loader[l].pc = "complete"
  /\ providers' = [providers EXCEPT ![loader[l].prov] =
                     CompleteLoad(@, loader[l].token, loader[l].got)]
  /\ Finish(l)
  /\ UNCHANGED <<catalogVars, mountVars, plan, readsLeft, faultsLeft, raced, ddlVars>>

----------------------------------------------------------------------------
\* The refresher: one pass over the registry at a time, under a supervisor.

\* Mutant of RefresherPass: a pass skips the tables that count as fresh.
RefresherPass_SkipsFresh ==
  /\ loader["refresher"].pc = "idle" /\ registered # None /\ Alive(registered)
  /\ ~IsFresh(registered)
  /\ Goto("refresher", [Resting EXCEPT !.pc = "load", !.prov = registered,
                                       !.token = providers[registered].writeGen])
  /\ UNCHANGED <<catalogVars, providers, mountVars, plan, readsLeft, faultsLeft, raced, ddlVars>>

RefresherPass ==
  /\ loader["refresher"].pc = "idle" /\ registered # None /\ Alive(registered)
  /\ Goto("refresher", [Resting EXCEPT !.pc = "load", !.prov = registered,
                                       !.token = providers[registered].writeGen])
  /\ UNCHANGED <<catalogVars, providers, mountVars, plan, readsLeft, faultsLeft, raced, ddlVars>>

\* The provider is gone: prune its entry.
RefresherPrunes ==
  /\ loader["refresher"].pc = "idle" /\ registered # None /\ ~Alive(registered)
  /\ registered' = None
  /\ UNCHANGED <<catalogVars, providers, mounted, loader, plan, readsLeft, faultsLeft,
                 raced, ddlVars>>

\* The task panics.
RefresherDies ==
  /\ loader["refresher"].pc # "dead" /\ Fault
  /\ Goto("refresher", [Resting EXCEPT !.pc = "dead"])
  /\ UNCHANGED <<catalogVars, providers, mountVars, plan, readsLeft, raced, ddlVars>>

\* supervise: after a backoff, or when the respawn budget's window is over.
RefresherRespawned ==
  /\ loader["refresher"].pc = "dead"
  /\ Goto("refresher", Resting)
  /\ UNCHANGED <<catalogVars, providers, mountVars, plan, readsLeft, faultsLeft, raced, ddlVars>>

----------------------------------------------------------------------------
Read(r) == \/ ReadLookup(r) \/ ReadMount(r) \/ ReadAnalyze(r) \/ ReadCheck(r)
           \/ ReadFast(r) \/ ReadPlanned(r) \/ ReadDone(r)

Load(l) == LoadAnswered(l) \/ LoadCompare(l) \/ LoadInstall(l) \/ LoadComplete(l)

Next ==
  \/ WriterPlans \/ WriterCommits \/ WriterReturns \/ WriterRefused \/ ForeignCommit
  \/ DropUnmounts \/ DropFences \/ DropEnds
  \/ \E r \in Readers : ReadStart(r) \/ Read(r)
  \/ \E l \in Loaders : Load(l) \/ LoadFails(l) \/ LoadAborted(l)
  \/ RefresherPass \/ RefresherPrunes \/ RefresherDies \/ RefresherRespawned

Spec == Init /\ [][Next]_vars

\* Tasks are scheduled, the catalog answers in the end, the refresher passes
\* every interval and its supervisor respawns it.
LiveSpec ==
  /\ Spec
  /\ WF_vars(WriterReturns) /\ WF_vars(DropFences \/ DropEnds)
  /\ \A r \in Readers : WF_vars(Read(r))
  /\ \A l \in Loaders : WF_vars(Load(l))
  /\ WF_vars(RefresherPass \/ RefresherRespawned)

----------------------------------------------------------------------------
\* The generations do what they were introduced for: the cache of the table's
\* instance counts as fresh only after a load that read every acknowledged local
\* write; a load that overlapped an invalidation cannot clear it (begin_load,
\* complete_load).
FreshMeansLoaded ==
  raced = {} /\ mounted # None /\ IsFresh(mounted) => providers[mounted].seen >= acked

\* Read-your-own-writes, wherever the read is served from: the cache, a load of
\* its own, or a plan or a result that was kept; also across a dropped and
\* re-created table.  It can only fail through the races the code leaves open, or
\* the stale fallback while the catalog is down (is_fresh, load_current,
\* PlanCacheHook::run, deregister_table).
ReadYourWritesUnlessRaced ==
  raced = {} =>
    \A r \in Readers :
      loader[r].pc = "done" /\ ~loader[r].stale => loader[r].got >= loader[r].since

\* Bounded staleness: once commits and faults cease, the cache of the instance
\* the refresher knows holds the table's head for good, whatever straggling
\* loads did to it (refresher_loop, supervise).
EventuallyServesHead ==
  <>[](mounted # None /\ mounted = registered =>
         providers[mounted].cached.version = version)

====
