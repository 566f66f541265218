-------------------------- MODULE FreshnessProofs --------------------------
(***************************************************************************)
(* Proofs about the bounded-staleness reads and what is kept of planned    *)
(* statements, for any readers, instances and bounds: what a cache that    *)
(* counts as fresh has loaded, read-your-own-writes, and the age of what   *)
(* is reused.  All of them hold until a race the code leaves open happens. *)
(***************************************************************************)
EXTENDS PlanReuse, TLAPS

Provider == [writeGen : Nat, freshGen : Nat, cached : [version : Int, gen : Nat], seen : Int]
Steps == {"idle", "lookup", "mount", "analyze", "check", "fast", "load", "compare", "install",
          "complete", "planned", "done", "dead"}
Loader == [pc : Steps, prov : Int, token : Nat, got : Int, stale : BOOLEAN, before : Int,
           since : Nat]
Entry == [version : Int, baked : Int]

\* No instance, or one that was built.
Instances == {None} \cup DOMAIN providers

CoreTypes ==
  /\ version \in Nat /\ acked \in Nat
  /\ writer \in [pc : {"idle", "planned", "landed"}, prov : Instances, version : Nat]
  /\ providers \in Seq(Provider)
  /\ mounted \in Instances /\ registered \in Instances
  /\ loader \in [Loaders -> Loader] /\ \A l \in Loaders : loader[l].prov \in Instances

KeptTypes ==
  /\ plan \in Entry /\ result \in Entry /\ sink \in [Readers -> Entry]
  /\ ticket \in [Readers -> [phase : {"none", "info", "held", "get"}, pin : Entry]]

Types == CoreTypes /\ KeptTypes

\* What is acknowledged has happened, and a writer that has not returned yet
\* committed after the last one that has.
WritesOrdered ==
  /\ acked <= version
  /\ writer.pc = "landed" => acked <= writer.version /\ writer.version <= version

\* The table's instance is the registered one; a drop takes it out of the schema's
\* map first, and a writer that was planned with an instance invalidates the only
\* one there is when it returns.
MountOrdered ==
  /\ mounted # None => registered = mounted
  /\ ddl # "idle" => mounted = None
  /\ ddl = "dropping" => registered = None
  /\ writer.prov # None =>
       /\ registered \in {None, writer.prov}
       /\ ddl = "idle" => mounted = writer.prov

\* Generations are drawn from writeGen, and what is cached has been committed.
ProviderOrdered(p) ==
  LET x == providers[p]
  IN /\ x.freshGen <= x.writeGen /\ x.cached.gen <= x.writeGen
     /\ None <= x.cached.version /\ x.cached.version <= version

Loading == {"load", "compare", "install", "complete"}
Answered == {"compare", "install", "complete"}

\* A load holds an instance, its token and an answer that was the head once.  One
\* that no invalidation has overtaken finds its own answer, or a newer one, in the
\* cache when it completes.
LoaderFits(x) ==
  LET p == x.prov
  IN /\ x.pc \in Loading => p # None /\ x.token <= providers[p].writeGen
     /\ x.pc \in Answered => x.got <= version
     /\ x.pc = "complete" /\ x.token = providers[p].writeGen =>
          x.got <= providers[p].cached.version

Reading == {"mount", "analyze", "check", "fast", "planned"} \cup Loading

\* A reader has what was acknowledged when it began, and what its plan would be
\* validated by.
ReaderFits(x) ==
  LET p == x.prov
  IN /\ x.since <= acked
     /\ x.pc \in Reading => p # None
     /\ x.pc = "fast" => x.since <= providers[p].cached.version
     /\ x.pc \in Answered => x.since <= x.got
     /\ x.pc \in {"planned", "done"} /\ ~x.stale => x.since <= x.got
     /\ x.pc \in {"check", "fast", "load"} => x.before <= providers[p].cached.version
     /\ x.pc \in Answered \cup {"planned"} => x.before <= x.got

\* Instance p, if it counts as fresh, has loaded and cached version n at least; so
\* has every load that can still make it fresh.
Sound(p, n) ==
  /\ IsFresh(p) => n <= providers[p].cached.version /\ n <= providers[p].seen
  /\ \A l \in Loaders :
       /\ loader[l].prov = p /\ loader[l].pc \in Answered
       /\ loader[l].token = providers[p].writeGen
       => n <= loader[l].got

\* What is kept is not older than the version it is validated by.
Kept(entry) == entry.version <= entry.baked /\ (entry # NoPlan => entry.version # None)

AllKept ==
  /\ Kept(plan) /\ Kept(result)
  /\ \A r \in Readers : Kept(sink[r]) /\ Kept(ticket[r].pin)

\* The registered instance is sound for what is acknowledged, and the instance of
\* a reader for what was acknowledged when it began.
AllSound ==
  /\ registered # None => Sound(registered, acked)
  /\ \A r \in Readers : loader[r].prov # None => Sound(loader[r].prov, loader[r].since)

AllProviders == \A p \in DOMAIN providers : ProviderOrdered(p)

AllLoaders ==
  /\ \A l \in Loaders : LoaderFits(loader[l])
  /\ \A r \in Readers : ReaderFits(loader[r])

Ordered ==
  /\ Types /\ WritesOrdered /\ MountOrdered /\ AllProviders /\ AllLoaders /\ AllSound
  /\ AllKept

FreshInv == raced = {} => Ordered

----------------------------------------------------------------------------
\* What a step does to what the others hold.

\* Generations and cached versions do not go back.
Advances ==
  /\ version <= version' /\ acked <= acked'
  /\ \A p \in DOMAIN providers :
       /\ p \in DOMAIN providers'
       /\ providers[p].writeGen <= providers'[p].writeGen
       /\ providers[p].cached.version <= providers'[p].cached.version

\* The fields of an instance.
LEMMA ProviderFields ==
  ASSUME Ordered, NEW p \in DOMAIN providers
  PROVE  /\ providers[p] \in Provider /\ version \in Nat /\ acked \in Nat
         /\ providers[p].writeGen \in Nat /\ providers[p].freshGen \in Nat
         /\ providers[p].cached.gen \in Nat /\ providers[p].cached.version \in Int
         /\ providers[p].seen \in Int
<1>1. providers[p] \in Provider /\ version \in Nat /\ acked \in Nat
  BY DEF Ordered, Types, CoreTypes
<1> QED BY <1>1 DEF Provider

\* A loader that does not move.
LEMMA Bystander ==
  ASSUME Ordered, Types', Advances, NEW l \in Loaders, loader'[l] = loader[l]
  PROVE  LoaderFits(loader[l])' /\ (l \in Readers => ReaderFits(loader[l])')
<1> DEFINE x == loader[l]
           p == x.prov
<1>1. /\ x \in Loader /\ p \in Instances /\ version \in Nat /\ version' \in Nat
      /\ acked \in Nat /\ acked' \in Nat
  BY DEF Ordered, Types, CoreTypes
<1>2. LoaderFits(loader[l]) /\ (l \in Readers => ReaderFits(loader[l]))
  BY DEF Ordered, AllLoaders
<1>3. p # None => /\ p \in DOMAIN providers /\ p \in DOMAIN providers'
                  /\ providers[p] \in Provider /\ providers'[p] \in Provider
  BY <1>1 DEF Instances, Ordered, Types, CoreTypes, Advances
<1>4. p # None => /\ providers[p].writeGen <= providers'[p].writeGen
                  /\ providers[p].cached.version <= providers'[p].cached.version
  BY <1>3 DEF Advances
<1>5. LoaderFits(loader[l])'
  BY <1>1, <1>2, <1>3, <1>4 DEF LoaderFits, Advances, Loader, Provider, Loading, Answered
<1>6. l \in Readers => ReaderFits(loader[l])'
  BY <1>1, <1>2, <1>3, <1>4
     DEF ReaderFits, Advances, Loader, Provider, Loading, Answered, Reading
<1> QED BY <1>5, <1>6

\* One loader moves.
LEMMA LoaderMoves ==
  ASSUME Ordered, Types', Advances, NEW l \in Loaders, NEW x, Goto(l, x),
         LoaderFits(loader[l])', l \in Readers => ReaderFits(loader[l])'
  PROVE  AllLoaders'
<1>1. \A m \in Loaders \ {l} : loader'[m] = loader[m]
  BY DEF Goto, Ordered, Types, CoreTypes
<1>2. Readers \subseteq Loaders
  BY DEF Loaders
<1> QED BY <1>1, <1>2, Bystander DEF AllLoaders

\* No loader moves.
LEMMA NoLoaderMoves ==
  ASSUME Ordered, Types', Advances, UNCHANGED loader
  PROVE  AllLoaders'
<1>1. Readers \subseteq Loaders
  BY DEF Loaders
<1> QED BY <1>1, Bystander DEF AllLoaders

\* The instances stay as sound as they are.
SoundKept ==
  \A p \in DOMAIN providers : \A n \in Nat : n <= acked /\ Sound(p, n) => Sound(p, n)'

\* A step that neither registers an instance nor gives a reader one.
LEMMA SoundStep ==
  ASSUME Ordered, SoundKept, registered' \in {None, registered},
         acked' = acked \/ registered' = None,
         \A r \in Readers :
           loader'[r].prov # None =>
             loader'[r].prov = loader[r].prov /\ loader'[r].since = loader[r].since
  PROVE  AllSound'
<1>1. registered' # None => Sound(registered, acked)'
  BY DEF Ordered, AllSound, SoundKept, Types, CoreTypes, Instances, WritesOrdered
<1>2. ASSUME NEW r \in Readers, loader'[r].prov # None
      PROVE  Sound(loader[r].prov, loader[r].since)'
  <2>1. /\ loader[r].prov \in DOMAIN providers /\ loader[r].since \in Nat
        /\ loader[r].since <= acked /\ Sound(loader[r].prov, loader[r].since)
    BY <1>2
       DEF Ordered, AllSound, AllLoaders, ReaderFits, Types, CoreTypes, Instances, Loaders, Loader
  <2> QED BY <1>2, <2>1 DEF SoundKept
<1> QED BY <1>1, <1>2 DEF AllSound

\* A load that has an answer in the next state has what is acknowledged, or had it.
AnswerSound(l, x) ==
  x.pc \in Answered =>
    \/ acked <= x.got
    \/ /\ loader[l].pc \in Answered /\ x.prov = loader[l].prov
       /\ x.token = loader[l].token /\ x.got = loader[l].got

\* A load that moves on, and answers with what is acknowledged, keeps every instance
\* sound (load_current).
LEMMA SoundMoves ==
  ASSUME Ordered, NEW l \in Loaders, NEW x \in Loader, Goto(l, x), AnswerSound(l, x),
         UNCHANGED providers
  PROVE  SoundKept
<1> SUFFICES ASSUME NEW p \in DOMAIN providers, NEW n \in Nat, n <= acked, Sound(p, n)
             PROVE  Sound(p, n)'
  BY DEF SoundKept
<1>1. loader' = [loader EXCEPT ![l] = x] /\ loader \in [Loaders -> Loader] /\ acked \in Nat
  BY DEF Goto, Ordered, Types, CoreTypes
<1>2. ASSUME NEW m \in Loaders, loader'[m].prov = p, loader'[m].pc \in Answered,
             loader'[m].token = providers[p].writeGen
      PROVE  n <= loader'[m].got
  <2>1. CASE m = l
    <3>1. loader'[m] = x
      BY <1>1, <2>1
    <3>2. CASE acked <= x.got
      BY <1>1, <3>1, <3>2 DEF Loader
    <3> QED BY <1>2, <3>1, <3>2, <2>1 DEF AnswerSound, Sound
  <2>2. CASE m # l
    BY <1>1, <1>2, <2>2 DEF Sound
  <2> QED BY <2>1, <2>2
<1> QED BY <1>2 DEF Sound, IsFresh

\* An invalidated instance is sound whatever is acknowledged: it is not fresh and
\* every load has an older token.
LEMMA SoundInvalidated ==
  ASSUME Ordered, Types', UNCHANGED loader, NEW q \in DOMAIN providers,
         providers' = [providers EXCEPT ![q] = Invalidated(@)]
  PROVE  SoundKept /\ \A n : Sound(q, n)'
<1>1. /\ providers[q] \in Provider /\ providers'[q] = Invalidated(providers[q])
      /\ \A p \in DOMAIN providers \ {q} : providers'[p] = providers[p]
  BY DEF Ordered, Types, CoreTypes
<1>2. providers[q].freshGen <= providers[q].writeGen
  BY DEF Ordered, AllProviders, ProviderOrdered
<1>3. /\ providers'[q].writeGen = providers[q].writeGen + 1
      /\ providers'[q].freshGen = providers[q].freshGen
  BY <1>1 DEF Invalidated, Provider
<1>4. \A l \in Loaders :
        loader[l].prov = q /\ loader[l].pc \in Answered => loader[l].token # providers'[q].writeGen
  <2> SUFFICES ASSUME NEW l \in Loaders, loader[l].prov = q, loader[l].pc \in Answered
               PROVE  loader[l].token # providers'[q].writeGen
    OBVIOUS
  <2>1. loader[l].token <= providers[q].writeGen /\ loader[l].token \in Nat
    BY DEF Ordered, AllLoaders, LoaderFits, Answered, Loading, Types, CoreTypes, Loader
  <2> QED BY <1>1, <1>3, <2>1 DEF Provider
<1>5. \A n : Sound(q, n)'
  BY <1>1, <1>2, <1>3, <1>4 DEF Sound, IsFresh, Provider
<1>6. \A p \in DOMAIN providers \ {q} : \A n : Sound(p, n) => Sound(p, n)'
  BY <1>1 DEF Sound, IsFresh
<1> QED BY <1>5, <1>6 DEF SoundKept

----------------------------------------------------------------------------
\* Steps by what they change.

\* A step that keeps nothing new.
LEMMA KeepsNothing ==
  ASSUME Ordered, UNCHANGED <<plan, result, sink, ticket>>
  PROVE  KeptTypes' /\ AllKept'
BY DEF Ordered, Types, KeptTypes, AllKept, Kept

\* One loader moves, and nothing of the table changes.
LEMMA LoaderStep ==
  ASSUME Ordered, NEW l \in Loaders, NEW x \in Loader, x.prov \in Instances, Goto(l, x),
         UNCHANGED <<catalogVars, providers, mountVars, ddl>>, KeptTypes', AllKept',
         LoaderFits(x), l \in Readers => ReaderFits(x), AnswerSound(l, x),
         l \in Readers /\ x.prov # None => x.prov = loader[l].prov /\ x.since = loader[l].since
  PROVE  Ordered'
<1>1. loader' = [loader EXCEPT ![l] = x] /\ loader \in [Loaders -> Loader] /\ loader'[l] = x
  BY DEF Goto, Ordered, Types, CoreTypes
<1>2. Types'
  BY <1>1 DEF Ordered, Types, CoreTypes, Instances, catalogVars, mountVars
<1>3. WritesOrdered' /\ MountOrdered' /\ AllProviders'
  BY DEF Ordered, WritesOrdered, MountOrdered, AllProviders, ProviderOrdered, catalogVars, mountVars
<1>4. Advances
  BY ProviderFields DEF Advances, catalogVars, Ordered, Types, CoreTypes
<1>5. LoaderFits(loader[l])' /\ (l \in Readers => ReaderFits(loader[l])')
  BY <1>1 DEF LoaderFits, ReaderFits, catalogVars
<1>6. AllLoaders'
  BY <1>2, <1>4, <1>5, LoaderMoves
<1>7. SoundKept
  BY SoundMoves
<1>8. \A r \in Readers :
        loader'[r].prov # None =>
          loader'[r].prov = loader[r].prov /\ loader'[r].since = loader[r].since
  BY <1>1 DEF Loaders
<1>9. AllSound'
  BY <1>7, <1>8, SoundStep DEF catalogVars, mountVars
<1> QED BY <1>2, <1>3, <1>6, <1>9 DEF Ordered

\* Nothing but the catalog, the mount and what is kept changes.
LEMMA TableStep ==
  ASSUME Ordered, UNCHANGED <<providers, loader>>, Types', WritesOrdered', MountOrdered',
         AllKept', version <= version', acked <= acked', registered' \in {None, registered},
         acked' = acked \/ registered' = None
  PROVE  Ordered'
<1>1. Advances
  BY ProviderFields DEF Advances
<1>2. AllProviders'
  BY ProviderFields DEF Ordered, AllProviders, ProviderOrdered, Types, CoreTypes
<1>3. AllLoaders'
  BY <1>1, NoLoaderMoves
<1>4. SoundKept
  BY DEF SoundKept, Sound, IsFresh
<1>5. AllSound'
  BY <1>4, SoundStep
<1> QED BY <1>2, <1>3, <1>5 DEF Ordered

\* An instance is invalidated.
LEMMA InvalidateStep ==
  ASSUME Ordered, UNCHANGED <<version, loader>>, WritesOrdered', MountOrdered', KeptTypes', AllKept',
         NEW q \in Instances, Invalidate(q),
         writer' \in [pc : {"idle", "planned", "landed"}, prov : Instances, version : Nat],
         mounted' \in Instances, registered' \in {None, registered},
         acked' \in Nat, acked <= acked',
         acked' = acked \/ registered' \in {None, q}
  PROVE  Ordered'
<1>a. CASE q = None
  <2>1. UNCHANGED providers
    BY <1>a DEF Invalidate
  <2>2. Types'
    BY <2>1 DEF Ordered, Types, CoreTypes, Instances
  <2> QED BY <1>a, <2>1, <2>2, TableStep DEF Ordered, Types, CoreTypes
<1>b. CASE q # None
  <2>1. /\ q \in DOMAIN providers /\ providers[q] \in Provider
        /\ providers' = [providers EXCEPT ![q] = Invalidated(providers[q])]
    BY <1>b DEF Invalidate, Instances, Ordered, Types, CoreTypes
  <2>2. /\ Invalidated(providers[q]) \in Provider
        /\ Invalidated(providers[q]).writeGen = providers[q].writeGen + 1
        /\ Invalidated(providers[q]).freshGen = providers[q].freshGen
        /\ Invalidated(providers[q]).cached = providers[q].cached
    BY <2>1 DEF Invalidated, Provider
  <2>3. providers' \in Seq(Provider) /\ DOMAIN providers' = DOMAIN providers
    BY <2>1, <2>2 DEF Ordered, Types, CoreTypes
  <2>4. Types'
    BY <2>3 DEF Ordered, Types, CoreTypes, Instances
  <2>5. \A p \in DOMAIN providers :
          providers'[p] = IF p = q THEN Invalidated(providers[q]) ELSE providers[p]
    BY <2>1
  <2>6. Advances
    <3>1. version \in Nat
      BY DEF Ordered, Types, CoreTypes
    <3>2. ASSUME NEW p \in DOMAIN providers
          PROVE  /\ providers[p].writeGen <= providers'[p].writeGen
                 /\ providers[p].cached.version <= providers'[p].cached.version
      BY <2>2, <2>5, ProviderFields
    <3> QED BY <2>3, <3>1, <3>2 DEF Advances
  <2>7. AllProviders'
    <3> SUFFICES ASSUME NEW p \in DOMAIN providers PROVE ProviderOrdered(p)'
      BY <2>3 DEF AllProviders
    <3>1. ProviderOrdered(p)
      BY DEF Ordered, AllProviders
    <3> QED BY <2>2, <2>5, <3>1, ProviderFields DEF ProviderOrdered
  <2>8. AllLoaders'
    BY <2>4, <2>6, NoLoaderMoves
  <2>9. SoundKept /\ \A n : Sound(q, n)'
    BY <2>1, <2>4, SoundInvalidated, Zenon
  <2>10. AllSound'
    <3>1. CASE acked' = acked
      BY <2>9, <3>1, SoundStep
    <3>2. CASE registered' = q
      <4>1. \A r \in Readers : loader[r].prov # None => Sound(loader[r].prov, loader[r].since)'
        <5> SUFFICES ASSUME NEW r \in Readers, loader[r].prov # None
                     PROVE  Sound(loader[r].prov, loader[r].since)'
          OBVIOUS
        <5>1. /\ loader[r].prov \in DOMAIN providers /\ loader[r].since \in Nat
              /\ loader[r].since <= acked /\ Sound(loader[r].prov, loader[r].since)
          BY
             DEF Ordered, AllSound, AllLoaders, ReaderFits, Types, CoreTypes, Instances, Loaders, Loader
        <5> QED BY <2>9, <5>1 DEF SoundKept
      <4> QED BY <2>9, <3>2, <4>1 DEF AllSound
    <3>3. CASE registered' = None
      BY <2>9, <3>3, SoundStep
    <3> QED BY <3>1, <3>2, <3>3
  <2> QED BY <2>4, <2>7, <2>8, <2>10 DEF Ordered
<1> QED BY <1>a, <1>b

----------------------------------------------------------------------------
\* Writers and DDL.

\* The four caches are out of a step's reach.
NothingKept == UNCHANGED <<plan, result, sink, ticket>>

\* An INSERT is planned.
LEMMA WriterPlansKeeps ==
  ASSUME Ordered, WriterPlans, NothingKept
  PROVE  Ordered'
<1>1. KeptTypes' /\ AllKept'
  BY KeepsNothing DEF NothingKept
<1>2. /\ mounted # None /\ writer' = [writer EXCEPT !.pc = "planned", !.prov = mounted]
      /\ UNCHANGED <<version, acked, providers, loader, mounted, registered, ddl>>
  BY DEF WriterPlans, mountVars, ddlVars
<1>3. /\ writer' \in [pc : {"idle", "planned", "landed"}, prov : Instances, version : Nat]
      /\ writer'.pc = "planned" /\ writer'.prov = mounted
  BY <1>2, Zenon DEF Ordered, Types, CoreTypes
<1>4. Types'
  BY <1>1, <1>2, <1>3 DEF Ordered, Types, CoreTypes, Instances
<1>5. WritesOrdered' /\ MountOrdered'
  BY <1>2, <1>3 DEF Ordered, WritesOrdered, MountOrdered
<1> QED BY <1>1, <1>2, <1>4, <1>5, TableStep DEF Ordered, Types, CoreTypes

\* A commit lands; its writer has not returned.
LEMMA WriterCommitsKeeps ==
  ASSUME Ordered, WriterCommits, NothingKept
  PROVE  Ordered'
<1>1. KeptTypes' /\ AllKept'
  BY KeepsNothing DEF NothingKept
<1>2. version \in Nat /\ acked \in Nat /\ acked <= version /\ version' = version + 1 /\ acked' = acked
  BY DEF Ordered, Types, CoreTypes, WritesOrdered, WriterCommits
<1>3. UNCHANGED <<providers, loader, mounted, registered, ddl>>
  BY DEF WriterCommits, mountVars, ddlVars
<1>4. /\ writer' \in [pc : {"idle", "planned", "landed"}, prov : Instances, version : Nat]
      /\ writer'.version = version + 1 /\ writer'.prov = writer.prov
  <2>1. version + 1 \in Nat
    BY <1>2
  <2> QED BY <2>1, Zenon DEF WriterCommits, Ordered, Types, CoreTypes
<1>5. Types'
  BY <1>1, <1>2, <1>3, <1>4 DEF Ordered, Types, CoreTypes, Instances
<1>6. WritesOrdered'
  BY <1>2, <1>4 DEF WritesOrdered
<1>7. MountOrdered'
  BY <1>3, <1>4 DEF Ordered, MountOrdered
<1> QED BY <1>1, <1>2, <1>3, <1>5, <1>6, <1>7, TableStep

\* The instance the writer invalidates is the only one there is.
LEMMA WriterHitsRegistered ==
  ASSUME Ordered
  PROVE  WriterInstance \in Instances /\ registered \in {None, WriterInstance}
BY DEF WriterInstance, Ordered, Types, CoreTypes, MountOrdered

LEMMA WriterRests ==
  ASSUME Ordered, writer' = [writer EXCEPT !.pc = "idle", !.prov = None]
  PROVE  /\ writer' \in [pc : {"idle", "planned", "landed"}, prov : Instances, version : Nat]
         /\ writer'.pc = "idle" /\ writer'.prov = None
BY Zenon DEF Ordered, Types, CoreTypes, Instances

\* The writer invalidates the instance before it returns.
LEMMA WriterReturnsKeeps ==
  ASSUME Ordered, WriterReturns, NothingKept
  PROVE  Ordered'
<1>1. KeptTypes' /\ AllKept'
  BY KeepsNothing DEF NothingKept
<1>2. /\ writer.pc = "landed" /\ acked' = writer.version
      /\ writer' = [writer EXCEPT !.pc = "idle", !.prov = None] /\ Invalidate(WriterInstance)
      /\ UNCHANGED <<version, loader, mounted, registered, ddl>>
  BY DEF WriterReturns, mountVars, ddlVars
<1>3. acked' \in Nat /\ acked <= acked' /\ acked' <= version
  BY <1>2 DEF Ordered, Types, CoreTypes, WritesOrdered
<1>4. WriterInstance \in Instances /\ registered \in {None, WriterInstance}
  BY WriterHitsRegistered
<1>5. /\ writer' \in [pc : {"idle", "planned", "landed"}, prov : Instances, version : Nat]
      /\ writer'.pc = "idle" /\ writer'.prov = None
  BY <1>2, WriterRests
<1>6. WritesOrdered' /\ MountOrdered'
  BY <1>2, <1>3, <1>5 DEF Ordered, WritesOrdered, MountOrdered
<1>7. mounted' \in Instances /\ registered' = registered
  BY <1>2 DEF Ordered, Types, CoreTypes
<1> QED BY <1>1, <1>2, <1>3, <1>4, <1>5, <1>6, <1>7, InvalidateStep

\* A commit that is refused invalidates, too.
LEMMA WriterRefusedKeeps ==
  ASSUME Ordered, WriterRefused, NothingKept
  PROVE  Ordered'
<1>1. KeptTypes' /\ AllKept'
  BY KeepsNothing DEF NothingKept
<1>2. /\ writer' = [writer EXCEPT !.pc = "idle", !.prov = None] /\ Invalidate(WriterInstance)
      /\ UNCHANGED <<version, acked, loader, mounted, registered, ddl>>
  BY DEF WriterRefused, mountVars, ddlVars
<1>3. WriterInstance \in Instances
  BY WriterHitsRegistered
<1>4. /\ writer' \in [pc : {"idle", "planned", "landed"}, prov : Instances, version : Nat]
      /\ writer'.pc = "idle" /\ writer'.prov = None
  BY <1>2, WriterRests
<1>5. WritesOrdered' /\ MountOrdered'
  BY <1>2, <1>4 DEF Ordered, WritesOrdered, MountOrdered
<1> QED BY <1>1, <1>2, <1>3, <1>4, <1>5, InvalidateStep DEF Ordered, Types, CoreTypes

\* A commit of another server.
LEMMA ForeignCommitKeeps ==
  ASSUME Ordered, ForeignCommit, NothingKept
  PROVE  Ordered'
<1>1. KeptTypes' /\ AllKept'
  BY KeepsNothing DEF NothingKept
<1>2. /\ version \in Nat /\ acked \in Nat /\ acked <= version /\ version' = version + 1
      /\ UNCHANGED <<acked, writer, providers, loader, mounted, registered, ddl>>
  BY DEF Ordered, Types, CoreTypes, WritesOrdered, ForeignCommit, mountVars, ddlVars
<1>3. Types'
  BY <1>1, <1>2 DEF Ordered, Types, CoreTypes, Instances
<1>4. WritesOrdered' /\ MountOrdered'
  BY <1>2 DEF Ordered, WritesOrdered, MountOrdered, Types, CoreTypes
<1> QED BY <1>1, <1>2, <1>3, <1>4, TableStep

\* deregister_table takes the instance out of the schema's map ...
LEMMA DropUnmountsKeeps ==
  ASSUME Ordered, DropUnmounts, NothingKept
  PROVE  Ordered'
<1>1. KeptTypes' /\ AllKept'
  BY KeepsNothing DEF NothingKept
<1>2. /\ ddl = "idle" /\ ddl' = "fencing" /\ mounted' = None
      /\ UNCHANGED <<version, acked, writer, providers, loader, registered>>
  BY DEF DropUnmounts, catalogVars
<1>3. Types'
  BY <1>1, <1>2 DEF Ordered, Types, CoreTypes, Instances
<1>4. WritesOrdered' /\ MountOrdered'
  BY <1>2 DEF Ordered, WritesOrdered, MountOrdered
<1> QED BY <1>1, <1>2, <1>3, <1>4, TableStep DEF Ordered, Types, CoreTypes

\* ... invalidates it where it is registered ...
LEMMA DropFencesKeeps ==
  ASSUME Ordered, DropFences, NothingKept
  PROVE  Ordered'
<1>1. KeptTypes' /\ AllKept'
  BY KeepsNothing DEF NothingKept
<1>2. /\ ddl = "fencing" /\ ddl' = "dropping" /\ registered' = None /\ Invalidate(registered)
      /\ UNCHANGED <<version, acked, writer, loader, mounted>>
  BY DEF DropFences, catalogVars
<1>3. WritesOrdered' /\ MountOrdered'
  BY <1>2 DEF Ordered, WritesOrdered, MountOrdered
<1> QED BY <1>1, <1>2, <1>3, InvalidateStep DEF Ordered, Types, CoreTypes

\* ... and the table is created again.
LEMMA DropEndsKeeps ==
  ASSUME Ordered, DropEnds, NothingKept
  PROVE  Ordered'
<1>1. KeptTypes' /\ AllKept'
  BY KeepsNothing DEF NothingKept
<1>2. /\ ddl = "dropping" /\ ddl' = "idle"
      /\ version' = version + 1 /\ acked' = version + 1
      /\ writer' = [writer EXCEPT !.pc = "idle", !.prov = None]
      /\ UNCHANGED <<providers, loader, mounted, registered>>
  BY DEF DropEnds, mountVars
<1>3. version \in Nat /\ acked \in Nat /\ acked <= version /\ registered = None /\ mounted = None
  BY <1>2 DEF Ordered, Types, CoreTypes, WritesOrdered, MountOrdered
<1>a. /\ writer' \in [pc : {"idle", "planned", "landed"}, prov : Instances, version : Nat]
      /\ writer'.pc = "idle" /\ writer'.prov = None
  BY <1>2, WriterRests
<1>4. Types'
  BY <1>1, <1>2, <1>3, <1>a DEF Ordered, Types, CoreTypes, Instances
<1>5. WritesOrdered' /\ MountOrdered'
  BY <1>2, <1>3, <1>a DEF WritesOrdered, MountOrdered
<1> QED BY <1>1, <1>2, <1>3, <1>4, <1>5, TableStep

\* The refresher prunes the entry of an instance nobody holds.
LEMMA RefresherPrunesKeeps ==
  ASSUME Ordered, RefresherPrunes, NothingKept
  PROVE  Ordered'
<1>1. KeptTypes' /\ AllKept'
  BY KeepsNothing DEF NothingKept
<1>2. /\ registered # mounted /\ registered' = None
      /\ UNCHANGED <<version, acked, writer, providers, loader, mounted, ddl>>
  BY DEF RefresherPrunes, catalogVars, ddlVars, Alive
<1>3. Types'
  BY <1>1, <1>2 DEF Ordered, Types, CoreTypes, Instances
<1>4. WritesOrdered' /\ MountOrdered'
  BY <1>2 DEF Ordered, WritesOrdered, MountOrdered
<1> QED BY <1>1, <1>2, <1>3, <1>4, TableStep DEF Ordered, Types, CoreTypes

----------------------------------------------------------------------------
\* Readers and the refresher, the steps that change nothing but the loader.

\* What is known of a loader.
LEMMA LoaderFields ==
  ASSUME Ordered, NEW l \in Loaders
  PROVE  /\ loader[l] \in Loader /\ loader[l].prov \in Instances /\ LoaderFits(loader[l])
         /\ l \in Readers => ReaderFits(loader[l])
BY DEF Ordered, Types, CoreTypes, AllLoaders

\* What is known of an instance that a loader holds.
LEMMA HeldFields ==
  ASSUME Ordered, NEW p \in Instances, p # None
  PROVE  /\ p \in DOMAIN providers /\ ProviderOrdered(p) /\ acked <= version
         /\ version \in Nat /\ acked \in Nat
         /\ providers[p].writeGen \in Nat /\ providers[p].freshGen \in Nat
         /\ providers[p].cached.gen \in Nat /\ providers[p].cached.version \in Int
         /\ providers[p].seen \in Int
<1>1. p \in DOMAIN providers
  BY DEF Instances
<1> QED BY <1>1, ProviderFields DEF Ordered, AllProviders, WritesOrdered

\* A loader with nothing to do fits any state.
LEMMA RestingFits ==
  ASSUME Ordered, NEW s \in {"idle", "dead"}
  PROVE  /\ [Resting EXCEPT !.pc = s] \in Loader /\ [Resting EXCEPT !.pc = s].prov = None
         /\ None \in Instances
         /\ LoaderFits([Resting EXCEPT !.pc = s]) /\ ReaderFits([Resting EXCEPT !.pc = s])
         /\ \A l : AnswerSound(l, [Resting EXCEPT !.pc = s])
<1> DEFINE x == [Resting EXCEPT !.pc = s]
<1>1. acked \in Nat /\ None \in Int /\ None \in Instances
  BY DEF Ordered, Types, CoreTypes, None, Instances
<1>2. Resting \in Loader /\ Resting.prov = None /\ Resting.since = 0
  BY <1>1 DEF Resting, Loader, Steps
<1>3. x \in Loader /\ x.prov = None /\ x.since = 0 /\ x.pc = s
  BY <1>2 DEF Loader, Steps
<1> HIDE DEF x
<1>4. LoaderFits(x) /\ ReaderFits(x) /\ \A l : AnswerSound(l, x)
  BY <1>1, <1>3 DEF LoaderFits, ReaderFits, AnswerSound, Loading, Answered, Reading
<1> QED BY <1>1, <1>3, <1>4 DEF x

\* A loader that gives up, or is done.
LEMMA RestStep ==
  ASSUME Ordered, NEW l \in Loaders, Goto(l, Resting) \/ Goto(l, [Resting EXCEPT !.pc = "dead"]),
         UNCHANGED <<catalogVars, providers, mountVars, ddl>>, KeptTypes', AllKept'
  PROVE  Ordered'
<1>1. PICK s \in {"idle", "dead"} : Goto(l, [Resting EXCEPT !.pc = s])
  <2>1. Resting \in Loader /\ Resting.pc = "idle"
    BY DEF Resting, Loader, Steps, None
  <2>2. Resting = [Resting EXCEPT !.pc = "idle"]
    BY <2>1 DEF Loader
  <2> QED BY <2>2
<1> DEFINE x == [Resting EXCEPT !.pc = s]
<1>2. x \in Loader /\ x.prov = None /\ x.prov \in Instances /\ LoaderFits(x) /\ ReaderFits(x)
      /\ AnswerSound(l, x) /\ Goto(l, x)
  BY <1>1, RestingFits
<1> HIDE DEF x
<1> QED BY <1>2, LoaderStep

\* analyze reads the version that the plan would be validated by.
LEMMA ReadAnalyzeKeeps ==
  ASSUME Ordered, NEW r \in Readers, ReadAnalyze(r), NothingKept
  PROVE  Ordered'
<1> DEFINE p == loader[r].prov
           x == [loader[r] EXCEPT !.pc = "check", !.before = PlanCacheVersion(p)]
<1>1. KeptTypes' /\ AllKept' /\ r \in Loaders
  BY KeepsNothing DEF NothingKept, Loaders
<1>2. /\ loader[r].pc = "analyze" /\ Goto(r, x)
      /\ UNCHANGED <<catalogVars, providers, mountVars, ddl>>
  BY DEF ReadAnalyze, ddlVars
<1>3. loader[r] \in Loader /\ p \in Instances /\ LoaderFits(loader[r]) /\ ReaderFits(loader[r])
  BY <1>1, LoaderFields
<1>4. p # None
  BY <1>2, <1>3 DEF ReaderFits, Reading
<1>5. PlanCacheVersion(p) \in Int /\ PlanCacheVersion(p) <= providers[p].cached.version
  BY <1>3, <1>4, HeldFields DEF PlanCacheVersion, ProviderOrdered, None
<1>6. /\ x \in Loader /\ x.pc = "check" /\ x.prov = p /\ x.since = loader[r].since
      /\ x.before = PlanCacheVersion(p)
  BY <1>3, <1>5, Zenon DEF Loader, Steps
<1> HIDE DEF x
<1>7. LoaderFits(x) /\ ReaderFits(x) /\ AnswerSound(r, x)
  BY <1>3, <1>4, <1>5, <1>6 DEF LoaderFits, ReaderFits, AnswerSound, Loading, Answered, Reading
<1> QED BY <1>1, <1>2, <1>3, <1>6, <1>7, LoaderStep

\* current_provider finds the cache fresh, or begins a load.
LEMMA ReadCheckKeeps ==
  ASSUME Ordered, NEW r \in Readers, ReadCheck(r), NothingKept
  PROVE  Ordered'
<1> DEFINE p == loader[r].prov
           x == IF IsFresh(p) THEN [loader[r] EXCEPT !.pc = "fast"]
                ELSE [loader[r] EXCEPT !.pc = "load", !.token = providers[p].writeGen]
<1>1. KeptTypes' /\ AllKept' /\ r \in Loaders
  BY KeepsNothing DEF NothingKept, Loaders
<1>2. /\ loader[r].pc = "check" /\ Goto(r, x)
      /\ UNCHANGED <<catalogVars, providers, mountVars, ddl>>
  BY DEF ReadCheck, ddlVars
<1>3. loader[r] \in Loader /\ p \in Instances /\ LoaderFits(loader[r]) /\ ReaderFits(loader[r])
  BY <1>1, LoaderFields
<1>4. p # None
  BY <1>2, <1>3 DEF ReaderFits, Reading
<1>5. providers[p].writeGen \in Nat
  BY <1>3, <1>4, HeldFields
<1>6. /\ x \in Loader /\ x.prov = p /\ x.since = loader[r].since /\ x.before = loader[r].before
      /\ IF IsFresh(p) THEN x.pc = "fast" ELSE x.pc = "load" /\ x.token = providers[p].writeGen
  BY <1>3, <1>5, Zenon DEF Loader, Steps
<1>7. IsFresh(p) => loader[r].since <= providers[p].cached.version
  BY <1>4 DEF Ordered, AllSound, Sound
<1> HIDE DEF x
<1>8. LoaderFits(x)
  BY <1>3, <1>4, <1>5, <1>6 DEF LoaderFits, Loading, Answered
<1>9. ReaderFits(x) /\ AnswerSound(r, x)
  BY <1>2, <1>3, <1>4, <1>6, <1>7 DEF ReaderFits, AnswerSound, Loading, Answered, Reading
<1> QED BY <1>1, <1>2, <1>3, <1>6, <1>8, <1>9, LoaderStep

\* The cached snapshot is read after the check.
LEMMA ReadFastKeeps ==
  ASSUME Ordered, NEW r \in Readers, ReadFast(r), NothingKept
  PROVE  Ordered'
<1> DEFINE p == loader[r].prov
           has == providers[p].cached # Empty
           x == IF has THEN [loader[r] EXCEPT !.pc = "planned", !.got = providers[p].cached.version]
                ELSE [loader[r] EXCEPT !.pc = "load", !.token = providers[p].writeGen]
<1>1. KeptTypes' /\ AllKept' /\ r \in Loaders
  BY KeepsNothing DEF NothingKept, Loaders
<1>2. /\ loader[r].pc = "fast" /\ Goto(r, x)
      /\ UNCHANGED <<catalogVars, providers, mountVars, ddl>>
  BY DEF ReadFast, ddlVars
<1>3. loader[r] \in Loader /\ p \in Instances /\ LoaderFits(loader[r]) /\ ReaderFits(loader[r])
  BY <1>1, LoaderFields
<1>4. p # None
  BY <1>2, <1>3 DEF ReaderFits, Reading
<1>5. providers[p].writeGen \in Nat /\ providers[p].cached.version \in Int
  BY <1>3, <1>4, HeldFields
<1> HIDE DEF has
<1>6. /\ x \in Loader /\ x.prov = p /\ x.since = loader[r].since /\ x.before = loader[r].before
      /\ IF has THEN x.pc = "planned" /\ x.got = providers[p].cached.version
         ELSE x.pc = "load" /\ x.token = providers[p].writeGen
  BY <1>3, <1>5, Zenon DEF Loader, Steps
<1> HIDE DEF x
<1>7. LoaderFits(x)
  BY <1>3, <1>4, <1>5, <1>6 DEF LoaderFits, Loading, Answered
<1>8. ReaderFits(x) /\ AnswerSound(r, x)
  BY <1>2, <1>3, <1>4, <1>6 DEF ReaderFits, AnswerSound, Loading, Answered, Reading
<1> QED BY <1>1, <1>2, <1>3, <1>6, <1>7, <1>8, LoaderStep

----------------------------------------------------------------------------
\* load_current, by a reader or by the refresher.

\* The catalog answers with its head, which has every acknowledged write.
LEMMA LoadAnsweredKeeps ==
  ASSUME Ordered, NEW l \in Loaders, LoadAnswered(l), NothingKept
  PROVE  Ordered'
<1> DEFINE p == loader[l].prov
           x == [loader[l] EXCEPT !.pc = "compare", !.got = version]
<1>1. KeptTypes' /\ AllKept'
  BY KeepsNothing DEF NothingKept
<1>2. /\ loader[l].pc = "load" /\ Goto(l, x)
      /\ UNCHANGED <<catalogVars, providers, mountVars, ddl>>
  BY DEF LoadAnswered, ddlVars
<1>3. /\ loader[l] \in Loader /\ p \in Instances /\ LoaderFits(loader[l])
      /\ l \in Readers => ReaderFits(loader[l])
  BY LoaderFields
<1>4. p # None
  BY <1>2, <1>3 DEF LoaderFits, Loading
<1>5. /\ providers[p].cached.version \in Int /\ providers[p].cached.version <= version
      /\ version \in Nat /\ version \in Int /\ acked \in Nat /\ acked <= version
  BY <1>3, <1>4, HeldFields DEF ProviderOrdered
<1>6. /\ x \in Loader /\ x.pc = "compare" /\ x.prov = p /\ x.since = loader[l].since
      /\ x.before = loader[l].before /\ x.token = loader[l].token /\ x.got = version
  BY <1>3, <1>5, Zenon DEF Loader, Steps
<1>7. loader[l].since \in Nat /\ loader[l].before \in Int
  BY <1>3 DEF Loader
<1> HIDE DEF x
<1>8. LoaderFits(x) /\ AnswerSound(l, x)
  BY <1>2, <1>3, <1>4, <1>5, <1>6 DEF LoaderFits, AnswerSound, Loading, Answered
<1>9. l \in Readers => ReaderFits(x)
  BY <1>2, <1>3, <1>4, <1>5, <1>6, <1>7 DEF ReaderFits, Loading, Answered, Reading
<1> QED BY <1>1, <1>2, <1>3, <1>6, <1>8, <1>9, LoaderStep

\* The catalog is down: a reader may serve what is cached, and says so.
LEMMA LoadFailsKeeps ==
  ASSUME Ordered, NEW l \in Loaders, LoadFails(l), NothingKept
  PROVE  Ordered'
<1> DEFINE p == loader[l].prov
           cached == providers[p].cached
           x == [loader[l] EXCEPT !.pc = "planned", !.stale = TRUE, !.token = 0,
                                  !.got = cached.version]
<1>1. KeptTypes' /\ AllKept'
  BY KeepsNothing DEF NothingKept
<1>2. /\ loader[l].pc = "load" /\ (Goto(l, x) \/ Goto(l, Resting))
      /\ UNCHANGED <<catalogVars, providers, mountVars, ddl>>
  BY DEF LoadFails, ddlVars
<1>3. /\ loader[l] \in Loader /\ p \in Instances /\ LoaderFits(loader[l])
      /\ l \in Readers => ReaderFits(loader[l])
  BY LoaderFields
<1>4. p # None
  BY <1>2, <1>3 DEF LoaderFits, Loading
<1>5. cached.version \in Int
  BY <1>3, <1>4, HeldFields
<1>6. /\ x \in Loader /\ x.pc = "planned" /\ x.prov = p /\ x.since = loader[l].since
      /\ x.before = loader[l].before /\ x.got = cached.version /\ x.stale
  BY <1>3, <1>5, Zenon DEF Loader, Steps
<1> HIDE DEF x
<1>7. LoaderFits(x) /\ AnswerSound(l, x)
  BY <1>6 DEF LoaderFits, AnswerSound, Loading, Answered
<1>8. l \in Readers => ReaderFits(x)
  BY <1>2, <1>3, <1>4, <1>6 DEF ReaderFits, Loading, Answered, Reading
<1>9. CASE Goto(l, x)
  BY <1>1, <1>2, <1>3, <1>6, <1>7, <1>8, <1>9, LoaderStep
<1>10. CASE Goto(l, Resting)
  BY <1>1, <1>2, <1>10, RestStep
<1> QED BY <1>2, <1>9, <1>10

\* What complete_load does to an instance.
LEMMA CompletedFields ==
  ASSUME NEW old \in Provider, NEW token \in Nat, NEW read \in Int, NEW new,
         new = CompleteLoad(old, token, read)
  PROVE  /\ new \in Provider /\ new.writeGen = old.writeGen /\ new.cached = old.cached
         /\ new.freshGen = old.freshGen \/ new.freshGen = token
         /\ old.seen <= new.seen /\ read <= new.seen
<1> DEFINE f == IF old.freshGen >= token THEN old.freshGen ELSE token
           s == IF old.seen >= read THEN old.seen ELSE read
<1>1. f \in Nat /\ s \in Int /\ old.seen <= s /\ read <= s /\ (f = old.freshGen \/ f = token)
  BY DEF Provider
<1>2. new = [old EXCEPT !.freshGen = f, !.seen = s]
  BY DEF CompleteLoad
<1> HIDE DEF f, s
<1>3. /\ new \in Provider /\ new.writeGen = old.writeGen /\ new.cached = old.cached
      /\ new.freshGen = f /\ new.seen = s
  BY <1>1, <1>2, Zenon DEF Provider
<1> QED BY <1>1, <1>3

\* complete_load: an instance becomes fresh through a load that no invalidation has
\* overtaken, and the cache then has what that load read.
LEMMA CompleteStep ==
  ASSUME Ordered, NEW l \in Loaders, NEW p, p = loader[l].prov, loader[l].pc \in Answered,
         loader[l].token = providers[p].writeGen => loader[l].got <= providers[p].cached.version,
         providers' = [providers EXCEPT ![p] = CompleteLoad(@, loader[l].token, loader[l].got)],
         Finish(l), UNCHANGED <<catalogVars, mountVars, ddl>>, NothingKept
  PROVE  Ordered'
<1> DEFINE old == providers[p]
           new == CompleteLoad(old, loader[l].token, loader[l].got)
           x == IF l = "refresher" THEN Resting ELSE [loader[l] EXCEPT !.pc = "planned", !.token = 0]
<1>1. KeptTypes' /\ AllKept' /\ Goto(l, x)
  BY KeepsNothing DEF NothingKept, Finish
<1>2. /\ loader[l] \in Loader /\ p \in Instances /\ LoaderFits(loader[l])
      /\ l \in Readers => ReaderFits(loader[l])
  BY LoaderFields
<1>3. p # None /\ p \in DOMAIN providers /\ loader[l].token <= old.writeGen
  BY <1>2 DEF LoaderFits, Loading, Answered, Instances
<1>4. /\ old \in Provider /\ ProviderOrdered(p) /\ old.writeGen \in Nat /\ old.freshGen \in Nat
      /\ old.seen \in Int /\ old.cached.version \in Int
      /\ loader[l].token \in Nat /\ loader[l].got \in Int
  BY <1>2, <1>3, HeldFields, ProviderFields DEF Loader
<1>5. /\ new \in Provider /\ new.writeGen = old.writeGen /\ new.cached = old.cached
      /\ new.freshGen = old.freshGen \/ new.freshGen = loader[l].token
      /\ old.seen <= new.seen /\ loader[l].got <= new.seen
  BY <1>4, CompletedFields, Zenon
<1>6. /\ providers' \in Seq(Provider) /\ DOMAIN providers' = DOMAIN providers
      /\ \A q \in DOMAIN providers : providers'[q] = IF q = p THEN new ELSE providers[q]
  BY <1>3, <1>5 DEF Ordered, Types, CoreTypes
<1> HIDE DEF new
<1>7. loader' = [loader EXCEPT ![l] = x] /\ loader \in [Loaders -> Loader]
  BY <1>1 DEF Goto, Ordered, Types, CoreTypes
<1>8. x \in Loader /\ x.prov \in {None, p} /\ x.pc \in {"idle", "planned"}
  <2>1. Resting \in Loader /\ Resting.prov = None /\ Resting.pc = "idle"
    BY DEF Resting, Loader, Steps, None
  <2>2. /\ [loader[l] EXCEPT !.pc = "planned", !.token = 0] \in Loader
        /\ [loader[l] EXCEPT !.pc = "planned", !.token = 0].prov = p
        /\ [loader[l] EXCEPT !.pc = "planned", !.token = 0].pc = "planned"
    BY <1>2, Zenon DEF Loader, Steps
  <2> QED BY <2>1, <2>2
<1>9. l \in Readers => /\ x.prov = p /\ x.since = loader[l].since /\ x.pc = "planned"
                       /\ x.got = loader[l].got /\ x.before = loader[l].before
  BY <1>2, ConstantsAssumption DEF Loader, Steps
<1> HIDE DEF x
<1>10. Types'
  BY <1>1, <1>2, <1>6, <1>7, <1>8 DEF Ordered, Types, CoreTypes, Instances, catalogVars, mountVars
<1>11. WritesOrdered' /\ MountOrdered'
  BY DEF Ordered, WritesOrdered, MountOrdered, catalogVars, mountVars
<1>12. AllProviders'
  <2> SUFFICES ASSUME NEW q \in DOMAIN providers PROVE ProviderOrdered(q)'
    BY <1>6 DEF AllProviders
  <2>1. ProviderOrdered(q)
    BY DEF Ordered, AllProviders
  <2> QED BY <1>3, <1>4, <1>5, <1>6, <2>1 DEF ProviderOrdered, catalogVars
<1>13. Advances
  <2>1. version' = version /\ acked' = acked /\ version \in Nat /\ acked \in Nat
    BY DEF catalogVars, Ordered, Types, CoreTypes
  <2>2. ASSUME NEW q \in DOMAIN providers
        PROVE  /\ providers[q].writeGen <= providers'[q].writeGen
               /\ providers[q].cached.version <= providers'[q].cached.version
    BY <1>5, <1>6, ProviderFields
  <2> QED BY <1>6, <2>1, <2>2 DEF Advances
<1>14. loader'[l] = x
  BY <1>7
<1>15. AllLoaders'
  <2>1. LoaderFits(loader[l])'
    BY <1>8, <1>14 DEF LoaderFits, Loading, Answered
  <2>2. l \in Readers => ReaderFits(loader[l])'
    BY <1>2, <1>3, <1>9, <1>14 DEF ReaderFits, Loading, Answered, Reading, catalogVars
  <2> QED BY <1>1, <1>10, <1>13, <2>1, <2>2, LoaderMoves
<1>16. SoundKept
  <2> SUFFICES ASSUME NEW q \in DOMAIN providers, NEW n \in Nat, n <= acked, Sound(q, n)
               PROVE  Sound(q, n)'
    BY DEF SoundKept
  <2>1. ASSUME NEW m \in Loaders, loader'[m].prov = q, loader'[m].pc \in Answered,
               loader'[m].token = providers'[q].writeGen
        PROVE  n <= loader'[m].got
    <3>1. m # l
      BY <1>7, <1>8, <2>1 DEF Answered
    <3> QED BY <1>5, <1>6, <1>7, <2>1, <3>1 DEF Sound
  <2>2. ASSUME IsFresh(q)'
        PROVE  n <= providers'[q].cached.version /\ n <= providers'[q].seen
    <3>0. new \in Provider /\ new.seen \in Int /\ n \in Int
      BY <1>5 DEF Provider
    <3>1. CASE q # p
      BY <1>6, <2>2, <3>1 DEF Sound, IsFresh
    <3>2. CASE q = p /\ old.freshGen = old.writeGen
      <4>1. n <= old.cached.version /\ n <= old.seen
        BY <3>2 DEF Sound, IsFresh
      <4> QED BY <1>4, <1>5, <1>6, <3>0, <3>2, <4>1
    <3>3. CASE q = p /\ loader[l].token = old.writeGen
      <4>1. n <= loader[l].got /\ loader[l].got <= old.cached.version
        BY <3>3 DEF Sound
      <4> QED BY <1>4, <1>5, <1>6, <3>0, <3>3, <4>1
    <3> QED BY <1>5, <1>6, <2>2, <3>1, <3>2, <3>3, Zenon DEF IsFresh
  <2> QED BY <2>1, <2>2 DEF Sound
<1>17. AllSound'
  <2>1. \A r \in Readers :
          loader'[r].prov # None =>
            loader'[r].prov = loader[r].prov /\ loader'[r].since = loader[r].since
    BY <1>7, <1>9 DEF Loaders
  <2> QED BY <1>16, <2>1, SoundStep DEF catalogVars, mountVars
<1> QED BY <1>1, <1>10, <1>11, <1>12, <1>15, <1>17 DEF Ordered

\* The snapshot that is cached is still the head, or a provider has to be built.
LEMMA LoadCompareKeeps ==
  ASSUME Ordered, NEW l \in Loaders, LoadCompare(l), NothingKept
  PROVE  Ordered'
<1> DEFINE p == loader[l].prov
           x == [loader[l] EXCEPT !.pc = "install"]
<1>1. KeptTypes' /\ AllKept'
  BY KeepsNothing DEF NothingKept
<1>2. loader[l].pc = "compare" /\ UNCHANGED <<catalogVars, mountVars, ddl>>
  BY DEF LoadCompare, ddlVars
<1>3. /\ loader[l] \in Loader /\ p \in Instances /\ LoaderFits(loader[l])
      /\ l \in Readers => ReaderFits(loader[l])
  BY LoaderFields
<1>4. CASE providers[p].cached.version = loader[l].got
  <2>1. /\ providers' = [providers EXCEPT ![p] = CompleteLoad(@, loader[l].token, loader[l].got)]
        /\ Finish(l)
    BY <1>4 DEF LoadCompare
  <2>2. loader[l].got <= providers[p].cached.version /\ loader[l].pc \in Answered
    BY <1>2, <1>3, <1>4 DEF Loader, Answered
  <2> QED BY <1>2, <2>1, <2>2, CompleteStep, Zenon
<1>5. CASE providers[p].cached.version # loader[l].got
  <2>1. Goto(l, x) /\ UNCHANGED providers
    BY <1>5 DEF LoadCompare
  <2>2. /\ x \in Loader /\ x.pc = "install" /\ x.prov = p /\ x.since = loader[l].since
        /\ x.before = loader[l].before /\ x.token = loader[l].token /\ x.got = loader[l].got
    BY <1>3 DEF Loader, Steps
  <2> HIDE DEF x
  <2>3. LoaderFits(x) /\ AnswerSound(l, x)
    BY <1>2, <1>3, <2>2 DEF LoaderFits, AnswerSound, Loading, Answered
  <2>4. l \in Readers => ReaderFits(x)
    BY <1>2, <1>3, <2>2 DEF ReaderFits, Loading, Answered, Reading
  <2> QED BY <1>1, <1>2, <1>3, <2>1, <2>2, <2>3, <2>4, LoaderStep
<1> QED BY <1>4, <1>5

\* The load ends with complete_load.
LEMMA LoadCompleteKeeps ==
  ASSUME Ordered, NEW l \in Loaders, LoadComplete(l), NothingKept
  PROVE  Ordered'
<1> DEFINE p == loader[l].prov
<1>1. /\ loader[l].pc = "complete" /\ Finish(l) /\ UNCHANGED <<catalogVars, mountVars, ddl>>
      /\ providers' = [providers EXCEPT ![p] = CompleteLoad(@, loader[l].token, loader[l].got)]
  BY DEF LoadComplete, ddlVars
<1>2. LoaderFits(loader[l]) /\ loader[l].pc \in Answered
  BY <1>1, LoaderFields DEF Answered
<1>3. loader[l].token = providers[p].writeGen => loader[l].got <= providers[p].cached.version
  BY <1>1, <1>2 DEF LoaderFits
<1> QED BY <1>1, <1>2, <1>3, CompleteStep, Zenon

\* The snapshot is installed unless a later generation's is; as no older one may
\* take a newer one's place, the cache does not go back.
LEMMA LoadInstallKeeps ==
  ASSUME Ordered, NEW l \in Loaders, LoadInstall(l), NothingKept, raced' = {}
  PROVE  Ordered'
<1> DEFINE p == loader[l].prov
           old == providers[p]
           snap == IF old.cached.gen > loader[l].token THEN old.cached
                   ELSE [version |-> loader[l].got, gen |-> loader[l].token]
           new == [old EXCEPT !.cached = snap]
           x == [loader[l] EXCEPT !.pc = "complete"]
<1>1. KeptTypes' /\ AllKept'
  BY KeepsNothing DEF NothingKept
<1>2. loader[l].pc = "install" /\ Goto(l, x) /\ UNCHANGED <<catalogVars, mountVars, ddl>>
  BY DEF LoadInstall, ddlVars
<1>3. /\ loader[l] \in Loader /\ p \in Instances /\ LoaderFits(loader[l])
      /\ l \in Readers => ReaderFits(loader[l])
  BY LoaderFields
<1>4. /\ p # None /\ p \in DOMAIN providers /\ loader[l].token <= old.writeGen
      /\ loader[l].got <= version
  BY <1>2, <1>3 DEF LoaderFits, Loading, Answered, Instances
<1>5. /\ old \in Provider /\ ProviderOrdered(p) /\ old.writeGen \in Nat /\ old.freshGen \in Nat
      /\ old.seen \in Int /\ old.cached.version \in Int /\ old.cached.gen \in Nat
      /\ loader[l].token \in Nat /\ loader[l].got \in Int /\ version \in Nat
  BY <1>3, <1>4, HeldFields, ProviderFields DEF Loader
<1>6. /\ providers' = [providers EXCEPT ![p] = new]
      /\ ~(providers'[p].cached.version < old.cached.version)
  <2>1. /\ providers' = [providers EXCEPT ![p].cached =
              IF old.cached.gen > loader[l].token THEN @
              ELSE [version |-> loader[l].got, gen |-> loader[l].token]]
        /\ raced' = IF providers'[p].cached.version < old.cached.version
                    THEN raced \cup {"straggler"} ELSE raced
    BY DEF LoadInstall
  <2> QED BY <2>1
<1>7. /\ snap \in [version : Int, gen : Nat] /\ snap.gen <= old.writeGen
      /\ snap.version <= version
      /\ loader[l].token = old.writeGen => snap.version = loader[l].got
  <2>1. /\ old.cached \in [version : Int, gen : Nat] /\ old.cached.gen <= old.writeGen
        /\ old.cached.version <= version
    BY <1>5 DEF ProviderOrdered, Provider
  <2>2. CASE old.cached.gen > loader[l].token
    BY <1>5, <2>1, <2>2
  <2>3. CASE ~(old.cached.gen > loader[l].token)
    BY <1>4, <1>5, <2>3
  <2> QED BY <2>2, <2>3, Zenon
<1> HIDE DEF snap
<1>8. /\ new \in Provider /\ new.cached = snap /\ new.writeGen = old.writeGen
      /\ new.freshGen = old.freshGen /\ new.seen = old.seen
  BY <1>5, <1>7 DEF Provider
<1> HIDE DEF new
<1>9. /\ providers' \in Seq(Provider) /\ DOMAIN providers' = DOMAIN providers
      /\ \A q \in DOMAIN providers : providers'[q] = IF q = p THEN new ELSE providers[q]
  BY <1>4, <1>6, <1>8 DEF Ordered, Types, CoreTypes
<1>10. snap.version \in Int /\ old.cached.version <= snap.version
  BY <1>4, <1>5, <1>6, <1>7, <1>8, <1>9
<1>11. /\ x \in Loader /\ x.pc = "complete" /\ x.prov = p /\ x.since = loader[l].since
       /\ x.before = loader[l].before /\ x.token = loader[l].token /\ x.got = loader[l].got
  BY <1>3 DEF Loader, Steps
<1> HIDE DEF x
<1>12. /\ loader' = [loader EXCEPT ![l] = x] /\ loader \in [Loaders -> Loader]
       /\ loader'[l] = x
  BY <1>2 DEF Goto, Ordered, Types, CoreTypes
<1>13. Types'
  BY <1>1, <1>2, <1>3, <1>9, <1>11, <1>12, Zenon
     DEF Ordered, Types, CoreTypes, Instances, catalogVars, mountVars
<1>14. WritesOrdered' /\ MountOrdered'
  BY <1>2 DEF Ordered, WritesOrdered, MountOrdered, catalogVars, mountVars
<1>15. AllProviders'
  <2> SUFFICES ASSUME NEW q \in DOMAIN providers PROVE ProviderOrdered(q)'
    BY <1>9 DEF AllProviders
  <2>1. ProviderOrdered(q)
    BY DEF Ordered, AllProviders
  <2>2. CASE q = p
    <3>1. /\ new.freshGen <= new.writeGen /\ new.cached.gen <= new.writeGen
          /\ None <= new.cached.version /\ new.cached.version <= version
      BY <1>5, <1>7, <1>8, <1>10, <2>1, <2>2 DEF ProviderOrdered, None
    <3> QED BY <1>2, <1>9, <2>2, <3>1 DEF ProviderOrdered, catalogVars
  <2>3. CASE q # p
    BY <1>2, <1>9, <2>1, <2>3 DEF ProviderOrdered, catalogVars
  <2> QED BY <2>2, <2>3
<1>16. Advances
  <2>1. version' = version /\ acked' = acked /\ version \in Nat /\ acked \in Nat
    BY <1>2 DEF catalogVars, Ordered, Types, CoreTypes
  <2>2. ASSUME NEW q \in DOMAIN providers
        PROVE  /\ providers[q].writeGen <= providers'[q].writeGen
               /\ providers[q].cached.version <= providers'[q].cached.version
    BY <1>8, <1>9, <1>10, ProviderFields
  <2> QED BY <1>9, <2>1, <2>2 DEF Advances
<1>17. AllLoaders'
  <2>1. LoaderFits(loader[l])'
    <3>1. providers'[p] = new /\ version' = version
      BY <1>2, <1>4, <1>9 DEF catalogVars
    <3>2. x.token <= new.writeGen /\ x.got <= version
      BY <1>4, <1>8, <1>11
    <3>3. x.token = new.writeGen => x.got <= new.cached.version
      BY <1>5, <1>7, <1>8, <1>11
    <3> QED BY <1>4, <1>11, <1>12, <3>1, <3>2, <3>3 DEF LoaderFits, Loading, Answered
  <2>2. l \in Readers => ReaderFits(loader[l])'
    BY <1>2, <1>3, <1>4, <1>11, <1>12 DEF ReaderFits, Loading, Answered, Reading, catalogVars
  <2> QED BY <1>2, <1>13, <1>16, <2>1, <2>2, LoaderMoves
<1>18. SoundKept
  <2> SUFFICES ASSUME NEW q \in DOMAIN providers, NEW n \in Nat, n <= acked, Sound(q, n)
               PROVE  Sound(q, n)'
    BY DEF SoundKept
  <2>1. ASSUME NEW m \in Loaders, loader'[m].prov = q, loader'[m].pc \in Answered,
               loader'[m].token = providers'[q].writeGen
        PROVE  n <= loader'[m].got
    <3>1. /\ loader[m].prov = q /\ loader[m].pc \in Answered
          /\ loader[m].token = providers[q].writeGen /\ loader'[m].got = loader[m].got
      BY <1>2, <1>8, <1>9, <1>11, <1>12, <2>1 DEF Answered
    <3> QED BY <3>1 DEF Sound
  <2>2. ASSUME IsFresh(q)'
        PROVE  n <= providers'[q].cached.version /\ n <= providers'[q].seen
    <3>1. n <= providers[q].cached.version /\ n <= providers[q].seen
      BY <1>8, <1>9, <2>2 DEF Sound, IsFresh
    <3>2. CASE q = p
      BY <1>5, <1>8, <1>9, <1>10, <3>1, <3>2
    <3>3. CASE q # p
      BY <1>9, <3>1, <3>3
    <3> QED BY <3>2, <3>3
  <2> QED BY <2>1, <2>2 DEF Sound
<1>19. AllSound'
  <2>1. \A r \in Readers :
          loader'[r].prov # None =>
            loader'[r].prov = loader[r].prov /\ loader'[r].since = loader[r].since
    BY <1>11, <1>12 DEF Loaders
  <2> QED BY <1>2, <1>18, <2>1, SoundStep DEF catalogVars, mountVars
<1> QED BY <1>1, <1>13, <1>14, <1>15, <1>17, <1>19 DEF Ordered

\* A load that is dropped, and a refresher that dies or is respawned.
LEMMA AbandonKeeps ==
  ASSUME Ordered, NothingKept,
         (\E l \in Loaders : LoadAborted(l)) \/ RefresherDies \/ RefresherRespawned
  PROVE  Ordered'
<1>1. KeptTypes' /\ AllKept' /\ "refresher" \in Loaders
  BY KeepsNothing DEF NothingKept, Loaders
<1>2. CASE \E l \in Loaders : LoadAborted(l)
  BY <1>1, <1>2, RestStep DEF LoadAborted, ddlVars
<1>3. CASE RefresherDies
  BY <1>1, <1>3, RestStep DEF RefresherDies, ddlVars
<1>4. CASE RefresherRespawned
  BY <1>1, <1>4, RestStep DEF RefresherRespawned, ddlVars
<1> QED BY <1>2, <1>3, <1>4

\* A pass of the refresher begins a load.
LEMMA RefresherPassKeeps ==
  ASSUME Ordered, RefresherPass, NothingKept
  PROVE  Ordered'
<1> DEFINE l == "refresher"
           p == registered
           x == [Resting EXCEPT !.pc = "load", !.prov = p, !.token = providers[p].writeGen]
<1>1. KeptTypes' /\ AllKept' /\ l \in Loaders /\ l \notin Readers
  BY KeepsNothing, ConstantsAssumption DEF NothingKept, Loaders
<1>2. p # None /\ Goto(l, x) /\ UNCHANGED <<catalogVars, providers, mountVars, ddl>>
  BY DEF RefresherPass, ddlVars
<1>3. p \in Instances /\ p \in DOMAIN providers /\ p \in Int
  BY <1>2 DEF Instances, Ordered, Types, CoreTypes
<1>4. providers[p].writeGen \in Nat
  BY <1>3, ProviderFields
<1>5. Resting \in Loader
  BY DEF Resting, Loader, Steps, None
<1>6. x \in Loader /\ x.pc = "load" /\ x.prov = p /\ x.token = providers[p].writeGen
  BY <1>3, <1>4, <1>5, Zenon DEF Loader, Steps
<1> HIDE DEF x, l
<1>7. LoaderFits(x) /\ AnswerSound(l, x)
  BY <1>2, <1>4, <1>6 DEF LoaderFits, AnswerSound, Loading, Answered
<1> QED BY <1>1, <1>2, <1>3, <1>6, <1>7, LoaderStep

----------------------------------------------------------------------------
\* CachingSchemaProvider::table.

\* What is sound for a version is so for an earlier one.
LEMMA SoundEarlier ==
  ASSUME Ordered, NEW p \in DOMAIN providers, NEW n \in Nat, NEW m \in Nat, m <= n, Sound(p, n)
  PROVE  Sound(p, m)
<1>1. providers[p].cached.version \in Int /\ providers[p].seen \in Int
  BY ProviderFields
<1>2. \A l \in Loaders : loader[l].got \in Int
  BY DEF Ordered, Types, CoreTypes, Loader
<1> QED BY <1>1, <1>2 DEF Sound

\* The mounted instance is the registered one, and sound for what is acknowledged.
LEMMA LookupMounted ==
  ASSUME Ordered, NEW r \in Readers, loader[r].pc = "lookup", mounted # None,
         Goto(r, [loader[r] EXCEPT !.pc = "analyze", !.prov = mounted]),
         UNCHANGED <<catalogVars, providers, mountVars, ddl>>, NothingKept
  PROVE  Ordered'
<1> DEFINE x == [loader[r] EXCEPT !.pc = "analyze", !.prov = mounted]
<1>1. KeptTypes' /\ AllKept' /\ r \in Loaders
  BY KeepsNothing DEF NothingKept, Loaders
<1>2. loader[r] \in Loader /\ LoaderFits(loader[r]) /\ ReaderFits(loader[r])
  BY <1>1, LoaderFields
<1>3. /\ mounted \in Instances /\ mounted \in DOMAIN providers /\ mounted \in Int
      /\ Sound(mounted, acked) /\ acked \in Nat
  BY DEF Ordered, MountOrdered, AllSound, Types, CoreTypes, Instances
<1>4. /\ x \in Loader /\ x.pc = "analyze" /\ x.prov = mounted /\ x.since = loader[r].since
      /\ x.since \in Nat
  BY <1>2, <1>3, Zenon DEF Loader, Steps
<1> HIDE DEF x
<1>5. /\ loader' = [loader EXCEPT ![r] = x] /\ loader \in [Loaders -> Loader]
      /\ loader'[r] = x /\ Goto(r, x)
  BY <1>1 DEF Goto, Ordered, Types, CoreTypes, x
<1>6. Types'
  BY <1>1, <1>3, <1>4, <1>5 DEF Ordered, Types, CoreTypes, Instances, catalogVars, mountVars
<1>7. WritesOrdered' /\ MountOrdered' /\ AllProviders'
  BY DEF Ordered, WritesOrdered, MountOrdered, AllProviders, ProviderOrdered, catalogVars, mountVars
<1>8. Advances
  BY ProviderFields DEF Advances, catalogVars, Ordered, Types, CoreTypes
<1>9. LoaderFits(loader[r])' /\ ReaderFits(loader[r])'
  BY <1>2, <1>4, <1>5 DEF LoaderFits, ReaderFits, Loading, Answered, Reading, catalogVars
<1>10. AllLoaders'
  BY <1>1, <1>5, <1>6, <1>8, <1>9, LoaderMoves
<1>11. SoundKept
  <2>1. AnswerSound(r, x)
    BY <1>4 DEF AnswerSound, Answered
  <2> QED BY <1>1, <1>4, <1>5, <2>1, SoundMoves
<1>12. AllSound'
  <2>1. registered' # None => Sound(registered, acked)'
    BY <1>11 DEF Ordered, AllSound, SoundKept, Types, CoreTypes, Instances, catalogVars, mountVars
  <2>2. ASSUME NEW s \in Readers, loader'[s].prov # None
        PROVE  Sound(loader[s].prov, loader[s].since)'
    <3>1. CASE s = r
      <4>1. x.since <= acked
        BY <1>2, <1>4 DEF ReaderFits
      <4>2. Sound(mounted, x.since)
        BY <1>3, <1>4, <4>1, SoundEarlier
      <4>3. PICK q \in DOMAIN providers, n \in Nat : q = mounted /\ n = x.since
        BY <1>3, <1>4
      <4>4. Sound(q, n)'
        BY <1>11, <4>1, <4>2, <4>3 DEF SoundKept
      <4>5. loader'[s].prov = q /\ loader'[s].since = n
        BY <1>4, <1>5, <3>1, <4>3
      <4> QED BY <4>4, <4>5
    <3>2. CASE s # r
      <4>1. loader'[s] = loader[s]
        BY <1>5, <3>2 DEF Loaders
      <4>2. /\ loader[s].prov \in DOMAIN providers /\ loader[s].since \in Nat
            /\ loader[s].since <= acked /\ Sound(loader[s].prov, loader[s].since)
        BY <2>2, <4>1 DEF Ordered, AllSound, AllLoaders, ReaderFits, Types, CoreTypes, Instances,
                          Loaders, Loader
      <4> QED BY <1>11, <4>1, <4>2 DEF SoundKept
    <3> QED BY <3>1, <3>2
  <2> QED BY <2>1, <2>2 DEF AllSound
<1> QED BY <1>1, <1>6, <1>7, <1>10, <1>12 DEF Ordered

\* A new instance is born stale, and nobody else holds it.
LEMMA LookupBuilds ==
  ASSUME Ordered, NEW r \in Readers, loader[r].pc = "lookup", mounted = None, registered = None,
         ddl = "idle", providers' = Append(providers, NewProvider),
         registered' = Len(providers) + 1,
         Goto(r, [loader[r] EXCEPT !.pc = "mount", !.prov = Len(providers) + 1]),
         UNCHANGED <<catalogVars, mounted, ddl>>, NothingKept
  PROVE  Ordered'
<1>1. KeptTypes' /\ AllKept' /\ r \in Loaders
  BY KeepsNothing DEF NothingKept, Loaders
<1>2. loader[r] \in Loader /\ LoaderFits(loader[r]) /\ ReaderFits(loader[r])
  BY <1>1, LoaderFields
<1>3. PICK q \in Int : q = Len(providers) + 1 /\ q # None
  BY DEF Ordered, Types, CoreTypes, None
<1> DEFINE x == [loader[r] EXCEPT !.pc = "mount", !.prov = q]
<1>4. NewProvider \in Provider
  BY DEF NewProvider, Provider, Empty, None
<1>5. providers \in Seq(Provider) /\ DOMAIN providers = 1 .. Len(providers) /\ Len(providers) \in Nat
  BY DEF Ordered, Types, CoreTypes
<1>6. /\ providers' \in Seq(Provider) /\ DOMAIN providers' = DOMAIN providers \cup {q}
      /\ \A p \in DOMAIN providers : providers'[p] = providers[p]
      /\ providers'[q] = NewProvider /\ q \notin DOMAIN providers
  BY <1>3, <1>4, <1>5
<1>7. /\ x \in Loader /\ x.pc = "mount" /\ x.prov = q /\ x.since = loader[r].since
      /\ x.since \in Nat
  BY <1>2, <1>3, Zenon DEF Loader, Steps
<1>8. /\ loader' = [loader EXCEPT ![r] = x] /\ loader \in [Loaders -> Loader]
      /\ loader'[r] = x /\ Goto(r, x)
  BY <1>1, <1>3 DEF Goto, Ordered, Types, CoreTypes
<1> HIDE DEF x
<1>9. Types'
  <2>1. \A p \in Instances : p \in Instances'
    BY <1>6 DEF Instances
  <2>2. \A l \in Loaders : loader'[l].prov \in Instances'
    BY <1>6, <1>7, <1>8, <2>1 DEF Ordered, Types, CoreTypes, Instances
  <2>3. /\ version' \in Nat /\ acked' \in Nat /\ mounted' \in Instances'
        /\ writer' \in [pc : {"idle", "planned", "landed"}, prov : Instances', version : Nat]
    BY <2>1 DEF Ordered, Types, CoreTypes, catalogVars
  <2> QED BY <1>1, <1>3, <1>6, <1>7, <1>8, <2>1, <2>2, <2>3 DEF Types, CoreTypes, Instances
<1>10. WritesOrdered' /\ MountOrdered'
  BY DEF Ordered, WritesOrdered, MountOrdered, catalogVars
<1>11. AllProviders'
  <2> SUFFICES ASSUME NEW p \in DOMAIN providers' PROVE ProviderOrdered(p)'
    BY DEF AllProviders
  <2>1. CASE p = q
    BY <1>6, <2>1
       DEF ProviderOrdered, NewProvider, Empty, None, Ordered, Types, CoreTypes, catalogVars
  <2>2. CASE p \in DOMAIN providers
    BY <1>6, <2>2 DEF Ordered, AllProviders, ProviderOrdered, catalogVars
  <2> QED BY <1>6, <2>1, <2>2
<1>12. Advances
  BY <1>6, ProviderFields DEF Advances, catalogVars, Ordered, Types, CoreTypes
<1>13. LoaderFits(loader[r])' /\ ReaderFits(loader[r])'
  BY <1>2, <1>3, <1>7, <1>8 DEF LoaderFits, ReaderFits, Loading, Answered, Reading, catalogVars
<1>14. AllLoaders'
  BY <1>1, <1>8, <1>9, <1>12, <1>13, LoaderMoves
<1>15. \A n : Sound(q, n)'
  <2>1. \A l \in Loaders : loader'[l].prov = q => l = r
    BY <1>3, <1>6, <1>8 DEF Ordered, Types, CoreTypes, Instances
  <2>2. ~IsFresh(q)'
    BY <1>6 DEF IsFresh, NewProvider
  <2> QED BY <1>7, <1>8, <2>1, <2>2 DEF Sound, Answered
<1>16. SoundKept
  <2> SUFFICES ASSUME NEW p \in DOMAIN providers, NEW n \in Nat, Sound(p, n)
               PROVE  Sound(p, n)'
    BY DEF SoundKept
  <2>1. \A l \in Loaders : loader'[l].prov = p => loader'[l] = loader[l]
    BY <1>6, <1>7, <1>8
  <2> QED BY <1>6, <2>1 DEF Sound, IsFresh
<1>17. AllSound'
  <2>1. Sound(registered, acked)'
    BY <1>3, <1>15
  <2>2. ASSUME NEW s \in Readers, loader'[s].prov # None
        PROVE  Sound(loader[s].prov, loader[s].since)'
    <3>1. CASE s = r
      BY <1>7, <1>8, <1>15, <3>1
    <3>2. CASE s # r
      <4>1. loader'[s] = loader[s]
        BY <1>8, <3>2 DEF Loaders
      <4>2. /\ loader[s].prov \in DOMAIN providers /\ loader[s].since \in Nat
            /\ loader[s].since <= acked /\ Sound(loader[s].prov, loader[s].since)
        BY <2>2, <4>1 DEF Ordered, AllSound, AllLoaders, ReaderFits, Types, CoreTypes, Instances,
                          Loaders, Loader
      <4> QED BY <1>16, <4>1, <4>2 DEF SoundKept
    <3> QED BY <3>1, <3>2
  <2> QED BY <2>1, <2>2 DEF AllSound
<1> QED BY <1>1, <1>9, <1>10, <1>11, <1>14, <1>17 DEF Ordered

\* Either of the two; two instances of one table would be a race.
LEMMA ReadLookupKeeps ==
  ASSUME Ordered, NEW r \in Readers, ReadLookup(r), NothingKept, raced' = {}
  PROVE  Ordered'
<1>1. loader[r].pc = "lookup" /\ UNCHANGED <<catalogVars, mounted, ddl>>
  BY DEF ReadLookup, ddlVars
<1>2. CASE mounted # None
  <2>1. /\ Goto(r, [loader[r] EXCEPT !.pc = "analyze", !.prov = mounted])
        /\ UNCHANGED <<providers, registered>>
    BY <1>2 DEF ReadLookup
  <2> QED BY <1>1, <1>2, <2>1, LookupMounted, Zenon DEF mountVars
<1>3. CASE mounted = None
  <2>1. /\ providers' = Append(providers, NewProvider)
        /\ registered' = Len(providers) + 1
        /\ Goto(r, [loader[r] EXCEPT !.pc = "mount", !.prov = Len(providers) + 1])
        /\ raced' = raced \cup (IF registered # None THEN {"twins"} ELSE {})
                          \cup (IF ddl # "idle" THEN {"ddl"} ELSE {})
    BY <1>3, Zenon DEF ReadLookup
  <2>2. registered = None /\ ddl = "idle"
    BY <2>1
  <2> QED BY <1>1, <1>3, <2>1, <2>2, LookupBuilds, Zenon
<1> QED BY <1>2, <1>3

\* The instance that is mounted is the registered one; otherwise it is a race.
LEMMA ReadMountKeeps ==
  ASSUME Ordered, NEW r \in Readers, ReadMount(r), NothingKept, raced' = {}
  PROVE  Ordered'
<1> DEFINE x == [loader[r] EXCEPT !.pc = "analyze"]
<1>1. KeptTypes' /\ AllKept' /\ r \in Loaders
  BY KeepsNothing DEF NothingKept, Loaders
<1>2. loader[r] \in Loader /\ LoaderFits(loader[r]) /\ ReaderFits(loader[r])
  BY <1>1, LoaderFields
<1>3. /\ loader[r].pc = "mount" /\ mounted' = loader[r].prov /\ Goto(r, x)
      /\ UNCHANGED <<catalogVars, providers, registered, ddl>>
      /\ ddl = "idle" /\ registered = mounted'
  BY DEF ReadMount, ddlVars
<1>4. loader[r].prov # None /\ loader[r].prov \in Instances
  BY <1>2, <1>3 DEF ReaderFits, Reading, Ordered, Types, CoreTypes, Loaders
<1>5. /\ x \in Loader /\ x.pc = "analyze" /\ x.prov = loader[r].prov
      /\ x.since = loader[r].since
  BY <1>2 DEF Loader, Steps
<1> HIDE DEF x
<1>6. /\ loader' = [loader EXCEPT ![r] = x] /\ loader \in [Loaders -> Loader]
      /\ loader'[r] = x
  BY <1>1, <1>3 DEF Goto, Ordered, Types, CoreTypes
<1>7. Types'
  BY <1>1, <1>3, <1>4, <1>5, <1>6 DEF Ordered, Types, CoreTypes, Instances, catalogVars
<1>8. WritesOrdered' /\ AllProviders'
  BY <1>3 DEF Ordered, WritesOrdered, AllProviders, ProviderOrdered, catalogVars
<1>9. MountOrdered'
  BY <1>3, <1>4 DEF Ordered, MountOrdered, catalogVars
<1>10. Advances
  BY <1>3, ProviderFields DEF Advances, catalogVars, Ordered, Types, CoreTypes
<1>11. LoaderFits(loader[r])' /\ ReaderFits(loader[r])'
  BY <1>2, <1>3, <1>4, <1>5, <1>6, Zenon
     DEF LoaderFits, ReaderFits, Loading, Answered, Reading, catalogVars
<1>12. AllLoaders'
  BY <1>1, <1>3, <1>7, <1>10, <1>11, LoaderMoves, Zenon
<1>13. SoundKept
  <2>1. AnswerSound(r, x)
    BY <1>5 DEF AnswerSound, Answered
  <2> QED BY <1>1, <1>3, <1>5, <2>1, SoundMoves
<1>14. AllSound'
  <2>1. \A s \in Readers : loader'[s].prov = loader[s].prov /\ loader'[s].since = loader[s].since
    BY <1>5, <1>6 DEF Loaders
  <2> QED BY <1>3, <1>13, <2>1, SoundStep DEF catalogVars
<1> QED BY <1>1, <1>7, <1>8, <1>9, <1>12, <1>14 DEF Ordered

----------------------------------------------------------------------------
\* What is kept, and what is served from it.

Phases == {"none", "info", "held", "get"}

\* NoPlan may be kept anywhere.
LEMMA NoPlanKept == NoPlan \in Entry /\ Kept(NoPlan)
BY DEF NoPlan, Entry, Kept, None

\* A lookup returns what is kept, or nothing.
LEMMA LookedKept ==
  ASSUME NEW e \in Entry, Kept(e)
  PROVE  /\ Looked(e) \in Entry /\ Kept(Looked(e))
         /\ Looked(e) # NoPlan => Looked(e) = e /\ VersionsCurrent(e)
BY NoPlanKept DEF Looked

\* What a reader may keep was planned at the version before planning, or later.
LEMMA KeepableKept ==
  ASSUME Ordered, NEW r \in Readers, loader[r].pc = "planned"
  PROVE  Keepable(r) \in Entry /\ Kept(Keepable(r))
<1>1. loader[r] \in Loader /\ ReaderFits(loader[r])
  BY LoaderFields DEF Loaders
<1>2. /\ loader[r].before <= loader[r].got
      /\ loader[r].before \in Int /\ loader[r].got \in Int
  BY <1>1 DEF ReaderFits, Loader
<1>3. CASE loader[r].before # None /\ loader[r].before = CurrentVersion
  BY <1>2, <1>3 DEF Keepable, Entry, Kept
<1> QED BY <1>3, NoPlanKept DEF Keepable

\* The caches after a step of one reader.
LEMMA KeptStep ==
  ASSUME Ordered, NEW r \in Readers, plan' \in Entry, Kept(plan'), result' \in Entry, Kept(result'),
         sink' = sink \/ \E e \in Entry : Kept(e) /\ sink' = [sink EXCEPT ![r] = e],
         \/ ticket' = ticket
         \/ \E h \in Phases, e \in Entry :
              Kept(e) /\ ticket' = [ticket EXCEPT ![r] = [phase |-> h, pin |-> e]]
  PROVE  KeptTypes' /\ AllKept'
<1>1. /\ sink \in [Readers -> Entry] /\ ticket \in [Readers -> [phase : Phases, pin : Entry]]
      /\ \A s \in Readers : Kept(sink[s]) /\ Kept(ticket[s].pin)
  BY DEF Ordered, Types, KeptTypes, AllKept, Phases
<1>2. sink' \in [Readers -> Entry] /\ \A s \in Readers : Kept(sink'[s])
  BY <1>1
<1>3. /\ ticket' \in [Readers -> [phase : Phases, pin : Entry]]
      /\ \A s \in Readers : Kept(ticket'[s].pin)
  BY <1>1
<1> QED BY <1>2, <1>3 DEF KeptTypes, AllKept, Kept, Phases

\* An entry that is current is as new as the fresh cache of the registered instance.
LEMMA CurrentServes ==
  ASSUME Ordered, NEW e \in Entry, Kept(e), VersionsCurrent(e)
  PROVE  acked <= e.baked
<1>1. e.version # None /\ e.version = CurrentVersion /\ e.version <= e.baked
  BY DEF VersionsCurrent, Kept
<1>2. registered # None /\ e.version = PlanCacheVersion(registered)
  BY <1>1 DEF CurrentVersion
<1>3. IsFresh(registered) /\ e.version = providers[registered].cached.version
  BY <1>1, <1>2 DEF PlanCacheVersion
<1>4. acked <= e.version
  BY <1>2, <1>3 DEF Ordered, AllSound, Sound
<1> QED BY <1>1, <1>4 DEF Ordered, Types, CoreTypes, Entry

\* A statement is answered from what is kept, or planned.
LEMMA StartStep ==
  ASSUME Ordered, NEW r \in Readers, KeptTypes', AllKept',
         PlanFrom(r) \/ \E e \in Entry : acked <= e.baked /\ Serve(r, e),
         UNCHANGED <<catalogVars, providers, mountVars, ddl>>
  PROVE  Ordered'
<1>1. r \in Loaders /\ acked \in Nat /\ None \in Instances
  BY DEF Loaders, Ordered, Types, CoreTypes, Instances
<1>2. Resting \in Loader /\ Resting.prov = None /\ Resting.stale = FALSE
  BY DEF Resting, Loader, Steps, None
<1>3. CASE PlanFrom(r)
  <2> DEFINE x == [Resting EXCEPT !.since = acked, !.pc = "lookup"]
  <2>1. x \in Loader /\ x.prov = None /\ x.pc = "lookup" /\ x.since = acked /\ Goto(r, x)
    BY <1>1, <1>2, <1>3, Zenon DEF Loader, Steps, PlanFrom
  <2> HIDE DEF x
  <2>2. LoaderFits(x) /\ AnswerSound(r, x)
    BY <2>1, Zenon DEF LoaderFits, AnswerSound, Loading, Answered
  <2>3. ReaderFits(x)
    <3>1. x.since <= acked
      BY <1>1, <2>1
    <3>2. x.pc \notin Reading \cup Answered \cup {"planned", "done"}
      BY <2>1 DEF Reading, Loading, Answered
    <3> QED BY <3>1, <3>2 DEF ReaderFits, Reading, Loading
  <2> QED BY <1>1, <2>1, <2>2, <2>3, LoaderStep, Zenon
<1>4. CASE \E e \in Entry : acked <= e.baked /\ Serve(r, e)
  <2>1. PICK e \in Entry : acked <= e.baked /\ Serve(r, e)
    BY <1>4
  <2> DEFINE x == [Resting EXCEPT !.since = acked, !.pc = "done", !.got = e.baked]
  <2>2. e.baked \in Int
    BY DEF Entry
  <2>3. /\ x \in Loader /\ x.prov = None /\ x.pc = "done" /\ x.since = acked /\ x.got = e.baked
        /\ Goto(r, x)
    BY <1>1, <1>2, <2>1, <2>2, Zenon DEF Loader, Steps, Serve
  <2> HIDE DEF x
  <2>4. LoaderFits(x) /\ AnswerSound(r, x)
    BY <2>3 DEF LoaderFits, AnswerSound, Loading, Answered
  <2>5. ReaderFits(x)
    BY <1>1, <2>1, <2>3 DEF ReaderFits, Loading, Answered, Reading
  <2> QED BY <1>1, <2>3, <2>4, <2>5, LoaderStep, Zenon
<1> QED BY <1>3, <1>4

\* Types and ages of what is kept, by cache.
LEMMA KeptFields ==
  ASSUME Ordered, NEW r \in Readers
  PROVE  /\ plan \in Entry /\ Kept(plan) /\ result \in Entry /\ Kept(result)
         /\ sink[r] \in Entry /\ Kept(sink[r])
         /\ ticket[r] \in [phase : Phases, pin : Entry] /\ ticket[r].pin \in Entry
         /\ Kept(ticket[r].pin) /\ r \in Loaders
BY DEF Ordered, Types, KeptTypes, AllKept, Phases, Loaders

\* PlanCacheHook::run: the result cache, then the plan cache.
LEMMA PgStartKeeps ==
  ASSUME Ordered, NEW r \in Readers, PgStart(r)
  PROVE  Ordered'
<1>1. plan \in Entry /\ Kept(plan) /\ result \in Entry /\ Kept(result)
  BY KeptFields
<1>2. /\ result' = Looked(result) /\ UNCHANGED <<catalogVars, providers, mountVars, ddl, ticket>>
      /\ IF result' # NoPlan
         THEN Serve(r, result') /\ UNCHANGED <<plan, sink>>
         ELSE /\ plan' = Looked(plan)
              /\ sink' = [sink EXCEPT ![r] = plan']
              /\ IF plan' # NoPlan THEN Serve(r, plan') ELSE PlanFrom(r)
  BY Zenon DEF PgStart, ddlVars
<1>3. /\ result' \in Entry /\ Kept(result')
      /\ result' # NoPlan => result' = result /\ VersionsCurrent(result)
  BY <1>1, <1>2, LookedKept
<1>4. CASE result' # NoPlan
  <2>1. KeptTypes' /\ AllKept'
    BY <1>1, <1>2, <1>3, <1>4, KeptStep
  <2>2. acked <= result.baked /\ Serve(r, result)
    BY <1>1, <1>2, <1>3, <1>4, CurrentServes
  <2> QED BY <1>1, <1>2, <2>1, <2>2, StartStep
<1>5. CASE result' = NoPlan
  <2>1. /\ plan' \in Entry /\ Kept(plan')
        /\ plan' # NoPlan => plan' = plan /\ VersionsCurrent(plan)
    BY <1>1, <1>2, <1>5, LookedKept
  <2>2. KeptTypes' /\ AllKept'
    BY <1>2, <1>3, <1>5, <2>1, KeptStep
  <2>3. PlanFrom(r) \/ (acked <= plan.baked /\ Serve(r, plan))
    BY <1>1, <1>2, <1>5, <2>1, CurrentServes
  <2> QED BY <1>1, <1>2, <2>2, <2>3, StartStep
<1> QED BY <1>4, <1>5

\* The statement is planned; the plan is cached if the versions did not change.
LEMMA ReadPlannedKeeps ==
  ASSUME Ordered, NEW r \in Readers, ReadPlanned(r), UNCHANGED <<result, ticket>>,
         sink' = sink \/ sink' = [sink EXCEPT ![r] = Keepable(r)]
  PROVE  Ordered'
<1> DEFINE x == [loader[r] EXCEPT !.pc = "done", !.prov = None, !.before = None]
<1>1. /\ plan \in Entry /\ Kept(plan) /\ result \in Entry /\ Kept(result) /\ r \in Loaders
  BY KeptFields
<1>2. /\ loader[r].pc = "planned" /\ Goto(r, x)
      /\ UNCHANGED <<catalogVars, providers, mountVars, ddl>>
      /\ plan' = Keepable(r) \/ plan' = plan
  BY DEF ReadPlanned, ddlVars, Keepable
<1>3. Keepable(r) \in Entry /\ Kept(Keepable(r))
  BY <1>2, KeepableKept
<1>4. KeptTypes' /\ AllKept'
  BY <1>1, <1>2, <1>3, KeptStep
<1>5. loader[r] \in Loader /\ ReaderFits(loader[r])
  BY <1>1, LoaderFields
<1>6. None \in Int /\ None \in Instances
  BY DEF None, Instances
<1>7. /\ x \in Loader /\ x.prov = None /\ x.pc = "done" /\ x.since = loader[r].since
      /\ x.got = loader[r].got /\ x.stale = loader[r].stale
  BY <1>5, <1>6, Zenon DEF Loader, Steps
<1> HIDE DEF x
<1>8. LoaderFits(x) /\ ReaderFits(x) /\ AnswerSound(r, x)
  BY <1>2, <1>5, <1>7 DEF LoaderFits, ReaderFits, AnswerSound, Loading, Answered, Reading
<1> QED BY <1>1, <1>2, <1>4, <1>6, <1>7, <1>8, LoaderStep

\* CachingTee stores the rows when the stream ends.
LEMMA PgDoneKeeps ==
  ASSUME Ordered, NEW r \in Readers, PgDone(r)
  PROVE  Ordered'
<1>1. /\ plan \in Entry /\ Kept(plan) /\ result \in Entry /\ Kept(result)
      /\ sink[r] \in Entry /\ Kept(sink[r]) /\ r \in Loaders
  BY KeptFields
<1>2. /\ Goto(r, Resting) /\ UNCHANGED <<catalogVars, providers, mountVars, ddl, plan, ticket>>
      /\ result' = result \/ result' = sink[r]
      /\ sink' = [sink EXCEPT ![r] = NoPlan]
  BY DEF PgDone, ReadDone, ResultInsert, ddlVars
<1>3. KeptTypes' /\ AllKept'
  BY <1>1, <1>2, NoPlanKept, KeptStep, Zenon
<1> QED BY <1>1, <1>2, <1>3, RestStep

\* GetFlightInfo pins a cached plan, or begins to plan.
LEMMA InfoStartKeeps ==
  ASSUME Ordered, NEW r \in Readers, InfoStart(r)
  PROVE  Ordered'
<1>1. plan \in Entry /\ Kept(plan) /\ result \in Entry /\ Kept(result)
  BY KeptFields
<1>2. /\ plan' = Looked(plan)
      /\ UNCHANGED <<catalogVars, providers, mountVars, ddl, result, sink>>
      /\ IF plan' # NoPlan
         THEN /\ ticket' = [ticket EXCEPT ![r] = [phase |-> "held", pin |-> plan']]
              /\ UNCHANGED loader
         ELSE /\ ticket' = [ticket EXCEPT ![r] = [phase |-> "info", pin |-> NoPlan]]
              /\ PlanFrom(r)
  BY Zenon DEF InfoStart, ddlVars
<1>3. plan' \in Entry /\ Kept(plan')
  BY <1>1, <1>2, LookedKept
<1>4. \E h \in Phases, e \in Entry :
        Kept(e) /\ ticket' = [ticket EXCEPT ![r] = [phase |-> h, pin |-> e]]
  <2>1. CASE plan' # NoPlan
    <3>1. "held" \in Phases
      BY DEF Phases
    <3> QED BY <1>2, <1>3, <2>1, <3>1, Zenon
  <2>2. CASE plan' = NoPlan
    <3>1. "info" \in Phases
      BY DEF Phases
    <3> QED BY <1>2, <2>2, <3>1, NoPlanKept, Zenon
  <2> QED BY <2>1, <2>2
<1>5. KeptTypes' /\ AllKept'
  BY <1>1, <1>2, <1>3, <1>4, KeptStep, Zenon
<1>6. CASE PlanFrom(r)
  BY <1>2, <1>5, <1>6, StartStep
<1>7. CASE UNCHANGED loader
  <2>1. Types' /\ WritesOrdered' /\ MountOrdered'
    BY <1>2, <1>5, <1>7, Zenon
       DEF Ordered, Types, CoreTypes, Instances, WritesOrdered, MountOrdered,
                            catalogVars, mountVars
  <2> QED BY <1>2, <1>5, <1>7, <2>1, TableStep DEF Ordered, Types, CoreTypes, catalogVars, mountVars
<1> QED BY <1>2, <1>6, <1>7

\* A ticket that changes in one of its two fields.
LEMMA TicketFields ==
  ASSUME NEW r \in Readers, ticket[r] \in [phase : Phases, pin : Entry], NEW h, NEW e
  PROVE  /\ [ticket EXCEPT ![r].phase = h]
              = [ticket EXCEPT ![r] = [phase |-> h, pin |-> ticket[r].pin]]
         /\ [ticket EXCEPT ![r].pin = e]
              = [ticket EXCEPT ![r] = [phase |-> ticket[r].phase, pin |-> e]]
<1>1. ticket[r] = [phase |-> ticket[r].phase, pin |-> ticket[r].pin]
  OBVIOUS
<1>2. /\ [ticket[r] EXCEPT !.phase = h] = [phase |-> h, pin |-> ticket[r].pin]
      /\ [ticket[r] EXCEPT !.pin = e] = [phase |-> ticket[r].phase, pin |-> e]
  BY <1>1
<1> QED BY <1>2, Zenon

\* A table that is not fresh is not planned for the schema's sake.
LEMMA InfoIneligibleKeeps ==
  ASSUME Ordered, NEW r \in Readers, InfoIneligible(r)
  PROVE  Ordered'
<1>1. /\ plan \in Entry /\ Kept(plan) /\ result \in Entry /\ Kept(result)
      /\ ticket[r] \in [phase : Phases, pin : Entry] /\ Kept(ticket[r].pin) /\ r \in Loaders
  BY KeptFields
<1>2. /\ Goto(r, Resting) /\ UNCHANGED <<catalogVars, providers, mountVars, ddl, plan, result, sink>>
      /\ ticket' = [ticket EXCEPT ![r].phase = "held"]
  BY DEF InfoIneligible, ddlVars
<1>3. /\ ticket' = [ticket EXCEPT ![r] = [phase |-> "held", pin |-> ticket[r].pin]]
      /\ "held" \in Phases /\ ticket[r].pin \in Entry
  BY <1>1, <1>2, TicketFields, Zenon DEF Phases
<1>4. \E h \in Phases, e \in Entry :
        Kept(e) /\ ticket' = [ticket EXCEPT ![r] = [phase |-> h, pin |-> e]]
  BY <1>1, <1>3, Zenon
<1>5. KeptTypes' /\ AllKept'
  BY <1>1, <1>2, <1>4, KeptStep, Zenon
<1> QED BY <1>1, <1>2, <1>5, RestStep

\* The plan is pinned for the DoGet and cached.
LEMMA InfoPlannedKeeps ==
  ASSUME Ordered, NEW r \in Readers, InfoPlanned(r)
  PROVE  Ordered'
<1>1. plan \in Entry /\ Kept(plan) /\ result \in Entry /\ Kept(result) /\ r \in Loaders
  BY KeptFields
<1>2. /\ loader[r].pc = "planned" /\ Goto(r, Resting)
      /\ UNCHANGED <<catalogVars, providers, mountVars, ddl, result, sink>>
      /\ ticket' = [ticket EXCEPT ![r] = [phase |-> "held", pin |-> Keepable(r)]]
      /\ plan' = Keepable(r) \/ plan' = plan
  BY DEF InfoPlanned, ddlVars
<1>3. Keepable(r) \in Entry /\ Kept(Keepable(r)) /\ "held" \in Phases
  BY <1>2, KeepableKept DEF Phases
<1>4. KeptTypes' /\ AllKept'
  BY <1>1, <1>2, <1>3, KeptStep, Zenon
<1> QED BY <1>1, <1>2, <1>4, RestStep

\* Planning for the schema failed, or the pinned plan is dropped.
LEMMA PinKeeps ==
  ASSUME Ordered, NEW r \in Readers, InfoFails(r) \/ StashDrops(r)
  PROVE  Ordered'
<1>1. /\ plan \in Entry /\ Kept(plan) /\ result \in Entry /\ Kept(result)
      /\ ticket[r] \in [phase : Phases, pin : Entry] /\ Kept(ticket[r].pin)
  BY KeptFields
<1>2. UNCHANGED <<vars, result, sink>>
  BY DEF InfoFails, StashDrops
<1>3. \E h \in Phases, e \in Entry :
        Kept(e) /\ ticket' = [ticket EXCEPT ![r] = [phase |-> h, pin |-> e]]
  <2>1. CASE InfoFails(r)
    <3>1. PICK h \in {"none", "held"} : ticket' = [ticket EXCEPT ![r].phase = h]
      BY <2>1, Zenon DEF InfoFails
    <3>2. ticket' = [ticket EXCEPT ![r] = [phase |-> h, pin |-> ticket[r].pin]]
      BY <1>1, <3>1, TicketFields, Zenon
    <3> QED BY <1>1, <3>2, Zenon DEF Phases
  <2>2. CASE StashDrops(r)
    <3>1. ticket' = [ticket EXCEPT ![r] = [phase |-> ticket[r].phase, pin |-> NoPlan]]
      BY <1>1, <2>2, TicketFields, Zenon DEF StashDrops
    <3> QED BY <1>1, <3>1, NoPlanKept, Zenon
  <2> QED BY <2>1, <2>2
<1>4. KeptTypes' /\ AllKept'
  BY <1>1, <1>2, <1>3, KeptStep, Zenon DEF vars
<1>5. Types' /\ WritesOrdered' /\ MountOrdered'
  BY <1>2, <1>4 DEF Ordered, Types, CoreTypes, Instances, WritesOrdered, MountOrdered, vars,
                    catalogVars, mountVars, ddlVars
<1> QED BY <1>2, <1>4, <1>5, TableStep
        DEF Ordered, Types, CoreTypes, vars, catalogVars, mountVars, ddlVars

\* DoGet: the pinned plan while it is current, else physical_plan.
LEMMA DoGetKeeps ==
  ASSUME Ordered, NEW r \in Readers, DoGet(r)
  PROVE  Ordered'
<1>1. /\ plan \in Entry /\ Kept(plan) /\ result \in Entry /\ Kept(result)
      /\ ticket[r].pin \in Entry /\ Kept(ticket[r].pin)
  BY KeptFields
<1>2. /\ UNCHANGED <<catalogVars, providers, mountVars, ddl, result, sink>>
      /\ ticket' = [ticket EXCEPT ![r] = [phase |-> "get", pin |-> NoPlan]]
      /\ \/ VersionsCurrent(ticket[r].pin) /\ Serve(r, ticket[r].pin) /\ plan' = plan
         \/ PhysicalPlan(r)
  BY Zenon DEF DoGet, TakePin, TakeIfValid, ddlVars
<1>3. "get" \in Phases
  BY DEF Phases
<1>4. CASE VersionsCurrent(ticket[r].pin) /\ Serve(r, ticket[r].pin) /\ plan' = plan
  <2>1. KeptTypes' /\ AllKept'
    BY <1>1, <1>2, <1>3, <1>4, NoPlanKept, KeptStep, Zenon
  <2>2. acked <= ticket[r].pin.baked
    BY <1>1, <1>4, CurrentServes
  <2> QED BY <1>1, <1>2, <1>4, <2>1, <2>2, StartStep, Zenon
<1>5. CASE PhysicalPlan(r)
  <2>1. plan' = Looked(plan) /\ IF plan' # NoPlan THEN Serve(r, plan') ELSE PlanFrom(r)
    BY <1>5, Zenon DEF PhysicalPlan
  <2>2. /\ plan' \in Entry /\ Kept(plan')
        /\ plan' # NoPlan => plan' = plan /\ VersionsCurrent(plan)
    BY <1>1, <2>1, LookedKept
  <2>3. KeptTypes' /\ AllKept'
    BY <1>1, <1>2, <1>3, <2>2, NoPlanKept, KeptStep, Zenon
  <2>4. PlanFrom(r) \/ (acked <= plan.baked /\ Serve(r, plan))
    BY <1>1, <2>1, <2>2, CurrentServes
  <2> QED BY <1>1, <1>2, <2>3, <2>4, StartStep
<1> QED BY <1>2, <1>4, <1>5

\* The stream of a DoGet ends.
LEMMA FlightDoneKeeps ==
  ASSUME Ordered, NEW r \in Readers, FlightDone(r)
  PROVE  Ordered'
<1>1. plan \in Entry /\ Kept(plan) /\ result \in Entry /\ Kept(result) /\ r \in Loaders
  BY KeptFields
<1>2. /\ Goto(r, Resting) /\ UNCHANGED <<catalogVars, providers, mountVars, ddl, plan, result, sink>>
      /\ ticket' = [ticket EXCEPT ![r] = [phase |-> "none", pin |-> NoPlan]]
  BY DEF FlightDone, NoTicket, ddlVars
<1>3. "none" \in Phases
  BY DEF Phases
<1>4. KeptTypes' /\ AllKept'
  BY <1>1, <1>2, <1>3, NoPlanKept, KeptStep, Zenon
<1> QED BY <1>1, <1>2, <1>4, RestStep

----------------------------------------------------------------------------
\* The invariant.

\* Nothing has been read yet.
LEMMA FreshInvInit ==
  ASSUME ReuseInit
  PROVE  FreshInv
<1>1. /\ version = 0 /\ acked = 0 /\ ddl = "idle"
      /\ writer = [pc |-> "idle", prov |-> None, version |-> 0]
      /\ \/ providers = <<NewProvider>> /\ mounted = 1 /\ registered = 1
         \/ providers = <<>> /\ mounted = None /\ registered = None
      /\ loader = [l \in Loaders |-> Resting]
      /\ plan = NoPlan /\ result = NoPlan /\ sink = [r \in Readers |-> NoPlan]
      /\ ticket = [r \in Readers |-> NoTicket]
  BY DEF ReuseInit, Init
<1>2. /\ NewProvider \in Provider /\ NewProvider.writeGen = 1 /\ NewProvider.freshGen = 0
      /\ NewProvider.cached = [version |-> None, gen |-> 0]
  BY DEF NewProvider, Provider, Empty, None
<1>3. /\ Resting \in Loader /\ Resting.prov = None /\ Resting.pc = "idle" /\ Resting.since = 0
  BY DEF Resting, Loader, Steps, None
<1>4. None \in Int /\ None < 0 /\ 1 # None
  BY DEF None
<1>5. /\ providers \in Seq(Provider) /\ mounted \in Instances /\ registered \in Instances
      /\ mounted = registered
      /\ \A p \in DOMAIN providers : providers[p] = NewProvider
  <2>1. CASE providers = <<NewProvider>> /\ mounted = 1 /\ registered = 1
    <3>1. <<NewProvider>> \in Seq(Provider) /\ DOMAIN <<NewProvider>> = {1}
      BY <1>2
    <3> QED BY <2>1, <3>1 DEF Instances
  <2>2. CASE providers = <<>> /\ mounted = None /\ registered = None
    <3>1. <<>> \in Seq(Provider) /\ DOMAIN <<>> = {}
      OBVIOUS
    <3> QED BY <2>2, <3>1 DEF Instances
  <2> QED BY <1>1, <2>1, <2>2
<1>6. CoreTypes
  BY <1>1, <1>3, <1>5 DEF CoreTypes, Instances
<1>7. KeptTypes /\ AllKept
  BY <1>1, NoPlanKept DEF KeptTypes, AllKept, NoTicket
<1>8. WritesOrdered /\ MountOrdered
  BY <1>1, <1>5 DEF WritesOrdered, MountOrdered
<1>9. AllProviders
  BY <1>1, <1>2, <1>4, <1>5 DEF AllProviders, ProviderOrdered
<1>10. AllLoaders
  <2>1. \A l \in Loaders : loader[l] = Resting
    BY <1>1
  <2>2. LoaderFits(Resting)
    BY <1>3 DEF LoaderFits, Loading, Answered
  <2>3. ReaderFits(Resting)
    BY <1>1, <1>3 DEF ReaderFits, Loading, Answered, Reading
  <2> QED BY <2>1, <2>2, <2>3 DEF AllLoaders, Loaders
<1>11. AllSound
  <2>1. \A p \in DOMAIN providers : ~IsFresh(p)
    BY <1>2, <1>5 DEF IsFresh
  <2>2. \A l \in Loaders : loader[l].prov = None
    BY <1>1, <1>3
  <2> QED BY <1>5, <2>1, <2>2 DEF AllSound, Sound, Instances, Loaders
<1> QED BY <1>6, <1>7, <1>8, <1>9, <1>10, <1>11 DEF FreshInv, Ordered, Types

\* Races are only ever added to `raced`.
LEMMA RacedGrows ==
  ASSUME ReuseNext, raced' = {}
  PROVE  raced = {}
<1>1. CASE \/ Unkept(WriterPlans) \/ Unkept(WriterCommits) \/ Unkept(WriterReturns)
           \/ Unkept(WriterRefused) \/ Unkept(ForeignCommit) \/ Unkept(DropUnmounts)
           \/ Unkept(DropFences) \/ Unkept(DropEnds)
  BY <1>1 DEF Unkept, WriterPlans, WriterCommits, WriterReturns, WriterRefused, ForeignCommit, DropUnmounts,
              DropFences, DropEnds
<1>2. ASSUME NEW r \in Readers,
             \/ PgStart(r) \/ PgPlanned(r) \/ PgDone(r)
             \/ InfoStart(r) \/ InfoIneligible(r) \/ InfoPlanned(r) \/ InfoFails(r)
             \/ StashDrops(r) \/ DoGet(r) \/ FlightDone(r)
      PROVE  raced = {}
  BY <1>2 DEF PgStart, PgPlanned, PgDone, InfoStart, InfoIneligible, InfoPlanned, InfoFails,
              StashDrops, DoGet, FlightDone, ReadPlanned, ReadDone, vars
<1>3. ASSUME NEW r \in Readers,
             ReadPlanned(r) \/ ReadAnalyze(r) \/ ReadMount(r) \/ ReadCheck(r) \/ ReadFast(r)
      PROVE  raced = {}
  BY <1>3 DEF ReadPlanned, ReadAnalyze, ReadMount, ReadCheck, ReadFast
<1>4. ASSUME NEW r \in Readers, ReadLookup(r)
      PROVE  raced = {}
  BY <1>4 DEF ReadLookup
<1>5. ASSUME NEW l \in Loaders, Load(l) \/ LoadFails(l) \/ LoadAborted(l)
      PROVE  raced = {}
  <2>1. CASE LoadInstall(l)
    BY <2>1 DEF LoadInstall
  <2>2. CASE LoadAnswered(l) \/ LoadCompare(l) \/ LoadComplete(l) \/ LoadFails(l) \/ LoadAborted(l)
    BY <2>2 DEF LoadAnswered, LoadCompare, LoadComplete, LoadFails, LoadAborted
  <2> QED BY <1>5, <2>1, <2>2 DEF Load
<1>6. CASE RefresherPass \/ RefresherPrunes \/ RefresherDies \/ RefresherRespawned
  BY <1>6 DEF RefresherPass, RefresherPrunes, RefresherDies, RefresherRespawned
<1> QED BY <1>1, <1>2, <1>3, <1>4, <1>5, <1>6, Zenon DEF ReuseNext, Unkept

\* Every step keeps the order, until a race happens.
LEMMA FreshInvNext ==
  ASSUME FreshInv, [ReuseNext]_allVars
  PROVE  FreshInv'
<1> SUFFICES ASSUME raced' = {} PROVE Ordered'
  BY DEF FreshInv
<1>1. CASE UNCHANGED allVars
  <2>1. Ordered
    BY <1>1 DEF FreshInv, allVars, vars
  <2>2. KeptTypes' /\ AllKept'
    BY <1>1, <2>1, KeepsNothing DEF allVars, vars, reuseVars
  <2>3. Types' /\ WritesOrdered' /\ MountOrdered'
    BY <1>1, <2>1, <2>2 DEF Ordered, Types, CoreTypes, Instances, WritesOrdered, MountOrdered,
                            allVars, vars, catalogVars, mountVars, ddlVars
  <2> QED BY <1>1, <2>1, <2>2, <2>3, TableStep
          DEF Ordered, Types, CoreTypes, allVars, vars, catalogVars, mountVars, ddlVars
<1>2. CASE ReuseNext
  <2> USE DEF NothingKept
  <2>1. Ordered
    BY <1>2, RacedGrows DEF FreshInv
  <2>2. CASE \/ Unkept(WriterPlans) \/ Unkept(WriterCommits) \/ Unkept(WriterReturns)
             \/ Unkept(WriterRefused) \/ Unkept(ForeignCommit) \/ Unkept(DropUnmounts) \/ Unkept(DropFences)
             \/ Unkept(DropEnds)
    <3>0. CASE Unkept(WriterPlans)
      BY <2>1, <3>0, WriterPlansKeeps DEF Unkept, reuseVars, WriterPlans
    <3>1. CASE Unkept(WriterCommits)
      BY <2>1, <3>1, WriterCommitsKeeps DEF Unkept, reuseVars, WriterCommits
    <3>2. CASE Unkept(WriterReturns)
      BY <2>1, <3>2, WriterReturnsKeeps DEF Unkept, reuseVars, WriterReturns
    <3>3. CASE Unkept(WriterRefused)
      BY <2>1, <3>3, WriterRefusedKeeps DEF Unkept, reuseVars, WriterRefused
    <3>4. CASE Unkept(ForeignCommit)
      BY <2>1, <3>4, ForeignCommitKeeps DEF Unkept, reuseVars, ForeignCommit
    <3>5. CASE Unkept(DropUnmounts)
      BY <2>1, <3>5, DropUnmountsKeeps DEF Unkept, reuseVars, DropUnmounts
    <3>6. CASE Unkept(DropFences)
      BY <2>1, <3>6, DropFencesKeeps DEF Unkept, reuseVars, DropFences
    <3>7. CASE Unkept(DropEnds)
      BY <2>1, <3>7, DropEndsKeeps DEF Unkept, reuseVars, DropEnds
    <3> QED BY <2>2, <3>0, <3>1, <3>2, <3>3, <3>4, <3>5, <3>6, <3>7
  <2>3. ASSUME NEW r \in Readers,
               \/ PgStart(r) \/ PgPlanned(r) \/ PgDone(r)
               \/ InfoStart(r) \/ InfoIneligible(r) \/ InfoPlanned(r) \/ InfoFails(r)
               \/ StashDrops(r) \/ DoGet(r) \/ FlightDone(r)
        PROVE  Ordered'
    <3>1. CASE PgPlanned(r)
      BY <2>1, <3>1, ReadPlannedKeeps, Zenon DEF PgPlanned
    <3> QED BY <2>1, <2>3, <3>1, PgStartKeeps, PgDoneKeeps, InfoStartKeeps, InfoIneligibleKeeps,
               InfoPlannedKeeps, PinKeeps, DoGetKeeps, FlightDoneKeeps
  <2>4. ASSUME NEW r \in Readers,
               \/ Unkept(ticket[r].phase = "get" /\ ReadPlanned(r))
               \/ Unkept(ReadAnalyze(r) /\ (ticket[r].phase = "info" => loader'[r].before # None))
               \/ Unkept(ReadLookup(r)) \/ Unkept(ReadMount(r)) \/ Unkept(ReadCheck(r))
               \/ Unkept(ReadFast(r))
        PROVE  Ordered'
    <3>1. CASE Unkept(ticket[r].phase = "get" /\ ReadPlanned(r))
      BY <2>1, <3>1, ReadPlannedKeeps DEF Unkept, reuseVars
    <3>2. CASE Unkept(ReadAnalyze(r) /\ (ticket[r].phase = "info" => loader'[r].before # None))
      BY <2>1, <3>2, ReadAnalyzeKeeps, Zenon DEF Unkept, reuseVars, ReadAnalyze
    <3>3. CASE Unkept(ReadLookup(r))
      BY <2>1, <3>3, ReadLookupKeeps, Zenon DEF Unkept, reuseVars, ReadLookup
    <3>4. CASE Unkept(ReadMount(r))
      BY <2>1, <3>4, ReadMountKeeps DEF Unkept, reuseVars, ReadMount
    <3>5. CASE Unkept(ReadCheck(r))
      BY <2>1, <3>5, ReadCheckKeeps, Zenon DEF Unkept, reuseVars, ReadCheck
    <3>6. CASE Unkept(ReadFast(r))
      BY <2>1, <3>6, ReadFastKeeps, Zenon DEF Unkept, reuseVars, ReadFast
    <3> QED BY <2>4, <3>1, <3>2, <3>3, <3>4, <3>5, <3>6
  <2>5. ASSUME NEW l \in Loaders, Unkept(Load(l) \/ LoadFails(l) \/ LoadAborted(l))
        PROVE  Ordered'
    <3>1. UNCHANGED <<result, sink, ticket>>
      BY <2>5 DEF Unkept, reuseVars
    <3>2. CASE LoadAnswered(l)
      BY <2>1, <3>1, <3>2, LoadAnsweredKeeps, Zenon DEF LoadAnswered
    <3>3. CASE LoadCompare(l)
      BY <2>1, <3>1, <3>3, LoadCompareKeeps DEF LoadCompare
    <3>4. CASE LoadInstall(l)
      BY <2>1, <3>1, <3>4, LoadInstallKeeps, Zenon DEF LoadInstall
    <3>5. CASE LoadComplete(l)
      BY <2>1, <3>1, <3>5, LoadCompleteKeeps, Zenon DEF LoadComplete
    <3>6. CASE LoadFails(l)
      BY <2>1, <3>1, <3>6, LoadFailsKeeps, Zenon DEF LoadFails
    <3>7. CASE LoadAborted(l)
      BY <2>1, <3>1, <3>7, AbandonKeeps, Zenon DEF LoadAborted
    <3> QED BY <2>5, <3>2, <3>3, <3>4, <3>5, <3>6, <3>7 DEF Unkept, Load
  <2>6. CASE Unkept(RefresherPass \/ RefresherPrunes \/ RefresherDies \/ RefresherRespawned)
    <3>1. UNCHANGED <<result, sink, ticket>>
      BY <2>6 DEF Unkept, reuseVars
    <3>2. CASE RefresherPass
      BY <2>1, <3>1, <3>2, RefresherPassKeeps DEF RefresherPass
    <3>3. CASE RefresherPrunes
      BY <2>1, <3>1, <3>3, RefresherPrunesKeeps, Zenon DEF RefresherPrunes
    <3>4. CASE RefresherDies
      BY <2>1, <3>1, <3>4, AbandonKeeps DEF RefresherDies
    <3>5. CASE RefresherRespawned
      BY <2>1, <3>1, <3>5, AbandonKeeps DEF RefresherRespawned
    <3> QED BY <2>6, <3>2, <3>3, <3>4, <3>5 DEF Unkept
  <2> QED BY <1>2, <2>2, <2>3, <2>4, <2>5, <2>6, Zenon DEF ReuseNext
<1> QED BY <1>1, <1>2

\* FreshInv holds in every state of a server that caches tables, plans and results.
LEMMA FreshInvariant == ReuseSpec => []FreshInv
<1>1. ReuseInit => FreshInv
  BY FreshInvInit
<1>2. FreshInv /\ [ReuseNext]_allVars => FreshInv'
  BY FreshInvNext
<1> QED BY <1>1, <1>2, PTL DEF ReuseSpec

\* The cache of the mounted instance counts as fresh only after a load that read
\* every acknowledged local write (begin_load, complete_load, invalidate_key), for
\* any number of readers, instances and commits.
THEOREM FreshAfterLoad == ReuseSpec => []FreshMeansLoaded
<1>1. FreshInv => FreshMeansLoaded
  <2> SUFFICES ASSUME Ordered, mounted # None, IsFresh(mounted)
               PROVE  providers[mounted].seen >= acked
    BY DEF FreshInv, FreshMeansLoaded
  <2>1. acked <= providers[mounted].seen /\ mounted \in Instances
    BY DEF Ordered, MountOrdered, AllSound, Sound, Types, CoreTypes
  <2>2. providers[mounted].seen \in Int /\ acked \in Nat
    BY <2>1, HeldFields
  <2> QED BY <2>1, <2>2
<1> QED BY <1>1, FreshInvariant, PTL

\* Read-your-own-writes: a statement that is served without the stale fallback has
\* every local write that was acknowledged when it began, from whichever cache it
\* was served, until a race the code leaves open happens (is_fresh, load_current,
\* PlanCacheHook::run, take_if_valid, deregister_table).
THEOREM ReadYourWrites == ReuseSpec => []ReadYourWritesUnlessRaced
<1>1. FreshInv => ReadYourWritesUnlessRaced
  <2> SUFFICES ASSUME Ordered, NEW r \in Readers, loader[r].pc = "done", ~loader[r].stale
               PROVE  loader[r].got >= loader[r].since
    BY DEF FreshInv, ReadYourWritesUnlessRaced
  <2>1. loader[r] \in Loader /\ ReaderFits(loader[r])
    BY LoaderFields DEF Loaders
  <2> QED BY <2>1 DEF ReaderFits, Loader
<1> QED BY <1>1, FreshInvariant, PTL

\* What is kept of a statement is never older than the version it is validated by
\* (PlanCacheHook::run, CachingTee::store, plan_for_schema).
THEOREM KeptNotOlder == ReuseSpec => []ReusedNotOlder
<1>1. FreshInv => ReusedNotOlder
  <2> SUFFICES ASSUME Ordered, NEW e \in {plan, result} \cup {ticket[r].pin : r \in Readers}
               PROVE  e.baked >= e.version
    BY DEF FreshInv, ReusedNotOlder
  <2>1. e \in Entry /\ Kept(e)
    BY DEF Ordered, Types, KeptTypes, AllKept
  <2> QED BY <2>1 DEF Kept, Entry
<1> QED BY <1>1, FreshInvariant, PTL
====
