------------------------------ MODULE ApiCache ------------------------------
(***************************************************************************)
(* The single-flight cache of the API (api/src/services/cache.ts).  Code   *)
(* between two awaits is one step; a load is running from the call that    *)
(* started it until its promise settles.                                   *)
(*                                                                         *)
(* Loaders are taken for async functions, which fail only through their    *)
(* promise.  One that threw when called would run the finally block before *)
(* its promise is stored, and leave it in the map for good.                *)
(*                                                                         *)
(* A value is the version of the data it was computed from; version 0 is   *)
(* the negative answer of a lookup.  Time is an entry's phase: fresh,      *)
(* stale (past freshUntil) and expired (past expiresAt, swept later).      *)
(***************************************************************************)
EXTENDS Integers, FiniteSets

CONSTANTS
  PlainKeys, FoundKeys, SwrKeys, \* read with cached, cachedFound, cachedSwr
  maxEntries,
  None,                          \* undefined
  MaxVersion,                    \* bound: changes of the data
  MaxInstalls                    \* bound: calls of cacheInstall

Keys     == PlainKeys \cup FoundKeys \cup SwrKeys
Versions == 0..MaxVersion
Phases   == {"fresh", "stale", "expired"}

ASSUME ApiCacheAssumption ==
  /\ IsFiniteSet(Keys) /\ PlainKeys \cap SwrKeys = {} /\ FoundKeys \cap (PlainKeys \cup SwrKeys) = {}
  /\ maxEntries \in Nat \ {0} /\ MaxVersion \in Nat /\ MaxInstalls \in Nat
  /\ None \notin Int

VARIABLES
  version,       \* of the data in ClickHouse
  store,         \* entries: a function from the keys that have one
  order,         \* Map order: <<a, b>> when key a of store comes before key b
  loads,         \* running loads
  inflight,      \* keys with a promise in the map
  installEpochs, \* a function from the keys that have one
  writeSequence,
  owners,        \* values background passes have computed and not installed yet
  seeds,         \* keys whose persisted value is being read by seedStale
  (* history *)
  installed,     \* the version last installed under a key
  installs

vars == <<version, store, order, loads, inflight, installEpochs, writeSequence,
          owners, seeds, installed, installs>>

Init ==
  /\ version = 0
  /\ store = <<>> /\ order = {}
  /\ loads = {} /\ inflight = {}
  /\ installEpochs = <<>> /\ writeSequence = 0
  /\ owners = <<>> /\ seeds = {}
  /\ installed = [k \in Keys |-> 0] /\ installs = 0

Entry == [value : Versions, phase : Phases, generation : Versions \cup {None}, seeded : BOOLEAN]

Live(k) == k \in DOMAIN store /\ store[k].phase # "expired"

Without(f, ks) == [k \in DOMAIN f \ ks |-> f[k]]

-----------------------------------------------------------------------------
(* The map of entries.                                                     *)

\* What is left of an order when only the keys ks stay.
Among(o, ks) == o \cap (ks \X ks)

\* touch, and an insertion after a delete: the key moves to the end.
MoveToEnd(k) ==
  LET others == DOMAIN store \ {k}
  IN  Among(order, others) \cup (others \X {k})

\* Map.set of a key that is there keeps its place.
Placed(k) == IF k \in DOMAIN store THEN order ELSE MoveToEnd(k)

\* The keys the cap evicts, oldest first: those with enough others behind them.
Evicted(o, ks) == {k \in ks : Cardinality({x \in ks : <<k, x>> \in o}) >= maxEntries}

\* Mutant: nothing is evicted.
PruneNever(s, o) == store' = s /\ order' = o

\* prune: expired entries go when the sweep is due or the cap is exceeded, then
\* the oldest until the cap is met.
Prune(s, o) ==
  \E sweep \in BOOLEAN :
    /\ Cardinality(DOMAIN s) > maxEntries => sweep
    /\ LET live == {k \in DOMAIN s : ~(sweep /\ s[k].phase = "expired")}
           kept == live \ Evicted(o, live)
       IN  /\ store' = [k \in kept |-> s[k]]
           /\ order' = Among(o, kept)

Put(k, e) == [x \in DOMAIN store \cup {k} |-> IF x = k THEN e ELSE store[x]]

-----------------------------------------------------------------------------
(* loadAndCache.                                                           *)

Load(k, generation) ==
  [key |-> k, epoch |-> writeSequence, generation |-> generation, value |-> None]

StartLoad(k, generation) ==
  /\ loads' = loads \cup {Load(k, generation)}
  /\ inflight' = inflight \cup {k}

\* The query of a load is answered at some moment of its run.
LoadReads(l) ==
  /\ l \in loads /\ l.value = None
  /\ loads' = (loads \ {l}) \cup {[l EXCEPT !.value = version]}
  /\ UNCHANGED <<version, store, order, inflight, installEpochs, writeSequence,
                 owners, seeds, installed, installs>>

\* Mutant: a load writes whatever was installed meanwhile.
SupersededNever(l) == FALSE

\* An install landed while the load ran.
Superseded(l) == l.key \in DOMAIN installEpochs /\ installEpochs[l.key] > l.epoch

KeepIf(l) == l.key \in FoundKeys => l.value # 0

\* The finally block.
Forget(l) ==
  /\ loads' = loads \ {l}
  /\ inflight' = inflight \ {l.key}
  /\ installEpochs' = Without(installEpochs, {l.key})

LoadResolves(l) ==
  /\ l \in loads /\ l.value # None
  /\ IF ~Superseded(l) /\ KeepIf(l)
       THEN Prune(Put(l.key, [value |-> l.value, phase |-> "fresh",
                              generation |-> l.generation, seeded |-> FALSE]),
                  Placed(l.key))
       ELSE UNCHANGED <<store, order>>
  /\ Forget(l)
  /\ UNCHANGED <<version, writeSequence, owners, seeds, installed, installs>>

\* Mutant: a load that failed leaves its promise behind.
LoadFailsKept(l) ==
  /\ l \in loads
  /\ loads' = loads \ {l}
  /\ UNCHANGED <<version, store, order, inflight, installEpochs, writeSequence, owners,
                 seeds, installed, installs>>

LoadFails(l) ==
  /\ l \in loads
  /\ Forget(l)
  /\ UNCHANGED <<version, store, order, writeSequence, owners, seeds, installed, installs>>

-----------------------------------------------------------------------------
(* The readers.                                                            *)

Hit(k) ==
  /\ order' = MoveToEnd(k)
  /\ UNCHANGED store

\* An expired entry is deleted; the reader joins the running load or starts one.
Miss(k, generation) ==
  /\ store' = Without(store, {k})
  /\ order' = Among(order, DOMAIN store \ {k})
  /\ IF k \in inflight THEN UNCHANGED <<loads, inflight>> ELSE StartLoad(k, generation)

\* cached and cachedFound.
Cached(k) ==
  /\ k \in PlainKeys \cup FoundKeys
  /\ IF Live(k) THEN Hit(k) /\ UNCHANGED <<loads, inflight>> ELSE Miss(k, None)
  /\ UNCHANGED <<version, installEpochs, writeSequence, owners, seeds, installed, installs>>

\* Past freshUntil, or of an older generation than the caller's.
StaleFor(e, generation) == e.phase = "stale" \/ (generation # None /\ e.generation # generation)

\* A stale value is served while one background load replaces it.
CachedSwr(k, generation) ==
  /\ k \in SwrKeys
  /\ IF Live(k)
       THEN /\ Hit(k)
            /\ IF StaleFor(store[k], generation) /\ k \notin inflight
                 THEN StartLoad(k, generation)
                 ELSE UNCHANGED <<loads, inflight>>
       ELSE Miss(k, generation)
  /\ UNCHANGED <<version, installEpochs, writeSequence, owners, seeds, installed, installs>>

\* Mutant: a background pass does not ask for a running load.
CacheRefreshBlind(k, generation) ==
  /\ k \in SwrKeys
  /\ StartLoad(k, generation)
  /\ UNCHANGED <<version, store, order, installEpochs, writeSequence, owners, seeds,
                 installed, installs>>

CacheRefresh(k, generation) ==
  /\ k \in SwrKeys /\ k \notin inflight
  /\ StartLoad(k, generation)
  /\ UNCHANGED <<version, store, order, installEpochs, writeSequence, owners, seeds,
                 installed, installs>>

-----------------------------------------------------------------------------
(* Values computed elsewhere.                                              *)

\* A background pass computes a value of its own, past the cache.  What is read with
\* cachedFound it installs only under the condition the reader would keep it by.
OwnerReads(k) ==
  /\ k \notin DOMAIN owners /\ installs < MaxInstalls
  /\ k \in FoundKeys => version # 0
  /\ installs' = installs + 1
  /\ owners' = [x \in DOMAIN owners \cup {k} |-> IF x = k THEN version ELSE owners[x]]
  /\ UNCHANGED <<version, store, order, loads, inflight, installEpochs, writeSequence,
                 seeds, installed>>

\* Only a load that is running can predate the install.
RaiseEpoch(k) ==
  IF k \in inflight
    THEN /\ writeSequence' = writeSequence + 1
         /\ installEpochs' = [x \in DOMAIN installEpochs \cup {k} |->
                                IF x = k THEN writeSequence + 1 ELSE installEpochs[x]]
    ELSE UNCHANGED <<writeSequence, installEpochs>>

CacheInstall(k) ==
  /\ k \in DOMAIN owners
  /\ RaiseEpoch(k)
  /\ Prune(Put(k, [value |-> owners[k], phase |-> "fresh",
                   generation |-> IF k \in SwrKeys THEN owners[k] ELSE None, seeded |-> FALSE]),
           MoveToEnd(k))
  /\ installed' = [installed EXCEPT ![k] = owners[k]]
  /\ owners' = Without(owners, {k})
  /\ UNCHANGED <<version, loads, inflight, seeds, installs>>

Occupied(k) == k \in inflight \/ Live(k)

\* seedStale asks for a persisted value only when the key holds nothing.
SeedBegins(k) ==
  /\ k \in SwrKeys \ seeds /\ ~Occupied(k)
  /\ seeds' = seeds \cup {k}
  /\ UNCHANGED <<version, store, order, loads, inflight, installEpochs, writeSequence,
                 owners, installed, installs>>

\* Mutant: the key is not looked at again after the round trip.
SeedLandsBlind(k) ==
  /\ k \in seeds
  /\ seeds' = seeds \ {k}
  /\ \E v \in 0..version :
       Prune(Put(k, [value |-> v, phase |-> "stale", generation |-> None, seeded |-> TRUE]),
             Placed(k))
  /\ UNCHANGED <<version, loads, inflight, installEpochs, writeSequence, owners,
                 installed, installs>>

\* The persisted value, of whatever age, is adopted as a stale one; it may also
\* be missing or past its own budget, or its read may fail.
SeedLands(k) ==
  /\ k \in seeds
  /\ seeds' = seeds \ {k}
  /\ \/ /\ ~Occupied(k)
        /\ \E v \in 0..version :
             Prune(Put(k, [value |-> v, phase |-> "stale", generation |-> None, seeded |-> TRUE]),
                   Placed(k))
     \/ UNCHANGED <<store, order>>
  /\ UNCHANGED <<version, loads, inflight, installEpochs, writeSequence, owners,
                 installed, installs>>

-----------------------------------------------------------------------------
(* The world: time passes over an entry, the data changes.                 *)

\* An entry without freshUntil is fresh until it expires.
Age(k) ==
  /\ k \in DOMAIN store /\ store[k].phase # "expired"
  /\ store' = [store EXCEPT ![k].phase =
                 IF k \in SwrKeys /\ @ = "fresh" THEN "stale" ELSE "expired"]
  /\ UNCHANGED <<version, order, loads, inflight, installEpochs, writeSequence, owners,
                 seeds, installed, installs>>

NewVersion ==
  /\ version < MaxVersion
  /\ version' = version + 1
  /\ UNCHANGED <<store, order, loads, inflight, installEpochs, writeSequence, owners,
                 seeds, installed, installs>>

-----------------------------------------------------------------------------
Settle(k) == \E l \in loads : l.key = k /\ (LoadReads(l) \/ LoadResolves(l) \/ LoadFails(l))

Next ==
  \/ \E l \in loads : LoadReads(l) \/ LoadResolves(l) \/ LoadFails(l)
  \/ \E k \in Keys :
       \/ Cached(k)
       \/ \E g \in {None, version} : CachedSwr(k, g) \/ CacheRefresh(k, g)
       \/ OwnerReads(k) \/ CacheInstall(k)
       \/ SeedBegins(k) \/ SeedLands(k)
       \/ Age(k)
  \/ NewVersion

Spec == Init /\ [][Next]_vars

\* A query is answered or fails in the end (weak fairness of Settle, spelled out:
\* a running load always has a step).
FairSpec ==
  /\ Spec
  /\ \A k \in Keys : []<>(\A l \in loads : l.key # k) \/ []<><<Settle(k)>>_vars

-----------------------------------------------------------------------------
\* Every map and load stays in its domain; an entry of a lookup is an answer, for
\* "not found" is never kept.
TypeOK ==
  /\ version \in Versions
  /\ DOMAIN store \subseteq Keys /\ \A k \in DOMAIN store : store[k] \in Entry
  /\ \A k \in DOMAIN store : k \in FoundKeys => store[k].value # 0
  /\ \A l \in loads : /\ l.key \in Keys /\ l.epoch \in 0..writeSequence
                      /\ {l.generation, l.value} \subseteq Versions \cup {None}
  /\ inflight \subseteq Keys /\ seeds \subseteq SwrKeys
  /\ writeSequence \in 0..MaxInstalls
  /\ DOMAIN installEpochs \subseteq Keys
  /\ \A k \in DOMAIN installEpochs : installEpochs[k] \in 1..writeSequence
  /\ DOMAIN owners \subseteq Keys /\ \A k \in DOMAIN owners : owners[k] \in Versions
  /\ installed \in [Keys -> Versions] /\ installs \in 0..MaxInstalls

\* Order o lists the keys ks one after the other.
Lists(o, ks) ==
  /\ o \subseteq ks \X ks
  /\ \A a \in ks : <<a, a>> \notin o
  /\ \A a, b \in ks : a = b \/ <<a, b>> \in o \/ <<b, a>> \in o
  /\ \A a, b, c \in ks : <<a, b>> \in o /\ <<b, c>> \in o => <<a, c>> \in o

\* The order of the map names each entry once, and no call leaves more entries
\* than the cap, whichever of the four writers made the last one.
CapHeld == Lists(order, DOMAIN store) /\ Cardinality(DOMAIN store) <= maxEntries

\* N readers, background passes and seeds of a key share one load, and the map of
\* promises names exactly the keys that have one.
SingleFlight ==
  /\ \A l, m \in loads : l.key = m.key => l = m
  /\ inflight = {l.key : l \in loads}

\* An installed value is never replaced by one computed from older data, however
\* long a load that began before the install takes and whatever its key went
\* through meanwhile; only an adopted persisted value may be older.
InstallKept ==
  \A k \in DOMAIN store : ~store[k].seeded => store[k].value >= installed[k]

\* The epochs do not pile up: one exists only while a load runs that it is for.
EpochOnlyInFlight == DOMAIN installEpochs \subseteq inflight

\* The maps of the cache stay consistent and bounded through every interleaving of
\* readers, refreshes, installs, seeds and evictions.
CacheInv == TypeOK /\ CapHeld /\ EpochOnlyInFlight

\* A persisted value never takes the place of a live entry, nor slips in before
\* the load that is about to write one.
SeedFillsGaps ==
  [][\A k \in DOMAIN store' :
       store'[k].seeded => (k \in DOMAIN store /\ store[k].seeded) \/ ~Occupied(k)]_vars

\* A key never stays in flight: a failed load as well as a finished one lets the
\* next reader load again.
LoadsSettle == \A k \in Keys : k \in inflight ~> k \notin inflight
=============================================================================
