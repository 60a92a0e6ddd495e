--------------------------- MODULE ApiCacheProofs ---------------------------
(***************************************************************************)
(* Proofs about ApiCache for every set of keys, every capacity and every   *)
(* number of versions and installs.                                        *)
(***************************************************************************)
EXTENDS ApiCache, FiniteSetTheorems, TLAPS

-----------------------------------------------------------------------------
(* The inductive invariant.                                                *)

LoadType == [key : Keys, epoch : Nat, generation : Versions \cup {None},
             value : Versions \cup {None}]

\* A load is a whole record, no negative answer is installed, and the write sequence
\* counts installs that are over.
RunInv ==
  /\ loads \subseteq LoadType
  /\ \A k \in DOMAIN owners : k \in FoundKeys => owners[k] # 0
  /\ writeSequence + Cardinality(DOMAIN owners) <= installs

\* Nothing installed or about to be is newer than the data, and a load that has read
\* older data than what was installed under its key is superseded.
FreshInv ==
  /\ \A k \in Keys : installed[k] <= version
  /\ \A k \in DOMAIN owners : owners[k] <= version
  /\ \A l \in loads : l.value # None /\ ~Superseded(l) => l.value >= installed[l.key]

IInv == TypeOK /\ RunInv /\ SingleFlight /\ EpochOnlyInFlight /\ FreshInv /\ InstallKept

-----------------------------------------------------------------------------
(* Facts about the constants and the writes.                           *)

LEMMA ConstFacts ==
  /\ maxEntries \in Nat \ {0} /\ MaxVersion \in Nat /\ MaxInstalls \in Nat
  /\ IsFiniteSet(Keys) /\ None \notin Int
  /\ Versions \subseteq Nat /\ 0 \in Versions /\ None \notin Versions
  /\ \A k \in FoundKeys : k \notin SwrKeys
  /\ SwrKeys \subseteq Keys /\ FoundKeys \subseteq Keys
BY ApiCacheAssumption DEF Versions, Keys

\* Whatever prune sweeps and evicts, what is left of the entries is unchanged.
LEMMA PruneKeeps ==
  ASSUME NEW s, NEW o, Prune(s, o)
  PROVE  DOMAIN store' \subseteq DOMAIN s /\ \A k \in DOMAIN store' : store'[k] = s[k]
BY DEF Prune

\* A write puts one entry in and takes others away at most.
LEMMA PutPrune ==
  ASSUME NEW k, NEW e, NEW o, Prune(Put(k, e), o)
  PROVE  /\ DOMAIN store' \subseteq DOMAIN store \cup {k}
         /\ \A x \in DOMAIN store' : store'[x] = IF x = k THEN e ELSE store[x]
<1>1. DOMAIN Put(k, e) = DOMAIN store \cup {k}
      /\ \A x \in DOMAIN store \cup {k} : Put(k, e)[x] = IF x = k THEN e ELSE store[x]
  BY DEF Put
<1> QED
  BY <1>1, PruneKeeps

\* The entries are what TypeOK says as soon as each comes from the old ones or from
\* a write of the right kind.
LEMMA StoreType ==
  ASSUME TypeOK, NEW k \in Keys, NEW e \in Entry, k \in FoundKeys => e.value # 0,
         DOMAIN store' \subseteq DOMAIN store \cup {k},
         \A x \in DOMAIN store' : store'[x] = IF x = k THEN e ELSE store[x]
  PROVE  /\ DOMAIN store' \subseteq Keys
         /\ \A x \in DOMAIN store' : store'[x] \in Entry
         /\ \A x \in DOMAIN store' : x \in FoundKeys => store'[x].value # 0
BY DEF TypeOK

\* Values in an entry are versions, and its mark is a truth value.
LEMMA EntryFields ==
  ASSUME NEW e \in Entry
  PROVE  e.value \in Versions /\ e.value \in Nat /\ e.seeded \in BOOLEAN /\ e.phase \in Phases
BY ConstFacts DEF Entry

LEMMA EntryMade ==
  ASSUME NEW v \in Versions, NEW ph \in Phases, NEW g \in Versions \cup {None}, NEW b \in BOOLEAN
  PROVE  [value |-> v, phase |-> ph, generation |-> g, seeded |-> b] \in Entry
BY DEF Entry

\* Fewer keys than Keys are waiting to be installed, so they can be counted.
LEMMA OwnersFinite ==
  ASSUME TypeOK
  PROVE  IsFiniteSet(DOMAIN owners) /\ Cardinality(DOMAIN owners) \in Nat
BY ConstFacts, FS_Subset, FS_CardinalityType DEF TypeOK

-----------------------------------------------------------------------------
(* Every step keeps the invariant, one lemma per action.                   *)

LEMMA LoadReadsKeeps == ASSUME IInv, NEW l \in loads, LoadReads(l) PROVE IInv'
<1> USE ConstFacts DEF IInv
<1>0. l \in LoadType /\ l.key \in Keys /\ l.value = None /\ version \in Versions
  BY DEF RunInv, LoadType, LoadReads, TypeOK
<1> DEFINE m == [l EXCEPT !.value = version]
<1>1. m \in LoadType /\ m.key = l.key /\ m.epoch = l.epoch /\ m.value = version
      /\ m.generation = l.generation
  BY <1>0 DEF LoadType
<1>2. /\ loads' = (loads \ {l}) \cup {m}
      /\ UNCHANGED <<version, store, order, inflight, installEpochs, writeSequence,
                     owners, seeds, installed, installs>>
  BY DEF LoadReads
<1> HIDE DEF m
<1>3. TypeOK'
  BY <1>0, <1>1, <1>2 DEF TypeOK
<1>4. RunInv'
  BY <1>1, <1>2 DEF RunInv
<1>5. SingleFlight'
  BY <1>0, <1>1, <1>2 DEF SingleFlight
<1>6. FreshInv'
  BY <1>0, <1>1, <1>2 DEF FreshInv, Superseded
<1> QED
  BY <1>2, <1>3, <1>4, <1>5, <1>6 DEF EpochOnlyInFlight, InstallKept

\* Forgetting a load, as its finally block does.
LEMMA ForgetKeeps ==
  ASSUME IInv, NEW l \in loads, Forget(l),
         UNCHANGED <<version, writeSequence, owners, seeds, installed, installs>>
  PROVE  /\ RunInv' /\ SingleFlight' /\ EpochOnlyInFlight' /\ FreshInv'
         /\ inflight' \subseteq Keys /\ DOMAIN installEpochs' \subseteq Keys
         /\ \A k \in DOMAIN installEpochs' : installEpochs'[k] \in 1..writeSequence
         /\ loads' \subseteq loads
<1>0. TypeOK /\ RunInv /\ SingleFlight /\ EpochOnlyInFlight /\ FreshInv
  BY DEF IInv
<1>1. /\ loads' = loads \ {l}
      /\ inflight' = inflight \ {l.key}
      /\ DOMAIN installEpochs' = DOMAIN installEpochs \ {l.key}
      /\ \A k \in DOMAIN installEpochs' : installEpochs'[k] = installEpochs[k]
  BY DEF Forget, Without
<1>2. RunInv'
  BY <1>0, <1>1 DEF RunInv
<1>3. \A m \in loads' : m.key # l.key
  BY <1>0, <1>1 DEF SingleFlight
<1>4. SingleFlight'
  BY <1>0, <1>1, <1>3 DEF SingleFlight
<1>5. EpochOnlyInFlight'
  BY <1>0, <1>1 DEF EpochOnlyInFlight
<1>6. FreshInv'
  BY <1>0, <1>1, <1>3 DEF FreshInv, Superseded
<1> QED
  BY <1>0, <1>1, <1>2, <1>4, <1>5, <1>6 DEF TypeOK

LEMMA LoadResolvesKeeps == ASSUME IInv, NEW l \in loads, LoadResolves(l) PROVE IInv'
<1>0. TypeOK /\ RunInv /\ FreshInv /\ InstallKept
  BY DEF IInv
<1>1. l \in LoadType /\ l.key \in Keys /\ l.value \in Versions
      /\ l.generation \in Versions \cup {None}
  BY <1>0 DEF RunInv, LoadType, LoadResolves
<1>2. Forget(l) /\ UNCHANGED <<version, writeSequence, owners, seeds, installed, installs>>
  BY DEF LoadResolves
<1>3. RunInv' /\ SingleFlight' /\ EpochOnlyInFlight' /\ FreshInv'
      /\ inflight' \subseteq Keys /\ DOMAIN installEpochs' \subseteq Keys
      /\ (\A k \in DOMAIN installEpochs' : installEpochs'[k] \in 1..writeSequence)
      /\ loads' \subseteq loads
  BY <1>2, ForgetKeeps
<1>4. CASE UNCHANGED <<store, order>>
  <2>1. TypeOK'
    BY <1>0, <1>2, <1>3, <1>4 DEF TypeOK
  <2>2. InstallKept'
    BY <1>0, <1>2, <1>4 DEF InstallKept
  <2> QED
    BY <1>3, <2>1, <2>2 DEF IInv
<1>5. CASE ~Superseded(l) /\ KeepIf(l)
  <2> DEFINE e == [value |-> l.value, phase |-> "fresh", generation |-> l.generation,
                   seeded |-> FALSE]
  <2>1. Prune(Put(l.key, e), Placed(l.key))
    BY <1>5 DEF LoadResolves
  <2>2. e \in Entry /\ e.value = l.value
    BY <1>1, EntryMade DEF Phases
  <2>3. l.key \in FoundKeys => e.value # 0
    BY <1>5, <2>2 DEF KeepIf
  <2>4. l.value >= installed[l.key]
    BY <1>0, <1>1, <1>5, ConstFacts DEF FreshInv
  <2> HIDE DEF e
  <2>5. /\ DOMAIN store' \subseteq DOMAIN store \cup {l.key}
        /\ \A x \in DOMAIN store' : store'[x] = IF x = l.key THEN e ELSE store[x]
    BY <2>1, PutPrune
  <2>6. /\ DOMAIN store' \subseteq Keys
        /\ \A x \in DOMAIN store' : store'[x] \in Entry
        /\ \A x \in DOMAIN store' : x \in FoundKeys => store'[x].value # 0
    BY <1>0, <1>1, <2>2, <2>3, <2>5, StoreType
  <2>7. TypeOK'
    BY <1>0, <1>2, <1>3, <2>6 DEF TypeOK
  <2>8. InstallKept'
    BY <1>0, <1>2, <2>2, <2>4, <2>5 DEF InstallKept
  <2> QED
    BY <1>3, <2>7, <2>8 DEF IInv
<1> QED
  BY <1>4, <1>5 DEF LoadResolves

LEMMA LoadFailsKeeps == ASSUME IInv, NEW l \in loads, LoadFails(l) PROVE IInv'
<1>0. TypeOK /\ InstallKept
  BY DEF IInv
<1>1. Forget(l) /\ UNCHANGED <<version, store, order, writeSequence, owners, seeds, installed, installs>>
  BY DEF LoadFails
<1>2. RunInv' /\ SingleFlight' /\ EpochOnlyInFlight' /\ FreshInv'
      /\ inflight' \subseteq Keys /\ DOMAIN installEpochs' \subseteq Keys
      /\ (\A k \in DOMAIN installEpochs' : installEpochs'[k] \in 1..writeSequence)
      /\ loads' \subseteq loads
  BY <1>1, ForgetKeeps
<1>3. TypeOK'
  BY <1>0, <1>1, <1>2 DEF TypeOK
<1>4. InstallKept'
  BY <1>0, <1>1 DEF InstallKept
<1> QED
  BY <1>2, <1>3, <1>4 DEF IInv

\* Starting a load for a key that has none, or starting none.
LEMMA StartLoadKeeps ==
  ASSUME IInv, NEW k \in Keys, NEW g \in Versions \cup {None},
         \/ k \notin inflight /\ StartLoad(k, g)
         \/ UNCHANGED <<loads, inflight>>,
         UNCHANGED <<version, installEpochs, writeSequence, owners, seeds, installed, installs>>
  PROVE  RunInv' /\ SingleFlight' /\ EpochOnlyInFlight' /\ FreshInv'
         /\ inflight' \subseteq Keys
         /\ \A l \in loads' : /\ l.key \in Keys /\ l.epoch \in 0..writeSequence
                              /\ {l.generation, l.value} \subseteq Versions \cup {None}
<1>0. TypeOK /\ RunInv /\ SingleFlight /\ EpochOnlyInFlight /\ FreshInv
  BY DEF IInv
<1>1. CASE k \notin inflight /\ StartLoad(k, g)
  <2> DEFINE n == Load(k, g)
  <2>1. n \in LoadType /\ n.key = k /\ n.epoch = writeSequence /\ n.value = None
        /\ n.generation = g
    BY <1>0 DEF Load, LoadType, TypeOK
  <2>2. loads' = loads \cup {n} /\ inflight' = inflight \cup {k}
    BY <1>1 DEF StartLoad
  <2> HIDE DEF n
  <2>3. \A l \in loads : l.key # k
    BY <1>0, <1>1 DEF SingleFlight
  <2>4. RunInv'
    BY <1>0, <2>1, <2>2 DEF RunInv
  <2>5. SingleFlight'
    BY <1>0, <2>1, <2>2, <2>3 DEF SingleFlight
  <2>6. EpochOnlyInFlight'
    BY <1>0, <2>2 DEF EpochOnlyInFlight
  <2>7. FreshInv'
    BY <1>0, <2>1, <2>2 DEF FreshInv, Superseded
  <2>8. writeSequence \in 0..writeSequence
    BY <1>0, ConstFacts DEF TypeOK
  <2> QED
    BY <1>0, <2>1, <2>2, <2>4, <2>5, <2>6, <2>7, <2>8 DEF TypeOK
<1>2. CASE UNCHANGED <<loads, inflight>>
  BY <1>0, <1>2 DEF RunInv, SingleFlight, EpochOnlyInFlight, FreshInv, Superseded, TypeOK
<1> QED
  BY <1>1, <1>2

\* A reader deletes an entry at most.
LEMMA ReadKeeps ==
  ASSUME IInv, NEW k \in Keys, NEW g \in Versions \cup {None},
         \/ k \notin inflight /\ StartLoad(k, g)
         \/ UNCHANGED <<loads, inflight>>,
         store' = store \/ store' = Without(store, {k}),
         UNCHANGED <<version, installEpochs, writeSequence, owners, seeds, installed, installs>>
  PROVE  IInv'
<1>0. TypeOK /\ InstallKept
  BY DEF IInv
<1>1. /\ RunInv' /\ SingleFlight' /\ EpochOnlyInFlight' /\ FreshInv'
      /\ inflight' \subseteq Keys
      /\ \A l \in loads' : /\ l.key \in Keys /\ l.epoch \in 0..writeSequence
                           /\ {l.generation, l.value} \subseteq Versions \cup {None}
  BY StartLoadKeeps
<1>2. DOMAIN store' \subseteq DOMAIN store /\ \A x \in DOMAIN store' : store'[x] = store[x]
  BY DEF Without
<1>3. TypeOK'
  BY <1>0, <1>1, <1>2 DEF TypeOK
<1>4. InstallKept'
  BY <1>0, <1>2 DEF InstallKept
<1> QED
  BY <1>1, <1>3, <1>4 DEF IInv

LEMMA ReadersKeep ==
  ASSUME IInv, NEW k \in Keys, NEW g \in {None, version},
         Cached(k) \/ CachedSwr(k, g) \/ CacheRefresh(k, g)
  PROVE  IInv'
<1>1. g \in Versions \cup {None} /\ None \in Versions \cup {None}
  BY DEF IInv, TypeOK
<1>2. CASE Cached(k)
  BY <1>1, <1>2, ReadKeeps DEF Cached, Hit, Miss
<1>3. CASE CachedSwr(k, g)
  BY <1>1, <1>3, ReadKeeps DEF CachedSwr, Hit, Miss
<1>4. CASE CacheRefresh(k, g)
  BY <1>1, <1>4, ReadKeeps DEF CacheRefresh
<1> QED
  BY <1>2, <1>3, <1>4

LEMMA OwnerReadsKeeps == ASSUME IInv, NEW k \in Keys, OwnerReads(k) PROVE IInv'
<1>0. TypeOK /\ RunInv /\ SingleFlight /\ EpochOnlyInFlight /\ FreshInv /\ InstallKept
  BY DEF IInv
<1>1. /\ k \in FoundKeys => version # 0
      /\ k \notin DOMAIN owners /\ installs < MaxInstalls
      /\ installs' = installs + 1
      /\ DOMAIN owners' = DOMAIN owners \cup {k} /\ owners'[k] = version
      /\ \A x \in DOMAIN owners : owners'[x] = owners[x]
      /\ UNCHANGED <<version, store, order, loads, inflight, installEpochs, writeSequence,
                     seeds, installed>>
  BY DEF OwnerReads
<1>2. IsFiniteSet(DOMAIN owners) /\ Cardinality(DOMAIN owners) \in Nat
  BY <1>0, OwnersFinite
<1>3. Cardinality(DOMAIN owners') = Cardinality(DOMAIN owners) + 1
  BY <1>1, <1>2, FS_AddElement
<1>4. version \in Versions /\ version \in Nat
  BY <1>0, ConstFacts DEF TypeOK
<1>5. TypeOK'
  BY <1>0, <1>1, <1>4, ConstFacts DEF TypeOK
<1>6. RunInv'
  <2>1. writeSequence' + Cardinality(DOMAIN owners') <= installs'
    BY <1>0, <1>1, <1>2, <1>3, ConstFacts DEF RunInv, TypeOK
  <2> QED
    BY <1>0, <1>1, <2>1 DEF RunInv
<1>7. FreshInv'
  BY <1>0, <1>1, <1>4 DEF FreshInv, Superseded
<1> QED
  BY <1>0, <1>1, <1>5, <1>6, <1>7 DEF IInv, SingleFlight, EpochOnlyInFlight, InstallKept

\* An install raises the epoch of its key exactly when a load of it runs, which
\* keeps that load from writing what it may have read before the install.
LEMMA CacheInstallKeeps == ASSUME IInv, NEW k \in Keys, CacheInstall(k) PROVE IInv'
<1>0. TypeOK /\ RunInv /\ SingleFlight /\ EpochOnlyInFlight /\ FreshInv /\ InstallKept
  BY DEF IInv
<1> DEFINE e == [value |-> owners[k], phase |-> "fresh",
                 generation |-> IF k \in SwrKeys THEN owners[k] ELSE None, seeded |-> FALSE]
<1>1. /\ k \in DOMAIN owners
      /\ RaiseEpoch(k)
      /\ Prune(Put(k, e), MoveToEnd(k))
      /\ installed' = [installed EXCEPT ![k] = owners[k]]
      /\ DOMAIN owners' = DOMAIN owners \ {k}
      /\ \A x \in DOMAIN owners' : owners'[x] = owners[x]
      /\ UNCHANGED <<version, loads, inflight, seeds, installs>>
  BY DEF CacheInstall, Without
<1>2. /\ owners[k] \in Versions /\ owners[k] \in Nat /\ owners[k] <= version
      /\ k \in FoundKeys => owners[k] # 0
  BY <1>0, <1>1, ConstFacts DEF TypeOK, RunInv, FreshInv
<1>3. e \in Entry /\ e.value = owners[k]
  BY <1>2, EntryMade DEF Phases
<1> HIDE DEF e
<1>4. /\ DOMAIN store' \subseteq DOMAIN store \cup {k}
      /\ \A x \in DOMAIN store' : store'[x] = IF x = k THEN e ELSE store[x]
  BY <1>1, PutPrune
<1>5. /\ DOMAIN store' \subseteq Keys
      /\ \A x \in DOMAIN store' : store'[x] \in Entry
      /\ \A x \in DOMAIN store' : x \in FoundKeys => store'[x].value # 0
  BY <1>0, <1>2, <1>3, <1>4, StoreType
<1>6. /\ IsFiniteSet(DOMAIN owners) /\ Cardinality(DOMAIN owners) \in Nat
      /\ Cardinality(DOMAIN owners') = Cardinality(DOMAIN owners) - 1
      /\ Cardinality(DOMAIN owners') \in Nat
  BY <1>0, <1>1, OwnersFinite, FS_RemoveElement, FS_CardinalityType
<1>7. writeSequence \in Nat /\ installs \in 0..MaxInstalls
      /\ writeSequence + Cardinality(DOMAIN owners) <= installs
  BY <1>0 DEF TypeOK, RunInv
<1>8. /\ writeSequence' \in {writeSequence, writeSequence + 1}
      /\ k \in inflight => /\ writeSequence' = writeSequence + 1
                           /\ DOMAIN installEpochs' = DOMAIN installEpochs \cup {k}
                           /\ installEpochs'[k] = writeSequence + 1
      /\ k \notin inflight => installEpochs' = installEpochs /\ writeSequence' = writeSequence
      /\ \A x \in DOMAIN installEpochs : x # k => x \in DOMAIN installEpochs'
                                                /\ installEpochs'[x] = installEpochs[x]
      /\ DOMAIN installEpochs' \subseteq DOMAIN installEpochs \cup {k}
  BY <1>1 DEF RaiseEpoch
<1>9. writeSequence' \in 0..MaxInstalls
      /\ writeSequence' + Cardinality(DOMAIN owners') <= installs'
  BY <1>1, <1>6, <1>7, <1>8, ConstFacts
<1>10. DOMAIN installEpochs' \subseteq Keys
      /\ \A x \in DOMAIN installEpochs' : installEpochs'[x] \in 1..writeSequence'
  BY <1>0, <1>7, <1>8 DEF TypeOK
<1>11. \A l \in loads : l.epoch \in 0..writeSequence'
  BY <1>0, <1>7, <1>8 DEF TypeOK
<1>12. TypeOK'
  BY <1>0, <1>1, <1>2, <1>5, <1>9, <1>10, <1>11 DEF TypeOK
<1>13. RunInv'
  BY <1>0, <1>1, <1>9 DEF RunInv
<1>14. SingleFlight' /\ EpochOnlyInFlight'
  BY <1>0, <1>1, <1>8 DEF SingleFlight, EpochOnlyInFlight
<1>15. FreshInv'
  <2>1. ASSUME NEW l \in loads, l.value # None, ~Superseded(l)'
        PROVE  l.value >= installed'[l.key]
    <3>1. CASE l.key = k
      <4>1. k \in inflight
        BY <1>0, <3>1 DEF SingleFlight
      <4>2. installEpochs'[k] > l.epoch /\ k \in DOMAIN installEpochs'
        BY <1>0, <1>7, <1>8, <4>1 DEF TypeOK
      <4> QED
        BY <2>1, <3>1, <4>2 DEF Superseded
    <3>2. CASE l.key # k
      <4>1. ~Superseded(l)
        BY <1>8, <2>1, <3>2 DEF Superseded
      <4> QED
        BY <1>0, <1>1, <2>1, <3>2, <4>1 DEF FreshInv, TypeOK
    <3> QED
      BY <3>1, <3>2
  <2>2. \A x \in Keys : installed'[x] <= version'
    BY <1>0, <1>1, <1>2 DEF FreshInv, TypeOK
  <2>3. \A x \in DOMAIN owners' : owners'[x] <= version'
    BY <1>0, <1>1 DEF FreshInv
  <2> QED
    BY <1>1, <2>1, <2>2, <2>3 DEF FreshInv
<1>16. InstallKept'
  BY <1>0, <1>1, <1>2, <1>3, <1>4, <1>5 DEF InstallKept, TypeOK
<1> QED
  BY <1>12, <1>13, <1>14, <1>15, <1>16 DEF IInv

LEMMA SeedKeeps == ASSUME IInv, NEW k \in Keys, SeedBegins(k) \/ SeedLands(k) PROVE IInv'
<1>0. TypeOK /\ RunInv /\ SingleFlight /\ EpochOnlyInFlight /\ FreshInv /\ InstallKept
  BY DEF IInv
<1>1. /\ UNCHANGED <<version, loads, inflight, installEpochs, writeSequence, owners,
                     installed, installs>>
      /\ seeds' \subseteq SwrKeys
  BY <1>0 DEF SeedBegins, SeedLands, TypeOK
<1>2. RunInv' /\ SingleFlight' /\ EpochOnlyInFlight' /\ FreshInv'
  BY <1>0, <1>1 DEF RunInv, SingleFlight, EpochOnlyInFlight, FreshInv, Superseded
<1>3. CASE UNCHANGED store
  BY <1>0, <1>1, <1>2, <1>3 DEF IInv, TypeOK, InstallKept
<1>4. CASE ~UNCHANGED store
  <2>1. PICK v \in 0..version :
          Prune(Put(k, [value |-> v, phase |-> "stale", generation |-> None, seeded |-> TRUE]),
                Placed(k)) /\ k \in seeds
    BY <1>4 DEF SeedBegins, SeedLands
  <2> DEFINE e == [value |-> v, phase |-> "stale", generation |-> None, seeded |-> TRUE]
  <2>2. v \in Versions
    BY <1>0, ConstFacts DEF TypeOK, Versions
  <2>3. e \in Entry /\ e.seeded = TRUE
    BY <2>2, EntryMade DEF Phases
  <2>4. k \notin FoundKeys
    BY <1>0, <2>1, ConstFacts DEF TypeOK
  <2>5. Prune(Put(k, e), Placed(k))
    BY <2>1
  <2> HIDE DEF e
  <2>6. /\ DOMAIN store' \subseteq DOMAIN store \cup {k}
        /\ \A x \in DOMAIN store' : store'[x] = IF x = k THEN e ELSE store[x]
    BY <2>5, PutPrune
  <2>7. /\ DOMAIN store' \subseteq Keys
        /\ \A x \in DOMAIN store' : store'[x] \in Entry
        /\ \A x \in DOMAIN store' : x \in FoundKeys => store'[x].value # 0
    BY <1>0, <2>3, <2>4, <2>6, StoreType
  <2>8. TypeOK'
    BY <1>0, <1>1, <2>7 DEF TypeOK
  <2>9. InstallKept'
    BY <1>0, <1>1, <2>3, <2>6 DEF InstallKept
  <2> QED
    BY <1>2, <2>8, <2>9 DEF IInv
<1> QED
  BY <1>3, <1>4

LEMMA WorldKeeps == IInv /\ ((\E k \in Keys : Age(k)) \/ NewVersion \/ UNCHANGED vars) => IInv'
<1> SUFFICES ASSUME IInv, (\E k \in Keys : Age(k)) \/ NewVersion \/ UNCHANGED vars
             PROVE  IInv'
  OBVIOUS
<1>0. TypeOK /\ RunInv /\ SingleFlight /\ EpochOnlyInFlight /\ FreshInv /\ InstallKept
  BY DEF IInv
<1>1. ASSUME NEW k \in Keys, Age(k) PROVE IInv'
  <2>1. UNCHANGED <<version, order, loads, inflight, installEpochs, writeSequence, owners,
                    seeds, installed, installs>>
    BY <1>1 DEF Age
  <2>2. /\ DOMAIN store' = DOMAIN store
        /\ \A x \in DOMAIN store : /\ store'[x] \in Entry
                                   /\ store'[x].value = store[x].value
                                   /\ store'[x].seeded = store[x].seeded
    <3>1. k \in DOMAIN store /\ store[k] \in Entry
      BY <1>0, <1>1 DEF Age, TypeOK
    <3>2. PICK ph \in Phases : store' = [store EXCEPT ![k] = [store[k] EXCEPT !.phase = ph]]
      BY <1>1 DEF Age, Phases
    <3>3. /\ [store[k] EXCEPT !.phase = ph] \in Entry
          /\ [store[k] EXCEPT !.phase = ph].value = store[k].value
          /\ [store[k] EXCEPT !.phase = ph].seeded = store[k].seeded
      BY <3>1, <3>2 DEF Entry
    <3> QED
      BY <1>0, <3>1, <3>2, <3>3 DEF TypeOK
  <2>3. TypeOK' /\ InstallKept'
    BY <1>0, <2>1, <2>2 DEF TypeOK, InstallKept
  <2> QED
    BY <1>0, <2>1, <2>3
    DEF IInv, RunInv, SingleFlight, EpochOnlyInFlight, FreshInv, Superseded
<1>2. CASE NewVersion
  <2>1. /\ version' = version + 1 /\ version < MaxVersion
        /\ UNCHANGED <<store, order, loads, inflight, installEpochs, writeSequence, owners,
                       seeds, installed, installs>>
    BY <1>2 DEF NewVersion
  <2>2. version \in Nat /\ version' \in Versions
    BY <1>0, <2>1, ConstFacts DEF TypeOK, Versions
  <2>3. TypeOK'
    BY <1>0, <2>1, <2>2 DEF TypeOK
  <2>4. FreshInv'
    <3>1. \A k \in Keys : installed[k] \in Nat
      BY <1>0, ConstFacts DEF TypeOK
    <3>2. \A k \in DOMAIN owners : owners[k] \in Nat
      BY <1>0, ConstFacts DEF TypeOK
    <3> QED
      BY <1>0, <2>1, <2>2, <3>1, <3>2 DEF FreshInv, Superseded
  <2> QED
    BY <1>0, <2>1, <2>3, <2>4
    DEF IInv, RunInv, SingleFlight, EpochOnlyInFlight, InstallKept
<1>3. CASE UNCHANGED vars
  BY <1>0, <1>3
  DEF vars, IInv, TypeOK, RunInv, SingleFlight, EpochOnlyInFlight, FreshInv, Superseded, InstallKept
<1> QED
  BY <1>1, <1>2, <1>3

-----------------------------------------------------------------------------
(* The order of the map and its cap.                                       *)

LEMMA AmongLists ==
  ASSUME NEW o, NEW ks, Lists(o, ks), NEW sub \in SUBSET ks
  PROVE  Lists(Among(o, sub), sub)
BY DEF Lists, Among

\* A key that moves to the end, or comes in there, leaves an order behind.
LEMMA MoveLists ==
  ASSUME NEW k, Lists(order, DOMAIN store)
  PROVE  Lists(MoveToEnd(k), DOMAIN store \cup {k})
<1> DEFINE D == DOMAIN store
           Others == D \ {k}
           Old == Among(order, Others)
           Moved == MoveToEnd(k)
<1>1. Lists(Old, Others)
  BY AmongLists
<1>2. \A a, b : <<a, b>> \in Moved <=> <<a, b>> \in Old \/ (a \in Others /\ b = k)
  BY DEF MoveToEnd
<1>3. Moved \subseteq (D \cup {k}) \X (D \cup {k})
  BY DEF MoveToEnd, Among
<1>4. \A a, b : <<a, b>> \in Old => a \in Others /\ b \in Others
  BY DEF Among
<1> HIDE DEF Old, Moved
<1>5. D \cup {k} = Others \cup {k} /\ k \notin Others
  OBVIOUS
<1> HIDE DEF Others
<1>6. \A a \in D \cup {k} : <<a, a>> \notin Moved
  BY <1>1, <1>2, <1>4, <1>5 DEF Lists
<1>7. \A a, b \in D \cup {k} : a = b \/ <<a, b>> \in Moved \/ <<b, a>> \in Moved
  BY <1>1, <1>2, <1>5 DEF Lists
<1>8. \A a, b, c \in D \cup {k} : <<a, b>> \in Moved /\ <<b, c>> \in Moved => <<a, c>> \in Moved
  BY <1>1, <1>2, <1>4, <1>5 DEF Lists
<1>9. Lists(Moved, D \cup {k})
  BY <1>3, <1>6, <1>7, <1>8 DEF Lists
<1> QED
  BY <1>9 DEF Moved

LEMMA PlacedLists ==
  ASSUME NEW k, Lists(order, DOMAIN store)
  PROVE  Lists(Placed(k), DOMAIN store \cup {k})
<1>1. CASE k \in DOMAIN store
  <2>1. DOMAIN store \cup {k} = DOMAIN store
    BY <1>1
  <2> QED
    BY <1>1, <2>1 DEF Placed
<1>2. CASE k \notin DOMAIN store
  BY <1>2, MoveLists DEF Placed
<1> QED
  BY <1>1, <1>2

\* Evicting the oldest leaves at most as many keys as the cap: keys that stay have
\* different numbers of keys behind them, all below the cap.
LEMMA EvictedBound ==
  ASSUME NEW o, NEW ks, IsFiniteSet(ks), Lists(o, ks)
  PROVE  Cardinality(ks \ Evicted(o, ks)) <= maxEntries
<1> DEFINE Behind(k) == {x \in ks : <<k, x>> \in o}
           Rest == ks \ Evicted(o, ks)
           Rank == [k \in Rest |-> Cardinality(Behind(k))]
           Slots == 0..(maxEntries - 1)
<1>1. \A k \in ks : IsFiniteSet(Behind(k)) /\ Cardinality(Behind(k)) \in Nat
  <2> SUFFICES ASSUME NEW k \in ks PROVE IsFiniteSet(Behind(k)) /\ Cardinality(Behind(k)) \in Nat
    OBVIOUS
  <2>1. Behind(k) \in SUBSET ks
    OBVIOUS
  <2> QED
    BY <2>1, FS_Subset, FS_CardinalityType
<1>2. \A k \in Rest : k \in ks /\ Cardinality(Behind(k)) < maxEntries
  <2> SUFFICES ASSUME NEW k \in Rest PROVE k \in ks /\ Cardinality(Behind(k)) < maxEntries
    OBVIOUS
  <2>1. k \in ks /\ ~(Cardinality({x \in ks : <<k, x>> \in o}) >= maxEntries)
    BY DEF Evicted
  <2> QED
    BY <1>1, <2>1, ConstFacts
<1>3. ASSUME NEW a \in ks, NEW b \in ks, <<a, b>> \in o
      PROVE  Cardinality(Behind(b)) < Cardinality(Behind(a))
  <2>1. Behind(b) \subseteq Behind(a) /\ b \in Behind(a) /\ b \notin Behind(b)
    BY <1>3 DEF Lists
  <2>2. Behind(b) \in SUBSET Behind(a) /\ Behind(a) # Behind(b)
    BY <2>1
  <2> HIDE DEF Behind
  <2> QED
    BY <1>1, <2>2, FS_Subset
<1>4. Rank \in Injection(Rest, Slots)
  <2>1. Rank \in [Rest -> Slots]
    BY <1>1, <1>2, ConstFacts
  <2>2. ASSUME NEW a \in Rest, NEW b \in Rest, Rank[a] = Rank[b] PROVE a = b
    <3>1. Cardinality(Behind(a)) = Cardinality(Behind(b))
      BY <2>2
    <3>2. a \in ks /\ b \in ks
      BY <1>2
    <3> HIDE DEF Behind
    <3>3. a = b \/ <<a, b>> \in o \/ <<b, a>> \in o
      BY <3>2 DEF Lists
    <3> QED
      BY <1>1, <1>3, <3>1, <3>2, <3>3
  <2>3. DOMAIN Rank = Rest
    OBVIOUS
  <2> HIDE DEF Rank, Rest
  <2> QED
    BY <2>1, <2>2, <2>3 DEF Injection, IsInjective
<1>5. IsFiniteSet(Slots) /\ Cardinality(Slots) = maxEntries
  <2>1. 0 \in Int /\ maxEntries - 1 \in Int /\ ~(0 > maxEntries - 1)
    BY ConstFacts
  <2>2. (maxEntries - 1) - 0 + 1 = maxEntries
    BY ConstFacts
  <2> QED
    BY <2>1, <2>2, FS_Interval
<1> HIDE DEF Rank, Rest, Slots
<1>6. Cardinality(Rest) <= maxEntries
  BY <1>4, <1>5, FS_Injection
<1> QED
  BY <1>6 DEF Rest

\* Whatever was written, prune leaves an order of the entries within the cap.
LEMMA PruneCap ==
  ASSUME NEW s, NEW o, IsFiniteSet(DOMAIN s), Lists(o, DOMAIN s), Prune(s, o)
  PROVE  CapHeld'
<1>1. PICK live \in SUBSET DOMAIN s :
         /\ store' = [k \in live \ Evicted(o, live) |-> s[k]]
         /\ order' = Among(o, live \ Evicted(o, live))
  BY DEF Prune
<1> DEFINE kept == live \ Evicted(o, live)
<1>2. IsFiniteSet(live)
  BY FS_Subset
<1>3. Lists(Among(o, live), live)
  BY AmongLists
<1>4. Evicted(Among(o, live), live) = Evicted(o, live)
  <2>1. \A k \in live : {x \in live : <<k, x>> \in Among(o, live)} = {x \in live : <<k, x>> \in o}
    BY DEF Among
  <2> QED
    BY <2>1 DEF Evicted
<1>5. Cardinality(kept) <= maxEntries
  BY <1>2, <1>3, <1>4, EvictedBound
<1>6. kept \in SUBSET DOMAIN s
  OBVIOUS
<1>7. Lists(Among(o, kept), kept)
  BY <1>6, AmongLists
<1>8. DOMAIN store' = kept /\ order' = Among(o, kept)
  BY <1>1
<1> HIDE DEF kept
<1> QED
  BY <1>5, <1>7, <1>8 DEF CapHeld, Lists

LEMMA WriteCap ==
  ASSUME TypeOK, CapHeld, NEW k, NEW e,
         Prune(Put(k, e), Placed(k)) \/ Prune(Put(k, e), MoveToEnd(k))
  PROVE  CapHeld'
<1>1. DOMAIN Put(k, e) = DOMAIN store \cup {k}
  BY DEF Put
<1>2. IsFiniteSet(DOMAIN store)
  BY ConstFacts, FS_Subset DEF TypeOK
<1>3. IsFiniteSet(DOMAIN Put(k, e))
  BY <1>1, <1>2, FS_AddElement
<1>4. Lists(Placed(k), DOMAIN Put(k, e)) /\ Lists(MoveToEnd(k), DOMAIN Put(k, e))
  BY <1>1, MoveLists, PlacedLists DEF CapHeld
<1> QED
  BY <1>3, <1>4, PruneCap

LEMMA ReadCap ==
  ASSUME TypeOK, CapHeld, NEW k,
         \/ Live(k) /\ Hit(k)
         \/ /\ store' = Without(store, {k})
            /\ order' = Among(order, DOMAIN store \ {k})
         \/ UNCHANGED <<store, order>>
  PROVE  CapHeld'
<1>1. CASE Live(k) /\ Hit(k)
  <2>1. DOMAIN store \cup {k} = DOMAIN store /\ store' = store /\ order' = MoveToEnd(k)
    BY <1>1 DEF Live, Hit
  <2>2. Lists(MoveToEnd(k), DOMAIN store)
    BY <2>1, MoveLists DEF CapHeld
  <2> QED
    BY <2>1, <2>2 DEF CapHeld, Lists
<1>2. CASE store' = Without(store, {k}) /\ order' = Among(order, DOMAIN store \ {k})
  <2> DEFINE left == DOMAIN store \ {k}
  <2>1. DOMAIN store' = left /\ left \in SUBSET DOMAIN store
    BY <1>2 DEF Without
  <2>2. Lists(Among(order, left), left)
    BY <2>1, AmongLists DEF CapHeld
  <2>3. IsFiniteSet(DOMAIN store)
    BY ConstFacts, FS_Subset DEF TypeOK
  <2>4. Cardinality(left) <= Cardinality(DOMAIN store)
        /\ Cardinality(left) \in Nat /\ Cardinality(DOMAIN store) \in Nat
    BY <2>1, <2>3, FS_Subset, FS_CardinalityType
  <2>5. Cardinality(left) <= maxEntries
    BY <2>4, ConstFacts DEF CapHeld
  <2>6. order' = Among(order, left)
    BY <1>2
  <2> HIDE DEF left
  <2> QED
    BY <2>1, <2>2, <2>5, <2>6 DEF CapHeld, Lists
<1>3. CASE UNCHANGED <<store, order>>
  BY <1>3 DEF CapHeld, Lists
<1> QED
  BY <1>1, <1>2, <1>3

LEMMA CapKeeps == IInv /\ CapHeld /\ [Next]_vars => CapHeld'
<1> SUFFICES ASSUME IInv, CapHeld, [Next]_vars PROVE CapHeld'
  OBVIOUS
<1>0. TypeOK
  BY DEF IInv
<1>1. ASSUME NEW l \in loads, LoadReads(l) \/ LoadResolves(l) \/ LoadFails(l) PROVE CapHeld'
  BY <1>0, <1>1, WriteCap, ReadCap DEF LoadReads, LoadResolves, LoadFails
<1>2. ASSUME NEW k \in Keys, Cached(k) PROVE CapHeld'
  BY <1>0, <1>2, ReadCap DEF Cached, Miss
<1>3. ASSUME NEW k \in Keys, NEW g \in {None, version}, CachedSwr(k, g) \/ CacheRefresh(k, g)
      PROVE  CapHeld'
  BY <1>0, <1>3, ReadCap DEF CachedSwr, CacheRefresh, Miss
<1>4. ASSUME NEW k \in Keys, OwnerReads(k) \/ SeedBegins(k) PROVE CapHeld'
  BY <1>0, <1>4, ReadCap DEF OwnerReads, SeedBegins
<1>5. ASSUME NEW k \in Keys, CacheInstall(k) PROVE CapHeld'
  BY <1>0, <1>5, WriteCap DEF CacheInstall
<1>6. ASSUME NEW k \in Keys, SeedLands(k) PROVE CapHeld'
  BY <1>0, <1>6, WriteCap, ReadCap DEF SeedLands
<1>7. ASSUME NEW k \in Keys, Age(k) PROVE CapHeld'
  <2>1. DOMAIN store' = DOMAIN store /\ order' = order
    BY <1>7 DEF Age
  <2> QED
    BY <2>1 DEF CapHeld, Lists
<1>8. CASE NewVersion \/ UNCHANGED vars
  BY <1>0, <1>8, ReadCap DEF NewVersion, vars
<1> QED
  BY <1>1, <1>2, <1>3, <1>4, <1>5, <1>6, <1>7, <1>8 DEF Next

-----------------------------------------------------------------------------
(* The theorems.                                                           *)

LEMMA InitIInv == Init => IInv
<1> SUFFICES ASSUME Init PROVE IInv
  OBVIOUS
<1>1. DOMAIN store = {} /\ DOMAIN installEpochs = {} /\ DOMAIN owners = {}
  BY DEF Init
<1>2. Cardinality(DOMAIN owners) = 0
  BY <1>1, FS_EmptySet
<1>3. TypeOK
  BY <1>1, ConstFacts DEF Init, TypeOK
<1>4. RunInv
  BY <1>1, <1>2 DEF Init, RunInv
<1>5. SingleFlight /\ EpochOnlyInFlight /\ FreshInv /\ InstallKept
  BY <1>1 DEF Init, SingleFlight, EpochOnlyInFlight, FreshInv, InstallKept
<1> QED
  BY <1>3, <1>4, <1>5 DEF IInv

LEMMA NextKeeps == IInv /\ [Next]_vars => IInv'
BY LoadReadsKeeps, LoadResolvesKeeps, LoadFailsKeeps, ReadersKeep, OwnerReadsKeeps,
   CacheInstallKeeps, SeedKeeps, WorldKeeps
DEF Next

\* The maps of the cache stay consistent: loads, promises, epochs, entries and the
\* values waiting to be installed.
THEOREM CacheInvariant == Spec => []IInv
BY InitIInv, NextKeeps, PTL DEF Spec

\* Readers, background passes and seeds of a key share one load, and the map of
\* promises names exactly the keys that have one, failed loads included.
THEOREM CacheSingleFlight == Spec => []SingleFlight
<1>1. IInv => SingleFlight
  BY DEF IInv
<1> QED
  BY <1>1, CacheInvariant, PTL

\* A load that began before an install never puts older data in its place, for any
\* number of installs, versions and loads of the key.
THEOREM CacheInstallKept == Spec => []InstallKept
<1>1. IInv => InstallKept
  BY DEF IInv
<1> QED
  BY <1>1, CacheInvariant, PTL

\* The cap is never exceeded once a call is over and the order lists every entry
\* once, so the entries evicted are the oldest ones; with it the types of all maps
\* and the bound on the epochs.
THEOREM CacheMaps == Spec => []CacheInv
<1>1. Init => CapHeld
  <2>1. ASSUME Init PROVE DOMAIN store = {} /\ order = {}
    BY <2>1 DEF Init
  <2> QED
    BY <2>1, FS_EmptySet, ConstFacts DEF CapHeld, Lists
<1>2. IInv /\ CapHeld => CacheInv
  BY DEF IInv, CacheInv
<1> QED
  BY <1>1, <1>2, CapKeeps, CacheInvariant, PTL DEF Spec

\* seedStale never displaces a live entry nor slips in before a running load.
THEOREM CacheSeedFillsGaps == Spec => SeedFillsGaps
<1> DEFINE Gap == \A k \in DOMAIN store' :
              store'[k].seeded => (k \in DOMAIN store /\ store[k].seeded) \/ ~Occupied(k)
<1>1. IInv /\ [Next]_vars => [Gap]_vars
  <2> SUFFICES ASSUME IInv, Next, NEW k \in DOMAIN store', store'[k].seeded
               PROVE  (k \in DOMAIN store /\ store[k].seeded) \/ ~Occupied(k)
    OBVIOUS
  <2>0. TypeOK
    BY DEF IInv
  <2>2. ASSUME NEW x \in Keys, NEW e, NEW o, Prune(Put(x, e), o), ~e.seeded
        PROVE  DOMAIN store' \subseteq DOMAIN store \cup {x} /\ store'[k] = store[k] /\ k # x
    BY <2>2, PutPrune
  <2>3. ASSUME NEW l \in loads, LoadReads(l) \/ LoadResolves(l) \/ LoadFails(l)
        PROVE  k \in DOMAIN store /\ store[k].seeded
    <3>1. CASE UNCHANGED store
      BY <3>1
    <3>2. CASE Prune(Put(l.key, [value |-> l.value, phase |-> "fresh",
                                 generation |-> l.generation, seeded |-> FALSE]),
                     Placed(l.key))
      BY <2>0, <2>2, <3>2 DEF TypeOK
    <3> QED
      BY <2>3, <3>1, <3>2 DEF LoadReads, LoadResolves, LoadFails
  <2>4. ASSUME NEW x \in Keys, NEW g \in {None, version},
               Cached(x) \/ CachedSwr(x, g) \/ CacheRefresh(x, g) \/ OwnerReads(x) \/ SeedBegins(x)
        PROVE  k \in DOMAIN store /\ store[k].seeded
    <3>1. store' = store \/ store' = Without(store, {x})
      BY <2>4 DEF Cached, CachedSwr, CacheRefresh, OwnerReads, SeedBegins, Hit, Miss
    <3> QED
      BY <3>1 DEF Without
  <2>5. ASSUME NEW x \in Keys, CacheInstall(x)
        PROVE  k \in DOMAIN store /\ store[k].seeded
    BY <2>2, <2>5 DEF CacheInstall
  <2>6. ASSUME NEW x \in Keys, SeedLands(x)
        PROVE  (k \in DOMAIN store /\ store[k].seeded) \/ ~Occupied(k)
    <3>1. CASE UNCHANGED store
      BY <3>1
    <3>2. CASE ~UNCHANGED store
      <4>1. PICK v \in 0..version :
              Prune(Put(x, [value |-> v, phase |-> "stale", generation |-> None, seeded |-> TRUE]),
                    Placed(x))
        BY <2>6, <3>2 DEF SeedLands
      <4>2. ~Occupied(x)
        BY <2>6, <3>2 DEF SeedLands
      <4>3. DOMAIN store' \subseteq DOMAIN store \cup {x} /\ (k # x => store'[k] = store[k])
        BY <4>1, PutPrune
      <4> QED
        BY <4>2, <4>3
    <3> QED
      BY <3>1, <3>2
  <2>7. ASSUME NEW x \in Keys, Age(x)
        PROVE  k \in DOMAIN store /\ store[k].seeded
    <3>1. x \in DOMAIN store /\ store[x] \in Entry
      BY <2>0, <2>7 DEF Age, TypeOK
    <3>2. PICK ph \in Phases : store' = [store EXCEPT ![x] = [store[x] EXCEPT !.phase = ph]]
      BY <2>7 DEF Age, Phases
    <3>3. [store[x] EXCEPT !.phase = ph].seeded = store[x].seeded
      BY <3>1 DEF Entry
    <3> QED
      BY <3>1, <3>2, <3>3
  <2>8. CASE NewVersion
    BY <2>8 DEF NewVersion
  <2> QED
    BY <2>3, <2>4, <2>5, <2>6, <2>7, <2>8 DEF Next
<1> QED
  BY <1>1, CacheInvariant, PTL DEF Spec, SeedFillsGaps
=============================================================================
