----------------------------- MODULE PTableProofs -----------------------------
(***************************************************************************)
(* The table of PTable is consistent for every number of entries, keys and *)
(* buckets and every limit, whatever the worker and the watch task do.     *)
(***************************************************************************)
EXTENDS PTable, FiniteSetTheorems, TLAPS

\* What the worker holds between two of its steps.
WorkerInv ==
    /\ wpc = "insert" => /\ wentry \in Entries /\ nfree[wentry] = 0
                         /\ wentry \notin linked
                         /\ \A f \in linked : key[f] # key[wentry]
    /\ wpc = "handle" => wentry \in linked
    /\ wpc = "timeout" => wentry \in Entries

\* The watcher has entries to visit only while it holds the read lock.
WatcherInv == spc # "scan" => todo = {}

\* The inductive invariant.
IInv == /\ TypeOK /\ WorkerInv /\ WatcherInv /\ NoDangling
        /\ CachesCounted /\ OneEntryPerKey /\ NoEntryLost /\ WatchSafe

LEMMA FiniteCaches == ASSUME IInv PROVE IsFiniteSet(caches)
  BY PTableAssumption, FS_Subset DEF IInv, TypeOK

\* Initially the table is empty and every entry is in the free list once.
LEMMA InitInv == Init => IInv
<1> SUFFICES ASSUME Init PROVE IInv
  OBVIOUS
<1>1. TypeOK
  BY PTableAssumption DEF Init, TypeOK
<1>2. CachesCounted
  BY PTableAssumption, FS_EmptySet DEF Init, CachesCounted
<1>3. WorkerInv /\ WatcherInv /\ NoDangling /\ OneEntryPerKey /\ NoEntryLost /\ WatchSafe
  BY DEF Init, WorkerInv, WatcherInv, NoDangling, OneEntryPerKey, NoEntryLost, WatchSafe
<1> QED
  BY <1>1, <1>2, <1>3 DEF IInv

\* Caching an entry that is not cached yet keeps count and limit.
LEMMA CachesInsertInv ==
  ASSUME IInv, NEW e \in Entries, e \notin caches, CachesInsert(e)
  PROVE  /\ CachesCounted'
         /\ caches' \subseteq caches \cup {e}
         /\ n_caches' \in Int
<1>0. IsFiniteSet(caches) /\ n_caches = Cardinality(caches) /\ n_caches <= CacheLimit
      /\ Cardinality(caches) \in Nat /\ CacheLimit \in Nat
  BY FiniteCaches, FS_CardinalityType, PTableAssumption DEF IInv, CachesCounted
<1>1. CASE n_caches < CacheLimit
  <2>1. caches' = caches \cup {e} /\ n_caches' = n_caches + 1
    BY <1>0, <1>1 DEF CachesInsert
  <2>2. Cardinality(caches \cup {e}) = Cardinality(caches) + 1
    BY <1>0, FS_AddElement
  <2> QED
    BY <1>0, <1>1, <2>1, <2>2 DEF CachesCounted
<1>2. CASE n_caches >= CacheLimit
  <2>1. PICK f \in caches : caches' = (caches \ {f}) \cup {e} /\ n_caches' = n_caches
    BY <1>0, <1>2 DEF CachesInsert
  <2>2. IsFiniteSet(caches \ {f}) /\ Cardinality(caches \ {f}) = Cardinality(caches) - 1
    BY <1>0, FS_RemoveElement
  <2>3. Cardinality((caches \ {f}) \cup {e}) = Cardinality(caches)
    <3>1. e \notin caches \ {f}
      OBVIOUS
    <3>2. Cardinality((caches \ {f}) \cup {e}) = Cardinality(caches \ {f}) + 1
      BY <2>2, <3>1, FS_AddElement
    <3> QED
      BY <1>0, <2>2, <3>2
  <2> QED
    BY <1>0, <2>1, <2>3 DEF CachesCounted
<1> QED
  BY <1>0, <1>1, <1>2

\* Freeing an entry, in the table or not, keeps count and limit.
LEMMA EntryFreeCounted ==
  ASSUME IInv, NEW e \in Entries, EntryFree(e)
  PROVE  CachesCounted' /\ n_caches' \in Int
<1>0. IsFiniteSet(caches) /\ n_caches = Cardinality(caches) /\ n_caches <= CacheLimit
      /\ Cardinality(caches) \in Nat /\ CacheLimit \in Nat
  BY FiniteCaches, FS_CardinalityType, PTableAssumption DEF IInv, CachesCounted
<1>1. Cardinality(caches \ {e}) = IF e \in caches THEN Cardinality(caches) - 1 ELSE Cardinality(caches)
  BY <1>0, FS_RemoveElement
<1> QED
  BY <1>0, <1>1 DEF EntryFree, CachesCounted

\* A hit on last_entry only refreshes the entry, which is in the table.
LEMMA FindLastInv ==
  ASSUME IInv, FreedOnce, NEW k \in Keys, FindLast(k) PROVE IInv'
<1>1. last_entry \in linked /\ last_entry \in Entries
  BY DEF IInv, TypeOK, NoDangling, FindLast, HitLast
<1>2. TypeOK'
  BY <1>1 DEF IInv, TypeOK, FindLast, Found, Refresh, Table, Watcher
<1>3. WorkerInv' /\ WatcherInv' /\ NoDangling'
  BY <1>1 DEF IInv, WorkerInv, WatcherInv, NoDangling, FindLast, Found, Table, Watcher
<1>4. CachesCounted' /\ OneEntryPerKey' /\ NoEntryLost' /\ WatchSafe'
  BY DEF IInv, CachesCounted, OneEntryPerKey, NoEntryLost, WatchSafe, FindLast, Found, Table, Watcher
<1> QED
  BY <1>2, <1>3, <1>4 DEF IInv

\* A cached entry is in the table: it may become last_entry.
LEMMA FindCachedInv ==
  ASSUME IInv, FreedOnce, NEW k \in Keys, FindCached(k) PROVE IInv'
<1>1. PICK e \in caches : last_entry' = e /\ Found(e)
  BY DEF FindCached
<1>2. e \in linked /\ e \in Entries
  BY DEF IInv, TypeOK, NoDangling
<1>3. TypeOK'
  BY <1>1, <1>2 DEF IInv, TypeOK, FindCached, Found, Refresh, Watcher
<1>4. WorkerInv' /\ WatcherInv' /\ NoDangling'
  BY <1>1, <1>2 DEF IInv, WorkerInv, WatcherInv, NoDangling, FindCached, Found, Watcher
<1>5. CachesCounted' /\ OneEntryPerKey' /\ NoEntryLost' /\ WatchSafe'
  BY <1>1 DEF IInv, CachesCounted, OneEntryPerKey, NoEntryLost, WatchSafe, FindCached, Found, Watcher
<1> QED
  BY <1>3, <1>4, <1>5 DEF IInv

\* An entry found in its bucket is not cached: it enters the cache.
LEMMA FindLinkedInv ==
  ASSUME IInv, FreedOnce, NEW k \in Keys, FindLinked(k) PROVE IInv'
<1>1. PICK e \in linked : key[e] = k /\ CachesInsert(e) /\ last_entry' = e /\ Found(e)
  BY DEF FindLinked
<1>2. e \in Entries /\ e \notin caches
  BY <1>1 DEF IInv, TypeOK, FindLinked, HitCached
<1>3. CachesCounted' /\ caches' \subseteq caches \cup {e} /\ n_caches' \in Int
  BY <1>1, <1>2, CachesInsertInv
<1>4. TypeOK'
  BY <1>1, <1>2, <1>3 DEF IInv, TypeOK, FindLinked, Found, Refresh, Watcher
<1>5. WorkerInv' /\ WatcherInv' /\ NoDangling'
  BY <1>1, <1>3 DEF IInv, WorkerInv, WatcherInv, NoDangling, FindLinked, Found, Watcher
<1>6. OneEntryPerKey' /\ NoEntryLost' /\ WatchSafe'
  BY <1>1 DEF IInv, OneEntryPerKey, NoEntryLost, WatchSafe, FindLinked, Found, Watcher
<1> QED
  BY <1>3, <1>4, <1>5, <1>6 DEF IInv

\* A new entry comes from the free list, so it is not in the table, and no entry of
\* the table has its key.
LEMMA CreateInv ==
  ASSUME IInv, FreedOnce, NEW k \in Keys, Create(k) PROVE IInv'
<1>1. PICK e \in Entries :
        /\ nfree[e] > 0
        /\ nfree' = [nfree EXCEPT ![e] = @ - 1]
        /\ key' = [key EXCEPT ![e] = k]
        /\ Refresh(e)
        /\ last_entry' = e
        /\ wentry' = e
  BY DEF Create
<1>2. nfree[e] = 1 /\ e \notin linked /\ e \notin caches
  <2>1. nfree[e] \in 0 .. 2 /\ nfree[e] <= 1 /\ linked \subseteq Entries
    BY DEF IInv, TypeOK, FreedOnce
  <2>2. e \notin linked
    BY <1>1 DEF IInv, NoDangling
  <2> QED
    BY <1>1, <2>1, <2>2 DEF IInv, NoDangling
<1>3. \A f \in linked : key[f] # k /\ key'[f] = key[f]
  BY <1>1, <1>2 DEF IInv, TypeOK, Create, Miss, HitLinked
<1>4. TypeOK'
  BY <1>1, <1>2 DEF IInv, TypeOK, Create, Refresh, Watcher
<1>5. WorkerInv' /\ WatcherInv'
  BY <1>1, <1>2, <1>3 DEF IInv, TypeOK, WorkerInv, WatcherInv, Create, Watcher
<1>6. NoDangling'
  BY <1>1, <1>2 DEF IInv, TypeOK, NoDangling, Create
<1>7. CachesCounted' /\ OneEntryPerKey' /\ WatchSafe'
  BY <1>3 DEF IInv, CachesCounted, OneEntryPerKey, WatchSafe, Create, Watcher
<1>8. NoEntryLost'
  BY <1>1, <1>2 DEF IInv, TypeOK, NoEntryLost, Create
<1> QED
  BY <1>4, <1>5, <1>6, <1>7, <1>8 DEF IInv

\* The new entry is linked and cached.
LEMMA InsertInv ==
  ASSUME IInv, FreedOnce, Insert PROVE IInv'
<1>1. /\ wentry \in Entries /\ nfree[wentry] = 0 /\ wentry \notin linked
      /\ \A f \in linked : key[f] # key[wentry]
  BY DEF IInv, WorkerInv, Insert
<1>2. wentry \notin caches
  BY <1>1 DEF IInv, NoDangling
<1>3. CachesCounted' /\ caches' \subseteq caches \cup {wentry} /\ n_caches' \in Int
  BY <1>1, <1>2, CachesInsertInv DEF Insert
<1>4. TypeOK'
  BY <1>1, <1>3 DEF IInv, TypeOK, Insert, Watcher
<1>5. WorkerInv' /\ WatcherInv' /\ NoDangling'
  BY <1>1, <1>3 DEF IInv, WorkerInv, WatcherInv, NoDangling, Insert, Watcher
<1>6. OneEntryPerKey' /\ NoEntryLost' /\ WatchSafe'
  BY <1>1 DEF IInv, OneEntryPerKey, NoEntryLost, WatchSafe, Insert, Watcher
<1> QED
  BY <1>3, <1>4, <1>5, <1>6 DEF IInv

\* Freeing an entry while the watcher does not walk the table, from either caller.
LEMMA EntryFreeInv ==
  ASSUME IInv, FreedOnce, wpc # "insert", wentry \in Entries, EntryFree(wentry),
         wpc' = "drain", wentry' = NoEntry,
         UNCHANGED <<each_packet, clock, last_time, tv, ring, Watcher>>
  PROVE  IInv'
<1>1. spc # "scan" /\ todo = {}
  BY DEF IInv, WatcherInv, EntryFree, CanWriteLock
<1>2. CachesCounted' /\ n_caches' \in Int
  BY EntryFreeCounted
<1>3. nfree[wentry] \in 0 .. 1
  BY DEF IInv, TypeOK, FreedOnce
<1>4. TypeOK'
  BY <1>2, <1>3 DEF IInv, TypeOK, EntryFree, Watcher
<1>5. WorkerInv' /\ WatcherInv' /\ NoDangling'
  BY DEF IInv, TypeOK, WorkerInv, WatcherInv, NoDangling, EntryFree, Watcher
<1>6. OneEntryPerKey' /\ WatchSafe'
  BY <1>1 DEF IInv, OneEntryPerKey, WatchSafe, EntryFree, Watcher
<1>7. NoEntryLost'
  BY <1>3 DEF IInv, TypeOK, NoEntryLost, EntryFree
<1> QED
  BY <1>2, <1>4, <1>5, <1>6, <1>7 DEF IInv

\* The worker's steps that leave the table alone.
LEMMA WorkerQuietInv ==
  ASSUME IInv, FreedOnce, (\E k \in Keys : NoCreate(k)) \/ Keep \/ Ignore \/ Dequeue \/ Drained
  PROVE  IInv'
<1>1. Dequeue => Head(ring) \in Entries /\ Tail(ring) \in Seq(Entries)
  BY DEF IInv, TypeOK, Dequeue
<1>2. TypeOK'
  BY <1>1 DEF IInv, TypeOK, NoCreate, Keep, Ignore, Dequeue, Drained, Table, Watcher
<1>3. WorkerInv' /\ WatcherInv' /\ NoDangling'
  BY <1>1 DEF IInv, WorkerInv, WatcherInv, NoDangling, NoCreate, Keep, Ignore, Dequeue, Drained, Table, Watcher
<1>4. CachesCounted' /\ OneEntryPerKey' /\ NoEntryLost' /\ WatchSafe'
  BY DEF IInv, CachesCounted, OneEntryPerKey, NoEntryLost, WatchSafe,
         NoCreate, Keep, Ignore, Dequeue, Drained, Table, Watcher
<1> QED
  BY <1>2, <1>3, <1>4 DEF IInv

\* The watcher and the clock do not touch the table.
LEMMA WatchInv ==
  ASSUME IInv, Watch \/ Tick
  PROVE  IInv'
<1>1. ASSUME NEW e \in Entries PROVE IdleTime(e) \in 0 .. TimeMod - 1
  BY PTableAssumption DEF IInv, TypeOK, IdleTime
<1>2. TypeOK'
  <2>1. CASE Tick \/ WatchBegin \/ ReadLock \/ ReadUnlock
    BY <2>1, PTableAssumption, SMTT(60) DEF IInv, TypeOK, Tick, WatchBegin, ReadLock, ReadUnlock, Table, Watcher
  <2>2. ASSUME NEW e \in Entries, Visit(e) PROVE TypeOK'
    <3>1. tv' \in [Entries -> 0 .. TimeMod - 1]
      BY <1>1, <2>2 DEF IInv, TypeOK, Visit
    <3>2. ring' \in Seq(Entries)
      <4>1. ring \in Seq(Entries) /\ (ring' = ring \/ ring' = Append(ring, e))
        BY <2>2 DEF IInv, TypeOK, Visit
      <4> QED
        BY <4>1
    <3>3. todo' \subseteq Entries
      <4>1. todo \subseteq Entries
            /\ (todo' = todo \ {e} \/ todo' = todo \ SameBucket(e))
        BY <2>2 DEF IInv, TypeOK, Visit
      <4> QED
        BY <4>1
    <3> QED
      BY <2>2, <3>1, <3>2, <3>3 DEF IInv, TypeOK, Visit, Table
  <2> QED
    BY <2>1, <2>2 DEF Watch
<1>3. WorkerInv' /\ NoDangling' /\ CachesCounted' /\ OneEntryPerKey' /\ NoEntryLost'
  BY DEF IInv, WorkerInv, NoDangling, CachesCounted, OneEntryPerKey, NoEntryLost,
         Watch, Tick, WatchBegin, ReadLock, Visit, ReadUnlock, Table
<1>4. WatcherInv' /\ WatchSafe'
  BY DEF IInv, WatcherInv, WatchSafe, Watch, Tick, WatchBegin, ReadLock, Visit, SameBucket,
         ReadUnlock, Table, Watcher
<1> QED
  BY <1>2, <1>3, <1>4 DEF IInv

\* Every step keeps the invariant.
LEMMA StepInv == IInv /\ [Next]_vars => IInv'
<1> SUFFICES ASSUME IInv, [Next]_vars PROVE IInv'
  OBVIOUS
<1>1. CASE UNCHANGED vars
  <2>1. TypeOK' /\ WorkerInv' /\ WatcherInv' /\ NoDangling'
    BY <1>1 DEF IInv, TypeOK, WorkerInv, WatcherInv, NoDangling, vars, Table, Watcher
  <2>2. CachesCounted' /\ OneEntryPerKey' /\ NoEntryLost' /\ WatchSafe'
    BY <1>1 DEF IInv, CachesCounted, OneEntryPerKey, NoEntryLost, WatchSafe, vars, Table, Watcher
  <2> QED
    BY <2>1, <2>2 DEF IInv
<1>2. CASE FreedOnce /\ Lookup
  BY <1>2, FindLastInv, FindCachedInv, FindLinkedInv, CreateInv, WorkerQuietInv DEF Lookup
<1>3. CASE FreedOnce /\ Insert
  BY <1>3, InsertInv
<1>4. CASE FreedOnce /\ (Keep \/ Ignore \/ Dequeue \/ Drained)
  BY <1>4, WorkerQuietInv
<1>5. CASE FreedOnce /\ SessionEnd
  <2>1. wpc # "insert" /\ wentry \in Entries
    BY <1>5 DEF IInv, TypeOK, WorkerInv, SessionEnd
  <2> QED
    BY <1>5, <2>1, EntryFreeInv DEF SessionEnd
<1>6. CASE FreedOnce /\ TimeoutFree
  <2>1. wpc # "insert" /\ wentry \in Entries
    BY <1>6 DEF IInv, WorkerInv, TimeoutFree
  <2> QED
    BY <1>6, <2>1, EntryFreeInv DEF TimeoutFree
<1>7. CASE Watch \/ Tick
  BY <1>7, WatchInv
<1> QED
  BY <1>1, <1>2, <1>3, <1>4, <1>5, <1>6, <1>7 DEF Next, Worker

\* The inductive invariant holds in every reachable state.
THEOREM Invariance == Spec => []IInv
  BY InitInv, StepInv, PTL DEF Spec

\* ch_ptable_entry_find never meets an entry that has been freed: last_entry, the
\* cached entries and the buckets hold entries that are out of the free list.
THEOREM NothingDangles == Spec => []NoDangling
<1>1. IInv => NoDangling
  BY DEF IInv
<1> QED
  BY <1>1, Invariance, PTL

\* n_caches is the length of the LRU list and respects its limit.
THEOREM CacheBounded == Spec => []CachesCounted
<1>1. IInv => CachesCounted
  BY DEF IInv
<1> QED
  BY <1>1, Invariance, PTL

\* Table, cache, ring, worker and watch task stay well formed, and no entry is put
\* into the free list twice over.
THEOREM TableTyped == Spec => []TypeOK
<1>1. IInv => TypeOK
  BY DEF IInv
<1> QED
  BY <1>1, Invariance, PTL

\* ch_ptable_entry_find and ch_ptable_entry_create never give a connection two entries.
THEOREM EntriesAccounted == Spec => []OneEntryPerKey
<1>1. IInv => OneEntryPerKey
  BY DEF IInv
<1> QED
  BY <1>1, Invariance, PTL

\* No entry is ever lost to both the table and the free list of the pool.
THEOREM NoneLost == Spec => []NoEntryLost
<1>1. IInv => NoEntryLost
  BY DEF IInv
<1> QED
  BY <1>1, Invariance, PTL

\* The lock protects the walk of the watch task: no entry it is yet to visit is
\* unlinked before it has visited it.
THEOREM WatcherProtected == Spec => []WatchSafe
<1>1. IInv => WatchSafe
  BY DEF IInv
<1> QED
  BY <1>1, Invariance, PTL
=============================================================================
