-------------------------------- MODULE PTable --------------------------------
(***************************************************************************)
(* A session table and the two threads that use it: lib/ptables/ch_ptable.c *)
(* with the watch task of ch_ptable_watch_task.c.                          *)
(*                                                                         *)
(* The worker, a session task, owns the table: for a packet it finds or    *)
(* creates the entry of the packet's key, may free it (the session is      *)
(* over), and then frees the entries it finds in the ring of timed-out     *)
(* entries.  The watcher walks the table under the read lock and puts the  *)
(* entries that have timed out into the ring.  Only linking and unlinking  *)
(* take the write lock; finding an entry and refreshing its time take no   *)
(* lock.                                                                   *)
(*                                                                         *)
(* Which packets make the worker look at the ring depends on the table:    *)
(* every one for the tables of TCP requests and UDP sessions (the UDP task *)
(* also does so when there is none), but for the tables of TCP sessions    *)
(* only one that is handed to ch_tcp_session_packet_handle.                *)
(*                                                                         *)
(* A hash bucket is the set of its entries and the LRU list of cached      *)
(* entries is a set: the order in either is not told apart by a property.  *)
(***************************************************************************)
EXTENDS Integers, Sequences, FiniteSets

CONSTANTS Entries,      \* the objects of the entry pool
          Keys,         \* connections
          Bucket,       \* the hash bucket of a key
          Timeout,      \* entry_timeout, in seconds
          CacheLimit,   \* n_caches_limits
          RingCap,      \* capacity of timeout_entries
          MaxTime,      \* bound: the clock stops there
          TimeMod,      \* the modulus of times, 2^64 in the code
          NoEntry       \* NULL

ASSUME PTableAssumption ==
    /\ IsFiniteSet(Entries) /\ NoEntry \notin Entries
    /\ Timeout \in Nat /\ CacheLimit \in Nat \ {0} /\ RingCap \in Nat
    /\ MaxTime \in Nat /\ TimeMod \in Nat /\ TimeMod > MaxTime + Timeout

VARIABLES
    each_packet,  \* the handler looks at the ring after every packet
    clock,        \* seconds, ch_get_current_timems() / 1000
    nfree,        \* nfree[e]: how often e is in the free list of the entry pool
    linked,       \* entries in the hash buckets
    key,          \* key[e]: what entry_equal compares with
    last_time,    \* entry->last_time
    tv,           \* entry->tv
    caches,       \* entries in the LRU list
    n_caches,
    last_entry,
    ring,         \* timeout_entries
    wpc, wentry,  \* the worker and the entry it holds
    spc, cur_time, todo   \* the watcher, its cur_time, the entries yet to visit

Table == <<linked, key, caches, n_caches, last_entry, nfree>>
Watcher == <<spc, cur_time, todo>>
vars == <<each_packet, clock, Table, last_time, tv, ring, wpc, wentry, Watcher>>

Init ==
    /\ each_packet \in BOOLEAN
    /\ clock = 0
    /\ nfree = [e \in Entries |-> 1]
    /\ linked = {} /\ caches = {} /\ n_caches = 0 /\ last_entry = NoEntry
    /\ key \in [Entries -> Keys]
    /\ last_time = [e \in Entries |-> 0]
    /\ tv = [e \in Entries |-> 0]
    /\ ring = <<>>
    /\ wpc = "idle" /\ wentry = NoEntry
    /\ spc = "wait" /\ cur_time = 0 /\ todo = {}

\* Faulty variant of CanWriteLock, for mutation: unlinking takes no lock.
CanWriteLock_Unlocked == TRUE

\* The write lock can be taken: the watcher does not hold the read lock.
CanWriteLock == spc # "scan"

(***************************************************************************)
(* ch_ptable_entry_find.                                                   *)
(***************************************************************************)
Refresh(e) == last_time' = [last_time EXCEPT ![e] = clock]

\* _ptable_caches_insert
CachesInsert(e) ==
    \/ /\ n_caches >= CacheLimit
       /\ \E f \in caches : caches' = (caches \ {f}) \cup {e}
       /\ UNCHANGED n_caches
    \/ /\ n_caches < CacheLimit
       /\ caches' = caches \cup {e}
       /\ n_caches' = n_caches + 1

HitLast(k) == last_entry # NoEntry /\ key[last_entry] = k
HitCached(k) == \E e \in caches : key[e] = k
HitLinked(k) == \E e \in linked : key[e] = k

Found(e) == Refresh(e) /\ wentry' = e /\ wpc' = "handle"

FindLast(k) ==
    /\ wpc = "idle" /\ HitLast(k)
    /\ Found(last_entry)
    /\ UNCHANGED <<each_packet, clock, Table, tv, ring, Watcher>>

FindCached(k) ==
    /\ wpc = "idle" /\ ~HitLast(k)
    /\ \E e \in caches : key[e] = k /\ last_entry' = e /\ Found(e)
    /\ UNCHANGED <<each_packet, clock, linked, key, caches, n_caches, nfree, tv, ring, Watcher>>

FindLinked(k) ==
    /\ wpc = "idle" /\ ~HitLast(k) /\ ~HitCached(k)
    /\ \E e \in linked :
         key[e] = k /\ CachesInsert(e) /\ last_entry' = e /\ Found(e)
    /\ UNCHANGED <<each_packet, clock, linked, key, nfree, tv, ring, Watcher>>

\* Faulty variant of Miss, for mutation: the hash bucket is not looked at.
Miss_CacheOnly(k) == ~HitLast(k) /\ ~HitCached(k)

Miss(k) == ~HitLast(k) /\ ~HitCached(k) /\ ~HitLinked(k)

(***************************************************************************)
(* ch_ptable_entry_create.                                                 *)
(***************************************************************************)
\* Faulty variant of Create, for mutation: an empty pool is not noticed.
Create_Unchecked(k) ==
    /\ wpc = "idle" /\ Miss(k)
    /\ \E e \in Entries :
         /\ nfree' = [nfree EXCEPT ![e] = @ - 1]
         /\ key' = [key EXCEPT ![e] = k]
         /\ Refresh(e)
         /\ last_entry' = e
         /\ wentry' = e
    /\ wpc' = "insert"
    /\ UNCHANGED <<each_packet, clock, linked, caches, n_caches, tv, ring, Watcher>>

\* An entry is taken from the pool, dated and remembered as last_entry.  The
\* caller fills in the key before it returns to the loop.
Create(k) ==
    /\ wpc = "idle" /\ Miss(k)
    /\ \E e \in Entries :
         /\ nfree[e] > 0
         /\ nfree' = [nfree EXCEPT ![e] = @ - 1]
         /\ key' = [key EXCEPT ![e] = k]
         /\ Refresh(e)
         /\ last_entry' = e
         /\ wentry' = e
    /\ wpc' = "insert"
    /\ UNCHANGED <<each_packet, clock, linked, caches, n_caches, tv, ring, Watcher>>

\* The pool is empty, or the packet does not start a session: nothing is created.  The
\* handler goes on to the timeout ring, where it does so after every packet; where it
\* does not, such a packet leaves everything as it is.
NoCreate(k) ==
    /\ wpc = "idle" /\ Miss(k) /\ each_packet
    /\ wpc' = "drain"
    /\ UNCHANGED <<each_packet, clock, Table, last_time, tv, ring, wentry, Watcher>>

Insert ==
    /\ wpc = "insert" /\ CanWriteLock
    /\ linked' = linked \cup {wentry}
    /\ CachesInsert(wentry)
    /\ wpc' = "handle"
    /\ UNCHANGED <<each_packet, clock, key, last_entry, nfree, last_time, tv, ring, wentry, Watcher>>

(***************************************************************************)
(* tbl_entry_free, called with the session's end or from the timeout ring. *)
(***************************************************************************)
\* Faulty variants of EntryFree, for mutation: last_entry is not reset, ...
EntryFree_KeepLast(e) ==
    /\ CanWriteLock
    /\ linked' = linked \ {e}
    /\ caches' = caches \ {e}
    /\ n_caches' = IF e \in caches THEN n_caches - 1 ELSE n_caches
    /\ nfree' = [nfree EXCEPT ![e] = @ + 1]
    /\ UNCHANGED <<key, last_entry>>

\* ... the cached entries are not counted down, ...
EntryFree_NoCount(e) ==
    /\ CanWriteLock
    /\ linked' = linked \ {e}
    /\ caches' = caches \ {e}
    /\ last_entry' = IF e = last_entry THEN NoEntry ELSE last_entry
    /\ nfree' = [nfree EXCEPT ![e] = @ + 1]
    /\ UNCHANGED <<key, n_caches>>

\* ... the entry does not go back to the pool.
EntryFree_NoPut(e) ==
    /\ CanWriteLock
    /\ linked' = linked \ {e}
    /\ caches' = caches \ {e}
    /\ n_caches' = IF e \in caches THEN n_caches - 1 ELSE n_caches
    /\ last_entry' = IF e = last_entry THEN NoEntry ELSE last_entry
    /\ UNCHANGED <<key, nfree>>

EntryFree(e) ==
    /\ CanWriteLock
    /\ linked' = linked \ {e}
    /\ caches' = caches \ {e}
    /\ n_caches' = IF e \in caches THEN n_caches - 1 ELSE n_caches
    /\ last_entry' = IF e = last_entry THEN NoEntry ELSE last_entry
    /\ nfree' = [nfree EXCEPT ![e] = @ + 1]
    /\ UNCHANGED key

\* The packet is handled and the session goes on, or it is over.
Keep ==
    /\ wpc = "handle"
    /\ wpc' = "drain" /\ wentry' = NoEntry
    /\ UNCHANGED <<each_packet, clock, Table, last_time, tv, ring, Watcher>>

\* _is_need_ignore: the packet found or created its session and is not handled.
Ignore ==
    /\ wpc = "handle" /\ ~each_packet
    /\ wpc' = "idle" /\ wentry' = NoEntry
    /\ UNCHANGED <<each_packet, clock, Table, last_time, tv, ring, Watcher>>

SessionEnd ==
    /\ wpc = "handle"
    /\ EntryFree(wentry)
    /\ wpc' = "drain" /\ wentry' = NoEntry
    /\ UNCHANGED <<each_packet, clock, last_time, tv, ring, Watcher>>

(***************************************************************************)
(* ch_ptable_entries_timeout_free.                                         *)
(***************************************************************************)
Dequeue ==
    /\ wpc = "drain" /\ ring # <<>>
    /\ wentry' = Head(ring) /\ ring' = Tail(ring)
    /\ wpc' = "timeout"
    /\ UNCHANGED <<each_packet, clock, Table, last_time, tv, Watcher>>

TimeoutFree ==
    /\ wpc = "timeout"
    /\ EntryFree(wentry)
    /\ wpc' = "drain" /\ wentry' = NoEntry
    /\ UNCHANGED <<each_packet, clock, last_time, tv, ring, Watcher>>

Drained ==
    /\ wpc = "drain" /\ ring = <<>>
    /\ wpc' = "idle"
    /\ UNCHANGED <<each_packet, clock, Table, last_time, tv, ring, wentry, Watcher>>

(***************************************************************************)
(* The watch task.                                                         *)
(***************************************************************************)
\* Faulty variant of WatchBegin, for mutation: the time is read once, at the start.
WatchBegin_OldTime ==
    /\ spc = "wait" /\ ring = <<>>
    /\ spc' = "lock"
    /\ UNCHANGED <<each_packet, clock, Table, last_time, tv, ring, wpc, wentry, cur_time, todo>>

\* "wait current timeout entries has been processed"; then cur_time is read.
WatchBegin ==
    /\ spc = "wait" /\ ring = <<>>
    /\ spc' = "lock" /\ cur_time' = clock
    /\ UNCHANGED <<each_packet, clock, Table, last_time, tv, ring, wpc, wentry, todo>>

ReadLock ==
    /\ spc = "lock"
    /\ spc' = "scan" /\ todo' = linked
    /\ UNCHANGED <<each_packet, clock, Table, last_time, tv, ring, wpc, wentry, cur_time>>

\* _entry_is_timeout: an unsigned difference, so that an entry refreshed after
\* cur_time was read is idle for almost 2^64 seconds.
IdleTime(e) == (cur_time - last_time[e]) % TimeMod

SameBucket(e) == {f \in todo : Bucket[key[f]] = Bucket[key[e]]}

Visit(e) ==
    /\ spc = "scan" /\ e \in todo
    /\ \/ /\ IdleTime(e) <= Timeout
          /\ todo' = todo \ {e}
          /\ UNCHANGED <<tv, ring>>
       \/ /\ IdleTime(e) > Timeout /\ Len(ring) >= RingCap
          /\ todo' = todo \ SameBucket(e)   \* the rest of the bucket is skipped
          /\ UNCHANGED <<tv, ring>>
       \/ /\ IdleTime(e) > Timeout /\ Len(ring) < RingCap
          /\ tv' = [tv EXCEPT ![e] = IdleTime(e)]
          /\ ring' = Append(ring, e)
          /\ todo' = todo \ {e}
    /\ UNCHANGED <<each_packet, clock, Table, last_time, wpc, wentry, spc, cur_time>>

ReadUnlock ==
    /\ spc = "scan" /\ todo = {}
    /\ spc' = "wait"
    /\ UNCHANGED <<each_packet, clock, Table, last_time, tv, ring, wpc, wentry, cur_time, todo>>

Tick ==
    /\ clock < MaxTime
    /\ clock' = clock + 1
    /\ UNCHANGED <<each_packet, Table, last_time, tv, ring, wpc, wentry, Watcher>>

(***************************************************************************)
(* The specification.  An entry put twice into the free list corrupts it:  *)
(* what the program does from there on is not modelled.                    *)
(***************************************************************************)
\*
\* _tcp_session_close frees the entry of a session, ch_ptable_entries_timeout_free that
\* of a silent one: no entry goes to the free list by both ways.
FreedOnce == \A e \in Entries : nfree[e] <= 1

Lookup == \E k \in Keys : \/ FindLast(k) \/ FindCached(k) \/ FindLinked(k)
                          \/ Create(k) \/ NoCreate(k)
Worker == Lookup \/ Insert \/ Keep \/ Ignore \/ SessionEnd \/ Dequeue \/ TimeoutFree \/ Drained
Watch == WatchBegin \/ ReadLock \/ (\E e \in Entries : Visit(e)) \/ ReadUnlock

Next == FreedOnce /\ (Worker \/ Watch \/ Tick)

Spec == Init /\ [][Next]_vars

\* Packets that take part in the table keep coming and the threads keep running; of a
\* table whose ring is not looked at after every packet, not all of these are ignored
\* from some time on.  The write lock is spun for, and the watcher sleeps between its
\* walks with the lock released.
Fairness ==
    /\ WF_vars(FreedOnce /\ Lookup)
    /\ WF_vars(FreedOnce /\ (Keep \/ Ignore \/ Dequeue \/ Drained))
    /\ SF_vars(FreedOnce /\ ~each_packet /\ (Keep \/ SessionEnd))
    /\ SF_vars(FreedOnce /\ (Insert \/ TimeoutFree))
    /\ WF_vars(FreedOnce /\ Watch)

FairSpec == Spec /\ Fairness

(***************************************************************************)
(* Properties.                                                             *)
(***************************************************************************)
Idle(e) == clock - last_time[e] > Timeout

\* Type invariant.
TypeOK ==
    /\ each_packet \in BOOLEAN
    /\ clock \in 0 .. MaxTime /\ cur_time \in 0 .. MaxTime
    /\ nfree \in [Entries -> 0 .. 2]
    /\ linked \subseteq Entries /\ caches \subseteq Entries /\ todo \subseteq Entries
    /\ key \in [Entries -> Keys]
    /\ last_time \in [Entries -> 0 .. MaxTime]
    /\ tv \in [Entries -> 0 .. TimeMod - 1]
    /\ n_caches \in Int
    /\ last_entry \in Entries \cup {NoEntry} /\ wentry \in Entries \cup {NoEntry}
    /\ ring \in Seq(Entries)
    /\ wpc \in {"idle", "insert", "handle", "drain", "timeout"}
    /\ spc \in {"wait", "lock", "scan"}

\* Nothing that find may look at is dangling: last_entry and the cached entries
\* are in the table, and what is in the table is not in the free list.
NoDangling ==
    /\ last_entry = NoEntry \/ last_entry \in linked
         \/ (wpc = "insert" /\ last_entry = wentry)
    /\ caches \subseteq linked
    /\ \A e \in linked : nfree[e] = 0

\* The counter of cached entries agrees with the list, which respects its limit:
\* _ptable_caches_insert would otherwise evict from an empty list.
CachesCounted == n_caches = Cardinality(caches) /\ n_caches <= CacheLimit

\* A connection has at most one entry: no entry hides another one.
OneEntryPerKey == \A e, f \in linked : key[e] = key[f] => e = f

\* Every entry is in the free list or in the table (or about to be): none is lost.
NoEntryLost ==
    \A e \in Entries : nfree[e] = 0 => e \in linked \/ (wpc = "insert" /\ wentry = e)

\* The read lock of _watch_ptable: no entry the watcher is yet to visit is
\* unlinked and put into the pool under its feet.
WatchSafe == todo \subseteq linked

\* "free entries timeout": the entry that ch_ptable_entries_timeout_free is about to
\* free belongs to a connection that has been silent for longer than entry_timeout,
\* neither refreshed since the watcher saw it nor taken for idle by mistake.
TimeoutFreeIdle == wpc = "timeout" => Idle(wentry)

\* While packets keep coming that make the worker look at the ring, the entry of a
\* connection that has gone silent is freed (or the connection speaks again), unless the
\* free list has been corrupted before.  For a TCP session table these are the packets of
\* other sessions that are not ignored: with none of them a silent session stays.
SilentFreed ==
    \A e \in Entries : (e \in linked /\ Idle(e))
                          ~> (e \notin linked \/ ~Idle(e) \/ ~FreedOnce)
=============================================================================
