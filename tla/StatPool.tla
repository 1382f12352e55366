------------------------------- MODULE StatPool -------------------------------
(***************************************************************************)
(* The traffic statistics of PDispatcher (statistic): receive tasks hand   *)
(* each packet's time and size to the statistics, either themselves        *)
(* (ch_stat_pool_update once per round, ch_stat_pool_handle per packet) or *)
(* through a ring to a task of its own (use_task).  The entries of the     *)
(* ring come from a mempool.  When stat_time_up has passed since           *)
(* base_time, all counters are reset and a new period begins.              *)
(*                                                                         *)
(* The counters themselves steer nothing and are left out.  Times are      *)
(* uint64_t: differences are taken modulo TimeMod, 2^64 in the code.       *)
(***************************************************************************)
EXTENDS Integers, Sequences, FiniteSets

CONSTANTS RxTasks,     \* receive tasks that may run
          PoolSize,    \* entries of stat_mpool
          RingCaps,    \* entries stat_ring may hold: its size less one
          TimeUp,      \* stat_time_up
          TimeMod,
          MaxTime      \* bound: the clock

ASSUME StatAssumption ==
    /\ IsFiniteSet(RxTasks)
    /\ PoolSize \in Nat /\ RingCaps \subseteq Nat
    /\ TimeUp \in Nat /\ MaxTime \in Nat /\ TimeMod \in Nat /\ MaxTime < TimeMod

VARIABLES use_task, tasks, cap,   \* the configuration
          now, base_time,
          mpool, ring, etime,     \* free entries (a FIFO), entries in the ring, their times
          rx,                     \* of each receive task: step, time of its round, entry
          stat,                   \* the statistics task: step, entry
          reused                  \* history: an entry it still reads was given out again

statConf == <<use_task, tasks, cap>>
statVars == <<statConf, now, base_time, mpool, ring, etime, rx, stat, reused>>

Entries == 1 .. PoolSize
NoEntry == 0

StatInit ==
    /\ use_task \in BOOLEAN /\ cap \in RingCaps
    /\ tasks \in SUBSET RxTasks \ {{}}
    /\ now = 0 /\ base_time = 0
    /\ mpool = [i \in Entries |-> i] /\ ring = <<>>
    /\ etime = [e \in Entries |-> 0]
    /\ rx = [r \in RxTasks |-> [pc |-> "idle", time |-> 0, entry |-> NoEntry]]
    /\ stat = [pc |-> "idle", entry |-> NoEntry] /\ reused = FALSE

\* Faulty variant of Expired, for mutation: the difference the other way round.
Expired_Swapped(t) == (base_time - t) % TimeMod >= TimeUp

\* ch_stat_pool_update: an unsigned difference, also of a time before base_time.
Expired(t) == (t - base_time) % TimeMod >= TimeUp

Tick ==
    /\ now < MaxTime
    /\ now' = now + 1
    /\ UNCHANGED <<statConf, base_time, mpool, ring, etime, rx, stat, reused>>

\* _packet_receive_task_run: the time is read once for all packets of the round.
RxRun(r) ==
    /\ r \in tasks /\ rx[r].pc = "idle"
    /\ rx' = [rx EXCEPT ![r].time = now, ![r].pc = IF use_task THEN "idle" ELSE "update"]
    /\ UNCHANGED <<statConf, now, base_time, mpool, ring, etime, stat, reused>>

\* ch_stat_pool_update by a receive task: the test, then the store.
RxUpdate(r) ==
    /\ rx[r].pc = "update"
    /\ rx' = [rx EXCEPT ![r].pc = IF Expired(rx[r].time) THEN "reset" ELSE "idle"]
    /\ UNCHANGED <<statConf, now, base_time, mpool, ring, etime, stat, reused>>

RxReset(r) ==
    /\ rx[r].pc = "reset"
    /\ base_time' = rx[r].time
    /\ rx' = [rx EXCEPT ![r].pc = "idle"]
    /\ UNCHANGED <<statConf, now, mpool, ring, etime, stat, reused>>

\* ch_stat_task_entry_put: an entry is taken and filled; with none left the packet is not counted.
EntryGet(r) ==
    /\ use_task /\ r \in tasks /\ rx[r].pc = "idle" /\ mpool # <<>>
    /\ rx' = [rx EXCEPT ![r].pc = "put", ![r].entry = Head(mpool)]
    /\ mpool' = Tail(mpool)
    /\ etime' = [etime EXCEPT ![Head(mpool)] = rx[r].time]
    /\ reused' = (reused \/ (stat.pc = "update" /\ stat.entry = Head(mpool)))
    /\ UNCHANGED <<statConf, now, base_time, ring, stat>>

\* Faulty variant of RingFull, for mutation: the ring's size, not its capacity.
RingFull_Size == Len(ring) = cap + 1

\* rte_ring_full; an enqueue fails in the same case.
RingFull == Len(ring) = cap

\* Faulty variant of FullTest, for mutation: the entry is not put back.
FullTest_Drop(r) ==
    /\ rx[r].pc = "put"
    /\ rx' = IF RingFull THEN [rx EXCEPT ![r].pc = "idle", ![r].entry = NoEntry]
             ELSE [rx EXCEPT ![r].pc = "enqueue"]
    /\ UNCHANGED <<statConf, now, base_time, mpool, ring, etime, stat, reused>>

FullTest(r) ==
    /\ rx[r].pc = "put"
    /\ IF RingFull
       THEN /\ mpool' = Append(mpool, rx[r].entry)
            /\ rx' = [rx EXCEPT ![r].pc = "idle", ![r].entry = NoEntry]
       ELSE /\ rx' = [rx EXCEPT ![r].pc = "enqueue"]
            /\ UNCHANGED mpool
    /\ UNCHANGED <<statConf, now, base_time, ring, etime, stat, reused>>

\* The result of the enqueue is not looked at.
EntryEnqueue(r) ==
    /\ rx[r].pc = "enqueue"
    /\ ring' = IF RingFull THEN ring ELSE Append(ring, rx[r].entry)
    /\ rx' = [rx EXCEPT ![r].pc = "idle", ![r].entry = NoEntry]
    /\ UNCHANGED <<statConf, now, base_time, mpool, etime, stat, reused>>

\* _stat_task_run: counts the packet, ...
StatDequeue ==
    /\ stat.pc = "idle" /\ ring # <<>>
    /\ stat' = [pc |-> "free", entry |-> Head(ring)]
    /\ ring' = Tail(ring)
    /\ UNCHANGED <<statConf, now, base_time, mpool, etime, rx, reused>>

\* ... gives the entry back, ...
StatFree ==
    /\ stat.pc = "free"
    /\ mpool' = Append(mpool, stat.entry)
    /\ stat' = [stat EXCEPT !.pc = "update"]
    /\ UNCHANGED <<statConf, now, base_time, ring, etime, rx, reused>>

\* ... and reads the time of the entry it has given back.
StatUpdate ==
    /\ stat.pc = "update"
    /\ base_time' = IF Expired(etime[stat.entry]) THEN etime[stat.entry] ELSE base_time
    /\ stat' = [pc |-> "idle", entry |-> NoEntry]
    /\ UNCHANGED <<statConf, now, mpool, ring, etime, rx, reused>>

StatNext ==
    \/ Tick \/ StatDequeue \/ StatFree \/ StatUpdate
    \/ \E r \in RxTasks : RxRun(r) \/ RxUpdate(r) \/ RxReset(r)
                          \/ EntryGet(r) \/ FullTest(r) \/ EntryEnqueue(r)

StatSpec == StatInit /\ [][StatNext]_statVars

-----------------------------------------------------------------------------
\* Times, queues and steps stay in their ranges.
StatTypeOK ==
    /\ now \in 0 .. MaxTime /\ base_time \in 0 .. MaxTime
    /\ mpool \in Seq(Entries) /\ ring \in Seq(Entries) /\ Len(ring) <= cap
    /\ etime \in [Entries -> 0 .. MaxTime]
    /\ rx \in [RxTasks -> [pc : {"idle", "update", "reset", "put", "enqueue"},
                           time : 0 .. MaxTime, entry : Entries \union {NoEntry}]]
    /\ stat \in [pc : {"idle", "free", "update"}, entry : Entries \union {NoEntry}]

Queued(q) == {q[i] : i \in DOMAIN q}
InHand == {rx[r].entry : r \in {t \in RxTasks : rx[t].pc \in {"put", "enqueue"}}}
          \union (IF stat.pc = "free" THEN {stat.entry} ELSE {})

\* An entry is free, in the ring or in the hand of one task, as long as there is one receive
\* task or the ring has room for all entries.  With two tasks and a smaller ring both may find
\* room for one (rte_ring_full) and one entry is lost: the sizes are what it depends on.
StatKept ==
    Cardinality(tasks) = 1 \/ PoolSize <= cap =>
        /\ Queued(mpool) \union Queued(ring) \union InHand = Entries
        /\ Len(mpool) + Len(ring) + Cardinality(InHand) = PoolSize

\* A period ends only when stat_time_up has passed since it began, and base_time never goes
\* back, with one receive task, unless the entry whose time the statistics task reads after
\* giving it back is in use again.
PeriodForward ==
    [][Cardinality(tasks) = 1 /\ ~reused /\ base_time' # base_time =>
          base_time' - base_time >= TimeUp]_statVars
=============================================================================
