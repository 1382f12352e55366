# A TLA+ verification project for CloudHands

CloudHands captures network traffic with DPDK, follows the TCP and UDP sessions
in it and restores what the application protocols said.  This directory holds
TLA+ modules that model its core, TLC configurations that check them on small
instances, and TLAPS proofs of the results that do not depend on an instance.

## 1. Inventory of the system

CloudHands is a set of processes that share memory through DPDK:

| Part | Source | State | Operations | Interacts with |
|---|---|---|---|---|
| PDispatcher | `PDispatcher/`, `packet/` | ports, receive tasks, packet buffers | `_pkt_handle`: parse, filter, count, hand on | rings of TCP/UDP/SA, statistic |
| Process interface | `MProcess/ch_process_interface.c` | one rte_ring per queue, counters | `put`, `pop` | every process |
| TCP restoration | `tcp/main`, `tcp/session` | request table, session table, endpoints, fragments | handshake, reassembly, close, timeout | ring, ptable, application parsers, store |
| TCP applications | `tcp/app/*` | one parser per protocol | parse request/response, `PARSE_BREAK` | session handler, shared memory |
| UDP restoration | `udp/main`, `udp/session`, `udp/app` | session table | session create, packet handle, timeout | ring, ptable |
| Stream analysis | `StreamAnalyze/` | request/session tables, data stores | counters, payload capture, records | ring, ptable, shared memory |
| Session table | `lib/ptables/ch_ptable*.c` | hash buckets, LRU cache, entry pool, timeout ring | find, create, free, timeout scan | session tasks and the watch task |
| Shared-memory queue | `lib/shm/` | entries of a mapped file, positions, count | get/commit, record put/flush, iterate | writers here, readers in `api/` |
| Memory | `lib/ptables/ch_memory*.c`, `lib/memory` | cached blocks by size | alloc, free, cache clean | everything |
| Statistics | `statistic/` | counters of a period, mempool and ring of entries | put, handle, update | receive tasks |
| PSink | `psink/`, `MProcess/ch_process_psink.c` | file queue | read pcap files, put packets | rings |
| Session monitor, white/black list | `SessionMonitor/`, `WBList/` | shared tables | add, delete, lookup | session tasks, SA |
| Rules and filters | `rule/`, `filter/` | parsed rules | match | receive tasks, applications |
| Dump tool, APIs | `pdump/`, `api/` | none of their own | read packets / records | shared memory |
| DPDK | `DPDK/` (vendored, patched) | mempool, rings, ports | | |

What is hard in it: several receive tasks and processes share buffers and
rings without locks; the session table is freed by one thread and scanned by
another; a session can be closed by a reset, a parse failure, the fourth
segment of the close or a timeout, several of which can apply at once; segments
arrive lost, twice and out of order with 32-bit sequence numbers; the
shared-memory count is updated by two processes.

What makes each part correct, and where that is stated:

| Part | Correct means | Stated as |
|---|---|---|
| PDispatcher, process interface | a packet buffer is released when nobody refers to it, not before and not never | `RefSafe`, `NoLeak`, `AllReturned`, `ChainAlive` |
| Endpoint reassembly | the parser gets the stream's bytes once, in order, as far as they are known | `InOrder`, `FragsApart`, `StreamSpec`, `BytesKept` |
| TCP sessions | what the hosts said is handed over completely; a session is closed once and for the right reason | `Followed`, `ClosedComplete`, `NoFalseDiscard`, `ClosedOnce` |
| Session table | table, cache, `last_entry` and free list agree; a silent connection, and only a silent one, is freed, once | `NoDangling`, `CachesCounted`, `OneEntryPerKey`, `NoEntryLost`, `WatchSafe`, `SilentFreed`, `FreedOnce` |
| Shared-memory queue | records are read in order, once but for a fault of one of the processes, and those in a committed entry are read; the count stays in the range its tests rely on | `QueueSpec`, `Delivered`, `CountInRange` |
| UDP sessions, tftp, dns | an application session has one owner, is released and is written out once; a transfer reported as done is whole | `AppOwned`, `AllReleased`, `ReportedOnce`, `RecordedWhole` |
| dns names | compressed names are read as the format says, but for labels with a byte 0, in finitely many steps | `NameRight`, `NameEnds` |
| FTP | the objects of control and data connections outlive what points to them; one record per transfer | `FtpSound` |
| Stream analysis | stored bytes are the first ones of the stream; one record per session; data stores return | `StreamPrefix`, `RecordComplete`, `OneRecord`, `StoresOwned`, `BreakEnds` |
| Session monitor | an item that is not deleted is never out of reach, whatever was interrupted | `ItemsKept`, `TableExact` |
| Statistics | entries of the pool are not lost; a period ends in time and time goes forward | `StatKept`, `PeriodForward` |

`PROJECT.json` lists the hazards behind these properties line by line, the ones
no property covers yet included, and maps every definition to the source lines
it models.

## 2. Modules

| Module | Models | Run by |
|---|---|---|
| `PacketDispatch` | `_pkt_handle`, `ch_process_interface_put`, `ch_process_queue_pop`, the session task loops, `rte_pktmbuf_free` | `MCPacketDispatch` |
| `PacketDispatchProofs` | inductive invariant and proofs | TLAPS |
| `AssembleFragment` | the operators of `ch_assemble_fragment.c` on the list of fragments | through `TcpReassembly` |
| `ByteStream` | abstract: a stream handed over as its longest gap-free prefix | as a property of `TcpReassembly` |
| `TcpReassembly` | `_process_data_packet` for one endpoint | `MCTcp`, itself |
| `TcpReassemblyProofs` | inductive invariant, proofs and the proof of refinement | TLAPS |
| `TcpHosts` | environment: the two hosts of a connection, the network and the tap | extended by `TcpSession`, `StreamAnalyze` |
| `TcpSession` | `ch_tcp_session_request_packet_handle`, `ch_tcp_session_packet_handle` for one connection | `MCTcp`, itself |
| `TcpSessionProofs` | inductive invariants and proofs | TLAPS |
| `StreamAnalyze` | SAMain's TCP and UDP sessions and their data stores | `MCTcp`, itself |
| `StreamAnalyzeProofs` | inductive invariants and proofs; extends `TcpSessionProofs` for the hosts | TLAPS |
| `PTable` | `ch_ptable.c` with `ch_ptable_watch_task.c` | `MCPTable` |
| `PTableProofs` | inductive invariant and proofs | TLAPS |
| `ShmQueue` | `lib/shm`: the entries of the ring and the records in them, writer and reader | `MCShared` |
| `RecordQueue` | abstract: records are got in order, none lost and none twice but by a counted fault | as a property of `ShmQueue` |
| `ShmQueueProofs` | inductive invariants, proofs and the proof of refinement | TLAPS |
| `SessionMonitor` | `ch_session_monitor.c`: the mapped table, store by store | `MCShared` |
| `StatPool` | `ch_stat_task.c`, `ch_stat_pool.c` and their use by the receive tasks | `MCShared` |
| `MonitorStatProofs` | inductive invariants and proofs for both | TLAPS |
| `UdpSession` | `udp/session` with the tftp and the dns application | `MCApps` |
| `DnsName` | `ch_dns_name_parse`, byte by byte | `MCApps` |
| `FtpData` | `tcp/app/ftp`: control connections and the data connections they announce | `MCApps` |
| `ApplicationsProofs` | inductive invariants and proofs for `UdpSession` and `FtpData` | TLAPS |
| `MCDispatchReturn` | `PacketDispatch` with the mode (port or pcap file) chosen at the start | itself |

`MCTcp`, `MCShared` and `MCApps` check several modules in one run: a variable
`part` says at the start which module moves, and
the variables of the others keep their initial values.  They extend the modules
the proofs are about, so that a run and a theorem speak of the same definitions;
`MCDispatchReturn` extends `PacketDispatch`, with its second mode as an instance.
`MCTcp` has `TcpSession` and `StreamAnalyze` watch the hosts of `TcpHosts`, each
with the packets that pass its tap.

How they fit together: a session task of `PacketDispatch` pops a packet and
handles it; handling it is a step of `TcpSession`, which finds request and
session in two tables, each a `PTable`, and which sees the bytes of a direction
as a set, where `TcpReassembly` has the fragments that hold them.  `ByteStream`
is what both rely on: after each packet the parser has the longest gap-free
prefix of what was captured (in `TcpSession` this is `FirstGap`).  Applications
write what they restored to `ShmQueue`; `FtpData` and `UdpSession` are two sides
of what an application keeps between packets.

### PacketDispatch

`refcnt[m]` is the reference count of the first segment of buffer `m` (0: in the
mempool), `chain[m]` the state of its further segments, `ring[q]` the content of
a ring, `rxpc/rxbuf/rxq` the progress of a receive task in `_pkt_handle`,
`wkpc/wkbuf` that of the session task reading `q`.  A receive task takes one
buffer of a burst at a time.  `RxBurst` receives and parses, `RxDrop` is a
failed parse or a filter hit, `RxAcceptL4` sets the count to 2 and starts the
put to TCP/UDP, `RxAcceptOther` starts the put to SA.  A put is two steps, the
space test (`PutHasSpace`, `PutFullL4`, `PutFullSa`) and the enqueue
(`PutEnqueueL4`, `PutEnqueueSa`), because other receive tasks run in between.
`Pop`, `PopCopy`, `HandleCopy`, `HandleInPlace` are the reader.
The queue a packet goes to depends on its hash; the model picks any queue.
`IsFromPcap` is the mode of PSink and of a PDispatcher that reads a pcap file: a
put waits for space instead of failing.

### AssembleFragment, TcpReassembly, ByteStream

A fragment is its offset and its bytes; byte `i` of the stream has the value
`i`, so that data shifted against its offset is visible.  The list operators
follow the C code's order: fragments covered by the new one are freed, the new
one is trimmed against its neighbours, then merged with the ones it touches.
`Push`, `FreeBelow` and `CanPop` are `ch_assemble_fragment_push` and `_pop`.
Offsets are numbers modulo `W`, which stands for 2^32.  `TcpReassembly` has one
action per branch of `_process_data_packet` (`DataOld`, `DataUnorder`,
`DataExpected`), with the outcomes of a failed allocation and of a parser that
breaks off.  A packet is any segment of the stream within `Window` bytes of the
next one waited for, any number of times.

### TcpSession

`sreq` is the session request and `sess` the session (state, four-way state,
`fin1_seq`, `fin2_seq`, and per endpoint `last_offset`, `last_ack` and the bytes
held back).  `Handle...` are the branches of
`_three_way_handshake_process`, `DataProcess` is `_tcp_session_data_process`,
`PacketHandle` is `ch_tcp_session_packet_handle` with its early exit, and
`ended` records each call of `_tcp_session_close` with its reason, so that a
second call in the same packet is visible.  The rest is the environment: two
hosts whose packets the program sees before the network may lose them; any
segment may be sent again, data may be reordered, a FIN follows the data, an
acknowledgement tells what has arrived.  Requests and sessions may time out
between any two packets.

### PTable

`linked` are the entries in the buckets, `caches` those in the LRU list,
`nfree[e]` how often `e` is in the free list (2 after a double free), `ring` is
`timeout_entries`.  The worker looks a key up (`FindLast`, `FindCached`,
`FindLinked`), creates and inserts (`Create`, `Insert`), keeps or frees the entry
(`Keep`, `SessionEnd`) and empties the ring (`Dequeue`, `TimeoutFree`,
`Drained`).  `each_packet` tells the two kinds of tables apart.  The table of
requests and the UDP tables are looked after with every packet; the table of TCP
sessions only at the end of `ch_tcp_session_packet_handle`, so that a packet
that misses, is ignored (`Ignore`) or fails to create a session leaves the ring
as it is.  The watch task reads the time (`WatchBegin`), walks the table under
the read lock (`ReadLock`, `Visit`, `ReadUnlock`).  Only `Insert` and `EntryFree`
need the write lock.  `IdleTime` is the unsigned difference of the code, modulo
`TimeMod` for 2^64.

### StreamAnalyze

`sareq` and `sasess` are request and session of the connection, `usess[k]` the
UDP sessions, and `free`, `allac`, `data` the pool of data stores that all share.
`SAHandshake` is `_three_way_handshake_process`, `SAPacketHandle` is
`ch_sa_tcp_session_packet_handle`: a reset, a FIN, data (`ProcessSAData`, which
may write the session out when both directions have what is asked for) and then
the acknowledgements (`ProcessAcks`).  `out` has one element per call that writes
the session out.  The size of a data store is the
smaller of the limit asked for (`MaxPlen`) and of `MaxDsize`, as in the code.

### ShmQueue, RecordQueue

`cur`, `wpos` and `rpos` are the header both processes map, `number` and `body`
the entries.  The `+=` on the count is a load and a store (`WriterLoad`,
`WriterStore`, `ReaderLoad`, `ReaderStore`); the position is moved before.  The
writer may start again over the same file (`Restart`), the reader may die
(`ReaderCrash`) or close (`ReaderClose`); `faults` counts these three.  A put that
finds its entry full commits it and gets the next one, and `Flush` commits an entry
that is not full.

In `RecordQueue` the reader opens a group of records at the head of the queue,
takes them one by one and is done with the group when none is left.  `Close` (the
rest of the group is given up), `TakeAgain` (the group is back in the queue) and
`Start` (what was not read is lost) raise `faults`, and `QueueSpec` maps `faults`
to that of the code: without a close, a death or a restart no record is lost,
skipped or got twice, and a group that is finished with records unread is not
allowed.  History variables record whether an update of the count was lost
(`lostInc`, `lostDec`) or the writer started again under the reader (`stale`):
`QueueSpec` maps such states to a `RecordQueue` that is not `ok` and promises
nothing, and shows that nothing else breaks it.

### SessionMonitor, StatPool

`items` is the table as it is in the file, so that what another process reads
between two stores, or finds after the tool was killed, is a state.  `want` is
what should be there.  In `StatPool` the configuration (`use_task`, the tasks,
the ring's capacity) is chosen at the start; `rx` is the progress of each receive
task and `stat` that of the statistics task, `reused` records that an entry still
being read was given out again.

### UdpSession, DnsName, FtpData

`app` has every application session ever created, `reqs` the list of requests and
`sess` the session of each flow, as numbers into `app`; a flow's packets pass the
tap in any order, repeatedly or not at all.  A flow is what `is_udp_request` and
`is_udp_response` compare, here named by the server's port.  Requests go to port 69
and the server answers from another one, so a request that is sent again opens an
application session and a request of its own, also while the transfer has a
session.  A waiting request is found by the client's port alone
(`Request_equal`), which in the run serves both transfers: the answer may then take
the request of the other one.

`ring` is the timeout ring of the session table: the watch thread puts the entries
of silent sessions there (`WatchTimeout`), and the task frees what it finds, after
a packet and when there is none (`SessionTimeout`), whatever became of the session
in the meantime.  A session that a packet ends while its entry is in the ring, or
that the watch thread meets again before its entry is unlinked, is therefore
finished and written out twice: finding 5 seen from here.  `overtaken` remembers
these, `refused` the application sessions for which there was no room in the list
or in the table, which the code drops without finishing them.  After a second
finish nothing is modelled (`FinishedOnce`).

`DnsName` reads every message of `MsgLen` bytes over `Bytes` from every offset and
compares with `Reference`, a definition of what the bytes mean.  `buf` is the
buffer of the parser and `ndata` what `ch_psprintf("%s")` makes of it, which a
byte 0 within a label cuts, while `length` stays that of the whole name.  In `FtpData` `cmds` are the commands of the
control session with their data connection object, `list` the task's list of
objects, `dsess` the data sessions; `dangling` becomes true when a step goes
through a pointer to something that was freed.

## 3. Runs

| Run | Instance | Result |
|---|---|---|
| `dispatch_live` | 2 receive tasks, 3 buffers, one ring of size 1 per process, chained packets | `TypeOK`, `RefSafe` hold |
| `dispatch_return` | 1 receive task, from a port or from pcap files, full rings | `NoLeak`, `AllReturned` hold, no deadlock |
| `dispatch_leak` | 2 receive tasks | `NoLeak` violated (finding) |
| `dispatch_chain` | chained packets | `ChainAlive` violated (finding) |
| `tcp` | a connection of 3 and 2 bytes in segments of up to 2, seen by `TcpSession` and by `StreamAnalyze` with up to 2 stores and a UDP session; a stream of 9 bytes in segments of up to 4 whose sequence numbers wrap | twelve properties of the three modules hold |
| `session_datafin` | a FIN may carry data | `NoFalseDiscard` violated (finding) |
| `stream_double` | packets may be missed before the tap | `BreakEnds` violated (finding) |
| `reassembly_wrap` | more bytes than an offset can count | `BytesKept` violated (finding) |
| `ptable_table` | 3 keys in 2 buckets, 2 entries, cache of 1, ring of 1 | the six invariants and `SilentFreed` hold |
| `ptable_double` | 2 keys, ring of 2 | `FreedOnce` violated (finding) |
| `shared_memory` | queue: 2 entries of 2 records, 3 records, 1 fault; monitor: 3 slots, 4 adds; statistics: 2 tasks, 2 entries, a ring for 1 or 2, clock to 4 | nine properties hold |
| `applications` | names: messages of 5 bytes; udp: 2 transfers from one port and a query, 5 packets, 2 sessions, 2 requests; ftp: 2 control sessions of 3 commands, 2 objects, 3 data connections | eight properties hold |

Why the bounds are enough.  Rings and caches of size 1 and pools smaller than
the number of keys make "full" and "empty" the common case.  Three buffers let
two tasks hold one each while a third is in a ring.  Nine bytes in segments of
up to four give every relation of a new fragment to its neighbours (covered,
overlapping either end, touching one or both, apart) with two fragments already
held.  Two buckets, one of them shared, give both ways in which the watcher can
skip entries.  In `PTable` the clock stops at `MaxTime`: 3 is
beyond the timeout of 1 by enough for an entry to be refreshed once and go
silent again.  The clock is not an obstacle to `SilentFreed`, since an entry
that is idle when it stops stays idle until it is freed.
Two data stores are fewer than the connection and the UDP session want, and
payloads are longer than what is stored (`MaxPlen`).  A ring of two entries is
full with one entry being read and one waiting.  Three items are the least for a
delete that moves two.  In `StatPool` the clock reaches two periods, and
`TimeMod` is far enough beyond it that a difference below zero is as large as it
would be modulo 2^64.  Five bytes hold a label, a pointer into it and a pointer
to that pointer.  In `FtpData` three connections with two ports let two of them
find the same object; the run was also made with four commands and three objects.

Fairness.  `AllReturned` assumes that receive tasks and session tasks keep
running, each is a loop on a core of its own.  `SilentFreed` assumes that
packets keep arriving at the table (its ring is only emptied by a packet's
handler), that both threads keep running, and strong fairness for taking the
write lock: the worker spins for it and the watcher sleeps, lock released,
between two walks.  For a table whose ring is not looked at after every packet
it also assumes, again as strong fairness, that among the packets that find or
create a session some are handled.  This is an assumption on the traffic and not
something the code sees to: if all packets miss, are ignored or fail to create a
session, a silent TCP session stays for good.  `Delivered` assumes that the reader
polls and that a put or a flush that was begun goes on.  It assumes neither another
record nor a flush: `ch_proto_session_store.c` flushes only after a put, when
`shm_flush_timeout` has passed, and the writers of UDP sessions and of stream
analysis never do, so that the last records can stay unread in the entry being
filled until there are more; `Delivered` is about the records of committed entries.
`AllReleased` assumes that the task loop and the watch thread go on, since
`_udp_session_task_run` looks after the timeouts in every round; `NameEnds` that
the parser's loop goes on.  None is claimed without these.

`CHECK_DEADLOCK FALSE` stands where the system may stop: a stream that is all
captured, a connection that was reset, a free list that was corrupted (what
follows is not modelled), rings whose buffers have leaked, a message that is
parsed, bounds that are reached.

Each property of a passing run has a mutant in `PROJECT.json`: a plausible
mistake in a mapped definition (commented "Faulty variant of ...") under which
TLC finds the property violated.

Properties with a condition.  `CountInRange`, `QueueSpec`, `Delivered`, `StatKept`,
`PeriodForward`, `AppOwned`, `ReportedOnce`, `AllReleased`, `NameRight` and
`FtpSound` name the cases in which the code gives no guarantee: a count updated by
both processes at once, a writer that starts again under the reader, two receive
tasks and a small ring, an entry read after it was given back, an application
session for which there was no room, one whose session ends while it is in the
timeout ring, a label with a byte 0, a control connection that ends first, two
connections found by one object.  The conditions are tight (without any one of them TLC finds a
violation), and each is a hazard in `PROJECT.json`.  No text of the repository
promises more, so they are not listed as findings.

`TcpSession` and `StreamAnalyze` see the timeout of their session as one step, and
take for granted that the session table frees an entry once (`FreedOnce` of
`PTable`).  `ClosedOnce`, `OneRecord` and `StoresOwned` hold relative to that: when
a session ends while its entry waits in the timeout ring (finding 5), the table
calls the timeout callback for it once more, and its record and its stores are
given away a second time.  `UdpSession` has the ring in its own state and so shows
there what finding 5 means for a session.

Smaller hazards that no property covers, beside those `PROJECT.json` lists:

- stream analysis does not look at the data of a FIN (`RecordComplete` is stated
  for FINs without data), and a packet of a new UDP session that finds the table
  full returns before the timeouts are looked after;
- a dns client that uses its port again while the session exists has its new
  query ignored; tftp block numbers wrap after 2^16 blocks (the file goes on); a
  tftp transfer may be recorded under the name of another one from the same client
  port, whose request was waiting when a packet came back;
- two monitor tools at the same time may get the same item; a tool killed within
  `ITEM_INIT` leaves an item in use without id and addresses; a stopped item is
  passed over when the same addresses are added again;
- the close tells "no FIN yet" by a sequence number 0 (`fin1_seq`, `fin2_seq`), so
  with an initial sequence number 0 an acknowledgement of the first byte is taken
  for one of a FIN: TLC finds `ClosedComplete` violated when `ReqIsn` or `ResIsn`
  is 0, and the theorem about it has the hypothesis that they are not;
- FTP: a 226 captured before the last data ends the transfer early, an object
  whose data connection never comes stays in the list (its clean-up is switched
  off by `#if 0`), and a failed `ch_ftp_data_connection_create` is logged but the
  pointer still used.

## 4. Findings

1. `ch_process_interface_put` ignores the result of `rte_ring_enqueue`; with two
   receive tasks a reference is lost (`dispatch_leak`).
2. The reference count is set on the first segment of a chained packet only; the
   other segments are released by the first reader (`dispatch_chain`).
3. 32-bit offsets are compared without regard to wrapping; after 2^32 bytes an
   endpoint stops for good (`reassembly_wrap`).
4. A FIN with data leaves the session in state DATA, so the acknowledgement of
   the FIN is taken for one of missed data (`session_datafin`).
5. A session that ends while its entry waits in the timeout ring is freed twice
   (`ptable_double`).
6. A stream analysis session that is written out and freed because its data is
   complete is tested for the end of the connection in the same packet, and may
   be written out and freed again (`stream_double`).

Met on the way and listed as a hazard: the watch task takes an entry refreshed
during its walk for one that has been idle for almost 2^64 seconds, and the
worker does not look at the time again before it frees.

## 5. Proofs

`PacketDispatchProofs` proves, for any finite numbers of tasks, rings and
buffers and any ring size, `TypeCorrect` (`[]TypeOK`) and `RefSafety`
(`[]RefSafe`).  `RefSafe` is not inductive: that a free leaves no dangling
reference needs that the count is at least the number of holders, which is
`CountInv`; a buffer counted once per holder needs that no ring holds a buffer
twice and that no two rings hold it except for the one L4 and the one SA copy
(`RingUnique`, `QueueUnique`), and that a receive task is the only one to have
its buffer and has not put it yet (`RxUnique`, `PutOnce`).  `IInv` is their
conjunction with `PcInv`, what each program counter implies.  The lemmas
`HoldsEnqueue`, `HoldsRelease`, `HoldsPop` say how the set of holders changes,
and there is one lemma per action.  The count may exceed the number of holders
(a lost enqueue), so the theorem covers the leak of finding 1 too.
`NoLeakOneTask` shows the other side: with one receive task (a hypothesis of the
theorem) the count is never more than the number of holders.  `SpaceLeft` says that
the space a put has found is still there when it enqueues, since nobody else
enqueues, and `Exactly` that count and holders agree for every buffer at every step
of `_pkt_handle`; the leak needs a second receive task.

`PTableProofs` proves `TableTyped`, `NothingDangles`, `CacheBounded`,
`EntriesAccounted`, `NoneLost` and `WatcherProtected`, for any finite pool of
entries and any keys, buckets, cache limit and ring capacity: all invariants the
run checks.  `IInv` adds to them what the worker holds between steps
(`WorkerInv`: an entry being inserted is in no bucket and no other entry has its
key) and that the watcher has something left to visit only under the lock
(`WatcherInv`).  The steps that free (`EntryFree`) and that cache
(`CachesInsertInv`) are lemmas of their own; the counter needs the cardinality
theorems of the library.  The assumptions are those of the modules
(`PTableAssumption`: a finite pool, a cache limit of at least one).  Behaviours
stop at the first double free, so the theorems speak of tables before finding 5
bites.

`ShmQueueProofs` proves `QueueTyped` (`[]TypeOK`) and `CountStays`
(`[]CountInRange`) for every size of the ring, number of records in an entry and
modulus of the count (`ShmAssumption`).  That the count stays within 0 and
`Count` although updates of it get lost needs to know what each process has
loaded: `CountInv` says that a writer between load and store has loaded less than
`Count`, a reader at least 1, and what the count must then be.  `PutHasRecord`
bounds the writer's record number.

`QueueRefines` proves `QueueSpec`: the queue implements `RecordQueue`, in which
only a counted fault gives up or repeats records, as long as no change of the count
was lost and the writer did not start again under the reader (the states in which
`QueueSpec` promises nothing).  The inductive
invariant `QueueInv` is about exactly the other states: `RingShape` (the entries
that wait are those between the two positions), `CountExact` (the count is their
number, but for the changes under way), `WriterAt` and `ReaderAt` (which entry each
process has in hand, and that the reader has got a prefix of its records).  The
records of the abstract queue are those of the entries that wait, joined; that the
recursion which joins them has one solution (`JoinExists`, `JoinSame`) is shown by
a least counterexample, since induction is not at hand.  One lemma per step shows
that it maps to a step of `RecordQueue` or to none; that an entry is committed only
when all its records were got, but for a close, is part of it (`CommitEntryMapped`).

`MonitorStatProofs` proves `MonTypeCorrect`, `MonItemsKept` and `MonTableExact`
about `SessionMonitor`, for tables of any size.  `MonInv` is `MonTypeOK` with `Prefix`
(the items in use come first), `Step` (what is known of the item a command is at)
and `KeptAside` (what is wanted is held by an item other than the one a delete has
to spare); that is all `ItemsKept` needs, killed tools included.  `ExactInv` adds,
as long as no tool was killed, that the order is that of the ids and only wanted
items are held (`InOrder`), that the next id is new (`FreshId`) and how many items
are in use (`Filled`).

It also proves `StatTypeCorrect`, `StatEntriesKept` and `StatPeriodForward` about
`StatPool`, for any numbers of tasks and entries and any ring.
`StatInv` says that every entry is in at most one of mempool, ring and the tasks'
hands (`Apart`) and, with one receive task or a large ring, in at least one
(`Cover`), that the space a single receive task has found is still there (`Room`),
and what each step implies (`Steps`).  `TimeInv` adds what the mode without a
statistics task leaves alone (`Mode`) and that, with one receive task, the times of
the entries are in the order of the ring and lie between `base_time` and that task's
last reading of the clock (`Timely`).

`TcpSessionProofs` proves `SessionTypeCorrect`, `SessionFollowed`,
`SessionNoFalseDiscard`, `SessionClosedComplete` and `SessionClosedOnce`, for
streams and segments of any length and any initial sequence numbers.  `Inv` is
`NetInv` (the hosts: what is received was sent, a FIN received means that all
data was), `RequestInv` (a request exists only before the first byte, and has the
right numbers), `SessionInv` (the bytes captured are those handed over, without a
gap, and those held, behind the gap) and `FedInv`.  It needs to know that
`FirstGap` returns the gap (`FirstGapIs`, `FirstGapEnds`), which rests on the
well-foundedness of the natural numbers in the form of a least element
(`NatMin`).  `AckInv` says that no acknowledgement recorded is ahead of the data,
for `NoFalseDiscard`; `FinInv` that a FIN remembered is the end of a stream all of
which has been seen, and that two different ones are the ends of both streams.
Two hypotheses: `~DataFin`, a FIN comes in a packet of its own (finding 4 is what
happens otherwise), and `ReqIsn # 0`, `ResIsn # 0` for the last two (0 stands for
"no FIN yet"; see section 3).  `Followed` needs neither.

`StreamAnalyzeProofs` proves `StreamTypeCorrect`, `StreamStoresOwned`,
`StreamStoresPrefix`, `StreamRecordComplete` and `StreamOneRecord`, for streams of
any length, any number of UDP sessions and any limits of stores.  `SAInv` is
`NetInv`, `SARequestInv`, `SASessionInv` and `Owned`: the stores allocated are in
the free list, once, or in the slot of one endpoint, whose bytes they hold.  There
is one lemma per operation of the pool (`StoreGetIs`, `StoreWriteIs`,
`DstoreFreeIs`), then one per function of the session handler, up to
`SAPacketHandleIs`, whose conclusion `SAHandled` lists every way a packet can
leave a session; `SAStep` does the same for a step.  `Shape` in `SASessionInv`
says that a direction without error has stored exactly what was handed on, up to
the limit.  `Tracks` says that no captured byte below the limit was overlooked,
which together gives `StreamPrefix`; it needs `~DataFin`, because the data of a
FIN is not looked at.  `SAFinInv` is `FinInv` once more; that a session is written
out once rests on the fact that when both FINs have been seen, and nothing was
missed at the tap, no data is wanted any more: the double close of finding 6 needs
a packet that was missed (`LossySpec`), as the run `stream_double` has it.

`TcpReassemblyProofs` proves `AsmTypeCorrect`, `ReassemblyInOrder`,
`ReassemblyApart`, `ReassemblyKeeps` and `ReassemblyRefines` (`AsmSpec` implements
`ByteStream`), for streams, packets and windows of any length, any initial sequence
number and packets in any order, any number of times.  The one hypothesis is
`NoWrap`: the stream is shorter than the range of an offset.  It is needed, as
finding 3 shows: `ReassemblyKeeps` is the property that `reassembly_wrap` violates
for a longer stream.  The sequence numbers themselves may wrap (`OffsetIs`).  A
fragment is an interval of the stream (`Frag`, `Span`), a list is in order and
apart (`InList`) and holds a set of bytes (`Spread`).  The fragments that a new one
covers are neighbours in the list (`CoveredBetween`), so that the walk cuts a piece
out of it (`SublistIs`); trimming and merging then put one fragment between two
positions (`PlaceIs`, `InsertIs`).  `PushIs`, `FreeBelowIs` and `PopIs` say what
`ch_assemble_fragment_push` and `_pop` do to order and bytes.  `AsmInv` is that the
list lies beyond `last_offset`, that what was parsed is a prefix of the stream and,
while the session is open, that what was captured is exactly that prefix and the
bytes of the list (`Accounted`).  That one pop per packet is enough is where
`FragsApart` and the refinement meet: after the pop there is a gap again.

`ApplicationsProofs` proves `FtpTypeCorrect` and `FtpIsSound`, for any numbers of
control sessions, commands, objects and data connections (`FtpAssumption`).
`FtpInv` adds to `FtpSound` that the list holds announced objects, each once
(`Announced`), that a command and its object point to each other (`CmdsPoint`), that
an open data session and its object do as long as no object was found twice
(`Paired`), and that all objects are those of the present control session as long
as none ended too early (`Present`).  For `UdpSession` it proves `UdpTypeCorrect`,
`UdpAppOwned`, `UdpReportedOnce` and `UdpRecordedWhole`, for any transfers of any
length from any client ports, any limits and a network that loses, repeats and
reorders packets (`UdpAssumption`).  `UdpInv` is `MonOK` (requests, sessions and
what was refused account for each application session that is not finished, in one
place), `OutInv` (the records written so far, each of a session that has been
finished) and `RingInv`: what is in the timeout ring waits as no request and was not
refused, and has been finished only if it was overtaken.  That is what makes a
second finish, and a second record, a matter of the ring alone.  `AppOK` says that
every block up to `last_block` was written after the one before it (`Written`): the
blocks a capture misses cannot be passed over, which is what `RecordedWhole` rests
on.

Model-checked only.  The liveness properties (`AllReturned`, `SilentFreed`,
`Delivered`, `AllReleased`, `NameEnds`), since the prover has no fairness, and
`NameRight` of `DnsName`, whose reference definition is recursive.  `MCTypeOK` is
the conjunction of the type invariants of the modules of a run; each of them is a
theorem but for that of `DnsName`.

## 6. Plan

What is left:

1. That `PTable` implements a map from keys to live entries.
2. `NameRight` for messages of any length: it needs an induction over the jumps of
   a compressed name, which is out of the prover's reach as `Reference` stands.

## 7. Not modelled

- Protocol parsers other than dns names, tftp and ftp (`tcp/app/http`, `mail`,
  `mysql`, `ssh`, `telnet`): thousands of lines that turn bytes into fields of a
  record, with state that stays within one session.  The session handlers see
  them as a parser that goes on or breaks off, which is all they depend on.
- Rules, filters, white and black lists: pure matching over loaded tables; a
  verdict is a nondeterministic choice.
- The common library, logging, formatting, start-up, configuration, the wrappers
  of files, RocksDB, Redis and Lua: no protocol between steps to check.
- The Java and Go programs behind the readers (`api/`), which convert records
  and pass them to other systems, and the vendored DPDK (`DPDK/`).  Together they
  are about half of the lines of the repository; the rings, mempools and packet
  buffers the program uses are external definitions.
- A second connection with the addresses and ports of one that still has a
  request or a session: the code does not tell the two apart and says nothing of
  it.

`PROJECT.json`, `components`, gives the reason for each part.
