------------------------------- MODULE ShmQueue -------------------------------
(***************************************************************************)
(* The shared-memory queue of records (lib/shm): a ring of entries with    *)
(* positions and a count in a header that the writer process and the       *)
(* reader process have mapped (ch_shm_interface), and the records both put *)
(* into and get from an entry (ch_shm_format, ch_packet_record and the     *)
(* readers of api/java/jni and api/go).                                    *)
(*                                                                         *)
(* Nothing protects the header.  The positions have one writer each, but   *)
(* both processes change the count, and the `+=' of                        *)
(* ch_shm_entry_pos_update is a load and a store: these are two steps.     *)
(* All records have the same size; an entry has room for PerEntry.         *)
(***************************************************************************)
EXTENDS Integers, Sequences, FiniteSets

CONSTANTS Count,      \* shm_entries_count
          PerEntry,   \* records in an entry
          CountMod,   \* the modulus of shm_entries_count_cur, 2^64 in the code
          MaxRec,     \* bound: records put
          MaxFault    \* bound: restarts of the writer, deaths and closes of the reader

ASSUME ShmAssumption ==
    /\ Count \in Nat \ {0} /\ PerEntry \in Nat \ {0}
    /\ CountMod \in Nat /\ CountMod > Count + 1
    /\ MaxRec \in Nat /\ MaxFault \in Nat

VARIABLES
    cur, wpos, rpos,     \* shm_entries_count_cur and the two positions
    number, body,        \* of each entry: entries_number and the records
    wpc, wload,          \* the writer; the count it has loaded
    has_header, wslot, wnum,  \* the entry it holds, the records put there
    flushing, next,      \* it flushes, or puts record `next'
    rpc, rload,          \* the reader; the count it has loaded
    rslot, rnum, ritn,   \* the entry it holds, its entries_number, entries_count
    torn,                \* the writer has the same entry
    faults,
    unread, taken,       \* history: entries committed and not consumed, records got
    wdirty, rdirty,      \* history: the count was changed since it was loaded
    lostInc, lostDec,    \* history: a change of the count was lost
    stale                \* history: the writer started again under the reader

Header == <<cur, wpos, rpos>>
Data == <<number, body>>
Writer == <<wpc, wload, has_header, wslot, wnum, flushing, next>>
Reader == <<rpc, rload, rslot, rnum, ritn, torn, taken>>
Lost == <<lostInc, lostDec, stale>>
vars == <<Header, Data, Writer, Reader, faults, unread, wdirty, rdirty, Lost>>

Slots == 0 .. Count - 1
NoMagic == -1        \* the entry has never been committed: no FIMAGIC
NoRec == 0           \* no record was ever written there: no EIMAGIC

Init ==
    /\ cur = 0 /\ wpos = 0 /\ rpos = 0
    /\ number = [s \in Slots |-> NoMagic]
    /\ body = [s \in Slots |-> [k \in 1 .. PerEntry |-> NoRec]]
    /\ wpc = "idle" /\ wload = 0 /\ has_header = FALSE /\ wslot = 0 /\ wnum = 0
    /\ flushing = FALSE /\ next = 1
    /\ rpc = "idle" /\ rload = 0 /\ rslot = 0 /\ rnum = 0 /\ ritn = 0
    /\ torn = FALSE /\ taken = <<>>
    /\ faults = 0 /\ unread = {}
    /\ wdirty = FALSE /\ rdirty = FALSE
    /\ lostInc = FALSE /\ lostDec = FALSE /\ stale = FALSE

\* Faulty variant of Full, for mutation: one entry too many.
Full_OffByOne == cur = Count + 1

\* ch_shm_full, ch_shm_empty
Full == cur = Count

\* Faulty variant of Empty, for mutation: the last entry is never got.
Empty_OffByOne == cur <= 1

Empty == cur = 0

\* Faulty variant of Advance, for mutation: one position too many.
Advance_NoWrap(pos) == (pos + 1) % (Count + 1)

\* ch_shm_entry_pos_update, the position
Advance(pos) == (pos + 1) % Count

(***************************************************************************)
(* The writer: ch_packet_record_put and ch_shm_format_flush.               *)
(***************************************************************************)
\* _shm_record_write
WriteRecord(slot, n) ==
    /\ body' = [body EXCEPT ![slot][n + 1] = next]
    /\ wnum' = n + 1
    /\ next' = next + 1

\* The entry at hand has room for the record.
Put ==
    /\ wpc = "idle" /\ next <= MaxRec
    /\ has_header /\ wnum < PerEntry
    /\ WriteRecord(wslot, wnum)
    /\ UNCHANGED <<Header, number, wpc, wload, has_header, wslot, flushing, Reader,
                   faults, unread, wdirty, rdirty, Lost>>

\* _shm_entry_header_commit, up to the new position
HeaderCommit ==
    /\ number' = [number EXCEPT ![wslot] = wnum]
    /\ wpos' = Advance(wpos)
    /\ unread' = unread \cup {wslot}
    /\ wpc' = "load"

\* There is no entry or it is full: _shm_entry_header_create.
PutNeedsEntry ==
    /\ wpc = "idle" /\ next <= MaxRec
    /\ flushing' = FALSE
    /\ \/ /\ has_header /\ wnum >= PerEntry
          /\ HeaderCommit
       \/ /\ ~has_header
          /\ wpc' = "get"
          /\ UNCHANGED <<number, wpos, unread>>
    /\ UNCHANGED <<cur, rpos, body, wload, has_header, wslot, wnum, next, Reader,
                   faults, wdirty, rdirty, Lost>>

\* ch_shm_format_flush, which _pstore_shm_flush calls for the queues of http and of the
\* other protocols after it put a record into one of them, if shm_flush_timeout has
\* passed.  Whether it is ever called again is up to the traffic, and the writers of udp
\* and stream analysis never call it: this step is under no fairness.  ch_bf_empty is
\* never true of an entry: its position is past the entry's header, so that an entry
\* without a record is committed as well.
Flush ==
    /\ wpc = "idle" /\ has_header
    /\ flushing' = TRUE
    /\ HeaderCommit
    /\ UNCHANGED <<cur, rpos, body, wload, has_header, wslot, wnum, next, Reader,
                   faults, wdirty, rdirty, Lost>>

\* shm_entries_count_cur += 1: the load, ...
WriterLoad ==
    /\ wpc = "load"
    /\ wload' = cur /\ wdirty' = FALSE
    /\ wpc' = "store"
    /\ UNCHANGED <<Header, Data, has_header, wslot, wnum, flushing, next, Reader,
                   faults, unread, rdirty, Lost>>

\* ... and the store.
WriterStore ==
    /\ wpc = "store"
    /\ cur' = (wload + 1) % CountMod
    /\ lostDec' = (lostDec \/ wdirty)
    /\ wload' = 0 /\ wdirty' = FALSE /\ rdirty' = (rpc = "store")
    /\ has_header' = FALSE /\ wslot' = 0 /\ wnum' = 0
    /\ wpc' = "get"
    /\ UNCHANGED <<wpos, rpos, Data, flushing, next, Reader, faults, unread, lostInc, stale>>

\* ch_shm_entry_get by the writer: there is an entry, for the record or after a flush.
WriterGet ==
    /\ wpc = "get" /\ ~Full
    /\ has_header' = TRUE /\ wslot' = wpos
    /\ wpc' = "idle"
    /\ IF flushing THEN wnum' = 0 /\ UNCHANGED <<body, next>>
                   ELSE WriteRecord(wpos, 0)
    /\ torn' = (torn \/ (rpc = "read" /\ rslot = wpos))
    /\ UNCHANGED <<Header, number, wload, flushing, rpc, rload, rslot, rnum, ritn, taken,
                   faults, unread, wdirty, rdirty, Lost>>

\* The ring is full: a flush is over, a put sleeps and tries again.
WriterFull ==
    /\ wpc = "get" /\ Full /\ flushing
    /\ wpc' = "idle"
    /\ UNCHANGED <<Header, Data, wload, has_header, wslot, wnum, flushing, next, Reader,
                   faults, unread, wdirty, rdirty, Lost>>

\* The writer dies and starts again: ch_shm_init with _shm_header_init.  Entries stay
\* as they are, and the reader, which has mapped the same file, is not told.
Restart ==
    /\ faults < MaxFault /\ faults' = faults + 1
    /\ cur' = 0 /\ wpos' = 0 /\ rpos' = 0
    /\ wpc' = "idle" /\ has_header' = FALSE
    /\ unread' = {} /\ taken' = <<>>
    /\ lostInc' = FALSE /\ lostDec' = FALSE
    /\ stale' = (rpc # "idle")
    /\ wdirty' = FALSE /\ rdirty' = (rpc = "store")
    /\ wload' = 0 /\ wslot' = 0 /\ wnum' = 0
    /\ UNCHANGED <<Data, flushing, next, rpc, rload, rslot, rnum, ritn, torn>>

(***************************************************************************)
(* The reader: PacketRecordReader.read, one record a call.                 *)
(***************************************************************************)
\* ch_shm_entry_iterator_prefare: an entry is got, and its header is valid.
Prepare ==
    /\ rpc = "idle" /\ ~Empty
    /\ number[rpos] # NoMagic
    /\ rslot' = rpos /\ rnum' = number[rpos] /\ ritn' = 0
    /\ torn' = (has_header /\ wslot = rpos)
    /\ rpc' = "read"
    /\ UNCHANGED <<Header, Data, Writer, rload, taken, faults, unread, wdirty, rdirty, Lost>>

\* record_next
NextRecord ==
    /\ rpc = "read" /\ ritn < rnum
    /\ body[rslot][ritn + 1] # NoRec
    /\ ritn' = ritn + 1
    /\ taken' = Append(taken, body[rslot][ritn + 1])
    /\ UNCHANGED <<Header, Data, Writer, rpc, rload, rslot, rnum, torn, faults, unread,
                   wdirty, rdirty, Lost>>

\* The records of an entry that the writer fills again do not line up with the old
\* header: EIMAGIC is missing, the iterator is dropped and the entry not committed.
BadRecord ==
    /\ rpc = "read" /\ ritn < rnum /\ torn
    /\ rpc' = "idle"
    /\ rslot' = 0 /\ rnum' = 0 /\ ritn' = 0 /\ torn' = FALSE /\ taken' = <<>>
    /\ UNCHANGED <<Header, Data, Writer, rload, faults, unread, wdirty, rdirty, Lost>>

\* ch_shm_entry_iterator_commit, up to the new position
ReaderCommit ==
    /\ rpos' = Advance(rpos)
    /\ unread' = unread \ {rslot}
    /\ rslot' = 0 /\ rnum' = 0 /\ ritn' = 0 /\ torn' = FALSE /\ taken' = <<>>
    /\ rpc' = "load"

\* Faulty variant of EntryRead, for mutation: the entry is committed with a record unread.
EntryRead_Early ==
    /\ rpc = "read" /\ ritn + 1 >= rnum
    /\ ReaderCommit
    /\ UNCHANGED <<cur, wpos, Data, Writer, rload, faults, wdirty, rdirty, Lost>>

\* No record is left: the entry is committed.
EntryRead ==
    /\ rpc = "read" /\ ritn >= rnum
    /\ ReaderCommit
    /\ UNCHANGED <<cur, wpos, Data, Writer, rload, faults, wdirty, rdirty, Lost>>

\* PacketRecordReader.close: the rest of the entry is given up.
ReaderClose ==
    /\ rpc = "read" /\ faults < MaxFault /\ faults' = faults + 1
    /\ ReaderCommit
    /\ UNCHANGED <<cur, wpos, Data, Writer, rload, wdirty, rdirty, Lost>>

\* shm_entries_count_cur += -1: the load, ...
ReaderLoad ==
    /\ rpc = "load"
    /\ rload' = cur /\ rdirty' = FALSE
    /\ rpc' = "store"
    /\ UNCHANGED <<Header, Data, Writer, rslot, rnum, ritn, torn, taken, faults,
                   unread, wdirty, Lost>>

\* ... and the store.
ReaderStore ==
    /\ rpc = "store"
    /\ cur' = (rload - 1) % CountMod
    /\ lostInc' = (lostInc \/ rdirty)
    /\ rload' = 0 /\ rdirty' = FALSE /\ wdirty' = (wpc = "store")
    /\ rpc' = "idle"
    /\ UNCHANGED <<wpos, rpos, Data, Writer, rslot, rnum, ritn, torn, taken, faults, unread,
                   lostDec, stale>>

\* The reader dies and starts again.
ReaderCrash ==
    /\ rpc # "idle" /\ faults < MaxFault /\ faults' = faults + 1
    /\ rpc' = "idle" /\ rload' = 0
    /\ rslot' = 0 /\ rnum' = 0 /\ ritn' = 0 /\ torn' = FALSE /\ taken' = <<>>
    /\ lostDec' = (lostDec \/ rpc # "read")
    /\ rdirty' = FALSE
    /\ UNCHANGED <<Header, Data, Writer, unread, wdirty, lostInc, stale>>

\* What the writer goes on with once a put or a flush needs an entry.
WriterWork == WriterLoad \/ WriterStore \/ WriterGet \/ WriterFull
WriterStep == PutNeedsEntry \/ Put \/ WriterWork
ReaderStep == Prepare \/ NextRecord \/ BadRecord \/ EntryRead \/ ReaderLoad \/ ReaderStore

Next == WriterStep \/ Flush \/ Restart \/ ReaderStep \/ ReaderClose \/ ReaderCrash

\* A put or flush that was begun goes on and the reader polls.  Nothing says that there
\* is another record to put, or another flush.
Fairness == WF_vars(WriterWork) /\ WF_vars(ReaderStep)

Spec == Init /\ [][Next]_vars
FairSpec == Spec /\ Fairness

(***************************************************************************)
(* Properties.                                                             *)
(***************************************************************************)
\* Type invariant.
TypeOK ==
    /\ cur \in 0 .. CountMod - 1 /\ wload \in 0 .. CountMod - 1 /\ rload \in 0 .. CountMod - 1
    /\ wpos \in Slots /\ rpos \in Slots /\ wslot \in Slots /\ rslot \in Slots
    /\ number \in [Slots -> {NoMagic} \cup 0 .. PerEntry]
    /\ body \in [Slots -> [1 .. PerEntry -> 0 .. MaxRec]]
    /\ wpc \in {"idle", "load", "store", "get"} /\ rpc \in {"idle", "read", "load", "store"}
    /\ has_header \in BOOLEAN /\ flushing \in BOOLEAN /\ torn \in BOOLEAN
    /\ wnum \in 0 .. PerEntry /\ next \in 1 .. MaxRec + 1
    /\ rnum \in 0 .. PerEntry /\ ritn \in 0 .. PerEntry
    /\ faults \in 0 .. MaxFault /\ unread \subseteq Slots
    /\ {wdirty, rdirty, lostInc, lostDec, stale} \subseteq BOOLEAN

ok == ~lostInc /\ ~lostDec /\ ~stale

\* ch_shm_full and ch_shm_empty compare with `==': the count must not leap over the
\* limit or below zero.  It does neither, not even where a change of it was lost,
\* unless the writer started again while the reader was between get and commit.
CountInRange == ~stale => cur \in 0 .. Count

(***************************************************************************)
(* The promise of RecordQueue, kept while no change of the count was lost  *)
(* and the writer did not start again under the reader.                    *)
(***************************************************************************)
SlotRecords(s) == SubSeq(body[s], 1, number[s])

\* The records of the first k entries from the read position on, the one at hand
\* without those already got.
Waiting[k \in 0 .. Count] ==
    IF k = 0 THEN <<>>
    ELSE LET s == (rpos + k - 1) % Count IN
         Waiting[k - 1] \o (IF k = 1 /\ rpc = "read"
                            THEN SubSeq(body[s], ritn + 1, number[s]) ELSE SlotRecords(s))

Filling == IF has_header /\ wpc = "idle" THEN SubSeq(body[wslot], 1, wnum) ELSE <<>>

pending == IF ok THEN Waiting[Cardinality(unread)] \o Filling ELSE <<>>
got == IF ok THEN taken ELSE <<>>
opened == ok /\ rpc = "read"
toRead == IF opened THEN rnum - ritn ELSE 0

Abstract == INSTANCE RecordQueue
    WITH put <- next - 1, q <- pending, reading <- opened, left <- toRead, taken <- got

\* The queue implements RecordQueue: the reader gets the records in order, a group is
\* over when all of it was got, and no record is lost or got twice but by one of the
\* counted faults: a close or death of the reader, a restart of the writer.
QueueSpec == Abstract!Spec

InRing(r) == LET w == Waiting[Cardinality(unread)] IN \E i \in DOMAIN w : w[i] = r

\* A record in an entry that was committed is got by the reader, whether or not another
\* record is ever put, unless a fault comes between or the queue breaks.  Of a record in
\* the entry that the writer still fills nothing is said: see Flush.
Delivered ==
    \A r \in 1 .. MaxRec, n \in 0 .. MaxFault :
        (ok /\ faults = n /\ InRing(r))
            ~> ((\E i \in DOMAIN taken : taken[i] = r) \/ ~ok \/ faults # n)
=============================================================================
