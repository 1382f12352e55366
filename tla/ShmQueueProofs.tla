---------------------------- MODULE ShmQueueProofs ----------------------------
(***************************************************************************)
(* Proofs about ShmQueue, for every size of the ring and of an entry.      *)
(*                                                                         *)
(* That the count stays in range is not inductive: what keeps it there is  *)
(* what each process knows while it holds an entry.  The writer holds one  *)
(* only while the count is below the limit, the reader only while it is    *)
(* above zero, and the other process moves the count in the harmless       *)
(* direction.  The same is then true of the value either has loaded, also  *)
(* when it is out of date by the time it is stored.                        *)
(*                                                                         *)
(* That the queue implements RecordQueue needs more: while no change of    *)
(* the count is lost, the entries that wait are those between the two      *)
(* positions, and the count tells how many they are (Exact).  The records  *)
(* that wait are joined from these entries; each step changes the first or *)
(* the last of them.                                                       *)
(***************************************************************************)
EXTENDS ShmQueue, TLAPS, FiniteSetTheorems, SequenceTheorems, WellFoundedInduction

WriterKnows == /\ has_header => cur < Count
               /\ wpc = "load" => has_header
               /\ wpc = "store" => has_header /\ wload < Count

ReaderKnows == /\ rpc \in {"read", "load"} => cur >= 1
               /\ rpc = "store" => rload >= 1 /\ rload <= Count

CountInv == ~stale => cur <= Count /\ WriterKnows /\ ReaderKnows

\* A put that waits for an entry has a record to write.
PutHasRecord == wpc # "idle" /\ ~flushing => next <= MaxRec

IInv == TypeOK /\ PutHasRecord /\ CountInv

-----------------------------------------------------------------------------
\* The remainder is what % returns on the values the header holds.
LEMMA ModRange == ASSUME NEW a \in Int, NEW m \in Nat \ {0} PROVE a % m \in 0 .. m - 1
  OBVIOUS

LEMMA ModSmall == ASSUME NEW m \in Nat \ {0}, NEW a \in 0 .. m - 1 PROVE a % m = a
  OBVIOUS

LEMMA ModOnce == ASSUME NEW m \in Nat \ {0}, NEW a \in m .. m + m - 1 PROVE a % m = a - m
  OBVIOUS

\* A position moved on by ch_shm_entry_pos_update is a position of the ring.
LEMMA AdvanceSlot == ASSUME NEW pos \in Slots PROVE Advance(pos) \in Slots
  <1>1. pos + 1 \in Int /\ Count \in Nat \ {0}  BY ShmAssumption DEF Slots
  <1> QED  BY <1>1, ModRange DEF Advance, Slots

\* The stores of the two processes leave the count in its type ...
LEMMA StoreTyped ==
    ASSUME NEW a \in 0 .. CountMod - 1
    PROVE (a + 1) % CountMod \in 0 .. CountMod - 1 /\ (a - 1) % CountMod \in 0 .. CountMod - 1
  <1>1. a + 1 \in Int /\ a - 1 \in Int /\ CountMod \in Nat \ {0}  BY ShmAssumption
  <1> QED  BY <1>1, ModRange

\* ... and do not wrap where the loaded value is what they know it to be.
LEMMA StoreExact ==
    /\ \A a \in Nat : a < Count => (a + 1) % CountMod = a + 1
    /\ \A a \in Nat : 1 <= a /\ a <= Count => (a - 1) % CountMod = a - 1
  <1>0. CountMod \in Nat \ {0} /\ CountMod > Count + 1 /\ Count \in Nat  BY ShmAssumption
  <1>1. ASSUME NEW a \in Nat, a < Count PROVE (a + 1) % CountMod = a + 1
    <2>1. a + 1 \in 0 .. CountMod - 1  BY <1>0, <1>1
    <2> QED  BY <1>0, <2>1, ModSmall
  <1>2. ASSUME NEW a \in Nat, 1 <= a, a <= Count PROVE (a - 1) % CountMod = a - 1
    <2>1. a - 1 \in 0 .. CountMod - 1  BY <1>0, <1>2
    <2> QED  BY <1>0, <2>1, ModSmall
  <1> QED  BY <1>1, <1>2

-----------------------------------------------------------------------------
LEMMA InitIInv == Init => IInv
  <1> SUFFICES ASSUME Init PROVE IInv  OBVIOUS
  <1>1. TypeOK  BY ShmAssumption, SMTT(60) DEF Init, TypeOK, Slots, NoMagic, NoRec
  <1>2. PutHasRecord /\ CountInv
    BY ShmAssumption DEF Init, PutHasRecord, CountInv, WriterKnows, ReaderKnows
  <1> QED  BY <1>1, <1>2 DEF IInv

\* A record goes into the entry at hand.
LEMMA WriteRecordTyped ==
    ASSUME TypeOK, NEW s \in Slots, NEW n \in 0 .. PerEntry - 1, next <= MaxRec, WriteRecord(s, n)
    PROVE /\ body' \in [Slots -> [1 .. PerEntry -> 0 .. MaxRec]]
          /\ wnum' \in 0 .. PerEntry /\ next' \in 1 .. MaxRec + 1
  <1>1. n + 1 \in 1 .. PerEntry  BY ShmAssumption
  <1>2. next \in 0 .. MaxRec /\ next + 1 \in 1 .. MaxRec + 1  BY ShmAssumption DEF TypeOK
  <1>3. [body[s] EXCEPT ![n + 1] = next] \in [1 .. PerEntry -> 0 .. MaxRec]
    BY <1>1, <1>2 DEF TypeOK
  <1>4. body' \in [Slots -> [1 .. PerEntry -> 0 .. MaxRec]]
    BY <1>3 DEF TypeOK, WriteRecord
  <1>5. wnum' \in 0 .. PerEntry  BY <1>1, ShmAssumption DEF WriteRecord
  <1>6. next' \in 1 .. MaxRec + 1  BY <1>2 DEF WriteRecord
  <1> QED  BY <1>4, <1>5, <1>6

-----------------------------------------------------------------------------
(* The steps of the writer. *)

LEMMA PutStep == ASSUME IInv, Put PROVE IInv'
  <1>1. wslot \in Slots /\ wnum \in 0 .. PerEntry - 1 /\ next <= MaxRec
    BY ShmAssumption DEF IInv, TypeOK, Put
  <1>2. TypeOK'  BY <1>1, WriteRecordTyped DEF IInv, TypeOK, Put, Header, Reader, Lost
  <1>3. PutHasRecord'  BY DEF IInv, Put, PutHasRecord
  <1>4. CountInv'
    BY DEF IInv, Put, CountInv, WriterKnows, ReaderKnows, Header, Reader, Lost
  <1> QED  BY <1>2, <1>3, <1>4 DEF IInv

LEMMA CommitTyped ==
    ASSUME TypeOK, HeaderCommit
    PROVE /\ number' \in [Slots -> {NoMagic} \cup 0 .. PerEntry]
          /\ wpos' \in Slots /\ unread' \subseteq Slots
  <1>1. wpos' \in Slots  BY AdvanceSlot DEF TypeOK, HeaderCommit
  <1> QED  BY <1>1 DEF TypeOK, HeaderCommit

LEMMA PutNeedsEntryStep == ASSUME IInv, PutNeedsEntry PROVE IInv'
  <1>1. TypeOK'
    <2>1. number' \in [Slots -> {NoMagic} \cup 0 .. PerEntry] /\ wpos' \in Slots
            /\ unread' \subseteq Slots /\ wpc' \in {"load", "get"}
      <3>1. CASE HeaderCommit  BY <3>1, CommitTyped DEF IInv, HeaderCommit
      <3>2. CASE wpc' = "get" /\ UNCHANGED <<number, wpos, unread>>
        BY <3>2 DEF IInv, TypeOK
      <3> QED  BY <3>1, <3>2 DEF PutNeedsEntry
    <2> QED  BY <2>1 DEF IInv, TypeOK, PutNeedsEntry, Reader, Lost
  <1>2. PutHasRecord'  BY DEF PutNeedsEntry, PutHasRecord
  <1>3. CountInv'
    BY DEF IInv, PutNeedsEntry, HeaderCommit, CountInv, WriterKnows, ReaderKnows, Reader, Lost
  <1> QED  BY <1>1, <1>2, <1>3 DEF IInv

LEMMA FlushStep == ASSUME IInv, Flush PROVE IInv'
  <1>1. TypeOK'
    <2>1. number' \in [Slots -> {NoMagic} \cup 0 .. PerEntry] /\ wpos' \in Slots
            /\ unread' \subseteq Slots /\ wpc' = "load"
      BY CommitTyped DEF IInv, Flush, HeaderCommit
    <2> QED  BY <2>1 DEF IInv, TypeOK, Flush, Reader, Lost
  <1>2. PutHasRecord'  BY DEF Flush, PutHasRecord
  <1>3. CountInv'
    BY DEF IInv, Flush, HeaderCommit, CountInv, WriterKnows, ReaderKnows, Reader, Lost
  <1> QED  BY <1>1, <1>2, <1>3 DEF IInv

LEMMA WriterLoadStep == ASSUME IInv, WriterLoad PROVE IInv'
  <1>1. TypeOK'  BY DEF IInv, TypeOK, WriterLoad, Header, Data, Reader, Lost
  <1>2. PutHasRecord'  BY DEF IInv, WriterLoad, PutHasRecord
  <1>3. CountInv'
    BY DEF IInv, WriterLoad, CountInv, WriterKnows, ReaderKnows, Header, Reader, Lost
  <1> QED  BY <1>1, <1>2, <1>3 DEF IInv

LEMMA WriterStoreStep == ASSUME IInv, WriterStore PROVE IInv'
  <1>1. TypeOK'
    <2>1. cur' \in 0 .. CountMod - 1  BY StoreTyped DEF IInv, TypeOK, WriterStore
    <2>2. 0 \in Slots /\ 0 \in 0 .. CountMod - 1 /\ 0 \in 0 .. PerEntry
      BY ShmAssumption DEF Slots
    <2> QED  BY <2>1, <2>2 DEF IInv, TypeOK, WriterStore, Data, Reader
  <1>2. PutHasRecord'  BY DEF IInv, WriterStore, PutHasRecord
  <1>3. CountInv'
    <2>1. ~stale => cur' = wload + 1 /\ wload \in Nat /\ wload < Count
      BY StoreExact DEF IInv, TypeOK, WriterStore, CountInv, WriterKnows
    <2>2. Count \in Nat  BY ShmAssumption
    <2> QED
      BY <2>1, <2>2 DEF IInv, WriterStore, CountInv, WriterKnows, ReaderKnows, Reader
  <1> QED  BY <1>1, <1>2, <1>3 DEF IInv

LEMMA WriterGetStep == ASSUME IInv, WriterGet PROVE IInv'
  <1>1. TypeOK'
    <2>1. /\ body' \in [Slots -> [1 .. PerEntry -> 0 .. MaxRec]]
          /\ wnum' \in 0 .. PerEntry /\ next' \in 1 .. MaxRec + 1
      <3>1. CASE flushing
        <4>1. wnum' = 0 /\ body' = body /\ next' = next  BY <3>1 DEF WriterGet
        <4> QED  BY <4>1, ShmAssumption DEF IInv, TypeOK
      <3>2. CASE ~flushing
        <4>1. 0 \in 0 .. PerEntry - 1 /\ wpos \in Slots /\ next <= MaxRec
          BY <3>2, ShmAssumption DEF IInv, TypeOK, PutHasRecord, WriterGet
        <4> QED  BY <3>2, <4>1, WriteRecordTyped DEF IInv, WriterGet
      <3> QED  BY <3>1, <3>2
    <2>2. torn' \in BOOLEAN  BY DEF WriterGet
    <2> QED  BY <2>1, <2>2 DEF IInv, TypeOK, WriterGet, Header, Lost
  <1>2. PutHasRecord'  BY DEF WriterGet, PutHasRecord
  <1>3. CountInv'
    <2>1. Count \in Nat /\ cur \in Nat /\ cur # Count
      BY ShmAssumption DEF IInv, TypeOK, WriterGet, Full
    <2> QED
      BY <2>1 DEF IInv, WriterGet, CountInv, WriterKnows, ReaderKnows, Header, Lost
  <1> QED  BY <1>1, <1>2, <1>3 DEF IInv

LEMMA WriterFullStep == ASSUME IInv, WriterFull PROVE IInv'
  <1>1. TypeOK'  BY DEF IInv, TypeOK, WriterFull, Header, Data, Reader, Lost
  <1>2. PutHasRecord'  BY DEF WriterFull, PutHasRecord
  <1>3. CountInv'
    BY DEF IInv, WriterFull, CountInv, WriterKnows, ReaderKnows, Header, Reader, Lost
  <1> QED  BY <1>1, <1>2, <1>3 DEF IInv

LEMMA RestartStep == ASSUME IInv, Restart PROVE IInv'
  <1>1. TypeOK'
    <2>1. 0 \in Slots /\ 0 \in 0 .. CountMod - 1 /\ 0 \in 0 .. PerEntry
      BY ShmAssumption DEF Slots
    <2>2. faults' \in 0 .. MaxFault  BY ShmAssumption DEF IInv, TypeOK, Restart
    <2>3. stale' \in BOOLEAN /\ rdirty' \in BOOLEAN /\ wdirty' \in BOOLEAN
            /\ lostInc' \in BOOLEAN /\ lostDec' \in BOOLEAN
      BY DEF Restart
    <2> QED  BY <2>1, <2>2, <2>3 DEF IInv, TypeOK, Restart, Data
  <1>2. PutHasRecord'  BY DEF Restart, PutHasRecord
  <1>3. CountInv'
    <2>1. stale' = (rpc # "idle") /\ rpc' = rpc /\ cur' = 0 /\ wpc' = "idle" /\ ~has_header'
      BY DEF Restart
    <2>2. CASE rpc # "idle"  BY <2>1, <2>2 DEF CountInv
    <2>3. CASE rpc = "idle"
      BY <2>1, <2>3, ShmAssumption DEF CountInv, WriterKnows, ReaderKnows
    <2> QED  BY <2>2, <2>3
  <1> QED  BY <1>1, <1>2, <1>3 DEF IInv

-----------------------------------------------------------------------------
(* The steps of the reader. *)

LEMMA PrepareStep == ASSUME IInv, Prepare PROVE IInv'
  <1>1. TypeOK'
    <2>1. rnum' \in 0 .. PerEntry /\ ritn' \in 0 .. PerEntry /\ rslot' \in Slots
      BY ShmAssumption DEF IInv, TypeOK, Prepare
    <2>2. torn' \in BOOLEAN  BY DEF Prepare, IInv, TypeOK
    <2> QED  BY <2>1, <2>2 DEF IInv, TypeOK, Prepare, Header, Data, Writer, Lost
  <1>2. PutHasRecord'  BY DEF IInv, Prepare, PutHasRecord, Writer
  <1>3. CountInv'
    <2>1. cur \in Nat /\ cur # 0  BY DEF IInv, TypeOK, Prepare, Empty
    <2> QED
      BY <2>1 DEF IInv, Prepare, CountInv, WriterKnows, ReaderKnows, Header, Writer, Lost
  <1> QED  BY <1>1, <1>2, <1>3 DEF IInv

LEMMA NextRecordStep == ASSUME IInv, NextRecord PROVE IInv'
  <1>1. TypeOK'
    <2>1. ritn' \in 0 .. PerEntry
      <3>1. ritn \in 0 .. PerEntry /\ rnum \in 0 .. PerEntry /\ PerEntry \in Nat
        BY ShmAssumption DEF IInv, TypeOK
      <3>2. ritn < rnum /\ ritn' = ritn + 1  BY DEF NextRecord
      <3> QED  BY <3>1, <3>2
    <2> QED  BY <2>1 DEF IInv, TypeOK, NextRecord, Header, Data, Writer, Lost
  <1>2. PutHasRecord'  BY DEF IInv, NextRecord, PutHasRecord, Writer
  <1>3. CountInv'
    BY DEF IInv, NextRecord, CountInv, WriterKnows, ReaderKnows, Header, Writer, Lost
  <1> QED  BY <1>1, <1>2, <1>3 DEF IInv

LEMMA BadRecordStep == ASSUME IInv, BadRecord PROVE IInv'
  <1>1. TypeOK'
    <2>1. 0 \in Slots /\ 0 \in 0 .. PerEntry  BY ShmAssumption DEF Slots
    <2> QED  BY <2>1 DEF IInv, TypeOK, BadRecord, Header, Data, Writer, Lost
  <1>2. PutHasRecord'  BY DEF IInv, BadRecord, PutHasRecord, Writer
  <1>3. CountInv'
    BY DEF IInv, BadRecord, CountInv, WriterKnows, ReaderKnows, Header, Writer, Lost
  <1> QED  BY <1>1, <1>2, <1>3 DEF IInv

\* The entry is read, or given up by a close: the reader commits it.
LEMMA CommitEntryStep ==
    ASSUME IInv, rpc = "read", ReaderCommit, faults' \in 0 .. MaxFault,
           UNCHANGED <<cur, wpos, Data, Writer, rload, wdirty, rdirty, Lost>>
    PROVE IInv'
  <1>1. TypeOK'
    <2>1. 0 \in Slots /\ 0 \in 0 .. PerEntry  BY ShmAssumption DEF Slots
    <2>2. rpos' \in Slots  BY AdvanceSlot DEF IInv, TypeOK, ReaderCommit
    <2> QED  BY <2>1, <2>2 DEF IInv, TypeOK, ReaderCommit, Data, Writer, Lost
  <1>2. PutHasRecord'  BY DEF IInv, PutHasRecord, Writer
  <1>3. CountInv'
    BY DEF IInv, ReaderCommit, CountInv, WriterKnows, ReaderKnows, Writer, Lost
  <1> QED  BY <1>1, <1>2, <1>3 DEF IInv

LEMMA ReaderLoadStep == ASSUME IInv, ReaderLoad PROVE IInv'
  <1>1. TypeOK'  BY DEF IInv, TypeOK, ReaderLoad, Header, Data, Writer, Lost
  <1>2. PutHasRecord'  BY DEF IInv, ReaderLoad, PutHasRecord, Writer
  <1>3. CountInv'
    BY DEF IInv, ReaderLoad, CountInv, WriterKnows, ReaderKnows, Header, Writer, Lost
  <1> QED  BY <1>1, <1>2, <1>3 DEF IInv

LEMMA ReaderStoreStep == ASSUME IInv, ReaderStore PROVE IInv'
  <1>1. TypeOK'
    <2>1. cur' \in 0 .. CountMod - 1  BY StoreTyped DEF IInv, TypeOK, ReaderStore
    <2>2. 0 \in 0 .. CountMod - 1  BY ShmAssumption
    <2>3. wdirty' \in BOOLEAN /\ rdirty' \in BOOLEAN /\ lostInc' \in BOOLEAN
      BY DEF IInv, TypeOK, ReaderStore
    <2> QED  BY <2>1, <2>2, <2>3 DEF IInv, TypeOK, ReaderStore, Data, Writer
  <1>2. PutHasRecord'  BY DEF IInv, ReaderStore, PutHasRecord, Writer
  <1>3. CountInv'
    <2>1. ~stale => cur' = rload - 1 /\ rload \in Nat /\ 1 <= rload /\ rload <= Count
      BY StoreExact DEF IInv, TypeOK, ReaderStore, CountInv, ReaderKnows
    <2>2. Count \in Nat  BY ShmAssumption
    <2> QED
      BY <2>1, <2>2 DEF IInv, ReaderStore, CountInv, WriterKnows, ReaderKnows, Writer
  <1> QED  BY <1>1, <1>2, <1>3 DEF IInv

LEMMA ReaderCrashStep == ASSUME IInv, ReaderCrash PROVE IInv'
  <1>1. TypeOK'
    <2>1. 0 \in Slots /\ 0 \in 0 .. PerEntry /\ 0 \in 0 .. CountMod - 1
      BY ShmAssumption DEF Slots
    <2>2. faults' \in 0 .. MaxFault  BY ShmAssumption DEF IInv, TypeOK, ReaderCrash
    <2>3. lostDec' \in BOOLEAN  BY DEF IInv, TypeOK, ReaderCrash
    <2> QED  BY <2>1, <2>2, <2>3 DEF IInv, TypeOK, ReaderCrash, Header, Data, Writer
  <1>2. PutHasRecord'  BY DEF IInv, ReaderCrash, PutHasRecord, Writer
  <1>3. CountInv'
    BY DEF IInv, ReaderCrash, CountInv, WriterKnows, ReaderKnows, Header, Writer
  <1> QED  BY <1>1, <1>2, <1>3 DEF IInv

-----------------------------------------------------------------------------
LEMMA NextIInv == IInv /\ [Next]_vars => IInv'
  <1> SUFFICES ASSUME IInv, [Next]_vars PROVE IInv'  OBVIOUS
  <1>1. CASE WriterStep
    BY <1>1, PutStep, PutNeedsEntryStep, WriterLoadStep, WriterStoreStep, WriterGetStep,
       WriterFullStep DEF WriterStep, WriterWork
  <1>2. CASE Flush \/ Restart  BY <1>2, FlushStep, RestartStep
  <1>3. CASE EntryRead
    <2>1. faults' \in 0 .. MaxFault  BY <1>3 DEF IInv, TypeOK, EntryRead
    <2> QED  BY <1>3, <2>1, CommitEntryStep DEF EntryRead
  <1>4. CASE ReaderClose
    <2>1. faults' \in 0 .. MaxFault  BY <1>4, ShmAssumption DEF IInv, TypeOK, ReaderClose
    <2> QED  BY <1>4, <2>1, CommitEntryStep DEF ReaderClose
  <1>5. CASE ReaderStep
    BY <1>3, <1>5, PrepareStep, NextRecordStep, BadRecordStep, ReaderLoadStep, ReaderStoreStep
    DEF ReaderStep
  <1>6. CASE ReaderCrash  BY <1>6, ReaderCrashStep
  <1>7. CASE UNCHANGED vars
    BY <1>7 DEF vars, IInv, TypeOK, PutHasRecord, CountInv, WriterKnows, ReaderKnows,
                Header, Data, Writer, Reader, Lost
  <1> QED  BY <1>1, <1>2, <1>3, <1>4, <1>5, <1>6, <1>7 DEF Next

LEMMA Invariance == Spec => []IInv
  BY InitIInv, NextIInv, PTL DEF Spec

\* The header, the entries and both processes stay well formed, for every size of the
\* ring (ch_shm_interface.c, ch_shm_format.c).
THEOREM QueueTyped == Spec => []TypeOK
  <1>1. IInv => TypeOK  BY DEF IInv
  <1> QED  BY <1>1, Invariance, PTL

\* ch_shm_full and ch_shm_empty may compare with `==': the count of entries never
\* leaves 0 .. shm_entries_count, also when the unprotected `+=' of the two processes
\* lose updates, unless the writer started again under the reader.
THEOREM CountStays == Spec => []CountInRange
  <1>1. IInv => CountInRange
    BY ShmAssumption DEF IInv, TypeOK, CountInv, CountInRange
  <1> QED  BY <1>1, Invariance, PTL

-----------------------------------------------------------------------------
(* Positions of the ring. *)

\* The i-th position after r.
Pos(r, i) == IF r + i < Count THEN r + i ELSE (r + i) - Count

\* The n positions from r on.
Ring(r, n) == {Pos(r, i) : i \in 0 .. n - 1}

LEMMA PosIs ==
    ASSUME NEW r \in Slots, NEW i \in 0 .. Count
    PROVE  (r + i) % Count = Pos(r, i) /\ Pos(r, i) \in Slots
<1>0. Count \in Nat \ {0} /\ r \in Nat /\ i \in Nat /\ r < Count /\ i <= Count
    BY ShmAssumption DEF Slots
<1>1. CASE r + i < Count
    <2>1. r + i \in 0 .. Count - 1  BY <1>0, <1>1
    <2>2. (r + i) % Count = r + i  BY <1>0, <2>1, ModSmall
    <2> QED  BY <1>0, <1>1, <2>1, <2>2 DEF Pos, Slots
<1>2. CASE ~(r + i < Count)
    <2>1. r + i \in Count .. Count + Count - 1  BY <1>0, <1>2
    <2>2. (r + i) % Count = (r + i) - Count  
        <3> DEFINE a == r + i
        <3>1. a \in Count .. Count + Count - 1  BY <2>1
        <3> HIDE DEF a
        <3>2. a % Count = a - Count  BY <1>0, <3>1, ModOnce
        <3> QED  BY <3>2 DEF a
    <2> QED  BY <1>0, <1>2, <2>1, <2>2 DEF Pos, Slots
<1> QED  BY <1>1, <1>2

LEMMA PosDistinct ==
    ASSUME NEW r \in Slots, NEW i \in 0 .. Count - 1, NEW j \in 0 .. Count - 1, Pos(r, i) = Pos(r, j)
    PROVE  i = j
  BY ShmAssumption DEF Pos, Slots

LEMMA AdvancePos ==
    ASSUME NEW r \in Slots
    PROVE  /\ Advance(r) = Pos(r, 1) /\ Pos(r, 0) = r
           /\ \A i \in 0 .. Count - 1 : Advance(Pos(r, i)) = Pos(r, i + 1)
           /\ \A i \in 0 .. Count - 1 : Pos(Advance(r), i) = Pos(r, i + 1)
<1>0. Count \in Nat \ {0} /\ r \in Nat /\ r < Count  BY ShmAssumption DEF Slots
<1>1. Advance(r) = Pos(r, 1) /\ Pos(r, 0) = r
    <2>1. 1 \in 0 .. Count  BY <1>0
    <2> QED  BY <1>0, <2>1, PosIs DEF Advance, Pos
<1>2. ASSUME NEW i \in 0 .. Count - 1 PROVE Advance(Pos(r, i)) = Pos(r, i + 1)
    <2>1. i \in 0 .. Count /\ 1 \in 0 .. Count  BY <1>0
    <2>2. Pos(r, i) \in Slots  BY <2>1, PosIs
    <2>3. Advance(Pos(r, i)) = Pos(Pos(r, i), 1)  BY <2>1, <2>2, PosIs DEF Advance
    <2> QED  BY <1>0, <2>3 DEF Pos
<1>3. ASSUME NEW i \in 0 .. Count - 1 PROVE Pos(Advance(r), i) = Pos(r, i + 1)
    BY <1>0, <1>1 DEF Pos
<1> QED  BY <1>1, <1>2, <1>3

LEMMA RingEdges ==
    ASSUME NEW r \in Slots, NEW n \in 0 .. Count
    PROVE  /\ Ring(r, n) \subseteq Slots
           /\ n < Count => Pos(r, n) \notin Ring(r, n) /\ Ring(r, n) \cup {Pos(r, n)} = Ring(r, n + 1)
           /\ n > 0 => r \in Ring(r, n) /\ Ring(r, n) \ {r} = Ring(Advance(r), n - 1)
<1>0. Count \in Nat \ {0} /\ n \in Nat  BY ShmAssumption
<1>1. Ring(r, n) \subseteq Slots
    <2>1. \A i \in 0 .. n - 1 : i \in 0 .. Count  BY <1>0
    <2> QED  BY <2>1, PosIs DEF Ring
<1>2. ASSUME n < Count PROVE Pos(r, n) \notin Ring(r, n) /\ Ring(r, n) \cup {Pos(r, n)} = Ring(r, n + 1)
    <2>1. \A i \in 0 .. n - 1 : i \in 0 .. Count - 1 /\ n \in 0 .. Count - 1 /\ i # n  BY <1>0, <1>2
    <2>2. Pos(r, n) \notin Ring(r, n)  BY <2>1, PosDistinct DEF Ring
    <2>3. 0 .. n + 1 - 1 = (0 .. n - 1) \cup {n}  BY <1>0
    <2> QED  BY <2>2, <2>3 DEF Ring
<1>3. ASSUME n > 0 PROVE r \in Ring(r, n) /\ Ring(r, n) \ {r} = Ring(Advance(r), n - 1)
    <2>1. r = Pos(r, 0)  BY AdvancePos
    <2>2. 0 \in 0 .. n - 1 /\ 0 \in 0 .. Count - 1  BY <1>0, <1>3
    <2>3. r \in Ring(r, n)  BY <2>1, <2>2 DEF Ring
    <2>4. ASSUME NEW s \in Ring(r, n), s # r PROVE s \in Ring(Advance(r), n - 1)
        <3>1. PICK i \in 0 .. n - 1 : s = Pos(r, i)  BY DEF Ring
        <3>2. i # 0  BY <2>1, <2>4, <3>1
        <3>3. i - 1 \in 0 .. n - 1 - 1 /\ i - 1 \in 0 .. Count - 1 /\ i - 1 + 1 = i  BY <1>0, <3>2
        <3>4. Pos(Advance(r), i - 1) = s  BY <3>1, <3>3, AdvancePos
        <3> QED  BY <3>3, <3>4 DEF Ring
    <2>5. ASSUME NEW s \in Ring(Advance(r), n - 1) PROVE s \in Ring(r, n) /\ s # r
        <3>1. PICK i \in 0 .. n - 1 - 1 : s = Pos(Advance(r), i)  BY DEF Ring
        <3>2. i \in 0 .. Count - 1 /\ i + 1 \in 0 .. n - 1 /\ i + 1 \in 0 .. Count - 1 /\ i + 1 # 0
            BY <1>0
        <3>3. s = Pos(r, i + 1)  BY <3>1, <3>2, AdvancePos
        <3> QED  BY <2>1, <2>2, <3>2, <3>3, PosDistinct DEF Ring
    <2> QED  BY <2>3, <2>4, <2>5
<1> QED  BY <1>1, <1>2, <1>3

LEMMA SlotsFinite == ASSUME NEW S \in SUBSET Slots PROVE IsFiniteSet(S)
<1>1. IsFiniteSet(Slots)
    <2>1. 0 \in Int /\ Count - 1 \in Int  BY ShmAssumption
    <2> QED  BY <2>1, FS_Interval DEF Slots
<1> QED  BY <1>1, FS_Subset

\* An entry more and an entry less.
LEMMA CountSlots ==
    ASSUME NEW S \in SUBSET Slots, NEW s \in Slots
    PROVE  /\ Cardinality(S) \in Nat /\ (S = {} => Cardinality(S) = 0)
           /\ s \notin S => Cardinality(S \cup {s}) = Cardinality(S) + 1
           /\ s \in S => Cardinality(S \ {s}) = Cardinality(S) - 1
<1>1. IsFiniteSet(S)  BY SlotsFinite
<1>2. Cardinality(S) \in Nat  BY <1>1, FS_CardinalityType
<1>3. S = {} => Cardinality(S) = 0  BY FS_EmptySet
<1>4. s \notin S => Cardinality(S \cup {s}) = Cardinality(S) + 1  BY <1>1, FS_AddElement
<1>5. s \in S => Cardinality(S \ {s}) = Cardinality(S) - 1  BY <1>1, FS_RemoveElement
<1> QED  BY <1>2, <1>3, <1>4, <1>5

-----------------------------------------------------------------------------
(***************************************************************************)
(* What is exact while the queue is ok.                                    *)
(***************************************************************************)
Waits == Cardinality(unread)

\* The entry is in the ring, but the count does not say so yet ...
Committing == wpc \in {"load", "store"}
\* ... or still says so.
Consuming == rpc \in {"load", "store"}

\* Entries that wait lie between the positions of reader and writer.
RingShape ==
    /\ Waits \in 0 .. Count /\ unread = Ring(rpos, Waits) /\ wpos = Pos(rpos, Waits)
    /\ \A s \in unread : number[s] # NoMagic

CountExact ==
    /\ ~Committing /\ ~Consuming => cur = Waits
    /\ Committing /\ ~Consuming => cur = Waits - 1
    /\ ~Committing /\ Consuming => cur = Waits + 1
    /\ Committing /\ Consuming => cur = Waits
    /\ wpc = "store" /\ ~wdirty => wload = cur
    /\ rpc = "store" => cur >= 1
    /\ rpc = "store" /\ ~rdirty => rload = cur

WriterAt ==
    /\ has_header /\ wpc = "idle" => wslot = wpos
    /\ Committing => Waits >= 1 /\ wslot = Pos(rpos, Waits - 1)
    /\ wpc = "get" => ~has_header

ReaderAt ==
    /\ rpc = "read" => /\ rslot = rpos /\ rnum = number[rpos] /\ ~torn /\ ritn <= rnum
                       /\ taken = SubSeq(body[rpos], 1, ritn)
    /\ rpc # "read" => taken = <<>>

Exact == RingShape /\ CountExact /\ WriterAt /\ ReaderAt

\* The reader's entry is not the one the writer fills.
LEMMA Disjoint ==
    ASSUME IInv, ok, Exact
    PROVE  /\ wpc \in {"idle", "get"} /\ (has_header \/ ~Full) => Waits < Count /\ wpos \notin unread
           /\ rpc = "read" => Waits >= 1 /\ rpos \in unread
           /\ rpc = "idle" /\ ~Empty => Waits >= 1 /\ rpos \in unread
           /\ rpc = "idle" /\ ~Empty /\ has_header => wslot # rpos
           /\ unread \in SUBSET Slots /\ Waits \in Nat
<1>0. /\ Count \in Nat \ {0} /\ rpos \in Slots /\ cur \in Nat /\ Waits \in 0 .. Count
      /\ wpc \in {"idle", "load", "store", "get"} /\ rpc \in {"idle", "read", "load", "store"}
      /\ unread \in SUBSET Slots /\ Waits \in Nat
    BY ShmAssumption DEF IInv, TypeOK, Exact, RingShape
<1>1. /\ cur <= Count /\ (has_header => cur < Count)
      /\ rpc \in {"read", "load"} => cur >= 1
      /\ rpc = "store" => cur >= 1
    BY DEF IInv, CountInv, WriterKnows, ReaderKnows, ok, Exact, CountExact
<1>2. /\ ~Committing /\ ~Consuming => cur = Waits
      /\ Committing /\ ~Consuming => cur = Waits - 1
      /\ ~Committing /\ Consuming => cur = Waits + 1
      /\ Committing /\ Consuming => cur = Waits
    BY DEF Exact, CountExact
<1>r. /\ Waits < Count => Pos(rpos, Waits) \notin Ring(rpos, Waits)
      /\ Waits > 0 => rpos \in Ring(rpos, Waits)
    BY <1>0, RingEdges
<1>u. unread = Ring(rpos, Waits) /\ wpos = Pos(rpos, Waits)  BY DEF Exact, RingShape
<1>3. ASSUME wpc \in {"idle", "get"}, has_header \/ ~Full PROVE Waits < Count /\ wpos \notin unread
    <2>1. ~Committing /\ cur < Count  BY <1>0, <1>1, <1>3 DEF Committing, Full
    <2>2. Waits < Count  BY <1>0, <1>2, <2>1
    <2> QED  BY <2>2, <1>r, <1>u
<1>4. ASSUME rpc = "read" PROVE Waits >= 1 /\ rpos \in unread
    <2>1. ~Consuming /\ cur >= 1  BY <1>1, <1>4 DEF Consuming
    <2>2. Waits >= 1  BY <1>0, <1>2, <2>1
    <2> QED  BY <1>0, <2>2, <1>r, <1>u
<1>5. ASSUME rpc = "idle", ~Empty
      PROVE  /\ Waits >= 1 /\ rpos \in unread
             /\ has_header => wslot # rpos
    <2>1. ~Consuming /\ cur >= 1  BY <1>0, <1>5 DEF Consuming, Empty
    <2>2. Waits >= 1 /\ (Committing => Waits >= 2)  BY <1>0, <1>2, <2>1
    <2>3. rpos \in unread  BY <1>0, <2>2, <1>r, <1>u
    <2>4. ASSUME has_header PROVE wslot # rpos
        <3>1. CASE wpc = "idle"
            <4>1. wslot = wpos /\ wpos \notin unread  BY <1>3, <2>4, <3>1 DEF Exact, WriterAt
            <4> QED  BY <2>3, <4>1
        <3>2. CASE Committing
            <4>1. wslot = Pos(rpos, Waits - 1) /\ rpos = Pos(rpos, 0)
                BY <1>0, <3>2, AdvancePos DEF Exact, WriterAt
            <4>2. Waits - 1 \in 0 .. Count - 1 /\ 0 \in 0 .. Count - 1 /\ Waits - 1 # 0
                BY <1>0, <2>2, <3>2
            <4> QED  BY <1>0, <4>1, <4>2, PosDistinct
        <3>3. CASE wpc = "get"  BY <2>4, <3>3 DEF Exact, WriterAt
        <3> QED  BY <1>0, <3>1, <3>2, <3>3 DEF Committing
    <2> QED  BY <2>2, <2>3, <2>4
<1> QED  BY <1>0, <1>3, <1>4, <1>5

\* An entry is a sequence of records.
LEMMA BodySeq ==
    ASSUME TypeOK, NEW s \in Slots
    PROVE  body[s] \in Seq(Nat) /\ Len(body[s]) = PerEntry /\ DOMAIN body[s] = 1 .. PerEntry
<1>1. body[s] \in [1 .. PerEntry -> Nat] /\ PerEntry \in Nat
    BY ShmAssumption DEF TypeOK
<1> QED  BY <1>1

LEMMA PutExact == ASSUME IInv, ok, Exact, Put PROVE Exact'
<1>1. UNCHANGED <<cur, wpos, rpos, number, wpc, wload, has_header, wslot, rpc, rload, rslot,
                  rnum, ritn, torn, taken, unread, wdirty, rdirty>>
    BY DEF Put, Header, Reader
<1>2. RingShape' /\ CountExact' /\ WriterAt'
    BY <1>1 DEF Exact, RingShape, CountExact, WriterAt, Waits, Committing, Consuming
<1>3. ASSUME rpc = "read" PROVE body'[rpos] = body[rpos]
    <2>1. wslot = wpos /\ wpos \notin unread /\ rpos \in unread
        BY <1>3, Disjoint DEF Put, Exact, WriterAt
    <2>2. body' = [body EXCEPT ![wslot][wnum + 1] = next]  BY DEF Put, WriteRecord
    <2> QED  BY <2>1, <2>2 DEF IInv, TypeOK
<1>4. ReaderAt'  BY <1>1, <1>3 DEF Exact, ReaderAt
<1> QED  BY <1>2, <1>4 DEF Exact

LEMMA CommitExact ==
    ASSUME IInv, ok, Exact, wpc = "idle", has_header, HeaderCommit,
           UNCHANGED <<cur, rpos, body, wload, has_header, wslot, Reader, wdirty, rdirty>>
    PROVE  Exact'
<1>0. /\ Count \in Nat \ {0} /\ rpos \in Slots /\ Waits \in 0 .. Count /\ wslot \in Slots
      /\ wnum \in 0 .. PerEntry /\ number \in [Slots -> {NoMagic} \cup 0 .. PerEntry]
    BY ShmAssumption DEF IInv, TypeOK, Exact, RingShape
<1>1. UNCHANGED <<cur, rpos, body, wload, has_header, wslot, rpc, rload, rslot, rnum, ritn, torn,
                  taken, wdirty, rdirty>>
    BY DEF Reader
<1>2. /\ number' = [number EXCEPT ![wslot] = wnum] /\ wpos' = Advance(wpos)
      /\ unread' = unread \cup {wslot} /\ wpc' = "load"
    BY DEF HeaderCommit
<1>3. /\ Waits < Count /\ wslot = wpos /\ wslot \notin unread /\ wslot = Pos(rpos, Waits)
      /\ unread = Ring(rpos, Waits) /\ unread \in SUBSET Slots
    BY Disjoint DEF Exact, WriterAt, RingShape
<1>4. Waits' = Waits + 1
    BY <1>0, <1>2, <1>3, CountSlots DEF Waits
<1>5. unread' = Ring(rpos, Waits + 1) /\ wpos' = Pos(rpos, Waits + 1)
    <2>1. Waits \in 0 .. Count - 1  BY <1>0, <1>3
    <2> QED  BY <1>0, <1>2, <1>3, <2>1, RingEdges, AdvancePos
<1>6. wnum # NoMagic  BY <1>0, ShmAssumption DEF NoMagic
<1>7. RingShape'
    <2>1. Waits + 1 \in 0 .. Count  BY <1>0, <1>3
    <2>2. \A s \in unread' : number'[s] # NoMagic
        BY <1>0, <1>2, <1>3, <1>6 DEF Exact, RingShape
    <2> QED  BY <1>1, <1>4, <1>5, <2>1, <2>2 DEF RingShape
<1>8. CountExact'
    BY <1>0, <1>1, <1>2, <1>4 DEF Exact, CountExact, Committing, Consuming
<1>9. WriterAt'
    <2>1. Waits + 1 >= 1 /\ (Waits + 1) - 1 = Waits  BY <1>0
    <2> QED  BY <1>1, <1>2, <1>3, <1>4, <2>1 DEF WriterAt, Committing
<1>10. ReaderAt'
    <2>1. ASSUME rpc = "read" PROVE number'[rpos] = number[rpos]
        <3>1. rpos # wslot  BY <1>3, <2>1, Disjoint
        <3> QED  BY <1>0, <1>2, <3>1
    <2> QED  BY <1>1, <2>1 DEF Exact, ReaderAt
<1> QED  BY <1>7, <1>8, <1>9, <1>10 DEF Exact

LEMMA PutNeedsEntryExact == ASSUME IInv, ok, Exact, PutNeedsEntry PROVE Exact'
<1>1. CASE has_header /\ HeaderCommit
    BY <1>1, CommitExact DEF PutNeedsEntry
<1>2. CASE ~has_header /\ wpc' = "get" /\ UNCHANGED <<number, wpos, unread>>
    <2>1. UNCHANGED <<cur, rpos, body, wload, has_header, wslot, rpc, rload, rslot, rnum, ritn,
                      torn, taken, wdirty, rdirty, number, wpos, unread>> /\ wpc = "idle"
        BY <1>2 DEF PutNeedsEntry, Reader
    <2> QED
        BY <1>2, <2>1 DEF Exact, RingShape, CountExact, WriterAt, ReaderAt, Waits, Committing, Consuming
<1> QED  BY <1>1, <1>2 DEF PutNeedsEntry

LEMMA FlushExact == ASSUME IInv, ok, Exact, Flush PROVE Exact'
  BY CommitExact DEF Flush

LEMMA WriterLoadExact == ASSUME IInv, ok, Exact, WriterLoad PROVE Exact'
<1>1. /\ UNCHANGED <<cur, wpos, rpos, number, body, has_header, wslot, rpc, rload, rslot, rnum,
                     ritn, torn, taken, unread, rdirty>>
      /\ wpc = "load" /\ wpc' = "store" /\ wload' = cur
    BY DEF WriterLoad, Header, Data, Reader
<1> QED
    BY <1>1 DEF Exact, RingShape, CountExact, WriterAt, ReaderAt, Waits, Committing, Consuming

LEMMA WriterStoreExact == ASSUME IInv, ok, Exact, WriterStore, ok' PROVE Exact'
<1>1. /\ UNCHANGED <<wpos, rpos, number, body, rpc, rload, rslot, rnum, ritn, torn, taken, unread>>
      /\ wpc = "store" /\ wpc' = "get" /\ ~wdirty /\ ~has_header' /\ rdirty' = (rpc = "store")
    BY DEF WriterStore, Data, Reader, ok
<1>2. cur' = cur + 1 /\ cur \in Nat /\ Waits \in Nat
    <2>1. wload = cur /\ wload < Count  BY <1>1 DEF Exact, CountExact, IInv, CountInv, WriterKnows, ok
    <2>2. cur \in Nat  BY DEF IInv, TypeOK
    <2> QED  BY <2>1, <2>2, StoreExact, Disjoint DEF WriterStore
<1>3. RingShape' /\ WriterAt' /\ ReaderAt'
    BY <1>1 DEF Exact, RingShape, WriterAt, ReaderAt, Waits, Committing
<1>4. CountExact'
    <2>1. Waits' = Waits  BY <1>1 DEF Waits
    <2>2. rpc = "store" => rdirty'  BY <1>1
    <2>3. rpc' = rpc /\ wpc = "store" /\ wpc' = "get" /\ rload' = rload  BY <1>1
    <2>4. Committing /\ ~Committing' /\ Consuming' = Consuming  BY <2>3 DEF Committing, Consuming
    <2>5. (Consuming => cur = Waits) /\ (~Consuming => cur = Waits - 1)
        BY <2>4 DEF Exact, CountExact
    <2> QED  BY <1>2, <2>1, <2>2, <2>3, <2>4, <2>5 DEF CountExact
<1> QED  BY <1>3, <1>4 DEF Exact

LEMMA WriterGetExact == ASSUME IInv, ok, Exact, WriterGet PROVE Exact'
<1>1. /\ UNCHANGED <<cur, wpos, rpos, number, rpc, rload, rslot, rnum, ritn, taken, unread,
                     wdirty, rdirty>>
      /\ wpc = "get" /\ ~Full /\ wpc' = "idle" /\ wslot' = wpos
    BY DEF WriterGet, Header
<1>2. RingShape' /\ CountExact' /\ WriterAt'
    BY <1>1 DEF Exact, RingShape, CountExact, WriterAt, Waits, Committing, Consuming
<1>3. ASSUME rpc = "read" PROVE body'[rpos] = body[rpos] /\ ~torn'
    <2>1. wpos \notin unread /\ rpos \in unread /\ rslot = rpos /\ ~torn
        BY <1>1, <1>3, Disjoint DEF Exact, ReaderAt
    <2>2. body' = body \/ body' = [body EXCEPT ![wpos][0 + 1] = next]  BY DEF WriterGet, WriteRecord
    <2>3. body'[rpos] = body[rpos]  BY <2>1, <2>2 DEF IInv, TypeOK
    <2>4. ~torn'  BY <2>1 DEF WriterGet
    <2> QED  BY <2>3, <2>4
<1>4. ReaderAt'  BY <1>1, <1>3 DEF Exact, ReaderAt
<1> QED  BY <1>2, <1>4 DEF Exact

LEMMA WriterFullExact == ASSUME IInv, ok, Exact, WriterFull PROVE Exact'
<1>1. /\ UNCHANGED <<cur, wpos, rpos, number, body, has_header, wslot, rpc, rload, rslot, rnum,
                     ritn, torn, taken, unread, wdirty, rdirty>>
      /\ wpc = "get" /\ wpc' = "idle"
    BY DEF WriterFull, Header, Data, Reader
<1> QED
    BY <1>1 DEF Exact, RingShape, CountExact, WriterAt, ReaderAt, Waits, Committing, Consuming

LEMMA RestartExact == ASSUME IInv, Restart, ok' PROVE Exact'
<1>1. /\ cur' = 0 /\ wpos' = 0 /\ rpos' = 0 /\ wpc' = "idle" /\ ~has_header' /\ unread' = {}
      /\ taken' = <<>> /\ rpc' = "idle"
    BY DEF Restart, ok
<1>2. Count \in Nat \ {0} /\ 0 \in Slots  BY ShmAssumption DEF Slots
<1>3. Waits' = 0  BY <1>1, FS_EmptySet DEF Waits
<1>4. Ring(0, 0) = {} /\ Pos(0, 0) = 0  BY <1>2 DEF Ring, Pos
<1>5. RingShape'
    <2>1. 0 \in 0 .. Count  BY <1>2
    <2> QED  BY <1>1, <1>3, <1>4, <2>1 DEF RingShape
<1>6. CountExact' /\ WriterAt' /\ ReaderAt'
    BY <1>1, <1>3 DEF CountExact, WriterAt, ReaderAt, Committing, Consuming
<1> QED  BY <1>5, <1>6 DEF Exact

LEMMA PrepareExact == ASSUME IInv, ok, Exact, Prepare PROVE Exact'
<1>1. /\ UNCHANGED <<cur, wpos, rpos, number, body, wpc, wload, has_header, wslot, rload, taken,
                     unread, wdirty, rdirty>>
      /\ rpc = "idle" /\ ~Empty /\ rpc' = "read" /\ rslot' = rpos /\ rnum' = number[rpos]
      /\ ritn' = 0 /\ number[rpos] # NoMagic /\ torn' = (has_header /\ wslot = rpos)
    BY DEF Prepare, Header, Data, Writer
<1>2. RingShape' /\ CountExact' /\ WriterAt'
    BY <1>1 DEF Exact, RingShape, CountExact, WriterAt, Waits, Committing, Consuming
<1>3. ~torn'
    <2>0. rpc = "idle" /\ ~Empty  BY <1>1
    <2>1. has_header => wslot # rpos  BY <2>0, Disjoint
    <2> QED  BY <1>1, <2>1
<1>4. number[rpos] \in 0 .. PerEntry /\ rpos \in Slots  BY <1>1 DEF IInv, TypeOK
<1>5. SubSeq(body[rpos], 1, 0) = <<>>  BY <1>4, BodySeq DEF IInv
<1>6. taken = <<>>  BY <1>1 DEF Exact, ReaderAt
<1>7. ReaderAt'
    <2>1. 0 <= number[rpos]  BY <1>4
    <2> QED  BY <1>1, <1>3, <1>5, <1>6, <2>1 DEF ReaderAt
<1> QED  BY <1>2, <1>7 DEF Exact

LEMMA NextRecordExact == ASSUME IInv, ok, Exact, NextRecord PROVE Exact'
<1>1. /\ UNCHANGED <<cur, wpos, rpos, number, body, wpc, wload, has_header, wslot, rpc, rload,
                     rslot, rnum, torn, unread, wdirty, rdirty>>
      /\ rpc = "read" /\ ritn < rnum /\ ritn' = ritn + 1
      /\ taken' = Append(taken, body[rslot][ritn + 1])
    BY DEF NextRecord, Header, Data, Writer
<1>2. RingShape' /\ CountExact' /\ WriterAt'
    BY <1>1 DEF Exact, RingShape, CountExact, WriterAt, Waits, Committing, Consuming
<1>3. ritn \in Nat /\ rnum \in 0 .. PerEntry /\ rpos \in Slots /\ PerEntry \in Nat
    BY ShmAssumption DEF IInv, TypeOK
<1>4. rslot = rpos /\ taken = SubSeq(body[rpos], 1, ritn) /\ rnum = number[rpos] /\ ~torn
    BY <1>1 DEF Exact, ReaderAt
<1>5. Append(SubSeq(body[rpos], 1, ritn), body[rpos][ritn + 1]) = SubSeq(body[rpos], 1, ritn + 1)
    <2>1. body[rpos] \in Seq(Nat) /\ Len(body[rpos]) = PerEntry  BY <1>3, BodySeq DEF IInv
    <2>2. ritn + 1 <= PerEntry  BY <1>1, <1>3
    <2> QED  BY <1>3, <2>1, <2>2
<1>6. ReaderAt'  BY <1>1, <1>3, <1>4, <1>5 DEF ReaderAt
<1> QED  BY <1>2, <1>6 DEF Exact

\* While the queue is ok the reader finds every record of an entry.
LEMMA NoBadRecord == ASSUME Exact, BadRecord PROVE FALSE
  BY DEF Exact, ReaderAt, BadRecord

LEMMA CommitEntryExact ==
    ASSUME IInv, ok, Exact, rpc = "read", ReaderCommit,
           UNCHANGED <<cur, wpos, Data, Writer, rload, wdirty, rdirty>>
    PROVE  Exact'
<1>0. Count \in Nat \ {0} /\ rpos \in Slots /\ Waits \in 0 .. Count /\ Waits \in Nat
    BY ShmAssumption DEF IInv, TypeOK, Exact, RingShape
<1>1. UNCHANGED <<cur, wpos, number, body, wpc, wload, has_header, wslot, rload, wdirty, rdirty>>
    BY DEF Data, Writer
<1>2. /\ rpos' = Advance(rpos) /\ unread' = unread \ {rpos} /\ taken' = <<>> /\ rpc' = "load"
    BY DEF ReaderCommit, Exact, ReaderAt
<1>3. /\ Waits >= 1 /\ rpos \in unread /\ unread = Ring(rpos, Waits) /\ unread \in SUBSET Slots
      /\ wpos = Pos(rpos, Waits)
    BY Disjoint DEF Exact, RingShape
<1>4. Waits' = Waits - 1
    BY <1>0, <1>2, <1>3, CountSlots DEF Waits
<1>5. unread' = Ring(rpos', Waits - 1) /\ wpos = Pos(rpos', Waits - 1)
    <2>1. Waits > 0 /\ Waits - 1 \in 0 .. Count - 1 /\ Waits - 1 + 1 = Waits  BY <1>0, <1>3
    <2>2. unread' = Ring(rpos', Waits - 1)  BY <1>0, <1>2, <1>3, <2>1, RingEdges
    <2>3. Pos(rpos', Waits - 1) = Pos(rpos, Waits)  BY <1>0, <1>2, <2>1, AdvancePos
    <2> QED  BY <1>3, <2>2, <2>3
<1>6. RingShape'
    <2>1. Waits - 1 \in 0 .. Count  BY <1>0, <1>3
    <2>2. \A s \in unread' : number'[s] # NoMagic  BY <1>1, <1>2 DEF Exact, RingShape
    <2> QED  BY <1>1, <1>4, <1>5, <2>1, <2>2 DEF RingShape
<1>7. cur >= 1  BY DEF IInv, CountInv, ReaderKnows, ok
<1>8. CountExact'
    <2>1. ~Consuming /\ Consuming' /\ Committing' = Committing  BY <1>1, <1>2 DEF Consuming, Committing
    <2>2. (Committing => cur = Waits - 1) /\ (~Committing => cur = Waits)
        BY <2>1 DEF Exact, CountExact
    <2>3. wpc = "store" /\ ~wdirty => wload = cur  BY DEF Exact, CountExact
    <2> QED  BY <1>0, <1>1, <1>2, <1>4, <2>1, <2>2, <2>3 DEF CountExact
<1>9. WriterAt'
    <2>1. (has_header /\ wpc = "idle" => wslot = wpos) /\ (wpc = "get" => ~has_header)
        BY DEF Exact, WriterAt
    <2>2. ASSUME Committing PROVE Waits - 1 >= 1 /\ wslot = Pos(rpos', Waits - 1 - 1)
        <3>1. cur = Waits - 1  BY <2>2 DEF Exact, CountExact, Consuming
        <3>2. wslot = Pos(rpos, Waits - 1)  BY <2>2 DEF Exact, WriterAt
        <3>3. (Waits - 1) - 1 \in 0 .. Count - 1 /\ ((Waits - 1) - 1) + 1 = Waits - 1 /\ Waits - 1 >= 1
            BY <1>0, <1>3, <1>7, <3>1
        <3>4. Pos(rpos', (Waits - 1) - 1) = Pos(rpos, Waits - 1)  BY <1>0, <1>2, <3>3, AdvancePos
        <3> QED  BY <3>2, <3>3, <3>4
    <2>3. Committing' = Committing  BY <1>1 DEF Committing
    <2> QED  BY <1>1, <1>4, <2>1, <2>2, <2>3 DEF WriterAt
<1>10. ReaderAt'  BY <1>2 DEF ReaderAt
<1> QED  BY <1>6, <1>8, <1>9, <1>10 DEF Exact

LEMMA ReaderLoadExact == ASSUME IInv, ok, Exact, ReaderLoad PROVE Exact'
<1>1. /\ UNCHANGED <<cur, wpos, rpos, number, body, wpc, wload, has_header, wslot, rslot, rnum,
                     ritn, torn, taken, unread, wdirty>>
      /\ rpc = "load" /\ rpc' = "store" /\ rload' = cur
    BY DEF ReaderLoad, Header, Data, Writer
<1>2. cur >= 1  BY <1>1 DEF IInv, CountInv, ReaderKnows, ok
<1> QED
    BY <1>1, <1>2 DEF Exact, RingShape, CountExact, WriterAt, ReaderAt, Waits, Committing, Consuming

LEMMA ReaderStoreExact == ASSUME IInv, ok, Exact, ReaderStore, ok' PROVE Exact'
<1>1. /\ UNCHANGED <<wpos, rpos, number, body, wpc, wload, has_header, wslot, rslot, rnum, ritn,
                     torn, taken, unread>>
      /\ rpc = "store" /\ rpc' = "idle" /\ ~rdirty /\ wdirty' = (wpc = "store")
    BY DEF ReaderStore, Data, Writer, ok
<1>2. cur' = cur - 1 /\ cur \in Nat /\ Waits \in Nat
    <2>1. rload = cur /\ rload >= 1 /\ rload <= Count
        BY <1>1 DEF Exact, CountExact, IInv, CountInv, ReaderKnows, ok
    <2>2. cur \in Nat  BY DEF IInv, TypeOK
    <2> QED  BY <2>1, <2>2, StoreExact, Disjoint DEF ReaderStore
<1>3. RingShape' /\ WriterAt' /\ ReaderAt'
    BY <1>1 DEF Exact, RingShape, WriterAt, ReaderAt, Waits, Committing
<1>4. CountExact'
    <2>1. Waits' = Waits  BY <1>1 DEF Waits
    <2>2. wpc = "store" => wdirty'  BY <1>1
    <2>3. wpc' = wpc /\ rpc = "store" /\ rpc' = "idle"  BY <1>1
    <2>4. Consuming /\ ~Consuming' /\ Committing' = Committing  BY <2>3 DEF Committing, Consuming
    <2>5. (Committing => cur = Waits) /\ (~Committing => cur = Waits + 1)
        BY <2>4 DEF Exact, CountExact
    <2> QED  BY <1>2, <2>1, <2>2, <2>3, <2>4, <2>5 DEF CountExact
<1> QED  BY <1>3, <1>4 DEF Exact

\* A reader that dies while it reads an entry leaves all as it was before.
LEMMA ReaderCrashExact == ASSUME IInv, ok, Exact, ReaderCrash, ok' PROVE Exact'
<1>1. /\ UNCHANGED <<cur, wpos, rpos, number, body, wpc, wload, has_header, wslot, unread, wdirty>>
      /\ rpc = "read" /\ rpc' = "idle" /\ taken' = <<>>
    BY DEF ReaderCrash, Header, Data, Writer, ok
<1> QED
    BY <1>1 DEF Exact, RingShape, CountExact, WriterAt, ReaderAt, Waits, Committing, Consuming

\* While the queue is ok, the count and the positions are exact.
QueueInv == ok => Exact

LEMMA InitExact == Init => QueueInv
<1> SUFFICES ASSUME Init PROVE Exact  BY DEF QueueInv
<1>1. Count \in Nat \ {0} /\ Waits = 0  BY ShmAssumption, FS_EmptySet DEF Init, Waits
<1>2. Ring(0, 0) = {} /\ Pos(0, 0) = 0 /\ 0 \in 0 .. Count  BY <1>1 DEF Ring, Pos
<1> QED
    BY <1>1, <1>2 DEF Init, Exact, RingShape, CountExact, WriterAt, ReaderAt, Committing, Consuming

\* Only a start makes a broken queue ok again.
LEMMA OkBefore == ASSUME IInv, [Next]_vars, ok', ~Restart PROVE ok
<1>1. CASE UNCHANGED <<lostInc, lostDec, stale>>  BY <1>1 DEF ok
<1>2. CASE WriterStore  BY <1>2 DEF WriterStore, ok
<1>3. CASE ReaderStore  BY <1>3 DEF ReaderStore, ok
<1>4. CASE ReaderCrash  BY <1>4 DEF ReaderCrash, ok
<1>5. CASE UNCHANGED vars  BY <1>1, <1>5 DEF vars, Lost
<1>6. CASE \/ PutNeedsEntry \/ Put \/ WriterLoad \/ WriterGet \/ WriterFull \/ Flush
           \/ Prepare \/ NextRecord \/ BadRecord \/ EntryRead \/ ReaderLoad \/ ReaderClose
    BY <1>1, <1>6 DEF PutNeedsEntry, Put, WriterLoad, WriterGet, WriterFull, Flush, Prepare,
       NextRecord, BadRecord, EntryRead, ReaderLoad, ReaderClose, Lost
<1> QED  BY <1>2, <1>3, <1>4, <1>5, <1>6 DEF Next, WriterStep, WriterWork, ReaderStep

LEMMA NextExact == IInv /\ QueueInv /\ [Next]_vars => QueueInv'
<1> SUFFICES ASSUME IInv, QueueInv, [Next]_vars, ok' PROVE Exact'  BY DEF QueueInv
<1>1. CASE Restart  BY <1>1, RestartExact
<1>2. CASE ~Restart
    <2>0. ok /\ Exact  BY <1>2, OkBefore DEF QueueInv
    <2>1. CASE WriterStep
        BY <2>0, <2>1, PutExact, PutNeedsEntryExact, WriterLoadExact, WriterStoreExact,
           WriterGetExact, WriterFullExact DEF WriterStep, WriterWork
    <2>2. CASE Flush  BY <2>0, <2>2, FlushExact
    <2>3. CASE EntryRead  BY <2>0, <2>3, CommitEntryExact DEF EntryRead
    <2>4. CASE ReaderClose  BY <2>0, <2>4, CommitEntryExact DEF ReaderClose
    <2>5. CASE ReaderStep
        BY <2>0, <2>3, <2>5, PrepareExact, NextRecordExact, NoBadRecord, ReaderLoadExact,
           ReaderStoreExact DEF ReaderStep
    <2>6. CASE ReaderCrash  BY <2>0, <2>6, ReaderCrashExact
    <2>7. CASE UNCHANGED vars
        BY <2>0, <2>7 DEF vars, Exact, RingShape, CountExact, WriterAt, ReaderAt, Waits,
           Committing, Consuming, Header, Data, Writer, Reader
    <2> QED  BY <1>2, <2>1, <2>2, <2>3, <2>4, <2>5, <2>6, <2>7 DEF Next
<1> QED  BY <1>1, <1>2

LEMMA Exactness == Spec => [](IInv /\ QueueInv)
  BY InitIInv, NextIInv, InitExact, NextExact, PTL DEF Spec

-----------------------------------------------------------------------------
(* Sequences that are joined one after the other. *)

\* A set of natural numbers has a least element.
LEMMA LeastNat ==
    ASSUME NEW T \in SUBSET Nat, T # {}
    PROVE  \E x \in T : \A y \in T : x <= y
<1>1. PICK x \in T : \A y \in T : ~(<<y, x>> \in OpToRel(<, Nat))
    BY WFMin, NatLessThanWellFounded
<1>2. \A y \in T : y < x => <<y, x>> \in OpToRel(<, Nat)
    BY DEF OpToRel
<1>3. ASSUME NEW y \in T PROVE x <= y
    <2>1. ~(y < x)  BY <1>1, <1>2
    <2> QED  BY <2>1
<1> QED  BY <1>3

\* w[k] is what the first k parts make.
Join(w, x, n) == w[0] = <<>> /\ \A k \in 1 .. n : w[k] = w[k - 1] \o x[k]

\* A set of natural numbers without a least element is empty.
LEMMA NoneLeast ==
    ASSUME NEW n \in Nat, NEW T \in SUBSET (0 .. n), 0 \notin T,
           \A m \in 1 .. n : m \in T => m - 1 \in T
    PROVE  T = {}
<1>1. SUFFICES ASSUME T # {} PROVE FALSE  OBVIOUS
<1>2. T \in SUBSET Nat  OBVIOUS
<1>3. PICK m \in T : \A y \in T : m <= y  BY <1>1, <1>2, LeastNat
<1>4. m \in 1 .. n  BY <1>3
<1>5. m - 1 \in T /\ ~(m <= m - 1)  BY <1>3, <1>4
<1> QED  BY <1>3, <1>5

\* Concatenation is associative.
LEMMA Associative ==
    ASSUME NEW a \in Seq(Nat), NEW b \in Seq(Nat), NEW c \in Seq(Nat)
    PROVE  a \o (b \o c) = (a \o b) \o c
  BY SMTT(60)

LEMMA JoinSeq ==
    ASSUME NEW n \in Nat, NEW w, NEW x, Join(w, x, n), \A k \in 1 .. n : x[k] \in Seq(Nat)
    PROVE  \A k \in 0 .. n : w[k] \in Seq(Nat)
<1>a. w[0] = <<>>  BY DEF Join
<1>b. \A k \in 1 .. n : w[k] = w[k - 1] \o x[k]  BY DEF Join
<1> DEFINE T == {m \in 0 .. n : w[m] \notin Seq(Nat)}
<1>1. T \in SUBSET (0 .. n)  OBVIOUS
<1>2. 0 \notin T
    <2>1. w[0] \in Seq(Nat)  BY <1>a
    <2> QED  BY <2>1
<1>3. ASSUME NEW m \in 1 .. n, m \in T PROVE m - 1 \in T
    <2>0. w[m] \notin Seq(Nat)  BY <1>3
    <2> HIDE DEF T
    <2>1. m - 1 \in 0 .. n  OBVIOUS
    <2>2. w[m] = w[m - 1] \o x[m] /\ x[m] \in Seq(Nat)  BY <1>b
    <2>3. w[m - 1] \in Seq(Nat) => w[m - 1] \o x[m] \in Seq(Nat)  BY <2>2
    <2>4. w[m - 1] \notin Seq(Nat)  BY <2>0, <2>2, <2>3
    <2> QED  BY <2>1, <2>4 DEF T
<1>4. T = {}
    <2> HIDE DEF T
    <2> QED  BY <1>1, <1>2, <1>3, NoneLeast
<1> QED  BY <1>4

\* The same parts make the same whole.
LEMMA JoinSame ==
    ASSUME NEW n \in Nat, NEW w, NEW v, NEW x, NEW y, Join(w, x, n), Join(v, y, n),
           \A k \in 1 .. n : x[k] = y[k]
    PROVE  w[n] = v[n]
<1>a. w[0] = v[0]  BY DEF Join
<1>b. \A k \in 1 .. n : w[k] = w[k - 1] \o x[k]  BY DEF Join
<1>c. \A k \in 1 .. n : v[k] = v[k - 1] \o y[k]  BY DEF Join
<1> DEFINE T == {m \in 0 .. n : w[m] # v[m]}
<1>1. T \in SUBSET (0 .. n)  OBVIOUS
<1>2. 0 \notin T  BY <1>a
<1>3. ASSUME NEW m \in 1 .. n, m \in T PROVE m - 1 \in T
    <2>0. w[m] # v[m]  BY <1>3
    <2> HIDE DEF T
    <2>1. m - 1 \in 0 .. n  OBVIOUS
    <2>2. w[m] = w[m - 1] \o x[m] /\ v[m] = v[m - 1] \o y[m] /\ x[m] = y[m]  BY <1>b, <1>c
    <2>3. w[m - 1] # v[m - 1]  BY <2>0, <2>2, Zenon
    <2> QED  BY <2>1, <2>3 DEF T
<1>4. T = {}
    <2> HIDE DEF T
    <2> QED  BY <1>1, <1>2, <1>3, NoneLeast
<1>5. n \in 0 .. n  OBVIOUS
<1> QED  BY <1>4, <1>5

\* When the first part is longer by p, so is the whole.
FirstLonger(w, v, x, y, p, n) ==
    /\ Join(w, x, n) /\ Join(v, y, n) /\ \A k \in 1 .. n : y[k] \in Seq(Nat)
    /\ p \in Seq(Nat) /\ x[1] = p \o y[1] /\ \A k \in 2 .. n : x[k] = y[k]

LEMMA JoinLonger ==
    ASSUME NEW n \in Nat \ {0}, NEW w, NEW v, NEW x, NEW y, NEW p, FirstLonger(w, v, x, y, p, n)
    PROVE  w[n] = p \o v[n]
<1>h. /\ Join(w, x, n) /\ Join(v, y, n) /\ (\A k \in 1 .. n : y[k] \in Seq(Nat))
      /\ p \in Seq(Nat) /\ x[1] = p \o y[1] /\ (\A k \in 2 .. n : x[k] = y[k])
    BY Zenon DEF FirstLonger
<1>a. w[0] = <<>> /\ v[0] = <<>>  BY <1>h DEF Join
<1>b. \A k \in 1 .. n : w[k] = w[k - 1] \o x[k]  BY <1>h, Zenon DEF Join
<1>c. \A k \in 1 .. n : v[k] = v[k - 1] \o y[k]  BY <1>h, Zenon DEF Join
<1>d. \A k \in 0 .. n : v[k] \in Seq(Nat)  BY <1>h, JoinSeq
<1> DEFINE T == {m \in 0 .. n : m # 0 /\ w[m] # p \o v[m]}
<1>1. T \in SUBSET (0 .. n)  OBVIOUS
<1>2. 0 \notin T  OBVIOUS
<1>3. ASSUME NEW m \in 1 .. n, m \in T PROVE m - 1 \in T
    <2>0. w[m] # p \o v[m]  BY <1>3
    <2> HIDE DEF T
    <2>1. m - 1 \in 0 .. n  OBVIOUS
    <2>2. w[m] = w[m - 1] \o x[m] /\ v[m] = v[m - 1] \o y[m]  BY <1>b, <1>c
    <2>3. CASE m = 1
        <3>1. w[1] = <<>> \o x[1] /\ v[1] = <<>> \o y[1]
            <4>1. m - 1 = 0  BY <2>3
            <4> QED  BY <1>a, <2>2, <2>3, <4>1, Zenon
        <3>2. 1 \in 1 .. n /\ n >= 1  BY <2>3
        <3>3. y[1] \in Seq(Nat) /\ x[1] = p \o y[1] /\ x[1] \in Seq(Nat)  BY <1>h, <3>2
        <3>4. w[1] = x[1] /\ v[1] = y[1]  BY <3>1, <3>3, ConcatEmptySeq
        <3> QED  BY <2>0, <2>3, <3>3, <3>4
    <2>4. CASE m # 1
        <3>1. m \in 2 .. n /\ m - 1 # 0  BY <2>4
        <3>2. x[m] = y[m] /\ y[m] \in Seq(Nat)  BY <1>h, <3>1
        <3>3. v[m - 1] \in Seq(Nat)  BY <1>d, <2>1
        <3>4. p \o (v[m - 1] \o y[m]) = (p \o v[m - 1]) \o y[m]
            BY <1>h, <3>2, <3>3, Associative
        <3>5. w[m - 1] # p \o v[m - 1]  BY <2>0, <2>2, <3>2, <3>4, Zenon
        <3> QED  BY <2>1, <3>1, <3>5 DEF T
    <2> QED  BY <2>3, <2>4
<1>4. T = {}
    <2> HIDE DEF T
    <2> QED  BY <1>1, <1>2, <1>3, NoneLeast
<1>5. n \in 0 .. n /\ n # 0  OBVIOUS
<1> QED  BY <1>4, <1>5

\* Without the first part, the others make the rest.
LEMMA JoinShift ==
    ASSUME NEW n \in Nat \ {0}, NEW w, NEW v, NEW x, NEW y, Join(w, x, n), Join(v, y, n - 1),
           \A k \in 1 .. n : x[k] \in Seq(Nat),
           \A k \in 1 .. n - 1 : y[k] = x[k + 1]
    PROVE  w[n] = x[1] \o v[n - 1]
<1>a. w[0] = <<>> /\ v[0] = <<>>  BY DEF Join
<1>b. \A k \in 1 .. n : w[k] = w[k - 1] \o x[k]  BY DEF Join
<1>c. \A k \in 1 .. n - 1 : v[k] = v[k - 1] \o y[k]  BY DEF Join
<1>d. n - 1 \in Nat /\ 1 \in 1 .. n  OBVIOUS
<1>e. \A k \in 1 .. n - 1 : y[k] \in Seq(Nat)
    <2> SUFFICES ASSUME NEW k \in 1 .. n - 1 PROVE y[k] \in Seq(Nat)  OBVIOUS
    <2>1. k + 1 \in 1 .. n  OBVIOUS
    <2>2. x[k + 1] \in Seq(Nat) /\ y[k] = x[k + 1]  BY <2>1
    <2> QED  BY <2>2
<1>f. \A k \in 0 .. n - 1 : v[k] \in Seq(Nat)  BY <1>d, <1>e, JoinSeq
<1>g. x[1] \in Seq(Nat)  BY <1>d
<1> DEFINE T == {m \in 0 .. n - 1 : w[m + 1] # x[1] \o v[m]}
<1>1. T \in SUBSET (0 .. n - 1)  OBVIOUS
<1>2. 0 \notin T
    <2>1. w[1] = <<>> \o x[1]
        <3>1. w[1] = w[1 - 1] \o x[1]  BY <1>b, <1>d
        <3>2. 1 - 1 = 0  OBVIOUS
        <3> QED  BY <1>a, <3>1, <3>2
    <2>2. w[1] = x[1] /\ x[1] \o v[0] = x[1]  BY <1>a, <1>g, <2>1, ConcatEmptySeq
    <2>3. 0 + 1 = 1  OBVIOUS
    <2> QED  BY <2>2, <2>3
<1>3. ASSUME NEW m \in 1 .. n - 1, m \in T PROVE m - 1 \in T
    <2>0. w[m + 1] # x[1] \o v[m]  BY <1>3
    <2> HIDE DEF T
    <2>1. m - 1 \in 0 .. n - 1 /\ m + 1 \in 1 .. n /\ m + 1 - 1 = m /\ m - 1 + 1 = m  BY <1>d
    <2>2. w[m + 1] = w[m] \o x[m + 1]
        <3> DEFINE k == m + 1
        <3>1. k \in 1 .. n /\ k - 1 = m  BY <2>1
        <3> HIDE DEF k
        <3>2. w[k] = w[k - 1] \o x[k]  BY <1>b, <3>1
        <3>3. w[k] = w[m] \o x[k]  BY <3>1, <3>2, Zenon
        <3> QED  BY <3>3 DEF k
    <2>3. v[m] = v[m - 1] \o y[m] /\ y[m] = x[m + 1]  BY <1>c
    <2>4. v[m - 1] \in Seq(Nat) /\ y[m] \in Seq(Nat)  BY <1>e, <1>f, <2>1
    <2>5. x[1] \o (v[m - 1] \o y[m]) = (x[1] \o v[m - 1]) \o y[m]
        BY <1>g, <2>4, Associative
    <2>6. w[m] # x[1] \o v[m - 1]  BY <2>0, <2>2, <2>3, <2>5, Zenon
    <2> QED  BY <2>1, <2>6 DEF T
<1>4. T = {}
    <2> HIDE DEF T
    <2> QED  BY <1>d, <1>1, <1>2, <1>3, NoneLeast
<1>5. n - 1 \in 0 .. n - 1 /\ n - 1 + 1 = n  OBVIOUS
<1> QED  BY <1>4, <1>5

\* The recursion that joins n parts has a solution.
LEMMA JoinExists ==
    ASSUME NEW N \in Nat, NEW x
    PROVE  \E g : g = [k \in 0 .. N |-> IF k = 0 THEN <<>> ELSE g[k - 1] \o x[k]]
<1> DEFINE P(m, g) == g = [k \in 0 .. m |-> IF k = 0 THEN <<>> ELSE g[k - 1] \o x[k]]
           T == {m \in Nat : ~ \E g : P(m, g)}
<1>1. ASSUME T # {} PROVE FALSE
    <2>1. PICK m \in T : \A y \in T : m <= y
        <3>1. T \in SUBSET Nat  OBVIOUS
        <3> HIDE DEF T
        <3> QED  BY <1>1, <3>1, LeastNat
    <2>2. m \in Nat /\ ~ \E g : P(m, g)  BY <2>1
    <2>3. CASE m = 0
        <3>1. P(0, [k \in 0 .. 0 |-> <<>>])  OBVIOUS
        <3> QED  BY <2>2, <2>3, <3>1
    <2>4. CASE m # 0
        <3>1. m - 1 \in Nat /\ ~(m <= m - 1)  BY <2>2, <2>4
        <3>2. m - 1 \notin T  BY <2>1, <3>1
        <3>3. PICK f : P(m - 1, f)  BY <3>1, <3>2
        <3> DEFINE g == [k \in 0 .. m |-> IF k = m THEN f[m - 1] \o x[m] ELSE f[k]]
        <3>4. \A k \in 0 .. m : g[k] = IF k = 0 THEN <<>> ELSE g[k - 1] \o x[k]
            <4> SUFFICES ASSUME NEW k \in 0 .. m PROVE g[k] = IF k = 0 THEN <<>> ELSE g[k - 1] \o x[k]
                OBVIOUS
            <4>1. CASE k = m
                <5>1. g[k - 1] = f[m - 1] /\ g[k] = f[m - 1] \o x[m]  BY <2>2, <2>4, <4>1
                <5> QED  BY <5>1, <4>1, <2>4
            <4>2. CASE k # m
                <5>1. k \in 0 .. m - 1 /\ g[k] = f[k]  BY <2>2, <4>2
                <5>2. f[k] = IF k = 0 THEN <<>> ELSE f[k - 1] \o x[k]  BY <3>3, <5>1
                <5>3. k # 0 => k - 1 \in 0 .. m /\ k - 1 # m  BY <2>2, <5>1
                <5>4. k # 0 => g[k - 1] = f[k - 1]  BY <5>3
                <5> QED  BY <5>1, <5>2, <5>4
            <4> QED  BY <4>1, <4>2
        <3>5. g = [k \in 0 .. m |-> IF k = 0 THEN <<>> ELSE g[k - 1] \o x[k]]
            <4>1. g = [k \in 0 .. m |-> g[k]]  OBVIOUS
            <4> HIDE DEF g
            <4> QED  BY <3>4, <4>1
        <3> QED  BY <2>2, <3>5
    <2> QED  BY <2>3, <2>4
<1>2. T = {}  BY <1>1
<1>3. N \notin T  BY <1>2
<1> QED  BY <1>3

-----------------------------------------------------------------------------
(* The records that wait. *)

\* The records of the k-th entry from the read position on, as Waiting has them.
Part(k) ==
    LET s == (rpos + k - 1) % Count
    IN  IF k = 1 /\ rpc = "read" THEN SubSeq(body[s], ritn + 1, number[s]) ELSE SlotRecords(s)

\* Waiting is what its definition says.
LEMMA WaitingIs ==
    /\ Waiting[0] = <<>>
    /\ \A k \in 1 .. Count : Waiting[k] = Waiting[k - 1] \o Part(k)
<1> DEFINE x == [k \in 1 .. Count |-> Part(k)]
           Def(g) == g = [k \in 0 .. Count |->
               IF k = 0 THEN <<>>
               ELSE LET s == (rpos + k - 1) % Count IN
                    g[k - 1] \o (IF k = 1 /\ rpc = "read"
                                 THEN SubSeq(body[s], ritn + 1, number[s]) ELSE SlotRecords(s))]
<1>0. Count \in Nat  BY ShmAssumption
<1>1. PICK g : g = [k \in 0 .. Count |-> IF k = 0 THEN <<>> ELSE g[k - 1] \o x[k]]
    <2> HIDE DEF x
    <2> QED  BY <1>0, JoinExists
<1>2. Def(g)
    <2>1. \A k \in 0 .. Count : k # 0 => x[k] = Part(k)  BY <1>0
    <2> HIDE DEF x
    <2>2. g = [k \in 0 .. Count |-> IF k = 0 THEN <<>> ELSE g[k - 1] \o Part(k)]
       BY <1>1, <2>1
    <2> QED BY <2>2 DEF Part
<1>3. Waiting = CHOOSE f : Def(f)  BY DEF Waiting
<1>4. Def(Waiting)
    <2> HIDE DEF Def
    <2> QED  BY <1>2, <1>3
<1> HIDE DEF x
<1>5. Waiting = [k \in 0 .. Count |-> IF k = 0 THEN <<>> ELSE Waiting[k - 1] \o Part(k)]
    BY <1>4 DEF Part
<1> DEFINE W == Waiting
<1>6. W = [k \in 0 .. Count |-> IF k = 0 THEN <<>> ELSE W[k - 1] \o Part(k)]  BY <1>5
<1> HIDE DEF W
<1>7. W[0] = <<>> /\ \A k \in 1 .. Count : W[k] = W[k - 1] \o Part(k)
    <2>1. 0 \in 0 .. Count /\ \A k \in 1 .. Count : k \in 0 .. Count /\ k # 0  BY <1>0
    <2> QED  BY <1>6, <2>1
<1> QED  BY <1>7 DEF W

\* The first record of the entry at the read position that was not got.
First == IF rpc = "read" THEN ritn + 1 ELSE 1

Parts == [k \in 1 .. Count |-> Part(k)]

\* The k-th entry from the read position on, without what was got of the first.
PartsFacts ==
    /\ Join(Waiting, Parts, Count)
    /\ \A k \in 1 .. Count : Parts[k] \in Seq(Nat)
    /\ \A k \in 1 .. Count : LET s == Pos(rpos, k - 1)
                             IN  Parts[k] = SubSeq(body[s], IF k = 1 THEN First ELSE 1, number[s])
    /\ Parts[1] = SubSeq(body[rpos], First, number[rpos])

LEMMA PartsIs == TypeOK => PartsFacts
<1> SUFFICES ASSUME TypeOK PROVE PartsFacts  OBVIOUS
<1>0. Count \in Nat \ {0} /\ rpos \in Slots /\ ritn \in Nat /\ PerEntry \in Nat
    BY ShmAssumption DEF TypeOK
<1>1. Join(Waiting, Parts, Count)
    <2>1. \A k \in 1 .. Count : Parts[k] = Part(k)  BY DEF Parts
    <2> QED  BY <2>1, WaitingIs, Zenon DEF Join
<1>2. ASSUME NEW k \in 1 .. Count
      PROVE  /\ Parts[k] \in Seq(Nat)
             /\ Parts[k] = SubSeq(body[Pos(rpos, k - 1)], IF k = 1 THEN First ELSE 1,
                                  number[Pos(rpos, k - 1)])
    <2> DEFINE s == Pos(rpos, k - 1)
    <2>1. k - 1 \in 0 .. Count  BY <1>0
    <2>2. (rpos + (k - 1)) % Count = s /\ s \in Slots  BY <1>0, <2>1, PosIs
    <2>3. Parts[k] = Part(k)  BY DEF Parts
    <2>4. Part(k) = IF k = 1 /\ rpc = "read" THEN SubSeq(body[s], ritn + 1, number[s])
                    ELSE SubSeq(body[s], 1, number[s])
        BY <2>2, Zenon DEF Part, SlotRecords
    <2> HIDE DEF s
    <2>5. Parts[k] = SubSeq(body[s], IF k = 1 THEN First ELSE 1, number[s])
        BY <2>3, <2>4 DEF First
    <2>6. /\ body[s] \in Seq(Nat) /\ Len(body[s]) = PerEntry
          /\ number[s] \in Int /\ number[s] <= PerEntry
        <3>1. number[s] \in {NoMagic} \cup 0 .. PerEntry  BY <2>2 DEF TypeOK
        <3>2. number[s] \in Int /\ number[s] <= PerEntry  BY <1>0, <3>1 DEF NoMagic
        <3> QED  BY <2>2, <3>2, BodySeq
    <2>7. \A m \in Nat \ {0} : SubSeq(body[s], m, number[s]) \in Seq(Nat)  BY <1>0, <2>6
    <2>8. (IF k = 1 THEN First ELSE 1) \in Nat \ {0}  BY <1>0 DEF First
    <2>9. Parts[k] \in Seq(Nat)  BY <2>5, <2>7, <2>8
    <2> QED  BY <2>5, <2>9 DEF s
<1>3. Parts[1] = SubSeq(body[rpos], First, number[rpos])
    <2>1. 1 \in 1 .. Count /\ 1 - 1 = 0 /\ Pos(rpos, 0) = rpos  BY <1>0, AdvancePos
    <2>2. Parts[1] = SubSeq(body[Pos(rpos, 1 - 1)], First, number[Pos(rpos, 1 - 1)])  BY <1>2, <2>1
    <2> QED  BY <2>1, <2>2
<1> QED  BY <1>1, <1>2, <1>3 DEF PartsFacts

LEMMA PartsNext == TypeOK' => PartsFacts'
  BY PartsIs, PTL

\* Join for fewer parts.
LEMMA JoinFewer ==
    ASSUME NEW w, NEW x, NEW n \in 0 .. Count, Join(w, x, Count)
    PROVE  Join(w, x, n)
<1>1. Count \in Nat  BY ShmAssumption
<1>2. \A k \in 1 .. n : k \in 1 .. Count  BY <1>1
<1> QED  BY <1>2, Zenon DEF Join

\* A step that leaves the entries that wait alone.
LEMMA SameWaiting ==
    ASSUME TypeOK, TypeOK', NEW n \in 0 .. Count, rpos' = rpos, n >= 1 => First' = First,
           \A s \in Ring(rpos, n) : body'[s] = body[s] /\ number'[s] = number[s]
    PROVE  Waiting'[n] = Waiting[n]
<1>0. Count \in Nat /\ n \in Nat  BY ShmAssumption
<1>1. PartsFacts /\ PartsFacts'  BY PartsIs, PartsNext
<1>2. Join(Waiting, Parts, n) /\ Join(Waiting', Parts', n)  BY <1>1, JoinFewer DEF PartsFacts
<1>3. ASSUME NEW k \in 1 .. n PROVE Parts[k] \in Seq(Nat) /\ Parts'[k] = Parts[k]
    <2> DEFINE s == Pos(rpos, k - 1)
    <2>1. k \in 1 .. Count /\ k - 1 \in 0 .. n - 1 /\ n >= 1  BY <1>0
    <2>2. s \in Ring(rpos, n)  BY <2>1 DEF Ring
    <2>3. Parts[k] = SubSeq(body[s], IF k = 1 THEN First ELSE 1, number[s])
        BY <1>1, <2>1 DEF PartsFacts
    <2>4. Parts'[k] = SubSeq(body'[s], IF k = 1 THEN First' ELSE 1, number'[s])
        BY <1>1, <2>1 DEF PartsFacts
    <2>5. Parts[k] \in Seq(Nat)  BY <1>1, <2>1 DEF PartsFacts
    <2> HIDE DEF s
    <2>6. Parts'[k] = Parts[k]  BY <2>1, <2>2, <2>3, <2>4
    <2> QED  BY <2>5, <2>6
<1> DEFINE w == Waiting'  v == Waiting  x == Parts'  y == Parts
<1>4. Join(w, x, n) /\ Join(v, y, n) /\ (\A k \in 1 .. n : x[k] = y[k])
    BY <1>2, <1>3
<1> HIDE DEF w, v, x, y
<1>5. w[n] = v[n]  BY <1>0, <1>4, JoinSame
<1> QED  BY <1>5 DEF w, v

\* Records are got from, or given back to, the entry at the read position.
LEMMA FirstWaiting ==
    ASSUME TypeOK, TypeOK', NEW n \in 1 .. Count, UNCHANGED <<rpos, body, number>>
    PROVE  \A p \in Seq(Nat) :
             LET now == SubSeq(body[rpos], First, number[rpos])
                 then == SubSeq(body[rpos], First', number[rpos])
             IN  /\ now = p \o then => Waiting[n] = p \o Waiting'[n]
                 /\ then = p \o now => Waiting'[n] = p \o Waiting[n]
<1>0. Count \in Nat /\ n \in Nat \ {0} /\ n \in 0 .. Count  BY ShmAssumption
<1>1. PartsFacts /\ PartsFacts'  BY PartsIs, PartsNext
<1>2. Join(Waiting, Parts, n) /\ Join(Waiting', Parts', n)  BY <1>0, <1>1, JoinFewer DEF PartsFacts
<1>3. \A k \in 1 .. n : k \in 1 .. Count  BY <1>0
<1>4. \A k \in 1 .. n : Parts[k] \in Seq(Nat) /\ Parts'[k] \in Seq(Nat)
    BY <1>1, <1>3 DEF PartsFacts
<1>5. ASSUME NEW k \in 2 .. n PROVE Parts[k] = Parts'[k]
    <2>1. k \in 1 .. Count /\ k # 1  BY <1>0
    <2>2. Parts[k] = SubSeq(body[Pos(rpos, k - 1)], 1, number[Pos(rpos, k - 1)])
        BY <1>1, <2>1 DEF PartsFacts
    <2>3. Parts'[k] = SubSeq(body[Pos(rpos, k - 1)], 1, number[Pos(rpos, k - 1)])
        BY <1>1, <2>1 DEF PartsFacts
    <2> QED  BY <2>2, <2>3
<1> DEFINE now == SubSeq(body[rpos], First, number[rpos])
           then == SubSeq(body[rpos], First', number[rpos])
<1>6. Parts[1] = now /\ Parts'[1] = then  BY <1>1 DEF PartsFacts
<1> DEFINE w == Waiting  v == Waiting'  x == Parts  y == Parts'
<1>7. /\ Join(w, x, n) /\ Join(v, y, n) /\ x[1] = now /\ y[1] = then
      /\ (\A k \in 1 .. n : x[k] \in Seq(Nat)) /\ (\A k \in 1 .. n : y[k] \in Seq(Nat))
      /\ (\A k \in 2 .. n : x[k] = y[k]) /\ (\A k \in 2 .. n : y[k] = x[k])
    BY <1>2, <1>4, <1>5, <1>6
<1> HIDE DEF w, v, x, y, now, then
<1>8. ASSUME NEW p \in Seq(Nat), now = p \o then PROVE w[n] = p \o v[n]
    <2>1. FirstLonger(w, v, x, y, p, n)  BY <1>7, <1>8, Zenon DEF FirstLonger
    <2> QED  BY <1>0, <2>1, JoinLonger
<1>9. ASSUME NEW p \in Seq(Nat), then = p \o now PROVE v[n] = p \o w[n]
    <2>1. FirstLonger(v, w, y, x, p, n)  BY <1>7, <1>9, Zenon DEF FirstLonger
    <2> QED  BY <1>0, <2>1, JoinLonger
<1> QED  BY <1>8, <1>9, Zenon DEF w, v, now, then

\* The entry at the read position is given up.
LEMMA ShiftWaiting ==
    ASSUME TypeOK, TypeOK', NEW n \in 1 .. Count, UNCHANGED <<body, number>>,
           rpos' = Advance(rpos), rpc' # "read"
    PROVE  Waiting[n] = SubSeq(body[rpos], First, number[rpos]) \o Waiting'[n - 1]
<1>0. /\ Count \in Nat /\ n \in Nat \ {0} /\ n \in 0 .. Count /\ n - 1 \in 0 .. Count
      /\ rpos \in Slots
    <2>1. rpos \in Slots /\ Count \in Nat  BY ShmAssumption DEF TypeOK
    <2> QED  BY <2>1
<1>1. PartsFacts /\ PartsFacts'  BY PartsIs, PartsNext
<1>2. Join(Waiting, Parts, n) /\ Join(Waiting', Parts', n - 1)
    BY <1>0, <1>1, JoinFewer DEF PartsFacts
<1>3. \A k \in 1 .. n : k \in 1 .. Count  BY <1>0
<1>4. \A k \in 1 .. n : Parts[k] \in Seq(Nat)  BY <1>1, <1>3 DEF PartsFacts
<1>5. Parts[1] = SubSeq(body[rpos], First, number[rpos])  BY <1>1 DEF PartsFacts
<1>6. ASSUME NEW k \in 1 .. n - 1 PROVE Parts'[k] = Parts[k + 1]
    <2>1. /\ k \in 1 .. Count /\ k + 1 \in 1 .. Count /\ k + 1 # 1 /\ (k + 1) - 1 = k
          /\ k - 1 \in 0 .. Count - 1 /\ (k - 1) + 1 = k
        BY <1>0
    <2> DEFINE s == Pos(rpos, k)
    <2>2. Pos(rpos', k - 1) = s  BY <1>0, <2>1, AdvancePos
    <2>3. Parts[k + 1] = SubSeq(body[s], 1, number[s])
        <3> DEFINE j == k + 1
        <3>1. j \in 1 .. Count /\ j # 1 /\ j - 1 = k  BY <2>1
        <3> HIDE DEF j
        <3>2. Parts[j] = SubSeq(body[Pos(rpos, j - 1)], IF j = 1 THEN First ELSE 1,
                                number[Pos(rpos, j - 1)])
            BY <1>1, <3>1 DEF PartsFacts
        <3> QED  BY <3>1, <3>2 DEF j
    <2>4. First' = 1  BY DEF First
    <2>5. Parts'[k] = SubSeq(body[Pos(rpos', k - 1)], IF k = 1 THEN First' ELSE 1,
                             number[Pos(rpos', k - 1)])
        BY <1>1, <2>1 DEF PartsFacts
    <2> QED  BY <2>2, <2>3, <2>4, <2>5
<1> DEFINE w == Waiting  v == Waiting'  x == Parts  y == Parts'
<1>7. /\ Join(w, x, n) /\ Join(v, y, n - 1) /\ (\A k \in 1 .. n : x[k] \in Seq(Nat))
      /\ (\A k \in 1 .. n - 1 : y[k] = x[k + 1])
    BY <1>2, <1>4, <1>6
<1> HIDE DEF w, v, x, y
<1>8. w[n] = x[1] \o v[n - 1]  BY <1>0, <1>7, JoinShift
<1> QED  BY <1>5, <1>8 DEF w, v, x

\* What waits is a sequence of records.
LEMMA WaitingSeq ==
    ASSUME TypeOK, NEW n \in 0 .. Count
    PROVE  Waiting[n] \in Seq(Nat)
<1>0. Count \in Nat /\ n \in Nat /\ n \in 0 .. n  BY ShmAssumption
<1>1. Join(Waiting, Parts, n) /\ \A k \in 1 .. n : Parts[k] \in Seq(Nat)
    <2>1. PartsFacts  BY PartsIs
    <2>2. \A k \in 1 .. n : k \in 1 .. Count  BY <1>0
    <2> QED  BY <2>1, <2>2, JoinFewer DEF PartsFacts
<1> QED  BY <1>0, <1>1, JoinSeq

\* Another entry waits.
LEMMA OneMoreWaiting ==
    ASSUME TypeOK, TypeOK', NEW n \in 0 .. Count - 1, rpos' = rpos, n >= 1 => First' = First,
           n = 0 => First' = 1,
           \A s \in Ring(rpos, n) : body'[s] = body[s] /\ number'[s] = number[s]
    PROVE  LET s == Pos(rpos, n)
           IN  Waiting'[n + 1] = Waiting[n] \o SubSeq(body'[s], 1, number'[s])
<1>0. Count \in Nat /\ n \in 0 .. Count /\ n + 1 \in 1 .. Count /\ (n + 1) - 1 = n
    BY ShmAssumption
<1>1. Waiting'[n] = Waiting[n]  BY <1>0, SameWaiting
<1>2. PartsFacts'  BY PartsNext
<1>3. Waiting'[n + 1] = Waiting'[n] \o Parts'[n + 1]
    <2>1. \A k \in 1 .. Count : Waiting'[k] = Waiting'[k - 1] \o Parts'[k]
        BY <1>2, Zenon DEF PartsFacts, Join
    <2> DEFINE j == n + 1
    <2>2. j \in 1 .. Count /\ j - 1 = n  BY <1>0
    <2> HIDE DEF j
    <2>3. Waiting'[j] = Waiting'[j - 1] \o Parts'[j]  BY <2>1, <2>2, Zenon
    <2>4. Waiting'[j] = Waiting'[n] \o Parts'[j]  BY <2>2, <2>3, Zenon
    <2> QED  BY <2>4, Zenon DEF j
<1>4. Parts'[n + 1] = SubSeq(body'[Pos(rpos, n)], 1, number'[Pos(rpos, n)])
    <2> DEFINE j == n + 1
    <2>1. j \in 1 .. Count /\ j - 1 = n /\ (j = 1 => n = 0)  BY <1>0
    <2> HIDE DEF j
    <2>2. Parts'[j] = SubSeq(body'[Pos(rpos', j - 1)], IF j = 1 THEN First' ELSE 1,
                             number'[Pos(rpos', j - 1)])
        BY <1>2, <2>1 DEF PartsFacts
    <2>3. Parts'[j] = SubSeq(body'[Pos(rpos, n)], 1, number'[Pos(rpos, n)])
        BY <2>1, <2>2
    <2> QED  BY <2>3, Zenon DEF j
<1> QED  BY <1>1, <1>3, <1>4, Zenon

-----------------------------------------------------------------------------
(* Steps of RecordQueue. *)

Mapped == [Abstract!Next]_(Abstract!vars)

LEMMA IsStutter ==
    ASSUME next' = next, ok' = ok, pending' = pending, got' = got, opened' = opened,
           toRead' = toRead, faults' = faults
    PROVE  Mapped
  BY DEF Mapped, Abstract!vars

LEMMA IsPut ==
    ASSUME next \in Nat, next' = next + 1, ok, ok', pending' = Append(pending, next), got' = got,
           opened' = opened, toRead' = toRead, faults' = faults
    PROVE  Mapped
<1>1. (next - 1) + 1 = next /\ next' - 1 = (next - 1) + 1  OBVIOUS
<1>2. ok' = ok  BY DEF ok
<1>3. Abstract!Put  BY <1>1, <1>2 DEF Abstract!Put
<1> QED  BY <1>3 DEF Mapped, Abstract!Next

LEMMA IsOpen ==
    ASSUME next' = next, ok, ok', pending' = pending, got' = got, ~opened, opened',
           toRead' \in 0 .. Len(pending), faults' = faults
    PROVE  Mapped
<1>1. ok' = ok /\ opened' = TRUE  BY DEF ok, opened
<1>2. Abstract!Open  BY <1>1 DEF Abstract!Open
<1> QED  BY <1>2 DEF Mapped, Abstract!Next

LEMMA IsTake ==
    ASSUME next' = next, ok, ok', NEW r, NEW rest \in Seq(Nat), r \in Nat,
           pending = <<r>> \o rest, pending' = rest, got' = Append(got, r),
           opened, opened', toRead > 0, toRead' = toRead - 1, faults' = faults
    PROVE  Mapped
<1>1. pending # <<>> /\ Head(pending) = r /\ Tail(pending) = rest  OBVIOUS
<1>2. ok' = ok /\ opened' = opened  BY DEF ok, opened
<1>3. Abstract!Take  BY <1>1, <1>2 DEF Abstract!Take
<1> QED  BY <1>3 DEF Mapped, Abstract!Next

\* No group is open after the step.
LEMMA NoGroupNext ==
    ASSUME ~opened', got' = <<>>
    PROVE  opened' = FALSE /\ toRead' = 0 /\ Abstract!NoGroup'
<1>1. opened' = FALSE  BY DEF opened
<1>2. toRead' = 0  BY DEF toRead
<1> QED  BY <1>1, <1>2 DEF Abstract!NoGroup

LEMMA IsGroupDone ==
    ASSUME next' = next, ok, ok', pending' = pending, got' = <<>>, opened, toRead = 0, ~opened',
           faults' = faults
    PROVE  Mapped
<1>1. ok' = ok  BY DEF ok
<1>2. Abstract!GroupDone  BY <1>1, NoGroupNext DEF Abstract!GroupDone
<1> QED  BY <1>2 DEF Mapped, Abstract!Next

LEMMA IsClose ==
    ASSUME next' = next, ok, ok', NEW p \in Seq(Nat), NEW rest \in Seq(Nat),
           pending = p \o rest, pending' = rest, got' = <<>>, opened, toRead = Len(p), ~opened',
           faults' = faults + 1
    PROVE  Mapped
<1>1. ok' = ok  BY DEF ok
<1>2. rest = SubSeq(pending, Len(p) + 1, Len(pending))  OBVIOUS
<1>3. Abstract!Close  BY <1>1, <1>2, NoGroupNext DEF Abstract!Close
<1> QED  BY <1>3 DEF Mapped, Abstract!Next

LEMMA IsTakeAgain ==
    ASSUME next' = next, ok, ok', pending' = got \o pending, got' = <<>>, opened, ~opened',
           faults' = faults + 1
    PROVE  Mapped
<1>1. ok' = ok  BY DEF ok
<1>2. Abstract!TakeAgain  BY <1>1, NoGroupNext DEF Abstract!TakeAgain
<1> QED  BY <1>2 DEF Mapped, Abstract!Next

LEMMA IsStart ==
    ASSUME next' = next, ok', pending' = <<>>, got' = <<>>, ~opened', faults' = faults + 1
    PROVE  Mapped
<1>1. ok' = TRUE  BY DEF ok
<1>2. Abstract!Start  BY <1>1, NoGroupNext DEF Abstract!Start
<1> QED  BY <1>2 DEF Mapped, Abstract!Next

LEMMA IsBreak ==
    ASSUME TypeOK', ~ok', faults' \in {faults, faults + 1}
    PROVE  Mapped
<1>1. ok' = FALSE  BY DEF ok
<1>2. next' - 1 \in Nat
    <2>1. ASSUME NEW a \in 1 .. MaxRec + 1 PROVE a - 1 \in Nat  BY ShmAssumption
    <2>2. next' \in 1 .. MaxRec + 1  BY DEF TypeOK
    <2> QED  BY <2>1, <2>2
<1>3. pending' = <<>> /\ got' = <<>> /\ ~opened'  BY DEF pending, got, opened
<1>4. Abstract!Break  BY <1>1, <1>2, <1>3, NoGroupNext DEF Abstract!Break
<1> QED  BY <1>4 DEF Mapped, Abstract!Next

-----------------------------------------------------------------------------
(* The steps of the queue are steps of RecordQueue. *)

Good == IInv /\ Exact /\ ok

GoodView ==
    /\ TypeOK /\ Waits \in 0 .. Count /\ rpos \in Slots /\ unread = Ring(rpos, Waits)
    /\ pending = Waiting[Waits] \o Filling /\ got = taken
    /\ next \in Nat /\ Waiting[Waits] \in Seq(Nat) /\ Filling \in Seq(Nat)

LEMMA GoodIs == Good => GoodView
<1> SUFFICES ASSUME Good PROVE GoodView  OBVIOUS
<1>1. TypeOK /\ Waits \in 0 .. Count /\ rpos \in Slots /\ unread = Ring(rpos, Waits)
    BY DEF Good, IInv, TypeOK, Exact, RingShape
<1>2. pending = Waiting[Waits] \o Filling /\ got = taken  BY DEF Good, pending, got, Waits
<1>3. next \in Nat /\ Waiting[Waits] \in Seq(Nat)
    <2>1. next \in 1 .. MaxRec + 1  BY <1>1 DEF TypeOK
    <2>2. next \in Nat  BY <2>1, ShmAssumption
    <2>3. Waiting[Waits] \in Seq(Nat)  BY <1>1, WaitingSeq
    <2> QED  BY <2>2, <2>3
<1>4. Filling \in Seq(Nat)
    <2>1. wnum \in 0 .. PerEntry /\ wslot \in Slots /\ PerEntry \in Nat  BY <1>1, ShmAssumption DEF TypeOK
    <2>2. body[wslot] \in Seq(Nat) /\ Len(body[wslot]) = PerEntry  BY <1>1, <2>1, BodySeq
    <2>3. SubSeq(body[wslot], 1, wnum) \in Seq(Nat)  BY <2>1, <2>2
    <2> QED  BY <2>3 DEF Filling
<1> QED  BY <1>1, <1>2, <1>3, <1>4 DEF GoodView

LEMMA GoodNext == Good' => GoodView'
  BY GoodIs, PTL

\* What is left of the group that is read.
LEMMA SameGroup ==
    ASSUME ok, ok', UNCHANGED <<rpc, rnum, ritn>>
    PROVE  opened' = opened /\ toRead' = toRead
<1>1. ok' = ok  BY DEF ok
<1>2. opened' = opened  BY <1>1 DEF opened
<1> QED  BY <1>2 DEF toRead

\* A step that leaves what waits, what is being put and what was got alone.
LEMMA QuietStep ==
    ASSUME Good, Good', UNCHANGED <<rpos, unread, taken, next, faults>>, Filling' = Filling,
           First' = First, opened' = opened, toRead' = toRead,
           \A s \in unread : body'[s] = body[s] /\ number'[s] = number[s]
    PROVE  Mapped
<1>1. GoodView /\ GoodView'  BY GoodIs, GoodNext
<1>2. Waits' = Waits  BY DEF Waits
<1>3. Waiting'[Waits] = Waiting[Waits]  BY <1>1, SameWaiting DEF GoodView
<1>4. pending' = pending /\ got' = got
    <2>1. pending' = Waiting'[Waits'] \o Filling' /\ got' = taken'  BY <1>1, Zenon DEF GoodView
    <2>2. pending = Waiting[Waits] \o Filling /\ got = taken  BY <1>1, Zenon DEF GoodView
    <2>3. pending' = pending  BY <1>2, <1>3, <2>1, <2>2, Zenon
    <2> QED  BY <2>1, <2>2, <2>3
<1>5. ok' = ok  BY DEF Good, ok
<1> QED  BY <1>4, <1>5, IsStutter

\* A record after the first m of an entry.
LEMMA RecordAdded ==
    ASSUME NEW N \in Nat, NEW b \in [1 .. N -> Nat], NEW m \in 0 .. N - 1, NEW r \in Nat
    PROVE  SubSeq([b EXCEPT ![m + 1] = r], 1, m + 1) = Append(SubSeq(b, 1, m), r)
<1> DEFINE c == [b EXCEPT ![m + 1] = r]
<1>1. c \in [1 .. N -> Nat] /\ m + 1 \in 1 .. N  OBVIOUS
<1>2. c[m + 1] = r /\ \A i \in 1 .. m : c[i] = b[i]  BY <1>1
<1> HIDE DEF c
<1>3. b \in Seq(Nat) /\ Len(b) = N  OBVIOUS
<1>5. c \in Seq(Nat) /\ Len(c) = N  BY <1>1
<1>4. SubSeq(c, 1, m + 1) = Append(SubSeq(b, 1, m), r)  BY <1>1, <1>2, <1>3, <1>5, SMTT(60)
<1> QED  BY <1>4 DEF c

LEMMA WroteStep ==
    ASSUME Good, Good', NEW s \in Slots, NEW m \in 0 .. PerEntry - 1, s \notin unread,
           WriteRecord(s, m), UNCHANGED <<rpos, unread, number, taken, rpc, ritn, rnum, faults>>,
           Filling = SubSeq(body[s], 1, m), Filling' = SubSeq(body'[s], 1, m + 1)
    PROVE  Mapped
<1>1. GoodView /\ GoodView'  BY GoodIs, GoodNext
<1>2. Waits' = Waits /\ First' = First  BY DEF Waits, First
<1>3. body' = [body EXCEPT ![s][m + 1] = next] /\ next' = next + 1  BY DEF WriteRecord
<1>4. body[s] \in [1 .. PerEntry -> Nat] /\ PerEntry \in Nat /\ next \in Nat
      /\ body \in [Slots -> [1 .. PerEntry -> 0 .. MaxRec]]
    <2>1. body \in [Slots -> [1 .. PerEntry -> 0 .. MaxRec]] /\ next \in Nat
        BY <1>1 DEF GoodView, TypeOK
    <2>2. body[s] \in [1 .. PerEntry -> 0 .. MaxRec]  BY <2>1
    <2>3. body[s] \in [1 .. PerEntry -> Nat]  BY <2>2, ShmAssumption
    <2> QED  BY <2>1, <2>3, ShmAssumption
<1>5. body'[s] = [body[s] EXCEPT ![m + 1] = next] /\ \A t \in unread : body'[t] = body[t]
    <2>1. unread \subseteq Slots  BY <1>1 DEF GoodView, TypeOK
    <2> QED  BY <1>3, <1>4, <2>1
<1>6. Waiting'[Waits] = Waiting[Waits]  BY <1>1, <1>2, <1>5, SameWaiting DEF GoodView
<1>7. Filling' = Append(Filling, next)  BY <1>4, <1>5, RecordAdded
<1>8. pending' = Append(pending, next)
    <2>1. pending' = Waiting[Waits] \o Append(Filling, next)
        BY <1>1, <1>2, <1>6, <1>7, Zenon DEF GoodView
    <2>2. pending = Waiting[Waits] \o Filling  BY <1>1 DEF GoodView
    <2>3. Waiting[Waits] \in Seq(Nat) /\ Filling \in Seq(Nat)  BY <1>1 DEF GoodView
    <2>4. \A a, b \in Seq(Nat), r \in Nat : a \o Append(b, r) = Append(a \o b, r)  OBVIOUS
    <2> QED  BY <1>4, <2>1, <2>2, <2>3, <2>4
<1>9. got' = got  BY <1>1 DEF GoodView
<1>10. opened' = opened /\ toRead' = toRead  BY SameGroup DEF Good
<1> QED  BY <1>3, <1>4, <1>8, <1>9, <1>10, IsPut DEF Good

LEMMA PutMapped == ASSUME Good, Good', Put PROVE Mapped
<1>1. /\ wpc = "idle" /\ wpc' = "idle" /\ has_header /\ has_header' /\ wslot' = wslot
      /\ WriteRecord(wslot, wnum) /\ UNCHANGED <<rpos, unread, number, taken, rpc, ritn, rnum, faults>>
      /\ wnum' = wnum + 1 /\ wnum < PerEntry
    BY DEF Put, Header, Reader, WriteRecord
<1>2. wslot \in Slots /\ wnum \in 0 .. PerEntry - 1
    BY <1>1, ShmAssumption DEF Good, IInv, TypeOK
<1>3. wslot \notin unread  BY <1>1, Disjoint DEF Good, Exact, WriterAt
<1>4. Filling = SubSeq(body[wslot], 1, wnum) /\ Filling' = SubSeq(body'[wslot], 1, wnum + 1)
    BY <1>1 DEF Filling
<1> QED  BY <1>1, <1>2, <1>3, <1>4, WroteStep

LEMMA WriterGetMapped == ASSUME Good, Good', WriterGet PROVE Mapped
<1>1. /\ wpc = "get" /\ ~Full /\ wpc' = "idle" /\ has_header' /\ wslot' = wpos
      /\ UNCHANGED <<rpos, unread, number, taken, rpc, ritn, rnum, faults>>
    BY DEF WriterGet, Header
<1>2. wpos \in Slots /\ wpos \notin unread /\ 0 \in 0 .. PerEntry - 1
    <2>1. wpos \in Slots  BY DEF Good, IInv, TypeOK
    <2>2. wpos \notin unread  BY <1>1, Disjoint DEF Good
    <2> QED  BY <2>1, <2>2, ShmAssumption
<1>3. body[wpos] \in Seq(Nat) /\ Filling = <<>>  BY <1>1, <1>2, BodySeq DEF Good, IInv, Filling
<1>4. SubSeq(body[wpos], 1, 0) = <<>>  BY <1>3
<1>5. CASE flushing
    <2>1. wnum' = 0 /\ body' = body /\ next' = next  BY <1>5 DEF WriterGet
    <2>2. Filling' = Filling  BY <1>1, <1>3, <1>4, <2>1 DEF Filling
    <2>3. First' = First /\ opened' = opened /\ toRead' = toRead  BY <1>1, SameGroup DEF First, Good
    <2> QED  BY <1>1, <2>1, <2>2, <2>3, QuietStep
<1>6. CASE ~flushing
    <2>1. WriteRecord(wpos, 0) /\ wnum' = 0 + 1  BY <1>6 DEF WriterGet, WriteRecord
    <2>2. Filling = SubSeq(body[wpos], 1, 0) /\ Filling' = SubSeq(body'[wpos], 1, 0 + 1)
        BY <1>1, <1>3, <1>4, <2>1 DEF Filling
    <2> QED  BY <1>1, <1>2, <2>1, <2>2, WroteStep
<1> QED  BY <1>5, <1>6

LEMMA CommitMapped ==
    ASSUME Good, Good', wpc = "idle", has_header, HeaderCommit,
           UNCHANGED <<rpos, body, wslot, next, Reader, faults>>
    PROVE  Mapped
<1>1. GoodView /\ GoodView'  BY GoodIs, GoodNext
<1>2. /\ Waits < Count /\ wslot = Pos(rpos, Waits) /\ wslot \notin unread /\ wslot \in Slots
      /\ rpc = "read" => Waits >= 1
    BY Disjoint DEF Good, Exact, WriterAt, RingShape, IInv, TypeOK
<1>3. /\ number' = [number EXCEPT ![wslot] = wnum] /\ unread' = unread \cup {wslot} /\ wpc' = "load"
      /\ UNCHANGED <<rpc, ritn, rnum, taken>>
    BY DEF HeaderCommit, Reader
<1>4. /\ unread \in SUBSET Slots /\ Waits \in 0 .. Count - 1
      /\ number \in [Slots -> {NoMagic} \cup 0 .. PerEntry]
    <2>1. TypeOK /\ Waits \in 0 .. Count  BY <1>1 DEF GoodView
    <2>2. unread \in SUBSET Slots /\ number \in [Slots -> {NoMagic} \cup 0 .. PerEntry]
        BY <2>1 DEF TypeOK
    <2>3. Waits \in 0 .. Count - 1  BY <1>2, <2>1, ShmAssumption
    <2> QED  BY <2>2, <2>3
<1>5. Waits' = Waits + 1  BY <1>2, <1>3, <1>4, CountSlots DEF Waits
<1>6. First' = First /\ (Waits = 0 => First' = 1)  BY <1>2, <1>3 DEF First
<1>7. number'[wslot] = wnum /\ \A t \in unread : number'[t] = number[t]  BY <1>2, <1>3, <1>4
<1>8. Waiting'[Waits + 1] = Waiting[Waits] \o SubSeq(body'[wslot], 1, number'[wslot])
    BY <1>1, <1>2, <1>4, <1>6, <1>7, OneMoreWaiting DEF GoodView
<1>9. Filling = SubSeq(body[wslot], 1, wnum) /\ Filling' = <<>>  BY <1>3 DEF Filling
<1>10. pending' = pending
    <2>1. pending' = (Waiting[Waits] \o Filling) \o <<>>
        <3>1. pending' = Waiting'[Waits'] \o Filling'  BY <1>1, Zenon DEF GoodView
        <3>2. Waiting'[Waits'] = Waiting[Waits] \o Filling  BY <1>5, <1>7, <1>8, <1>9
        <3> QED  BY <1>9, <3>1, <3>2
    <2>2. pending = Waiting[Waits] \o Filling  BY <1>1 DEF GoodView
    <2>3. Waiting[Waits] \o Filling \in Seq(Nat)  BY <1>1 DEF GoodView
    <2> QED  BY <2>1, <2>2, <2>3, ConcatEmptySeq
<1>11. got' = got /\ next' = next  BY <1>1, <1>3 DEF GoodView
<1>12. ok' = ok  BY DEF Good, ok
<1>13. opened' = opened /\ toRead' = toRead  BY <1>3, SameGroup DEF Good
<1> QED  BY <1>10, <1>11, <1>12, <1>13, IsStutter

LEMMA WriterMapped ==
    ASSUME Good, Good', PutNeedsEntry \/ Flush \/ WriterLoad \/ WriterStore \/ WriterFull
    PROVE  Mapped
<1>1. CASE PutNeedsEntry /\ HeaderCommit /\ has_header
    BY <1>1, CommitMapped DEF PutNeedsEntry
<1>2. CASE Flush  BY <1>2, CommitMapped DEF Flush
<1>3. CASE PutNeedsEntry /\ ~has_header /\ wpc' = "get" /\ UNCHANGED <<number, wpos, unread>>
    <2>1. UNCHANGED <<rpos, unread, number, body, taken, next, rpc, ritn, rnum, faults>>
        BY <1>3 DEF PutNeedsEntry, Reader
    <2>2. Filling' = Filling /\ First' = First /\ opened' = opened /\ toRead' = toRead
        BY SameGroup, <1>3, <2>1 DEF Filling, First, Good
    <2> QED  BY <2>1, <2>2, QuietStep
<1>4. CASE WriterLoad \/ WriterStore
    <2>1. /\ UNCHANGED <<rpos, unread, number, body, taken, next, rpc, ritn, rnum, faults>>
          /\ wpc # "idle" /\ wpc' # "idle"
        BY <1>4 DEF WriterLoad, WriterStore, Header, Data, Reader
    <2>2. Filling' = Filling /\ First' = First /\ opened' = opened /\ toRead' = toRead
        BY SameGroup, <2>1 DEF Filling, First, Good
    <2> QED  BY <2>1, <2>2, QuietStep
<1>5. CASE WriterFull
    <2>1. /\ UNCHANGED <<rpos, unread, number, body, taken, next, rpc, ritn, rnum, faults, has_header>>
          /\ wpc = "get"
        BY <1>5 DEF WriterFull, Header, Data, Reader
    <2>2. ~has_header  BY <2>1 DEF Good, Exact, WriterAt
    <2>3. Filling' = Filling /\ First' = First /\ opened' = opened /\ toRead' = toRead
        BY SameGroup, <2>1, <2>2 DEF Filling, First, Good
    <2> QED  BY <2>1, <2>3, QuietStep
<1> QED  BY <1>1, <1>2, <1>3, <1>4, <1>5 DEF PutNeedsEntry

LEMMA CountMapped == ASSUME Good, Good', ReaderLoad \/ ReaderStore PROVE Mapped
<1>1. /\ UNCHANGED <<rpos, unread, number, body, taken, next, wpc, has_header, wslot, wnum, faults>>
      /\ rpc # "read" /\ rpc' # "read"
    BY DEF ReaderLoad, ReaderStore, Header, Data, Writer
<1>2. Filling' = Filling /\ First' = First  BY <1>1 DEF Filling, First
<1>3. opened' = opened /\ toRead' = toRead  BY <1>1 DEF opened, toRead
<1> QED  BY <1>1, <1>2, <1>3, QuietStep

\* All that waits is at least as long as the first part.
LEMMA JoinLength ==
    ASSUME NEW n \in Nat \ {0}, NEW w, NEW x, Join(w, x, n), \A k \in 1 .. n : x[k] \in Seq(Nat)
    PROVE  Len(x[1]) <= Len(w[n])
<1>a. w[0] = <<>>  BY DEF Join
<1>b. \A k \in 1 .. n : w[k] = w[k - 1] \o x[k]  BY DEF Join
<1>c. \A k \in 0 .. n : w[k] \in Seq(Nat)  BY JoinSeq
<1>d. x[1] \in Seq(Nat) /\ 1 \in 1 .. n  OBVIOUS
<1> DEFINE T == {m \in 0 .. n : m # 0 /\ ~(Len(x[1]) <= Len(w[m]))}
<1>1. T \in SUBSET (0 .. n)  OBVIOUS
<1>2. 0 \notin T  OBVIOUS
<1>3. ASSUME NEW m \in 1 .. n, m \in T PROVE m - 1 \in T
    <2>0. ~(Len(x[1]) <= Len(w[m]))  BY <1>3
    <2> HIDE DEF T
    <2>1. m - 1 \in 0 .. n /\ w[m - 1] \in Seq(Nat) /\ x[m] \in Seq(Nat)  BY <1>c
    <2>2. w[m] = w[m - 1] \o x[m]  BY <1>b
    <2>3. Len(w[m]) = Len(w[m - 1]) + Len(x[m]) /\ Len(w[m - 1]) \in Nat /\ Len(x[m]) \in Nat
        BY <2>1, <2>2
    <2>6. Len(x[1]) \in Nat  BY <1>d
    <2>7. \A a, b, c \in Nat : ~(a <= b + c) => ~(a <= b) /\ ~(a <= c)  OBVIOUS
    <2>8. ~(Len(x[1]) <= Len(w[m - 1])) /\ ~(Len(x[1]) <= Len(x[m]))
        <3>1. ~(Len(x[1]) <= Len(w[m - 1]) + Len(x[m]))  BY <2>0, <2>3, Zenon
        <3> QED  BY <2>3, <2>6, <2>7, <3>1, Zenon
    <2>4. CASE m = 1
        <3>1. Len(x[1]) <= Len(x[1])  BY <2>6
        <3> QED  BY <2>4, <2>8, <3>1
    <2>5. CASE m # 1
        <3>1. m - 1 # 0  BY <2>5
        <3>2. ~(Len(x[1]) <= Len(w[m - 1]))  BY <2>8
        <3> QED  BY <2>1, <3>1, <3>2 DEF T
    <2> QED  BY <2>4, <2>5
<1>4. T = {}
    <2> HIDE DEF T
    <2> QED  BY <1>1, <1>2, <1>3, NoneLeast
<1>5. n \in 0 .. n /\ n # 0  OBVIOUS
<1> QED  BY <1>4, <1>5

LEMMA PrepareMapped == ASSUME Good, Good', Prepare PROVE Mapped
<1>1. /\ UNCHANGED <<rpos, unread, number, body, taken, next, wpc, has_header, wslot, wnum, faults>>
      /\ rpc = "idle" /\ rpc' = "read" /\ ritn' = 0 /\ rnum' = number[rpos] /\ number[rpos] # NoMagic
      /\ ~Empty
    BY DEF Prepare, Header, Data, Writer
<1>2. Filling' = Filling /\ First' = First /\ First = 1  BY <1>1 DEF Filling, First
<1>3. GoodView /\ GoodView'  BY GoodIs, GoodNext
<1>4. Waits' = Waits  BY <1>1 DEF Waits
<1>5. Waiting'[Waits] = Waiting[Waits]  BY <1>1, <1>2, <1>3, SameWaiting DEF GoodView
<1>6. pending' = pending /\ got' = got
    <2>1. pending' = Waiting'[Waits'] \o Filling' /\ got' = taken'  BY <1>3, Zenon DEF GoodView
    <2>2. pending = Waiting[Waits] \o Filling /\ got = taken  BY <1>3, Zenon DEF GoodView
    <2>3. pending' = pending  BY <1>2, <1>4, <1>5, <2>1, <2>2, Zenon
    <2> QED  BY <1>1, <2>1, <2>2, <2>3
<1>7. ~opened /\ opened'  BY <1>1 DEF opened, Good
<1>8. Waits \in 1 .. Count
    <2>1. Waits >= 1  BY <1>1, Disjoint DEF Good
    <2>2. Waits \in 0 .. Count  BY <1>3 DEF GoodView
    <2> QED  BY <2>1, <2>2, ShmAssumption
<1>9. toRead' \in 0 .. Len(pending)
    <2>0. TypeOK /\ Count \in Nat /\ PerEntry \in Nat  BY <1>3, ShmAssumption DEF GoodView
    <2>1. number[rpos] \in 0 .. PerEntry
        <3>1. rpos \in Slots /\ number \in [Slots -> {NoMagic} \cup 0 .. PerEntry]  BY <2>0 DEF TypeOK
        <3> QED  BY <1>1, <3>1
    <2>2. body[rpos] \in Seq(Nat) /\ Len(body[rpos]) = PerEntry  BY <1>3, <2>0, BodySeq DEF GoodView
    <2>3. toRead' = number[rpos]  BY <1>1, <1>7, <2>1 DEF toRead
    <2>4. PartsFacts  BY <2>0, PartsIs
    <2>5. Parts[1] = SubSeq(body[rpos], 1, number[rpos])  BY <1>2, <2>4 DEF PartsFacts
    <2>6. Len(Parts[1]) = number[rpos]  BY <2>0, <2>1, <2>2, <2>5
    <2>7. Waits \in Nat \ {0} /\ Waits \in 0 .. Count  BY <1>8, <2>0
    <2>8. Join(Waiting, Parts, Waits)  BY <2>4, <2>7, JoinFewer DEF PartsFacts
    <2>9. \A k \in 1 .. Waits : Parts[k] \in Seq(Nat)
        <3>1. \A k \in 1 .. Waits : k \in 1 .. Count  BY <2>0, <2>7
        <3> QED  BY <2>4, <3>1 DEF PartsFacts
    <2>10. Len(Parts[1]) <= Len(Waiting[Waits])
        <3> DEFINE w == Waiting  x == Parts  n == Waits
        <3>1. n \in Nat \ {0} /\ Join(w, x, n) /\ \A k \in 1 .. n : x[k] \in Seq(Nat)  BY <2>7, <2>8, <2>9
        <3> HIDE DEF w, x, n
        <3>2. Len(x[1]) <= Len(w[n])  BY <3>1, JoinLength
        <3> QED  BY <3>2 DEF w, x, n
    <2>11. Len(pending) = Len(Waiting[Waits]) + Len(Filling) /\ Len(Filling) \in Nat
           /\ Len(Waiting[Waits]) \in Nat
        <3>1. pending = Waiting[Waits] \o Filling  BY <1>3 DEF GoodView
        <3>2. Waiting[Waits] \in Seq(Nat) /\ Filling \in Seq(Nat)  BY <1>3 DEF GoodView
        <3> QED  BY <3>1, <3>2
    <2> QED  BY <2>1, <2>3, <2>6, <2>10, <2>11
<1> QED  BY <1>1, <1>6, <1>7, <1>9, IsOpen DEF Good

\* The entry at the read position, while it is read.
LEMMA EntryAtHand ==
    ASSUME Good, rpc = "read"
    PROVE  /\ rslot = rpos /\ rnum = number[rpos] /\ taken = SubSeq(body[rpos], 1, ritn)
           /\ rpos \in Slots /\ body[rpos] \in Seq(Nat) /\ Len(body[rpos]) = PerEntry
           /\ ritn \in Nat /\ rnum \in 0 .. PerEntry /\ ritn <= rnum /\ PerEntry \in Nat
           /\ Waits \in 1 .. Count
<1>1. /\ rpos \in Slots /\ ritn \in Nat /\ rnum \in 0 .. PerEntry /\ PerEntry \in Nat
      /\ Waits \in 0 .. Count /\ TypeOK
    <2>1. TypeOK /\ Waits \in 0 .. Count  BY DEF Good, IInv, Exact, RingShape
    <2>2. PerEntry \in Nat  BY ShmAssumption
    <2>3. rpos \in Slots /\ ritn \in 0 .. PerEntry /\ rnum \in 0 .. PerEntry  BY <2>1 DEF TypeOK
    <2> QED  BY <2>1, <2>2, <2>3
<1>2. Waits >= 1  BY Disjoint DEF Good
<1>3. rslot = rpos /\ rnum = number[rpos] /\ taken = SubSeq(body[rpos], 1, ritn) /\ ritn <= rnum
    BY DEF Good, Exact, ReaderAt
<1>4. body[rpos] \in Seq(Nat) /\ Len(body[rpos]) = PerEntry  BY <1>1, BodySeq
<1>5. Waits \in 1 .. Count  BY <1>1, <1>2, ShmAssumption
<1> QED  BY <1>1, <1>3, <1>4, <1>5

LEMMA NextRecordMapped == ASSUME Good, Good', NextRecord PROVE Mapped
<1>1. /\ UNCHANGED <<rpos, unread, number, body, next, wpc, has_header, wslot, wnum, rnum, faults>>
      /\ rpc = "read" /\ rpc' = "read" /\ ritn' = ritn + 1 /\ ritn < rnum
      /\ taken' = Append(taken, body[rslot][ritn + 1])
    BY DEF NextRecord, Header, Data, Writer
<1> DEFINE r == body[rpos][ritn + 1]
<1>2. GoodView /\ GoodView'  BY GoodIs, GoodNext
<1>3. Filling' = Filling /\ First = ritn + 1 /\ First' = (ritn + 1) + 1 /\ Waits' = Waits
    BY <1>1 DEF Filling, First, Waits
<1>4. ritn + 1 \in 1 .. PerEntry /\ ritn + 1 <= rnum /\ rnum <= PerEntry
    <2>1. ritn \in Nat /\ rnum \in 0 .. PerEntry /\ PerEntry \in Nat  BY <1>1, EntryAtHand
    <2>2. ritn < rnum  BY <1>1
    <2> QED  BY <2>1, <2>2
<1>5. r \in Nat /\ <<r>> \in Seq(Nat)
    <2>1. body[rpos] \in Seq(Nat) /\ Len(body[rpos]) = PerEntry  BY <1>1, EntryAtHand
    <2>2. r \in Nat  BY <1>4, <2>1
    <2> QED  BY <2>2
<1>6. SubSeq(body[rpos], First, number[rpos]) = <<r>> \o SubSeq(body[rpos], First', number[rpos])
    <2> DEFINE b == body[rpos]
    <2>1. b \in Seq(Nat) /\ Len(b) = PerEntry /\ number[rpos] = rnum /\ rnum \in Nat /\ ritn \in Nat
        BY <1>1, EntryAtHand
    <2>2. r = b[ritn + 1]  OBVIOUS
    <2> HIDE DEF r, b
    <2>3. SubSeq(b, ritn + 1, rnum) = <<r>> \o SubSeq(b, (ritn + 1) + 1, rnum)
        BY <1>4, <2>1, <2>2
    <2> QED  BY <1>3, <2>1, <2>3 DEF b
<1> HIDE DEF r
<1>7. Waiting[Waits] = <<r>> \o Waiting'[Waits]
    BY <1>1, <1>2, <1>5, <1>6, EntryAtHand, FirstWaiting DEF GoodView
<1> DEFINE W == Waiting'[Waits]
           rest == W \o Filling
<1>8. W \in Seq(Nat) /\ Filling \in Seq(Nat)
    <2>1. Waiting'[Waits'] \in Seq(Nat) /\ Filling \in Seq(Nat)  BY <1>2 DEF GoodView
    <2> QED  BY <1>3, <2>1
<1>9. pending' = rest /\ pending = (<<r>> \o W) \o Filling /\ got' = taken' /\ got = taken
    <2>1. pending' = Waiting'[Waits'] \o Filling' /\ got' = taken'  BY <1>2, Zenon DEF GoodView
    <2>2. pending = Waiting[Waits] \o Filling /\ got = taken  BY <1>2, Zenon DEF GoodView
    <2>3. pending' = rest  BY <1>3, <2>1, Zenon
    <2>4. pending = (<<r>> \o W) \o Filling  BY <1>7, <2>2, Zenon
    <2> QED  BY <2>1, <2>2, <2>3, <2>4
<1>10. taken' = Append(taken, r)  BY <1>1, EntryAtHand DEF r
<1> HIDE DEF W
<1>11. pending = <<r>> \o rest /\ rest \in Seq(Nat)
    <2>1. (<<r>> \o W) \o Filling = <<r>> \o (W \o Filling)  BY <1>5, <1>8, Associative
    <2>2. rest \in Seq(Nat)  BY <1>8
    <2> QED  BY <1>9, <2>1, <2>2
<1> HIDE DEF rest
<1>12. opened /\ opened' /\ toRead > 0 /\ toRead' = toRead - 1
    <2>1. opened /\ opened'  BY <1>1 DEF opened, Good
    <2>2. ritn \in Nat /\ rnum \in Nat /\ ritn < rnum
        <3>1. ritn \in Nat /\ rnum \in 0 .. PerEntry /\ PerEntry \in Nat  BY <1>1, EntryAtHand
        <3> QED  BY <1>1, <3>1
    <2>3. toRead = rnum - ritn /\ toRead' = rnum - (ritn + 1)  BY <1>1, <2>1 DEF toRead
    <2> QED  BY <2>1, <2>2, <2>3
<1> QED  BY <1>1, <1>12, <1>5, <1>9, <1>10, <1>11, IsTake DEF Good

\* The entry at hand is committed: what is left of it is gone.
LEMMA CommitEntryMapped ==
    ASSUME Good, Good', rpc = "read", ReaderCommit, UNCHANGED <<Data, Writer>>,
           EntryRead \/ ReaderClose
    PROVE  Mapped
<1>1. /\ UNCHANGED <<number, body, next, wpc, has_header, wslot, wnum>>
      /\ rpos' = Advance(rpos) /\ unread' = unread \ {rpos} /\ rpc' = "load" /\ taken' = <<>>
    BY EntryAtHand DEF ReaderCommit, Data, Writer
<1>2. GoodView /\ GoodView'  BY GoodIs, GoodNext
<1>3. Filling' = Filling  BY <1>1 DEF Filling
<1>4. Waits' = Waits - 1
    <2>1. rpos \in Slots /\ rpos \in unread /\ unread \in SUBSET Slots  BY EntryAtHand, Disjoint DEF Good
    <2> QED  BY <1>1, <2>1, CountSlots DEF Waits
<1> DEFINE p == SubSeq(body[rpos], First, number[rpos])
           W == Waiting'[Waits - 1]
           rest == W \o Filling
<1>5. p \in Seq(Nat)
    <2>1. First \in Nat \ {0}  BY EntryAtHand DEF First
    <2>2. /\ body[rpos] \in Seq(Nat) /\ Len(body[rpos]) = PerEntry /\ number[rpos] \in 0 .. PerEntry
          /\ PerEntry \in Nat
        BY EntryAtHand
    <2> QED  BY <2>1, <2>2
<1>6. Waiting[Waits] = p \o W
    <2>1. rpc' # "read"  BY <1>1
    <2>2. TypeOK /\ TypeOK'  BY <1>2, Zenon DEF GoodView
    <2> QED  BY <1>1, <2>1, <2>2, EntryAtHand, ShiftWaiting
<1>7. W \in Seq(Nat) /\ Filling \in Seq(Nat)
    <2>1. Waiting'[Waits'] \in Seq(Nat) /\ Filling \in Seq(Nat)  BY <1>2 DEF GoodView
    <2> QED  BY <1>4, <2>1
<1>8. pending' = rest /\ pending = (p \o W) \o Filling /\ got' = <<>>
    <2>1. pending' = Waiting'[Waits'] \o Filling' /\ got' = taken'  BY <1>2, Zenon DEF GoodView
    <2>2. pending = Waiting[Waits] \o Filling  BY <1>2, Zenon DEF GoodView
    <2>3. pending' = rest  BY <1>3, <1>4, <2>1, Zenon
    <2>4. pending = (p \o W) \o Filling  BY <1>6, <2>2, Zenon
    <2> QED  BY <1>1, <2>1, <2>3, <2>4
<1>10. opened /\ toRead = Len(p) /\ ~opened'
    <2>1. opened /\ ~opened'  BY <1>1 DEF opened, Good
    <2>2. toRead = rnum - ritn /\ First = ritn + 1  BY <2>1 DEF toRead, First
    <2>3. /\ body[rpos] \in Seq(Nat) /\ Len(body[rpos]) = PerEntry /\ number[rpos] = rnum
          /\ rnum \in 0 .. PerEntry /\ PerEntry \in Nat /\ ritn \in Nat /\ ritn <= rnum
        BY EntryAtHand
    <2> QED  BY <2>1, <2>2, <2>3
<1> HIDE DEF p, W
<1>9. pending = p \o rest /\ rest \in Seq(Nat)
    <2>1. (p \o W) \o Filling = p \o (W \o Filling)  BY <1>5, <1>7, Associative
    <2>2. rest \in Seq(Nat)  BY <1>7
    <2> QED  BY <1>8, <2>1, <2>2
<1> HIDE DEF rest
<1>11. CASE ReaderClose
    <2>1. faults' = faults + 1  BY <1>11 DEF ReaderClose
    <2> QED  BY <1>1, <1>5, <1>8, <1>9, <1>10, <2>1, IsClose DEF Good
<1>12. CASE EntryRead
    <2>1. faults' = faults /\ ritn >= rnum  BY <1>12 DEF EntryRead
    <2>2. ritn \in Nat /\ rnum \in Nat /\ ritn <= rnum
        <3>1. ritn \in Nat /\ rnum \in 0 .. PerEntry /\ ritn <= rnum /\ PerEntry \in Nat  BY EntryAtHand
        <3> QED  BY <3>1
    <2>3. toRead = 0  BY <1>10, <2>1, <2>2 DEF toRead, opened
    <2>4. p = <<>>  BY <1>5, <1>10, <2>3, EmptySeq
    <2>5. pending' = pending  BY <1>8, <1>9, <2>4, ConcatEmptySeq
    <2> QED  BY <1>1, <1>8, <1>10, <2>1, <2>3, <2>5, IsGroupDone DEF Good
<1> QED  BY <1>11, <1>12

LEMMA EntrySplit ==
    ASSUME NEW b \in Seq(Nat), NEW m \in 0 .. Len(b), NEW i \in Nat, i <= m
    PROVE  SubSeq(b, 1, m) = SubSeq(b, 1, i) \o SubSeq(b, i + 1, m)
  OBVIOUS

\* A reader that dies gets the records of its entry again.
LEMMA ReaderCrashMapped == ASSUME Good, Good', ReaderCrash PROVE Mapped
<1>1. /\ UNCHANGED <<rpos, unread, number, body, next, wpc, has_header, wslot, wnum>>
      /\ rpc = "read" /\ rpc' = "idle" /\ taken' = <<>> /\ faults' = faults + 1
    BY DEF ReaderCrash, Header, Data, Writer, Good, ok
<1>2. GoodView /\ GoodView'  BY GoodIs, GoodNext
<1>3. Filling' = Filling /\ First = ritn + 1 /\ First' = 1 /\ Waits' = Waits
    BY <1>1 DEF Filling, First, Waits
<1>4. taken \in Seq(Nat)
    <2>1. /\ body[rpos] \in Seq(Nat) /\ Len(body[rpos]) = PerEntry /\ ritn \in Nat /\ ritn <= PerEntry
          /\ taken = SubSeq(body[rpos], 1, ritn)
        BY <1>1, EntryAtHand
    <2> QED  BY <2>1
<1>5. SubSeq(body[rpos], First', number[rpos]) = taken \o SubSeq(body[rpos], First, number[rpos])
    <2> DEFINE b == body[rpos]
    <2>1. /\ b \in Seq(Nat) /\ Len(b) = PerEntry /\ number[rpos] = rnum /\ rnum \in 0 .. PerEntry
          /\ ritn \in Nat /\ ritn <= rnum /\ taken = SubSeq(b, 1, ritn)
        BY <1>1, EntryAtHand
    <2> HIDE DEF b
    <2>2. SubSeq(b, 1, rnum) = SubSeq(b, 1, ritn) \o SubSeq(b, ritn + 1, rnum)
        BY <2>1, ShmAssumption, EntrySplit
    <2> QED  BY <1>3, <2>1, <2>2 DEF b
<1>6. Waiting'[Waits] = taken \o Waiting[Waits]
    BY <1>1, <1>2, <1>4, <1>5, EntryAtHand, FirstWaiting DEF GoodView
<1>7. pending' = got \o pending /\ got' = <<>>
    <2>1. pending' = Waiting'[Waits'] \o Filling' /\ got' = taken'  BY <1>2, Zenon DEF GoodView
    <2>2. pending = Waiting[Waits] \o Filling /\ got = taken  BY <1>2, Zenon DEF GoodView
    <2>3. Waiting[Waits] \in Seq(Nat) /\ Filling \in Seq(Nat)  BY <1>2, Zenon DEF GoodView
    <2>4. pending' = (taken \o Waiting[Waits]) \o Filling  BY <1>3, <1>6, <2>1, Zenon
    <2>5. (taken \o Waiting[Waits]) \o Filling = taken \o (Waiting[Waits] \o Filling)
        BY <1>4, <2>3, Associative
    <2>6. pending' = got \o pending  BY <2>2, <2>4, <2>5, Zenon
    <2> QED  BY <1>1, <2>1, <2>6
<1>8. opened /\ ~opened'  BY <1>1 DEF opened, Good
<1> QED  BY <1>1, <1>7, <1>8, IsTakeAgain DEF Good

\* A writer that starts again while nobody reads leaves an empty queue.
LEMMA RestartMapped == ASSUME Good', Restart PROVE Mapped
<1>1. next' = next /\ taken' = <<>> /\ unread' = {} /\ ~has_header' /\ faults' = faults + 1  BY DEF Restart
<1>2. GoodView'  BY GoodNext
<1>3. Waits' = 0 /\ Filling' = <<>>  BY <1>1, FS_EmptySet DEF Waits, Filling
<1>4. Waiting'[0] = <<>>
    <2>1. PartsFacts'  BY <1>2, PartsNext DEF GoodView
    <2> QED  BY <2>1, Zenon DEF PartsFacts, Join
<1>5. pending' = <<>> /\ got' = <<>>
    <2>1. pending' = Waiting'[Waits'] \o Filling' /\ got' = taken'  BY <1>2, Zenon DEF GoodView
    <2>2. pending' = <<>> \o <<>>  BY <1>3, <1>4, <2>1, Zenon
    <2> QED  BY <1>1, <2>1, <2>2
<1>6. ~opened'  BY DEF Restart, Good, ok, opened
<1> QED  BY <1>1, <1>5, <1>6, IsStart DEF Good

\* A step is a fault or leaves the count of faults alone.
LEMMA FaultsCounted == ASSUME [Next]_vars PROVE faults' \in {faults, faults + 1}
<1>1. CASE WriterStep \/ Flush
    BY <1>1 DEF WriterStep, WriterWork, Flush, PutNeedsEntry, Put, WriterLoad, WriterStore, WriterGet, WriterFull
<1>2. CASE ReaderStep
    BY <1>2 DEF ReaderStep, Prepare, NextRecord, BadRecord, EntryRead, ReaderLoad, ReaderStore
<1>3. CASE Restart \/ ReaderClose \/ ReaderCrash  BY <1>3 DEF Restart, ReaderClose, ReaderCrash
<1>4. CASE UNCHANGED vars  BY <1>4 DEF vars
<1> QED  BY <1>1, <1>2, <1>3, <1>4 DEF Next

LEMMA StepMapped == IInv /\ QueueInv /\ IInv' /\ QueueInv' /\ [Next]_vars => Mapped
<1> SUFFICES ASSUME IInv, QueueInv, IInv', QueueInv', [Next]_vars PROVE Mapped  OBVIOUS
<1>1. CASE ~ok'
    <2>1. faults' \in {faults, faults + 1}  BY FaultsCounted
    <2> QED  BY <1>1, <2>1, IsBreak DEF IInv
<1>2. CASE ok' /\ Restart  BY <1>2, RestartMapped DEF Good, QueueInv
<1>3. CASE ok' /\ ~Restart
    <2>0. Good /\ Good'  BY <1>3, OkBefore DEF Good, QueueInv
    <2>1. CASE WriterStep \/ Flush
        BY <2>0, <2>1, PutMapped, WriterGetMapped, WriterMapped DEF WriterStep, WriterWork
    <2>2. CASE EntryRead \/ ReaderClose
        BY <2>0, <2>2, CommitEntryMapped DEF EntryRead, ReaderClose
    <2>3. CASE Prepare \/ NextRecord \/ ReaderLoad \/ ReaderStore \/ ReaderCrash
        BY <2>0, <2>3, PrepareMapped, NextRecordMapped, CountMapped, ReaderCrashMapped
    <2>4. CASE BadRecord  BY <2>0, <2>4, NoBadRecord DEF Good
    <2>5. CASE UNCHANGED vars
        <3>1. UNCHANGED <<rpos, unread, number, body, taken, next, wpc, has_header, wslot, wnum,
                          rpc, ritn, rnum, faults>>
            BY <2>5 DEF vars, Header, Data, Writer, Reader
        <3>2. Filling' = Filling /\ First' = First /\ opened' = opened /\ toRead' = toRead
            BY <2>0, <3>1, SameGroup DEF Filling, First, Good
        <3> QED  BY <2>0, <3>1, <3>2, QuietStep
    <2> QED  BY <1>3, <2>1, <2>2, <2>3, <2>4, <2>5 DEF Next, ReaderStep
<1> QED  BY <1>1, <1>2, <1>3

LEMMA InitMapped == Init => Abstract!Init
<1> SUFFICES ASSUME Init PROVE Abstract!Init  OBVIOUS
<1>1. IInv /\ QueueInv  BY InitIInv, InitExact
<1>2. ok  BY DEF Init, ok
<1>3. GoodView  BY <1>1, <1>2, GoodIs DEF Good, QueueInv
<1>4. unread = {} /\ ~has_header /\ taken = <<>> /\ next = 1 /\ faults = 0 /\ rpc = "idle"  BY DEF Init
<1>5. Waits = 0 /\ Filling = <<>>  BY <1>4, FS_EmptySet DEF Waits, Filling
<1>6. Waiting[0] = <<>>  BY WaitingIs
<1>7. pending = <<>> /\ got = <<>>
    <2>1. pending = Waiting[Waits] \o Filling /\ got = taken  BY <1>3, Zenon DEF GoodView
    <2>2. pending = <<>> \o <<>>  BY <1>5, <1>6, <2>1, Zenon
    <2> QED  BY <1>4, <2>1, <2>2
<1>8. next - 1 = 0 /\ ok = TRUE  BY <1>2, <1>4 DEF ok
<1>9. opened = FALSE /\ toRead = 0
    <2>1. opened = FALSE  BY <1>4 DEF opened
    <2> QED  BY <2>1 DEF toRead
<1> QED  BY <1>4, <1>7, <1>8, <1>9 DEF Abstract!Init, Abstract!NoGroup

\* The shared-memory queue implements RecordQueue.
THEOREM QueueRefines == Spec => QueueSpec
<1>1. Spec => [](IInv /\ QueueInv)  BY Exactness
<1>2. IInv /\ QueueInv /\ (IInv /\ QueueInv)' /\ [Next]_vars => [Abstract!Next]_(Abstract!vars)
    BY StepMapped DEF Mapped
<1> QED  BY <1>1, <1>2, InitMapped, PTL DEF Spec, QueueSpec, Abstract!Spec
=============================================================================
