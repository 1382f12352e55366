------------------------- MODULE PacketDispatchProofs -------------------------
(***************************************************************************)
(* Proofs about PacketDispatch for every number of receive tasks, buffers  *)
(* and queues and every ring size: the types, RefSafe, and NoLeak with one *)
(* receive task.                                                           *)
(*                                                                         *)
(* Neither is inductive alone: refcnt stays a natural number only because  *)
(* no free outnumbers the references, and the references are only counted  *)
(* right because no buffer is in two places of the same process.           *)
(***************************************************************************)
EXTENDS PacketDispatch, SequenceTheorems, TLAPS

(* Where a task stands tells whether it has a buffer and which queue it uses. *)
PcInv ==
  /\ \A t \in RxTask :
       /\ (rxpc[t] = "idle") <=> (rxbuf[t] = NoBuf)
       /\ rxpc[t] \in {"l4put", "l4enq"} => rxq[t] \in L4Queue
       /\ rxpc[t] \in {"saput", "saenq"} => rxq[t] \in SaQueue
  /\ \A q \in Queue : (wkpc[q] = "popped") <=> (wkbuf[q] # NoBuf)

(* A buffer is handled by one receive task. *)
RxUnique ==
  \A t, u \in RxTask : rxbuf[t] # NoBuf /\ rxbuf[t] = rxbuf[u] => t = u

(* A ring holds a packet once, and not while its reader has it. *)
RingUnique ==
  \A q \in Queue :
    /\ \A i, j \in 1..Len(ring[q]) : ring[q][i] = ring[q][j] => i = j
    /\ wkbuf[q] \notin Elems(ring[q])

(* A packet is in one queue of each process. *)
QueueUnique ==
  \A m \in Mbuf :
    /\ \A p, q \in L4Queue : Holds(p, m) /\ Holds(q, m) => p = q
    /\ \A p, q \in SaQueue : Holds(p, m) /\ Holds(q, m) => p = q

(* A queue gets the packet from the put, not before. *)
PutOnce ==
  \A t \in RxTask :
    /\ rxpc[t] \in {"recv", "l4put", "l4enq"} =>
         \A q \in L4Queue : ~Holds(q, rxbuf[t])
    /\ rxpc[t] # "idle" => \A q \in SaQueue : ~Holds(q, rxbuf[t])

(* The references add up for every receive task that might have the buffer. *)
CountInv ==
  \A m \in Mbuf :
    /\ L4Ref(m) + SaRef(m) <= refcnt[m]
    /\ \A t \in RxTask : RxRefs(t, m) + L4Ref(m) + SaRef(m) <= refcnt[m]

IInv ==
  TypeOK /\ PcInv /\ RxUnique /\ RingUnique /\ QueueUnique /\ PutOnce /\ CountInv

-----------------------------------------------------------------------------
(* What the queue operations do to the set of packets a queue holds. *)

(* Append adds its element, at the end. *)
LEMMA ElemsAppend ==
  ASSUME NEW s \in Seq(Mbuf), NEW m \in Mbuf
  PROVE  /\ Append(s, m) \in Seq(Mbuf)
         /\ Elems(Append(s, m)) = Elems(s) \cup {m}
BY DEF Elems

(* Tail takes away the head of a sequence without repetitions, and nothing else. *)
LEMMA ElemsTail ==
  ASSUME NEW s \in Seq(Mbuf), s # <<>>,
         \A i, j \in 1..Len(s) : s[i] = s[j] => i = j
  PROVE  /\ Tail(s) \in Seq(Mbuf)
         /\ Head(s) \in Mbuf
         /\ Elems(Tail(s)) = Elems(s) \ {Head(s)}
         /\ Head(s) \in Elems(s)
         /\ \A i, j \in 1..Len(Tail(s)) : Tail(s)[i] = Tail(s)[j] => i = j
<1>1. /\ Tail(s) \in Seq(Mbuf)
      /\ Head(s) \in Mbuf
      /\ Len(s) \in Nat /\ Len(s) > 0
      /\ Len(Tail(s)) = Len(s) - 1
      /\ Head(s) = s[1]
      /\ \A i \in 1..Len(Tail(s)) : Tail(s)[i] = s[i + 1]
  BY EmptySeq, HeadTailProperties
<1>2. \A i \in 1..Len(Tail(s)) : i + 1 \in 1..Len(s) /\ i + 1 # 1
  BY <1>1
<1>3. \A i, j \in 1..Len(Tail(s)) : Tail(s)[i] = Tail(s)[j] => i = j
  BY <1>1, <1>2
<1>4. Head(s) \in Elems(s)
  BY <1>1 DEF Elems
<1>5. ASSUME NEW x \in Elems(Tail(s))
      PROVE  x \in Elems(s) /\ x # Head(s)
  BY <1>1, <1>2 DEF Elems
<1>6. ASSUME NEW x \in Elems(s), x # Head(s)
      PROVE  x \in Elems(Tail(s))
  <2>1. PICK i \in 1..Len(s) : x = s[i]
    BY DEF Elems
  <2>2. i - 1 \in 1..Len(Tail(s)) /\ (i - 1) + 1 = i
    BY <1>1, <1>6, <2>1
  <2>3. x = Tail(s)[i - 1]
    BY <1>1, <2>1, <2>2
  <2> QED
    BY <2>2, <2>3 DEF Elems
<1> QED
  BY <1>1, <1>3, <1>4, <1>5, <1>6

(* A step that leaves the rings and the readers alone leaves every queue's *)
(* packets alone.                                                          *)
LEMMA HoldsUnchanged ==
  ASSUME RingUnique, QueueUnique, ring' = ring, wkbuf' = wkbuf
  PROVE  /\ RingUnique' /\ QueueUnique'
         /\ \A q \in Queue, m \in Mbuf : Holds(q, m)' <=> Holds(q, m)
         /\ \A m \in Mbuf : L4Ref(m)' = L4Ref(m) /\ SaRef(m)' = SaRef(m)
<1>1. \A q \in Queue, m \in Mbuf : Holds(q, m)' <=> Holds(q, m)
  BY DEF Holds
<1>2. \A m \in Mbuf : L4Ref(m)' = L4Ref(m) /\ SaRef(m)' = SaRef(m)
  BY <1>1 DEF L4Ref, SaRef, Queue
<1>3. RingUnique'
  BY DEF RingUnique
<1>4. QueueUnique'
  BY <1>1 DEF QueueUnique, Queue
<1> QED
  BY <1>1, <1>2, <1>3, <1>4

(* The references a queue can contribute are numbers. *)
LEMMA RefTypes ==
  ASSUME NEW m \in Mbuf
  PROVE  /\ L4Ref(m) \in {0, 1} /\ SaRef(m) \in {0, 1}
         /\ L4Ref(m)' \in {0, 1} /\ SaRef(m)' \in {0, 1}
         /\ \A t \in RxTask : RxRefs(t, m) \in 0..2 /\ RxRefs(t, m)' \in 0..2
BY DEF L4Ref, SaRef, RxRefs

(* Enqueueing a packet the queue does not have adds at most that packet. *)
LEMMA HoldsEnqueue ==
  ASSUME TypeOK, RingUnique,
         NEW p \in Queue, NEW b \in Mbuf, ~Holds(p, b),
         Enqueue(p, b), wkbuf' = wkbuf
  PROVE  /\ ring' \in [Queue -> Seq(Mbuf)]
         /\ RingUnique'
         /\ \A q \in Queue, m \in Mbuf :
              Holds(q, m)' => Holds(q, m) \/ (q = p /\ m = b)
<1>1. CASE Full(p)
  BY <1>1 DEF Enqueue, Holds, RingUnique, TypeOK
<1>2. CASE ~Full(p)
  <2>1. ring \in [Queue -> Seq(Mbuf)] /\ ring[p] \in Seq(Mbuf)
    BY DEF TypeOK
  <2>2. ring' = [ring EXCEPT ![p] = Append(ring[p], b)]
    BY <1>2 DEF Enqueue
  <2>3. /\ ring'[p] = Append(ring[p], b)
        /\ \A q \in Queue \ {p} : ring'[q] = ring[q]
        /\ ring' \in [Queue -> Seq(Mbuf)]
    BY <2>1, <2>2, ElemsAppend
  <2>4. Elems(ring'[p]) = Elems(ring[p]) \cup {b}
    BY <2>1, <2>3, ElemsAppend
  <2>5. \A q \in Queue, m \in Mbuf :
           Holds(q, m)' => Holds(q, m) \/ (q = p /\ m = b)
    BY <2>3, <2>4 DEF Holds
  <2>6. b \notin Elems(ring[p]) /\ wkbuf[p] # b
    BY DEF Holds
  <2>7. \A i, j \in 1..Len(ring'[p]) : ring'[p][i] = ring'[p][j] => i = j
    <3>1. /\ Len(ring'[p]) = Len(ring[p]) + 1 /\ Len(ring[p]) \in Nat
          /\ \A i \in 1..Len(ring[p]) : ring'[p][i] = ring[p][i]
          /\ ring'[p][Len(ring[p]) + 1] = b
      BY <2>1, <2>3
    <3>2. \A i \in 1..Len(ring[p]) : ring[p][i] # b
      BY <2>6 DEF Elems
    <3>3. \A i, j \in 1..Len(ring[p]) : ring[p][i] = ring[p][j] => i = j
      BY DEF RingUnique
    <3> QED
      BY <3>1, <3>2, <3>3, SMTT(60)
  <2>8. RingUnique'
    BY <2>3, <2>4, <2>6, <2>7 DEF RingUnique
  <2> QED
    BY <2>3, <2>5, <2>8
<1> QED
  BY <1>1, <1>2

(* A reader that lets go of its packet takes it out of its queue. *)
LEMMA HoldsRelease ==
  ASSUME TypeOK, RingUnique, QueueUnique,
         NEW p \in Queue, wkbuf[p] \in Mbuf,
         ring' = ring, wkbuf' = [wkbuf EXCEPT ![p] = NoBuf]
  PROVE  /\ RingUnique'
         /\ \A q \in Queue, m \in Mbuf :
              Holds(q, m)' <=> Holds(q, m) /\ ~(q = p /\ m = wkbuf[p])
         /\ QueueUnique'
<1> USE ConstantsAssumption
<1>1. wkbuf'[p] = NoBuf /\ \A q \in Queue \ {p} : wkbuf'[q] = wkbuf[q]
  BY DEF TypeOK
<1>2. \A q \in Queue : NoBuf \notin Elems(ring[q])
  BY DEF TypeOK, Elems
<1>3. RingUnique'
  BY <1>1, <1>2 DEF RingUnique
<1>4. \A q \in Queue, m \in Mbuf :
        Holds(q, m)' <=> Holds(q, m) /\ ~(q = p /\ m = wkbuf[p])
  BY <1>1, <1>2 DEF Holds, RingUnique
<1>5. QueueUnique'
  BY <1>4 DEF QueueUnique, Queue
<1> QED
  BY <1>3, <1>4, <1>5

(* A dequeue moves a packet from the ring to the reader, within the queue. *)
LEMMA HoldsPop ==
  ASSUME TypeOK, PcInv, RingUnique, QueueUnique, NEW p \in Queue, Pop(p)
  PROVE  /\ ring' \in [Queue -> Seq(Mbuf)]
         /\ wkbuf' \in [Queue -> Mbuf \cup {NoBuf}]
         /\ wkbuf'[p] \in Mbuf
         /\ \A q \in Queue \ {p} : wkbuf'[q] = wkbuf[q]
         /\ RingUnique' /\ QueueUnique'
         /\ \A q \in Queue, m \in Mbuf : Holds(q, m)' <=> Holds(q, m)
<1> USE ConstantsAssumption
<1>1. /\ ring[p] \in Seq(Mbuf) /\ ring[p] # <<>>
      /\ \A i, j \in 1..Len(ring[p]) : ring[p][i] = ring[p][j] => i = j
  BY DEF Pop, TypeOK, RingUnique
<1>2. /\ Tail(ring[p]) \in Seq(Mbuf)
      /\ Head(ring[p]) \in Mbuf
      /\ Elems(Tail(ring[p])) = Elems(ring[p]) \ {Head(ring[p])}
      /\ Head(ring[p]) \in Elems(ring[p])
      /\ \A i, j \in 1..Len(Tail(ring[p])) :
           Tail(ring[p])[i] = Tail(ring[p])[j] => i = j
  BY <1>1, ElemsTail
<1>3. /\ ring'[p] = Tail(ring[p]) /\ wkbuf'[p] = Head(ring[p])
      /\ \A q \in Queue \ {p} : ring'[q] = ring[q] /\ wkbuf'[q] = wkbuf[q]
      /\ ring' \in [Queue -> Seq(Mbuf)]
      /\ wkbuf' \in [Queue -> Mbuf \cup {NoBuf}]
  BY <1>2 DEF Pop, TypeOK
<1>4. wkbuf[p] = NoBuf
  BY DEF Pop, PcInv
<1>5. \A q \in Queue, m \in Mbuf : Holds(q, m)' <=> Holds(q, m)
  BY <1>2, <1>3, <1>4 DEF Holds
<1>6. RingUnique'
  BY <1>2, <1>3 DEF RingUnique
<1>7. QueueUnique'
  BY <1>5 DEF QueueUnique, Queue
<1> QED
  BY <1>2, <1>3, <1>5, <1>6, <1>7

(* A free of a buffer that has references takes one of them. *)
LEMMA FreeOne ==
  ASSUME TypeOK, NEW b \in Mbuf, refcnt[b] > 0, Free(b)
  PROVE  /\ refcnt' \in [Mbuf -> Nat]
         /\ chain' \in [Mbuf -> Chain]
         /\ refcnt'[b] = refcnt[b] - 1
         /\ \A m \in Mbuf \ {b} : refcnt'[m] = refcnt[m]
<1>1. refcnt \in [Mbuf -> Nat] /\ refcnt[b] - 1 \in Nat
  BY DEF TypeOK
<1>2. chain' \in [Mbuf -> Chain]
  BY DEF Free, TypeOK, Chain
<1> QED
  BY <1>1, <1>2 DEF Free

-----------------------------------------------------------------------------
(* The initial state, and every step, preserve IInv. *)

LEMMA InitIInv == Init => IInv
<1> SUFFICES ASSUME Init PROVE IInv
  OBVIOUS
<1> USE ConstantsAssumption DEF Init
<1>1. TypeOK /\ PcInv /\ RxUnique
  BY DEF TypeOK, PcInv, RxUnique, Chain, PktType, RxPc, WorkPc
<1>2. \A q \in Queue : Len(ring[q]) = 0 /\ Elems(ring[q]) = {}
  BY DEF Elems
<1>3. \A q \in Queue, m \in Mbuf : ~Holds(q, m)
  BY <1>2 DEF Holds
<1>4. RingUnique
  BY <1>2 DEF RingUnique
<1>5. QueueUnique
  BY <1>3 DEF QueueUnique, Queue
<1>6. PutOnce
  BY DEF PutOnce
<1>7. CountInv
  BY <1>3 DEF CountInv, L4Ref, SaRef, RxRefs, Queue
<1> QED
  BY <1>1, <1>4, <1>5, <1>6, <1>7 DEF IInv

(* A receive task at work has a buffer, and the buffer has its references. *)
LEMMA RxHolds ==
  ASSUME IInv, NEW t \in RxTask, rxpc[t] # "idle"
  PROVE  /\ rxbuf[t] \in Mbuf
         /\ refcnt[rxbuf[t]] \in Nat /\ refcnt[rxbuf[t]] > 0
         /\ rxpc[t] \in {"l4put", "l4enq"} => RxRefs(t, rxbuf[t]) = 2
         /\ rxpc[t] \notin {"l4put", "l4enq"} => RxRefs(t, rxbuf[t]) = 1
         /\ RxRefs(t, rxbuf[t]) + L4Ref(rxbuf[t]) + SaRef(rxbuf[t])
              <= refcnt[rxbuf[t]]
         /\ \A u \in RxTask \ {t} : rxbuf[u] # rxbuf[t]
<1>1. rxbuf[t] \in Mbuf
  BY ConstantsAssumption DEF IInv, PcInv, TypeOK
<1>2. refcnt[rxbuf[t]] \in Nat
  BY <1>1 DEF IInv, TypeOK
<1>3. /\ rxpc[t] \in {"l4put", "l4enq"} => RxRefs(t, rxbuf[t]) = 2
      /\ rxpc[t] \notin {"l4put", "l4enq"} => RxRefs(t, rxbuf[t]) = 1
  BY DEF RxRefs
<1>4. RxRefs(t, rxbuf[t]) + L4Ref(rxbuf[t]) + SaRef(rxbuf[t])
        <= refcnt[rxbuf[t]]
  BY <1>1 DEF IInv, CountInv
<1>5. \A u \in RxTask \ {t} : rxbuf[u] # rxbuf[t]
  BY <1>1, ConstantsAssumption DEF IInv, RxUnique
<1>6. refcnt[rxbuf[t]] > 0
  BY <1>1, <1>2, <1>3, <1>4, RefTypes
<1> QED
  BY <1>1, <1>2, <1>3, <1>4, <1>5, <1>6

LEMMA RxBurstIInv ==
  ASSUME IInv, NEW t \in RxTask, NEW b \in Mbuf, NEW type \in PktType,
         NEW c \in Chains, RxBurst(t, b, type, c)
  PROVE  IInv'
<1> USE ConstantsAssumption DEF IInv
<1>1. ring' = ring /\ wkbuf' = wkbuf
  BY DEF RxBurst, Work
<1>2. /\ RingUnique' /\ QueueUnique'
      /\ \A q \in Queue, m \in Mbuf : Holds(q, m)' <=> Holds(q, m)
      /\ \A m \in Mbuf : L4Ref(m)' = L4Ref(m) /\ SaRef(m)' = SaRef(m)
  BY <1>1, HoldsUnchanged
<1>3. TypeOK'
  BY DEF RxBurst, Work, TypeOK, Chain, RxPc
<1>4. PcInv'
  BY DEF RxBurst, Work, TypeOK, PcInv
<1>5. L4Ref(b) = 0 /\ SaRef(b) = 0 /\ \A u \in RxTask : rxbuf[u] # b
  BY RefTypes DEF RxBurst, CountInv, RxRefs
<1>6. \A q \in Queue : ~Holds(q, b)
  BY <1>5 DEF L4Ref, SaRef, Queue
<1>7. RxUnique'
  BY <1>5 DEF RxBurst, TypeOK, RxUnique
<1>8. PutOnce'
  BY <1>2, <1>6 DEF RxBurst, TypeOK, PcInv, PutOnce, Queue
<1>9. CountInv'
  <2> SUFFICES ASSUME NEW m \in Mbuf, NEW u \in RxTask
               PROVE  /\ (L4Ref(m) + SaRef(m) <= refcnt[m])'
                      /\ (RxRefs(u, m) + L4Ref(m) + SaRef(m) <= refcnt[m])'
    BY DEF CountInv
  <2>1. CASE m = b
    BY <1>2, <1>5, <2>1, RefTypes DEF RxBurst, TypeOK, RxRefs
  <2>2. CASE m # b
    BY <1>2, <2>2, RefTypes DEF RxBurst, TypeOK, RxRefs, CountInv
  <2> QED
    BY <2>1, <2>2
<1> QED
  BY <1>2, <1>3, <1>4, <1>7, <1>8, <1>9

(* A step of receive task t that concerns its own buffer only, and after    *)
(* which the references to that buffer still add up.                        *)
LEMMA RxLocal ==
  ASSUME IInv, NEW t \in RxTask, rxpc[t] # "idle",
         refcnt' \in [Mbuf -> Nat],
         rxbuf' \in [RxTask -> Mbuf \cup {NoBuf}],
         rxbuf'[t] = rxbuf[t] \/ rxbuf'[t] = NoBuf,
         \A u \in RxTask \ {t} : rxpc'[u] = rxpc[u] /\ rxbuf'[u] = rxbuf[u],
         NEW b \in Mbuf, b = rxbuf[t],
         \A m \in Mbuf \ {b} :
            refcnt'[m] = refcnt[m] /\ L4Ref(m)' = L4Ref(m) /\ SaRef(m)' = SaRef(m),
         RxRefs(t, b)' + L4Ref(b)' + SaRef(b)' <= refcnt'[b]
  PROVE  RxUnique' /\ CountInv'
<1>1. \A u \in RxTask \ {t} : rxbuf[u] # b
  BY RxHolds
<1>2. RxUnique'
  BY DEF IInv, RxUnique
<1>3. ASSUME NEW m \in Mbuf, NEW u \in RxTask
      PROVE  /\ L4Ref(m)' + SaRef(m)' <= refcnt'[m]
             /\ RxRefs(u, m)' + L4Ref(m)' + SaRef(m)' <= refcnt'[m]
  <2>1. CASE m = b /\ u = t
    BY <1>1, <2>1, RefTypes
  <2>2. CASE m = b /\ u # t
    <3>1. RxRefs(u, m)' = 0
      BY <1>1, <2>2 DEF RxRefs
    <3> QED
      BY <1>1, <2>2, <3>1, RefTypes
  <2>3. CASE m # b
    <3>1. RxRefs(u, m)' = RxRefs(u, m)
      <4>1. CASE u = t
        BY <1>1, <2>3, <4>1, ConstantsAssumption DEF RxRefs
      <4>2. CASE u # t
        BY <4>2 DEF RxRefs
      <4> QED
        BY <4>1, <4>2
    <3> QED
      BY <2>3, <3>1, RefTypes DEF IInv, CountInv
  <2> QED
    BY <2>1, <2>2, <2>3
<1>4. CountInv'
  BY <1>3 DEF CountInv
<1> QED
  BY <1>2, <1>4

(* The end of _pkt_handle by a free: a drop, or a put to SA that failed. *)
LEMMA RxFreeDoneIInv ==
  ASSUME IInv, NEW t \in RxTask, rxpc[t] \in {"recv", "saput"},
         Free(rxbuf[t]), RxDone(t), UNCHANGED <<ptype, ring, Work>>
  PROVE  IInv'
<1> USE ConstantsAssumption DEF IInv
<1> PICK b \in Mbuf : b = rxbuf[t]
  BY RxHolds
<1>1. ring' = ring /\ wkbuf' = wkbuf
  BY DEF Work
<1>2. /\ RingUnique' /\ QueueUnique'
      /\ \A q \in Queue, m \in Mbuf : Holds(q, m)' <=> Holds(q, m)
      /\ \A m \in Mbuf : L4Ref(m)' = L4Ref(m) /\ SaRef(m)' = SaRef(m)
  BY <1>1, HoldsUnchanged
<1>3. /\ b \in Mbuf /\ refcnt[b] \in Nat /\ refcnt[b] > 0
      /\ RxRefs(t, b) = 1
      /\ RxRefs(t, b) + L4Ref(b) + SaRef(b) <= refcnt[b]
  BY RxHolds
<1>4. /\ refcnt' \in [Mbuf -> Nat] /\ chain' \in [Mbuf -> Chain]
      /\ refcnt'[b] = refcnt[b] - 1
      /\ \A m \in Mbuf \ {b} : refcnt'[m] = refcnt[m]
  BY <1>3, FreeOne
<1>5. TypeOK'
  BY <1>4 DEF RxDone, Work, TypeOK, RxPc
<1>6. PcInv'
  BY DEF RxDone, Work, TypeOK, PcInv
<1>7. RxRefs(t, b)' = 0
  BY <1>3 DEF RxDone, RxRefs, TypeOK
<1>8. RxUnique' /\ CountInv'
  <2>1. RxRefs(t, b)' + L4Ref(b)' + SaRef(b)' <= refcnt'[b]
    BY <1>2, <1>3, <1>4, <1>7, RefTypes
  <2>2. /\ rxbuf' \in [RxTask -> Mbuf \cup {NoBuf}]
        /\ rxbuf'[t] = NoBuf
        /\ \A u \in RxTask \ {t} : rxpc'[u] = rxpc[u] /\ rxbuf'[u] = rxbuf[u]
    BY DEF RxDone, TypeOK
  <2> QED
    BY <1>2, <1>4, <1>7, <2>1, <2>2, RxLocal
<1>9. PutOnce'
  <2>1. rxpc'[t] = "idle" /\ \A u \in RxTask \ {t} :
          rxpc'[u] = rxpc[u] /\ rxbuf'[u] = rxbuf[u]
    BY DEF RxDone, TypeOK
  <2>2. \A u \in RxTask : rxpc[u] # "idle" => rxbuf[u] \in Mbuf
    BY RxHolds
  <2> QED
    BY <1>2, <2>1, <2>2 DEF PutOnce, Queue
<1> QED
  BY <1>2, <1>5, <1>6, <1>8, <1>9

(* Nobody's queues have a packet that was just received or is being put. *)
LEMMA NotYetPut ==
  ASSUME IInv, NEW t \in RxTask, NEW b \in Mbuf, b = rxbuf[t], rxpc[t] # "idle"
  PROVE  /\ SaRef(b) = 0
         /\ rxpc[t] \in {"recv", "l4put", "l4enq"} => L4Ref(b) = 0
BY DEF IInv, PutOnce, SaRef, L4Ref

LEMMA RxAcceptL4IInv ==
  ASSUME IInv, NEW t \in RxTask, NEW p \in Queue, RxAcceptL4(t, p)
  PROVE  IInv'
<1> USE ConstantsAssumption DEF IInv
<1>0. rxpc[t] = "recv" /\ p \in L4Queue
  BY DEF RxAcceptL4, QueuesOf, L4Queue
<1> PICK b \in Mbuf : b = rxbuf[t]
  BY <1>0, RxHolds
<1>1. ring' = ring /\ wkbuf' = wkbuf
  BY DEF RxAcceptL4, Work
<1>2. /\ RingUnique' /\ QueueUnique'
      /\ \A q \in Queue, m \in Mbuf : Holds(q, m)' <=> Holds(q, m)
      /\ \A m \in Mbuf : L4Ref(m)' = L4Ref(m) /\ SaRef(m)' = SaRef(m)
  BY <1>1, HoldsUnchanged
<1>3. /\ rxbuf' = rxbuf /\ rxpc'[t] = "l4put"
      /\ \A u \in RxTask \ {t} : rxpc'[u] = rxpc[u]
      /\ refcnt' \in [Mbuf -> Nat] /\ refcnt'[b] = 2
      /\ \A m \in Mbuf \ {b} : refcnt'[m] = refcnt[m]
  BY DEF RxAcceptL4, PutBegin, TypeOK
<1>4. TypeOK'
  BY <1>0, <1>3 DEF RxAcceptL4, PutBegin, Work, TypeOK, RxPc
<1>5. PcInv'
  BY <1>0 DEF RxAcceptL4, PutBegin, Work, TypeOK, PcInv
<1>6. RxUnique' /\ CountInv'
  <2>1. RxRefs(t, b)' + L4Ref(b)' + SaRef(b)' <= refcnt'[b]
    BY <1>0, <1>2, <1>3, NotYetPut DEF RxRefs
  <2>3. rxpc[t] # "idle" /\ rxbuf' \in [RxTask -> Mbuf \cup {NoBuf}]
          /\ refcnt' \in [Mbuf -> Nat]
    BY <1>0, <1>1, <1>3 DEF TypeOK
  <2> QED
    BY <2>3, <1>2, <1>3, <2>1, RxLocal
<1>7. PutOnce'
  BY <1>0, <1>2, <1>3, RxHolds DEF PutOnce, Queue
<1> QED
  BY <1>2, <1>4, <1>5, <1>6, <1>7

LEMMA RxAcceptOtherIInv ==
  ASSUME IInv, NEW t \in RxTask, NEW p \in Queue, RxAcceptOther(t, p)
  PROVE  IInv'
<1> USE ConstantsAssumption DEF IInv
<1>0. rxpc[t] = "recv" /\ p \in SaQueue
  BY DEF RxAcceptOther
<1> PICK b \in Mbuf : b = rxbuf[t]
  BY <1>0, RxHolds
<1>1. ring' = ring /\ wkbuf' = wkbuf /\ refcnt' = refcnt
  BY DEF RxAcceptOther, Work
<1>2. /\ RingUnique' /\ QueueUnique'
      /\ \A q \in Queue, m \in Mbuf : Holds(q, m)' <=> Holds(q, m)
      /\ \A m \in Mbuf : L4Ref(m)' = L4Ref(m) /\ SaRef(m)' = SaRef(m)
  BY <1>1, HoldsUnchanged
<1>3. /\ rxbuf' = rxbuf /\ rxpc'[t] = "saput"
      /\ \A u \in RxTask \ {t} : rxpc'[u] = rxpc[u]
  BY DEF RxAcceptOther, PutBegin, TypeOK
<1>4. TypeOK'
  BY <1>0 DEF RxAcceptOther, PutBegin, Work, TypeOK, RxPc
<1>5. PcInv'
  BY <1>0 DEF RxAcceptOther, PutBegin, Work, TypeOK, PcInv
<1>6. RxUnique' /\ CountInv'
  <2>1. RxRefs(t, b)' = 1 /\ RxRefs(t, b) = 1
    BY <1>0, <1>3 DEF RxRefs
  <2>2. RxRefs(t, b)' + L4Ref(b)' + SaRef(b)' <= refcnt'[b]
    BY <1>0, <1>1, <1>2, <2>1, RxHolds
  <2>3. rxpc[t] # "idle" /\ rxbuf' \in [RxTask -> Mbuf \cup {NoBuf}]
          /\ refcnt' \in [Mbuf -> Nat]
    BY <1>0, <1>1, <1>3 DEF TypeOK
  <2> QED
    BY <2>3, <1>1, <1>2, <1>3, <2>2, RxLocal
<1>7. PutOnce'
  BY <1>0, <1>2, <1>3, RxHolds DEF PutOnce, Queue
<1> QED
  BY <1>2, <1>4, <1>5, <1>6, <1>7

LEMMA PutHasSpaceIInv ==
  ASSUME IInv, NEW t \in RxTask, PutHasSpace(t)
  PROVE  IInv'
<1> USE ConstantsAssumption DEF IInv
<1>0. rxpc[t] \in {"l4put", "saput"}
  BY DEF PutHasSpace
<1> PICK b \in Mbuf : b = rxbuf[t]
  BY <1>0, RxHolds
<1>1. ring' = ring /\ wkbuf' = wkbuf /\ refcnt' = refcnt
  BY DEF PutHasSpace, Work
<1>2. /\ RingUnique' /\ QueueUnique'
      /\ \A q \in Queue, m \in Mbuf : Holds(q, m)' <=> Holds(q, m)
      /\ \A m \in Mbuf : L4Ref(m)' = L4Ref(m) /\ SaRef(m)' = SaRef(m)
  BY <1>1, HoldsUnchanged
<1>3. /\ rxbuf' = rxbuf
      /\ rxpc'[t] = IF rxpc[t] = "l4put" THEN "l4enq" ELSE "saenq"
      /\ \A u \in RxTask \ {t} : rxpc'[u] = rxpc[u]
  BY DEF PutHasSpace, TypeOK
<1>4. TypeOK'
  BY DEF PutHasSpace, Work, TypeOK, RxPc
<1>5. PcInv'
  BY <1>0 DEF PutHasSpace, Work, TypeOK, PcInv
<1>6. RxUnique' /\ CountInv'
  <2>1. RxRefs(t, b)' = RxRefs(t, b)
    BY <1>0, <1>3 DEF RxRefs
  <2>2. RxRefs(t, b)' + L4Ref(b)' + SaRef(b)' <= refcnt'[b]
    BY <1>0, <1>1, <1>2, <2>1, RxHolds
  <2>3. rxpc[t] # "idle" /\ rxbuf' \in [RxTask -> Mbuf \cup {NoBuf}]
          /\ refcnt' \in [Mbuf -> Nat]
    BY <1>0, <1>1, <1>3 DEF TypeOK
  <2> QED
    BY <2>3, <1>1, <1>2, <1>3, <2>2, RxLocal
<1>7. PutOnce'
  BY <1>0, <1>2, <1>3, RxHolds DEF PutOnce, Queue
<1> QED
  BY <1>2, <1>4, <1>5, <1>6, <1>7

LEMMA PutFullL4IInv ==
  ASSUME IInv, NEW t \in RxTask, NEW p \in Queue, PutFullL4(t, p)
  PROVE  IInv'
<1> USE ConstantsAssumption DEF IInv
<1>0. rxpc[t] = "l4put" /\ p \in SaQueue
  BY DEF PutFullL4
<1> PICK b \in Mbuf : b = rxbuf[t]
  BY <1>0, RxHolds
<1>1. ring' = ring /\ wkbuf' = wkbuf
  BY DEF PutFullL4, Work
<1>2. /\ RingUnique' /\ QueueUnique'
      /\ \A q \in Queue, m \in Mbuf : Holds(q, m)' <=> Holds(q, m)
      /\ \A m \in Mbuf : L4Ref(m)' = L4Ref(m) /\ SaRef(m)' = SaRef(m)
  BY <1>1, HoldsUnchanged
<1>3. /\ rxbuf' = rxbuf /\ rxpc'[t] = "saput"
      /\ \A u \in RxTask \ {t} : rxpc'[u] = rxpc[u]
  BY DEF PutFullL4, PutBegin, TypeOK
<1>a. /\ refcnt' \in [Mbuf -> Nat] /\ chain' \in [Mbuf -> Chain]
      /\ refcnt'[b] = refcnt[b] - 1
      /\ \A m \in Mbuf \ {b} : refcnt'[m] = refcnt[m]
  BY <1>0, RxHolds, FreeOne DEF PutFullL4
<1>4. TypeOK'
  BY <1>0, <1>a DEF PutFullL4, PutBegin, Work, TypeOK, RxPc
<1>5. PcInv'
  BY <1>0 DEF PutFullL4, PutBegin, Work, TypeOK, PcInv
<1>6. RxUnique' /\ CountInv'
  <2>1. RxRefs(t, b)' = 1 /\ RxRefs(t, b) = 2
    BY <1>0, <1>3 DEF RxRefs
  <2>2. RxRefs(t, b)' + L4Ref(b)' + SaRef(b)' <= refcnt'[b]
    BY <1>0, <1>2, <1>a, <2>1, RxHolds, RefTypes
  <2>3. rxpc[t] # "idle" /\ rxbuf' \in [RxTask -> Mbuf \cup {NoBuf}]
          /\ refcnt' \in [Mbuf -> Nat]
    BY <1>0, <1>3, <1>a DEF TypeOK
  <2> QED
    BY <2>3, <1>a, <1>2, <1>3, <2>2, RxLocal
<1>7. PutOnce'
  BY <1>0, <1>2, <1>3, RxHolds DEF PutOnce, Queue
<1> QED
  BY <1>2, <1>4, <1>5, <1>6, <1>7

(* Enqueueing into an L4 (SA) queue leaves the other process alone and adds *)
(* at most one reference, to the packet enqueued.                           *)
LEMMA EnqueueRefs ==
  ASSUME IInv, NEW p \in Queue, NEW b \in Mbuf,
         \A q \in Queue, m \in Mbuf :
            Holds(q, m)' => Holds(q, m) \/ (q = p /\ m = b),
         \A q \in Queue, m \in Mbuf : Holds(q, m) => Holds(q, m)'
  PROVE  /\ \A m \in Mbuf \ {b} : L4Ref(m)' = L4Ref(m) /\ SaRef(m)' = SaRef(m)
         /\ p \in L4Queue => SaRef(b)' = SaRef(b)
         /\ p \in SaQueue => L4Ref(b)' = L4Ref(b)
<1>1. L4Queue \cap SaQueue = {} /\ Queue = L4Queue \cup SaQueue
  BY ConstantsAssumption DEF Queue
<1>2. \A m \in Mbuf \ {b} : L4Ref(m)' = L4Ref(m)
  BY <1>1 DEF L4Ref
<1>3. \A m \in Mbuf \ {b} : SaRef(m)' = SaRef(m)
  BY <1>1 DEF SaRef
<1>4. p \in L4Queue => SaRef(b)' = SaRef(b)
  BY <1>1 DEF SaRef
<1>5. p \in SaQueue => L4Ref(b)' = L4Ref(b)
  BY <1>1 DEF L4Ref
<1> QED
  BY <1>2, <1>3, <1>4, <1>5

LEMMA EnqueueKeeps ==
  ASSUME TypeOK, NEW p \in Queue, NEW b \in Mbuf, Enqueue(p, b), wkbuf' = wkbuf
  PROVE  \A q \in Queue, m \in Mbuf : Holds(q, m) => Holds(q, m)'
<1>1. CASE Full(p)
  BY <1>1 DEF Enqueue, Holds
<1>2. CASE ~Full(p)
  <2>1. /\ Elems(ring'[p]) = Elems(ring[p]) \cup {b}
        /\ \A q \in Queue \ {p} : ring'[q] = ring[q]
    BY <1>2, ElemsAppend DEF Enqueue, TypeOK
  <2> QED
    BY <2>1 DEF Holds
<1> QED
  BY <1>1, <1>2

LEMMA PutEnqueueL4IInv ==
  ASSUME IInv, NEW t \in RxTask, NEW s \in Queue, PutEnqueueL4(t, s)
  PROVE  IInv'
<1> USE ConstantsAssumption DEF IInv
<1>0. rxpc[t] = "l4enq" /\ s \in SaQueue /\ refcnt' = refcnt /\ wkbuf' = wkbuf
  BY DEF PutEnqueueL4, Work
<1> PICK b \in Mbuf : b = rxbuf[t]
  BY <1>0, RxHolds
<1> PICK p \in L4Queue : p = rxq[t]
  BY <1>0 DEF PcInv
<1>1. p \in Queue /\ p \notin SaQueue
  BY DEF Queue
<1>2. ~Holds(p, b)
  BY <1>0 DEF PutOnce
<1>3. /\ ring' \in [Queue -> Seq(Mbuf)] /\ RingUnique'
      /\ \A q \in Queue, m \in Mbuf :
           Holds(q, m)' => Holds(q, m) \/ (q = p /\ m = b)
  BY <1>0, <1>1, <1>2, HoldsEnqueue DEF PutEnqueueL4
<1>4. \A q \in Queue, m \in Mbuf : Holds(q, m) => Holds(q, m)'
  BY <1>0, <1>1, EnqueueKeeps DEF PutEnqueueL4
<1>5. /\ \A m \in Mbuf \ {b} : L4Ref(m)' = L4Ref(m) /\ SaRef(m)' = SaRef(m)
      /\ SaRef(b)' = SaRef(b)
  BY <1>1, <1>3, <1>4, EnqueueRefs
<1>6. QueueUnique'
  <2>1. \A q \in L4Queue : ~Holds(q, b)
    BY <1>0 DEF PutOnce
  <2> QED
    BY <1>1, <1>3, <2>1, SMTT(60) DEF QueueUnique, Queue
<1>7. /\ rxbuf' = rxbuf /\ rxpc'[t] = "saput"
      /\ \A u \in RxTask \ {t} : rxpc'[u] = rxpc[u]
  BY DEF PutEnqueueL4, PutBegin, TypeOK
<1>8. TypeOK'
  BY <1>0, <1>3 DEF PutEnqueueL4, PutBegin, Work, TypeOK, RxPc
<1>9. PcInv'
  BY <1>0 DEF PutEnqueueL4, PutBegin, Work, TypeOK, PcInv
<1>10. RxUnique' /\ CountInv'
  <2>1. RxRefs(t, b)' = 1 /\ RxRefs(t, b) = 2
    BY <1>0, <1>7 DEF RxRefs
  <2>2. SaRef(b) = 0 /\ L4Ref(b) = 0
    BY <1>0, NotYetPut
  <2>3. RxRefs(t, b)' + L4Ref(b)' + SaRef(b)' <= refcnt'[b]
    BY <1>0, <1>5, <2>1, <2>2, RxHolds, RefTypes
  <2>4. rxpc[t] # "idle" /\ rxbuf' \in [RxTask -> Mbuf \cup {NoBuf}]
          /\ refcnt' \in [Mbuf -> Nat]
    BY <1>0, <1>7 DEF TypeOK
  <2> QED
    BY <1>0, <1>5, <1>7, <2>3, <2>4, RxLocal
<1>11. PutOnce'
  <2>1. \A u \in RxTask \ {t} : rxbuf[u] # b
    BY <1>0, RxHolds
  <2>2. \A u \in RxTask : rxpc[u] # "idle" => rxbuf[u] \in Mbuf
    BY RxHolds
  <2>3. \A q \in SaQueue : q \in Queue /\ q # p
    BY <1>1 DEF Queue
  <2>4. \A q \in L4Queue : q \in Queue
    BY DEF Queue
  <2> QED
    BY <1>0, <1>3, <1>7, <2>1, <2>2, <2>3, <2>4 DEF PutOnce
<1> QED
  BY <1>3, <1>6, <1>8, <1>9, <1>10, <1>11

LEMMA PutEnqueueSaIInv ==
  ASSUME IInv, NEW t \in RxTask, PutEnqueueSa(t)
  PROVE  IInv'
<1> USE ConstantsAssumption DEF IInv
<1>0. rxpc[t] = "saenq" /\ refcnt' = refcnt /\ wkbuf' = wkbuf
  BY DEF PutEnqueueSa, Work
<1> PICK b \in Mbuf : b = rxbuf[t]
  BY <1>0, RxHolds
<1> PICK p \in SaQueue : p = rxq[t]
  BY <1>0 DEF PcInv
<1>1. p \in Queue /\ p \notin L4Queue
  BY DEF Queue
<1>2. ~Holds(p, b)
  BY <1>0 DEF PutOnce
<1>3. /\ ring' \in [Queue -> Seq(Mbuf)] /\ RingUnique'
      /\ \A q \in Queue, m \in Mbuf :
           Holds(q, m)' => Holds(q, m) \/ (q = p /\ m = b)
  BY <1>0, <1>1, <1>2, HoldsEnqueue DEF PutEnqueueSa
<1>4. \A q \in Queue, m \in Mbuf : Holds(q, m) => Holds(q, m)'
  BY <1>0, <1>1, EnqueueKeeps DEF PutEnqueueSa
<1>5. /\ \A m \in Mbuf \ {b} : L4Ref(m)' = L4Ref(m) /\ SaRef(m)' = SaRef(m)
      /\ L4Ref(b)' = L4Ref(b)
  BY <1>1, <1>3, <1>4, EnqueueRefs
<1>6. QueueUnique'
  <2>1. \A q \in SaQueue : ~Holds(q, b)
    BY <1>0 DEF PutOnce
  <2> QED
    BY <1>1, <1>3, <2>1 DEF QueueUnique, Queue
<1>7. /\ rxpc'[t] = "idle" /\ rxbuf'[t] = NoBuf
      /\ rxbuf' \in [RxTask -> Mbuf \cup {NoBuf}]
      /\ \A u \in RxTask \ {t} : rxpc'[u] = rxpc[u] /\ rxbuf'[u] = rxbuf[u]
  BY DEF PutEnqueueSa, RxDone, TypeOK
<1>8. TypeOK'
  BY <1>0, <1>3 DEF PutEnqueueSa, RxDone, Work, TypeOK, RxPc
<1>9. PcInv'
  BY <1>0 DEF PutEnqueueSa, RxDone, Work, TypeOK, PcInv
<1>10. RxUnique' /\ CountInv'
  <2>1. RxRefs(t, b)' = 0 /\ RxRefs(t, b) = 1
    BY <1>0, <1>7 DEF RxRefs
  <2>2. SaRef(b) = 0
    BY <1>0, NotYetPut
  <2>3. RxRefs(t, b)' + L4Ref(b)' + SaRef(b)' <= refcnt'[b]
    BY <1>0, <1>5, <2>1, <2>2, RxHolds, RefTypes
  <2>4. rxpc[t] # "idle" /\ refcnt' \in [Mbuf -> Nat]
    BY <1>0 DEF TypeOK
  <2> QED
    BY <1>0, <1>5, <1>7, <2>3, <2>4, RxLocal
<1>11. PutOnce'
  <2>1. \A u \in RxTask \ {t} : rxbuf[u] # b
    BY <1>0, RxHolds
  <2>2. \A u \in RxTask : rxpc[u] # "idle" => rxbuf[u] \in Mbuf
    BY RxHolds
  <2>3. \A q \in L4Queue : q \in Queue /\ q # p
    BY <1>1 DEF Queue
  <2>4. \A q \in SaQueue : q \in Queue
    BY DEF Queue
  <2> QED
    BY <1>0, <1>3, <1>7, <2>1, <2>2, <2>3, <2>4 DEF PutOnce
<1> QED
  BY <1>3, <1>6, <1>8, <1>9, <1>10, <1>11

LEMMA PopIInv ==
  ASSUME IInv, NEW p \in Queue, Pop(p)
  PROVE  IInv'
<1> USE ConstantsAssumption DEF IInv
<1>1. UNCHANGED <<refcnt, chain, ptype, rxpc, rxbuf, rxq>>
  BY DEF Pop, Rx
<1>2. /\ ring' \in [Queue -> Seq(Mbuf)]
      /\ wkbuf' \in [Queue -> Mbuf \cup {NoBuf}]
      /\ wkbuf'[p] \in Mbuf
      /\ \A q \in Queue \ {p} : wkbuf'[q] = wkbuf[q]
      /\ RingUnique' /\ QueueUnique'
      /\ \A q \in Queue, m \in Mbuf : Holds(q, m)' <=> Holds(q, m)
  BY HoldsPop
<1>3. TypeOK'
  BY <1>1, <1>2 DEF Pop, TypeOK, WorkPc
<1>4. /\ wkpc'[p] = "popped"
      /\ \A q \in Queue \ {p} : wkpc'[q] = wkpc[q]
  BY DEF Pop, TypeOK
<1>5. PcInv'
  BY <1>1, <1>2, <1>4 DEF PcInv
<1>6. RxUnique'
  BY <1>1 DEF RxUnique
<1>7. PutOnce'
  <2>1. \A u \in RxTask : rxpc[u] # "idle" => rxbuf[u] \in Mbuf
    BY RxHolds
  <2> QED
    BY <1>1, <1>2, <2>1 DEF PutOnce, Queue
<1>8. \A m \in Mbuf : L4Ref(m)' = L4Ref(m) /\ SaRef(m)' = SaRef(m)
  BY <1>2 DEF L4Ref, SaRef, Queue
<1>9. \A t \in RxTask, m \in Mbuf : RxRefs(t, m)' = RxRefs(t, m)
  BY <1>1 DEF RxRefs
<1>10. CountInv'
  BY <1>1, <1>8, <1>9 DEF CountInv
<1> QED
  BY <1>2, <1>3, <1>5, <1>6, <1>7, <1>10

(* The end of a reader's use of a packet: after the copy, or after handling. *)
LEMMA ReleaseIInv ==
  ASSUME IInv, NEW p \in Queue, wkpc[p] = "popped", Free(wkbuf[p]),
         NEW pc \in {"idle", "copied"}, wkpc' = [wkpc EXCEPT ![p] = pc],
         wkbuf' = [wkbuf EXCEPT ![p] = NoBuf], UNCHANGED <<ring, Rx>>
  PROVE  IInv'
<1> USE ConstantsAssumption DEF IInv
<1> PICK b \in Mbuf : b = wkbuf[p]
  BY DEF PcInv, TypeOK
<1>1. UNCHANGED <<ptype, rxpc, rxbuf, rxq, ring>>
  BY DEF Rx
<1>2. /\ RingUnique' /\ QueueUnique'
      /\ \A q \in Queue, m \in Mbuf :
           Holds(q, m)' <=> Holds(q, m) /\ ~(q = p /\ m = b)
  BY <1>1, HoldsRelease
<1>3. Holds(p, b)
  BY DEF Holds
<1>4. L4Ref(b)' + SaRef(b)' = L4Ref(b) + SaRef(b) - 1
  <2>1. CASE p \in L4Queue
    <3>1. L4Ref(b) = 1
      BY <1>3, <2>1 DEF L4Ref
    <3>2. L4Ref(b)' = 0
      BY <1>2, <1>3, <2>1 DEF L4Ref, QueueUnique, Queue
    <3>3. SaRef(b)' = SaRef(b)
      BY <1>2, <2>1 DEF SaRef, Queue
    <3> QED
      BY <3>1, <3>2, <3>3, RefTypes
  <2>2. CASE p \in SaQueue
    <3>1. SaRef(b) = 1
      BY <1>3, <2>2 DEF SaRef
    <3>2. SaRef(b)' = 0
      BY <1>2, <1>3, <2>2 DEF SaRef, QueueUnique, Queue
    <3>3. L4Ref(b)' = L4Ref(b)
      BY <1>2, <2>2 DEF L4Ref, Queue
    <3> QED
      BY <3>1, <3>2, <3>3, RefTypes
  <2> QED
    BY <2>1, <2>2 DEF Queue
<1>5. \A m \in Mbuf \ {b} : L4Ref(m)' = L4Ref(m) /\ SaRef(m)' = SaRef(m)
  BY <1>2 DEF L4Ref, SaRef, Queue
<1>a. /\ L4Ref(b) \in {0, 1} /\ SaRef(b) \in {0, 1}
      /\ L4Ref(b)' \in {0, 1} /\ SaRef(b)' \in {0, 1}
      /\ \A t \in RxTask : RxRefs(t, b) \in 0..2
  BY RefTypes
<1>b. /\ refcnt[b] \in Nat
      /\ L4Ref(b) + SaRef(b) <= refcnt[b]
      /\ \A t \in RxTask : RxRefs(t, b) + L4Ref(b) + SaRef(b) <= refcnt[b]
  BY DEF CountInv, TypeOK
<1>6. refcnt[b] > 0
  BY <1>4, <1>a, <1>b
<1>7. /\ refcnt' \in [Mbuf -> Nat] /\ chain' \in [Mbuf -> Chain]
      /\ refcnt'[b] = refcnt[b] - 1
      /\ \A m \in Mbuf \ {b} : refcnt'[m] = refcnt[m]
  BY <1>6, FreeOne
<1>8. TypeOK'
  BY <1>1, <1>7 DEF TypeOK, WorkPc
<1>9. PcInv'
  BY <1>1 DEF PcInv, TypeOK
<1>10. RxUnique'
  BY <1>1 DEF RxUnique
<1>11. PutOnce'
  <2>1. \A u \in RxTask : rxpc[u] # "idle" => rxbuf[u] \in Mbuf
    BY RxHolds
  <2> QED
    BY <1>1, <1>2, <2>1 DEF PutOnce, Queue
<1>12. \A t \in RxTask, m \in Mbuf : RxRefs(t, m)' = RxRefs(t, m)
  BY <1>1 DEF RxRefs
<1>13. CountInv'
  <2>1. ASSUME NEW m \in Mbuf, m # b
        PROVE  /\ (L4Ref(m) + SaRef(m) <= refcnt[m])'
               /\ \A t \in RxTask :
                    (RxRefs(t, m) + L4Ref(m) + SaRef(m) <= refcnt[m])'
    BY <1>5, <1>7, <1>12, <2>1 DEF CountInv
  <2>2. /\ L4Ref(b)' + SaRef(b)' <= refcnt'[b]
        /\ \A t \in RxTask :
             RxRefs(t, b)' + L4Ref(b)' + SaRef(b)' <= refcnt'[b]
    BY <1>4, <1>7, <1>12, <1>a, <1>b
  <2> QED
    BY <2>1, <2>2 DEF CountInv
<1> QED
  BY <1>2, <1>8, <1>9, <1>10, <1>11, <1>13

-----------------------------------------------------------------------------
(* The invariant holds, and what it implies. *)

LEMMA NextIInv == IInv /\ [Next]_vars => IInv'
<1> SUFFICES ASSUME IInv, [Next]_vars PROVE IInv'
  OBVIOUS
<1>1. ASSUME NEW t \in RxTask, NEW m \in Mbuf, NEW type \in PktType,
             NEW c \in Chains, RxBurst(t, m, type, c)
      PROVE  IInv'
  BY <1>1, RxBurstIInv
<1>2. ASSUME NEW t \in RxTask, RxStep(t) PROVE IInv'
  <2>1. CASE RxDrop(t)
    BY <2>1, RxFreeDoneIInv DEF RxDrop
  <2>2. CASE PutFullSa(t)
    BY <2>2, RxFreeDoneIInv DEF PutFullSa
  <2>3. CASE PutHasSpace(t) \/ PutEnqueueSa(t)
    BY <2>3, PutHasSpaceIInv, PutEnqueueSaIInv
  <2>4. ASSUME NEW q \in Queue,
               \/ RxAcceptL4(t, q) \/ RxAcceptOther(t, q)
               \/ PutFullL4(t, q) \/ PutEnqueueL4(t, q)
        PROVE  IInv'
    BY <2>4, RxAcceptL4IInv, RxAcceptOtherIInv, PutFullL4IInv, PutEnqueueL4IInv
  <2> QED
    BY <1>2, <2>1, <2>2, <2>3, <2>4 DEF RxStep
<1>3. ASSUME NEW q \in Queue, WorkStep(q) PROVE IInv'
  <2>1. CASE Pop(q)
    BY <2>1, PopIInv
  <2>2. CASE PopCopy(q)
    BY <2>2, ReleaseIInv DEF PopCopy
  <2>3. CASE HandleInPlace(q)
    BY <2>3, ReleaseIInv DEF HandleInPlace
  <2>4. CASE HandleCopy(q)
    <3>1. UNCHANGED <<refcnt, chain, ptype, ring, rxpc, rxbuf, rxq, wkbuf>>
      BY <2>4 DEF HandleCopy, Rx
    <3>2. /\ wkpc[q] = "copied" /\ wkpc'[q] = "idle"
          /\ \A p \in Queue \ {q} : wkpc'[p] = wkpc[p]
          /\ wkpc' \in [Queue -> WorkPc]
      BY <2>4 DEF HandleCopy, IInv, TypeOK, WorkPc
    <3>3. TypeOK'
      BY <3>1, <3>2 DEF IInv, TypeOK
    <3>4. PcInv'
      BY <3>1, <3>2 DEF IInv, PcInv
    <3>5. RxUnique' /\ RingUnique' /\ QueueUnique' /\ PutOnce' /\ CountInv'
      BY <3>1 DEF IInv, RxUnique, RingUnique, QueueUnique, PutOnce, CountInv,
                  Holds, L4Ref, SaRef, RxRefs
    <3> QED
      BY <3>3, <3>4, <3>5 DEF IInv
  <2> QED
    BY <1>3, <2>1, <2>2, <2>3, <2>4 DEF WorkStep
<1>4. CASE UNCHANGED vars
  BY <1>4 DEF vars, IInv, TypeOK, PcInv, RxUnique, RingUnique, QueueUnique,
              PutOnce, CountInv, Holds, L4Ref, SaRef, RxRefs
<1> QED
  BY <1>1, <1>2, <1>3, <1>4 DEF Next

(* IInv counts the references as RefSafe does. *)
LEMMA IInvRefSafe == IInv => RefSafe
<1> SUFFICES ASSUME IInv, NEW m \in Mbuf PROVE Refs(m) <= refcnt[m]
  BY DEF RefSafe
<1> DEFINE holder == {t \in RxTask : rxbuf[t] = m}
<1>1. CASE holder = {}
  <2>1. Refs(m) = L4Ref(m) + SaRef(m) + 0
    BY <1>1 DEF Refs
  <2> QED
    BY <2>1, RefTypes DEF IInv, CountInv
<1>2. CASE holder # {}
  <2>1. PICK t \in RxTask : t = CHOOSE u \in holder : TRUE
    BY <1>2
  <2>2. Refs(m) = L4Ref(m) + SaRef(m) + RxRefs(t, m)
    BY <1>2, <2>1 DEF Refs
  <2>3. RxRefs(t, m) + L4Ref(m) + SaRef(m) <= refcnt[m]
    BY DEF IInv, CountInv
  <2>4. RxRefs(t, m) \in 0..2 /\ L4Ref(m) \in {0, 1} /\ SaRef(m) \in {0, 1}
    BY RefTypes
  <2> QED
    BY <2>2, <2>3, <2>4
<1> QED
  BY <1>1, <1>2

(* Whatever the numbers of receive tasks, session tasks, rings and buffers, *)
(* the state of the dispatcher and the rings is well formed; in particular  *)
(* no reference count is ever decremented below zero.                       *)
THEOREM TypeCorrect == Spec => []TypeOK
<1>1. IInv => TypeOK
  BY DEF IInv
<1> QED
  BY InitIInv, NextIInv, <1>1, PTL DEF Spec

(* No packet buffer goes back to the mempool while a receive task, a ring or *)
(* a session task refers to it, for any number of tasks, rings and buffers   *)
(* and any ring size, also when a racing enqueue fails after its space test. *)
THEOREM RefSafety == Spec => []RefSafe
BY InitIInv, NextIInv, IInvRefSafe, PTL DEF Spec

-----------------------------------------------------------------------------
(* One receive task t.  Nobody else enqueues, so the space it has found is  *)
(* still there when it enqueues; a put that reports success has then handed *)
(* its reference on, and the references are counted exactly.                *)

Exactly(t) ==
  \A m \in Mbuf : refcnt[m] = RxRefs(t, m) + L4Ref(m) + SaRef(m)

SpaceLeft(t) == rxpc[t] \in {"l4enq", "saenq"} => ~Full(rxq[t])

(* A step of the task that concerns its own buffer only, and leaves the     *)
(* references to that buffer counted exactly.                               *)
LEMMA ExactLocal ==
  ASSUME IInv, NEW t \in RxTask, rxpc[t] # "idle", Exactly(t),
         rxbuf'[t] = rxbuf[t] \/ rxbuf'[t] = NoBuf,
         NEW b \in Mbuf, b = rxbuf[t],
         \A m \in Mbuf \ {b} :
            refcnt'[m] = refcnt[m] /\ L4Ref(m)' = L4Ref(m) /\ SaRef(m)' = SaRef(m),
         refcnt'[b] = RxRefs(t, b)' + L4Ref(b)' + SaRef(b)'
  PROVE  Exactly(t)'
<1>1. ASSUME NEW m \in Mbuf, m # b PROVE RxRefs(t, m)' = RxRefs(t, m)
  BY <1>1, ConstantsAssumption DEF RxRefs
<1> QED
  BY <1>1 DEF Exactly

(* Steps that leave the rings alone. *)
LEMMA ExactRx ==
  ASSUME IInv, NEW t \in RxTask, Exactly(t), RxStep(t), UNCHANGED <<ring, Work>>,
         rxpc[t] \notin {"l4enq", "saenq"}
  PROVE  Exactly(t)' /\ SpaceLeft(t)'
<1> USE ConstantsAssumption
<1>0. rxpc[t] # "idle"
  BY DEF RxStep, RxDrop, RxAcceptL4, RxAcceptOther, PutFullL4, PutEnqueueL4, PutHasSpace,
         PutFullSa, PutEnqueueSa
<1> PICK b \in Mbuf : b = rxbuf[t]
  BY <1>0, RxHolds
<1>1. /\ \A m \in Mbuf : L4Ref(m)' = L4Ref(m) /\ SaRef(m)' = SaRef(m)
      /\ ring' = ring
  BY HoldsUnchanged DEF IInv, Work
<1>2. /\ refcnt[b] \in Nat /\ refcnt[b] > 0
      /\ refcnt[b] = RxRefs(t, b) + L4Ref(b) + SaRef(b)
      /\ L4Ref(b) \in {0, 1} /\ SaRef(b) \in {0, 1}
  BY <1>0, RxHolds, RefTypes DEF Exactly
<1>3. CASE RxDrop(t) \/ PutFullSa(t)
  <2>1. rxpc[t] \in {"recv", "saput"} /\ Free(b) /\ RxDone(t)
    BY <1>3 DEF RxDrop, PutFullSa
  <2>2. rxpc'[t] = "idle" /\ rxbuf'[t] = NoBuf
    BY <2>1 DEF RxDone, IInv, TypeOK
  <2>3. RxRefs(t, b) = 1 /\ RxRefs(t, b)' = 0
    BY <2>1, <2>2 DEF RxRefs
  <2>4. refcnt'[b] = refcnt[b] - 1 /\ \A m \in Mbuf \ {b} : refcnt'[m] = refcnt[m]
    BY <1>2, <2>1, FreeOne DEF IInv
  <2> QED
    BY <1>0, <1>1, <1>2, <2>2, <2>3, <2>4, ExactLocal DEF SpaceLeft
<1>4. ASSUME NEW q \in Queue, RxAcceptL4(t, q) PROVE Exactly(t)' /\ SpaceLeft(t)'
  <2>1. rxpc[t] = "recv" /\ rxpc'[t] = "l4put" /\ rxbuf' = rxbuf
    BY <1>4 DEF RxAcceptL4, PutBegin, IInv, TypeOK
  <2>2. refcnt'[b] = 2 /\ \A m \in Mbuf \ {b} : refcnt'[m] = refcnt[m]
    BY <1>4 DEF RxAcceptL4, IInv, TypeOK
  <2>3. L4Ref(b) = 0 /\ SaRef(b) = 0 /\ RxRefs(t, b)' = 2
    BY <2>1, NotYetPut DEF RxRefs
  <2>4. refcnt'[b] = RxRefs(t, b)' + L4Ref(b)' + SaRef(b)'
    BY <1>1, <2>2, <2>3
  <2> QED
    BY <1>0, <1>1, <2>1, <2>2, <2>4, ExactLocal DEF SpaceLeft
<1>5. ASSUME NEW q \in Queue, RxAcceptOther(t, q) PROVE Exactly(t)' /\ SpaceLeft(t)'
  <2>1. rxpc[t] = "recv" /\ rxpc'[t] = "saput" /\ rxbuf' = rxbuf /\ refcnt' = refcnt
    BY <1>5 DEF RxAcceptOther, PutBegin, IInv, TypeOK
  <2>2. RxRefs(t, b) = 1 /\ RxRefs(t, b)' = 1
    BY <2>1 DEF RxRefs
  <2> QED
    BY <1>0, <1>1, <1>2, <2>1, <2>2, ExactLocal DEF SpaceLeft
<1>6. CASE PutHasSpace(t)
  <2>1. /\ rxpc[t] \in {"l4put", "saput"} /\ rxbuf' = rxbuf /\ refcnt' = refcnt /\ rxq' = rxq
        /\ rxpc'[t] = IF rxpc[t] = "l4put" THEN "l4enq" ELSE "saenq"
        /\ ~Full(rxq[t])
    BY <1>6 DEF PutHasSpace, IInv, TypeOK
  <2>2. RxRefs(t, b)' = RxRefs(t, b)
    BY <2>1 DEF RxRefs
  <2>3. SpaceLeft(t)'
    BY <1>1, <2>1 DEF SpaceLeft, Full
  <2> QED
    BY <1>0, <1>1, <1>2, <2>1, <2>2, <2>3, ExactLocal
<1>7. ASSUME NEW q \in Queue, PutFullL4(t, q) PROVE Exactly(t)' /\ SpaceLeft(t)'
  <2>1. rxpc[t] = "l4put" /\ rxpc'[t] = "saput" /\ rxbuf' = rxbuf
    BY <1>7 DEF PutFullL4, PutBegin, IInv, TypeOK
  <2>2. RxRefs(t, b) = 2 /\ RxRefs(t, b)' = 1
    BY <2>1 DEF RxRefs
  <2>3. refcnt'[b] = refcnt[b] - 1 /\ \A m \in Mbuf \ {b} : refcnt'[m] = refcnt[m]
    BY <1>2, <1>7, FreeOne DEF PutFullL4, IInv
  <2> QED
    BY <1>0, <1>1, <1>2, <2>1, <2>2, <2>3, ExactLocal DEF SpaceLeft
<1> QED
  BY <1>3, <1>4, <1>5, <1>6, <1>7 DEF RxStep, PutEnqueueL4, PutEnqueueSa

(* The enqueue after a successful space test: the ring has the packet. *)
LEMMA ExactEnqueue ==
  ASSUME IInv, NEW t \in RxTask, Exactly(t), SpaceLeft(t),
         PutEnqueueSa(t) \/ \E s \in Queue : PutEnqueueL4(t, s)
  PROVE  Exactly(t)' /\ SpaceLeft(t)'
<1> USE ConstantsAssumption
<1>0. /\ rxpc[t] \in {"l4enq", "saenq"} /\ refcnt' = refcnt /\ wkbuf' = wkbuf
      /\ Enqueue(rxq[t], rxbuf[t])
  BY DEF PutEnqueueSa, PutEnqueueL4, Work
<1> PICK b \in Mbuf : b = rxbuf[t]
  BY <1>0, RxHolds
<1>1. rxq[t] \in Queue /\ (rxpc[t] = "l4enq" => rxq[t] \in L4Queue)
        /\ (rxpc[t] = "saenq" => rxq[t] \in SaQueue)
  BY <1>0 DEF IInv, PcInv, Queue
<1> PICK p \in Queue : p = rxq[t]
  BY <1>1
<1>2. ring[p] \in Seq(Mbuf) /\ ring' = [ring EXCEPT ![p] = Append(ring[p], b)]
  BY <1>0 DEF Enqueue, SpaceLeft, IInv, TypeOK
<1>3. Holds(p, b)'
  BY <1>2, ElemsAppend DEF Holds, IInv, TypeOK
<1>4. ~Holds(p, b)
  BY <1>0, <1>1 DEF IInv, PutOnce
<1>5. \A q \in Queue, m \in Mbuf : Holds(q, m)' => Holds(q, m) \/ (q = p /\ m = b)
  BY <1>0, <1>4, HoldsEnqueue DEF IInv
<1>6. \A q \in Queue, m \in Mbuf : Holds(q, m) => Holds(q, m)'
  BY <1>0, EnqueueKeeps DEF IInv
<1>7. /\ \A m \in Mbuf \ {b} : L4Ref(m)' = L4Ref(m) /\ SaRef(m)' = SaRef(m)
      /\ p \in L4Queue => SaRef(b)' = SaRef(b)
      /\ p \in SaQueue => L4Ref(b)' = L4Ref(b)
  BY <1>5, <1>6, EnqueueRefs
<1>8. refcnt[b] = RxRefs(t, b) + L4Ref(b) + SaRef(b) /\ SaRef(b) = 0
  BY <1>0, NotYetPut DEF Exactly
<1>9. CASE rxpc[t] = "l4enq"
  <2>1. rxpc'[t] = "saput" /\ rxbuf' = rxbuf
    BY <1>9 DEF PutEnqueueL4, PutEnqueueSa, PutBegin, IInv, TypeOK
  <2>2. RxRefs(t, b) = 2 /\ RxRefs(t, b)' = 1
    BY <1>9, <2>1 DEF RxRefs
  <2>3. L4Ref(b) = 0 /\ L4Ref(b)' = 1
    BY <1>1, <1>3, <1>9, NotYetPut DEF L4Ref
  <2> QED
    BY <1>0, <1>1, <1>7, <1>8, <1>9, <2>1, <2>2, <2>3, ExactLocal DEF SpaceLeft
<1>10. CASE rxpc[t] = "saenq"
  <2>1. rxpc'[t] = "idle" /\ rxbuf'[t] = NoBuf
    BY <1>10 DEF PutEnqueueL4, PutEnqueueSa, RxDone, IInv, TypeOK
  <2>2. RxRefs(t, b) = 1 /\ RxRefs(t, b)' = 0
    BY <1>10, <2>1 DEF RxRefs
  <2>3. SaRef(b)' = 1
    BY <1>1, <1>3, <1>10 DEF SaRef
  <2>4. L4Ref(b) \in {0, 1} /\ L4Ref(b)' = L4Ref(b)
    BY <1>1, <1>7, <1>10, RefTypes
  <2> QED
    BY <1>0, <1>7, <1>8, <1>10, <2>1, <2>2, <2>3, <2>4, ExactLocal DEF SpaceLeft
<1> QED
  BY <1>0, <1>9, <1>10

(* A session task gives back the reference it has dequeued, and makes space. *)
LEMMA ExactWork ==
  ASSUME IInv, NEW t \in RxTask, Exactly(t), SpaceLeft(t), NEW p \in Queue, WorkStep(p)
  PROVE  Exactly(t)' /\ SpaceLeft(t)'
<1> USE ConstantsAssumption
<1>0. UNCHANGED <<ptype, rxpc, rxbuf, rxq>>
  BY DEF WorkStep, Pop, PopCopy, HandleCopy, HandleInPlace, Rx
<1>1. \A m \in Mbuf : RxRefs(t, m)' = RxRefs(t, m)
  BY <1>0 DEF RxRefs
<1>2. CASE Pop(p)
  <2>1. \A q \in Queue, m \in Mbuf : Holds(q, m)' <=> Holds(q, m)
    BY <1>2, HoldsPop DEF IInv
  <2>2. \A m \in Mbuf : L4Ref(m)' = L4Ref(m) /\ SaRef(m)' = SaRef(m)
    BY <2>1 DEF L4Ref, SaRef, Queue
  <2>3. refcnt' = refcnt
    BY <1>2 DEF Pop
  <2>4. ring[p] \in Seq(Mbuf) /\ ring[p] # <<>> /\ ring' = [ring EXCEPT ![p] = Tail(ring[p])]
    BY <1>2 DEF Pop, IInv, TypeOK
  <2>5. Len(ring'[p]) \in Nat /\ Len(ring[p]) \in Nat /\ Len(ring'[p]) < Len(ring[p])
    BY <2>4, HeadTailProperties DEF IInv, TypeOK
  <2>6. \A q \in Queue : q # p => ring'[q] = ring[q]
    BY <2>4 DEF IInv, TypeOK
  <2>7. \A q \in Queue : ~Full(q) => ~Full(q)'
    BY <2>5, <2>6 DEF Full
  <2>8. rxpc[t] \in {"l4enq", "saenq"} => rxq[t] \in Queue
    BY DEF IInv, PcInv, Queue
  <2>9. SpaceLeft(t)'
    BY <1>0, <2>7, <2>8 DEF SpaceLeft, Full
  <2> QED
    BY <1>1, <2>2, <2>3, <2>9 DEF Exactly
<1>3. CASE PopCopy(p) \/ HandleInPlace(p)
  <2>1. /\ wkpc[p] = "popped" /\ Free(wkbuf[p]) /\ ring' = ring
        /\ wkbuf' = [wkbuf EXCEPT ![p] = NoBuf]
    BY <1>3 DEF PopCopy, HandleInPlace
  <2> PICK b \in Mbuf : b = wkbuf[p]
    BY <2>1 DEF IInv, PcInv, TypeOK
  <2>2. \A q \in Queue, m \in Mbuf : Holds(q, m)' <=> Holds(q, m) /\ ~(q = p /\ m = b)
    BY <2>1, HoldsRelease DEF IInv
  <2>3. Holds(p, b)
    BY DEF Holds
  <2>4. \A m \in Mbuf \ {b} : L4Ref(m)' = L4Ref(m) /\ SaRef(m)' = SaRef(m)
    BY <2>2 DEF L4Ref, SaRef, Queue
  <2>5. /\ L4Ref(b) \in {0, 1} /\ SaRef(b) \in {0, 1} /\ RxRefs(t, b) \in 0..2
        /\ refcnt[b] = RxRefs(t, b) + L4Ref(b) + SaRef(b)
    BY RefTypes DEF Exactly
  <2>6. L4Ref(b) + SaRef(b) > 0 /\ L4Ref(b)' + SaRef(b)' = L4Ref(b) + SaRef(b) - 1
    <3>1. CASE p \in L4Queue
      <4>1. L4Ref(b) = 1 /\ SaRef(b)' = SaRef(b)
        BY <2>2, <2>3, <3>1 DEF L4Ref, SaRef, Queue
      <4>2. L4Ref(b)' = 0
        BY <2>2, <2>3, <3>1 DEF L4Ref, IInv, QueueUnique, Queue
      <4> QED
        BY <2>5, <4>1, <4>2
    <3>2. CASE p \in SaQueue
      <4>1. SaRef(b) = 1 /\ L4Ref(b)' = L4Ref(b)
        BY <2>2, <2>3, <3>2 DEF L4Ref, SaRef, Queue
      <4>2. SaRef(b)' = 0
        BY <2>2, <2>3, <3>2 DEF SaRef, IInv, QueueUnique, Queue
      <4> QED
        BY <2>5, <4>1, <4>2
    <3> QED
      BY <3>1, <3>2 DEF Queue
  <2>7. refcnt[b] > 0
    BY <2>5, <2>6
  <2>8. refcnt'[b] = refcnt[b] - 1 /\ \A m \in Mbuf \ {b} : refcnt'[m] = refcnt[m]
    BY <2>1, <2>7, FreeOne DEF IInv
  <2>9. refcnt'[b] = RxRefs(t, b)' + L4Ref(b)' + SaRef(b)'
    <3>1. L4Ref(b)' \in {0, 1} /\ SaRef(b)' \in {0, 1}
      BY RefTypes
    <3> QED
      BY <1>1, <2>5, <2>6, <2>8, <3>1
  <2>10. SpaceLeft(t)'
    BY <1>0, <2>1 DEF SpaceLeft, Full
  <2> QED
    BY <1>1, <2>4, <2>8, <2>9, <2>10 DEF Exactly
<1>4. CASE HandleCopy(p)
  <2>1. UNCHANGED <<refcnt, ring, wkbuf>>
    BY <1>4 DEF HandleCopy
  <2>2. \A m \in Mbuf : L4Ref(m)' = L4Ref(m) /\ SaRef(m)' = SaRef(m)
    BY <2>1, HoldsUnchanged DEF IInv
  <2> QED
    BY <1>0, <1>1, <2>1, <2>2 DEF Exactly, SpaceLeft, Full
<1> QED
  BY <1>2, <1>3, <1>4 DEF WorkStep

(* A fresh buffer comes with the one reference of the task. *)
LEMMA ExactBurst ==
  ASSUME IInv, NEW t \in RxTask, Exactly(t), NEW b \in Mbuf, NEW type \in PktType,
         NEW c \in Chains, RxBurst(t, b, type, c)
  PROVE  Exactly(t)' /\ SpaceLeft(t)'
<1> USE ConstantsAssumption
<1>1. \A m \in Mbuf : L4Ref(m)' = L4Ref(m) /\ SaRef(m)' = SaRef(m)
  BY HoldsUnchanged DEF RxBurst, Work, IInv
<1>2. rxbuf[t] = NoBuf /\ rxbuf'[t] = b /\ rxpc'[t] = "recv"
  BY DEF RxBurst, IInv, PcInv, TypeOK
<1>3. refcnt[b] = 0 /\ refcnt'[b] = 1 /\ \A m \in Mbuf \ {b} : refcnt'[m] = refcnt[m]
  BY DEF RxBurst, IInv, TypeOK
<1>4. /\ \A m \in Mbuf : RxRefs(t, m) = 0
      /\ RxRefs(t, b)' = 1 /\ \A m \in Mbuf \ {b} : RxRefs(t, m)' = 0
  BY <1>2 DEF RxRefs
<1>5. L4Ref(b) = 0 /\ SaRef(b) = 0
  BY <1>3, <1>4, RefTypes DEF Exactly
<1>6. Exactly(t)'
  BY <1>1, <1>3, <1>4, <1>5 DEF Exactly
<1> QED
  BY <1>2, <1>6 DEF SpaceLeft

(* No reference is lost with one receive task, for any rings and buffers: a  *)
(* put that reports success has enqueued the packet, and the reference of    *)
(* one that failed is dropped (_pkt_handle).  With two tasks this is false.  *)
THEOREM NoLeakOneTask ==
  ASSUME NEW t, RxTask = {t}
  PROVE  Spec => []NoLeak
<1> DEFINE Exact == IInv /\ Exactly(t) /\ SpaceLeft(t)
<1>0. t \in RxTask
  OBVIOUS
<1>1. Init => Exact
  <2> SUFFICES ASSUME Init PROVE Exactly(t) /\ SpaceLeft(t)
    BY InitIInv
  <2>1. \A m \in Mbuf : RxRefs(t, m) = 0
    BY <1>0, ConstantsAssumption DEF Init, RxRefs
  <2>2. \A q \in Queue, m \in Mbuf : ~Holds(q, m)
    BY ConstantsAssumption DEF Init, Holds, Elems
  <2>3. \A m \in Mbuf : L4Ref(m) = 0 /\ SaRef(m) = 0
    BY <2>2 DEF L4Ref, SaRef, Queue
  <2> QED
    BY <1>0, <2>1, <2>3 DEF Init, Exactly, SpaceLeft
<1>2. Exact /\ [Next]_vars => Exact'
  <2> SUFFICES ASSUME Exact, [Next]_vars PROVE Exactly(t)' /\ SpaceLeft(t)'
    BY NextIInv
  <2>1. ASSUME NEW m \in Mbuf, NEW type \in PktType, NEW c \in Chains, RxBurst(t, m, type, c)
        PROVE  Exactly(t)' /\ SpaceLeft(t)'
    BY <1>0, <2>1, ExactBurst
  <2>2. CASE RxStep(t)
    <3>1. CASE PutEnqueueSa(t) \/ \E s \in Queue : PutEnqueueL4(t, s)
      BY <1>0, <3>1, ExactEnqueue
    <3>2. CASE ~(PutEnqueueSa(t) \/ \E s \in Queue : PutEnqueueL4(t, s))
      <4>1. UNCHANGED <<ring, Work>> /\ rxpc[t] \notin {"l4enq", "saenq"}
        BY <2>2, <3>2 DEF RxStep, RxDrop, RxAcceptL4, RxAcceptOther, PutFullL4, PutHasSpace,
                          PutFullSa
      <4> QED
        BY <1>0, <2>2, <4>1, ExactRx
    <3> QED
      BY <3>1, <3>2
  <2>3. ASSUME NEW q \in Queue, WorkStep(q) PROVE Exactly(t)' /\ SpaceLeft(t)'
    BY <1>0, <2>3, ExactWork
  <2>4. CASE UNCHANGED vars
    BY <2>4 DEF vars, Exactly, SpaceLeft, Full, RxRefs, L4Ref, SaRef, Holds
  <2> QED
    BY <2>1, <2>2, <2>3, <2>4 DEF Next
<1>3. Exact => NoLeak
  <2> SUFFICES ASSUME Exact, NEW m \in Mbuf PROVE refcnt[m] = Refs(m)
    BY DEF NoLeak
  <2> DEFINE holder == {u \in RxTask : rxbuf[u] = m}
  <2>0. /\ refcnt[m] = RxRefs(t, m) + L4Ref(m) + SaRef(m)
        /\ RxRefs(t, m) \in 0..2 /\ L4Ref(m) \in {0, 1} /\ SaRef(m) \in {0, 1}
    BY <1>0, RefTypes DEF Exactly
  <2>1. CASE rxbuf[t] # m
    <3>1. holder = {} /\ RxRefs(t, m) = 0
      BY <2>1 DEF RxRefs
    <3>2. Refs(m) = L4Ref(m) + SaRef(m) + 0
      BY <3>1 DEF Refs
    <3> QED
      BY <2>0, <3>1, <3>2
  <2>2. CASE rxbuf[t] = m
    <3>1. holder = {t} /\ (CHOOSE u \in holder : TRUE) = t
      BY <2>2
    <3>2. Refs(m) = L4Ref(m) + SaRef(m) + RxRefs(t, m)
      BY <3>1 DEF Refs
    <3> QED
      BY <2>0, <3>2
  <2> QED
    BY <2>1, <2>2
<1> QED
  BY <1>1, <1>2, <1>3, PTL DEF Spec
=============================================================================
