---------------------------- MODULE PacketDispatch ----------------------------
(***************************************************************************)
(* The life of a packet buffer (an rte_mbuf) between the packet receive    *)
(* tasks of PDispatcher, the rings of the process interface (MProcess) and *)
(* the session tasks of TCPMain, UDPMain and SAMain, which are separate    *)
(* processes sharing the buffers.                                          *)
(*                                                                         *)
(* A receive task gives a TCP or UDP packet to two processes: it sets the  *)
(* reference count of the buffer to 2, puts the packet into a ring of the  *)
(* TCP (UDP) process and then into a ring of the SA process.  Whoever is   *)
(* done with the packet calls rte_pktmbuf_free, which drops one reference. *)
(* A put tests the ring for space and enqueues as two steps, ignoring the  *)
(* result of the enqueue.                                                  *)
(***************************************************************************)
EXTENDS Naturals, Sequences

CONSTANTS
  RxTask,      \* the packet receive tasks, one per core
  Mbuf,        \* the packet buffers of the mempool
  TcpQueue,    \* the rings read by the TCP session tasks
  UdpQueue,    \* the rings read by the UDP session tasks
  SaQueue,     \* the rings read by the SA session tasks
  CopyQueue,   \* the rings whose reader was created with is_pkt_copy
  RingSize,    \* the number of packets a ring can hold
  IsFromPcap,  \* pdcontext->is_from_pcap: a put waits for space in the ring
  Chains,      \* the shapes of received packets: "single", "chained"
  NoBuf, NoQueue

L4Queue == TcpQueue \cup UdpQueue
Queue   == L4Queue \cup SaQueue
PktType == {"tcp", "udp", "other"}
Chain   == {"single", "chained", "dangling"}
RxPc    == {"idle", "recv", "l4put", "l4enq", "saput", "saenq"}
WorkPc  == {"idle", "popped", "copied"}

ASSUME ConstantsAssumption ==
  /\ TcpQueue # {} /\ UdpQueue # {} /\ SaQueue # {}
  /\ L4Queue \cap SaQueue = {}
  /\ TcpQueue \cap UdpQueue = {}
  /\ RingSize \in Nat \ {0}
  /\ IsFromPcap \in BOOLEAN
  /\ Chains \in SUBSET {"single", "chained"}
  /\ NoBuf \notin Mbuf
  /\ NoQueue \notin Queue

VARIABLES
  refcnt,   \* references of the first segment; 0: the buffer is in the mempool
  chain,    \* "dangling": segments after the first went back to the mempool
  ptype,    \* pkt->pkt_type
  ring,     \* the rte_ring of every queue
  rxpc,     \* where a receive task stands in _pkt_handle
  rxbuf,    \* the buffer a receive task is handling
  rxq,      \* the queue selected by the put in progress
  wkpc,     \* where the session task reading a queue stands
  wkbuf     \* the buffer that session task has dequeued and not yet freed

vars == <<refcnt, chain, ptype, ring, rxpc, rxbuf, rxq, wkpc, wkbuf>>

-----------------------------------------------------------------------------
(* The elements of a ring. *)
Elems(s) == {s[i] : i \in 1..Len(s)}

(* rte_ring_full and rte_ring_enqueue on a multi-producer ring. *)
Full(q) == Len(ring[q]) >= RingSize

Enqueue(q, m) ==
  ring' = IF Full(q) THEN ring ELSE [ring EXCEPT ![q] = Append(@, m)]

(* Faulty variant, for mutation: the buffer is freed twice. *)
Free_Twice(m) ==
  /\ refcnt' = [refcnt EXCEPT ![m] = @ - 2]
  /\ UNCHANGED chain

(* rte_pktmbuf_free: every segment of the chain loses a reference, and only *)
(* the first one was given two.                                             *)
Free(m) ==
  /\ refcnt' = [refcnt EXCEPT ![m] = @ - 1]
  /\ chain' = [chain EXCEPT ![m] =
                 IF @ = "chained" /\ refcnt[m] > 1 THEN "dangling" ELSE @]

(* The queues ch_process_interface_put can select for a packet type. *)
QueuesOf(type) == IF type = "tcp" THEN TcpQueue ELSE UdpQueue

Init ==
  /\ refcnt = [m \in Mbuf |-> 0]
  /\ chain = [m \in Mbuf |-> "single"]
  /\ ptype = [m \in Mbuf |-> "other"]
  /\ ring = [q \in Queue |-> <<>>]
  /\ rxpc = [t \in RxTask |-> "idle"]
  /\ rxbuf = [t \in RxTask |-> NoBuf]
  /\ rxq = [t \in RxTask |-> NoQueue]
  /\ wkpc = [q \in Queue |-> "idle"]
  /\ wkbuf = [q \in Queue |-> NoBuf]

-----------------------------------------------------------------------------
(* Receive tasks. *)

Work == <<wkpc, wkbuf>>

(* rte_eth_rx_burst hands a fresh buffer to the task; parsing gives its type. *)
RxBurst(t, m, type, c) ==
  /\ rxpc[t] = "idle"
  /\ refcnt[m] = 0
  /\ refcnt' = [refcnt EXCEPT ![m] = 1]
  /\ chain' = [chain EXCEPT ![m] = c]
  /\ ptype' = [ptype EXCEPT ![m] = type]
  /\ rxpc' = [rxpc EXCEPT ![t] = "recv"]
  /\ rxbuf' = [rxbuf EXCEPT ![t] = m]
  /\ UNCHANGED <<ring, rxq, Work>>

RxDone(t) ==
  /\ rxpc' = [rxpc EXCEPT ![t] = "idle"]
  /\ rxbuf' = [rxbuf EXCEPT ![t] = NoBuf]
  /\ rxq' = [rxq EXCEPT ![t] = NoQueue]

(* The packet does not parse, or a filter rule passes it over. *)
RxDrop(t) ==
  /\ rxpc[t] = "recv"
  /\ Free(rxbuf[t])
  /\ RxDone(t)
  /\ UNCHANGED <<ptype, ring, Work>>

(* The start of a put: the hash of the packet selects queue q. *)
PutBegin(t, pc, q) ==
  /\ rxpc' = [rxpc EXCEPT ![t] = pc]
  /\ rxq' = [rxq EXCEPT ![t] = q]

(* Faulty variant, for mutation: the reference count is left at 1. *)
RxAcceptL4_NoRefCountSet(t, q) ==
  /\ rxpc[t] = "recv"
  /\ ptype[rxbuf[t]] \in {"tcp", "udp"}
  /\ q \in QueuesOf(ptype[rxbuf[t]])
  /\ PutBegin(t, "l4put", q)
  /\ UNCHANGED <<refcnt, chain, ptype, ring, rxbuf, Work>>

(* ch_packet_ref_count_set(pkt,2), then the put to the TCP or UDP process. *)
RxAcceptL4(t, q) ==
  /\ rxpc[t] = "recv"
  /\ ptype[rxbuf[t]] \in {"tcp", "udp"}
  /\ q \in QueuesOf(ptype[rxbuf[t]])
  /\ refcnt' = [refcnt EXCEPT ![rxbuf[t]] = 2]
  /\ PutBegin(t, "l4put", q)
  /\ UNCHANGED <<chain, ptype, ring, rxbuf, Work>>

(* A packet of another type only goes to the SA process. *)
RxAcceptOther(t, q) ==
  /\ rxpc[t] = "recv"
  /\ ptype[rxbuf[t]] = "other"
  /\ q \in SaQueue
  /\ PutBegin(t, "saput", q)
  /\ UNCHANGED <<refcnt, chain, ptype, ring, rxbuf, Work>>

(* The put found space.  From a pcap file it repeats the test until it does. *)
PutHasSpace(t) ==
  /\ rxpc[t] \in {"l4put", "saput"}
  /\ ~Full(rxq[t])
  /\ rxpc' = [rxpc EXCEPT ![t] = IF @ = "l4put" THEN "l4enq" ELSE "saenq"]
  /\ UNCHANGED <<refcnt, chain, ptype, ring, rxbuf, rxq, Work>>

(* The put found the ring full and failed: the caller drops the reference. *)
PutFullL4(t, q) ==
  /\ rxpc[t] = "l4put" /\ ~IsFromPcap
  /\ Full(rxq[t])
  /\ q \in SaQueue
  /\ Free(rxbuf[t])
  /\ PutBegin(t, "saput", q)
  /\ UNCHANGED <<ptype, ring, rxbuf, Work>>

(* Faulty variant, for mutation: the failed put keeps its reference. *)
PutFullSa_NoFree(t) ==
  /\ rxpc[t] = "saput" /\ ~IsFromPcap
  /\ Full(rxq[t])
  /\ RxDone(t)
  /\ UNCHANGED <<refcnt, chain, ptype, ring, Work>>

PutFullSa(t) ==
  /\ rxpc[t] = "saput" /\ ~IsFromPcap
  /\ Full(rxq[t])
  /\ Free(rxbuf[t])
  /\ RxDone(t)
  /\ UNCHANGED <<ptype, ring, Work>>

(* rte_ring_enqueue, whose result is ignored: the put returns 0. *)
PutEnqueueL4(t, q) ==
  /\ rxpc[t] = "l4enq"
  /\ q \in SaQueue
  /\ Enqueue(rxq[t], rxbuf[t])
  /\ PutBegin(t, "saput", q)
  /\ UNCHANGED <<refcnt, chain, ptype, rxbuf, Work>>

PutEnqueueSa(t) ==
  /\ rxpc[t] = "saenq"
  /\ Enqueue(rxq[t], rxbuf[t])
  /\ RxDone(t)
  /\ UNCHANGED <<refcnt, chain, ptype, Work>>

-----------------------------------------------------------------------------
(* The session task reading queue q. *)

Rx == <<ptype, rxpc, rxbuf, rxq>>

(* ch_process_queue_pop: the dequeue. *)
Pop(q) ==
  /\ wkpc[q] = "idle"
  /\ ring[q] # <<>>
  /\ ring' = [ring EXCEPT ![q] = Tail(@)]
  /\ wkpc' = [wkpc EXCEPT ![q] = "popped"]
  /\ wkbuf' = [wkbuf EXCEPT ![q] = Head(ring[q])]
  /\ UNCHANGED <<refcnt, chain, Rx>>

IsCopied(q) == q \in CopyQueue \/ chain[wkbuf[q]] # "single"

(* Faulty variant, for mutation: the copied packet is not freed. *)
PopCopy_NoFree(q) ==
  /\ wkpc[q] = "popped"
  /\ IsCopied(q)
  /\ wkpc' = [wkpc EXCEPT ![q] = "copied"]
  /\ wkbuf' = [wkbuf EXCEPT ![q] = NoBuf]
  /\ UNCHANGED <<refcnt, chain, ring, Rx>>

(* ch_packets_copy into the buffer of the queue, then ch_packet_free. *)
PopCopy(q) ==
  /\ wkpc[q] = "popped"
  /\ IsCopied(q)
  /\ Free(wkbuf[q])
  /\ wkpc' = [wkpc EXCEPT ![q] = "copied"]
  /\ wkbuf' = [wkbuf EXCEPT ![q] = NoBuf]
  /\ UNCHANGED <<ring, Rx>>

(* The task handles the copy, whose is_free is 1: nothing to free. *)
HandleCopy(q) ==
  /\ wkpc[q] = "copied"
  /\ wkpc' = [wkpc EXCEPT ![q] = "idle"]
  /\ UNCHANGED <<refcnt, chain, ring, wkbuf, Rx>>

(* The task handles the packet in place, then frees it. *)
HandleInPlace(q) ==
  /\ wkpc[q] = "popped"
  /\ ~IsCopied(q)
  /\ Free(wkbuf[q])
  /\ wkpc' = [wkpc EXCEPT ![q] = "idle"]
  /\ wkbuf' = [wkbuf EXCEPT ![q] = NoBuf]
  /\ UNCHANGED <<ring, Rx>>

-----------------------------------------------------------------------------
RxStep(t) ==
  \/ RxDrop(t)
  \/ \E q \in Queue : RxAcceptL4(t, q) \/ RxAcceptOther(t, q)
                        \/ PutFullL4(t, q) \/ PutEnqueueL4(t, q)
  \/ PutHasSpace(t) \/ PutFullSa(t) \/ PutEnqueueSa(t)

WorkStep(q) == Pop(q) \/ PopCopy(q) \/ HandleCopy(q) \/ HandleInPlace(q)

Next ==
  \/ \E t \in RxTask, m \in Mbuf, type \in PktType, c \in Chains :
       RxBurst(t, m, type, c)
  \/ \E t \in RxTask : RxStep(t)
  \/ \E q \in Queue : WorkStep(q)

Spec == Init /\ [][Next]_vars

(* Every task is a loop on a core of its own (ch_core_pool_bind_task), so a  *)
(* task that can step does; packets need not arrive.                         *)
FairSpec ==
  /\ Spec
  /\ \A t \in RxTask : WF_vars(RxStep(t))
  /\ \A q \in Queue : WF_vars(WorkStep(q))

-----------------------------------------------------------------------------
(* Properties. *)

TypeOK ==
  /\ refcnt \in [Mbuf -> Nat]
  /\ chain \in [Mbuf -> Chain]
  /\ ptype \in [Mbuf -> PktType]
  /\ ring \in [Queue -> Seq(Mbuf)]
  /\ rxpc \in [RxTask -> RxPc]
  /\ rxbuf \in [RxTask -> Mbuf \cup {NoBuf}]
  /\ rxq \in [RxTask -> Queue \cup {NoQueue}]
  /\ wkpc \in [Queue -> WorkPc]
  /\ wkbuf \in [Queue -> Mbuf \cup {NoBuf}]

(* Queue q, or the session task reading it, has a reference to m. *)
Holds(q, m) == m \in Elems(ring[q]) \/ wkbuf[q] = m

(* The references to m that receive task t still has to hand on or drop. *)
RxRefs(t, m) ==
  IF rxbuf[t] # m THEN 0
  ELSE IF rxpc[t] \in {"l4put", "l4enq"} THEN 2 ELSE 1

L4Ref(m) == IF \E q \in L4Queue : Holds(q, m) THEN 1 ELSE 0
SaRef(m) == IF \E q \in SaQueue : Holds(q, m) THEN 1 ELSE 0

(* All references to m; at most one receive task has the buffer. *)
Refs(m) ==
  LET holder == {t \in RxTask : rxbuf[t] = m}
  IN  L4Ref(m) + SaRef(m)
        + (IF holder = {} THEN 0 ELSE RxRefs(CHOOSE t \in holder : TRUE, m))

(* A buffer that a receive task, a ring or a session task still refers to is *)
(* never in the mempool, and nobody's free takes the reference of somebody   *)
(* else: ch_packet_free in the rx task, the copy in ch_process_queue_pop and *)
(* the free after handling never outnumber the references.                   *)
RefSafe == \A m \in Mbuf : Refs(m) <= refcnt[m]

(* No reference is lost: a buffer nobody refers to is back in the mempool.   *)
(* _pkt_handle frees the reference of a put that failed (the comment says    *)
(* "error"), so a put that returns 0 must have enqueued the packet.          *)
NoLeak == \A m \in Mbuf : refcnt[m] = Refs(m)

(* The segments of a chained packet are not in the mempool while a session   *)
(* task is still going to copy them (ch_packets_copy walks the chain).       *)
ChainAlive ==
  \A m \in Mbuf : (\E q \in Queue : Holds(q, m)) => chain[m] # "dangling"

(* Every received buffer goes back to the mempool, whatever the rings and    *)
(* the session tasks do with it.                                             *)
AllReturned == \A m \in Mbuf : refcnt[m] > 0 ~> refcnt[m] = 0

=============================================================================
