------------------------------- MODULE TcpHosts -------------------------------
(***************************************************************************)
(* The two hosts of a TCP connection and the network between them, as the  *)
(* environment of the modules that watch the connection: packets are       *)
(* reordered, lost and repeated.  What a host acknowledges has reached it. *)
(* A packet passes the tap before the network may lose it; one that is     *)
(* lost on its way to the tap (Missed) reaches nobody.                     *)
(***************************************************************************)
EXTENDS Integers, Sequences, FiniteSetsExt

CONSTANTS ReqLen, ResLen,   \* bytes the client and the server send
          ReqIsn, ResIsn,   \* their initial sequence numbers
          MaxSeg,           \* longest payload
          DataFin           \* a FIN may come with data

VARIABLES hs,    \* progress of the handshake (see Syn and SynAck)
          snt,   \* what the hosts have sent: all bytes, those that passed the tap
          rcv    \* what has reached the other host

network == <<hs, snt, rcv>>

Dirs == {"req", "res"}
Other(d) == IF d = "req" THEN "res" ELSE "req"
StreamLength(d) == IF d = "req" THEN ReqLen ELSE ResLen
\* The sequence number of the first byte of a direction.
FirstSeq(d) == (IF d = "req" THEN ReqIsn ELSE ResIsn) + 1

\* The first byte from n on that is not held.
FirstGap(held, n) == Min({m \in n .. Max(held \cup {n}) + 1 : m \notin held})

HostInit ==
    /\ hs = 0
    /\ snt = [d \in Dirs |-> [all |-> {}, bytes |-> {}, rst |-> FALSE]]
    /\ rcv = [d \in Dirs |-> [bytes |-> {}, fin |-> FALSE]]

\* How far direction d has been received without a gap; a FIN counts as one.
Received(d) == LET n == FirstGap(rcv[d].bytes, 0)
               IN  IF n = StreamLength(d) /\ rcv[d].fin THEN n + 1 ELSE n

Packet(d, kind, seq, len, fin, rst, ack) ==
    [dir |-> d, kind |-> kind, seq |-> seq, len |-> len, fin |-> fin, rst |-> rst, ack |-> ack]

(***************************************************************************)
(* The steps of the hosts.  Handle(p) is what the program behind the tap   *)
(* does with packet p.                                                     *)
(***************************************************************************)
\* The client sends its SYN, for the first time or again; hs = 2: it has arrived.
Syn(Handle(_)) ==
    /\ hs < 3
    /\ hs' \in {Max({hs, 1}), 2}
    /\ UNCHANGED <<snt, rcv>>
    /\ Handle(Packet("req", "syn", ReqIsn, 0, FALSE, FALSE, 0))

\* The server sends its SYN/ACK; hs = 3: it has arrived.
SynAck(Handle(_)) ==
    /\ hs \in {2, 3}
    /\ hs' \in {hs, 3}
    /\ UNCHANGED <<snt, rcv>>
    /\ Handle(Packet("res", "synack", ResIsn, 0, FALSE, FALSE, FirstSeq("req")))

\* The client may send once it has the SYN/ACK, the server once it has heard from the
\* client again (hs = 4).
MaySend(d) == hs >= (IF d = "req" THEN 3 ELSE 4) /\ ~snt[d].rst

Arrived(d) == hs' = IF d = "req" THEN 4 ELSE hs

Header(d, s, n, fin, rst) ==
    Packet(d, "seg", FirstSeq(d) + s, n, fin, rst, FirstSeq(Other(d)) + Received(Other(d)))

\* Host d may send n bytes from byte s on, new or not; a FIN comes after all data.
CanSend(d, s, n, fin) ==
    /\ MaySend(d)
    /\ s + n <= StreamLength(d)
    /\ fin => /\ s + n = StreamLength(d)
              /\ 0 .. s - 1 \subseteq snt[d].all
              /\ n > 0 => DataFin
    /\ ~fin /\ n = 0 => s = FirstGap(snt[d].all, 0)   \* an acknowledgement

Segment(d, s, n, fin, Handle(_)) ==
    LET bytes == s .. s + n - 1
    IN  /\ CanSend(d, s, n, fin)
        /\ snt' = [snt EXCEPT ![d].all = @ \cup bytes, ![d].bytes = @ \cup bytes]
        /\ \/ UNCHANGED <<hs, rcv>>                         \* lost
           \/ /\ rcv' = [rcv EXCEPT ![d].bytes = @ \cup bytes, ![d].fin = @ \/ fin]
              /\ Arrived(d)
        /\ Handle(Header(d, s, n, fin, FALSE))

\* Data that never reaches the tap.
Missed(d, s, n) ==
    /\ n > 0
    /\ CanSend(d, s, n, FALSE)
    /\ snt' = [snt EXCEPT ![d].all = @ \cup s .. s + n - 1]
    /\ UNCHANGED <<hs, rcv>>

\* Host d resets the connection and sends nothing more.
Reset(d, Handle(_)) ==
    /\ MaySend(d)
    /\ snt' = [snt EXCEPT ![d].rst = TRUE]
    /\ UNCHANGED <<hs, rcv>>
    /\ Handle(Header(d, FirstGap(snt[d].all, 0), 0, FALSE, TRUE))

HostNext(Handle(_)) ==
    \/ Syn(Handle)
    \/ SynAck(Handle)
    \/ \E d \in Dirs, s \in 0 .. ReqLen + ResLen, n \in 0 .. MaxSeg, fin \in BOOLEAN :
          Segment(d, s, n, fin, Handle)
    \/ \E d \in Dirs : Reset(d, Handle)
=============================================================================
