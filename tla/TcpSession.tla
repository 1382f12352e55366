------------------------------ MODULE TcpSession ------------------------------
(***************************************************************************)
(* The life of one TCP connection in TCPMain: from the packets of the      *)
(* three-way handshake (tcp/session/ch_tcp_session_request_handler.c) over *)
(* the data of both directions to the four-way close                       *)
(* (ch_tcp_session_handler.c), as a session task sees it.                  *)
(*                                                                         *)
(* The connection itself is the environment (TcpHosts).  The reassembly of *)
(* a direction is abstracted to the set of bytes held (TcpReassembly shows *)
(* the fragments behind it).                                               *)
(***************************************************************************)
EXTENDS TcpHosts

ASSUME SessionAssumption ==
    /\ ReqLen \in Nat /\ ResLen \in Nat /\ ReqIsn \in Nat /\ ResIsn \in Nat
    /\ MaxSeg \in Nat /\ DataFin \in BOOLEAN

None == [none |-> TRUE]   \* no request, no session

VARIABLES
    sreq,    \* the session request of the connection, or None
    sess,    \* its session, or None
    fed,     \* fed[d]: last_offset of direction d, kept when the session is gone
    ended    \* why _tcp_session_close was called on the session, call by call

monitor == <<sreq, sess, fed, ended>>
vars == <<monitor, network>>

Init ==
    /\ sreq = None /\ sess = None
    /\ fed = [d \in Dirs |-> 0]
    /\ ended = <<>>
    /\ HostInit

(***************************************************************************)
(* A session, and ch_tcp_session_packet_handle.                            *)
(***************************************************************************)
NewEndpoint == [last_offset |-> 0, held |-> {}, last_ack |-> 0]

NewSession(req) ==
    [state |-> "INIT", four_way |-> "INIT", fin1_seq |-> 0, fin2_seq |-> 0,
     init_seq |-> [d \in Dirs |-> IF d = "req" THEN req.req_sn_init ELSE req.res_sn_init],
     ep |-> [d \in Dirs |-> NewEndpoint]]

Over(s) == s.state \in {"FIN", "RST"}

\* _set_tcp_state
SetState(s, p) ==
    IF Over(s) THEN s
    ELSE [s EXCEPT !.state = IF p.len > 0 THEN "DATA" ELSE IF p.fin THEN "FIN"
                             ELSE IF p.rst THEN "RST" ELSE @]

\* Faulty variant of UpdateAck, for mutation: also after a FIN, which counts as one.
UpdateAck_AfterFin(s, p) ==
    LET o == Other(p.dir)
    IN  [s EXCEPT !.ep[o].last_ack = Max({@, p.ack - s.init_seq[o]})]

\* _need_update_last_ack and _update_last_ack
UpdateAck(s, p) ==
    LET o == Other(p.dir)
    IN  IF Over(s) \/ p.fin \/ p.rst THEN s
        ELSE [s EXCEPT !.ep[o].last_ack = Max({@, p.ack - s.init_seq[o]})]

\* _is_need_ignore
Ignored(s, p) == p.len = 0 /\ ~Over(s)

\* The outcomes of _process_data_packet: the session, the bytes handed to the parser
\* and the reasons for which the session was closed.
ProcessData(s, p) ==
    LET d    == p.dir
        ep   == s.ep[d]
        off  == p.seq - s.init_seq[d]
        end  == off + p.len
        gap  == FirstGap(ep.held, end)
        Outcome(last, held, why) ==
            [s |-> [s EXCEPT !.ep[d].last_offset = last, !.ep[d].held = held], why |-> why]
    IN  CASE end <= ep.last_offset -> {Outcome(ep.last_offset, ep.held, <<>>)}
          [] end > ep.last_offset /\ off > ep.last_offset ->
               {Outcome(ep.last_offset, ep.held \cup (off .. end - 1), <<>>),
                Outcome(ep.last_offset, ep.held, <<"nomemory">>)}
          [] OTHER ->
               {Outcome(gap, {b \in ep.held : b > gap}, <<>>),
                Outcome(end, ep.held, <<"break">>)}

\* _process_fin_packet
ProcessFin(s, p) ==
    CASE s.four_way = "INIT" -> [s EXCEPT !.four_way = "FIN1", !.fin1_seq = p.seq]
      [] s.four_way \in {"FIN1", "FIN1_ACK"} ->
           [s EXCEPT !.four_way = "FIN2", !.fin2_seq = p.seq]
      [] OTHER -> s

\* Faulty variant of ProcessFlags, for mutation: the first FIN's ack closes the session.
ProcessFlags_HalfClose(o, p) ==
    LET s == o.s
    IN  CASE p.fin -> [o EXCEPT !.s = ProcessFin(s, p)]
          [] ~p.fin /\ p.rst -> [o EXCEPT !.why = Append(@, "rst")]
          [] ~p.fin /\ ~p.rst /\ p.ack = s.fin1_seq + 1 ->
               [o EXCEPT !.s.four_way = "FIN1_ACK", !.why = Append(@, "fourway")]
          [] OTHER -> o

\* What ch_tcp_session_packet_handle does after the data: o is the outcome so far.
ProcessFlags(o, p) ==
    LET s == o.s
    IN  CASE p.fin -> [o EXCEPT !.s = ProcessFin(s, p)]
          [] ~p.fin /\ p.rst -> [o EXCEPT !.why = Append(@, "rst")]
          [] ~p.fin /\ ~p.rst /\ p.ack = s.fin1_seq + 1 ->
               [o EXCEPT !.s.four_way = "FIN1_ACK"]
          [] ~p.fin /\ ~p.rst /\ p.ack # s.fin1_seq + 1 /\ p.ack = s.fin2_seq + 1 ->
               [o EXCEPT !.s.four_way = "FIN2_ACK", !.why = Append(@, "fourway")]
          [] OTHER -> o

\* Faulty variant of Discarded, for mutation: off by one.
Discarded_AtLimit(s, p) == s.ep[p.dir].last_ack >= s.ep[p.dir].last_offset

\* "some packet has been discard,then close session"
Discarded(s, p) == s.ep[p.dir].last_ack > s.ep[p.dir].last_offset

PacketHandle(s, p) ==
    IF p.len = 0 THEN {ProcessFlags([s |-> s, why |-> <<>>], p)}
    ELSE {IF Discarded(o.s, p) THEN [o EXCEPT !.why = Append(@, "discard")]
          ELSE ProcessFlags(o, p) : o \in ProcessData(s, p)}

\* _tcp_session_data_process
DataProcess(s0, p) ==
    \E s \in {UpdateAck(SetState(s0, p), p)} :
       \/ Ignored(s, p) /\ sess' = s /\ UNCHANGED <<fed, ended>>
       \/ /\ ~Ignored(s, p)
          /\ \E o \in PacketHandle(s, p) :
               /\ fed' = [d \in Dirs |-> o.s.ep[d].last_offset]
               /\ sess' = IF o.why = <<>> THEN o.s ELSE None
               /\ ended' = o.why

(***************************************************************************)
(* ch_tcp_session_request_packet_handle, for a packet of a known app.      *)
(***************************************************************************)
\* A packet that finds its session.
HandleSession(p) ==
    /\ sess # None /\ p.kind = "seg"
    /\ DataProcess(sess, p)
    /\ UNCHANGED sreq

\* "create a new tcp session request!"
HandleSyn(p) ==
    /\ p.kind = "syn"
    /\ \/ sreq = None /\ sreq' \in {None,   \* no entry left
                                    [state |-> "SYN", req_sn_init |-> p.seq + 1,
                                     res_sn_init |-> 0]}
       \/ sreq # None /\ UNCHANGED sreq     \* "this syn packet has been retransmited,"
    /\ UNCHANGED <<sess, fed, ended>>

HandleSynAck(p) ==
    /\ p.kind = "synack"
    /\ sreq' = IF sreq # None /\ sreq.state = "SYN"
               THEN [sreq EXCEPT !.state = "SYN_ACK", !.res_sn_init = p.seq + 1]
               ELSE sreq
    /\ UNCHANGED <<sess, fed, ended>>

\* _is_tcp_ack_ack_packet
IsAckAck(p) == sreq.state = "SYN_ACK" /\ p.ack = sreq.res_sn_init

\* Faulty variant of HandleFirstData, for mutation: the request is not freed.
HandleFirstData_KeepRequest(p) ==
    /\ p.kind = "seg" /\ sess = None /\ sreq # None
    /\ IsAckAck(p) \/ (sreq.state = "ACK_ACK" /\ ~p.rst)
    /\ p.len > 0
    /\ UNCHANGED sreq
    /\ DataProcess(NewSession(sreq), p)

\* The packet completes the handshake, or comes after it, and has data: the session
\* is created (if there is memory for it) and the request is freed in any case.
HandleFirstData(p) ==
    /\ p.kind = "seg" /\ sess = None /\ sreq # None
    /\ IsAckAck(p) \/ (sreq.state = "ACK_ACK" /\ ~p.rst)
    /\ p.len > 0
    /\ sreq' = None
    /\ \/ DataProcess(NewSession(sreq), p)
       \/ UNCHANGED <<sess, fed, ended>>

\* Faulty variant of HandleAckAck, for mutation: the data that comes with the last
\* packet of the handshake is not looked at.
HandleAckAck_NoData(p) ==
    /\ p.kind = "seg" /\ sess = None /\ sreq # None
    /\ IsAckAck(p)
    /\ sreq' = [sreq EXCEPT !.state = "ACK_ACK"]
    /\ UNCHANGED <<sess, fed, ended>>

HandleAckAck(p) ==
    /\ p.kind = "seg" /\ sess = None /\ sreq # None
    /\ IsAckAck(p) /\ p.len = 0
    /\ sreq' = [sreq EXCEPT !.state = "ACK_ACK"]
    /\ UNCHANGED <<sess, fed, ended>>

HandleRequestRst(p) ==
    /\ p.kind = "seg" /\ sess = None /\ sreq # None
    /\ ~IsAckAck(p) /\ p.rst
    /\ sreq' = None
    /\ UNCHANGED <<sess, fed, ended>>

\* Packets that are dropped: no request, or none of the above.
HandleDrop(p) ==
    /\ p.kind = "seg" /\ sess = None
    /\ \/ sreq = None
       \/ /\ sreq # None /\ ~IsAckAck(p) /\ ~p.rst
          /\ sreq.state # "ACK_ACK" \/ p.len = 0
    /\ UNCHANGED monitor

RequestPacketHandle(p) ==
    \/ HandleSession(p) \/ HandleSyn(p) \/ HandleSynAck(p) \/ HandleFirstData(p)
    \/ HandleAckAck(p) \/ HandleRequestRst(p) \/ HandleDrop(p)

\* The handler of every packet, of this or any other connection, ends by freeing what
\* the watch task has put into the timeout rings (PTable).
RequestTimeout == sreq # None /\ sreq' = None /\ UNCHANGED <<sess, fed, ended>>

SessionTimeout ==
    /\ sess # None
    /\ sess' = None
    /\ ended' = <<"timeout">>
    /\ UNCHANGED <<sreq, fed>>

Next ==
    \/ HostNext(RequestPacketHandle)
    \/ (RequestTimeout \/ SessionTimeout) /\ UNCHANGED network

Spec == Init /\ [][Next]_vars

(***************************************************************************)
(* Properties.                                                             *)
(***************************************************************************)
\* Type invariant: a connection has a request or a session, never both, and the
\* session knows the initial sequence numbers of the two hosts.
TypeOK ==
    /\ sreq = None \/ sess = None
    /\ sreq # None => /\ sreq.state \in {"SYN", "SYN_ACK", "ACK_ACK"}
                      /\ sreq.req_sn_init = FirstSeq("req")
                      /\ sreq.res_sn_init \in {0, FirstSeq("res")}
    /\ sess # None =>
          /\ sess.state \in {"INIT", "DATA", "FIN", "RST"}
          /\ sess.four_way \in {"INIT", "FIN1", "FIN1_ACK", "FIN2", "FIN2_ACK"}
          /\ \A d \in Dirs : /\ sess.init_seq[d] = FirstSeq(d)
                             /\ sess.ep[d].held \subseteq 0 .. StreamLength(d) - 1
                             /\ sess.ep[d].last_offset \in 0 .. StreamLength(d)
    /\ \A d \in Dirs : fed[d] \in 0 .. StreamLength(d)

\* While a connection has a session, the parser has been given all that the hosts have
\* sent up to the first gap, the data of the packets that ended the handshake included
\* (_three_way_handshake_process, _tcp_session_data_process).
Followed ==
    sess # None => \A d \in Dirs : fed[d] = FirstGap(snt[d].bytes, 0)

\* A session that is closed because the four-way close is over has been given all the
\* data of both hosts (_process_fin2_ack_packet).
ClosedComplete ==
    ended = <<"fourway">> => \A d \in Dirs : fed[d] = StreamLength(d)

\* "some packet has been discard,then close session" (ch_tcp_session_packet_handle):
\* no session is closed for this reason when the program has seen every packet.
NoFalseDiscard == \A i \in DOMAIN ended : ended[i] # "discard"

\* _tcp_session_close is called at most once for a session, although
\* ch_tcp_session_packet_handle goes on with the same packet after its data has closed
\* the session: out of memory, a parser that breaks off and a missed packet exclude
\* each other as long as every packet is seen.
ClosedOnce == Len(ended) <= 1
=============================================================================
