---------------------------- MODULE StreamAnalyze ----------------------------
(***************************************************************************)
(* A session task of SAMain (StreamAnalyze/): it keeps the first bytes of  *)
(* both directions of every TCP and UDP session in data stores, and writes *)
(* a record of a session when it ends.  One TCP connection, whose hosts    *)
(* are TcpHosts, and UDP sessions compete for the task's data stores.      *)
(*                                                                         *)
(* Fragments of a direction are the set of bytes held (AssembleFragment    *)
(* keeps them apart, so the one fragment popped reaches to the next gap).  *)
(* Packet and byte counts and times only go into the record and are left   *)
(* out; so is the filter that may keep the record back.                    *)
(***************************************************************************)
EXTENDS TcpHosts

CONSTANTS UdpKeys,       \* UDP sessions (pairs of addresses)
          UdpSizes,      \* lengths of their payloads
          MaxPlen,       \* payload_data_size
          MaxDsize,      \* MAX_DSIZE
          PreAlloc,      \* PRE_ALLOC_N
          DstoreLimits,  \* dstore_limits
          BreakDataOk    \* is_break_data_ok

ASSUME SAAssumption ==
    /\ "tcp" \notin UdpKeys /\ UdpSizes \subseteq Nat
    /\ MaxPlen \in Nat /\ MaxDsize \in Nat /\ PreAlloc \in Nat /\ DstoreLimits \in Nat
    /\ BreakDataOk \in BOOLEAN

NoSess == [none |-> TRUE]
NoStore == 0

VARIABLES
    sareq,    \* the session request of the connection, or NoSess
    sasess,   \* its session with the SA session entry, or NoSess
    usess,    \* usess[k]: the UDP session of k, or NoSess
    free,     \* dstore_free_list
    allac,    \* allac_dstore_n
    data,     \* data[i]: what has been written to store i, from start to pos
    out       \* what the connection's session was written out with, call by call

pool == <<free, allac, data>>
saVars == <<sareq, sasess, usess, pool, out>>

\* Stores are numbered as they are allocated; the limit is tested before one is added.
Stores == 1 .. Max({PreAlloc, DstoreLimits + 1})

SAInit ==
    /\ sareq = NoSess /\ sasess = NoSess
    /\ usess = [k \in UdpKeys |-> NoSess]
    /\ free = [i \in 1 .. PreAlloc |-> i]
    /\ allac = PreAlloc
    /\ data = [i \in Stores |-> <<>>]
    /\ out = <<>>

(***************************************************************************)
(* The data stores (ch_sa_data_store_pool.h).  A pool is a record with the *)
(* three fields of the variables.                                          *)
(***************************************************************************)
Pool == [free |-> free, allac |-> allac, data |-> data]
SetPool(dp) == free' = dp.free /\ allac' = dp.allac /\ data' = dp.data

\* ch_sa_data_store_get: the pool and the store, or NoStore.
StoreGet(dp) ==
    CASE dp.free # <<>> ->
           [dp |-> [dp EXCEPT !.free = Tail(@), !.data[Head(dp.free)] = <<>>], dst |-> Head(dp.free)]
      [] dp.free = <<>> /\ dp.allac <= DstoreLimits ->
           [dp |-> [dp EXCEPT !.allac = @ + 1], dst |-> dp.allac + 1]
      [] OTHER -> [dp |-> dp, dst |-> NoStore]

\* ch_sa_sentry_dstore_free and ch_sa_udp_session_dstore_free, for endpoints ep: the
\* request's store and then the response's, as far as there are any.
Used(dst) == IF dst = NoStore THEN <<>> ELSE <<dst>>

DstoreFree(dp, ep) ==
    [dp EXCEPT !.free = @ \o Used(ep["req"].dstore) \o Used(ep["res"].dstore),
               !.data = [i \in Stores |-> IF i \in {ep["req"].dstore, ep["res"].dstore}
                                          THEN <<>> ELSE dp.data[i]]]

DSize == Min({MaxPlen, MaxDsize})
DstoreSize(dp, dst) == IF dst = NoStore THEN 0 ELSE Len(dp.data[dst])

\* ch_sa_data_store_write
StoreWrite(dp, dst, bytes, n) ==
    [dp EXCEPT !.data[dst] = @ \o SubSeq(bytes, 1, Min({n, Len(bytes), DSize - Len(@)}))]

\* What _write_session_payload and _udp_data_write share: a store is got for the first
\* bytes, and no more than payload_data_size is kept.
WritePayload(dp, ep, bytes) ==
    LET got == IF ep.dstore = NoStore THEN StoreGet(dp) ELSE [dp |-> dp, dst |-> ep.dstore]
    IN  IF got.dst = NoStore THEN [dp |-> dp, ep |-> [ep EXCEPT !.error = TRUE]]
        ELSE [dp |-> StoreWrite(got.dp, got.dst, bytes, MaxPlen - DstoreSize(got.dp, got.dst)),
              ep |-> [ep EXCEPT !.dstore = got.dst]]

(***************************************************************************)
(* A TCP session: ch_sa_tcp_session_handler.c.  An outcome o of the steps  *)
(* of a packet has the pool, the session and the reasons for which the     *)
(* session was written out and freed.                                      *)
(***************************************************************************)
NewTcpEp == [last_offset |-> 0, held |-> {}, dstore |-> NoStore, error |-> FALSE, ok |-> FALSE]

NewSASession(req) ==
    [four_way |-> "INIT", fin1_seq |-> 0, fin2_seq |-> 0,
     init_seq |-> [d \in Dirs |-> IF d = "req" THEN req.req_sn_init ELSE req.res_sn_init],
     ep |-> [d \in Dirs |-> NewTcpEp]]

\* Bytes m to n - 1 of direction d.
Bytes(d, m, n) == [i \in 1 .. n - m |-> [from |-> "tcp", dir |-> d, n |-> m + i - 1]]

\* _tcp_session_out and the freeing of the session's entry.  The stores given back are
\* forgotten by the entry, which is still used by what follows.
Close(o, why) ==
    LET s == o.s
    IN  [dp |-> DstoreFree(o.dp, s.ep),
         s |-> [s EXCEPT !.ep = [d \in Dirs |-> [s.ep[d] EXCEPT !.dstore = NoStore]]],
         out |-> Append(o.out, [why |-> why,
                                error |-> [d \in Dirs |-> s.ep[d].error],
                                data |-> [d \in Dirs |-> IF s.ep[d].dstore = NoStore THEN <<>>
                                                         ELSE o.dp.data[s.ep[d].dstore]]])]

\* _need_process_payload
NeedProcessPayload(o, p) ==
    LET ep == o.s.ep[p.dir]
    IN  /\ p.len > 0
        /\ p.seq - o.s.init_seq[p.dir] < MaxPlen
        /\ ~ep.error
        /\ DstoreSize(o.dp, ep.dstore) < MaxPlen

\* _write_session_payload; with the data complete the fragments are freed.
WriteSessionPayload(o, d, m, n) ==
    LET w  == WritePayload(o.dp, o.s.ep[d], Bytes(d, m, n))
        ok == DstoreSize(w.dp, w.ep.dstore) >= MaxPlen
    IN  [o EXCEPT !.dp = w.dp,
                  !.s.ep[d] = [w.ep EXCEPT !.last_offset = n, !.ok = @ \/ ok,
                                           !.held = IF ok THEN {} ELSE @]]

\* "TCP Session data is ready,so break!"
BreakIfReady(o) ==
    IF BreakDataOk /\ \A d \in Dirs : o.s.ep[d].ok THEN Close(o, "break") ELSE o

\* The packet's bytes are written, then those of the fragment that follows, if any.
DataReady(o, d, end) ==
    LET w   == WriteSessionPayload(o, d, o.s.ep[d].last_offset, end)
        gap == FirstGap(w.s.ep[d].held, end)
        f   == IF gap = end THEN w ELSE WriteSessionPayload(w, d, end, gap)
    IN  BreakIfReady([f EXCEPT !.s.ep[d].held = {b \in @ : b > gap}])

\* Faulty variant of ProcessSAData, for mutation: what was received before is not
\* skipped in a packet that overlaps it.
ProcessSAData_NoSkip(o, p) ==
    LET d   == p.dir
        ep  == o.s.ep[d]
        off == p.seq - o.s.init_seq[d]
        end == off + p.len
    IN  CASE end <= ep.last_offset -> {o}
          [] end > ep.last_offset /\ off > ep.last_offset ->
               {[o EXCEPT !.s.ep[d].held = @ \cup (off .. end - 1)], Close(o, "nomemory")}
          [] OTHER -> {DataReady([o EXCEPT !.s.ep[d].last_offset = off], d, end)}

\* _process_data_packet
ProcessSAData(o, p) ==
    LET d   == p.dir
        ep  == o.s.ep[d]
        off == p.seq - o.s.init_seq[d]
        end == off + p.len
    IN  CASE end <= ep.last_offset -> {o}
          [] end > ep.last_offset /\ off > ep.last_offset ->
               {[o EXCEPT !.s.ep[d].held = @ \cup (off .. end - 1)], Close(o, "nomemory")}
          [] OTHER -> {DataReady(o, d, end)}

\* _process_fin_packet
ProcessSAFin(s, p) ==
    CASE s.four_way = "INIT" -> [s EXCEPT !.four_way = "FIN1", !.fin1_seq = p.seq]
      [] s.four_way \in {"FIN1", "FIN1_ACK"} ->
           [s EXCEPT !.four_way = "FIN2", !.fin2_seq = p.seq]
      [] OTHER -> s

\* Faulty variant of ProcessAcks, for mutation: the first FIN's ack ends the session.
ProcessAcks_HalfClose(o, p) ==
    IF p.ack = o.s.fin1_seq + 1 THEN Close(o, "fourway") ELSE o

\* The acknowledgements of the FINs, looked at after the data whatever became of it.
ProcessAcks(o, p) ==
    CASE p.ack = o.s.fin1_seq + 1 -> [o EXCEPT !.s.four_way = "FIN1_ACK"]
      [] p.ack # o.s.fin1_seq + 1 /\ p.ack = o.s.fin2_seq + 1 -> Close(o, "fourway")
      [] OTHER -> o

\* Faulty variant of SAPacketHandle, for mutation: a reset does not end the handling.
SAPacketHandle_RstGoesOn(o, p) ==
    CASE p.fin -> {[o EXCEPT !.s = ProcessSAFin(o.s, p)]}
      [] ~p.fin /\ p.rst -> {ProcessAcks(Close(o, "rst"), p)}
      [] OTHER -> {ProcessAcks(q, p) :
                      q \in IF NeedProcessPayload(o, p) THEN ProcessSAData(o, p) ELSE {o}}

\* ch_sa_tcp_session_packet_handle: the data of a FIN or RST is not looked at.
SAPacketHandle(o, p) ==
    CASE p.fin -> {[o EXCEPT !.s = ProcessSAFin(o.s, p)]}
      [] ~p.fin /\ p.rst -> {Close(o, "rst")}
      [] OTHER -> {ProcessAcks(q, p) :
                      q \in IF NeedProcessPayload(o, p) THEN ProcessSAData(o, p) ELSE {o}}

SADataProcess(s, p) ==
    \E o \in SAPacketHandle([dp |-> Pool, s |-> s, out |-> <<>>], p) :
       /\ SetPool(o.dp)
       /\ sasess' = IF o.out = <<>> THEN o.s ELSE NoSess
       /\ out' = out \o o.out
       /\ UNCHANGED usess

(***************************************************************************)
(* ch_sa_tcp_session_request_packet_handle.                                *)
(***************************************************************************)
IsSAAckAck(p) == sareq.state = "SYN_ACK" /\ p.ack = sareq.res_sn_init

\* The packet completes the handshake, or comes after it, and has data.
FirstData(p) == p.len > 0 /\ (IsSAAckAck(p) \/ (sareq.state = "ACK_ACK" /\ ~p.rst))

\* What a packet that finds no session does to its request, if it starts none.
RequestStates(p) ==
    CASE sareq = NoSess -> 
           IF p.kind = "syn" THEN {sareq, [state |-> "SYN", req_sn_init |-> p.seq + 1, res_sn_init |-> 0]}
                             ELSE {sareq}
      [] sareq # NoSess /\ p.kind = "synack" ->
           {IF sareq.state = "SYN" THEN [sareq EXCEPT !.state = "SYN_ACK", !.res_sn_init = p.seq + 1]
                                   ELSE sareq}
      [] sareq # NoSess /\ p.kind = "seg" ->
           {IF IsSAAckAck(p) THEN [sareq EXCEPT !.state = "ACK_ACK"]
            ELSE IF p.rst THEN NoSess ELSE sareq}
      [] OTHER -> {sareq}

\* A session is created, if there is an entry for it, and the request freed in any case.
SASessionCreate(p) ==
    /\ p.kind = "seg" /\ sasess = NoSess /\ sareq # NoSess /\ FirstData(p)
    /\ sareq' = NoSess
    /\ SADataProcess(NewSASession(sareq), p) \/ UNCHANGED <<sasess, usess, pool, out>>

SAHandshake(p) ==
    /\ p.kind # "seg" \/ sasess = NoSess
    /\ ~(p.kind = "seg" /\ sareq # NoSess /\ FirstData(p))
    /\ sareq' \in RequestStates(p)
    /\ UNCHANGED <<sasess, usess, pool, out>>

SATcpPacket(p) ==
    \/ p.kind = "seg" /\ sasess # NoSess /\ SADataProcess(sasess, p) /\ UNCHANGED sareq
    \/ SASessionCreate(p)
    \/ SAHandshake(p)

(***************************************************************************)
(* UDP sessions (ch_sa_udp_session_handler.c), and the timeouts.           *)
(***************************************************************************)
NewUdpEp == [dstore |-> NoStore, error |-> FALSE]

\* The payload of n bytes goes to endpoint d of session u of key k.
UdpDataWrite(k, u, d, n) ==
    LET ep == u[d]
        w  == WritePayload(Pool, ep, [i \in 1 .. n |-> [from |-> k, dir |-> d, n |-> 0]])
    IN  IF n > 0 /\ ~ep.error /\ DstoreSize(Pool, ep.dstore) < MaxPlen
        THEN SetPool(w.dp) /\ usess' = [usess EXCEPT ![k] = [u EXCEPT ![d] = w.ep]]
        ELSE UNCHANGED pool /\ usess' = [usess EXCEPT ![k] = u]

\* A packet of session k.  The sender of the first packet is the requester; a session
\* that cannot be created leaves everything as it is.
SAUdpPacket(k, d, n) ==
    /\ \/ usess[k] # NoSess /\ UdpDataWrite(k, usess[k], d, n)
       \/ /\ usess[k] = NoSess /\ d = "req"
          /\ \/ UdpDataWrite(k, [e \in Dirs |-> NewUdpEp], d, n)
             \/ UNCHANGED <<usess, pool>>
    /\ UNCHANGED <<sareq, sasess, out>>

\* Every handler ends by freeing the entries that have timed out (PTable), after their
\* records are written.
SARequestTimeout == sareq # NoSess /\ sareq' = NoSess /\ UNCHANGED <<sasess, usess, pool, out>>

SASessionTimeout ==
    LET o == Close([dp |-> Pool, s |-> sasess, out |-> out], "timeout")
    IN  /\ sasess # NoSess
        /\ sasess' = NoSess
        /\ SetPool(o.dp) /\ out' = o.out
        /\ UNCHANGED <<sareq, usess>>

\* Faulty variant of UdpTimeout, for mutation: the stores are not given back.
UdpTimeout_KeepStores(k) ==
    /\ usess[k] # NoSess
    /\ usess' = [usess EXCEPT ![k] = NoSess]
    /\ UNCHANGED <<sareq, sasess, out, pool>>

UdpTimeout(k) ==
    /\ usess[k] # NoSess
    /\ usess' = [usess EXCEPT ![k] = NoSess]
    /\ SetPool(DstoreFree(Pool, usess[k]))
    /\ UNCHANGED <<sareq, sasess, out>>

SANext ==
    \/ HostNext(SATcpPacket)
    \/ (SARequestTimeout \/ SASessionTimeout) /\ UNCHANGED network
    \/ \E k \in UdpKeys, d \in Dirs, n \in UdpSizes : SAUdpPacket(k, d, n) /\ UNCHANGED network
    \/ \E k \in UdpKeys : UdpTimeout(k) /\ UNCHANGED network

SASpec == HostInit /\ SAInit /\ [][SANext]_<<saVars, network>>

\* The same with packets that are lost before the tap.
MissedStep == \E d \in Dirs, s \in 0 .. ReqLen + ResLen, n \in 1 .. MaxSeg :
                 Missed(d, s, n) /\ UNCHANGED saVars

LossySpec == HostInit /\ SAInit /\ [][SANext \/ MissedStep]_<<saVars, network>>

(***************************************************************************)
(* Properties.                                                             *)
(***************************************************************************)
\* Type invariant.
SATypeOK ==
    /\ sareq = NoSess \/ sasess = NoSess
    /\ allac \in PreAlloc .. Max({PreAlloc, DstoreLimits + 1})
    /\ \A i \in Stores : Len(data[i]) <= DSize
    /\ sasess # NoSess =>
          /\ sasess.four_way \in {"INIT", "FIN1", "FIN1_ACK", "FIN2", "FIN2_ACK"}
          /\ \A d \in Dirs : /\ sasess.init_seq[d] = FirstSeq(d)
                             /\ sasess.ep[d].last_offset \in 0 .. StreamLength(d)
                             /\ sasess.ep[d].dstore \in {NoStore} \cup 1 .. allac

\* The endpoints that hold store i, of the connection and of UDP sessions.
Holders(i) ==
    {<<"tcp", d>> : d \in {e \in Dirs : sasess # NoSess /\ sasess.ep[e].dstore = i}} \cup
    {h \in UdpKeys \X Dirs : usess[h[1]] # NoSess /\ usess[h[1]][h[2]].dstore = i}

\* Every data store allocated is in the free list, once, or held by one endpoint of one
\* session and then has that endpoint's data only: no store is lost or shared, whichever
\* way sessions end (ch_sa_sentry_dstore_free, ch_sa_udp_session_dstore_free), given that
\* the session table frees an entry once (FreedOnce of PTable).
StoresOwned ==
    \A i \in 1 .. allac :
       /\ Cardinality({j \in DOMAIN free : free[j] = i}) + Cardinality(Holders(i)) = 1
       /\ \A h \in Holders(i), j \in DOMAIN data[i] : <<data[i][j].from, data[i][j].dir>> = h

\* The first n bytes of direction d, as far as they are to be kept.
Kept(d, n) == Bytes(d, 0, Min({n, DSize}))

\* The store of a direction has the first bytes of its stream: all that has been
\* captured without a gap up to the limit, unless no store could be got
\* (_write_session_payload, _need_process_payload).
StreamPrefix ==
    sasess # NoSess => \A d \in Dirs :
       LET ep == sasess.ep[d]
       IN  ~ep.error => (IF ep.dstore = NoStore THEN <<>> ELSE data[ep.dstore])
                            = Kept(d, FirstGap(snt[d].bytes, 0))

\* The record of a session that ended with the four-way close, or because both stores
\* are full, has all that is kept of both streams.
RecordComplete ==
    \A i \in DOMAIN out : out[i].why \in {"fourway", "break"} =>
       \A d \in Dirs : ~out[i].error[d] => out[i].data[d] = Kept(d, StreamLength(d))

\* A session is written out and freed at most once ("free this tcp  session"), whatever
\* one packet does to it.  That its timeout does not come after its end is assumed: it is
\* FreedOnce of PTable.
OneRecord == Len(out) <= 1

\* A session whose data is complete is written out and freed at once ("free this tcp
\* session", _process_data_packet), and that is the end of it.
BreakEnds == \A i \in DOMAIN out : out[i].why = "break" => i = Len(out)
=============================================================================
