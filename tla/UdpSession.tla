------------------------------ MODULE UdpSession ------------------------------
(***************************************************************************)
(* The UDP sessions of one UDP session task (udp/session) and two of its   *)
(* applications, tftp and dns, fed with what a client and two servers send *)
(* each other.  Packets pass the tap late, twice, out of order or not at   *)
(* all, and the capture can miss them.                                     *)
(*                                                                         *)
(* A tftp server answers from a port of its own choice: the request of a   *)
(* transfer waits in a list (ch_udp_session_request_pool) until a packet   *)
(* comes back to the client's port, and only then becomes a session.       *)
(* A dns query becomes a session at once.  An application session has one  *)
(* owner, its request or its session, and is finished by the last one.     *)
(*                                                                         *)
(* The table of sessions is that of PTable.  Its watch thread puts the     *)
(* entries of silent sessions into a ring; the task frees what it finds    *)
(* there after every packet, and when there is none.  An entry is named by *)
(* its application session, and the ring is a set: an entry that is freed  *)
(* while it is in the ring is not used again before the ring is emptied.   *)
(*                                                                         *)
(* last_entry of the list is its head or NULL, and is looked at before the *)
(* list: it is not a variable of its own.                                  *)
(***************************************************************************)
EXTENDS Integers, SequencesExt, FiniteSets

CONSTANTS Xfer,       \* tftp transfers; a server uses a port of its own for each
          ClientPort, \* ClientPort[x]: the client's port; it may serve several transfers
          Blocks,     \* Blocks[x]: the data blocks of transfer x, the last one short
          Writes,     \* the transfers to the server
          SessLimit,  \* udp_session_limits
          ReqLimit,   \* udp_session_request_limits
          MaxPkt,     \* bound: packets that pass the tap
          MaxQuery    \* bound: dns queries

VARIABLES
    app,       \* every application session ever created
    reqs,      \* the list of requests, as application sessions
    sess,      \* the session of each flow, as an application session
    ring,      \* timeout_entries, as application sessions
    draining,  \* the task is in ch_ptable_entries_timeout_free
    out,       \* the records put into the shared-memory queue
    refused,   \* history: application sessions whose request or session was refused
    overtaken, \* history: application sessions finished while in the ring
    sent, rcvd,   \* the network: blocks sent and received of each transfer
    queries,      \* and dns queries sent
    pkts

table == <<app, reqs, sess, out, refused, overtaken>>
monitor == <<table, ring, draining>>
network == <<sent, rcvd, queries>>
vars == <<monitor, network, pkts>>

\* The addresses and ports of a packet, which its session has too, named by the server's
\* port: 69 is the one requests are sent to.
Flow == Xfer \cup {"69", "dns"}
None == 0
NotAsked == -1

\* A transfer is not from port 69 and no dns, and it has a last block.
ASSUME UdpAssumption ==
    /\ Xfer \cap {"69", "dns"} = {} /\ IsFiniteSet(Xfer) /\ Blocks \in [Xfer -> Nat \ {0}]
    /\ SessLimit \in Nat /\ ReqLimit \in Nat

Init ==
    /\ app = <<>> /\ reqs = <<>> /\ sess = [f \in Flow |-> None]
    /\ ring = {} /\ draining = FALSE
    /\ out = <<>> /\ refused = {} /\ overtaken = {}
    /\ sent = [x \in Xfer |-> NotAsked] /\ rcvd = [x \in Xfer |-> 0]
    /\ queries = 0 /\ pkts = 0

\* is_udp_request and is_udp_response: what a packet shares with its session
FlowOf(pkt) ==
    CASE pkt.op \in {"query", "response"} -> "dns"
      [] pkt.op \in {"rrq", "wrq"} -> "69"
      [] OTHER -> pkt.x

(***************************************************************************)
(* Applications.                                                           *)
(***************************************************************************)
\* Faulty variant of Tftp_data, for mutation: a gap of one block is let through.
Tftp_data_Gap(a, b, short) ==
    LET w == [a EXCEPT !.last_block = b, !.content = Append(@, b)] IN
    IF b - a.last_block > 2 THEN {[rc |-> "ERR", a |-> a]}
    ELSE {[rc |-> IF short THEN "DONE" ELSE "CONTINUE", a |-> w]}

\* do_tftp_packet_parse, OP_DATA.  The file for the content may be refused.
Tftp_data(a, b, short) ==
    LET w == [a EXCEPT !.last_block = b, !.content = Append(@, b)] IN
    IF b - a.last_block > 1 THEN {[rc |-> "ERR", a |-> a]}
    ELSE {[rc |-> IF short THEN "DONE" ELSE "CONTINUE", a |-> w]}
         \cup (IF a.content = <<>> THEN {[rc |-> "ERR", a |-> [a EXCEPT !.last_block = b]]} ELSE {})

\* do_tftp_packet_parse, the other packets
Tftp_packet_parse(a, pkt) ==
    CASE pkt.op = "data" -> Tftp_data(a, pkt.b, pkt.b = Blocks[pkt.x])
      [] pkt.op = "ack"  -> {[rc |-> IF pkt.b \in {0, a.last_block} THEN "CONTINUE" ELSE "ERR",
                              a |-> a]}
      [] pkt.op = "error" -> {[rc |-> "DONE", a |-> [a EXCEPT !.is_error = TRUE]]}
      [] OTHER -> {[rc |-> "CONTINUE", a |-> a]}

\* _dns_req_pkt_process and _dns_res_pkt_process
Dns_pkt_process(a, pkt) ==
    IF pkt.op = "query"
    THEN IF a.dns_req # None \/ pkt.body = "empty" THEN {[rc |-> "CONTINUE", a |-> a]}
         ELSE IF pkt.body = "bad" THEN {[rc |-> "ERR", a |-> a]}
         ELSE {[rc |-> "CONTINUE", a |-> [a EXCEPT !.dns_req = pkt.id]]}
    ELSE IF a.dns_res # None THEN {[rc |-> "DONE", a |-> a]}
         ELSE IF pkt.body = "empty" THEN {[rc |-> "CONTINUE", a |-> a]}
         ELSE IF pkt.body = "bad" THEN {[rc |-> "ERR", a |-> a]}
         ELSE {[rc |-> "DONE", a |-> [a EXCEPT !.dns_res = pkt.id]]}

\* ch_udp_app_session_packet_process
PacketProcess(a, pkt) ==
    IF a.type = "tftp" THEN Tftp_packet_parse(a, pkt) ELSE Dns_pkt_process(a, pkt)

NewApp(type, x, f) ==
    [type |-> type, fname |-> x, flow |-> f, last_block |-> 0, content |-> <<>>,
     is_error |-> FALSE, dns_req |-> None, dns_res |-> None, fin |-> 0]

\* ch_udp_app_session_create: what an application makes of a packet without session
AppOf(pkt) ==
    CASE pkt.op \in {"rrq", "wrq"} -> {NewApp("tftp", pkt.x, FlowOf(pkt))}
      [] pkt.op = "query" -> {NewApp("dns", "dns", FlowOf(pkt))}
      [] OTHER -> {}

\* _tftp_request_session_equal: a packet from the server's address to the client's
\* port; the port it comes from is not looked at.
Request_equal(a, pkt) == pkt.src = "server" /\ ClientPort[pkt.x] = ClientPort[a.fname]

(***************************************************************************)
(* Sessions.                                                               *)
(***************************************************************************)
\* ch_udp_app_session_store, and what the record says
Stored(a) == a.type = "tftp" \/ a.dns_req # None \/ a.dns_res # None
Record(i, a, why) == [of |-> i, type |-> a.type, flow |-> a.flow, content |-> a.content,
                      is_error |-> a.is_error, req |-> a.dns_req, res |-> a.dns_res, why |-> why]

\* _udp_session_out; a filter rule may keep the record back (_do_is_accept)
Session_out(i, a, why) ==
    \/ Stored(a) /\ out' = Append(out, Record(i, a, why))
    \/ UNCHANGED out

\* Faulty variant of App_fin, for mutation: nothing is released.
App_fin_Not(a) == a

\* ch_udp_app_session_fin
App_fin(a) == [a EXCEPT !.fin = @ + 1]

\* Faulty variant of Session_packet_handle, for mutation: the entry of a session that is
\* done stays in the table.
Session_packet_handle_Keep(i, a, pkt) ==
    \E v \in PacketProcess(a, pkt) :
      /\ sess' = [sess EXCEPT ![FlowOf(pkt)] = i]
      /\ IF v.rc = "CONTINUE"
         THEN app' = [app EXCEPT ![i] = v.a] /\ UNCHANGED <<out, overtaken>>
         ELSE /\ app' = [app EXCEPT ![i] = App_fin(v.a)]
              /\ overtaken' = overtaken \cup (ring \cap {i})
              /\ IF v.rc = "DONE" THEN Session_out(i, v.a, "done") ELSE UNCHANGED out

\* ch_udp_session_packet_handle on application session a, in place i
Session_packet_handle(i, a, pkt) ==
    \E v \in PacketProcess(a, pkt) :
      IF v.rc = "CONTINUE"
      THEN /\ app' = [app EXCEPT ![i] = v.a]
           /\ sess' = [sess EXCEPT ![FlowOf(pkt)] = i]
           /\ UNCHANGED <<out, overtaken>>
      ELSE /\ app' = [app EXCEPT ![i] = App_fin(v.a)]
           /\ sess' = [sess EXCEPT ![FlowOf(pkt)] = None]
           /\ overtaken' = overtaken \cup (ring \cap {i})
           /\ IF v.rc = "DONE" THEN Session_out(i, v.a, "done") ELSE UNCHANGED out

\* Faulty variant of SessionsFull, for mutation: one session too many.
SessionsFull_OffByOne == Cardinality({f \in Flow : sess[f] # None}) > SessLimit

\* The pool of sessions is a table with a limit.
SessionsFull == Cardinality({f \in Flow : sess[f] # None}) >= SessLimit

\* The packet belongs to a session.
SessionPacket(pkt) ==
    /\ sess[FlowOf(pkt)] # None
    /\ LET i == sess[FlowOf(pkt)] IN Session_packet_handle(i, app[i], pkt)
    /\ UNCHANGED <<reqs, refused>>

Matching(pkt) == {k \in DOMAIN reqs : Request_equal(app[reqs[k]], pkt)}

\* Faulty variant of RequestPacket, for mutation: the request is freed as if it had
\* timed out, with its callback.
RequestPacket_Callback(pkt) ==
    /\ sess[FlowOf(pkt)] = None /\ Matching(pkt) # {}
    /\ LET k == CHOOSE k \in Matching(pkt) : \A j \in Matching(pkt) : k <= j
           i == reqs[k]
           a == App_fin([app[i] EXCEPT !.flow = FlowOf(pkt)])
       IN  /\ reqs' = RemoveAt(reqs, k)
           /\ Session_packet_handle(i, a, pkt)
           /\ UNCHANGED refused

\* The packet answers a request, the first one of the list that it matches:
\* _tftp_process_request_session says DONE, the request becomes a session, and is
\* freed without its timeout callback whether or not that succeeded.
RequestPacket(pkt) ==
    /\ sess[FlowOf(pkt)] = None /\ Matching(pkt) # {}
    /\ LET k == CHOOSE k \in Matching(pkt) : \A j \in Matching(pkt) : k <= j
           i == reqs[k]
           a == [app[i] EXCEPT !.flow = FlowOf(pkt)]
       IN  /\ reqs' = RemoveAt(reqs, k)
           /\ \/ Session_packet_handle(i, a, pkt) /\ ~SessionsFull /\ UNCHANGED refused
              \/ /\ SessionsFull
                 /\ refused' = refused \cup {i}
                 /\ app' = [app EXCEPT ![i] = a]
                 /\ UNCHANGED <<sess, out, overtaken>>

\* What stays of list s at positions ks, in its order: the one way to number them.
Sublists(s, ks) ==
    {[m \in DOMAIN pos |-> s[pos[m]]] :
        pos \in {q \in Bijection(1 .. Cardinality(ks), ks) :
                    \A j, k \in DOMAIN q : j < k => q[j] < q[k]}}

\* Nobody waits for the packet: an application takes it, and a tftp session waits as a
\* request.  ch_plist_entry_create frees requests that timed out when the list is full.
NewRequest(a) ==
    LET i == Len(app) + 1 IN
    \/ /\ Len(reqs) < ReqLimit
       /\ app' = Append(app, a) /\ reqs' = <<i>> \o reqs
       /\ UNCHANGED refused
    \/ \E late \in (SUBSET DOMAIN reqs) \ {{}} : \E rest \in Sublists(reqs, DOMAIN reqs \ late) :
         /\ Len(reqs) >= ReqLimit
         /\ app' = Append([j \in DOMAIN app |-> IF \E k \in late : reqs[k] = j
                                                THEN App_fin(app[j]) ELSE app[j]], a)
         /\ reqs' = <<i>> \o rest
         /\ UNCHANGED refused
    \/ /\ Len(reqs) >= ReqLimit
       /\ app' = Append(app, a) /\ refused' = refused \cup {i}
       /\ UNCHANGED reqs

NewSession(a, pkt) ==
    LET i == Len(app) + 1 IN
    \/ /\ ~SessionsFull
       /\ \E v \in PacketProcess(a, pkt) :
            /\ app' = Append(app, IF v.rc = "CONTINUE" THEN v.a ELSE App_fin(v.a))
            /\ sess' = [sess EXCEPT !["dns"] = IF v.rc = "CONTINUE" THEN i ELSE None]
       /\ UNCHANGED refused
    \/ /\ SessionsFull
       /\ app' = Append(app, a) /\ refused' = refused \cup {i}
       /\ UNCHANGED sess

NewPacket(pkt) ==
    /\ sess[FlowOf(pkt)] = None /\ Matching(pkt) = {}
    /\ \E a \in AppOf(pkt) :
         \/ a.type = "tftp" /\ NewRequest(a) /\ UNCHANGED sess
         \/ a.type = "dns" /\ NewSession(a, pkt) /\ UNCHANGED reqs
    /\ UNCHANGED <<out, overtaken>>

NotWanted(pkt) ==
    /\ sess[FlowOf(pkt)] = None /\ Matching(pkt) = {} /\ AppOf(pkt) = {}
    /\ UNCHANGED table

\* ch_udp_session_request_packet_handle
Request_packet_handle(pkt) ==
    SessionPacket(pkt) \/ RequestPacket(pkt) \/ NewPacket(pkt) \/ NotWanted(pkt)

\* _watch_ptable: the entry of a silent session is put into the ring.
WatchTimeout(f) ==
    /\ sess[f] # None /\ sess[f] \notin ring
    /\ ring' = ring \cup {sess[f]}
    /\ UNCHANGED <<table, draining, network, pkts>>

\* ch_ptable_entries_timeout_free: an entry of the ring is freed with
\* _udp_session_timeout_cb, whatever became of it since it was put there.  The watch
\* thread, which starts when it finds the ring empty, may meet the last one again
\* before it is unlinked.
SessionTimeout(i) ==
    /\ i \in ring
    /\ Session_out(i, app[i], "timeout")
    /\ app' = [app EXCEPT ![i] = App_fin(@)]
    /\ sess' = [f \in Flow |-> IF sess[f] = i THEN None ELSE sess[f]]
    /\ \/ ring' = ring \ {i} /\ UNCHANGED overtaken
       \/ ring = {i} /\ i \in Range(sess) /\ UNCHANGED ring /\ overtaken' = overtaken \cup {i}
    /\ draining' = (ring' # {})
    /\ UNCHANGED <<reqs, refused, network, pkts>>

\* ch_plist_entries_timeout_free with _udp_session_request_timeout_cb
RequestTimeout(k) ==
    /\ app' = [app EXCEPT ![reqs[k]] = App_fin(@)]
    /\ reqs' = RemoveAt(reqs, k)
    /\ UNCHANGED <<sess, ring, draining, out, refused, overtaken, network, pkts>>

(***************************************************************************)
(* The network: a packet that was sent passes the tap at any later time,   *)
(* any number of times; the capture sees it or not, and so does the host   *)
(* it is sent to.                                                          *)
(***************************************************************************)
Pass(pkt) ==
    /\ pkts < MaxPkt /\ pkts' = pkts + 1
    /\ \/ /\ ~draining /\ Request_packet_handle(pkt)
          /\ draining' = (ring # {}) /\ UNCHANGED ring
       \/ UNCHANGED monitor

\* A request is sent, again if need be; a server that gets one is ready to send.
PassRequest(x) ==
    /\ Pass([op |-> IF x \in Writes THEN "wrq" ELSE "rrq", x |-> x, src |-> "client"])
    /\ sent' = [sent EXCEPT ![x] = IF @ # NotAsked THEN @ ELSE IF x \in Writes THEN 0 ELSE 1]
    /\ UNCHANGED <<rcvd, queries>>

PassData(x, b) ==
    /\ b \in 1 .. sent[x]
    /\ Pass([op |-> "data", x |-> x, b |-> b, src |-> IF x \in Writes THEN "client" ELSE "server"])
    /\ \/ UNCHANGED rcvd
       \/ rcvd[x] = b - 1 /\ rcvd' = [rcvd EXCEPT ![x] = b]
    /\ UNCHANGED <<sent, queries>>

PassAck(x, b) ==
    /\ sent[x] # NotAsked /\ b \in (IF x \in Writes THEN 0 ELSE 1) .. rcvd[x]
    /\ Pass([op |-> "ack", x |-> x, b |-> b, src |-> IF x \in Writes THEN "server" ELSE "client"])
    /\ \/ UNCHANGED sent
       \/ sent[x] = b /\ b < Blocks[x] /\ sent' = [sent EXCEPT ![x] = b + 1]
    /\ UNCHANGED <<rcvd, queries>>

PassError(x) ==
    /\ sent[x] # NotAsked
    /\ Pass([op |-> "error", x |-> x, src |-> "server"])
    /\ UNCHANGED network

PassQuery(body) ==
    /\ queries < MaxQuery /\ queries' = queries + 1
    /\ Pass([op |-> "query", id |-> queries + 1, body |-> body, src |-> "client"])
    /\ UNCHANGED <<sent, rcvd>>

PassResponse(id, body) ==
    /\ Pass([op |-> "response", id |-> id, body |-> body, src |-> "dnsserver"])
    /\ UNCHANGED network

Bodies == {"good", "bad", "empty"}

Timeouts == \/ \E f \in Flow : WatchTimeout(f)
            \/ \E i \in ring : SessionTimeout(i)
            \/ \E k \in DOMAIN reqs : RequestTimeout(k)

Packets ==
    \/ \E x \in Xfer : PassRequest(x) \/ PassError(x)
    \/ \E x \in Xfer : \E b \in 0 .. Blocks[x] : PassData(x, b) \/ PassAck(x, b)
    \/ \E body \in Bodies : PassQuery(body) \/ \E id \in 1 .. queries : PassResponse(id, body)

\* Memory that is freed twice corrupts its pool: what the program does from there on is
\* not modelled.
FinishedOnce == \A i \in DOMAIN app : app[i].fin <= 1

Next == FinishedOnce /\ (Packets \/ Timeouts)

Spec == Init /\ [][Next]_vars

(***************************************************************************)
(* Properties.                                                             *)
(***************************************************************************)
\* Type invariant: the list and the table respect their limits.
TypeOK ==
    /\ \A i \in DOMAIN app : app[i].fin \in 0 .. 2 /\ app[i].flow \in Flow
    /\ reqs \in Seq(DOMAIN app) /\ Len(reqs) <= ReqLimit
    /\ sess \in [Flow -> {None} \cup DOMAIN app]
    /\ Cardinality({f \in Flow : sess[f] # None}) <= SessLimit
    /\ ring \subseteq DOMAIN app /\ draining \in BOOLEAN
    /\ refused \subseteq DOMAIN app /\ overtaken \subseteq DOMAIN app

Holders(i) == {<<"request", k>> : k \in {k \in DOMAIN reqs : reqs[k] = i}}
                \cup {<<"session", f>> : f \in {f \in Flow : sess[f] = i}}

\* An application session has one owner until it is finished and none afterwards.  It is
\* lost only where ch_udp_session_request_packet_handle got no entry for it, and finished
\* twice only if its session ended, by a packet or by its timeout, while the watch thread
\* had it in the ring.
AppOwned ==
    \A i \in DOMAIN app :
        /\ Cardinality(Holders(i)) = IF app[i].fin = 0 /\ i \notin refused THEN 1 ELSE 0
        /\ app[i].fin > 1 => i \in overtaken

\* A session is written out once, by its last packet or by its timeout, however often the
\* last packet is repeated and the request was sent; twice only if it ended while the
\* watch thread had it in the ring (_udp_app_pkt_handle, _udp_session_timeout_cb).
ReportedOnce ==
    \A m, n \in DOMAIN out : m # n /\ out[m].of = out[n].of => out[m].of \in overtaken

\* The file of a transfer that is reported as done holds every block in order, some of
\* them perhaps twice: a block the capture missed ends the session instead
\* (do_tftp_packet_parse).
RecordedWhole ==
    \A n \in DOMAIN out :
        LET r == out[n] IN
        r.type = "tftp" /\ r.why = "done" /\ ~r.is_error =>
            \A b \in 1 .. Blocks[r.flow] :
                \E j \in DOMAIN r.content :
                    r.content[j] = b /\ (b > 1 => \E h \in 1 .. j - 1 : r.content[h] = b - 1)

\* When the peers fall silent (packets are bounded) every application session is finished
\* in the end, unless it was lost for want of an entry or another one was finished twice
\* before (ch_udp_session_task_handlers_timeout_free).
Unfinished(i) == i \notin refused /\ app[i].fin = 0
AllReleased == []<>(~FinishedOnce \/ ~ \E i \in DOMAIN app : Unfinished(i))
=============================================================================
