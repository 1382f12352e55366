---------------------------- MODULE TcpReassembly ----------------------------
(***************************************************************************)
(* The handling of the data packets of one endpoint of a TCP session:      *)
(* _process_data_packet of tcp/session/ch_tcp_session_handler.c.  The      *)
(* sender's stream is the bytes 0, 1, 2, ...; byte i stands for its own    *)
(* value, so that a byte handed over at the wrong place is visible.  A     *)
(* packet is captured any number of times and in any order.                *)
(***************************************************************************)
EXTENDS AssembleFragment

CONSTANTS StreamLen,   \* bytes the sender sends
          MaxLen,      \* longest payload of a packet
          Window,      \* how far from last_offset a packet may be
          InitSeq      \* init_seq of the endpoint: the sequence number of byte 0

VARIABLES last_offset,   \* ep->last_offset
          frags,         \* ep->as_frag
          open,          \* the session exists
          parsed,        \* the bytes the application parser was called with
          got            \* history: the bytes of all packets handled

\* An offset is a number modulo W, and so is the number that starts the stream.
ASSUME AsmAssumption ==
    W \in Nat \ {0} /\ InitSeq \in 0 .. W - 1 /\ StreamLen \in Nat /\ MaxLen \in Nat

asmVars == <<last_offset, frags, open, parsed, got>>

BytesFrom(s, n) == [i \in 1 .. n |-> s + i - 1]

\* Packets the sender may have on the wire: its window bounds how far from the
\* next byte waited for they can be.
Packets == {p \in [seq : 0 .. StreamLen - 1, len : 1 .. MaxLen] :
              /\ p.seq + p.len <= StreamLen
              /\ p.seq + p.len <= Len(parsed) + Window
              /\ p.seq >= Len(parsed) - Window}

\* What the header of packet p holds, and the offset computed from it.
SentSeq(p) == Add(InitSeq, p.seq)

OffsetGet(p) == Sub(SentSeq(p), InitSeq)

EndOffset(p) == Add(OffsetGet(p), p.len)

Capture(p) == got' = got \cup (p.seq .. p.seq + p.len - 1)

\* _tcp_session_close: the fragments are freed with the session.
CloseSession == open' = FALSE /\ frags' = <<>>

AsmInit ==
    /\ last_offset = 0
    /\ frags = <<>>
    /\ open = TRUE
    /\ parsed = <<>>
    /\ got = {}

\* "invalid or retrans packet!"
DataOld(p) ==
    /\ EndOffset(p) <= last_offset
    /\ UNCHANGED <<last_offset, frags, open, parsed>>

\* "unorder,assemble it!"
DataUnorder(p) ==
    LET df == [offset |-> OffsetGet(p), data |-> BytesFrom(p.seq, p.len)]
    IN  /\ EndOffset(p) > last_offset
        /\ OffsetGet(p) > last_offset
        /\ UNCHANGED <<last_offset, parsed>>
        /\ \/ frags' = Push(frags, df) /\ UNCHANGED open
           \/ NeedsNode(frags, df) /\ CloseSession   \* no memory

\* Faulty variant of DataExpected, for mutation: the fragments are not looked at.
DataExpected_NoPop(p) ==
    /\ EndOffset(p) > last_offset
    /\ OffsetGet(p) <= last_offset
    /\ parsed' = parsed \o SubSeq(BytesFrom(p.seq, p.len), Sub(last_offset, OffsetGet(p)) + 1, p.len)
    /\ last_offset' = EndOffset(p)
    /\ UNCHANGED <<frags, open>>

\* The packet holds the byte waited for: the parser gets its new part and then
\* the fragment that follows it.  The parser may break the session off (PARSE_BREAK).
DataExpected(p) ==
    LET diff  == Sub(last_offset, OffsetGet(p))
        fresh == SubSeq(BytesFrom(p.seq, p.len), diff + 1, p.len)
        end   == EndOffset(p)
        rest  == FreeBelow(frags, end)
    IN  /\ EndOffset(p) > last_offset
        /\ OffsetGet(p) <= last_offset
        /\ \/ /\ CloseSession
              /\ last_offset' = end
              /\ parsed' = parsed \o fresh
           \/ /\ ~CanPop(frags, end)
              /\ frags' = rest
              /\ last_offset' = end
              /\ parsed' = parsed \o fresh
              /\ UNCHANGED open
           \/ /\ CanPop(frags, end)
              /\ parsed' = parsed \o fresh \o Head(rest).data
              /\ \/ /\ frags' = Tail(rest)
                    /\ last_offset' = EndOf(Head(rest))
                    /\ UNCHANGED open
                 \/ CloseSession /\ last_offset' = end

ProcessDataPacket(p) ==
    /\ open
    /\ Capture(p)
    /\ DataOld(p) \/ DataUnorder(p) \/ DataExpected(p)

AsmNext == \E p \in Packets : ProcessDataPacket(p)

AsmSpec == AsmInit /\ [][AsmNext]_asmVars

(***************************************************************************)
(* Properties.                                                             *)
(***************************************************************************)
BytesOf(df) == {df.data[i] : i \in DOMAIN df.data}

\* Type invariant: offsets are uint32_t, fragments hold bytes of the stream.
AsmTypeOK ==
    /\ last_offset \in 0 .. W - 1
    /\ \A i \in DOMAIN frags :
          frags[i].offset \in 0 .. W - 1 /\ BytesOf(frags[i]) \subseteq 0 .. StreamLen - 1
    /\ open \in BOOLEAN
    /\ got \subseteq 0 .. StreamLen - 1

\* The parser is called with the bytes of the stream from the first one on, each
\* once and in order, however trimming, merging and popping moved offsets and
\* data pointers (_process_data_packet, ch_assemble_fragment_push and _pop).
InOrder == parsed = BytesFrom(0, Len(parsed))

\* The list of ch_assemble_fragment_t stays in order, with a gap between any two
\* fragments and before the first one: neighbours that touch have been merged,
\* which is why one pop per packet is enough.
FragsApart ==
    \A i \in DOMAIN frags :
       /\ frags[i].data # <<>>
       /\ last_offset < frags[i].offset
       /\ \A j \in DOMAIN frags : i < j => EndOf(frags[i]) < frags[j].offset

\* No byte of a packet handled by an open session is thrown away: it has been
\* handed to the parser or waits in a fragment.
BytesKept == open => got = {parsed[i] : i \in DOMAIN parsed}
                        \cup UNION {BytesOf(frags[i]) : i \in DOMAIN frags}

\* Reassembly implements ByteStream: after every packet the parser has exactly the
\* longest gap-free prefix of what was captured.
Stream == INSTANCE ByteStream WITH next <- Len(parsed)
StreamSpec == Stream!Spec
=============================================================================
