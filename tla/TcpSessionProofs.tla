--------------------------- MODULE TcpSessionProofs ---------------------------
(***************************************************************************)
(* Proofs about TcpSession, for streams of any length, segments of any     *)
(* size and any initial sequence numbers: the session of a connection      *)
(* follows both streams up to the first gap, whatever is reordered, lost   *)
(* or repeated; and, when FINs come without data, no session is taken for  *)
(* one that missed a packet, sessions are closed once, and the four-way    *)
(* close finds both streams complete.                                      *)
(***************************************************************************)
EXTENDS TcpSession, TLAPS, WellFoundedInduction

-----------------------------------------------------------------------------
(* The first gap in a set of bytes. *)

\* A set of natural numbers has a least element ...
LEMMA NatMin ==
    ASSUME NEW T \in SUBSET Nat, T # {}
    PROVE  \E x \in T : \A y \in T : x <= y
<1>1. PICK x \in T : \A y \in T : ~(<<y, x>> \in OpToRel(<, Nat))
    BY WFMin, NatLessThanWellFounded
<1>2. \A y \in T : y < x => <<y, x>> \in OpToRel(<, Nat)
    BY DEF OpToRel
<1>3. ASSUME NEW y \in T PROVE x <= y
    <2>1. ~(y < x)  BY <1>1, <1>2
    <2> QED  BY <2>1
<1> QED  BY <1>3

\* ... and, when it is bounded, a greatest.
LEMMA NatMax ==
    ASSUME NEW M \in Nat, NEW T \in SUBSET (0 .. M), T # {}
    PROVE  \E x \in T : \A y \in T : x >= y
<1> DEFINE U == {n \in Nat : M - n \in T}
<1>1. \A x \in T : M - x \in U /\ M - (M - x) = x  OBVIOUS
<1>2. U \in SUBSET Nat /\ U # {}  BY <1>1
<1> HIDE DEF U
<1>3. PICK u \in U : \A v \in U : u <= v  BY <1>2, NatMin
<1>4. M - u \in T /\ u \in Nat  BY <1>3 DEF U
<1>5. \A y \in T : M - u >= y
    <2> SUFFICES ASSUME NEW y \in T PROVE M - u >= y
        OBVIOUS
    <2>1. u <= M - y  BY <1>1, <1>3
    <2> QED  BY <1>4, <2>1
<1> QED  BY <1>4, <1>5

LEMMA MaxIs ==
    ASSUME NEW M \in Nat, NEW T \in SUBSET (0 .. M), T # {}
    PROVE  Max(T) \in T /\ \A y \in T : Max(T) >= y
<1>1. \E x \in T : \A y \in T : x >= y  BY NatMax
<1> QED  BY <1>1 DEF Max

\* The least element is unique, so Min returns the one that is known.
LEMMA MinIs ==
    ASSUME NEW T \in SUBSET Nat, NEW x \in T, \A y \in T : x <= y
    PROVE  Min(T) = x
<1>1. \E m \in T : \A y \in T : m <= y  OBVIOUS
<1>2. Min(T) \in T /\ \A y \in T : Min(T) <= y  BY <1>1 DEF Min
<1>3. Min(T) \in Nat /\ x \in Nat /\ Min(T) <= x /\ x <= Min(T)  BY <1>2
<1> QED  BY <1>3

\* FirstGap returns the end of the bytes held from n on, if that is known, ...
LEMMA FirstGapIs ==
    ASSUME NEW M \in Nat, NEW held \in SUBSET (0 .. M - 1), NEW n \in 0 .. M, NEW g \in n .. M,
           g \notin held, n .. g - 1 \subseteq held
    PROVE  FirstGap(held, n) = g
<1> DEFINE top == Max(held \cup {n})
           T == {m \in n .. top + 1 : m \notin held}
<1>0. held \cup {n} \in SUBSET (0 .. M) /\ held \cup {n} # {}  OBVIOUS
<1>1. top \in held \cup {n} /\ \A y \in held \cup {n} : top >= y
    BY <1>0, MaxIs
<1>2. top \in 0 .. M  BY <1>0, <1>1
<1> HIDE DEF top
<1>3. g <= top + 1
    <2>1. CASE g = n  BY <1>1, <1>2, <2>1
    <2>2. CASE g > n
        <3>1. g - 1 \in held  BY <2>2
        <3> QED  BY <1>1, <1>2, <3>1
    <2> QED  BY <2>1, <2>2
<1>4. g \in T  BY <1>2, <1>3
<1>5. \A m \in T : g <= m  BY <1>2
<1>6. T \in SUBSET Nat  BY <1>2
<1>7. Min(T) = g  BY <1>4, <1>5, <1>6, MinIs
<1> QED  BY <1>7 DEF FirstGap, top

\* ... and there always is one.
LEMMA FirstGapEnds ==
    ASSUME NEW M \in Nat, NEW held \in SUBSET (0 .. M - 1), NEW n \in 0 .. M
    PROVE  /\ FirstGap(held, n) \in n .. M
           /\ FirstGap(held, n) \notin held
           /\ n .. FirstGap(held, n) - 1 \subseteq held
<1> DEFINE T == {m \in n .. M : m \notin held}
<1>1. T \in SUBSET Nat /\ M \in T  OBVIOUS
<1>2. PICK g \in T : \A m \in T : g <= m  BY <1>1, NatMin
<1>3. g \in n .. M /\ g \notin held /\ n .. g - 1 \subseteq held
    <2>1. ASSUME NEW m \in n .. g - 1, m \notin held PROVE FALSE
        <3>1. m \in T  BY <1>2, <2>1
        <3> QED  BY <1>2, <2>1, <3>1
    <2> QED  BY <1>2, <2>1
<1>4. FirstGap(held, n) = g  BY <1>3, FirstGapIs
<1> QED  BY <1>3, <1>4

\* More bytes do not move the first gap back.
LEMMA FirstGapMonotone ==
    ASSUME NEW M \in Nat, NEW B \in SUBSET (0 .. M - 1), NEW A \in SUBSET B
    PROVE  FirstGap(A, 0) <= FirstGap(B, 0)
<1> DEFINE a == FirstGap(A, 0)
           b == FirstGap(B, 0)
<1>1. a \in 0 .. M /\ 0 .. a - 1 \subseteq A  BY FirstGapEnds
<1>2. b \in 0 .. M /\ b \notin B  BY FirstGapEnds
<1> HIDE DEF a, b
<1>3. ~(b < a)  BY <1>1, <1>2
<1> QED  BY <1>1, <1>2, <1>3 DEF a, b

-----------------------------------------------------------------------------
(* What the steps of a packet do to a session. *)

States == {"INIT", "DATA", "FIN", "RST"}
FourWays == {"INIT", "FIN1", "FIN1_ACK", "FIN2", "FIN2_ACK"}
Endpoint == [last_offset : Nat, held : SUBSET Nat, last_ack : Nat]
Session ==
    [state : States, four_way : FourWays, fin1_seq : Nat, fin2_seq : Nat,
     init_seq : [Dirs -> Nat], ep : [Dirs -> Endpoint]]
Reasons == {"nomemory", "break", "discard", "rst", "fourway"}
Result == [s : Session, why : Seq(Reasons)]

\* A segment of sq and the n bytes that follow, which acknowledges a bytes.
Seg(d, sq, n, fin, rst, a) ==
    Packet(d, "seg", FirstSeq(d) + sq, n, fin, rst, FirstSeq(Other(d)) + a)

LEMMA DirFacts ==
    ASSUME NEW d \in Dirs
    PROVE  /\ Other(d) \in Dirs /\ Other(d) # d /\ Other(Other(d)) = d
           /\ StreamLength(d) \in Nat /\ FirstSeq(d) \in Nat /\ FirstSeq(d) > 0
           /\ \A e \in Dirs : e = d \/ e = Other(d)
BY SessionAssumption DEF Dirs, Other, StreamLength, FirstSeq

LEMMA SegFields ==
    ASSUME NEW d, NEW sq, NEW n, NEW fin, NEW rst, NEW a
    PROVE  LET p == Seg(d, sq, n, fin, rst, a)
           IN  /\ p.dir = d /\ p.kind = "seg" /\ p.seq = FirstSeq(d) + sq /\ p.len = n
               /\ p.fin = fin /\ p.rst = rst /\ p.ack = FirstSeq(Other(d)) + a
BY DEF Seg, Packet

LEMMA MaxTwo ==
    ASSUME NEW a \in Nat, NEW b \in Nat
    PROVE  Max({a, b}) = IF a >= b THEN a ELSE b
<1>1. \E x \in {a, b} : \A y \in {a, b} : x >= y  OBVIOUS
<1>2. Max({a, b}) \in {a, b} /\ \A y \in {a, b} : Max({a, b}) >= y  BY <1>1 DEF Max
<1> QED  BY <1>2

\* The session's parts that only data moves.
SameData(s, t) ==
    /\ t.init_seq = s.init_seq
    /\ \A e \in Dirs : t.ep[e].last_offset = s.ep[e].last_offset /\ t.ep[e].held = s.ep[e].held

SameFins(s, t) ==
    t.four_way = s.four_way /\ t.fin1_seq = s.fin1_seq /\ t.fin2_seq = s.fin2_seq

SameAcks(s, t) ==
    t.state = s.state /\ \A e \in Dirs : t.ep[e].last_ack = s.ep[e].last_ack

LEMMA SetStateIs ==
    ASSUME NEW s \in Session, NEW d \in Dirs, NEW sq \in Nat, NEW n \in Nat,
           NEW fin, NEW rst, NEW a \in Nat
    PROVE  LET p == Seg(d, sq, n, fin, rst, a)
               t == SetState(s, p)
           IN  /\ t \in Session /\ t.ep = s.ep /\ t.init_seq = s.init_seq /\ SameFins(s, t)
               /\ Over(s) => t = s
               /\ Over(t) \/ n > 0 \/ ~fin
<1> DEFINE p == Seg(d, sq, n, fin, rst, a)
           t == SetState(s, p)
<1>1. p.len = n /\ p.fin = fin /\ p.rst = rst  BY SegFields
<1> HIDE DEF p
<1>2. CASE Over(s)
    BY <1>2 DEF SetState, SameFins
<1>3. CASE ~Over(s)
    <2>1. PICK x \in States : /\ t = [s EXCEPT !.state = x]
                              /\ x \in {"FIN", "RST"} \/ n > 0 \/ ~fin
        <3>1. CASE n > 0  BY <1>1, <1>3, <3>1 DEF SetState, States, Session
        <3>2. CASE ~(n > 0) /\ fin  BY <1>1, <1>3, <3>2 DEF SetState, States, Session
        <3>3. CASE ~(n > 0) /\ ~fin  BY <1>1, <1>3, <3>3 DEF SetState, States, Session
        <3> QED  BY <3>1, <3>2, <3>3
    <2> HIDE DEF t
    <2>2. t \in Session /\ t.ep = s.ep /\ t.init_seq = s.init_seq /\ SameFins(s, t) /\ t.state = x
        BY <2>1 DEF SameFins, Session
    <2> QED  BY <1>3, <2>1, <2>2 DEF Over, p, t
<1> QED  BY <1>2, <1>3 DEF p

LEMMA UpdateAckIs ==
    ASSUME NEW s \in Session, NEW d \in Dirs, NEW sq \in Nat, NEW n \in Nat,
           NEW fin, NEW rst, NEW a \in Nat,
           s.init_seq[Other(d)] = FirstSeq(Other(d))
    PROVE  LET p == Seg(d, sq, n, fin, rst, a)
               t == UpdateAck(s, p)
           IN  /\ t \in Session /\ SameData(s, t) /\ SameFins(s, t) /\ t.state = s.state
               /\ t.ep[d].last_ack = s.ep[d].last_ack
               /\ Over(s) => t = s
               /\ \/ t.ep[Other(d)].last_ack = s.ep[Other(d)].last_ack
                  \/ t.ep[Other(d)].last_ack = a
<1> DEFINE p == Seg(d, sq, n, fin, rst, a)
           o == Other(d)
           t == UpdateAck(s, p)
<1>1. p.dir = d /\ p.fin = fin /\ p.rst = rst /\ p.ack = FirstSeq(o) + a  BY SegFields
<1>2. o \in Dirs /\ o # d /\ FirstSeq(o) \in Nat  BY DirFacts
<1> HIDE DEF p
<1>3. CASE Over(s) \/ fin \/ rst
    <2>1. t = s  BY <1>1, <1>3 DEF UpdateAck
    <2> QED  BY <2>1 DEF SameData, SameFins, p
<1>4. CASE ~(Over(s) \/ fin \/ rst)
    <2> DEFINE m == Max({s.ep[o].last_ack, a})
    <2>1. s.ep[o].last_ack \in Nat  BY <1>2 DEF Session, Endpoint
    <2>2. m \in Nat /\ m \in {s.ep[o].last_ack, a}  BY <2>1, MaxTwo
    <2>3. p.ack - s.init_seq[o] = a  BY <1>1, <1>2
    <2>4. t = [s EXCEPT !.ep[o].last_ack = m]
        BY <1>1, <1>4, <2>3 DEF UpdateAck
    <2> HIDE DEF m, t, o
    <2>5. t \in Session  BY <1>2, <2>2, <2>4 DEF Session, Endpoint
    <2>6. SameData(s, t) /\ SameFins(s, t) /\ t.state = s.state /\ t.ep[d].last_ack = s.ep[d].last_ack
          /\ t.ep[o].last_ack = m
        BY <1>2, <2>4 DEF SameData, SameFins, Session, Endpoint
    <2> QED  BY <1>4, <2>2, <2>5, <2>6 DEF p, t, o
<1> QED  BY <1>3, <1>4 DEF p

\* The bytes B[e] that have been captured of each direction are those handed to the
\* parser, without a gap, and those held behind the first gap.
Fits(s, B) ==
    \A e \in Dirs :
       /\ s.init_seq[e] = FirstSeq(e)
       /\ s.ep[e].last_offset \in 0 .. StreamLength(e)
       /\ s.ep[e].held \subseteq s.ep[e].last_offset + 1 .. StreamLength(e) - 1
       /\ B[e] = (0 .. s.ep[e].last_offset - 1) \cup s.ep[e].held

LEMMA FitsGap ==
    ASSUME NEW s \in Session, NEW B, Fits(s, B), NEW e \in Dirs
    PROVE  s.ep[e].last_offset = FirstGap(B[e], 0)
<1> DEFINE g == s.ep[e].last_offset
           L == StreamLength(e)
<1>1. L \in Nat /\ g \in 0 .. L  BY DirFacts DEF Fits
<1>2. B[e] = (0 .. g - 1) \cup s.ep[e].held /\ s.ep[e].held \subseteq g + 1 .. L - 1
    BY DEF Fits
<1> HIDE DEF g, L
<1>3. B[e] \in SUBSET (0 .. L - 1) /\ g \notin B[e] /\ 0 .. g - 1 \subseteq B[e]
    BY <1>1, <1>2
<1>4. 0 \in 0 .. L /\ g \in 0 .. L  BY <1>1
<1>5. FirstGap(B[e], 0) = g  BY <1>1, <1>3, <1>4, FirstGapIs
<1> QED  BY <1>5 DEF g

\* B, and n bytes of direction d from sq on.
Plus(B, d, sq, n) == [B EXCEPT ![d] = @ \cup (sq .. sq + n - 1)]

LEMMA ProcessDataIs ==
    ASSUME NEW s \in Session, NEW B \in [Dirs -> SUBSET Nat], Fits(s, B),
           NEW d \in Dirs, NEW sq \in Nat, NEW n \in Nat, n > 0, sq + n <= StreamLength(d),
           NEW fin, NEW rst, NEW a \in Nat,
           NEW o \in ProcessData(s, Seg(d, sq, n, fin, rst, a))
    PROVE  /\ o \in Result /\ SameFins(s, o.s) /\ SameAcks(s, o.s)
           /\ \A e \in Dirs : o.s.ep[e].last_offset \in s.ep[e].last_offset .. StreamLength(e)
           /\ o.why = <<>> => Fits(o.s, Plus(B, d, sq, n))
           /\ o.why # <<>> => Len(o.why) = 1 /\ o.why[1] # "discard" /\ o.why[1] # "fourway"
                              /\ s.ep[d].last_offset < StreamLength(d)
<1> DEFINE p == Seg(d, sq, n, fin, rst, a)
           last == s.ep[d].last_offset
           held == s.ep[d].held
           L == StreamLength(d)
           end == sq + n
           gap == FirstGap(held, end)
           C == Plus(B, d, sq, n)
           Out(l, h, w) == [s |-> [s EXCEPT !.ep[d].last_offset = l, !.ep[d].held = h], why |-> w]
<1>1. p.dir = d /\ p.seq = FirstSeq(d) + sq /\ p.len = n  BY SegFields
<1>2. L \in Nat /\ FirstSeq(d) \in Nat  BY DirFacts
<1>3. last \in 0 .. L /\ held \subseteq last + 1 .. L - 1 /\ B[d] = (0 .. last - 1) \cup held
      /\ s.init_seq[d] = FirstSeq(d)
    BY DEF Fits
<1>4. p.seq - s.init_seq[d] = sq /\ p.seq - s.init_seq[d] + p.len = end  BY <1>1, <1>2, <1>3
<1>5. o \in ProcessData(s, p)  OBVIOUS
<1> HIDE DEF p
<1>6. \/ end <= last /\ o = Out(last, held, <<>>)
      \/ end > last /\ sq > last /\ o = Out(last, held \cup (sq .. end - 1), <<>>)
      \/ end > last /\ sq > last /\ o = Out(last, held, <<"nomemory">>)
      \/ end > last /\ sq <= last /\ o = Out(gap, {b \in held : b > gap}, <<>>)
      \/ end > last /\ sq <= last /\ o = Out(end, held, <<"break">>)
    <2>1. CASE end <= last
        <3>1. ~(end > last)  BY <1>2, <1>3, <2>1
        <3>2. ProcessData(s, p) = {Out(last, held, <<>>)}
            BY <1>1, <1>4, <2>1, <3>1 DEF ProcessData
        <3> QED  BY <1>5, <2>1, <3>2
    <2>2. CASE end > last /\ sq > last
        <3>1. ~(end <= last)  BY <1>2, <1>3, <2>2
        <3>2. ProcessData(s, p) = {Out(last, held \cup (sq .. end - 1), <<>>),
                                   Out(last, held, <<"nomemory">>)}
            BY <1>1, <1>4, <2>2, <3>1 DEF ProcessData
        <3> QED  BY <1>5, <2>2, <3>2
    <2>3. CASE end > last /\ sq <= last
        <3>1. ~(end <= last) /\ ~(sq > last)  BY <1>2, <1>3, <2>3
        <3>2. ProcessData(s, p) = {Out(gap, {b \in held : b > gap}, <<>>), Out(end, held, <<"break">>)}
            BY <1>1, <1>4, <2>3, <3>1, ZenonT(60) DEF ProcessData
        <3> QED  BY <1>5, <2>3, <3>2
    <2> QED  BY <1>2, <1>3, <2>1, <2>2, <2>3
<1>7. ASSUME NEW l \in last .. L, NEW h \in SUBSET Nat, NEW w \in Seq(Reasons), o = Out(l, h, w)
      PROVE  /\ o \in Result /\ SameFins(s, o.s) /\ SameAcks(s, o.s) /\ o.why = w
             /\ o.s.ep[d].last_offset = l /\ o.s.ep[d].held = h
             /\ \A e \in Dirs : e # d => o.s.ep[e] = s.ep[e]
             /\ o.s.init_seq = s.init_seq
             /\ \A e \in Dirs : o.s.ep[e].last_offset \in s.ep[e].last_offset .. StreamLength(e)
    <2>1. l \in Nat  BY <1>2, <1>3
    <2>2. o.why = w /\ o.s = [s EXCEPT !.ep[d].last_offset = l, !.ep[d].held = h]  BY <1>7
    <2>3. o.s \in Session
        <3> DEFINE t == [s EXCEPT !.ep[d].last_offset = l]
        <3>1. t \in Session  BY <2>1, ZenonT(60) DEF Session, Endpoint
        <3>2. o.s = [t EXCEPT !.ep[d].held = h]  BY <2>2
        <3> HIDE DEF t
        <3>3. [t.ep[d] EXCEPT !.held = h] \in Endpoint  BY <3>1, ZenonT(60) DEF Session, Endpoint
        <3>4. [t.ep EXCEPT ![d] = [t.ep[d] EXCEPT !.held = h]] \in [Dirs -> Endpoint]
            BY <3>1, <3>3 DEF Session
        <3>5. o.s = [t EXCEPT !.ep = [t.ep EXCEPT ![d] = [t.ep[d] EXCEPT !.held = h]]]
            BY <3>2
        <3> QED  BY <3>1, <3>4, <3>5 DEF Session
    <2>4. o \in Result  BY <1>7, <2>2, <2>3 DEF Result
    <2>5. SameFins(s, o.s) /\ SameAcks(s, o.s) /\ o.s.init_seq = s.init_seq
        BY <2>2 DEF SameFins, SameAcks, Session, Endpoint
    <2>6. /\ o.s.ep[d].last_offset = l /\ o.s.ep[d].held = h
          /\ \A e \in Dirs : e # d => o.s.ep[e] = s.ep[e]
        BY <2>2 DEF Session, Endpoint
    <2>7. \A e \in Dirs : s.ep[e].last_offset \in 0 .. StreamLength(e) /\ StreamLength(e) \in Nat
        BY DirFacts DEF Fits
    <2>8. \A e \in Dirs : o.s.ep[e].last_offset \in s.ep[e].last_offset .. StreamLength(e)
        BY <1>7, <2>6, <2>7, SMTT(60)
    <2> QED  BY <2>2, <2>4, <2>5, <2>6, <2>8
<1>8. ASSUME NEW l \in last .. L, NEW h \in SUBSET (l + 1 .. L - 1), o = Out(l, h, <<>>),
             C[d] = (0 .. l - 1) \cup h
      PROVE  Fits(o.s, C)
    <2>1. h \in SUBSET Nat  BY <1>2, <1>3
    <2>2. <<>> \in Seq(Reasons)  OBVIOUS
    <2>3. /\ o.s.ep[d].last_offset = l /\ o.s.ep[d].held = h /\ o.s.init_seq = s.init_seq
          /\ \A e \in Dirs : e # d => o.s.ep[e] = s.ep[e]
        BY <1>7, <1>8, <2>1, <2>2
    <2>4. ASSUME NEW e \in Dirs
          PROVE  /\ o.s.init_seq[e] = FirstSeq(e)
                 /\ o.s.ep[e].last_offset \in 0 .. StreamLength(e)
                 /\ o.s.ep[e].held \subseteq o.s.ep[e].last_offset + 1 .. StreamLength(e) - 1
                 /\ C[e] = (0 .. o.s.ep[e].last_offset - 1) \cup o.s.ep[e].held
        <3>1. CASE e = d
            <4>1. l \in 0 .. L  BY <1>2, <1>3
            <4> HIDE DEF C
            <4> QED  BY <1>3, <1>8, <2>3, <3>1, <4>1
        <3>2. CASE e # d
            <4>1. C[e] = B[e]  BY <3>2 DEF Plus
            <4> QED  BY <2>3, <3>2, <4>1 DEF Fits
        <3> QED  BY <3>1, <3>2
    <2> QED  BY <2>4 DEF Fits
<1>9. C[d] = B[d] \cup (sq .. end - 1)  BY DEF Plus
<1>10. (held \in SUBSET Nat) /\ (B[d] \subseteq 0 .. L - 1)  BY <1>2, <1>3
<1>11. <<>> \in Seq(Reasons) /\ <<"nomemory">> \in Seq(Reasons) /\ <<"break">> \in Seq(Reasons)
    BY DEF Reasons
<1>12. end \in 1 .. L  BY <1>2
<1> HIDE DEF Out, C, gap, L, last, held, end
<1>13. CASE end <= last /\ o = Out(last, held, <<>>)
    <2>1. C[d] = (0 .. last - 1) \cup held
        <3>1. sq .. end - 1 \subseteq 0 .. last - 1  BY <1>3, <1>12, <1>13
        <3> QED  BY <1>3, <1>9, <3>1
    <2>2. last \in last .. L /\ held \in SUBSET (last + 1 .. L - 1)  BY <1>2, <1>3
    <2>3. Fits(o.s, C)  BY <1>8, <1>13, <2>1, <2>2
    <2> QED  BY <1>7, <1>10, <1>11, <1>13, <2>2, <2>3 DEF C, end
<1>14. CASE end > last /\ sq > last /\ o = Out(last, held \cup (sq .. end - 1), <<>>)
    <2> DEFINE h == held \cup (sq .. end - 1)
    <2>1. h \in SUBSET (last + 1 .. L - 1) /\ h \in SUBSET Nat /\ last \in last .. L
        BY <1>2, <1>3, <1>12, <1>14
    <2>2. C[d] = (0 .. last - 1) \cup h  BY <1>3, <1>9
    <2>3. Fits(o.s, C)  BY <1>8, <1>14, <2>1, <2>2
    <2> QED  BY <1>7, <1>11, <1>14, <2>1, <2>3 DEF C, end
<1>15. CASE end > last /\ sq > last /\ o = Out(last, held, <<"nomemory">>)
    <2>1. last \in last .. L /\ last < L  BY <1>2, <1>3, <1>12, <1>15
    <2>2. o.why = <<"nomemory">> /\ o \in Result /\ SameFins(s, o.s) /\ SameAcks(s, o.s)
        BY <1>7, <1>10, <1>11, <1>15, <2>1
    <2>3. \A e \in Dirs : o.s.ep[e].last_offset \in s.ep[e].last_offset .. StreamLength(e)
        BY <1>7, <1>10, <1>11, <1>15, <2>1
    <2>4. o.why # <<>> /\ Len(o.why) = 1 /\ o.why[1] = "nomemory"  BY <2>2
    <2> QED  BY <2>1, <2>2, <2>3, <2>4 DEF last, L
<1>16. CASE end > last /\ sq <= last /\ o = Out(gap, {b \in held : b > gap}, <<>>)
    <2> DEFINE h == {b \in held : b > gap}
    <2>1. held \in SUBSET (0 .. L - 1) /\ end \in 0 .. L  BY <1>2, <1>3, <1>12
    <2>2. gap \in end .. L /\ gap \notin held /\ end .. gap - 1 \subseteq held
        BY <1>2, <2>1, FirstGapEnds DEF gap
    <2>3. gap \in last .. L /\ h \in SUBSET (gap + 1 .. L - 1) /\ h \in SUBSET Nat
        BY <1>2, <1>3, <1>12, <1>16, <2>1, <2>2
    <2>4. C[d] = (0 .. gap - 1) \cup h
        <3>1. ASSUME NEW b \in C[d] PROVE b \in (0 .. gap - 1) \cup h
            <4>1. b \in 0 .. last - 1 \/ b \in held \/ b \in sq .. end - 1  BY <1>3, <1>9, <3>1
            <4>2. CASE b \in 0 .. last - 1 \/ b \in sq .. end - 1
                BY <1>2, <1>3, <1>12, <1>16, <2>2, <4>2
            <4>3. CASE b \in held
                <5>1. b \in 0 .. L - 1 /\ b # gap  BY <2>1, <2>2, <4>3
                <5>2. CASE b > gap  BY <4>3, <5>2
                <5>3. CASE ~(b > gap)  BY <1>2, <1>12, <2>2, <5>1, <5>3
                <5> QED  BY <5>2, <5>3
            <4> QED  BY <4>1, <4>2, <4>3
        <3>2. ASSUME NEW b \in (0 .. gap - 1) \cup h PROVE b \in C[d]
            <4>1. CASE b \in h  BY <1>3, <1>9, <4>1
            <4>2. CASE b \in 0 .. gap - 1
                <5>1. b \in 0 .. last - 1 \/ b \in sq .. end - 1 \/ b \in end .. gap - 1
                    BY <1>2, <1>3, <1>12, <1>16, <2>2, <4>2
                <5> QED  BY <1>3, <1>9, <2>2, <5>1
            <4> QED  BY <3>2, <4>1, <4>2
        <3> QED  BY <3>1, <3>2
    <2>5. Fits(o.s, C)  BY <1>8, <1>16, <2>3, <2>4
    <2> QED  BY <1>7, <1>11, <1>16, <2>3, <2>5 DEF C, end
<1>17. CASE end > last /\ sq <= last /\ o = Out(end, held, <<"break">>)
    <2>1. end \in last .. L /\ last < L  BY <1>2, <1>3, <1>12, <1>17
    <2>2. o.why = <<"break">> /\ o \in Result /\ SameFins(s, o.s) /\ SameAcks(s, o.s)
        BY <1>7, <1>10, <1>11, <1>17, <2>1
    <2>3. \A e \in Dirs : o.s.ep[e].last_offset \in s.ep[e].last_offset .. StreamLength(e)
        BY <1>7, <1>10, <1>11, <1>17, <2>1
    <2>4. o.why # <<>> /\ Len(o.why) = 1 /\ o.why[1] = "break"  BY <2>2
    <2> QED  BY <2>1, <2>2, <2>3, <2>4 DEF last, L
<1> QED  BY <1>6, <1>13, <1>14, <1>15, <1>16, <1>17

\* What the FIN flag and the acknowledgement number of a packet do to the four-way close.
FinStep(s, t, p) ==
    \/ t.fin1_seq = s.fin1_seq /\ t.fin2_seq = s.fin2_seq /\ t.four_way = s.four_way
    \/ p.fin /\ s.four_way = "INIT" /\ t.fin1_seq = p.seq /\ t.fin2_seq = s.fin2_seq
    \/ p.fin /\ s.four_way # "INIT" /\ t.fin1_seq = s.fin1_seq /\ t.fin2_seq = p.seq
    \/ p.ack = s.fin1_seq + 1 /\ t.fin1_seq = s.fin1_seq /\ t.fin2_seq = s.fin2_seq
    \/ p.ack = s.fin2_seq + 1 /\ t.fin1_seq = s.fin1_seq /\ t.fin2_seq = s.fin2_seq

LEMMA ProcessFlagsIs ==
    ASSUME NEW o \in Result, NEW d \in Dirs, NEW sq \in Nat, NEW n \in Nat,
           NEW fin, NEW rst, NEW a \in Nat
    PROVE  LET p == Seg(d, sq, n, fin, rst, a)
               q == ProcessFlags(o, p)
           IN  /\ q \in Result /\ SameData(o.s, q.s) /\ SameAcks(o.s, q.s)
               /\ FinStep(o.s, q.s, p)
               /\ \/ q.why = o.why
                  \/ rst /\ q.why = Append(o.why, "rst")
                  \/ /\ q.why = Append(o.why, "fourway") /\ ~fin
                     /\ p.ack # o.s.fin1_seq + 1 /\ p.ack = o.s.fin2_seq + 1
<1> DEFINE p == Seg(d, sq, n, fin, rst, a)
           q == ProcessFlags(o, p)
           s == o.s
<1>1. p.seq = FirstSeq(d) + sq /\ p.fin = fin /\ p.rst = rst /\ p.ack = FirstSeq(Other(d)) + a
    BY SegFields
<1>2. p.seq \in Nat  BY <1>1, DirFacts
<1>3. s \in Session /\ o.why \in Seq(Reasons)  BY DEF Result
<1>4. "rst" \in Reasons /\ "fourway" \in Reasons  BY DEF Reasons
<1>5. FirstSeq(Other(d)) + a \in Nat  BY DirFacts
<1> HIDE DEF p
<1>6. ASSUME NEW t \in Session, t.ep = s.ep, t.init_seq = s.init_seq, t.state = s.state,
             NEW w \in Seq(Reasons), q = [s |-> t, why |-> w]
      PROVE  q \in Result /\ SameData(o.s, q.s) /\ SameAcks(o.s, q.s) /\ q.s = t /\ q.why = w
    BY <1>6 DEF Result, SameData, SameAcks
<1>7. CASE fin
    <2> DEFINE t == ProcessFin(s, p)
    <2>1. q = [s |-> t, why |-> o.why]  BY <1>1, <1>7 DEF ProcessFlags, Result
    <2>2. t \in Session /\ t.ep = s.ep /\ t.init_seq = s.init_seq /\ t.state = s.state
          /\ FinStep(s, t, p)
        <3>1. CASE s.four_way = "INIT"
            <4>1. t = [s EXCEPT !.four_way = "FIN1", !.fin1_seq = p.seq]
                BY <3>1 DEF ProcessFin
            <4> HIDE DEF t
            <4> QED  BY <1>1, <1>2, <1>3, <1>7, <3>1, <4>1 DEF FinStep, Session, FourWays
        <3>2. CASE s.four_way \in {"FIN1", "FIN1_ACK"}
            <4>1. t = [s EXCEPT !.four_way = "FIN2", !.fin2_seq = p.seq]
                BY <3>2 DEF ProcessFin
            <4> HIDE DEF t
            <4> QED  BY <1>1, <1>2, <1>3, <1>7, <3>2, <4>1 DEF FinStep, Session, FourWays
        <3>3. CASE s.four_way # "INIT" /\ s.four_way \notin {"FIN1", "FIN1_ACK"}
            <4>1. t = s  BY <3>3 DEF ProcessFin
            <4> HIDE DEF t
            <4> QED  BY <1>3, <4>1 DEF FinStep
        <3> QED  BY <3>1, <3>2, <3>3
    <2> HIDE DEF t, q
    <2>3. q \in Result /\ SameData(o.s, q.s) /\ SameAcks(o.s, q.s) /\ q.s = t /\ q.why = o.why
        BY <1>3, <1>6, <2>1, <2>2
    <2> QED  BY <2>2, <2>3 DEF p, q
<1>8. CASE ~fin /\ rst
    <2>1. q = [s |-> s, why |-> Append(o.why, "rst")]  BY <1>1, <1>8 DEF ProcessFlags, Result
    <2>2. Append(o.why, "rst") \in Seq(Reasons)  BY <1>3, <1>4
    <2>3. FinStep(s, s, p)  BY DEF FinStep
    <2> HIDE DEF q
    <2>4. q \in Result /\ SameData(o.s, q.s) /\ SameAcks(o.s, q.s) /\ q.s = s
          /\ q.why = Append(o.why, "rst")
        BY <1>3, <1>6, <2>1, <2>2
    <2> QED  BY <1>8, <2>3, <2>4 DEF p, q
<1>9. CASE ~fin /\ ~rst /\ p.ack = s.fin1_seq + 1
    <2> DEFINE t == [s EXCEPT !.four_way = "FIN1_ACK"]
    <2>1. q = [s |-> t, why |-> o.why]  BY <1>1, <1>9 DEF ProcessFlags, Result
    <2>2. t \in Session /\ t.ep = s.ep /\ t.init_seq = s.init_seq /\ t.state = s.state
          /\ FinStep(s, t, p)
        BY <1>3, <1>9 DEF FinStep, Session, FourWays
    <2> HIDE DEF t, q
    <2>3. q \in Result /\ SameData(o.s, q.s) /\ SameAcks(o.s, q.s) /\ q.s = t /\ q.why = o.why
        BY <1>3, <1>6, <2>1, <2>2
    <2> QED  BY <2>2, <2>3 DEF p, q
<1>10. CASE ~fin /\ ~rst /\ p.ack # s.fin1_seq + 1 /\ p.ack = s.fin2_seq + 1
    <2> DEFINE t == [s EXCEPT !.four_way = "FIN2_ACK"]
    <2>1. q = [s |-> t, why |-> Append(o.why, "fourway")]
        BY <1>1, <1>10 DEF ProcessFlags, Result
    <2>2. t \in Session /\ t.ep = s.ep /\ t.init_seq = s.init_seq /\ t.state = s.state
          /\ FinStep(s, t, p)
        BY <1>3, <1>10 DEF FinStep, Session, FourWays
    <2>3. Append(o.why, "fourway") \in Seq(Reasons)  BY <1>3, <1>4
    <2> HIDE DEF t, q
    <2>4. q \in Result /\ SameData(o.s, q.s) /\ SameAcks(o.s, q.s) /\ q.s = t
          /\ q.why = Append(o.why, "fourway")
        BY <1>6, <2>1, <2>2, <2>3
    <2> QED  BY <1>10, <2>2, <2>4 DEF p, q
<1>11. CASE ~fin /\ ~rst /\ p.ack # s.fin1_seq + 1 /\ p.ack # s.fin2_seq + 1
    <2>1. q = o  BY <1>1, <1>11 DEF ProcessFlags
    <2>2. FinStep(s, s, p)  BY DEF FinStep
    <2> HIDE DEF q
    <2> QED  BY <2>1, <2>2 DEF p, q, SameData, SameAcks
<1> QED  BY <1>7, <1>8, <1>9, <1>10, <1>11 DEF p, q

\* The packet's acknowledgement number is that of the second FIN.
AcksFin2(s, p) == ~p.fin /\ p.ack # s.fin1_seq + 1 /\ p.ack = s.fin2_seq + 1

LEMMA FitsSame ==
    ASSUME NEW s, NEW t, NEW B, SameData(s, t), Fits(s, B)
    PROVE  Fits(t, B)
BY DEF SameData, Fits

\* What can be said of an outcome of ch_tcp_session_packet_handle: where the data leaves
\* the session, and why it may have been closed.
Handled(s, o, B, p, d, sq, n) ==
    /\ o \in Result /\ SameAcks(s, o.s) /\ FinStep(s, o.s, p)
    /\ \A e \in Dirs : o.s.ep[e].last_offset \in s.ep[e].last_offset .. StreamLength(e)
    /\ o.why \in {<<>>, <<"fourway">>} => Fits(o.s, Plus(B, d, sq, n))
    /\ o.why = <<"fourway">> => AcksFin2(s, p)
    /\ n = 0 \/ s.ep[d].last_ack <= s.ep[d].last_offset =>
          \A i \in DOMAIN o.why : o.why[i] # "discard"
    /\ /\ n = 0 \/ s.ep[d].last_ack <= s.ep[d].last_offset
       /\ n = 0 \/ ~p.rst
       /\ AcksFin2(s, p) => s.ep[d].last_offset = StreamLength(d)
       => Len(o.why) <= 1

LEMMA PacketHandleIs ==
    ASSUME NEW s \in Session, NEW B \in [Dirs -> SUBSET Nat], Fits(s, B),
           NEW d \in Dirs, NEW sq \in Nat, NEW n \in Nat, sq + n <= StreamLength(d),
           NEW fin, NEW rst, NEW a \in Nat,
           NEW p, p = Seg(d, sq, n, fin, rst, a),
           NEW o \in PacketHandle(s, p)
    PROVE  Handled(s, o, B, p, d, sq, n)
<1> DEFINE C == Plus(B, d, sq, n)
<1>1. p.dir = d /\ p.len = n /\ p.fin = fin /\ p.rst = rst  BY SegFields
<1>2. \A e \in Dirs : s.ep[e].last_offset \in 0 .. StreamLength(e) /\ StreamLength(e) \in Nat
    BY DirFacts DEF Fits
<1>3. CASE n = 0
    <2> DEFINE r == [s |-> s, why |-> <<>>]
    <2>1. o = ProcessFlags(r, p)  BY <1>1, <1>3 DEF PacketHandle
    <2>2. r \in Result /\ r.s = s /\ r.why = <<>>  BY DEF Result
    <2> HIDE DEF r
    <2>3. /\ o \in Result /\ SameData(s, o.s) /\ SameAcks(s, o.s) /\ FinStep(s, o.s, p)
          /\ \/ o.why = <<>>
             \/ rst /\ o.why = Append(<<>>, "rst")
             \/ o.why = Append(<<>>, "fourway") /\ AcksFin2(s, p)
        <3>1. o = ProcessFlags(r, Seg(d, sq, n, fin, rst, a))  BY <2>1
        <3>2. /\ o \in Result /\ SameData(r.s, o.s) /\ SameAcks(r.s, o.s) /\ FinStep(r.s, o.s, p)
              /\ \/ o.why = r.why
                 \/ rst /\ o.why = Append(r.why, "rst")
                 \/ /\ o.why = Append(r.why, "fourway") /\ ~fin
                    /\ p.ack # r.s.fin1_seq + 1 /\ p.ack = r.s.fin2_seq + 1
            BY <2>2, <3>1, ProcessFlagsIs
        <3> QED  BY <1>1, <2>2, <3>2 DEF AcksFin2
    <2>4. C = B
        <3>1. sq .. sq + n - 1 = {}  BY <1>3
        <3>2. B[d] \cup (sq .. sq + n - 1) = B[d]  BY <3>1
        <3> QED  BY <3>2 DEF Plus
    <2>5. Fits(o.s, C)  BY <2>3, <2>4, FitsSame
    <2>6. \A e \in Dirs : o.s.ep[e].last_offset \in s.ep[e].last_offset .. StreamLength(e)
        BY <1>2, <2>3 DEF SameData
    <2>7. \/ o.why = <<>>
          \/ o.why = <<"rst">>
          \/ o.why = <<"fourway">> /\ AcksFin2(s, p)
        BY <2>3
    <2>8. (\A i \in DOMAIN o.why : o.why[i] # "discard") /\ Len(o.why) <= 1
        <3>1. CASE o.why = <<>>  BY <3>1
        <3>2. CASE o.why = <<"rst">>  BY <3>2
        <3>3. CASE o.why = <<"fourway">>  BY <3>3
        <3> QED  BY <2>7, <3>1, <3>2, <3>3
    <2>9. <<"rst">> # <<"fourway">> /\ <<>> # <<"fourway">>  OBVIOUS
    <2> HIDE DEF C
    <2> QED  BY <2>3, <2>5, <2>6, <2>7, <2>8, <2>9 DEF C, Handled
<1>4. CASE n # 0
    <2>1. PICK r \in ProcessData(s, p) :
            o = IF Discarded(r.s, p) THEN [r EXCEPT !.why = Append(@, "discard")]
                ELSE ProcessFlags(r, p)
        BY <1>1, <1>4 DEF PacketHandle
    <2>2. n > 0  BY <1>4
    <2>3. /\ r \in Result /\ SameFins(s, r.s) /\ SameAcks(s, r.s)
          /\ \A e \in Dirs : r.s.ep[e].last_offset \in s.ep[e].last_offset .. StreamLength(e)
          /\ r.why = <<>> => Fits(r.s, C)
          /\ r.why # <<>> => Len(r.why) = 1 /\ r.why[1] # "discard" /\ r.why[1] # "fourway"
                             /\ s.ep[d].last_offset < StreamLength(d)
        <3>1. r \in ProcessData(s, Seg(d, sq, n, fin, rst, a))  BY <2>1
        <3> QED  BY <2>2, <3>1, ProcessDataIs
    <2> HIDE DEF C
    <2>4. r.s \in Session /\ r.why \in Seq(Reasons)  BY <2>3 DEF Result
    <2>5. CASE Discarded(r.s, p)
        <3>1. o = [r EXCEPT !.why = Append(@, "discard")]  BY <2>1, <2>5
        <3>2. o.s = r.s /\ o.why = Append(r.why, "discard")  BY <2>3, <3>1 DEF Result
        <3>3. o \in Result
            <4>1. Append(r.why, "discard") \in Seq(Reasons)  BY <2>4 DEF Reasons
            <4> QED  BY <2>3, <3>1, <4>1 DEF Result
        <3>4. ~(s.ep[d].last_ack <= s.ep[d].last_offset)
            <4>1. r.s.ep[d].last_ack = s.ep[d].last_ack  BY <2>3 DEF SameAcks
            <4>2. r.s.ep[d].last_offset \in s.ep[d].last_offset .. StreamLength(d)  BY <2>3
            <4>3. r.s.ep[d].last_ack > r.s.ep[d].last_offset  BY <1>1, <2>5 DEF Discarded
            <4>4. s.ep[d].last_ack \in Nat  BY DEF Session, Endpoint
            <4> QED  BY <1>2, <4>1, <4>2, <4>3, <4>4
        <3>5. o.why \notin {<<>>, <<"fourway">>}
            <4>1. o.why[Len(r.why) + 1] = "discard" /\ Len(o.why) = Len(r.why) + 1 /\ Len(r.why) \in Nat
                BY <2>4, <3>2
            <4>2. ASSUME o.why = <<"fourway">> PROVE FALSE
                <5>1. Len(o.why) = 1 /\ o.why[1] = "fourway"  BY <4>2
                <5> QED  BY <4>1, <5>1
            <4> QED  BY <4>1, <4>2
        <3>6. SameAcks(s, o.s) /\ FinStep(s, o.s, p)  BY <2>3, <3>2 DEF SameFins, FinStep
        <3> QED  BY <2>3, <2>2, <3>2, <3>3, <3>4, <3>5, <3>6 DEF Handled
    <2>6. CASE ~Discarded(r.s, p)
        <3>1. o = ProcessFlags(r, p)  BY <2>1, <2>6
        <3>2. /\ o \in Result /\ SameData(r.s, o.s) /\ SameAcks(r.s, o.s) /\ FinStep(r.s, o.s, p)
              /\ \/ o.why = r.why
                 \/ rst /\ o.why = Append(r.why, "rst")
                 \/ o.why = Append(r.why, "fourway") /\ AcksFin2(r.s, p)
            <4>1. o = ProcessFlags(r, Seg(d, sq, n, fin, rst, a))  BY <3>1
            <4>2. /\ o \in Result /\ SameData(r.s, o.s) /\ SameAcks(r.s, o.s) /\ FinStep(r.s, o.s, p)
                  /\ \/ o.why = r.why
                     \/ rst /\ o.why = Append(r.why, "rst")
                     \/ /\ o.why = Append(r.why, "fourway") /\ ~fin
                        /\ p.ack # r.s.fin1_seq + 1 /\ p.ack = r.s.fin2_seq + 1
                BY <2>3, <4>1, ProcessFlagsIs, SMTT(60)
            <4> QED  BY <1>1, <4>2 DEF AcksFin2
        <3>3. FinStep(s, o.s, p) /\ (AcksFin2(r.s, p) => AcksFin2(s, p))
            BY <2>3, <3>2 DEF SameFins, FinStep, AcksFin2
        <3>4. SameAcks(s, o.s)  BY <2>3, <3>2 DEF SameAcks
        <3>5. \A e \in Dirs : o.s.ep[e].last_offset \in s.ep[e].last_offset .. StreamLength(e)
            BY <2>3, <3>2 DEF SameData
        <3>6. r.why = <<>> => Fits(o.s, C)  BY <2>3, <3>2, FitsSame
        <3>7. Len(r.why) \in Nat  BY <2>4
        <3>8. ASSUME o.why \in {<<>>, <<"fourway">>}
              PROVE  r.why = <<>> /\ (o.why = <<"fourway">> => AcksFin2(s, p))
            <4>1. CASE o.why = r.why
                <5>1. ASSUME r.why = <<"fourway">> PROVE FALSE
                    <6>1. r.why[1] = "fourway" /\ r.why # <<>>  BY <5>1
                    <6> QED  BY <2>3, <6>1
                <5>2. <<>> # <<"fourway">>  OBVIOUS
                <5> QED  BY <3>8, <4>1, <5>1, <5>2
            <4>2. CASE rst /\ o.why = Append(r.why, "rst")
                <5>1. Len(o.why) = Len(r.why) + 1 /\ o.why[Len(r.why) + 1] = "rst"
                    BY <2>4, <4>2
                <5>2. ASSUME o.why = <<"fourway">> PROVE FALSE
                    <6>1. Len(o.why) = 1 /\ o.why[1] = "fourway"  BY <5>2
                    <6> QED  BY <3>7, <5>1, <6>1
                <5>3. ASSUME o.why = <<>> PROVE FALSE
                    <6>1. Len(o.why) = 0  BY <5>3
                    <6> QED  BY <3>7, <5>1, <6>1
                <5> QED  BY <3>8, <5>2, <5>3
            <4>3. CASE o.why = Append(r.why, "fourway") /\ AcksFin2(r.s, p)
                <5>1. Len(o.why) = Len(r.why) + 1  BY <2>4, <4>3
                <5>2. Len(o.why) <= 1
                    <6>1. CASE o.why = <<>>  BY <6>1
                    <6>2. CASE o.why = <<"fourway">>  BY <6>2
                    <6> QED  BY <3>8, <6>1, <6>2
                <5>3. Len(r.why) = 0  BY <3>7, <5>1, <5>2
                <5>4. r.why = <<>>  BY <2>4, <5>3
                <5> QED  BY <3>3, <4>3, <5>4
            <4> QED  BY <3>2, <4>1, <4>2, <4>3
        <3>9. \A i \in DOMAIN o.why : o.why[i] # "discard"
            <4>1. \A i \in DOMAIN r.why : r.why[i] # "discard"
                <5>1. r.why = <<>> \/ (Len(r.why) = 1 /\ r.why[1] # "discard")  BY <2>3
                <5> QED  BY <2>4, <5>1
            <4>2. ASSUME NEW x \in Reasons, x # "discard", o.why = Append(r.why, x)
                  PROVE  \A i \in DOMAIN o.why : o.why[i] # "discard"
                BY <2>4, <4>1, <4>2
            <4>3. "rst" \in Reasons /\ "fourway" \in Reasons  BY DEF Reasons
            <4> QED  BY <3>2, <4>1, <4>2, <4>3
        <3>10. ASSUME ~rst, AcksFin2(s, p) => s.ep[d].last_offset = StreamLength(d)
               PROVE  Len(o.why) <= 1
            <4>1. r.why = <<>> \/ (Len(r.why) = 1 /\ s.ep[d].last_offset < StreamLength(d))  BY <2>3
            <4>2. CASE o.why = r.why
                <5>1. CASE r.why = <<>>  BY <4>2, <5>1
                <5>2. CASE Len(r.why) = 1  BY <4>2, <5>2
                <5> QED  BY <4>1, <5>1, <5>2
            <4>3. CASE o.why = Append(r.why, "fourway") /\ AcksFin2(r.s, p)
                <5>1. ~(s.ep[d].last_offset < StreamLength(d))  BY <1>2, <3>3, <3>10, <4>3
                <5> QED  BY <4>1, <4>3, <5>1
            <4> QED  BY <3>2, <3>10, <4>2, <4>3
        <3>11. o.why \in {<<>>, <<"fourway">>} => Fits(o.s, C)  BY <3>6, <3>8
        <3>12. o.why = <<"fourway">> => AcksFin2(s, p)  BY <3>8
        <3>13. ~rst /\ (AcksFin2(s, p) => s.ep[d].last_offset = StreamLength(d)) => Len(o.why) <= 1
            BY <3>10
        <3>14. n # 0 /\ o \in Result  BY <2>2, <3>2
        <3> HIDE DEF C
        <3> QED  BY <1>1, <3>3, <3>4, <3>5, <3>9, <3>11, <3>12, <3>13, <3>14, Zenon DEF C, Handled
    <2> QED  BY <2>5, <2>6
<1> QED  BY <1>3, <1>4

\* The session between the first look at a packet's flags and the handling of its data.
Prepared(s, t, d, n, fin, a) ==
    /\ SameData(s, t) /\ SameFins(s, t)
    /\ Over(s) => t = s
    /\ Over(t) \/ n > 0 \/ ~fin
    /\ t.ep[d].last_ack = s.ep[d].last_ack
    /\ \/ t.ep[Other(d)].last_ack = s.ep[Other(d)].last_ack
       \/ ~Over(s) /\ t.ep[Other(d)].last_ack = a

LEMMA DataProcessIs ==
    ASSUME NEW s \in Session, NEW B \in [Dirs -> SUBSET Nat], Fits(s, B),
           NEW d \in Dirs, NEW sq \in Nat, NEW n \in Nat, sq + n <= StreamLength(d),
           NEW fin, NEW rst, NEW a \in Nat,
           NEW p, p = Seg(d, sq, n, fin, rst, a),
           DataProcess(s, p)
    PROVE  \E t \in Session :
              /\ Prepared(s, t, d, n, fin, a) /\ Fits(t, B)
              /\ \/ n = 0 /\ ~fin /\ sess' = t /\ fed' = fed /\ ended' = ended
                 \/ \E o \in Result :
                      /\ Handled(t, o, B, p, d, sq, n)
                      /\ fed' = [e \in Dirs |-> o.s.ep[e].last_offset]
                      /\ sess' = IF o.why = <<>> THEN o.s ELSE None
                      /\ ended' = o.why
<1> DEFINE t0 == SetState(s, p)
           t == UpdateAck(t0, p)
<1>1. p.dir = d /\ p.len = n /\ p.fin = fin /\ p.rst = rst  BY SegFields
<1>2. /\ t0 \in Session /\ t0.ep = s.ep /\ t0.init_seq = s.init_seq /\ SameFins(s, t0)
      /\ Over(s) => t0 = s
      /\ Over(t0) \/ n > 0 \/ ~fin
    BY SetStateIs
<1>3. t0.init_seq[Other(d)] = FirstSeq(Other(d))  BY <1>2, DirFacts DEF Fits
<1> HIDE DEF t0
<1>4. /\ t \in Session /\ SameData(t0, t) /\ SameFins(t0, t) /\ t.state = t0.state
      /\ t.ep[d].last_ack = t0.ep[d].last_ack
      /\ Over(t0) => t = t0
      /\ \/ t.ep[Other(d)].last_ack = t0.ep[Other(d)].last_ack
         \/ t.ep[Other(d)].last_ack = a
    BY <1>2, <1>3, UpdateAckIs
<1> HIDE DEF t
<1>5. SameData(s, t) /\ SameFins(s, t)  BY <1>2, <1>4 DEF SameData, SameFins
<1>6. Over(t0) => Over(t)  BY <1>4
<1>7. Prepared(s, t, d, n, fin, a)
    <2>1. Over(s) => t = s  BY <1>2, <1>4
    <2>2. t.ep[d].last_ack = s.ep[d].last_ack  BY <1>2, <1>4
    <2>3. \/ t.ep[Other(d)].last_ack = s.ep[Other(d)].last_ack
          \/ ~Over(s) /\ t.ep[Other(d)].last_ack = a
        <3>1. CASE Over(s)  BY <2>1, <3>1
        <3>2. CASE ~Over(s)  BY <1>2, <1>4, <3>2
        <3> QED  BY <3>1, <3>2
    <2> QED  BY <1>2, <1>5, <1>6, <2>1, <2>2, <2>3 DEF Prepared
<1>8. Fits(t, B)  BY <1>5, FitsSame
<1>9. \/ Ignored(t, p) /\ sess' = t /\ fed' = fed /\ ended' = ended
      \/ \E o \in PacketHandle(t, p) :
           /\ fed' = [e \in Dirs |-> o.s.ep[e].last_offset]
           /\ sess' = IF o.why = <<>> THEN o.s ELSE None
           /\ ended' = o.why
    BY DEF DataProcess, t, t0
<1>10. CASE Ignored(t, p) /\ sess' = t /\ fed' = fed /\ ended' = ended
    <2>1. n = 0 /\ ~Over(t)  BY <1>1, <1>10 DEF Ignored
    <2>2. ~fin  BY <1>7, <2>1 DEF Prepared
    <2> QED  BY <1>4, <1>7, <1>8, <1>10, <2>1, <2>2
<1>11. ASSUME NEW o \in PacketHandle(t, p),
              fed' = [e \in Dirs |-> o.s.ep[e].last_offset],
              sess' = IF o.why = <<>> THEN o.s ELSE None,
              ended' = o.why
       PROVE  \E r \in Result :
                      /\ Handled(t, r, B, p, d, sq, n)
                      /\ fed' = [e \in Dirs |-> r.s.ep[e].last_offset]
                      /\ sess' = IF r.why = <<>> THEN r.s ELSE None
                      /\ ended' = r.why
    <2>1. Handled(t, o, B, p, d, sq, n)  BY <1>4, <1>8, PacketHandleIs
    <2>2. o \in Result  BY <2>1 DEF Handled
    <2> QED  BY <1>11, <2>1, <2>2
<1> QED  BY <1>4, <1>7, <1>8, <1>9, <1>10, <1>11

LEMMA NewSessionIs ==
    ASSUME NEW r, r.req_sn_init = FirstSeq("req"), r.res_sn_init = FirstSeq("res"),
           NEW B \in [Dirs -> SUBSET Nat], \A e \in Dirs : B[e] = {}
    PROVE  LET s == NewSession(r)
           IN  /\ s \in Session /\ Fits(s, B) /\ ~Over(s)
               /\ \A e \in Dirs : s.ep[e].last_ack = 0 /\ s.ep[e].last_offset = 0
               /\ s.four_way = "INIT" /\ s.fin1_seq = 0 /\ s.fin2_seq = 0
<1> DEFINE s == NewSession(r)
<1>1. \A e \in Dirs : FirstSeq(e) \in Nat /\ StreamLength(e) \in Nat  BY DirFacts
<1>2. \A e \in Dirs : s.init_seq[e] = FirstSeq(e)  BY DEF NewSession, Dirs
<1>3. s.init_seq = [e \in Dirs |-> FirstSeq(e)]  BY DEF NewSession, Dirs
<1>4. s.init_seq \in [Dirs -> Nat]  BY <1>1, <1>3
<1>5. s.ep \in [Dirs -> Endpoint]  BY DEF NewSession, NewEndpoint, Endpoint
<1>6. /\ s = [state |-> "INIT", four_way |-> "INIT", fin1_seq |-> 0, fin2_seq |-> 0,
              init_seq |-> s.init_seq, ep |-> s.ep]
      /\ \A e \in Dirs : s.ep[e].last_ack = 0 /\ s.ep[e].last_offset = 0 /\ s.ep[e].held = {}
    BY DEF NewSession, NewEndpoint
<1> HIDE DEF s
<1>7. s \in Session  BY <1>4, <1>5, <1>6 DEF Session, States, FourWays
<1>8. s.state = "INIT" /\ s.four_way = "INIT" /\ s.fin1_seq = 0 /\ s.fin2_seq = 0  BY <1>6
<1>9. Fits(s, B)
    <2> SUFFICES ASSUME NEW e \in Dirs
                 PROVE  /\ s.init_seq[e] = FirstSeq(e)
                        /\ s.ep[e].last_offset \in 0 .. StreamLength(e)
                        /\ s.ep[e].held \subseteq s.ep[e].last_offset + 1 .. StreamLength(e) - 1
                        /\ B[e] = (0 .. s.ep[e].last_offset - 1) \cup s.ep[e].held
        BY DEF Fits
    <2>1. 0 .. 0 - 1 = {}  OBVIOUS
    <2> QED  BY <1>1, <1>2, <1>6, <2>1
<1> QED  BY <1>6, <1>7, <1>8, <1>9 DEF s, Over

-----------------------------------------------------------------------------
(* The hosts. *)

Sent == [all : SUBSET Nat, bytes : SUBSET Nat, rst : BOOLEAN]
Rcvd == [bytes : SUBSET Nat, fin : BOOLEAN]

\* Everything sent passes the tap, what has arrived has been sent, a FIN comes after all
\* data, and nobody sends before its part of the handshake is over.
NetInv ==
    /\ hs \in 0 .. 4
    /\ snt \in [Dirs -> Sent]
    /\ rcv \in [Dirs -> Rcvd]
    /\ \A d \in Dirs :
          /\ snt[d].all = snt[d].bytes
          /\ snt[d].bytes \subseteq 0 .. StreamLength(d) - 1
          /\ rcv[d].bytes \subseteq snt[d].bytes
          /\ rcv[d].fin => 0 .. StreamLength(d) - 1 \subseteq snt[d].bytes
    /\ hs < 3 => snt["req"].bytes = {}
    /\ hs < 4 => snt["res"].bytes = {} /\ ~rcv["res"].fin

\* The bytes of each direction that have passed the tap.
Captured == [d \in Dirs |-> snt[d].bytes]

LEMMA NetInit == HostInit => NetInv
<1> SUFFICES ASSUME HostInit PROVE NetInv
    OBVIOUS
<1>1. hs = 0 /\ snt = [d \in Dirs |-> [all |-> {}, bytes |-> {}, rst |-> FALSE]]
      /\ rcv = [d \in Dirs |-> [bytes |-> {}, fin |-> FALSE]]
    BY DEF HostInit
<1>2. snt \in [Dirs -> Sent] /\ rcv \in [Dirs -> Rcvd]  BY <1>1 DEF Sent, Rcvd
<1>3. \A d \in Dirs : /\ snt[d].all = {} /\ snt[d].bytes = {}
                      /\ rcv[d].bytes = {} /\ ~rcv[d].fin
    BY <1>1
<1>4. "req" \in Dirs /\ "res" \in Dirs  BY DEF Dirs
<1>5. hs \in 0 .. 4  BY <1>1
<1>6. snt["req"].bytes = {} /\ snt["res"].bytes = {} /\ ~rcv["res"].fin  BY <1>3, <1>4
<1>7. \A d \in Dirs :
          /\ snt[d].all = snt[d].bytes
          /\ snt[d].bytes \subseteq 0 .. StreamLength(d) - 1
          /\ rcv[d].bytes \subseteq snt[d].bytes
          /\ rcv[d].fin => 0 .. StreamLength(d) - 1 \subseteq snt[d].bytes
    BY <1>3
<1> QED  BY <1>2, <1>5, <1>6, <1>7 DEF NetInv

LEMMA CapturedIs ==
    ASSUME NetInv
    PROVE  Captured \in [Dirs -> SUBSET Nat] /\ \A d \in Dirs : Captured[d] = snt[d].bytes
BY DEF Captured, NetInv, Sent

\* How much of a direction has been received: never more than has passed the tap, and
\* one more with the FIN.
LEMMA ReceivedIs ==
    ASSUME NetInv, NEW d \in Dirs
    PROVE  /\ Received(d) \in Nat
           /\ FirstGap(rcv[d].bytes, 0) \in 0 .. StreamLength(d)
           /\ FirstGap(rcv[d].bytes, 0) <= FirstGap(snt[d].bytes, 0)
           /\ FirstGap(snt[d].bytes, 0) \in 0 .. StreamLength(d)
           /\ rcv[d].fin \/ Received(d) = FirstGap(rcv[d].bytes, 0)
           /\ snt[d].bytes = {} /\ ~rcv[d].fin => Received(d) = 0
<1> DEFINE L == StreamLength(d)
           A == rcv[d].bytes
           B == snt[d].bytes
<1>1. L \in Nat /\ 0 \in 0 .. L  BY DirFacts
<1>2. B \in SUBSET (0 .. L - 1) /\ A \in SUBSET B /\ A \in SUBSET (0 .. L - 1)
    BY DEF NetInv
<1> HIDE DEF L, A, B
<1>3. FirstGap(A, 0) \in 0 .. L /\ 0 .. FirstGap(A, 0) - 1 \subseteq A
    BY <1>1, <1>2, FirstGapEnds
<1>4. FirstGap(B, 0) \in 0 .. L  BY <1>1, <1>2, FirstGapEnds
<1>5. FirstGap(A, 0) <= FirstGap(B, 0)  BY <1>1, <1>2, FirstGapMonotone
<1>6. Received(d) = IF FirstGap(A, 0) = L /\ rcv[d].fin THEN FirstGap(A, 0) + 1 ELSE FirstGap(A, 0)
    BY DEF Received, A, L
<1>7. Received(d) \in Nat  BY <1>1, <1>3, <1>6
<1>8. rcv[d].fin \/ Received(d) = FirstGap(A, 0)  BY <1>6
<1>9. ASSUME B = {} PROVE FirstGap(A, 0) = 0
    <2>1. A = {}  BY <1>2, <1>9
    <2>2. ~(0 < FirstGap(A, 0))
        <3>1. ASSUME 0 < FirstGap(A, 0) PROVE FALSE
            <4>1. 0 \in 0 .. FirstGap(A, 0) - 1  BY <1>1, <1>3, <3>1
            <4> QED  BY <1>3, <2>1, <4>1
        <3> QED  BY <3>1
    <2> QED  BY <1>1, <1>3, <2>2
<1> QED  BY <1>3, <1>4, <1>5, <1>7, <1>8, <1>9 DEF A, B, L

\* What a host's segment or reset does to the network.
Passed(d, sq, n) ==
    /\ NetInv'
    /\ Captured' = Plus(Captured, d, sq, n)
    /\ hs >= (IF d = "req" THEN 3 ELSE 4)
    /\ hs' = hs \/ (d = "req" /\ hs' = 4)
    /\ sq \in Nat /\ n \in Nat /\ sq + n <= StreamLength(d)

\* The hosts' part of their steps.
Sends(d, sq, n, fin) ==
    LET bytes == sq .. sq + n - 1
    IN  /\ CanSend(d, sq, n, fin)
        /\ snt' = [snt EXCEPT ![d].all = @ \cup bytes, ![d].bytes = @ \cup bytes]
        /\ \/ UNCHANGED <<hs, rcv>>
           \/ /\ rcv' = [rcv EXCEPT ![d].bytes = @ \cup bytes, ![d].fin = @ \/ fin]
              /\ Arrived(d)

Resets(d) == MaySend(d) /\ snt' = [snt EXCEPT ![d].rst = TRUE] /\ UNCHANGED <<hs, rcv>>

SendsSyn == hs < 3 /\ hs' \in {Max({hs, 1}), 2} /\ UNCHANGED <<snt, rcv>>

LEMMA NetSegment ==
    ASSUME NetInv, NEW d \in Dirs, NEW sq \in 0 .. ReqLen + ResLen, NEW n \in 0 .. MaxSeg,
           NEW fin \in BOOLEAN, Sends(d, sq, n, fin)
    PROVE  /\ Passed(d, sq, n)
           /\ \A e \in Dirs : rcv'[e].fin => rcv[e].fin \/ (e = d /\ fin)
           /\ fin => /\ sq + n = StreamLength(d) /\ (n > 0 => DataFin)
                     /\ 0 .. StreamLength(d) - 1 \subseteq Captured'[d]
<1> DEFINE bytes == sq .. sq + n - 1
           L == StreamLength(d)
<1>1. /\ CanSend(d, sq, n, fin)
      /\ snt' = [snt EXCEPT ![d].all = @ \cup bytes, ![d].bytes = @ \cup bytes]
      /\ \/ UNCHANGED <<hs, rcv>>
         \/ /\ rcv' = [rcv EXCEPT ![d].bytes = @ \cup bytes, ![d].fin = @ \/ fin]
            /\ Arrived(d)
    BY DEF Sends
<1>2. L \in Nat /\ sq \in Nat /\ n \in Nat  BY DirFacts, SessionAssumption
<1>3. /\ hs >= (IF d = "req" THEN 3 ELSE 4) /\ sq + n <= L
      /\ fin => /\ sq + n = L /\ 0 .. sq - 1 \subseteq snt[d].all /\ (n > 0 => DataFin)
    BY <1>1 DEF CanSend, MaySend
<1>4. hs' = hs \/ (d = "req" /\ hs' = 4)  BY <1>1 DEF Arrived
<1>5. bytes \in SUBSET (0 .. L - 1) /\ bytes \in SUBSET Nat  BY <1>2, <1>3
<1> HIDE DEF bytes
<1>6. snt' \in [Dirs -> Sent]
    <2> DEFINE x == [snt EXCEPT ![d].all = @ \cup bytes]
    <2>1. x \in [Dirs -> Sent]  BY <1>5 DEF NetInv, Sent
    <2>2. snt' = [x EXCEPT ![d].bytes = @ \cup bytes]  BY <1>1
    <2> HIDE DEF x
    <2> QED  BY <1>5, <2>1, <2>2 DEF Sent
<1>7. /\ snt'[d].bytes = snt[d].bytes \cup bytes /\ snt'[d].all = snt[d].all \cup bytes
      /\ \A e \in Dirs : e # d => snt'[e] = snt[e]
    BY <1>1 DEF NetInv, Sent
<1>8. rcv' \in [Dirs -> Rcvd]
    <2>1. CASE rcv' = rcv  BY <2>1 DEF NetInv
    <2>2. CASE rcv' = [rcv EXCEPT ![d].bytes = @ \cup bytes, ![d].fin = @ \/ fin]
        <3> DEFINE x == [rcv EXCEPT ![d].bytes = @ \cup bytes]
        <3>1. x \in [Dirs -> Rcvd]  BY <1>5 DEF NetInv, Rcvd
        <3>2. rcv' = [x EXCEPT ![d].fin = @ \/ fin]  BY <2>2
        <3> HIDE DEF x
        <3> QED  BY <3>1, <3>2 DEF Rcvd
    <2> QED  BY <1>1, <2>1, <2>2
<1>9. /\ rcv'[d].bytes \subseteq rcv[d].bytes \cup bytes
      /\ rcv'[d].fin => rcv[d].fin \/ fin
      /\ \A e \in Dirs : e # d => rcv'[e] = rcv[e]
    BY <1>1 DEF NetInv, Rcvd
<1>10. fin => 0 .. L - 1 \subseteq snt'[d].bytes
    <2> SUFFICES ASSUME fin PROVE 0 .. L - 1 \subseteq snt'[d].bytes
        OBVIOUS
    <2>1. 0 .. sq - 1 \subseteq snt[d].bytes /\ sq + n = L  BY <1>3 DEF NetInv
    <2>2. 0 .. L - 1 \subseteq (0 .. sq - 1) \cup bytes  BY <1>2, <2>1 DEF bytes
    <2> QED  BY <1>7, <2>1, <2>2
<1>11. hs' \in 0 .. 4  BY <1>4 DEF NetInv
<1>12. \A e \in Dirs :
          /\ snt'[e].all = snt'[e].bytes
          /\ snt'[e].bytes \subseteq 0 .. StreamLength(e) - 1
          /\ rcv'[e].bytes \subseteq snt'[e].bytes
          /\ rcv'[e].fin => 0 .. StreamLength(e) - 1 \subseteq snt'[e].bytes
    <2> SUFFICES ASSUME NEW e \in Dirs
                 PROVE  /\ snt'[e].all = snt'[e].bytes
                        /\ snt'[e].bytes \subseteq 0 .. StreamLength(e) - 1
                        /\ rcv'[e].bytes \subseteq snt'[e].bytes
                        /\ rcv'[e].fin => 0 .. StreamLength(e) - 1 \subseteq snt'[e].bytes
        OBVIOUS
    <2>1. CASE e # d  BY <1>7, <1>9, <2>1 DEF NetInv
    <2>2. CASE e = d
        <3>1. snt'[d].all = snt'[d].bytes  BY <1>7 DEF NetInv
        <3>2. snt'[d].bytes \subseteq 0 .. L - 1  BY <1>5, <1>7 DEF NetInv
        <3>3. rcv'[d].bytes \subseteq snt'[d].bytes  BY <1>7, <1>9 DEF NetInv
        <3>4. rcv'[d].fin => 0 .. L - 1 \subseteq snt'[d].bytes
            BY <1>7, <1>9, <1>10 DEF NetInv
        <3> QED  BY <2>2, <3>1, <3>2, <3>3, <3>4
    <2> QED  BY <2>1, <2>2
<1>13. /\ hs' < 3 => snt'["req"].bytes = {}
       /\ hs' < 4 => snt'["res"].bytes = {} /\ ~rcv'["res"].fin
    <2>1. CASE d = "req"
        <3>1. hs' >= 3 /\ "res" # d /\ "res" \in Dirs  BY <1>3, <1>4, <2>1 DEF NetInv, Dirs
        <3>2. hs' < 4 => hs < 4  BY <1>4
        <3>3. snt'["res"] = snt["res"] /\ rcv'["res"] = rcv["res"]  BY <1>7, <1>9, <3>1
        <3>4. hs' < 4 => snt["res"].bytes = {} /\ ~rcv["res"].fin  BY <3>2 DEF NetInv
        <3>5. hs' < 3 => FALSE  BY <1>11, <3>1
        <3> QED  BY <3>3, <3>4, <3>5
    <2>2. CASE d # "req"
        <3>1. hs' >= 4  BY <1>3, <1>4, <2>2
        <3> QED  BY <1>11, <3>1
    <2> QED  BY <2>1, <2>2
<1>14. NetInv'  BY <1>6, <1>8, <1>11, <1>12, <1>13 DEF NetInv
<1>15. Captured' = Plus(Captured, d, sq, n)
    BY <1>7 DEF Captured, Plus, bytes
<1>16. \A e \in Dirs : rcv'[e].fin => rcv[e].fin \/ (e = d /\ fin)  BY <1>9
<1>17. Captured'[d] = snt'[d].bytes  BY DEF Captured
<1> QED  BY <1>2, <1>3, <1>4, <1>10, <1>14, <1>15, <1>16, <1>17 DEF Passed

LEMMA NetReset ==
    ASSUME NetInv, NEW d \in Dirs, Resets(d)
    PROVE  Passed(d, FirstGap(snt[d].all, 0), 0) /\ rcv' = rcv
<1> DEFINE sq == FirstGap(snt[d].all, 0)
<1>1. /\ snt' = [snt EXCEPT ![d].rst = TRUE] /\ hs' = hs /\ rcv' = rcv
      /\ hs >= (IF d = "req" THEN 3 ELSE 4)
    BY DEF Resets, MaySend
<1>2. sq \in 0 .. StreamLength(d) /\ StreamLength(d) \in Nat
    BY ReceivedIs, DirFacts DEF NetInv
<1> HIDE DEF sq
<1>3. snt' \in [Dirs -> Sent]  BY <1>1, ZenonT(60) DEF NetInv, Sent
<1>4. \A e \in Dirs : snt'[e].bytes = snt[e].bytes /\ snt'[e].all = snt[e].all
    BY <1>1 DEF NetInv, Sent
<1>5. "req" \in Dirs /\ "res" \in Dirs  BY DEF Dirs
<1>6. NetInv'  BY <1>1, <1>3, <1>4, <1>5 DEF NetInv
<1>7. Captured' = Captured  BY <1>4 DEF Captured
<1>8. Captured = Plus(Captured, d, sq, 0)
    <2>1. Captured \in [Dirs -> SUBSET Nat]  BY CapturedIs
    <2>2. sq .. sq + 0 - 1 = {}  BY <1>2
    <2>3. Captured[d] \cup (sq .. sq + 0 - 1) = Captured[d]  BY <2>2
    <2> QED  BY <2>1, <2>3 DEF Plus
<1> QED  BY <1>1, <1>2, <1>6, <1>7, <1>8 DEF Passed, sq

\* The packets of the handshake, and steps of the program alone.
LEMMA NetQuiet ==
    ASSUME NetInv, hs' \in hs .. 4, UNCHANGED <<snt, rcv>>,
           hs' < 3 \/ hs' = hs \/ hs >= 2, hs' < 4 \/ hs' = hs
    PROVE  NetInv' /\ Captured' = Captured
<1>1. hs' \in 0 .. 4 /\ (hs' < 3 => hs < 3) /\ (hs' < 4 => hs < 4)  BY DEF NetInv
<1> QED  BY <1>1 DEF NetInv, Captured

LEMMA SynStep ==
    ASSUME NetInv, SendsSyn
    PROVE  hs < 3 /\ hs' < 3 /\ hs' \in hs .. 4 /\ UNCHANGED <<snt, rcv>>
<1>1. hs < 3 /\ hs' \in {Max({hs, 1}), 2} /\ UNCHANGED <<snt, rcv>>  BY DEF SendsSyn
<1>2. hs \in Nat /\ 1 \in Nat  BY DEF NetInv
<1>3. Max({hs, 1}) = IF hs >= 1 THEN hs ELSE 1  BY <1>2, MaxTwo
<1> QED  BY <1>1, <1>2, <1>3

-----------------------------------------------------------------------------
(* The session follows both streams. *)

Request == [state : {"SYN", "SYN_ACK", "ACK_ACK"}, req_sn_init : Nat, res_sn_init : Nat]

\* A request exists only as long as nothing but the handshake has been seen.
RequestInv ==
    sreq # None =>
       /\ sess = None
       /\ sreq \in Request /\ sreq.req_sn_init = FirstSeq("req")
       /\ sreq.res_sn_init = IF sreq.state = "SYN" THEN 0 ELSE FirstSeq("res")
       /\ \A d \in Dirs : snt[d].bytes = {}
       /\ hs >= 3 => sreq.state # "SYN"
       /\ hs = 4 => sreq.state = "ACK_ACK"

\* A session accounts for every byte that has passed the tap.
SessionInv ==
    sess # None =>
       /\ sess \in Session
       /\ hs >= 3
       /\ Fits(sess, Captured)
       /\ fed = [d \in Dirs |-> sess.ep[d].last_offset]

FedInv == fed \in [Dirs -> Nat] /\ \A d \in Dirs : fed[d] <= StreamLength(d)

\* The inductive invariant.
Inv == NetInv /\ RequestInv /\ SessionInv /\ FedInv

\* A packet of an established connection, and what is done with it.
LEMMA InvSegment ==
    ASSUME Inv, NEW d \in Dirs, NEW sq, NEW n, NEW fin, NEW rst, Passed(d, sq, n),
           RequestPacketHandle(Header(d, sq, n, fin, rst))
    PROVE  Inv'
<1> DEFINE a == Received(Other(d))
           p == Seg(d, sq, n, fin, rst, a)
           C == Plus(Captured, d, sq, n)
<1>1. RequestPacketHandle(p)  BY DEF Header, Seg
<1>2. /\ NetInv' /\ Captured' = C /\ hs >= 3
      /\ hs' = hs \/ hs' = 4
      /\ sq \in Nat /\ n \in Nat /\ sq + n <= StreamLength(d)
    BY DEF Passed, Inv, NetInv
<1>3. a \in Nat /\ Other(d) \in Dirs  BY ReceivedIs, DirFacts DEF Inv
<1>4. p.dir = d /\ p.kind = "seg" /\ p.len = n /\ p.fin = fin /\ p.rst = rst
      /\ p.ack = FirstSeq(Other(d)) + a
    BY SegFields
<1>5. Captured \in [Dirs -> SUBSET Nat] /\ \A e \in Dirs : Captured[e] = snt[e].bytes
    BY CapturedIs DEF Inv
<1>6. hs' >= 3 /\ hs \in 0 .. 4  BY <1>2 DEF Inv, NetInv
<1> HIDE DEF p, a, C
<1>7. ASSUME NEW s \in Session, Fits(s, Captured), DataProcess(s, p),
             n = 0 => fed = [e \in Dirs |-> s.ep[e].last_offset]
      PROVE  SessionInv' /\ FedInv'
    <2>1. PICK t \in Session :
              /\ Prepared(s, t, d, n, fin, a) /\ Fits(t, Captured)
              /\ \/ n = 0 /\ ~fin /\ sess' = t /\ fed' = fed /\ ended' = ended
                 \/ \E o \in Result :
                      /\ Handled(t, o, Captured, p, d, sq, n)
                      /\ fed' = [e \in Dirs |-> o.s.ep[e].last_offset]
                      /\ sess' = IF o.why = <<>> THEN o.s ELSE None
                      /\ ended' = o.why
        BY <1>2, <1>3, <1>5, <1>7, DataProcessIs DEF p
    <2>2. CASE n = 0 /\ ~fin /\ sess' = t /\ fed' = fed /\ ended' = ended
        <3>1. C = Captured
            <4>1. sq .. sq + n - 1 = {}  BY <1>2, <2>2
            <4>2. Captured[d] \cup (sq .. sq + n - 1) = Captured[d]  BY <4>1
            <4> QED  BY <1>5, <4>2 DEF Plus, C
        <3>2. Fits(sess', Captured')  BY <1>2, <2>1, <2>2, <3>1
        <3>3. fed' = [e \in Dirs |-> t.ep[e].last_offset]
            BY <1>7, <2>1, <2>2 DEF Prepared, SameData
        <3>4. SessionInv'  BY <1>6, <2>2, <3>2, <3>3 DEF SessionInv
        <3> QED  BY <2>2, <3>4 DEF FedInv, Inv
    <2>3. ASSUME NEW o \in Result, Handled(t, o, Captured, p, d, sq, n),
                 fed' = [e \in Dirs |-> o.s.ep[e].last_offset],
                 sess' = IF o.why = <<>> THEN o.s ELSE None
          PROVE  SessionInv' /\ FedInv'
        <3>1. \A e \in Dirs : /\ t.ep[e].last_offset \in 0 .. StreamLength(e)
                              /\ StreamLength(e) \in Nat
                              /\ o.s.ep[e].last_offset \in t.ep[e].last_offset .. StreamLength(e)
            BY <2>1, <2>3, DirFacts DEF Handled, Fits
        <3>2. \A e \in Dirs : o.s.ep[e].last_offset \in 0 .. StreamLength(e)  BY <3>1
        <3>3. FedInv'  BY <2>3, <3>1, <3>2 DEF FedInv
        <3>4. ASSUME sess' # None
              PROVE  sess' = o.s /\ o.s \in Session /\ Fits(o.s, Captured')
            <4>1. o.why = <<>> /\ sess' = o.s  BY <2>3, <3>4
            <4> QED  BY <1>2, <2>3, <4>1 DEF Handled, Result, C
        <3>5. SessionInv'  BY <1>6, <2>3, <3>4 DEF SessionInv
        <3> QED  BY <3>3, <3>5
    <2> QED  BY <2>1, <2>2, <2>3
<1>8. ASSUME sreq # None, sess' = None, fed' = fed PROVE SessionInv' /\ FedInv'
    BY <1>8 DEF SessionInv, FedInv, Inv
<1>9. sreq # None =>
        /\ sreq \in Request /\ sess = None /\ sreq.state \in {"SYN_ACK", "ACK_ACK"}
        /\ sreq.req_sn_init = FirstSeq("req") /\ sreq.res_sn_init = FirstSeq("res")
        /\ \A e \in Dirs : snt[e].bytes = {}
        /\ sreq.state = "SYN_ACK" => IsAckAck(p)
    <2> SUFFICES ASSUME sreq # None
                 PROVE  /\ sreq \in Request /\ sess = None /\ sreq.state \in {"SYN_ACK", "ACK_ACK"}
                        /\ sreq.req_sn_init = FirstSeq("req") /\ sreq.res_sn_init = FirstSeq("res")
                        /\ \A e \in Dirs : snt[e].bytes = {}
                        /\ sreq.state = "SYN_ACK" => IsAckAck(p)
        OBVIOUS
    <2>1. /\ sreq \in Request /\ sess = None /\ sreq.state \in {"SYN_ACK", "ACK_ACK"}
          /\ sreq.req_sn_init = FirstSeq("req") /\ sreq.res_sn_init = FirstSeq("res")
          /\ \A e \in Dirs : snt[e].bytes = {}
        BY <1>2 DEF RequestInv, Inv, Request
    <2>2. ASSUME sreq.state = "SYN_ACK" PROVE IsAckAck(p)
        <3>1. hs # 4  BY <2>2 DEF RequestInv, Inv
        <3>2. d = "req" /\ hs < 4  BY <1>6, <3>1 DEF Passed
        <3>3. Other(d) = "res" /\ "res" \in Dirs  BY <3>2 DEF Other, Dirs
        <3>4. ~rcv["res"].fin  BY <3>2 DEF NetInv, Inv
        <3>5. a = 0  BY <2>1, <3>3, <3>4, ReceivedIs DEF a, Inv
        <3>6. FirstSeq("res") \in Nat  BY <3>3, DirFacts
        <3>7. p.ack = FirstSeq("res")  BY <1>4, <3>3, <3>5, <3>6
        <3> QED  BY <2>1, <2>2, <3>7 DEF IsAckAck
    <2> QED  BY <2>1, <2>2
<1>10. CASE HandleSession(p)
    <2>1. sess # None /\ DataProcess(sess, p) /\ sreq' = sreq  BY <1>10 DEF HandleSession
    <2>2. sreq = None  BY <2>1 DEF RequestInv, Inv
    <2>3. /\ sess \in Session /\ Fits(sess, Captured)
          /\ fed = [e \in Dirs |-> sess.ep[e].last_offset]
        BY <2>1 DEF SessionInv, Inv
    <2>4. SessionInv' /\ FedInv'  BY <1>7, <2>1, <2>3
    <2>5. RequestInv'  BY <2>1, <2>2 DEF RequestInv
    <2> QED  BY <1>2, <2>4, <2>5 DEF Inv
<1>11. CASE HandleFirstData(p)
    <2>1. /\ sess = None /\ sreq # None /\ n > 0 /\ sreq' = None
          /\ DataProcess(NewSession(sreq), p) \/ UNCHANGED <<sess, fed, ended>>
        BY <1>4, <1>11 DEF HandleFirstData
    <2>2. RequestInv'  BY <2>1 DEF RequestInv
    <2>3. CASE UNCHANGED <<sess, fed, ended>>
        BY <1>2, <1>8, <2>1, <2>2, <2>3 DEF Inv
    <2>4. CASE DataProcess(NewSession(sreq), p)
        <3>1. \A e \in Dirs : Captured[e] = {}  BY <1>5, <1>9, <2>1
        <3>2. NewSession(sreq) \in Session /\ Fits(NewSession(sreq), Captured)
            BY <1>5, <1>9, <2>1, <3>1, NewSessionIs
        <3>3. n # 0  BY <1>2, <2>1
        <3>4. SessionInv' /\ FedInv'  BY <1>7, <2>4, <3>2, <3>3
        <3> QED  BY <1>2, <2>2, <3>4 DEF Inv
    <2> QED  BY <2>1, <2>3, <2>4
<1>12. ASSUME n = 0 PROVE \A e \in Dirs : Captured'[e] = snt[e].bytes
    <2>1. C[d] = Captured[d]
        <3>1. sq .. sq + n - 1 = {}  BY <1>2, <1>12
        <3> QED  BY <1>5, <3>1 DEF C, Plus
    <2> QED  BY <1>2, <1>5, <2>1 DEF C, Plus
<1>13. \A e \in Dirs : snt'[e].bytes = Captured'[e]  BY DEF Captured
<1>14. CASE HandleAckAck(p)
    <2>1. /\ sess = None /\ sreq # None /\ n = 0 /\ sreq' = [sreq EXCEPT !.state = "ACK_ACK"]
          /\ UNCHANGED <<sess, fed, ended>>
        BY <1>4, <1>14 DEF HandleAckAck
    <2>2. \A e \in Dirs : snt'[e].bytes = {}  BY <1>9, <1>12, <1>13, <2>1
    <2>3. sreq' \in Request /\ sreq'.state = "ACK_ACK"
          /\ sreq'.req_sn_init = FirstSeq("req") /\ sreq'.res_sn_init = FirstSeq("res")
        BY <1>9, <2>1 DEF Request
    <2>4. RequestInv'  BY <2>1, <2>2, <2>3 DEF RequestInv
    <2> QED  BY <1>2, <1>8, <2>1, <2>4 DEF Inv
<1>15. CASE HandleRequestRst(p)
    <2>1. sreq # None /\ sess = None /\ sreq' = None /\ UNCHANGED <<sess, fed, ended>>
        BY <1>15 DEF HandleRequestRst
    <2>2. RequestInv'  BY <2>1 DEF RequestInv
    <2> QED  BY <1>2, <1>8, <2>1, <2>2 DEF Inv
<1>16. CASE HandleDrop(p)
    <2>1. /\ sess = None /\ UNCHANGED monitor
          /\ \/ sreq = None
             \/ sreq # None /\ ~IsAckAck(p) /\ (sreq.state # "ACK_ACK" \/ n = 0)
        BY <1>4, <1>16 DEF HandleDrop
    <2>2. SessionInv' /\ FedInv'  BY <2>1 DEF SessionInv, FedInv, Inv, monitor
    <2>3. CASE sreq = None
        BY <1>2, <2>1, <2>2, <2>3 DEF RequestInv, Inv, monitor
    <2>4. CASE sreq # None /\ ~IsAckAck(p) /\ (sreq.state # "ACK_ACK" \/ n = 0)
        <3>1. sreq.state = "ACK_ACK" /\ n = 0  BY <1>9, <2>4
        <3>2. \A e \in Dirs : snt'[e].bytes = {}  BY <1>9, <1>12, <1>13, <2>4, <3>1
        <3>3. RequestInv'  BY <1>9, <2>1, <2>4, <3>1, <3>2 DEF RequestInv, monitor
        <3> QED  BY <1>2, <2>2, <3>3 DEF Inv
    <2> QED  BY <2>1, <2>3, <2>4
<1>17. ~HandleSyn(p) /\ ~HandleSynAck(p)  BY <1>4 DEF HandleSyn, HandleSynAck
<1> QED  BY <1>1, <1>10, <1>11, <1>14, <1>15, <1>16, <1>17 DEF RequestPacketHandle

LEMMA InvInit == Init => Inv
<1> SUFFICES ASSUME Init PROVE Inv
    OBVIOUS
<1>1. NetInv  BY NetInit DEF Init
<1>2. sreq = None /\ sess = None /\ fed = [d \in Dirs |-> 0]  BY DEF Init
<1>3. \A d \in Dirs : StreamLength(d) \in Nat  BY DirFacts
<1> QED  BY <1>1, <1>2, <1>3 DEF Inv, RequestInv, SessionInv, FedInv

\* The packets of the handshake.
LEMMA InvHandshake ==
    ASSUME Inv, Syn(RequestPacketHandle) \/ SynAck(RequestPacketHandle)
    PROVE  Inv' /\ rcv' = rcv /\ UNCHANGED <<sess, fed, ended>> /\ Captured' = Captured
<1>1. NetInv /\ RequestInv /\ SessionInv /\ FedInv  BY DEF Inv
<1>2. FirstSeq("req") \in Nat /\ FirstSeq("res") \in Nat  BY DirFacts DEF Dirs
<1>3. CASE Syn(RequestPacketHandle)
    <2> DEFINE p == Packet("req", "syn", ReqIsn, 0, FALSE, FALSE, 0)
    <2>1. hs < 3 /\ hs' < 3 /\ hs' \in hs .. 4 /\ UNCHANGED <<snt, rcv>>  BY <1>1, <1>3, SynStep DEF Syn, SendsSyn
    <2>2. RequestPacketHandle(p)  BY <1>3 DEF Syn
    <2>3. p.kind = "syn" /\ p.seq + 1 = FirstSeq("req")  BY DEF Packet, FirstSeq
    <2> HIDE DEF p
    <2>4. HandleSyn(p)
        BY <2>2, <2>3 DEF RequestPacketHandle, HandleSession, HandleSynAck, HandleFirstData,
                          HandleAckAck, HandleRequestRst, HandleDrop
    <2>5. sess = None
        <3>1. ~(hs >= 3)  BY <1>1, <2>1 DEF NetInv
        <3> QED  BY <1>1, <3>1 DEF SessionInv
    <2>6. UNCHANGED <<sess, fed, ended>>  BY <2>4 DEF HandleSyn
    <2>7. NetInv' /\ Captured' = Captured
        <3>1. hs' < 4  BY <1>1, <2>1 DEF NetInv
        <3> QED  BY <1>1, <2>1, <3>1, NetQuiet
    <2>8. ~(hs' >= 3) /\ hs' # 4  BY <1>1, <2>1 DEF NetInv
    <2>9. RequestInv'
        <3>1. CASE sreq' = sreq
            <4>1. \A d \in Dirs : snt'[d].bytes = snt[d].bytes  BY <2>1
            <4> QED  BY <1>1, <2>1, <2>6, <2>8, <3>1, <4>1 DEF RequestInv
        <3>2. CASE sreq' = [state |-> "SYN", req_sn_init |-> FirstSeq("req"), res_sn_init |-> 0]
            <4>1. \A d \in Dirs : snt'[d].bytes = {}
                <5>1. hs < 3 /\ hs < 4  BY <1>1, <2>1 DEF NetInv
                <5>2. \A d \in Dirs : d = "req" \/ d = "res"  BY DEF Dirs
                <5> QED  BY <1>1, <2>1, <5>1, <5>2 DEF NetInv
            <4>2. sreq' \in Request /\ sreq'.state = "SYN" /\ sreq'.req_sn_init = FirstSeq("req")
                  /\ sreq'.res_sn_init = 0
                BY <1>2, <3>2 DEF Request
            <4> QED  BY <2>5, <2>6, <2>8, <4>1, <4>2 DEF RequestInv
        <3>3. CASE sreq' = None  BY <3>3 DEF RequestInv
        <3> QED  BY <2>3, <2>4, <3>1, <3>2, <3>3 DEF HandleSyn
    <2>10. SessionInv' /\ FedInv'  BY <1>1, <2>5, <2>6 DEF SessionInv, FedInv
    <2> QED  BY <2>1, <2>6, <2>7, <2>9, <2>10 DEF Inv
<1>4. CASE SynAck(RequestPacketHandle)
    <2> DEFINE p == Packet("res", "synack", ResIsn, 0, FALSE, FALSE, FirstSeq("req"))
    <2>1. hs \in {2, 3} /\ hs' \in {hs, 3} /\ UNCHANGED <<snt, rcv>>  BY <1>4 DEF SynAck
    <2>2. RequestPacketHandle(p)  BY <1>4 DEF SynAck
    <2>3. p.kind = "synack" /\ p.seq + 1 = FirstSeq("res")  BY DEF Packet, FirstSeq
    <2> HIDE DEF p
    <2>4. HandleSynAck(p)
        BY <2>2, <2>3 DEF RequestPacketHandle, HandleSession, HandleSyn, HandleFirstData,
                          HandleAckAck, HandleRequestRst, HandleDrop
    <2>5. UNCHANGED <<sess, fed, ended>>  BY <2>4 DEF HandleSynAck
    <2>6. NetInv' /\ Captured' = Captured
        <3>1. hs' \in hs .. 4 /\ hs >= 2 /\ hs' < 4  BY <2>1
        <3> QED  BY <1>1, <2>1, <3>1, NetQuiet
    <2>7. hs' # 4 /\ (hs >= 3 => hs' >= 3)  BY <2>1
    <2>8. \A d \in Dirs : snt'[d].bytes = snt[d].bytes  BY <2>1
    <2>9. RequestInv'
        <3>1. CASE sreq # None /\ sreq.state = "SYN"
            <4>1. sreq' = [sreq EXCEPT !.state = "SYN_ACK", !.res_sn_init = FirstSeq("res")]
                BY <2>3, <2>4, <3>1 DEF HandleSynAck
            <4>2. sreq \in Request /\ sreq.req_sn_init = FirstSeq("req") /\ sess = None
                  /\ \A d \in Dirs : snt[d].bytes = {}
                BY <1>1, <3>1 DEF RequestInv
            <4>3. sreq' \in Request /\ sreq'.state = "SYN_ACK" /\ sreq'.req_sn_init = FirstSeq("req")
                  /\ sreq'.res_sn_init = FirstSeq("res")
                BY <1>2, <4>1, <4>2 DEF Request
            <4> QED  BY <2>5, <2>7, <2>8, <4>2, <4>3 DEF RequestInv
        <3>2. CASE ~(sreq # None /\ sreq.state = "SYN")
            <4>1. sreq' = sreq  BY <2>4, <3>2 DEF HandleSynAck
            <4> QED  BY <1>1, <2>5, <2>7, <2>8, <3>2, <4>1 DEF RequestInv
        <3> QED  BY <3>1, <3>2
    <2>10. SessionInv' /\ FedInv'  BY <1>1, <2>5, <2>6, <2>7 DEF SessionInv, FedInv
    <2> QED  BY <2>1, <2>5, <2>6, <2>9, <2>10 DEF Inv
<1> QED  BY <1>3, <1>4

LEMMA InvTimeout ==
    ASSUME Inv, RequestTimeout \/ SessionTimeout, UNCHANGED network
    PROVE  Inv'
<1>1. NetInv' /\ Captured' = Captured  BY DEF Inv, NetInv, Captured, network
<1>2. CASE RequestTimeout
    BY <1>1, <1>2 DEF RequestTimeout, Inv, RequestInv, SessionInv, FedInv, network
<1>3. CASE SessionTimeout
    BY <1>1, <1>3 DEF SessionTimeout, Inv, RequestInv, SessionInv, FedInv, network
<1> QED  BY <1>2, <1>3

LEMMA InvUnchanged ==
    ASSUME Inv, UNCHANGED vars
    PROVE  Inv'
<1>1. NetInv' /\ Captured' = Captured  BY DEF Inv, NetInv, Captured, network, vars
<1> QED  BY <1>1 DEF Inv, RequestInv, SessionInv, FedInv, network, monitor, vars

\* The steps: the handshake, a segment, a reset, a timeout.
LEMMA StepCases ==
    ASSUME Next
    PROVE  \/ Syn(RequestPacketHandle) \/ SynAck(RequestPacketHandle)
           \/ \E d \in Dirs, s \in 0 .. ReqLen + ResLen, n \in 0 .. MaxSeg, fin \in BOOLEAN :
                 Segment(d, s, n, fin, RequestPacketHandle)
           \/ \E d \in Dirs : Reset(d, RequestPacketHandle)
           \/ (RequestTimeout \/ SessionTimeout) /\ UNCHANGED network
BY DEF Next, HostNext

LEMMA InvNext ==
    ASSUME Inv, [Next]_vars
    PROVE  Inv'
<1>0. NetInv  BY DEF Inv
<1>1. CASE Syn(RequestPacketHandle) \/ SynAck(RequestPacketHandle)
    BY <1>1, InvHandshake
<1>2. ASSUME NEW d \in Dirs, NEW s \in 0 .. ReqLen + ResLen, NEW n \in 0 .. MaxSeg,
             NEW fin \in BOOLEAN, Segment(d, s, n, fin, RequestPacketHandle)
      PROVE  Inv'
    <2>0. Sends(d, s, n, fin)  BY <1>2 DEF Segment, Sends
    <2>1. Passed(d, s, n)  BY <1>0, <2>0, NetSegment
    <2>2. RequestPacketHandle(Header(d, s, n, fin, FALSE))  BY <1>2 DEF Segment
    <2> QED  BY <2>1, <2>2, InvSegment
<1>3. ASSUME NEW d \in Dirs, Reset(d, RequestPacketHandle)
      PROVE  Inv'
    <2> DEFINE sq == FirstGap(snt[d].all, 0)
    <2>1. Passed(d, sq, 0)  BY <1>0, <1>3, NetReset DEF Reset, Resets
    <2>2. RequestPacketHandle(Header(d, sq, 0, FALSE, TRUE))  BY <1>3 DEF Reset
    <2> HIDE DEF sq
    <2> QED  BY <2>1, <2>2, InvSegment
<1>4. CASE (RequestTimeout \/ SessionTimeout) /\ UNCHANGED network  BY <1>4, InvTimeout
<1>5. CASE UNCHANGED vars  BY <1>5, InvUnchanged
<1> QED  BY <1>1, <1>2, <1>3, <1>4, <1>5, StepCases

\* The invariant holds in every state: the request and the session of a connection
\* account for every packet that has passed.
THEOREM SessionInvariant == Spec => []Inv
BY InvInit, InvNext, PTL DEF Spec

\* TypeOK for all streams and numbers: a connection has a request or a session, never
\* both, and the session knows both initial sequence numbers (NewSession,
\* ch_tcp_session_request_packet_handle).
THEOREM SessionTypeCorrect == Spec => []TypeOK
<1>1. ASSUME Inv PROVE TypeOK
    <2>1. sreq = None \/ sess = None  BY <1>1 DEF Inv, RequestInv
    <2>2. ASSUME sreq # None
          PROVE  /\ sreq.state \in {"SYN", "SYN_ACK", "ACK_ACK"}
                 /\ sreq.req_sn_init = FirstSeq("req")
                 /\ sreq.res_sn_init \in {0, FirstSeq("res")}
        BY <1>1, <2>2 DEF Inv, RequestInv, Request
    <2>3. \A d \in Dirs : fed[d] \in 0 .. StreamLength(d)
        BY <1>1, DirFacts DEF Inv, FedInv
    <2>4. ASSUME sess # None
          PROVE  /\ sess.state \in {"INIT", "DATA", "FIN", "RST"}
                 /\ sess.four_way \in {"INIT", "FIN1", "FIN1_ACK", "FIN2", "FIN2_ACK"}
                 /\ \A d \in Dirs : /\ sess.init_seq[d] = FirstSeq(d)
                                    /\ sess.ep[d].held \subseteq 0 .. StreamLength(d) - 1
                                    /\ sess.ep[d].last_offset \in 0 .. StreamLength(d)
        <3>1. sess \in Session /\ Fits(sess, Captured)  BY <1>1, <2>4 DEF Inv, SessionInv
        <3>2. sess.state \in States /\ sess.four_way \in FourWays  BY <3>1 DEF Session
        <3>3. ASSUME NEW d \in Dirs
              PROVE  /\ sess.init_seq[d] = FirstSeq(d)
                     /\ sess.ep[d].held \subseteq 0 .. StreamLength(d) - 1
                     /\ sess.ep[d].last_offset \in 0 .. StreamLength(d)
            <4>1. /\ sess.init_seq[d] = FirstSeq(d)
                  /\ sess.ep[d].last_offset \in 0 .. StreamLength(d)
                  /\ sess.ep[d].held \subseteq sess.ep[d].last_offset + 1 .. StreamLength(d) - 1
                BY <3>1 DEF Fits
            <4>2. StreamLength(d) \in Nat  BY DirFacts
            <4> QED  BY <4>1, <4>2
        <3> QED  BY <3>2, <3>3 DEF States, FourWays
    <2> QED  BY <2>1, <2>2, <2>3, <2>4 DEF TypeOK
<1> QED  BY SessionInvariant, <1>1, PTL

\* Followed for all streams, cut, reordered, lost and repeated in any way: the parser has
\* been given each stream up to the first gap (_process_data_packet, and the data of the
\* packet that ends the handshake, _three_way_handshake_process).
THEOREM SessionFollowed == Spec => []Followed
<1>1. ASSUME Inv PROVE Followed
    <2> SUFFICES ASSUME sess # None, NEW d \in Dirs PROVE fed[d] = FirstGap(snt[d].bytes, 0)
        BY DEF Followed
    <2>1. sess \in Session /\ Fits(sess, Captured) /\ fed = [e \in Dirs |-> sess.ep[e].last_offset]
        BY <1>1 DEF Inv, SessionInv
    <2>2. sess.ep[d].last_offset = FirstGap(Captured[d], 0)  BY <2>1, FitsGap
    <2> QED  BY <2>1, <2>2 DEF Captured
<1> QED  BY SessionInvariant, <1>1, PTL

-----------------------------------------------------------------------------
(* No packet is taken for a lost one, when a FIN comes without data. *)

\* The session that a packet finds, or that is created for it.
Fresh(s) ==
    /\ sess = None /\ \A e \in Dirs : snt[e].bytes = {}
    /\ ~Over(s) /\ \A e \in Dirs : s.ep[e].last_ack = 0 /\ s.ep[e].last_offset = 0
    /\ s.four_way = "INIT" /\ s.fin1_seq = 0 /\ s.fin2_seq = 0

Stepped(s, d, sq, n, fin, rst) ==
    LET a == Received(Other(d))
        p == Seg(d, sq, n, fin, rst, a)
    IN  \E t \in Session :
           /\ Prepared(s, t, d, n, fin, a) /\ Fits(t, Captured)
           /\ \/ n = 0 /\ ~fin /\ sess' = t /\ fed' = fed /\ ended' = ended
              \/ \E o \in Result :
                   /\ Handled(t, o, Captured, p, d, sq, n)
                   /\ fed' = [e \in Dirs |-> o.s.ep[e].last_offset]
                   /\ sess' = IF o.why = <<>> THEN o.s ELSE None
                   /\ ended' = o.why

LEMMA SegmentCases ==
    ASSUME Inv, NEW d \in Dirs, NEW sq, NEW n, NEW fin, NEW rst, Passed(d, sq, n),
           RequestPacketHandle(Header(d, sq, n, fin, rst))
    PROVE  \/ sess = None /\ UNCHANGED <<sess, fed, ended>>
           \/ \E s \in Session : /\ Fits(s, Captured)
                                 /\ (sess # None /\ s = sess) \/ Fresh(s)
                                 /\ Stepped(s, d, sq, n, fin, rst)
<1> DEFINE a == Received(Other(d))
           p == Seg(d, sq, n, fin, rst, a)
<1>1. RequestPacketHandle(p)  BY DEF Header, Seg
<1>2. sq \in Nat /\ n \in Nat /\ sq + n <= StreamLength(d) /\ hs >= 3
    BY DEF Passed, Inv, NetInv
<1>3. a \in Nat  BY ReceivedIs, DirFacts DEF Inv
<1>4. p.kind = "seg"  BY SegFields
<1>5. Captured \in [Dirs -> SUBSET Nat] /\ \A e \in Dirs : Captured[e] = snt[e].bytes
    BY CapturedIs DEF Inv
<1> HIDE DEF p, a
<1>6. ASSUME NEW s \in Session, Fits(s, Captured), DataProcess(s, p)
      PROVE  Stepped(s, d, sq, n, fin, rst)
    <2>1. \E t \in Session :
              /\ Prepared(s, t, d, n, fin, a) /\ Fits(t, Captured)
              /\ \/ n = 0 /\ ~fin /\ sess' = t /\ fed' = fed /\ ended' = ended
                 \/ \E o \in Result :
                      /\ Handled(t, o, Captured, p, d, sq, n)
                      /\ fed' = [e \in Dirs |-> o.s.ep[e].last_offset]
                      /\ sess' = IF o.why = <<>> THEN o.s ELSE None
                      /\ ended' = o.why
        BY <1>2, <1>3, <1>5, <1>6, DataProcessIs DEF p
    <2> QED  BY <2>1 DEF Stepped, a, p
<1>7. CASE HandleSession(p)
    <2>1. sess # None /\ DataProcess(sess, p)  BY <1>7 DEF HandleSession
    <2>2. sess \in Session /\ Fits(sess, Captured)  BY <2>1 DEF SessionInv, Inv
    <2> QED  BY <1>6, <2>1, <2>2
<1>8. CASE HandleFirstData(p)
    <2>1. /\ sess = None /\ sreq # None
          /\ DataProcess(NewSession(sreq), p) \/ UNCHANGED <<sess, fed, ended>>
        BY <1>8 DEF HandleFirstData
    <2>2. /\ sreq.req_sn_init = FirstSeq("req") /\ sreq.res_sn_init = FirstSeq("res")
          /\ \A e \in Dirs : snt[e].bytes = {}
        BY <1>2, <2>1 DEF RequestInv, Inv
    <2>3. CASE UNCHANGED <<sess, fed, ended>>  BY <2>1, <2>3
    <2>4. CASE DataProcess(NewSession(sreq), p)
        <3> DEFINE s == NewSession(sreq)
        <3>1. \A e \in Dirs : Captured[e] = {}  BY <1>5, <2>2
        <3>2. /\ s \in Session /\ Fits(s, Captured) /\ ~Over(s)
              /\ \A e \in Dirs : s.ep[e].last_ack = 0 /\ s.ep[e].last_offset = 0
              /\ s.four_way = "INIT" /\ s.fin1_seq = 0 /\ s.fin2_seq = 0
            BY <1>5, <2>2, <3>1, NewSessionIs
        <3>3. Fresh(s)  BY <2>1, <2>2, <3>2 DEF Fresh
        <3> HIDE DEF s
        <3>4. Stepped(s, d, sq, n, fin, rst)  BY <1>6, <2>4, <3>2 DEF s
        <3> QED  BY <3>2, <3>3, <3>4
    <2> QED  BY <2>1, <2>3, <2>4
<1>9. CASE HandleAckAck(p) \/ HandleRequestRst(p) \/ HandleDrop(p)
    BY <1>9 DEF HandleAckAck, HandleRequestRst, HandleDrop, monitor
<1>10. ~HandleSyn(p) /\ ~HandleSynAck(p)  BY <1>4 DEF HandleSyn, HandleSynAck
<1> QED  BY <1>1, <1>7, <1>8, <1>9, <1>10 DEF RequestPacketHandle

\* Once a FIN has arrived acknowledgements are no longer looked at, and until then none
\* is ahead of the data handed over; a direction without data needs no such care.
NotBehind(s) == \A e \in Dirs : s.ep[e].last_ack <= s.ep[e].last_offset \/ StreamLength(e) = 0

FinSeen(s, r) == \A e \in Dirs : r[e].fin => Over(s) \/ StreamLength(e) = 0

AckInv == NoFalseDiscard /\ (sess # None => NotBehind(sess) /\ FinSeen(sess, rcv))

\* What the session is like when the packet's data is looked at.
LEMMA AckPrepared ==
    ASSUME Inv, AckInv, NEW d \in Dirs, NEW sq, NEW n \in Nat, NEW fin,
           \A e \in Dirs : rcv'[e].fin => rcv[e].fin \/ (e = d /\ fin),
           fin => n = 0,
           NEW s \in Session, Fits(s, Captured), (sess # None /\ s = sess) \/ Fresh(s),
           NEW t \in Session, Prepared(s, t, d, n, fin, Received(Other(d)))
    PROVE  NotBehind(t) /\ FinSeen(t, rcv')
<1> DEFINE o == Other(d)
           a == Received(o)
<1>1. NetInv /\ o \in Dirs /\ o # d /\ \A e \in Dirs : e = d \/ e = o  BY DirFacts DEF Inv
<1>2. \A e \in Dirs : StreamLength(e) \in Nat  BY DirFacts
<1>3. NotBehind(s) /\ FinSeen(s, rcv)
    <2>1. CASE sess # None /\ s = sess  BY <2>1 DEF AckInv
    <2>2. CASE Fresh(s)
        <3>1. NotBehind(s)  BY <2>2 DEF Fresh, NotBehind
        <3>2. ASSUME NEW e \in Dirs, rcv[e].fin PROVE StreamLength(e) = 0
            <4>1. 0 .. StreamLength(e) - 1 \subseteq snt[e].bytes  BY <1>1, <3>2 DEF NetInv
            <4>2. snt[e].bytes = {}  BY <2>2 DEF Fresh
            <4>3. ~(StreamLength(e) > 0)
                <5>1. ASSUME StreamLength(e) > 0 PROVE FALSE
                    <6>1. 0 \in 0 .. StreamLength(e) - 1  BY <1>2, <5>1
                    <6> QED  BY <4>1, <4>2, <6>1
                <5> QED  BY <5>1
            <4> QED  BY <1>2, <4>3
        <3> QED  BY <3>1, <3>2 DEF FinSeen
    <2> QED  BY <2>1, <2>2
<1> HIDE DEF o, a
<1>4. /\ \A e \in Dirs : t.ep[e].last_offset = s.ep[e].last_offset
      /\ Over(s) => t = s
      /\ Over(t) \/ n > 0 \/ ~fin
      /\ t.ep[d].last_ack = s.ep[d].last_ack
      /\ \/ t.ep[o].last_ack = s.ep[o].last_ack
         \/ ~Over(s) /\ t.ep[o].last_ack = a
    BY DEF Prepared, SameData, o, a
<1>5. FinSeen(t, rcv')
    <2> SUFFICES ASSUME NEW e \in Dirs, rcv'[e].fin PROVE Over(t) \/ StreamLength(e) = 0
        BY DEF FinSeen
    <2>1. CASE rcv[e].fin  BY <1>3, <1>4, <2>1 DEF FinSeen
    <2>2. CASE fin
        <3>1. ~(n > 0)  BY <2>2
        <3> QED  BY <1>4, <2>2, <3>1
    <2> QED  BY <2>1, <2>2
<1>6. ~Over(s) => a <= s.ep[o].last_offset \/ StreamLength(o) = 0
    <2> SUFFICES ASSUME ~Over(s), StreamLength(o) # 0 PROVE a <= s.ep[o].last_offset
        OBVIOUS
    <2>1. ~rcv[o].fin  BY <1>1, <1>3 DEF FinSeen
    <2>2. s.ep[o].last_offset = FirstGap(snt[o].bytes, 0)
        BY <1>1, FitsGap, CapturedIs
    <2>3. a = FirstGap(rcv[o].bytes, 0) /\ FirstGap(rcv[o].bytes, 0) <= FirstGap(snt[o].bytes, 0)
        BY <1>1, <2>1, ReceivedIs DEF a
    <2> QED  BY <2>2, <2>3
<1>7. NotBehind(t)
    <2> SUFFICES ASSUME NEW e \in Dirs
                 PROVE  t.ep[e].last_ack <= t.ep[e].last_offset \/ StreamLength(e) = 0
        BY DEF NotBehind
    <2>1. CASE t.ep[e].last_ack = s.ep[e].last_ack  BY <1>3, <1>4, <2>1 DEF NotBehind
    <2>2. CASE e = o /\ ~Over(s) /\ t.ep[o].last_ack = a  BY <1>4, <1>6, <2>2
    <2> QED  BY <1>1, <1>4, <2>1, <2>2
<1> QED  BY <1>5, <1>7

LEMMA AckSegment ==
    ASSUME Inv, AckInv, NEW d \in Dirs, NEW sq, NEW n, NEW fin, NEW rst, Passed(d, sq, n),
           RequestPacketHandle(Header(d, sq, n, fin, rst)),
           \A e \in Dirs : rcv'[e].fin => rcv[e].fin \/ (e = d /\ fin),
           fin => n = 0
    PROVE  AckInv'
<1> DEFINE a == Received(Other(d))
           p == Seg(d, sq, n, fin, rst, a)
<1>1. n \in Nat /\ sq \in Nat /\ sq + n <= StreamLength(d) /\ StreamLength(d) \in Nat
    BY DirFacts DEF Passed
<1>2. CASE sess = None /\ UNCHANGED <<sess, fed, ended>>
    BY <1>2 DEF AckInv, NoFalseDiscard
<1>3. ASSUME NEW s \in Session, Fits(s, Captured), (sess # None /\ s = sess) \/ Fresh(s),
             Stepped(s, d, sq, n, fin, rst)
      PROVE  AckInv'
    <2>1. PICK t \in Session :
           /\ Prepared(s, t, d, n, fin, a) /\ Fits(t, Captured)
           /\ \/ n = 0 /\ ~fin /\ sess' = t /\ fed' = fed /\ ended' = ended
              \/ \E o \in Result :
                   /\ Handled(t, o, Captured, p, d, sq, n)
                   /\ fed' = [e \in Dirs |-> o.s.ep[e].last_offset]
                   /\ sess' = IF o.why = <<>> THEN o.s ELSE None
                   /\ ended' = o.why
        BY <1>3 DEF Stepped
    <2>2. NotBehind(t) /\ FinSeen(t, rcv')  BY <1>1, <1>3, <2>1, AckPrepared
    <2>3. CASE n = 0 /\ ~fin /\ sess' = t /\ fed' = fed /\ ended' = ended
        BY <2>2, <2>3 DEF AckInv, NoFalseDiscard
    <2>4. ASSUME NEW o \in Result, Handled(t, o, Captured, p, d, sq, n),
                 sess' = IF o.why = <<>> THEN o.s ELSE None,
                 ended' = o.why
          PROVE  AckInv'
        <3>1. n = 0 \/ t.ep[d].last_ack <= t.ep[d].last_offset
            <4>1. CASE n # 0
                <5>1. StreamLength(d) # 0  BY <1>1, <4>1
                <5> QED  BY <2>2, <5>1 DEF NotBehind
            <4> QED  BY <4>1
        <3>2. NoFalseDiscard'  BY <2>4, <3>1 DEF Handled, NoFalseDiscard
        <3>3. SameAcks(t, o.s)  BY <2>4 DEF Handled
        <3>4. FinSeen(o.s, rcv')  BY <2>2, <3>3 DEF FinSeen, SameAcks, Over
        <3>5. NotBehind(o.s)
            <4> SUFFICES ASSUME NEW e \in Dirs, StreamLength(e) # 0
                         PROVE  o.s.ep[e].last_ack <= o.s.ep[e].last_offset
                BY DEF NotBehind
            <4>1. o.s.ep[e].last_ack = t.ep[e].last_ack  BY <3>3 DEF SameAcks
            <4>2. o.s.ep[e].last_offset \in t.ep[e].last_offset .. StreamLength(e)
                BY <2>4 DEF Handled
            <4>3. t.ep[e].last_ack <= t.ep[e].last_offset  BY <2>2 DEF NotBehind
            <4>4. t.ep[e].last_ack \in Nat /\ t.ep[e].last_offset \in Nat /\ StreamLength(e) \in Nat
                BY DirFacts DEF Session, Endpoint
            <4> QED  BY <4>1, <4>2, <4>3, <4>4
        <3> QED  BY <2>4, <3>2, <3>4, <3>5 DEF AckInv
    <2> QED  BY <2>1, <2>3, <2>4
<1> QED  BY <1>2, <1>3, SegmentCases

LEMMA AckNext ==
    ASSUME ~DataFin, Inv, AckInv, [Next]_vars
    PROVE  AckInv'
<1>0. NetInv  BY DEF Inv
<1>1. CASE Syn(RequestPacketHandle) \/ SynAck(RequestPacketHandle)
    <2>1. rcv' = rcv /\ UNCHANGED <<sess, fed, ended>>  BY <1>1, InvHandshake
    <2> QED  BY <2>1 DEF AckInv, NoFalseDiscard, FinSeen
<1>2. ASSUME NEW d \in Dirs, NEW s \in 0 .. ReqLen + ResLen, NEW n \in 0 .. MaxSeg,
             NEW fin \in BOOLEAN, Segment(d, s, n, fin, RequestPacketHandle)
      PROVE  AckInv'
    <2>0. Sends(d, s, n, fin)  BY <1>2 DEF Segment, Sends
    <2>1. /\ Passed(d, s, n)
          /\ \A e \in Dirs : rcv'[e].fin => rcv[e].fin \/ (e = d /\ fin)
          /\ fin => (n > 0 => DataFin)
        BY <1>0, <2>0, NetSegment
    <2>2. RequestPacketHandle(Header(d, s, n, fin, FALSE))  BY <1>2 DEF Segment
    <2>3. fin => n = 0  BY <2>1 DEF Passed
    <2> QED  BY <2>1, <2>2, <2>3, AckSegment
<1>3. ASSUME NEW d \in Dirs, Reset(d, RequestPacketHandle)
      PROVE  AckInv'
    <2> DEFINE sq == FirstGap(snt[d].all, 0)
    <2>1. Passed(d, sq, 0) /\ rcv' = rcv  BY <1>0, <1>3, NetReset DEF Reset, Resets
    <2>2. RequestPacketHandle(Header(d, sq, 0, FALSE, TRUE))  BY <1>3 DEF Reset
    <2> HIDE DEF sq
    <2>3. \A e \in Dirs : rcv'[e].fin => rcv[e].fin \/ (e = d /\ FALSE)  BY <2>1
    <2> QED  BY <2>1, <2>2, <2>3, AckSegment
<1>4. CASE (RequestTimeout \/ SessionTimeout) /\ UNCHANGED network
    <2>1. CASE RequestTimeout
        BY <1>4, <2>1 DEF RequestTimeout, AckInv, NoFalseDiscard, FinSeen, network
    <2>2. CASE SessionTimeout
        <3>1. sess' = None /\ ended' = <<"timeout">>  BY <2>2 DEF SessionTimeout
        <3>2. NoFalseDiscard'  BY <3>1 DEF NoFalseDiscard
        <3> QED  BY <3>1, <3>2 DEF AckInv
    <2> QED  BY <1>4, <2>1, <2>2
<1>5. CASE UNCHANGED vars
    BY <1>5 DEF vars, monitor, network, AckInv, NoFalseDiscard, FinSeen
<1> QED  BY <1>1, <1>2, <1>3, <1>4, <1>5, StepCases

\* NoFalseDiscard for all streams, when every FIN is a packet of its own: no session is
\* closed as one that has missed a packet ("some packet has been discard,then close
\* session", ch_tcp_session_packet_handle).  With data in the FIN packet it is false, as
\* the run TcpSession_datafin shows.
THEOREM SessionNoFalseDiscard ==
    ASSUME ~DataFin
    PROVE  Spec => []NoFalseDiscard
<1>1. ASSUME Init PROVE AckInv
    BY <1>1 DEF Init, AckInv, NoFalseDiscard
<1>2. ASSUME Inv, AckInv, [Next]_vars PROVE AckInv'
    BY <1>2, AckNext
<1>3. AckInv => NoFalseDiscard  BY DEF AckInv
<1> QED  BY SessionInvariant, <1>1, <1>2, <1>3, PTL DEF Spec

-----------------------------------------------------------------------------
(* The four-way close finds both streams complete. *)

\* Direction e has sent all of its data.
Whole(e, B) == 0 .. StreamLength(e) - 1 \subseteq B[e]

\* A FIN that is remembered is the end of a stream of which everything has been seen.
\* Sequence number 0 stands for "no FIN yet".
EndOf(f, B) == f # 0 => \E e \in Dirs : f = FirstSeq(e) + StreamLength(e) /\ Whole(e, B)

Fins(s, B) ==
    /\ EndOf(s.fin1_seq, B) /\ EndOf(s.fin2_seq, B)
    /\ s.four_way # "INIT" => s.fin1_seq # 0
    /\ s.fin2_seq # 0 => s.fin1_seq # 0

FinInv == ClosedOnce /\ ClosedComplete /\ (sess # None => Fins(sess, Captured))

\* The first FIN sent again is taken for the second; but then its acknowledgement is that
\* of the first, and the session is kept.
LEMMA TwoFins ==
    ASSUME NEW s, NEW B, Fins(s, B), NEW p, AcksFin2(s, p), s.fin2_seq # 0
    PROVE  \A e \in Dirs : Whole(e, B)
<1>1. s.fin1_seq # 0  BY DEF Fins
<1>2. PICK e1 \in Dirs : s.fin1_seq = FirstSeq(e1) + StreamLength(e1) /\ Whole(e1, B)
    BY <1>1 DEF Fins, EndOf
<1>3. PICK e2 \in Dirs : s.fin2_seq = FirstSeq(e2) + StreamLength(e2) /\ Whole(e2, B)
    BY DEF Fins, EndOf
<1>4. s.fin1_seq # s.fin2_seq  BY DEF AcksFin2
<1>5. e1 # e2  BY <1>2, <1>3, <1>4
<1>6. \A e \in Dirs : e = e1 \/ e = e2  BY <1>5 DEF Dirs
<1> QED  BY <1>2, <1>3, <1>6

LEMMA WholeIs ==
    ASSUME NEW s \in Session, NEW B, Fits(s, B), NEW e \in Dirs, Whole(e, B)
    PROVE  s.ep[e].last_offset = StreamLength(e)
<1> DEFINE last == s.ep[e].last_offset
           L == StreamLength(e)
<1>1. L \in Nat /\ last \in 0 .. L  BY DirFacts DEF Fits
<1>2. 0 .. L - 1 \subseteq (0 .. last - 1) \cup s.ep[e].held
      /\ s.ep[e].held \subseteq last + 1 .. L - 1
    BY DEF Fits, Whole
<1> HIDE DEF last, L
<1>3. ASSUME last < L PROVE FALSE
    <2>1. last \in 0 .. L - 1 /\ last \notin 0 .. last - 1 /\ last \notin last + 1 .. L - 1
        BY <1>1, <1>3
    <2> QED  BY <1>2, <2>1
<1>4. last = L  BY <1>1, <1>3
<1> QED  BY <1>4 DEF last, L

LEMMA EndOfMore ==
    ASSUME NEW f, NEW B, NEW C, EndOf(f, B), \A e \in Dirs : B[e] \subseteq C[e]
    PROVE  EndOf(f, C)
BY DEF EndOf, Whole

\* What the flags of a packet do to the FINs that are remembered.
LEMMA FinsStep ==
    ASSUME NEW s, NEW t, s.fin1_seq \in Nat, s.fin2_seq \in Nat, NEW B, NEW C, Fins(s, B),
           \A e \in Dirs : B[e] \subseteq C[e],
           NEW p, p.ack \in Nat, p.ack > 1, FinStep(s, t, p),
           p.fin => p.seq # 0 /\ EndOf(p.seq, C)
    PROVE  Fins(t, C)
<1>1. EndOf(s.fin1_seq, C) /\ EndOf(s.fin2_seq, C)  BY EndOfMore DEF Fins
<1>2. s.fin1_seq \in Nat /\ s.fin2_seq \in Nat  OBVIOUS
<1>3. /\ s.four_way # "INIT" => s.fin1_seq # 0
      /\ s.fin2_seq # 0 => s.fin1_seq # 0
    BY DEF Fins
<1>4. CASE t.fin1_seq = s.fin1_seq /\ t.fin2_seq = s.fin2_seq /\ t.four_way = s.four_way
    BY <1>1, <1>3, <1>4 DEF Fins
<1>5. CASE p.fin /\ s.four_way = "INIT" /\ t.fin1_seq = p.seq /\ t.fin2_seq = s.fin2_seq
    BY <1>1, <1>5 DEF Fins
<1>6. CASE p.fin /\ s.four_way # "INIT" /\ t.fin1_seq = s.fin1_seq /\ t.fin2_seq = p.seq
    BY <1>1, <1>3, <1>6 DEF Fins
<1>7. CASE /\ p.ack = s.fin1_seq + 1 \/ p.ack = s.fin2_seq + 1
           /\ t.fin1_seq = s.fin1_seq /\ t.fin2_seq = s.fin2_seq
    <2>1. s.fin1_seq # 0 \/ s.fin2_seq # 0  BY <1>2, <1>7
    <2>2. s.fin1_seq # 0  BY <1>3, <2>1
    <2> QED  BY <1>1, <1>7, <2>2 DEF Fins
<1> QED  BY <1>4, <1>5, <1>6, <1>7 DEF FinStep

LEMMA FinSegment ==
    ASSUME ReqIsn # 0, ResIsn # 0,
           Inv, AckInv, FinInv, NEW d \in Dirs, NEW sq, NEW n, NEW fin, NEW rst, Passed(d, sq, n),
           RequestPacketHandle(Header(d, sq, n, fin, rst)),
           \A e \in Dirs : rcv'[e].fin => rcv[e].fin \/ (e = d /\ fin),
           fin => n = 0 /\ sq = StreamLength(d) /\ Whole(d, Captured'),
           rst => n = 0
    PROVE  FinInv'
<1> DEFINE a == Received(Other(d))
           p == Seg(d, sq, n, fin, rst, a)
           C == Plus(Captured, d, sq, n)
<1>1. /\ n \in Nat /\ sq \in Nat /\ sq + n <= StreamLength(d) /\ StreamLength(d) \in Nat
      /\ Captured' = C
    BY DirFacts DEF Passed
<1>2. Captured \in [Dirs -> SUBSET Nat]  BY CapturedIs DEF Inv
<1>3. \A e \in Dirs : Captured[e] \subseteq C[e]  BY <1>2 DEF Plus
<1>4. p.seq = FirstSeq(d) + sq /\ p.fin = fin /\ p.rst = rst /\ p.ack = FirstSeq(Other(d)) + a
    BY SegFields
<1>5. a \in Nat /\ Other(d) \in Dirs  BY ReceivedIs, DirFacts DEF Inv
<1>6. FirstSeq(Other(d)) \in Nat /\ FirstSeq(Other(d)) > 1 /\ FirstSeq(d) \in Nat /\ FirstSeq(d) > 1
    BY SessionAssumption DEF FirstSeq
<1>7. p.ack \in Nat /\ p.ack > 1  BY <1>4, <1>5, <1>6
<1> HIDE DEF a, p, C
<1>8. ASSUME p.fin PROVE p.seq # 0 /\ EndOf(p.seq, C)
    <2>1. fin /\ sq = StreamLength(d) /\ Whole(d, C)  BY <1>1, <1>4, <1>8
    <2>2. p.seq = FirstSeq(d) + StreamLength(d)  BY <1>4, <2>1
    <2>3. p.seq # 0  BY <1>1, <1>6, <2>2
    <2> QED  BY <2>1, <2>2, <2>3 DEF EndOf
<1>9. CASE sess = None /\ UNCHANGED <<sess, fed, ended>>
    BY <1>9 DEF FinInv, ClosedOnce, ClosedComplete
<1>10. ASSUME NEW s \in Session, Fits(s, Captured), (sess # None /\ s = sess) \/ Fresh(s),
             Stepped(s, d, sq, n, fin, rst)
      PROVE  FinInv'
    <2>1. PICK t \in Session :
           /\ Prepared(s, t, d, n, fin, a) /\ Fits(t, Captured)
           /\ \/ n = 0 /\ ~fin /\ sess' = t /\ fed' = fed /\ ended' = ended
              \/ \E o \in Result :
                   /\ Handled(t, o, Captured, p, d, sq, n)
                   /\ fed' = [e \in Dirs |-> o.s.ep[e].last_offset]
                   /\ sess' = IF o.why = <<>> THEN o.s ELSE None
                   /\ ended' = o.why
        BY <1>10 DEF Stepped, a, p
    <2>2. NotBehind(t)  BY <1>1, <1>10, <2>1, AckPrepared DEF a
    <2>3. Fins(t, Captured)
        <3>1. Fins(s, Captured)
            <4>1. CASE Fresh(s)  BY <4>1 DEF Fresh, Fins, EndOf
            <4>2. CASE sess # None /\ s = sess  BY <4>2 DEF FinInv
            <4> QED  BY <1>10, <4>1, <4>2
        <3> QED  BY <2>1, <3>1 DEF Prepared, SameFins, Fins
    <2>4. CASE n = 0 /\ ~fin /\ sess' = t /\ fed' = fed /\ ended' = ended
        <3>1. Fins(t, C)
            BY <1>3, <2>3, EndOfMore DEF Fins
        <3> QED  BY <1>1, <2>4, <3>1 DEF FinInv, ClosedOnce, ClosedComplete
    <2>5. ASSUME NEW o \in Result, Handled(t, o, Captured, p, d, sq, n),
                 fed' = [e \in Dirs |-> o.s.ep[e].last_offset],
                 sess' = IF o.why = <<>> THEN o.s ELSE None,
                 ended' = o.why
          PROVE  FinInv'
        <3>1. n = 0 \/ t.ep[d].last_ack <= t.ep[d].last_offset
            <4>1. CASE n # 0
                <5>1. StreamLength(d) # 0  BY <1>1, <4>1
                <5> QED  BY <2>2, <5>1 DEF NotBehind
            <4> QED  BY <4>1
        <3>2. ASSUME AcksFin2(t, p) PROVE \A e \in Dirs : Whole(e, Captured)
            <4>1. t.fin2_seq \in Nat /\ p.ack = t.fin2_seq + 1  BY <3>2 DEF AcksFin2, Session
            <4>2. t.fin2_seq # 0  BY <1>7, <4>1
            <4> QED  BY <2>3, <3>2, <4>2, TwoFins
        <3>3. AcksFin2(t, p) => t.ep[d].last_offset = StreamLength(d)
            BY <2>1, <3>2, WholeIs
        <3>4. ClosedOnce'
            <4>1. n = 0 \/ ~p.rst  BY <1>4
            <4> QED  BY <2>5, <3>1, <3>3, <4>1 DEF Handled, ClosedOnce
        <3>5. ClosedComplete'
            <4> SUFFICES ASSUME o.why = <<"fourway">>, NEW e \in Dirs
                         PROVE  o.s.ep[e].last_offset = StreamLength(e)
                BY <2>5 DEF ClosedComplete
            <4>1. AcksFin2(t, p) /\ Fits(o.s, C)  BY <2>5 DEF Handled, C
            <4>2. Whole(e, C)  BY <1>3, <3>2, <4>1 DEF Whole
            <4>3. o.s \in Session  BY DEF Result
            <4> QED  BY <4>1, <4>2, <4>3, WholeIs
        <3>6. Fins(o.s, C)
            <4>1. FinStep(t, o.s, p) /\ t.fin1_seq \in Nat /\ t.fin2_seq \in Nat
                BY <2>5 DEF Handled, Session
            <4> QED  BY <1>3, <1>7, <1>8, <2>3, <4>1, FinsStep
        <3> QED  BY <1>1, <2>5, <3>4, <3>5, <3>6 DEF FinInv
    <2> QED  BY <2>1, <2>4, <2>5
<1> QED  BY <1>9, <1>10, SegmentCases

LEMMA FinNext ==
    ASSUME ReqIsn # 0, ResIsn # 0, ~DataFin, Inv, AckInv, FinInv, [Next]_vars
    PROVE  FinInv'
<1>0. NetInv  BY DEF Inv
<1>1. CASE Syn(RequestPacketHandle) \/ SynAck(RequestPacketHandle)
    <2>1. UNCHANGED <<sess, fed, ended>> /\ Captured' = Captured  BY <1>1, InvHandshake
    <2> QED  BY <2>1 DEF FinInv, ClosedOnce, ClosedComplete
<1>2. ASSUME NEW d \in Dirs, NEW s \in 0 .. ReqLen + ResLen, NEW n \in 0 .. MaxSeg,
             NEW fin \in BOOLEAN, Segment(d, s, n, fin, RequestPacketHandle)
      PROVE  FinInv'
    <2>0. Sends(d, s, n, fin)  BY <1>2 DEF Segment, Sends
    <2>1. /\ Passed(d, s, n)
          /\ \A e \in Dirs : rcv'[e].fin => rcv[e].fin \/ (e = d /\ fin)
          /\ fin => /\ s + n = StreamLength(d) /\ (n > 0 => DataFin)
                    /\ 0 .. StreamLength(d) - 1 \subseteq Captured'[d]
        BY <1>0, <2>0, NetSegment
    <2>2. RequestPacketHandle(Header(d, s, n, fin, FALSE))  BY <1>2 DEF Segment
    <2>3. n \in Nat /\ s \in Nat  BY <2>1 DEF Passed
    <2>4. fin => n = 0 /\ s = StreamLength(d) /\ Whole(d, Captured')  BY <2>1, <2>3 DEF Whole
    <2> QED  BY <2>1, <2>2, <2>4, FinSegment
<1>3. ASSUME NEW d \in Dirs, Reset(d, RequestPacketHandle)
      PROVE  FinInv'
    <2> DEFINE sq == FirstGap(snt[d].all, 0)
    <2>1. Passed(d, sq, 0) /\ rcv' = rcv  BY <1>0, <1>3, NetReset DEF Reset, Resets
    <2>2. RequestPacketHandle(Header(d, sq, 0, FALSE, TRUE))  BY <1>3 DEF Reset
    <2> HIDE DEF sq
    <2>3. \A e \in Dirs : rcv'[e].fin => rcv[e].fin \/ (e = d /\ FALSE)  BY <2>1
    <2> QED  BY <2>1, <2>2, <2>3, FinSegment
<1>4. CASE (RequestTimeout \/ SessionTimeout) /\ UNCHANGED network
    <2>1. Captured' = Captured  BY <1>4 DEF Captured, network
    <2>2. CASE RequestTimeout
        BY <2>1, <2>2 DEF RequestTimeout, FinInv, ClosedOnce, ClosedComplete
    <2>3. CASE SessionTimeout
        <3>1. sess' = None /\ ended' = <<"timeout">>  BY <2>3 DEF SessionTimeout
        <3>2. ClosedOnce' /\ ClosedComplete'  BY <3>1 DEF ClosedOnce, ClosedComplete
        <3> QED  BY <3>1, <3>2 DEF FinInv
    <2> QED  BY <1>4, <2>2, <2>3
<1>5. CASE UNCHANGED vars
    <2>1. Captured' = Captured  BY <1>5 DEF Captured, network, vars
    <2> QED  BY <1>5, <2>1 DEF vars, monitor, FinInv, ClosedOnce, ClosedComplete
<1> QED  BY <1>1, <1>2, <1>3, <1>4, <1>5, StepCases

LEMMA CloseInvariant ==
    ASSUME ReqIsn # 0, ResIsn # 0, ~DataFin
    PROVE  Spec => []FinInv
<1>1. ASSUME Init PROVE AckInv /\ FinInv
    <2>1. sess = None /\ ended = <<>>  BY <1>1 DEF Init
    <2>2. ended # <<"fourway">> /\ Len(ended) <= 1  BY <2>1
    <2> QED  BY <2>1, <2>2 DEF AckInv, NoFalseDiscard, FinInv, ClosedOnce, ClosedComplete
<1>2. ASSUME Inv, AckInv, FinInv, [Next]_vars PROVE (AckInv /\ FinInv)'
    BY <1>2, AckNext, FinNext
<1> QED  BY SessionInvariant, <1>1, <1>2, PTL DEF Spec

\* ClosedComplete for all streams, when every FIN is a packet of its own and no initial
\* sequence number is 0, which fin1_seq and fin2_seq take for "no FIN yet": a session that
\* is closed by the four-way close has been given all data of both hosts, FINs sent again
\* and acknowledgements in any order included (_process_fin2_ack_packet).
THEOREM SessionClosedComplete ==
    ASSUME ReqIsn # 0, ResIsn # 0, ~DataFin
    PROVE  Spec => []ClosedComplete
<1>1. FinInv => ClosedComplete  BY DEF FinInv
<1> QED  BY CloseInvariant, <1>1, PTL

\* ClosedOnce, likewise: _tcp_session_close is called at most once for a session, although
\* ch_tcp_session_packet_handle goes on with the packet after its data has closed it.
THEOREM SessionClosedOnce ==
    ASSUME ReqIsn # 0, ResIsn # 0, ~DataFin
    PROVE  Spec => []ClosedOnce
<1>1. FinInv => ClosedOnce  BY DEF FinInv
<1> QED  BY CloseInvariant, <1>1, PTL
=============================================================================
