-------------------------- MODULE TcpReassemblyProofs -------------------------
(***************************************************************************)
(* Proofs about the reassembly of a TCP stream, for streams, packets and   *)
(* windows of any length, any initial sequence number and any order and    *)
(* repetition of packets, as long as the stream is shorter than the range  *)
(* of an offset (NoWrap).                                                  *)
(*                                                                         *)
(* A fragment is an interval of the stream: its bytes are those from its   *)
(* offset on.  The list holds intervals in order with a gap between any    *)
(* two (InList).  PushIs and FreeBelowIs say what push and pop do to the   *)
(* list and to the set of bytes it holds.                                  *)
(***************************************************************************)
EXTENDS TcpReassembly, TLAPS, FiniteSetTheorems, SequenceTheorems, WellFoundedInduction

\* The stream is shorter than the range of an offset.
NoWrap == StreamLen < W

-----------------------------------------------------------------------------
(* Numbers and bytes. *)

\* A set of natural numbers that is not empty has a least element: Min is it.
LEMMA MinIs ==
    ASSUME NEW T \in SUBSET Nat, T # {}
    PROVE  Min(T) \in T /\ \A y \in T : Min(T) <= y
<1>1. PICK x \in T : \A y \in T : ~(<<y, x>> \in OpToRel(<, Nat))
    BY WFMin, NatLessThanWellFounded
<1>2. \A y \in T : y < x => <<y, x>> \in OpToRel(<, Nat)
    BY DEF OpToRel
<1>3. ASSUME NEW y \in T PROVE x <= y
    <2>1. ~(y < x)  BY <1>1, <1>2
    <2> QED  BY <2>1
<1>4. \E z \in T : \A y \in T : z <= y  BY <1>3
<1> QED  BY <1>4 DEF Min

\* Below the modulus uint32_t arithmetic is that of the integers.
LEMMA AddSub ==
    ASSUME NEW a \in Nat, NEW b \in Nat
    PROVE  a + b < W => Add(a, b) = a + b /\ Sub(a + b, a) = b
<1>1. ASSUME NEW x \in 0 .. W - 1 PROVE x % W = x  BY AsmAssumption
<1> QED  BY <1>1, AsmAssumption DEF Add, Sub

\* The offset of a packet is the number of its first byte, wherever the sequence numbers wrap.
LEMMA OffsetIs ==
    ASSUME NoWrap, NEW p \in Packets
    PROVE  /\ p.seq \in Nat /\ p.len \in Nat \ {0} /\ p.seq + p.len <= StreamLen
           /\ OffsetGet(p) = p.seq /\ EndOffset(p) = p.seq + p.len
<1>1. p.seq \in Nat /\ p.len \in Nat \ {0} /\ p.seq + p.len <= StreamLen
    BY AsmAssumption DEF Packets
<1> DEFINE x == p.seq
<1>2. x \in 0 .. W - 1 /\ x + p.len < W  BY <1>1, AsmAssumption DEF NoWrap
<1>3. ASSUME NEW y \in 0 .. W - 1 PROVE y % W = y  BY AsmAssumption
<1>4. ASSUME NEW y \in 0 .. W - 1 PROVE (y + W) % W = y /\ (y - W) % W = y  BY AsmAssumption
<1>5. OffsetGet(p) = x
    <2>0. InitSeq \in 0 .. W - 1 /\ W \in Nat  BY AsmAssumption
    <2> HIDE DEF x
    <2>1. CASE InitSeq + x < W
        <3>1. (InitSeq + x) % W = InitSeq + x  BY <2>0, <2>1, <1>2, <1>3
        <3>2. (InitSeq + x) - InitSeq = x  BY <2>0, <1>2
        <3> QED  BY <3>1, <3>2, <1>2, <1>3 DEF OffsetGet, SentSeq, Add, Sub, x
    <2>2. CASE InitSeq + x >= W
        <3> DEFINE y == InitSeq + x - W
        <3>1. y \in 0 .. W - 1 /\ y + W = InitSeq + x /\ y - InitSeq = x - W  BY <2>0, <2>2, <1>2
        <3>2. (InitSeq + x) % W = y  BY <3>1, <1>4
        <3>3. (y - InitSeq) % W = x  BY <3>1, <1>2, <1>4
        <3> QED  BY <3>2, <3>3 DEF OffsetGet, SentSeq, Add, Sub, x
    <2> QED  BY <2>0, <2>1, <2>2, <1>2
<1> QED  BY <1>1, <1>2, <1>5, AddSub DEF EndOffset

LEMMA BytesIs ==
    ASSUME NEW s \in Nat, NEW n \in Nat
    PROVE  /\ BytesFrom(s, n) \in Seq(Nat) /\ Len(BytesFrom(s, n)) = n
           /\ \A i \in 1 .. n : BytesFrom(s, n)[i] = s + i - 1
BY DEF BytesFrom

\* Part of the bytes are the bytes from another one on.
LEMMA BytesSub ==
    ASSUME NEW s \in Nat, NEW n \in Nat, NEW a \in 1 .. n + 1, NEW b \in a - 1 .. n
    PROVE  SubSeq(BytesFrom(s, n), a, b) = BytesFrom(s + a - 1, b - a + 1)
<1> DEFINE t == BytesFrom(s, n)
           u == SubSeq(t, a, b)
           w == BytesFrom(s + a - 1, b - a + 1)
<1>1. t \in Seq(Nat) /\ Len(t) = n /\ \A i \in 1 .. n : t[i] = s + i - 1  BY BytesIs
<1>2. s + a - 1 \in Nat /\ b - a + 1 \in Nat  OBVIOUS
<1>3. w \in Seq(Nat) /\ Len(w) = b - a + 1 /\ \A i \in 1 .. b - a + 1 : w[i] = (s + a - 1) + i - 1
    BY <1>2, BytesIs
<1> HIDE DEF t, w
<1>4. u \in Seq(Nat) /\ Len(u) = b - a + 1 /\ \A i \in 1 .. b - a + 1 : u[i] = t[a + i - 1]
    <2>1. \A i \in a .. b : t[i] \in Nat  BY <1>1
    <2> QED  BY <2>1, SubSeqProperties
<1> HIDE DEF u
<1>5. \A i \in 1 .. Len(u) : u[i] = w[i]
    <2> SUFFICES ASSUME NEW i \in 1 .. b - a + 1 PROVE u[i] = w[i]
        BY <1>4
    <2>1. a + i - 1 \in 1 .. n  OBVIOUS
    <2>2. u[i] = s + (a + i - 1) - 1  BY <2>1, <1>1, <1>4
    <2> QED  BY <2>2, <1>3
<1>6. u = w  BY <1>3, <1>4, <1>5, SeqEqual
<1> QED  BY <1>6 DEF u, w, t

\* The bytes of two intervals that touch.
LEMMA BytesCat ==
    ASSUME NEW s \in Nat, NEW n \in Nat, NEW m \in Nat
    PROVE  BytesFrom(s, n) \o BytesFrom(s + n, m) = BytesFrom(s, n + m)
<1> DEFINE t == BytesFrom(s, n)
           u == BytesFrom(s + n, m)
           w == BytesFrom(s, n + m)
<1>1. t \in Seq(Nat) /\ Len(t) = n /\ \A i \in 1 .. n : t[i] = s + i - 1  BY BytesIs
<1>0. s + n \in Nat /\ n + m \in Nat  OBVIOUS
<1>2. u \in Seq(Nat) /\ Len(u) = m /\ \A i \in 1 .. m : u[i] = (s + n) + i - 1  BY <1>0, BytesIs
<1>3. w \in Seq(Nat) /\ Len(w) = n + m /\ \A i \in 1 .. n + m : w[i] = s + i - 1  BY <1>0, BytesIs
<1> HIDE DEF t, u, w
<1>4. /\ t \o u \in Seq(Nat) /\ Len(t \o u) = n + m
      /\ \A i \in 1 .. n + m : (t \o u)[i] = IF i <= n THEN t[i] ELSE u[i - n]
    BY <1>1, <1>2, ConcatProperties
<1>5. ASSUME NEW i \in 1 .. n + m PROVE (t \o u)[i] = w[i]
    <2>1. w[i] = s + i - 1  BY <1>3
    <2>2. CASE i <= n
        <3>1. i \in 1 .. n  BY <2>2
        <3> QED  BY <2>1, <2>2, <3>1, <1>1, <1>4
    <2>3. CASE ~(i <= n)
        <3>1. i - n \in 1 .. m /\ (s + n) + (i - n) - 1 = s + i - 1  BY <2>3
        <3>2. (t \o u)[i] = u[i - n]  BY <2>3, <1>4
        <3> QED  BY <2>1, <3>1, <3>2, <1>2
    <2> QED  BY <2>2, <2>3
<1>6. t \o u = w  BY <1>3, <1>4, <1>5, SeqEqual
<1> QED  BY <1>6 DEF t, u, w

-----------------------------------------------------------------------------
(* Fragments. *)

End(f) == f.offset + Len(f.data)
Span(f) == f.offset .. End(f) - 1

\* The fragment with the bytes from o up to e.
Frag(o, e) == [offset |-> o, data |-> BytesFrom(o, e - o)]

\* The fragments of the stream.
Frags == {Frag(x[1], x[2]) : x \in {y \in Nat \X Nat : y[1] < y[2] /\ y[2] <= StreamLen}}

LEMMA FragIs ==
    ASSUME NoWrap, NEW o \in Nat, NEW e \in Nat, o < e, e <= StreamLen
    PROVE  LET f == Frag(o, e) IN
           /\ f \in Frags /\ f.offset = o /\ f.data = BytesFrom(o, e - o) /\ Len(f.data) = e - o
           /\ End(f) = e /\ EndOf(f) = e /\ f.data # <<>> /\ f.data \in Seq(Nat)
<1> DEFINE f == Frag(o, e)
<1>0. e - o \in Nat \ {0}  OBVIOUS
<1>1. f.offset = o /\ f.data = BytesFrom(o, e - o)  BY DEF Frag
<1>2. f \in Frags
    <2>1. <<o, e>> \in {y \in Nat \X Nat : y[1] < y[2] /\ y[2] <= StreamLen}  OBVIOUS
    <2> QED  BY <2>1 DEF Frags
<1> HIDE DEF f
<1>3. Len(f.data) = e - o /\ f.data \in Seq(Nat)  BY <1>0, <1>1, BytesIs
<1>4. f.data # <<>>  BY <1>0, <1>3
<1>5. End(f) = e  BY <1>1, <1>3 DEF End
<1>6. EndOf(f) = e
    <2>1. o + (e - o) = e /\ e < W  BY AsmAssumption DEF NoWrap
    <2> QED  BY <2>1, <1>0, <1>1, <1>3, AddSub DEF EndOf
<1> QED  BY <1>1, <1>2, <1>3, <1>4, <1>5, <1>6 DEF f

\* A fragment is given by its two ends, and EndOf is not disturbed by the modulus.
LEMMA FragsAre ==
    ASSUME NoWrap, NEW f \in Frags
    PROVE  /\ f.offset \in Nat /\ End(f) \in Nat /\ f.offset < End(f) /\ End(f) <= StreamLen
           /\ EndOf(f) = End(f) /\ f = Frag(f.offset, End(f)) /\ Len(f.data) = End(f) - f.offset
           /\ f.data = BytesFrom(f.offset, End(f) - f.offset) /\ f.data # <<>>
<1>1. PICK x \in Nat \X Nat : x[1] < x[2] /\ x[2] <= StreamLen /\ f = Frag(x[1], x[2])
    BY DEF Frags
<1>2. x[1] \in Nat /\ x[2] \in Nat  OBVIOUS
<1> DEFINE o == x[1]
           e == x[2]
<1>3. o \in Nat /\ e \in Nat /\ o < e /\ e <= StreamLen /\ f = Frag(o, e)  BY <1>1, <1>2
<1> HIDE DEF o, e
<1>4. /\ f.offset = o /\ f.data = BytesFrom(o, e - o) /\ Len(f.data) = e - o
      /\ End(f) = e /\ EndOf(f) = e /\ f.data # <<>>
    BY <1>3, FragIs
<1> QED  BY <1>3, <1>4

\* SkipBytes and the two ways to trim.
LEMMA SkipIs ==
    ASSUME NoWrap, NEW f \in Frags, NEW o \in Nat, f.offset <= o, o < End(f)
    PROVE  SkipBytes(f, Sub(o, f.offset)) = Frag(o, End(f))
<1> DEFINE s == f.offset
           e == End(f)
           n == o - s
<1>1. /\ s \in Nat /\ e \in Nat /\ s < e /\ e <= StreamLen
      /\ f.data = BytesFrom(s, e - s) /\ Len(f.data) = e - s
    BY FragsAre
<1>2. s <= o /\ o < e  OBVIOUS
<1> HIDE DEF s, e
<1>3. n \in Nat /\ s + n = o /\ s + n < W /\ n + 1 \in 1 .. (e - s) + 1 /\ (e - s) \in n .. e - s
      /\ e - s \in Nat /\ s + (n + 1) - 1 = o /\ (e - s) - (n + 1) + 1 = e - o
    BY <1>1, <1>2, AsmAssumption DEF NoWrap
<1>4. Sub(o, s) = n /\ Add(s, n) = o  BY <1>1, <1>3, AddSub
<1>5. SubSeq(BytesFrom(s, e - s), n + 1, e - s) = BytesFrom(o, e - o)
    <2> HIDE DEF n
    <2>1. n + 1 \in 1 .. (e - s) + 1 /\ (e - s) \in (n + 1) - 1 .. e - s  BY <1>1, <1>3
    <2>2. SubSeq(BytesFrom(s, e - s), n + 1, e - s) = BytesFrom(s + (n + 1) - 1, (e - s) - (n + 1) + 1)
        BY <1>1, <1>3, <2>1, BytesSub
    <2> QED  BY <2>2, <1>3
<1>6. SkipBytes(f, n) = [offset |-> Add(s, n), data |-> SubSeq(f.data, n + 1, Len(f.data))]
    BY DEF SkipBytes, s
<1> QED  BY <1>1, <1>4, <1>5, <1>6 DEF Frag, s, e

LEMMA CutIs ==
    ASSUME NoWrap, NEW f \in Frags, NEW o \in Nat, f.offset < o, o <= End(f)
    PROVE  [f EXCEPT !.data = SubSeq(f.data, 1, Len(f.data) - Sub(EndOf(f), o))] = Frag(f.offset, o)
<1> DEFINE s == f.offset
           e == End(f)
           n == e - o
<1>1. /\ s \in Nat /\ e \in Nat /\ s < e /\ e <= StreamLen /\ EndOf(f) = e
      /\ f.data = BytesFrom(s, e - s) /\ Len(f.data) = e - s /\ f = Frag(s, e)
    BY FragsAre
<1>2. s < o /\ o <= e  OBVIOUS
<1> HIDE DEF s, e
<1>3. n \in Nat /\ o + n = e /\ e < W /\ (e - s) - n = o - s /\ o - s \in 0 .. e - s /\ e - s \in Nat
      /\ 1 \in 1 .. (e - s) + 1
    BY <1>1, <1>2, AsmAssumption DEF NoWrap
<1>4. Sub(e, o) = n  BY <1>1, <1>3, AddSub
<1>5. SubSeq(BytesFrom(s, e - s), 1, o - s) = BytesFrom(s, o - s)
    <2>0. o - s \in 1 - 1 .. e - s  BY <1>3
    <2>1. SubSeq(BytesFrom(s, e - s), 1, o - s) = BytesFrom(s + 1 - 1, (o - s) - 1 + 1)
        BY <1>1, <1>3, <2>0, BytesSub
    <2>2. s + 1 - 1 = s /\ (o - s) - 1 + 1 = o - s  BY <1>1
    <2> QED  BY <2>1, <2>2
<1>6. SubSeq(f.data, 1, Len(f.data) - Sub(EndOf(f), o)) = BytesFrom(s, o - s)
    BY <1>1, <1>3, <1>4, <1>5
<1>7. f = [offset |-> s, data |-> BytesFrom(s, e - s)]  BY <1>1 DEF Frag
<1>8. [f EXCEPT !.data = BytesFrom(s, o - s)] = [offset |-> s, data |-> BytesFrom(s, o - s)]  BY <1>7
<1> QED  BY <1>6, <1>8 DEF Frag, s

-----------------------------------------------------------------------------
(* Lists of fragments. *)

\* The fragments are in order and apart, and lie beyond lo.
InList(fs, lo) ==
    /\ fs \in Seq(Frags)
    /\ \A i \in 1 .. Len(fs) : lo < fs[i].offset
    /\ \A i, j \in 1 .. Len(fs) : i < j => End(fs[i]) < fs[j].offset

\* The bytes a list holds.
Spread(fs) == UNION {Span(fs[i]) : i \in 1 .. Len(fs)}

LEMMA SpreadIs ==
    ASSUME NEW fs, NEW x
    PROVE  x \in Spread(fs) <=> \E i \in 1 .. Len(fs) : x \in Span(fs[i])
BY DEF Spread

\* The number of elements of two intervals that are apart.
LEMMA TwoIntervals ==
    ASSUME NEW a \in Nat, NEW b \in Nat, NEW c \in Int, a < b, b <= c + 1
    PROVE  Cardinality(1 .. a \union b .. c) = a + (c + 1 - b)
<1>1. IsFiniteSet(1 .. a) /\ Cardinality(1 .. a) = a
    <2>0. 1 \in Int /\ a \in Int  OBVIOUS
    <2>1. IsFiniteSet(1 .. a) /\ Cardinality(1 .. a) = IF 1 > a THEN 0 ELSE a - 1 + 1
        BY <2>0, FS_Interval
    <2> QED  BY <2>1
<1>2. IsFiniteSet(b .. c) /\ Cardinality(b .. c) = c + 1 - b
    <2>0. b \in Int  OBVIOUS
    <2>1. IsFiniteSet(b .. c) /\ Cardinality(b .. c) = IF b > c THEN 0 ELSE c - b + 1
        BY <2>0, FS_Interval
    <2> QED  BY <2>1
<1>3. (1 .. a) \intersect (b .. c) = {}  OBVIOUS
<1>4. Cardinality((1 .. a) \intersect (b .. c)) = 0  BY <1>3, FS_EmptySet
<1>5. Cardinality(1 .. a \union b .. c)
        = Cardinality(1 .. a) + Cardinality(b .. c) - Cardinality((1 .. a) \intersect (b .. c))
    BY <1>1, <1>2, FS_Union
<1> QED  BY <1>1, <1>2, <1>4, <1>5

\* List r is list s without what is between the positions p and q.
Without(r, s, p, q) ==
    /\ r \in Seq(Frags) /\ Len(r) = p + (Len(s) + 1 - q)
    /\ \A n \in 1 .. Len(r) : r[n] = IF n <= p THEN s[n] ELSE s[n + (q - 1 - p)]

\* What stays of a list when the positions between p and q go.
LEMMA SublistIs ==
    ASSUME NEW s \in Seq(Frags), NEW p \in 0 .. Len(s), NEW q \in p + 1 .. Len(s) + 1
    PROVE  Without(Sublist(s, 1 .. p \union q .. Len(s)), s, p, q)
<1> DEFINE L == Len(s)
           ks == 1 .. p \union q .. L
           m == p + (L + 1 - q)
           r == Sublist(s, ks)
           Lower(k) == {j \in ks : j < k}
           Place(k) == IF k <= p THEN k ELSE k - (q - 1 - p)
<1>0. L \in Nat /\ DOMAIN s = 1 .. L /\ p \in Nat /\ q \in Nat /\ p < q /\ q <= L + 1  OBVIOUS
<1> HIDE DEF L
<1>2. Cardinality(ks) = m /\ m \in Nat  BY <1>0, TwoIntervals
<1>3. ASSUME NEW k \in ks PROVE Cardinality(Lower(k)) = Place(k) - 1 /\ Place(k) \in 1 .. m
    <2>1. CASE k \in 1 .. p
        <3>1. Lower(k) = 1 .. k - 1 \union q .. q - 1  BY <2>1, <1>0
        <3>2. k - 1 \in Nat /\ k - 1 < q /\ q <= (q - 1) + 1 /\ q - 1 \in Int  BY <2>1, <1>0
        <3>3. Cardinality(Lower(k)) = (k - 1) + ((q - 1) + 1 - q)
            <4> DEFINE a == k - 1
                       c == q - 1
            <4>1. a \in Nat /\ q \in Nat /\ c \in Int /\ a < q /\ q <= c + 1  BY <3>2, <1>0
            <4> HIDE DEF a, c
            <4>2. Cardinality(1 .. a \union q .. c) = a + (c + 1 - q)  BY <4>1, TwoIntervals
            <4> QED  BY <3>1, <4>2 DEF a, c
        <3>4. (k - 1) + ((q - 1) + 1 - q) = k - 1 /\ Place(k) = k /\ k \in 1 .. m  BY <2>1, <1>0
        <3> QED  BY <3>3, <3>4
    <2>2. CASE k \in q .. L
        <3>1. Lower(k) = 1 .. p \union q .. k - 1  BY <2>2, <1>0
        <3>2. q <= (k - 1) + 1 /\ k - 1 \in Int  BY <2>2, <1>0
        <3>3. Cardinality(Lower(k)) = p + ((k - 1) + 1 - q)  BY <3>1, <3>2, <1>0, TwoIntervals
        <3>4. /\ Place(k) = k - (q - 1 - p) /\ p + ((k - 1) + 1 - q) = Place(k) - 1
              /\ k - (q - 1 - p) \in 1 .. m
            BY <2>2, <1>0
        <3> QED  BY <3>3, <3>4
    <2> QED  BY <2>1, <2>2
<1>4. \A k, l \in ks : Place(k) = Place(l) => k = l  BY <1>0
<1> DEFINE Nth(n) == IF n <= p THEN n ELSE n + (q - 1 - p)
<1>5. \A n \in 1 .. m : Nth(n) \in ks /\ Place(Nth(n)) = n /\ Nth(n) \in 1 .. L  BY <1>0
<1>6. ks \subseteq Int /\ \A k \in ks : Place(k) \in Int  BY <1>0
<1> HIDE DEF ks, Lower, Place, Nth, m
<1>7. ASSUME NEW n \in 1 .. m
      PROVE  (CHOOSE k \in ks : Cardinality(Lower(k)) = n - 1) = Nth(n)
    <2>1. Cardinality(Lower(Nth(n))) = n - 1 /\ Nth(n) \in ks  BY <1>3, <1>5
    <2>2. ASSUME NEW k \in ks, Cardinality(Lower(k)) = n - 1 PROVE k = Nth(n)
        <3>1. Place(k) - 1 = n - 1  BY <2>2, <1>3
        <3>2. Place(k) = n  BY <3>1, <1>6
        <3> QED  BY <3>2, <1>4, <1>5
    <2> QED  BY <2>1, <2>2
<1>8. r = [n \in 1 .. m |-> s[Nth(n)]]
    <2>1. r = [n \in 1 .. m |-> s[CHOOSE k \in ks : Cardinality(Lower(k)) = n - 1]]
        BY <1>2 DEF Sublist, Lower
    <2> QED  BY <2>1, <1>7
<1>9. \A n \in 1 .. m : s[Nth(n)] \in Frags  BY <1>0, <1>5
<1>10. r \in Seq(Frags) /\ Len(r) = m /\ \A n \in 1 .. m : r[n] = s[Nth(n)]
    <2> DEFINE f == [n \in 1 .. m |-> s[Nth(n)]]
    <2>1. m \in Nat  BY <1>2
    <2>2. f \in Seq(Frags) /\ Len(f) = m /\ \A n \in 1 .. m : f[n] = s[Nth(n)]  BY <2>1, <1>9
    <2> HIDE DEF f
    <2> QED  BY <2>2, <1>8 DEF f
<1>11. \A n \in 1 .. m : s[Nth(n)] = IF n <= p THEN s[n] ELSE s[n + (q - 1 - p)]  BY DEF Nth
<1> HIDE DEF r
<1>12. Without(r, s, p, q)  BY <1>10, <1>11 DEF Without, m, L
<1> QED  BY <1>12 DEF r, ks, L

\* What FragsAre says of the fragments of a list.
LEMMA ListIs ==
    ASSUME NoWrap, NEW fs, NEW lo \in Int, InList(fs, lo)
    PROVE  /\ Len(fs) \in Nat /\ DOMAIN fs = 1 .. Len(fs)
           /\ \A i \in 1 .. Len(fs) :
                 /\ fs[i] \in Frags /\ fs[i].offset \in Nat /\ End(fs[i]) \in Nat
                 /\ fs[i].offset < End(fs[i]) /\ End(fs[i]) <= StreamLen /\ EndOf(fs[i]) = End(fs[i])
                 /\ lo < fs[i].offset
           /\ \A i, j \in 1 .. Len(fs) : i < j => End(fs[i]) < fs[j].offset /\ fs[i].offset < fs[j].offset
                                                  /\ End(fs[i]) < End(fs[j])
<1>1. fs \in Seq(Frags)  BY DEF InList
<1>2. Len(fs) \in Nat /\ DOMAIN fs = 1 .. Len(fs) /\ \A i \in 1 .. Len(fs) : fs[i] \in Frags  BY <1>1
<1>3. \A i \in 1 .. Len(fs) :
         /\ fs[i] \in Frags /\ fs[i].offset \in Nat /\ End(fs[i]) \in Nat
         /\ fs[i].offset < End(fs[i]) /\ End(fs[i]) <= StreamLen /\ EndOf(fs[i]) = End(fs[i])
    BY <1>2, FragsAre
<1>4. \A i \in 1 .. Len(fs) : lo < fs[i].offset  BY DEF InList
<1>5. ASSUME NEW i \in 1 .. Len(fs), NEW j \in 1 .. Len(fs), i < j
      PROVE  End(fs[i]) < fs[j].offset /\ fs[i].offset < fs[j].offset /\ End(fs[i]) < End(fs[j])
    <2>1. End(fs[i]) < fs[j].offset  BY <1>5 DEF InList
    <2>2. /\ fs[i].offset \in Nat /\ End(fs[i]) \in Nat /\ fs[j].offset \in Nat /\ End(fs[j]) \in Nat
          /\ fs[i].offset < End(fs[i]) /\ fs[j].offset < End(fs[j])
        BY <1>3
    <2> QED  BY <2>1, <2>2
<1> QED  BY <1>2, <1>3, <1>4, <1>5

\* A fragment takes the place of those between positions x and y.
LEMMA InsertIs ==
    ASSUME NoWrap, NEW fs, NEW lo \in Int, InList(fs, lo),
           NEW x \in 0 .. Len(fs), NEW y \in x + 1 .. Len(fs) + 1, NEW m \in Frags, lo < m.offset,
           x >= 1 => End(fs[x]) < m.offset, y <= Len(fs) => End(m) < fs[y].offset
    PROVE  LET r == SubSeq(fs, 1, x) \o <<m>> \o SubSeq(fs, y, Len(fs)) IN
           /\ InList(r, lo)
           /\ \A z : z \in Spread(r) <=> \/ z \in Span(m)
                                         \/ \E i \in 1 .. Len(fs) : (i <= x \/ i >= y) /\ z \in Span(fs[i])
<1> DEFINE L == Len(fs)
           a == SubSeq(fs, 1, x)
           b == SubSeq(fs, y, L)
           am == a \o <<m>>
           r == am \o b
           n == x + 1 + (L + 1 - y)
           old(i) == IF i <= x THEN i ELSE i + (y - x - 2)
<1>0. /\ L \in Nat
      /\ \A i \in 1 .. L : /\ fs[i] \in Frags /\ fs[i].offset \in Nat /\ End(fs[i]) \in Nat
                           /\ fs[i].offset < End(fs[i]) /\ lo < fs[i].offset
      /\ \A i, j \in 1 .. L : i < j => End(fs[i]) < fs[j].offset
    BY ListIs
<1>1. x \in Nat /\ x <= L /\ y \in Nat /\ x < y /\ y <= L + 1 /\ n \in Nat  BY <1>0
<1>2. m.offset \in Nat /\ End(m) \in Nat /\ m.offset < End(m)  BY FragsAre
<1>3. a \in Seq(Frags) /\ Len(a) = x /\ \A i \in 1 .. x : a[i] = fs[i]
    <2>1. \A i \in 1 .. x : fs[i] \in Frags  BY <1>0, <1>1
    <2>2. a \in Seq(Frags) /\ Len(a) = (IF 1 <= x THEN x - 1 + 1 ELSE 0) /\ \A i \in 1 .. x - 1 + 1 : a[i] = fs[1 + i - 1]
        BY <2>1, <1>1, SubSeqProperties
    <2> QED  BY <2>2, <1>1
<1>4. b \in Seq(Frags) /\ Len(b) = L + 1 - y /\ \A i \in 1 .. L + 1 - y : b[i] = fs[y + i - 1]
    <2>1. \A i \in y .. L : fs[i] \in Frags  BY <1>0, <1>1
    <2>2. b \in Seq(Frags) /\ Len(b) = (IF y <= L THEN L - y + 1 ELSE 0) /\ \A i \in 1 .. L - y + 1 : b[i] = fs[y + i - 1]
        BY <2>1, <1>0, <1>1, SubSeqProperties
    <2> QED  BY <2>2, <1>0, <1>1
<1> HIDE DEF a, b, L
<1>5. /\ am \in Seq(Frags) /\ Len(am) = x + 1 /\ am[x + 1] = m /\ \A i \in 1 .. x : am[i] = a[i]
    <2>1. <<m>> \in Seq(Frags) /\ Len(<<m>>) = 1 /\ <<m>>[1] = m  OBVIOUS
    <2>2. /\ am \in Seq(Frags) /\ Len(am) = x + 1
          /\ \A i \in 1 .. x + 1 : am[i] = IF i <= x THEN a[i] ELSE <<m>>[i - x]
        BY <1>3, <2>1, ConcatProperties
    <2>3. x + 1 \in 1 .. x + 1 /\ ~(x + 1 <= x) /\ (x + 1) - x = 1  BY <1>1
    <2>4. \A i \in 1 .. x : i \in 1 .. x + 1 /\ i <= x  BY <1>1
    <2> QED  BY <2>1, <2>2, <2>3, <2>4
<1> HIDE DEF am
<1>6. /\ r \in Seq(Frags) /\ Len(r) = n
      /\ \A i \in 1 .. n : r[i] = IF i <= x + 1 THEN am[i] ELSE b[i - (x + 1)]
    <2>1. Len(am) + Len(b) = n /\ Len(am) = x + 1  BY <1>0, <1>1, <1>4, <1>5
    <2>2. /\ r \in Seq(Frags) /\ Len(r) = Len(am) + Len(b)
          /\ \A i \in 1 .. Len(am) + Len(b) : r[i] = IF i <= Len(am) THEN am[i] ELSE b[i - Len(am)]
        BY <1>4, <1>5, ConcatProperties
    <2> QED  BY <2>1, <2>2
<1> HIDE DEF r
<1>7. r[x + 1] = m /\ x + 1 \in 1 .. n
    <2>1. x + 1 \in 1 .. n /\ x + 1 <= x + 1  BY <1>0, <1>1
    <2> QED  BY <2>1, <1>5, <1>6
<1>8. \A i \in 1 .. n : i # x + 1 => old(i) \in 1 .. L /\ (old(i) <= x \/ old(i) >= y) /\ r[i] = fs[old(i)]
    <2> SUFFICES ASSUME NEW i \in 1 .. n, i # x + 1
                 PROVE  old(i) \in 1 .. L /\ (old(i) <= x \/ old(i) >= y) /\ r[i] = fs[old(i)]
        OBVIOUS
    <2>1. CASE i <= x
        <3>1. i \in 1 .. x /\ i \in 1 .. x + 1 /\ i <= x + 1  BY <2>1, <1>1
        <3>2. r[i] = a[i]  BY <3>1, <2>1, <1>5, <1>6
        <3> QED  BY <3>1, <3>2, <1>0, <1>1, <1>3
    <2>2. CASE i > x
        <3>0. i \in Int /\ i <= n /\ i > x /\ i # x + 1  BY <2>2, <1>1
        <3>1. i - (x + 1) \in 1 .. L + 1 - y /\ ~(i <= x + 1) /\ ~(i <= x)  BY <3>0, <1>0, <1>1
        <3>2. r[i] = b[i - (x + 1)]  BY <3>1, <1>6
        <3>3. b[i - (x + 1)] = fs[y + (i - (x + 1)) - 1]  BY <3>1, <1>4
        <3>4. y + (i - (x + 1)) - 1 = i + (y - x - 2)  BY <3>0, <1>1
        <3>5. i + (y - x - 2) \in 1 .. L /\ i + (y - x - 2) >= y  BY <3>0, <3>1, <1>0, <1>1
        <3> QED  BY <3>1, <3>2, <3>3, <3>4, <3>5
    <2> QED  BY <2>1, <2>2, <1>1
<1>9. \A i, j \in 1 .. n : i < j => old(i) < old(j) \/ i = x + 1 \/ j = x + 1
    <2> SUFFICES ASSUME NEW i \in 1 .. n, NEW j \in 1 .. n, i < j, i # x + 1, j # x + 1 PROVE old(i) < old(j)
        OBVIOUS
    <2>0. i \in Int /\ j \in Int  BY <1>1
    <2>1. CASE i <= x  BY <2>0, <2>1, <1>1
    <2>2. CASE i > x   BY <2>0, <2>2, <1>1
    <2> QED  BY <2>0, <2>1, <2>2, <1>1
<1>10. \A i \in 1 .. n : (i < x + 1 => old(i) <= x) /\ (i > x + 1 => old(i) >= y)  BY <1>0, <1>1
<1>11. \A k \in 1 .. L : k <= x \/ k >= y => \E i \in 1 .. n : i # x + 1 /\ old(i) = k
    <2> SUFFICES ASSUME NEW k \in 1 .. L, k <= x \/ k >= y PROVE \E i \in 1 .. n : i # x + 1 /\ old(i) = k
        OBVIOUS
    <2>1. CASE k <= x
        <3>1. k \in 1 .. n /\ k # x + 1 /\ old(k) = k  BY <2>1, <1>0, <1>1
        <3> QED  BY <3>1
    <2>2. CASE k >= y
        <3> DEFINE i == k - (y - x - 2)
        <3>1. i \in 1 .. n /\ i # x + 1 /\ old(i) = k  BY <2>2, <1>0, <1>1
        <3> QED  BY <3>1
    <2> QED  BY <2>1, <2>2
<1>12. \A k \in 1 .. L : (k <= x => End(fs[k]) < m.offset) /\ (k >= y => End(m) < fs[k].offset)
    <2> SUFFICES ASSUME NEW k \in 1 .. L
                 PROVE  (k <= x => End(fs[k]) < m.offset) /\ (k >= y => End(m) < fs[k].offset)
        OBVIOUS
    <2>1. ASSUME k <= x PROVE End(fs[k]) < m.offset
        <3>1. x \in 1 .. L /\ End(fs[x]) < m.offset  BY <2>1, <1>1 DEF L
        <3>2. CASE k = x  BY <3>1, <3>2
        <3>3. CASE k < x
            <4>1. End(fs[k]) < fs[x].offset /\ fs[x].offset < End(fs[x])  BY <3>1, <3>3, <1>0
            <4>2. End(fs[k]) \in Nat /\ fs[x].offset \in Nat /\ End(fs[x]) \in Nat  BY <3>1, <1>0
            <4> QED  BY <3>1, <4>1, <4>2, <1>2
        <3> QED  BY <2>1, <3>2, <3>3, <1>1
    <2>2. ASSUME k >= y PROVE End(m) < fs[k].offset
        <3>1. y \in 1 .. L /\ End(m) < fs[y].offset  BY <2>2, <1>0, <1>1 DEF L
        <3>2. CASE k = y  BY <3>1, <3>2
        <3>3. CASE k > y
            <4>1. End(fs[y]) < fs[k].offset /\ fs[y].offset < End(fs[y])  BY <3>1, <3>3, <1>0
            <4>2. fs[k].offset \in Nat /\ fs[y].offset \in Nat /\ End(fs[y]) \in Nat  BY <3>1, <1>0
            <4>3. End(m) \in Nat /\ End(m) < fs[y].offset  BY <3>1, <1>2
            <4> QED  BY <4>1, <4>2, <4>3
        <3> QED  BY <2>2, <3>2, <3>3, <1>1
    <2> QED  BY <2>1, <2>2
<1> HIDE DEF n, old
<1>13. \A i \in 1 .. n : lo < r[i].offset  BY <1>0, <1>7, <1>8
<1>14. ASSUME NEW i \in 1 .. n, NEW j \in 1 .. n, i < j PROVE End(r[i]) < r[j].offset
    <2>1. CASE i = x + 1
        <3>1. old(j) >= y /\ old(j) \in 1 .. L /\ r[j] = fs[old(j)]  BY <2>1, <1>14, <1>8, <1>10
        <3> QED  BY <2>1, <3>1, <1>7, <1>12
    <2>2. CASE j = x + 1
        <3>1. old(i) <= x /\ old(i) \in 1 .. L /\ r[i] = fs[old(i)]  BY <2>2, <1>14, <1>8, <1>10
        <3> QED  BY <2>2, <3>1, <1>7, <1>12
    <2>3. CASE i # x + 1 /\ j # x + 1
        <3>1. old(i) < old(j) /\ old(i) \in 1 .. L /\ old(j) \in 1 .. L  BY <2>3, <1>14, <1>8, <1>9
        <3> QED  BY <2>3, <3>1, <1>0, <1>8
    <2> QED  BY <2>1, <2>2, <2>3
<1>15. InList(r, lo)  BY <1>6, <1>13, <1>14 DEF InList
<1>16. ASSUME NEW z
       PROVE  z \in Spread(r) <=> z \in Span(m) \/ \E i \in 1 .. L : (i <= x \/ i >= y) /\ z \in Span(fs[i])
    <2>1. z \in Spread(r) <=> \E i \in 1 .. n : z \in Span(r[i])  BY <1>6, SpreadIs
    <2>2. ASSUME NEW i \in 1 .. n, z \in Span(r[i])
          PROVE  z \in Span(m) \/ \E k \in 1 .. L : (k <= x \/ k >= y) /\ z \in Span(fs[k])
        BY <2>2, <1>7, <1>8
    <2>3. z \in Span(m) => \E i \in 1 .. n : z \in Span(r[i])  BY <1>7
    <2>4. ASSUME NEW k \in 1 .. L, k <= x \/ k >= y, z \in Span(fs[k]) PROVE \E i \in 1 .. n : z \in Span(r[i])
        BY <2>4, <1>8, <1>11
    <2> QED  BY <2>1, <2>2, <2>3, <2>4
<1> QED  BY <1>15, <1>16 DEF r, am, a, b, L

-----------------------------------------------------------------------------
(* ch_assemble_fragment_push. *)

\* _data_fragment_trim and _data_fragments_merge, when the fragments before the new one end
\* before it does and those after it begin after it does: nothing is lost, nothing is held
\* twice, and no two fragments touch.
LEMMA PlaceIs ==
    ASSUME NoWrap, NEW fs, NEW lo \in Int, InList(fs, lo), NEW df \in Frags, lo < df.offset,
           NEW b \in 0 .. Len(fs),
           \A i \in 1 .. b : fs[i].offset < df.offset /\ End(fs[i]) < End(df),
           \A i \in b + 1 .. Len(fs) : df.offset < fs[i].offset /\ End(df) < End(fs[i])
    PROVE  LET t == Trim(fs, df) IN
           /\ After(fs, df) = b + 1 /\ t.data # <<>>
           /\ InList(Merge(fs, t, b), lo)
           /\ \A z : z \in Spread(Merge(fs, t, b)) <=> z \in Spread(fs) \/ z \in Span(df)
<1> DEFINE L == Len(fs)
           s == df.offset
           d == End(df)
<1>0. /\ L \in Nat /\ DOMAIN fs = 1 .. L
      /\ \A i \in 1 .. L : /\ fs[i] \in Frags /\ fs[i].offset \in Nat /\ End(fs[i]) \in Nat
                           /\ fs[i].offset < End(fs[i]) /\ lo < fs[i].offset
                           /\ End(fs[i]) <= StreamLen /\ EndOf(fs[i]) = End(fs[i])
      /\ \A i, j \in 1 .. L : i < j => End(fs[i]) < fs[j].offset
    BY ListIs
<1>1. /\ s \in Nat /\ d \in Nat /\ s < d /\ d <= StreamLen /\ EndOf(df) = d /\ df = Frag(s, d)
      /\ b \in Nat /\ b <= L /\ lo < s
      /\ \A i \in 1 .. b : fs[i].offset < s /\ End(fs[i]) < d
      /\ \A i \in b + 1 .. L : s < fs[i].offset /\ d < End(fs[i])
    BY FragsAre
<1> HIDE DEF L, s, d
<1>2. After(fs, df) = b + 1
    <2> DEFINE T == {i \in DOMAIN fs : fs[i].offset >= s} \union {L + 1}
    <2>1. T \in SUBSET Nat /\ T # {}  BY <1>0
    <2>2. \A i \in T : i >= b + 1
        <3> SUFFICES ASSUME NEW i \in 1 .. L, fs[i].offset >= s PROVE i >= b + 1
            BY <1>0, <1>1
        <3>1. ~(i \in 1 .. b)  BY <1>0, <1>1
        <3> QED  BY <3>1, <1>1
    <2>3. b + 1 \in T
        <3>1. CASE b = L  BY <3>1
        <3>2. CASE b < L
            <4>1. b + 1 \in 1 .. L /\ b + 1 \in b + 1 .. L  BY <3>2, <1>0, <1>1
            <4>2. fs[b + 1].offset >= s  BY <4>1, <1>0, <1>1
            <4> QED  BY <4>1, <4>2, <1>0
        <3> QED  BY <3>1, <3>2, <1>0, <1>1
    <2>4. Min(T) \in T /\ Min(T) <= b + 1  BY <2>1, <2>3, MinIs
    <2>5. Min(T) = b + 1  BY <2>1, <2>2, <2>4, <1>1
    <2> QED  BY <2>5 DEF After, s, L
<1>3. b >= 1 => b \in 1 .. L /\ b \in 1 .. b  BY <1>0, <1>1
<1>4. b + 1 <= L => b + 1 \in 1 .. L /\ b + 1 \in b + 1 .. L  BY <1>0, <1>1
<1> DEFINE o == IF b >= 1 /\ End(fs[b]) > s THEN End(fs[b]) ELSE s
           e == IF b + 1 <= L /\ d > fs[b + 1].offset THEN fs[b + 1].offset ELSE d
<1>5. /\ o \in Nat /\ s <= o /\ o < d /\ lo < o /\ (b >= 1 => End(fs[b]) <= o)
      /\ b + 1 <= L => o < fs[b + 1].offset
    <2>1. CASE b >= 1 /\ End(fs[b]) > s
        <3>1. End(fs[b]) \in Nat /\ End(fs[b]) < d  BY <2>1, <1>0, <1>1, <1>3
        <3>2. b + 1 <= L => End(fs[b]) < fs[b + 1].offset  BY <2>1, <1>0, <1>1, <1>3, <1>4
        <3> QED  BY <2>1, <3>1, <3>2, <1>1
    <2>2. CASE ~(b >= 1 /\ End(fs[b]) > s)
        <3>1. b >= 1 => End(fs[b]) <= s  BY <2>2, <1>0, <1>1, <1>3
        <3>2. b + 1 <= L => s < fs[b + 1].offset  BY <1>1, <1>4
        <3> QED  BY <2>2, <3>1, <3>2, <1>1
    <2> QED  BY <2>1, <2>2
<1>6. e \in Nat /\ o < e /\ e <= d /\ e <= StreamLen /\ (b + 1 <= L => e <= fs[b + 1].offset)
    <2>0. StreamLen \in Nat  BY AsmAssumption
    <2>1. CASE b + 1 <= L /\ d > fs[b + 1].offset
        <3>1. fs[b + 1].offset \in Nat  BY <2>1, <1>0, <1>4
        <3> QED  BY <2>0, <2>1, <3>1, <1>1, <1>5
    <2>2. CASE ~(b + 1 <= L /\ d > fs[b + 1].offset)
        <3>1. b + 1 <= L => d <= fs[b + 1].offset
            <4>1. b + 1 <= L => fs[b + 1].offset \in Nat  BY <1>0, <1>4
            <4> QED  BY <4>1, <2>2, <1>1
        <3> QED  BY <2>2, <3>1, <1>1, <1>5
    <2> QED  BY <2>1, <2>2
<1>7. ASSUME NEW z \in s .. d - 1
      PROVE  \/ z \in o .. e - 1
             \/ b >= 1 /\ z \in Span(fs[b])
             \/ b + 1 <= L /\ z \in Span(fs[b + 1])
    <2>1. CASE z < o
        <3>1. b >= 1 /\ z < End(fs[b])  BY <2>1, <1>1
        <3>2. /\ fs[b].offset \in Nat /\ End(fs[b]) \in Nat /\ fs[b].offset < s
            BY <3>1, <1>0, <1>1, <1>3
        <3>3. z \in Span(fs[b])  BY <3>1, <3>2, <1>1 DEF Span
        <3> QED  BY <3>1, <3>3
    <2>2. CASE z >= e
        <3>1. b + 1 <= L /\ fs[b + 1].offset <= z  BY <2>2, <1>1
        <3>2. fs[b + 1].offset \in Nat /\ End(fs[b + 1]) \in Nat /\ d < End(fs[b + 1])
            BY <3>1, <1>0, <1>1, <1>4
        <3>3. z \in Span(fs[b + 1])  BY <3>1, <3>2, <1>1 DEF Span
        <3> QED  BY <3>1, <3>3
    <2>3. CASE ~(z < o) /\ ~(z >= e)  BY <2>3, <1>1, <1>5, <1>6
    <2> QED  BY <2>1, <2>2, <2>3
<1>8. Trim(fs, df) = Frag(o, e)
    <2> DEFINE t == TrimBefore(fs, df, b)
    <2>1. t = Frag(o, d)
        <3>1. CASE b >= 1 /\ End(fs[b]) > s
            <4>1. End(fs[b]) \in Nat /\ EndOf(fs[b]) = End(fs[b]) /\ s <= End(fs[b]) /\ End(fs[b]) < d
                BY <3>1, <1>0, <1>1, <1>3
            <4>2. t = SkipBytes(df, Sub(End(fs[b]), s))  BY <3>1, <4>1 DEF TrimBefore, s
            <4>3. SkipBytes(df, Sub(End(fs[b]), s)) = Frag(End(fs[b]), d)  BY <4>1, SkipIs DEF s, d
            <4> QED  BY <3>1, <4>2, <4>3
        <3>2. CASE ~(b >= 1 /\ End(fs[b]) > s)
            <4>1. ~(b >= 1 /\ EndOf(fs[b]) > s)  BY <3>2, <1>0, <1>3
            <4> QED  BY <3>2, <4>1, <1>1 DEF TrimBefore, s
        <3> QED  BY <3>1, <3>2
    <2> HIDE DEF t, o
    <2>2. t \in Frags /\ t.offset = o /\ End(t) = d /\ EndOf(t) = d  BY <2>1, <1>1, <1>5, FragIs
    <2>3. TrimAfter(fs, t, b + 1) = Frag(o, e)
        <3>1. CASE b + 1 <= L /\ d > fs[b + 1].offset
            <4> DEFINE c == fs[b + 1].offset
            <4>1. c \in Nat /\ o < c /\ c <= d  BY <3>1, <1>0, <1>1, <1>4, <1>5
            <4>2. TrimAfter(fs, t, b + 1) = [t EXCEPT !.data = SubSeq(t.data, 1, Len(t.data) - Sub(EndOf(t), c))]
                BY <3>1, <2>2 DEF TrimAfter, L
            <4>3. [t EXCEPT !.data = SubSeq(t.data, 1, Len(t.data) - Sub(EndOf(t), c))] = Frag(t.offset, c)
                <5> HIDE DEF c
                <5> QED  BY <4>1, <2>2, CutIs
            <4> QED  BY <3>1, <4>2, <4>3, <2>2
        <3>2. CASE ~(b + 1 <= L /\ d > fs[b + 1].offset)
            BY <3>2, <2>1, <2>2 DEF TrimAfter, L
        <3> QED  BY <3>1, <3>2
    <2>4. (b + 1) - 1 = b  BY <1>1
    <2> QED  BY <2>3, <2>4, <1>2 DEF Trim, t
<1> DEFINE t == Frag(o, e)
           ma == b >= 1 /\ End(fs[b]) = o
           mb == b + 1 <= L /\ e = fs[b + 1].offset
           p == IF ma THEN fs[b].offset ELSE o
           q == IF mb THEN End(fs[b + 1]) ELSE e
           x == IF ma THEN b - 1 ELSE b
           y == IF mb THEN b + 2 ELSE b + 1
           m == Frag(p, q)
<1> HIDE DEF o, e
<1>9. /\ t \in Frags /\ t.offset = o /\ End(t) = e /\ EndOf(t) = e /\ t.data # <<>>
      /\ t.data = BytesFrom(o, e - o)
    BY <1>5, <1>6, FragIs
<1>10. p \in Nat /\ p <= o /\ lo < p /\ x \in 0 .. L /\ (x >= 1 => End(fs[x]) < p) /\ x < b + 1
    <2>1. CASE ma
        <3>1. b \in 1 .. L /\ fs[b].offset \in Nat /\ fs[b].offset < End(fs[b]) /\ lo < fs[b].offset /\ End(fs[b]) \in Nat
            BY <2>1, <1>0, <1>3
        <3>2. b - 1 >= 1 => End(fs[b - 1]) < fs[b].offset  BY <3>1, <1>0
        <3> QED  BY <2>1, <3>1, <3>2, <1>0, <1>1, <1>5
    <2>2. CASE ~ma
        <3>1. b >= 1 => End(fs[b]) < o  BY <2>2, <1>0, <1>3, <1>5
        <3> QED  BY <2>2, <3>1, <1>0, <1>1, <1>5
    <2> QED  BY <2>1, <2>2
<1>11. q \in Nat /\ e <= q /\ q <= StreamLen /\ y \in 0 .. L + 1 /\ (y <= L => q < fs[y].offset) /\ y >= b + 1
    <2>1. CASE mb
        <3>1. /\ b + 1 \in 1 .. L /\ fs[b + 1].offset \in Nat /\ fs[b + 1].offset < End(fs[b + 1])
              /\ End(fs[b + 1]) \in Nat /\ End(fs[b + 1]) <= StreamLen
            BY <2>1, <1>0, <1>4
        <3>2. b + 2 <= L => End(fs[b + 1]) < fs[b + 2].offset
            <4>1. b + 2 <= L => b + 2 \in 1 .. L /\ b + 1 < b + 2  BY <1>0, <1>1
            <4> QED  BY <3>1, <4>1, <1>0
        <3> QED  BY <2>1, <3>1, <3>2, <1>0, <1>1, <1>6
    <2>2. CASE ~mb
        <3>1. b + 1 <= L => e < fs[b + 1].offset
            <4>1. b + 1 <= L => fs[b + 1].offset \in Nat  BY <1>0, <1>4
            <4> QED  BY <2>2, <4>1, <1>6
        <3> QED  BY <2>2, <3>1, <1>0, <1>1, <1>6
    <2> QED  BY <2>1, <2>2
<1>12. p < q  BY <1>5, <1>6, <1>10, <1>11
<1>13. m \in Frags /\ m.offset = p /\ End(m) = q
    <2> HIDE DEF p, q
    <2> QED  BY <1>10, <1>11, <1>12, FragIs
<1>14. Merge(fs, t, b) = SubSeq(fs, 1, x) \o <<m>> \o SubSeq(fs, y, L)
    <2> DEFINE left == IF ma THEN fs[b].data ELSE <<>>
               right == IF mb THEN fs[b + 1].data ELSE <<>>
    <2>1. left \o t.data = BytesFrom(p, e - p)
        <3>1. CASE ma
            <4> DEFINE c == fs[b].offset
            <4>1. b \in 1 .. L /\ fs[b] \in Frags  BY <3>1, <1>0, <1>3
            <4>2. c \in Nat /\ c < o /\ fs[b].data = BytesFrom(c, o - c)  BY <3>1, <4>1, FragsAre
            <4> HIDE DEF c
            <4>0. o \in Nat /\ e \in Nat /\ o < e /\ c \in Nat /\ c < o  BY <4>2, <1>5, <1>6
            <4>3. o - c \in Nat /\ e - o \in Nat /\ c + (o - c) = o /\ (o - c) + (e - o) = e - c
                BY <4>0
            <4>4. BytesFrom(c, o - c) \o BytesFrom(c + (o - c), e - o) = BytesFrom(c, (o - c) + (e - o))
                BY <4>2, <4>3, BytesCat
            <4>5. left = BytesFrom(c, o - c) /\ t.data = BytesFrom(o, e - o) /\ p = c
                BY <3>1, <4>2, <1>9 DEF c
            <4> QED  BY <4>3, <4>4, <4>5
        <3>2. CASE ~ma
            <4>0. e - o \in Nat  BY <1>5, <1>6
            <4>1. t.data = BytesFrom(o, e - o) /\ left = <<>> /\ p = o  BY <3>2, <1>9
            <4> HIDE DEF left, t, p
            <4>2. t.data \in Seq(Nat)  BY <4>0, <4>1, <1>5, BytesIs
            <4> QED  BY <4>1, <4>2, ConcatEmptySeq
        <3> QED  BY <3>1, <3>2
    <2>2. BytesFrom(p, e - p) \o right = BytesFrom(p, q - p)
        <3>0. e - p \in Nat /\ p + (e - p) = e  BY <1>5, <1>6, <1>10
        <3>1. CASE mb
            <4> DEFINE c == End(fs[b + 1])
            <4>1. b + 1 \in 1 .. L /\ fs[b + 1] \in Frags  BY <3>1, <1>0, <1>4
            <4>2. c \in Nat /\ e < c /\ fs[b + 1].data = BytesFrom(e, c - e)  BY <3>1, <4>1, FragsAre
            <4> HIDE DEF c
            <4>3. c - e \in Nat /\ (e - p) + (c - e) = c - p  BY <4>2, <1>6, <1>10
            <4> HIDE DEF p
            <4>4. BytesFrom(p, e - p) \o BytesFrom(p + (e - p), c - e) = BytesFrom(p, (e - p) + (c - e))
                BY <3>0, <4>3, <1>10, BytesCat
            <4>5. right = BytesFrom(e, c - e) /\ q = c  BY <3>1, <4>2 DEF c
            <4> QED  BY <3>0, <4>3, <4>4, <4>5
        <3>2. CASE ~mb
            <4>1. right = <<>> /\ q = e  BY <3>2
            <4> HIDE DEF right, q, p
            <4>2. BytesFrom(p, e - p) \in Seq(Nat)  BY <3>0, <1>10, BytesIs
            <4> QED  BY <4>1, <4>2, ConcatEmptySeq
        <3> QED  BY <3>1, <3>2
    <2>3. (b >= 1 /\ Mergable(fs[b], t)) <=> ma  BY <1>0, <1>3, <1>9 DEF Mergable
    <2>4. (b + 1 <= L /\ Mergable(t, fs[b + 1])) <=> mb  BY <1>9 DEF Mergable
    <2> HIDE DEF ma, mb
    <2>5. Merge(fs, t, b) = SubSeq(fs, 1, IF ma THEN b - 1 ELSE b)
                              \o <<[offset |-> IF ma THEN fs[b].offset ELSE t.offset, data |-> left \o t.data \o right]>>
                              \o SubSeq(fs, IF mb THEN (b + 1) + 1 ELSE b + 1, L)
        BY <2>3, <2>4 DEF Merge, L
    <2>6. (IF ma THEN fs[b].offset ELSE t.offset) = p  BY <1>9
    <2>7. (IF mb THEN (b + 1) + 1 ELSE b + 1) = y  BY <1>1
    <2> HIDE DEF left, right, t, p, q, y
    <2>8. [offset |-> p, data |-> left \o t.data \o right] = m  BY <2>1, <2>2 DEF Frag
    <2> QED  BY <2>5, <2>6, <2>7, <2>8
<1>15. /\ InList(Merge(fs, t, b), lo)
       /\ \A z : z \in Spread(Merge(fs, t, b))
                   <=> z \in Span(m) \/ \E i \in 1 .. L : (i <= x \/ i >= y) /\ z \in Span(fs[i])
    <2> HIDE DEF x, y, m, p, q, t
    <2>1. x \in 0 .. L /\ y \in x + 1 .. L + 1  BY <1>0, <1>1, <1>10, <1>11
    <2> QED  BY <2>1, <1>10, <1>11, <1>13, <1>14, InsertIs DEF L
<1>16. ASSUME NEW z
       PROVE  (z \in Span(m) \/ \E i \in 1 .. L : (i <= x \/ i >= y) /\ z \in Span(fs[i]))
                <=> z \in Spread(fs) \/ z \in Span(df)
    <2>1. Span(m) = p .. q - 1 /\ Span(df) = s .. d - 1  BY <1>13 DEF Span, s, d
    <2>2. z \in Spread(fs) <=> \E i \in 1 .. L : z \in Span(fs[i])  BY SpreadIs DEF L
    <2>3. ASSUME z \in Span(m) PROVE z \in Spread(fs) \/ z \in Span(df)
        <3>1. z \in p .. q - 1  BY <2>1, <2>3
        <3>2. CASE z < o
            <4>1. ma /\ p = fs[b].offset /\ z < End(fs[b])  BY <3>1, <3>2, <1>5, <1>10
            <4>2. z \in Span(fs[b])  BY <3>1, <4>1, <1>0, <1>3, <1>11 DEF Span
            <4> QED  BY <4>1, <4>2, <2>2, <1>3
        <3>3. CASE z >= e
            <4>1. mb /\ q = End(fs[b + 1]) /\ z >= fs[b + 1].offset  BY <3>1, <3>3, <1>6, <1>11
            <4>2. z \in Span(fs[b + 1])  BY <3>1, <4>1, <1>0, <1>4, <1>10 DEF Span
            <4> QED  BY <4>1, <4>2, <2>2, <1>4
        <3>4. CASE ~(z < o) /\ ~(z >= e)
            <4>1. z \in s .. d - 1  BY <3>1, <3>4, <1>1, <1>5, <1>6, <1>10, <1>11
            <4> QED  BY <4>1, <2>1
        <3> QED  BY <3>2, <3>3, <3>4
    <2>4. ASSUME z \in o .. e - 1 PROVE z \in Span(m)
        <3>1. p \in Nat /\ q \in Nat /\ p <= o /\ e <= q /\ o \in Nat /\ e \in Nat
            BY <1>5, <1>6, <1>10, <1>11
        <3> HIDE DEF p, q, m
        <3> QED  BY <2>1, <2>4, <3>1
    <2>5. ASSUME NEW i \in 1 .. L, z \in Span(fs[i])
          PROVE  z \in Span(m) \/ \E j \in 1 .. L : (j <= x \/ j >= y) /\ z \in Span(fs[j])
        <3>1. CASE i <= x \/ i >= y  BY <2>5, <3>1
        <3>2. CASE ~(i <= x \/ i >= y)
            <4>1. (ma /\ i = b) \/ (mb /\ i = b + 1)  BY <3>2, <1>1, <1>10, <1>11
            <4>2. CASE ma /\ i = b
                <5>1. p = fs[b].offset /\ End(fs[b]) = o /\ p \in Nat  BY <4>2, <1>10
                <5>2. z \in p .. o - 1  BY <2>5, <4>2, <5>1 DEF Span
                <5>3. p \in Nat /\ q \in Nat /\ o \in Nat /\ o <= q  BY <1>5, <1>6, <1>10, <1>11
                <5> HIDE DEF p, q, m
                <5>4. z \in p .. q - 1  BY <5>2, <5>3
                <5> QED  BY <5>4, <2>1
            <4>3. CASE mb /\ i = b + 1
                <5>1. q = End(fs[b + 1]) /\ fs[b + 1].offset = e  BY <4>3
                <5>2. z \in e .. q - 1  BY <2>5, <4>3, <5>1 DEF Span
                <5>3. p \in Nat /\ q \in Nat /\ e \in Nat /\ p <= e  BY <1>5, <1>6, <1>10, <1>11
                <5> HIDE DEF p, q, m
                <5>4. z \in p .. q - 1  BY <5>2, <5>3
                <5> QED  BY <5>4, <2>1
            <4> QED  BY <4>1, <4>2, <4>3
        <3> QED  BY <3>1, <3>2
    <2>6. ASSUME z \in Span(df) PROVE z \in Span(m) \/ \E j \in 1 .. L : (j <= x \/ j >= y) /\ z \in Span(fs[j])
        <3>1. z \in s .. d - 1  BY <2>1, <2>6
        <3> HIDE DEF m, x, y
        <3> QED  BY <3>1, <1>7, <1>3, <1>4, <2>4, <2>5
    <2> QED  BY <2>2, <2>3, <2>5, <2>6
<1> QED  BY <1>2, <1>8, <1>9, <1>15, <1>16

\* Covered on fragments of the stream: uint32_t sums do not wrap.
LEMMA CoveredIs ==
    ASSUME NoWrap, NEW f \in Frags, NEW g \in Frags
    PROVE  Covered(f, g) <=> f.offset >= g.offset /\ End(g) >= End(f)
BY FragsAre DEF Covered

\* A fragment of the list covers the new one: the walk removes nothing and stops there.
LEMMA CoveredBefore ==
    ASSUME NoWrap, NEW fs, NEW lo \in Int, InList(fs, lo), NEW df \in Frags, NEW c \in Covering(fs, df)
    PROVE  Push(fs, df) = fs /\ \A z \in Span(df) : z \in Spread(fs)
<1> DEFINE L == Len(fs)
           ks == {k \in DOMAIN fs : k < Min(Covering(fs, df) \union {L + 1}) => ~Covered(fs[k], df)}
<1>0. /\ L \in Nat /\ DOMAIN fs = 1 .. L /\ fs \in Seq(Frags)
      /\ \A i \in 1 .. L : /\ fs[i] \in Frags /\ fs[i].offset \in Nat /\ End(fs[i]) \in Nat
                           /\ fs[i].offset < End(fs[i])
      /\ \A i, j \in 1 .. L : i < j => End(fs[i]) < fs[j].offset
    BY ListIs DEF InList
<1>1. c \in 1 .. L /\ Covered(df, fs[c]) /\ ~Covered(fs[c], df)  BY <1>0 DEF Covering
<1>2. /\ df.offset \in Nat /\ End(df) \in Nat /\ df.offset < End(df)
      /\ df.offset >= fs[c].offset /\ End(fs[c]) >= End(df)
    BY <1>0, <1>1, FragsAre, CoveredIs
<1>3. ASSUME NEW k \in 1 .. L, Covered(fs[k], df) PROVE FALSE
    <2>1. k # c  BY <1>1, <1>3
    <2>2. fs[k].offset >= df.offset /\ End(df) >= End(fs[k])  BY <1>0, <1>3, CoveredIs
    <2>3. CASE k < c
        <3>1. End(fs[k]) < fs[c].offset  BY <2>3, <1>0, <1>1
        <3> QED  BY <3>1, <2>2, <1>0, <1>1, <1>2
    <2>4. CASE c < k
        <3>1. End(fs[c]) < fs[k].offset  BY <2>4, <1>0, <1>1
        <3> QED  BY <3>1, <2>2, <1>0, <1>1, <1>2
    <2> QED  BY <2>1, <2>3, <2>4, <1>0, <1>1
<1>4. ks = 1 .. L \union L + 1 .. L  BY <1>0, <1>3
<1>5. Sublist(fs, 1 .. L \union L + 1 .. L) = fs
    <2> DEFINE r == Sublist(fs, 1 .. L \union L + 1 .. L)
    <2>1. L \in 0 .. L /\ L + 1 \in L + 1 .. L + 1  BY <1>0
    <2>2. /\ r \in Seq(Frags) /\ Len(r) = L + (L + 1 - (L + 1))
          /\ \A n \in 1 .. Len(r) : r[n] = IF n <= L THEN fs[n] ELSE fs[n + ((L + 1) - 1 - L)]
        <3>1. fs \in Seq(Frags)  BY <1>0
        <3>2. Without(r, fs, L, L + 1)  BY <2>1, <3>1, SublistIs
        <3> HIDE DEF r
        <3> QED  BY <3>2 DEF Without
    <2> HIDE DEF r
    <2>3. Len(r) = L
        <3>0. \A x \in Nat : x + (x + 1 - (x + 1)) = x  OBVIOUS
        <3>1. L + (L + 1 - (L + 1)) = L
            <4>1. L \in Nat  BY <1>0
            <4> HIDE DEF L
            <4> QED  BY <3>0, <4>1
        <3> QED  BY <2>2, <3>1
    <2>4. \A n \in 1 .. Len(r) : n <= L  BY <2>3, <1>0
    <2>5. \A n \in 1 .. Len(r) : r[n] = fs[n]  BY <2>2, <2>4
    <2>6. r = fs  BY <2>2, <2>3, <2>5, <1>0, SeqEqual
    <2> QED  BY <2>6 DEF r
<1>6. CoveredFree(fs, df) = fs
    <2>1. CoveredFree(fs, df) = Sublist(fs, ks)  BY DEF CoveredFree
    <2> HIDE DEF ks
    <2> QED  BY <2>1, <1>4, <1>5
<1>7. ~NeedsNode(fs, df)  BY DEF NeedsNode
<1>8. Push(fs, df) = fs  BY <1>6, <1>7 DEF Push
<1>9. ASSUME NEW z \in Span(df) PROVE z \in Spread(fs)
    <2>1. z \in Span(fs[c])  BY <1>0, <1>1, <1>2 DEF Span
    <2> QED  BY <2>1, <1>1, SpreadIs
<1> QED  BY <1>8, <1>9

\* The fragments that the new one covers are neighbours in the list.
LEMMA CoveredBetween ==
    ASSUME NoWrap, NEW fs, NEW lo \in Int, InList(fs, lo), NEW df \in Frags, Covering(fs, df) = {}
    PROVE  \E p \in 0 .. Len(fs) : \E q \in p + 1 .. Len(fs) + 1 :
              /\ CoveredFree(fs, df) = Sublist(fs, 1 .. p \union q .. Len(fs))
              /\ \A i \in 1 .. p : fs[i].offset < df.offset /\ End(fs[i]) < End(df)
              /\ \A i \in q .. Len(fs) : df.offset < fs[i].offset /\ End(df) < End(fs[i])
              /\ \A i \in p + 1 .. q - 1 : df.offset <= fs[i].offset /\ End(fs[i]) <= End(df)
<1> DEFINE L == Len(fs)
           s == df.offset
           d == End(df)
<1>0. /\ L \in Nat /\ DOMAIN fs = 1 .. L /\ fs \in Seq(Frags)
      /\ \A i \in 1 .. L : /\ fs[i] \in Frags /\ fs[i].offset \in Nat /\ End(fs[i]) \in Nat
                           /\ fs[i].offset < End(fs[i])
      /\ \A i, j \in 1 .. L : i < j => fs[i].offset < fs[j].offset /\ End(fs[i]) < End(fs[j])
    BY ListIs DEF InList
<1>1. s \in Nat /\ d \in Nat /\ s < d  BY FragsAre
<1>2. \A i \in 1 .. L : Covered(fs[i], df) <=> fs[i].offset >= s /\ d >= End(fs[i])
    BY <1>0, CoveredIs
<1>3. \A i \in 1 .. L : ~(s >= fs[i].offset /\ End(fs[i]) >= d) \/ Covered(fs[i], df)
    <2>1. \A i \in 1 .. L : ~(~Covered(fs[i], df) /\ Covered(df, fs[i]))  BY <1>0 DEF Covering
    <2>2. \A i \in 1 .. L : Covered(df, fs[i]) <=> s >= fs[i].offset /\ End(fs[i]) >= d
        BY <1>0, CoveredIs
    <2> QED  BY <2>1, <2>2
<1> HIDE DEF s, d, L
<1> DEFINE A == {i \in 1 .. L : fs[i].offset >= s} \union {L + 1}
           B == {i \in 1 .. L : fs[i].offset >= s /\ End(fs[i]) > d} \union {L + 1}
           p == Min(A) - 1
           q == Min(B)
<1>4. /\ Min(A) \in A /\ \A y \in A : Min(A) <= y
      /\ Min(B) \in B /\ \A y \in B : Min(B) <= y
    <2>1. A \in SUBSET Nat /\ A # {} /\ B \in SUBSET Nat /\ B # {}  BY <1>0
    <2> HIDE DEF A, B
    <2> QED  BY <2>1, MinIs
<1>5. Min(A) \in 1 .. L + 1 /\ Min(B) \in 1 .. L + 1 /\ Min(A) <= Min(B)
    <2>1. B \subseteq A /\ A \subseteq 1 .. L + 1  BY <1>0
    <2> HIDE DEF A, B
    <2> QED  BY <2>1, <1>4
<1>6. p \in 0 .. L /\ q \in p + 1 .. L + 1 /\ p \in Nat /\ q \in Nat
    <2> HIDE DEF A, B
    <2> QED  BY <1>0, <1>5
<1>7. ASSUME NEW i \in 1 .. p PROVE i \in 1 .. L /\ fs[i].offset < s
    <2>1. i \in 1 .. L /\ ~(Min(A) <= i)
        <3> HIDE DEF A, B
        <3> QED  BY <1>0, <1>5
    <2>2. i \notin A  BY <2>1, <1>4
    <2> QED  BY <2>1, <2>2, <1>0, <1>1
<1>8. ASSUME NEW i \in p + 1 .. L PROVE i \in 1 .. L /\ fs[i].offset >= s
    <2>1. i \in 1 .. L /\ Min(A) <= i /\ Min(A) \in 1 .. L
        <3> HIDE DEF A, B
        <3> QED  BY <1>0, <1>5
    <2>2. fs[Min(A)].offset >= s  BY <2>1, <1>0, <1>4
    <2> HIDE DEF A
    <2>3. i = Min(A) \/ fs[Min(A)].offset < fs[i].offset  BY <2>1, <1>0
    <2> QED  BY <2>1, <2>2, <2>3, <1>0, <1>1
<1>9. ASSUME NEW i \in q .. L PROVE i \in 1 .. L /\ fs[i].offset >= s /\ End(fs[i]) > d
    <2>1. i \in 1 .. L /\ q <= i /\ q \in 1 .. L /\ i \in p + 1 .. L
        <3> HIDE DEF A, B
        <3> QED  BY <1>0, <1>5
    <2>2. End(fs[q]) > d  BY <2>1, <1>0, <1>4
    <2> HIDE DEF B, q
    <2>3. i = q \/ End(fs[q]) < End(fs[i])  BY <2>1, <1>0
    <2> QED  BY <2>1, <2>2, <2>3, <1>0, <1>1, <1>8
<1>10. ASSUME NEW i \in p + 1 .. q - 1 PROVE i \in 1 .. L /\ fs[i].offset >= s /\ End(fs[i]) <= d
    <2>1. i \in 1 .. L /\ ~(Min(B) <= i) /\ i \in p + 1 .. L
        <3> HIDE DEF A, B
        <3> QED  BY <1>0, <1>5
    <2>2. i \notin B  BY <2>1, <1>4
    <2>3. fs[i].offset >= s  BY <2>1, <1>8
    <2> QED  BY <2>1, <2>2, <2>3, <1>0, <1>1
<1> HIDE DEF p, q, A, B
<1>11. ASSUME NEW i \in 1 .. p PROVE fs[i].offset < s /\ End(fs[i]) < d
    <2>1. i \in 1 .. L /\ fs[i].offset < s  BY <1>7
    <2> QED  BY <2>1, <1>0, <1>1, <1>2, <1>3
<1>12. ASSUME NEW i \in q .. L PROVE s < fs[i].offset /\ d < End(fs[i])
    <2>1. i \in 1 .. L /\ fs[i].offset >= s /\ End(fs[i]) > d  BY <1>9
    <2> QED  BY <2>1, <1>0, <1>1, <1>2, <1>3
<1>13. CoveredFree(fs, df) = Sublist(fs, 1 .. p \union q .. L)
    <2> DEFINE ks == {k \in DOMAIN fs : k < Min(Covering(fs, df) \union {L + 1}) => ~Covered(fs[k], df)}
    <2>1. Min(Covering(fs, df) \union {L + 1}) = L + 1
        <3>1. Covering(fs, df) \union {L + 1} = {L + 1} /\ {L + 1} \in SUBSET Nat  BY <1>0
        <3>2. Min({L + 1}) \in {L + 1}  BY <3>1, MinIs
        <3> QED  BY <3>1, <3>2
    <2>2. ASSUME NEW k \in 1 .. L PROVE ~Covered(fs[k], df) <=> k \in 1 .. p \union q .. L
        <3>1. CASE k <= p
            <4>1. k \in 1 .. p  BY <3>1, <1>6
            <4>2. fs[k].offset < s  BY <4>1, <1>11
            <4>3. ~Covered(fs[k], df)  BY <4>2, <1>0, <1>1, <1>2
            <4> QED  BY <4>1, <4>3
        <3>2. CASE k >= q
            <4>1. k \in q .. L  BY <3>2, <1>0, <1>6
            <4>2. d < End(fs[k])  BY <4>1, <1>12
            <4>3. ~Covered(fs[k], df)  BY <4>2, <1>0, <1>1, <1>2
            <4> QED  BY <4>1, <4>3
        <3>3. CASE ~(k <= p) /\ ~(k >= q)
            <4>1. k \in p + 1 .. q - 1 /\ k \notin 1 .. p \union q .. L  BY <3>3, <1>0, <1>6
            <4>2. Covered(fs[k], df)  BY <4>1, <1>1, <1>2, <1>10
            <4> QED  BY <4>1, <4>2
        <3> QED  BY <3>1, <3>2, <3>3
    <2>3. 1 .. p \union q .. L \subseteq 1 .. L  BY <1>0, <1>6
    <2>4. ks = 1 .. p \union q .. L  BY <2>1, <2>2, <2>3, <1>0
    <2>5. CoveredFree(fs, df) = Sublist(fs, ks)  BY DEF CoveredFree, L
    <2> HIDE DEF ks
    <2> QED  BY <2>4, <2>5
<1> QED  BY <1>6, <1>10, <1>11, <1>12, <1>13 DEF L, s, d

\* ch_assemble_fragment_push: the list stays in order and apart, and holds the bytes of the
\* new fragment besides its own.
LEMMA PushIs ==
    ASSUME NoWrap, NEW fs, NEW lo \in Int, InList(fs, lo), NEW df \in Frags, lo < df.offset
    PROVE  /\ InList(Push(fs, df), lo)
           /\ \A z : z \in Spread(Push(fs, df)) <=> z \in Spread(fs) \/ z \in Span(df)
<1>1. CASE Covering(fs, df) # {}
    <2>1. PICK c : c \in Covering(fs, df)  BY <1>1
    <2> QED  BY <2>1, CoveredBefore
<1>2. CASE Covering(fs, df) = {}
    <2> DEFINE L == Len(fs)
               kept == CoveredFree(fs, df)
    <2>0. /\ L \in Nat /\ fs \in Seq(Frags)
          /\ \A i \in 1 .. L : fs[i].offset \in Nat /\ End(fs[i]) \in Nat /\ lo < fs[i].offset
          /\ \A i, j \in 1 .. L : i < j => End(fs[i]) < fs[j].offset
        BY ListIs DEF InList
    <2>1a. PICK p \in 0 .. L : \E q \in p + 1 .. L + 1 :
              /\ kept = Sublist(fs, 1 .. p \union q .. L)
              /\ \A i \in 1 .. p : fs[i].offset < df.offset /\ End(fs[i]) < End(df)
              /\ \A i \in q .. L : df.offset < fs[i].offset /\ End(df) < End(fs[i])
              /\ \A i \in p + 1 .. q - 1 : df.offset <= fs[i].offset /\ End(fs[i]) <= End(df)
        BY <1>2, CoveredBetween
    <2>1. PICK q \in p + 1 .. L + 1 :
              /\ kept = Sublist(fs, 1 .. p \union q .. L)
              /\ \A i \in 1 .. p : fs[i].offset < df.offset /\ End(fs[i]) < End(df)
              /\ \A i \in q .. L : df.offset < fs[i].offset /\ End(df) < End(fs[i])
              /\ \A i \in p + 1 .. q - 1 : df.offset <= fs[i].offset /\ End(fs[i]) <= End(df)
        BY <2>1a
    <2> DEFINE n == p + (L + 1 - q)
               old(i) == IF i <= p THEN i ELSE i + (q - 1 - p)
    <2>2. /\ kept \in Seq(Frags) /\ Len(kept) = n
          /\ \A i \in 1 .. n : kept[i] = IF i <= p THEN fs[i] ELSE fs[i + (q - 1 - p)]
        <3> DEFINE u == Sublist(fs, 1 .. p \union q .. L)
        <3>1. /\ u \in Seq(Frags) /\ Len(u) = p + (L + 1 - q)
              /\ \A i \in 1 .. Len(u) : u[i] = IF i <= p THEN fs[i] ELSE fs[i + (q - 1 - p)]
            <4>1. fs \in Seq(Frags) /\ p \in 0 .. Len(fs) /\ q \in p + 1 .. Len(fs) + 1  BY <2>0
            <4>2. Without(u, fs, p, q)  BY <4>1, SublistIs
            <4> HIDE DEF u
            <4> QED  BY <4>2 DEF Without
        <3>2. kept = u  BY <2>1
        <3> HIDE DEF u, kept
        <3> QED  BY <3>1, <3>2
    <2>3. p \in Nat /\ q \in Nat /\ p < q /\ q <= L + 1 /\ p <= L /\ n \in Nat /\ p <= n  BY <2>0
    <2> HIDE DEF L, kept
    <2>4. \A i \in 1 .. n : old(i) \in 1 .. L /\ kept[i] = fs[old(i)]
        <3> SUFFICES ASSUME NEW i \in 1 .. n PROVE old(i) \in 1 .. L /\ kept[i] = fs[old(i)]
            OBVIOUS
        <3>1. kept[i] = fs[old(i)]  BY <2>2
        <3>2. old(i) \in 1 .. L  BY <2>0, <2>3
        <3> QED  BY <3>1, <3>2
    <2>5. \A i, j \in 1 .. n : i < j => old(i) < old(j)  BY <2>3
    <2>6. /\ \A i \in 1 .. p : i \in 1 .. n /\ old(i) = i
          /\ \A i \in p + 1 .. n : i \in 1 .. n /\ old(i) \in q .. L
        BY <2>0, <2>3
    <2>7. \A k \in q .. L : \E i \in 1 .. n : old(i) = k
        <3> SUFFICES ASSUME NEW k \in q .. L PROVE \E i \in 1 .. n : old(i) = k
            OBVIOUS
        <3>1. k - (q - 1 - p) \in 1 .. n /\ old(k - (q - 1 - p)) = k  BY <2>0, <2>3
        <3> QED  BY <3>1
    <2> HIDE DEF n, old
    <2>8. InList(kept, lo)
        <3>1. \A i \in 1 .. n : lo < kept[i].offset  BY <2>0, <2>4
        <3>2. \A i, j \in 1 .. n : i < j => End(kept[i]) < kept[j].offset  BY <2>0, <2>4, <2>5
        <3> QED  BY <3>1, <3>2, <2>2 DEF InList
    <2>9. ASSUME NEW z PROVE z \in Spread(kept) \/ z \in Span(df) <=> z \in Spread(fs) \/ z \in Span(df)
        <3>1. z \in Spread(kept) <=> \E i \in 1 .. n : z \in Span(kept[i])  BY <2>2, SpreadIs
        <3>2. z \in Spread(fs) <=> \E i \in 1 .. L : z \in Span(fs[i])  BY SpreadIs DEF L
        <3>3. z \in Spread(kept) => z \in Spread(fs)  BY <3>1, <3>2, <2>4
        <3>4. ASSUME NEW k \in 1 .. L, z \in Span(fs[k]) PROVE z \in Spread(kept) \/ z \in Span(df)
            <4>1. CASE k <= p
                <5>1. k \in 1 .. p  BY <4>1, <2>3
                <5> QED  BY <5>1, <3>1, <3>4, <2>4, <2>6
            <4>2. CASE k >= q
                <5>1. k \in q .. L  BY <4>2, <2>0, <2>3
                <5>2. PICK i \in 1 .. n : old(i) = k  BY <5>1, <2>7
                <5> QED  BY <5>2, <3>1, <3>4, <2>4
            <4>3. CASE ~(k <= p) /\ ~(k >= q)
                <5>1. k \in p + 1 .. q - 1  BY <4>3, <2>0, <2>3
                <5>2. df.offset <= fs[k].offset /\ End(fs[k]) <= End(df)  BY <5>1, <2>1
                <5>3. df.offset \in Nat /\ End(df) \in Nat /\ fs[k].offset \in Nat /\ End(fs[k]) \in Nat
                    BY <2>0, FragsAre
                <5>4. z \in Span(df)  BY <3>4, <5>2, <5>3 DEF Span
                <5> QED  BY <5>4
            <4> QED  BY <4>1, <4>2, <4>3
        <3> QED  BY <3>2, <3>3, <3>4
    <2>10. /\ p \in 0 .. Len(kept)
           /\ \A i \in 1 .. p : kept[i].offset < df.offset /\ End(kept[i]) < End(df)
           /\ \A i \in p + 1 .. Len(kept) : df.offset < kept[i].offset /\ End(df) < End(kept[i])
        <3>1. p \in 0 .. n  BY <2>3
        <3>2. \A i \in 1 .. p : kept[i] = fs[i]  BY <2>4, <2>6
        <3>3. \A i \in p + 1 .. n : kept[i] = fs[old(i)] /\ old(i) \in q .. L  BY <2>4, <2>6
        <3> QED  BY <3>1, <3>2, <3>3, <2>1, <2>2
    <2>11. /\ After(kept, df) = p + 1 /\ Trim(kept, df).data # <<>>
           /\ InList(Merge(kept, Trim(kept, df), p), lo)
           /\ \A z : z \in Spread(Merge(kept, Trim(kept, df), p)) <=> z \in Spread(kept) \/ z \in Span(df)
        BY <2>8, <2>10, PlaceIs
    <2>12. Push(fs, df) = Merge(kept, Trim(kept, df), p)
        <3>1. NeedsNode(fs, df)  BY <1>2, <2>11 DEF NeedsNode, kept
        <3>2. After(kept, df) - 1 = p  BY <2>3, <2>11
        <3> QED  BY <3>1, <3>2 DEF Push, kept
    <2> QED  BY <2>9, <2>11, <2>12
<1> QED  BY <1>1, <1>2

-----------------------------------------------------------------------------
(* ch_assemble_fragment_pop. *)

\* What is below last_offset goes: whole fragments and the first part of one.
LEMMA FreeBelowIs ==
    ASSUME NoWrap, NEW fs, NEW lo \in Int, InList(fs, lo), NEW e \in Nat
    PROVE  /\ InList(FreeBelow(fs, e), e - 1)
           /\ \A z : z \in Spread(FreeBelow(fs, e)) <=> z \in Spread(fs) /\ z >= e
<1> DEFINE L == Len(fs)
           T == {i \in 1 .. L : End(fs[i]) > e} \union {L + 1}
           k == Min(T)
           rest == SubSeq(fs, k, L)
           r == FreeBelow(fs, e)
           n == L + 1 - k
<1>0. /\ L \in Nat /\ DOMAIN fs = 1 .. L
      /\ \A i \in 1 .. L : /\ fs[i] \in Frags /\ fs[i].offset \in Nat /\ End(fs[i]) \in Nat
                           /\ fs[i].offset < End(fs[i]) /\ EndOf(fs[i]) = End(fs[i]) /\ End(fs[i]) <= StreamLen
      /\ \A i, j \in 1 .. L : i < j => End(fs[i]) < fs[j].offset /\ End(fs[i]) < End(fs[j])
    BY ListIs
<1>1. {i \in DOMAIN fs : EndOf(fs[i]) > e} \union {L + 1} = T  BY <1>0
<1>2. k \in T /\ \A y \in T : k <= y
    <2>1. T \in SUBSET Nat /\ T # {}  BY <1>0
    <2> HIDE DEF T
    <2> QED  BY <2>1, MinIs
<1> HIDE DEF L, k
<1>3. k \in 1 .. L + 1 /\ (k <= L => End(fs[k]) > e) /\ n \in Nat  BY <1>0, <1>2
<1>4. \A i \in 1 .. L : i < k => End(fs[i]) <= e  BY <1>0, <1>2
<1>5. /\ rest \in Seq(Frags) /\ Len(rest) = n /\ \A i \in 1 .. n : rest[i] = fs[k + i - 1]
    <2>1. \A i \in k .. L : fs[i] \in Frags  BY <1>0, <1>3
    <2>2. rest \in Seq(Frags) /\ Len(rest) = (IF k <= L THEN L - k + 1 ELSE 0) /\ \A i \in 1 .. L - k + 1 : rest[i] = fs[k + i - 1]
        BY <2>1, <1>0, <1>3, SubSeqProperties
    <2> QED  BY <2>2, <1>0, <1>3
<1>6. r = IF rest # <<>> /\ Head(rest).offset < e
          THEN <<SkipBytes(Head(rest), Sub(e, Head(rest).offset))>> \o Tail(rest) ELSE rest
    BY <1>1 DEF FreeBelow, L, k
<1> HIDE DEF rest, T, r
<1>7. /\ r \in Seq(Frags) /\ Len(r) = n
      /\ \A i \in 2 .. n : r[i] = fs[k + i - 1]
      /\ n >= 1 => r[1] = Frag(IF fs[k].offset < e THEN e ELSE fs[k].offset, End(fs[k]))
    <2>1. CASE n >= 1
        <3>1. 1 \in 1 .. n /\ k + 1 - 1 = k /\ k \in 1 .. L /\ rest # <<>>  BY <2>1, <1>0, <1>3, <1>5
        <3>2. Head(rest) = fs[k] /\ fs[k] \in Frags  BY <3>1, <1>0, <1>5
        <3>3. fs[k].offset \in Nat /\ End(fs[k]) \in Nat /\ e < End(fs[k]) /\ End(fs[k]) <= StreamLen
            BY <3>1, <1>0, <1>3
        <3>4. CASE fs[k].offset < e
            <4> DEFINE h == Frag(e, End(fs[k]))
            <4>1. SkipBytes(fs[k], Sub(e, fs[k].offset)) = h  BY <3>2, <3>3, <3>4, SkipIs
            <4>2. h \in Frags  BY <3>3, FragIs
            <4>3. r = <<h>> \o Tail(rest)  BY <3>1, <3>2, <3>4, <4>1, <1>6
            <4>4. /\ Tail(rest) \in Seq(Frags) /\ Len(Tail(rest)) = n - 1
                  /\ \A i \in 1 .. n - 1 : Tail(rest)[i] = rest[i + 1]
                BY <3>1, <1>5, HeadTailProperties
            <4> DEFINE u == Tail(rest)
            <4> HIDE DEF h, u
            <4>5. <<h>> \in Seq(Frags) /\ Len(<<h>>) = 1 /\ <<h>>[1] = h  BY <4>2
            <4>6. /\ r \in Seq(Frags) /\ Len(r) = 1 + Len(u)
                  /\ \A i \in 1 .. 1 + Len(u) : r[i] = IF i <= 1 THEN <<h>>[i] ELSE u[i - 1]
                BY <4>3, <4>4, <4>5, ConcatProperties DEF u
            <4>7. Len(u) = n - 1 /\ 1 + Len(u) = n  BY <4>4, <1>3 DEF u
            <4>8. r[1] = h  BY <3>1, <4>5, <4>6, <4>7
            <4>9. ASSUME NEW i \in 2 .. n PROVE r[i] = fs[k + i - 1]
                <5>1. i \in 1 .. n /\ ~(i <= 1) /\ i - 1 \in 1 .. n - 1 /\ (i - 1) + 1 = i  BY <1>3
                <5>2. r[i] = u[i - 1]  BY <5>1, <4>6, <4>7
                <5>3. u[i - 1] = rest[i]  BY <5>1, <4>4 DEF u
                <5> QED  BY <5>1, <5>2, <5>3, <1>5
            <4> QED  BY <3>4, <4>6, <4>7, <4>8, <4>9 DEF h
        <3>5. CASE ~(fs[k].offset < e)
            <4>1. r = rest  BY <3>2, <3>5, <1>6
            <4>2. fs[k] = Frag(fs[k].offset, End(fs[k]))  BY <3>2, FragsAre
            <4>3. \A i \in 2 .. n : i \in 1 .. n  BY <1>3
            <4> QED  BY <3>1, <3>5, <4>1, <4>2, <4>3, <1>5
        <3> QED  BY <3>4, <3>5
    <2>2. CASE n = 0
        <3>1. rest = <<>>  BY <2>2, <1>5
        <3>2. r = rest  BY <3>1, <1>6
        <3> QED  BY <3>2, <2>2, <1>5
    <2> QED  BY <2>1, <2>2, <1>3
<1> DEFINE o == IF fs[k].offset < e THEN e ELSE fs[k].offset
<1>8. ASSUME n >= 1
      PROVE  /\ k \in 1 .. L /\ r[1].offset = o /\ End(r[1]) = End(fs[k]) /\ o \in Nat /\ o >= e /\ o >= fs[k].offset
             /\ 1 \in 1 .. n
    <2>1. k \in 1 .. L /\ 1 \in 1 .. n  BY <1>8, <1>0, <1>3
    <2>2. fs[k].offset \in Nat /\ End(fs[k]) \in Nat /\ e < End(fs[k]) /\ fs[k].offset < End(fs[k])
          /\ End(fs[k]) <= StreamLen
        BY <2>1, <1>0, <1>3
    <2>3. o \in Nat /\ o >= e /\ o >= fs[k].offset /\ o < End(fs[k])  BY <2>2
    <2> HIDE DEF o
    <2>4. r[1] = Frag(o, End(fs[k]))  BY <1>7, <1>8 DEF o
    <2> DEFINE d == End(fs[k])
               f == Frag(o, d)
    <2>5. d \in Nat /\ o \in Nat /\ o < d /\ d <= StreamLen  BY <2>2, <2>3
    <2> HIDE DEF d
    <2>6. f.offset = o /\ End(f) = d  BY <2>5, FragIs
    <2>7. r[1] = f  BY <2>4 DEF d
    <2> HIDE DEF f
    <2>8. r[1].offset = o /\ End(r[1]) = d  BY <2>6, <2>7
    <2> QED  BY <2>1, <2>3, <2>8 DEF d
<1>9. ASSUME NEW i \in 2 .. n PROVE i \in 1 .. n /\ k + i - 1 \in 1 .. L /\ k < k + i - 1 /\ k \in 1 .. L /\ n >= 1
    BY <1>0, <1>3
<1>10. \A i \in 1 .. n : i = 1 \/ i \in 2 .. n  BY <1>3
<1> HIDE DEF o
<1>11. ASSUME NEW i \in 1 .. n PROVE e - 1 < r[i].offset
    <2>1. CASE i = 1
        <3>1. n >= 1  BY <2>1, <1>3
        <3> QED  BY <2>1, <3>1, <1>8
    <2>2. CASE i \in 2 .. n
        <3>1. k + i - 1 \in 1 .. L /\ k < k + i - 1 /\ k \in 1 .. L  BY <2>2, <1>9
        <3>2. End(fs[k]) < fs[k + i - 1].offset /\ End(fs[k]) > e  BY <3>1, <1>0, <1>3
        <3>3. End(fs[k]) \in Nat /\ fs[k + i - 1].offset \in Nat  BY <3>1, <1>0
        <3> QED  BY <2>2, <3>2, <3>3, <1>7
    <2> QED  BY <2>1, <2>2, <1>10
<1>12. ASSUME NEW i \in 1 .. n, NEW j \in 1 .. n, i < j PROVE End(r[i]) < r[j].offset
    <2>1. j \in 2 .. n  BY <1>12, <1>3
    <2>2. k + j - 1 \in 1 .. L /\ k < k + j - 1 /\ k \in 1 .. L /\ r[j] = fs[k + j - 1] /\ n >= 1
        BY <2>1, <1>7, <1>9
    <2>3. CASE i = 1
        <3>1. End(r[1]) = End(fs[k])  BY <2>2, <1>8
        <3> QED  BY <2>2, <2>3, <3>1, <1>0
    <2>4. CASE i \in 2 .. n
        <3>1. k + i - 1 \in 1 .. L /\ r[i] = fs[k + i - 1]  BY <2>4, <1>7, <1>9
        <3>2. k + i - 1 < k + j - 1  BY <1>12, <1>3
        <3> QED  BY <2>2, <3>1, <3>2, <1>0
    <2> QED  BY <2>3, <2>4, <1>10
<1>13. InList(r, e - 1)  BY <1>7, <1>11, <1>12 DEF InList
<1>14. ASSUME NEW z PROVE z \in Spread(r) <=> z \in Spread(fs) /\ z >= e
    <2>1. z \in Spread(r) <=> \E i \in 1 .. n : z \in Span(r[i])  BY <1>7, SpreadIs
    <2>2. z \in Spread(fs) <=> \E i \in 1 .. L : z \in Span(fs[i])  BY SpreadIs DEF L
    <2>3. ASSUME NEW i \in 1 .. n, z \in Span(r[i]) PROVE z \in Spread(fs) /\ z >= e
        <3>1. z >= e
            <4>1. z \in r[i].offset .. End(r[i]) - 1 /\ e - 1 < r[i].offset /\ r[i].offset \in Nat /\ End(r[i]) \in Nat
                <5>1. r[i] \in Frags  BY <1>7
                <5> QED  BY <5>1, <2>3, <1>11, FragsAre DEF Span
            <4> QED  BY <4>1
        <3>2. CASE i = 1
            <4>1. n >= 1  BY <3>2, <1>3
            <4>2. k \in 1 .. L /\ z \in o .. End(fs[k]) - 1 /\ o \in Nat /\ o >= fs[k].offset
                BY <3>2, <4>1, <2>3, <1>8 DEF Span
            <4>3. fs[k].offset \in Nat /\ End(fs[k]) \in Nat  BY <4>2, <1>0
            <4>4. z \in Span(fs[k])  BY <4>2, <4>3 DEF Span
            <4> QED  BY <4>2, <4>4, <3>1, <2>2
        <3>3. CASE i \in 2 .. n
            <4>1. k + i - 1 \in 1 .. L /\ r[i] = fs[k + i - 1]  BY <3>3, <1>7, <1>9
            <4> QED  BY <4>1, <3>1, <2>2, <2>3
        <3> QED  BY <3>2, <3>3, <1>10
    <2>4. ASSUME NEW j \in 1 .. L, z \in Span(fs[j]), z >= e PROVE z \in Spread(r)
        <3>0. /\ fs[j].offset \in Nat /\ End(fs[j]) \in Nat /\ z \in fs[j].offset .. End(fs[j]) - 1
            BY <2>4, <1>0 DEF Span
        <3>1. End(fs[j]) > e  BY <3>0, <2>4
        <3>2. j >= k  BY <3>0, <3>1, <1>0, <1>3, <1>4
        <3>3. CASE j = k
            <4>1. n >= 1  BY <3>3, <1>0, <1>3
            <4>2. z \in o .. End(fs[k]) - 1  BY <3>0, <3>3, <2>4 DEF o
            <4>3. z \in Span(r[1]) /\ 1 \in 1 .. n  BY <4>1, <4>2, <1>8 DEF Span
            <4> QED  BY <4>3, <2>1
        <3>4. CASE j > k
            <4>1. j - k + 1 \in 2 .. n /\ k + (j - k + 1) - 1 = j  BY <3>4, <1>0, <1>3
            <4>2. r[j - k + 1] = fs[j]  BY <4>1, <1>7
            <4> QED  BY <4>1, <4>2, <2>1, <2>4, <1>9
        <3> QED  BY <3>2, <3>3, <3>4, <1>3
    <2> QED  BY <2>1, <2>2, <2>3, <2>4
<1> QED  BY <1>13, <1>14 DEF r

\* The head of the list after the bytes below e are gone: it is the fragment waited for, or the
\* list begins after a gap.
LEMMA PopIs ==
    ASSUME NoWrap, NEW fs, NEW lo \in Int, InList(fs, lo), NEW e \in Nat
    PROVE  LET r == FreeBelow(fs, e) IN
           /\ ~CanPop(fs, e) => InList(r, e)
           /\ CanPop(fs, e) => /\ Head(r) \in Frags /\ Head(r).offset = e
                               /\ InList(Tail(r), End(Head(r)))
                               /\ \A z : z \in Spread(r) <=> z \in e .. End(Head(r)) - 1 \/ z \in Spread(Tail(r))
<1> DEFINE r == FreeBelow(fs, e)
           n == Len(r)
<1>1. InList(r, e - 1)  BY FreeBelowIs
<1>2. CanPop(fs, e) <=> r # <<>> /\ Head(r).offset = e  BY DEF CanPop
<1> HIDE DEF r
<1>3. /\ r \in Seq(Frags) /\ n \in Nat
      /\ \A i \in 1 .. n : /\ r[i] \in Frags /\ r[i].offset \in Nat /\ End(r[i]) \in Nat
                           /\ r[i].offset < End(r[i]) /\ e - 1 < r[i].offset
      /\ \A i, j \in 1 .. n : i < j => End(r[i]) < r[j].offset
    <2>1. e - 1 \in Int  OBVIOUS
    <2> QED  BY <1>1, <2>1, ListIs DEF InList
<1>4. CASE r = <<>>
    <2>1. InList(r, e)  BY <1>4, <1>3 DEF InList
    <2> QED  BY <2>1, <1>2, <1>4 DEF r
<1>5. CASE r # <<>>
    <2>1. n >= 1 /\ 1 \in 1 .. n /\ Head(r) = r[1]  BY <1>3, <1>5
    <2>2. ASSUME Head(r).offset # e PROVE InList(r, e)
        <3>1. ASSUME NEW i \in 1 .. n PROVE e < r[i].offset
            <4>1. e < r[1].offset /\ r[1].offset \in Nat /\ End(r[1]) \in Nat /\ r[1].offset < End(r[1])
                BY <2>1, <2>2, <1>3
            <4>2. CASE i = 1  BY <4>1, <4>2
            <4>3. CASE i # 1
                <5>1. 1 < i  BY <4>3, <1>3
                <5>2. End(r[1]) < r[i].offset /\ r[i].offset \in Nat  BY <5>1, <2>1, <1>3
                <5> QED  BY <4>1, <5>2
            <4> QED  BY <4>2, <4>3
        <3> QED  BY <3>1, <1>3 DEF InList
    <2> DEFINE t == Tail(r)
               h == r[1]
    <2>3. t \in Seq(Frags) /\ Len(t) = n - 1 /\ \A i \in 1 .. n - 1 : t[i] = r[i + 1]
        BY <1>3, <1>5, HeadTailProperties
    <2>4. \A i \in 1 .. n - 1 : i + 1 \in 1 .. n /\ 1 < i + 1  BY <1>3
    <2> HIDE DEF t, n
    <2>5. InList(t, End(h))
        <3>1. \A i \in 1 .. n - 1 : End(h) < t[i].offset  BY <2>1, <2>3, <2>4, <1>3
        <3>2. ASSUME NEW i \in 1 .. n - 1, NEW j \in 1 .. n - 1, i < j PROVE End(t[i]) < t[j].offset
            <4>1. i + 1 < j + 1  BY <3>2
            <4> QED  BY <4>1, <2>3, <2>4, <1>3
        <3> QED  BY <3>1, <3>2, <2>3 DEF InList
    <2>6. ASSUME NEW z PROVE z \in Spread(r) <=> z \in Span(h) \/ z \in Spread(t)
        <3>1. z \in Spread(r) <=> \E i \in 1 .. n : z \in Span(r[i])  BY SpreadIs DEF n
        <3>2. z \in Spread(t) <=> \E i \in 1 .. n - 1 : z \in Span(t[i])  BY <2>3, SpreadIs
        <3>3. \A i \in 1 .. n : i = 1 \/ (i - 1 \in 1 .. n - 1 /\ (i - 1) + 1 = i)  BY <1>3
        <3>4. ASSUME NEW i \in 1 .. n, z \in Span(r[i]) PROVE z \in Span(h) \/ z \in Spread(t)
            <4>1. CASE i = 1  BY <4>1, <3>4
            <4>2. CASE i # 1
                <5>1. i - 1 \in 1 .. n - 1 /\ t[i - 1] = r[i]  BY <4>2, <3>3, <2>3
                <5> QED  BY <5>1, <3>2, <3>4
            <4> QED  BY <4>1, <4>2
        <3>5. ASSUME NEW i \in 1 .. n - 1, z \in Span(t[i]) PROVE z \in Spread(r)
            BY <3>1, <3>5, <2>3, <2>4
        <3>6. z \in Span(h) => z \in Spread(r)  BY <3>1, <2>1
        <3> QED  BY <3>1, <3>2, <3>4, <3>5, <3>6
    <2>7. h \in Frags  BY <2>1, <1>3
    <2> HIDE DEF h
    <2>8. Head(r) = h  BY <2>1 DEF h
    <2>9. h.offset = e => \A z : z \in Spread(r) <=> z \in e .. End(h) - 1 \/ z \in Spread(t)
        BY <2>6 DEF Span
    <2> QED  BY <2>2, <2>5, <2>7, <2>8, <2>9, <1>2, <1>5 DEF r, t
<1> QED  BY <1>4, <1>5

-----------------------------------------------------------------------------
(* The inductive invariant. *)

\* What an open session has captured is what was parsed and what waits in the list.
Accounted ==
    open => /\ last_offset = Len(parsed)
            /\ \A z : z \in got <=> z \in 0 .. Len(parsed) - 1 \/ z \in Spread(frags)

AsmInv ==
    /\ open \in BOOLEAN
    /\ last_offset \in 0 .. StreamLen
    /\ parsed \in Seq(Nat) /\ Len(parsed) <= StreamLen /\ InOrder
    /\ InList(frags, last_offset)
    /\ 0 .. Len(parsed) - 1 \subseteq got
    /\ got \subseteq 0 .. StreamLen - 1
    /\ Accounted

LEMMA EmptyList ==
    ASSUME NEW lo
    PROVE  InList(<<>>, lo) /\ \A z : ~(z \in Spread(<<>>))
<1>1. <<>> \in Seq(Frags) /\ Len(<<>>) = 0 /\ 1 .. 0 = {}  OBVIOUS
<1> QED  BY <1>1, SpreadIs DEF InList

LEMMA AsmInitOK == AsmInit => AsmInv
<1> SUFFICES ASSUME AsmInit PROVE AsmInv
    OBVIOUS
<1>1. last_offset = 0 /\ frags = <<>> /\ open = TRUE /\ parsed = <<>> /\ got = {}  BY DEF AsmInit
<1>2. parsed \in Seq(Nat) /\ Len(parsed) = 0 /\ 0 .. 0 - 1 = {}  BY <1>1
<1>3. InOrder
    <2>1. BytesFrom(0, 0) \in Seq(Nat) /\ Len(BytesFrom(0, 0)) = 0  BY BytesIs
    <2>2. BytesFrom(0, 0) = <<>>  BY <2>1
    <2> QED  BY <1>1, <1>2, <2>2 DEF InOrder
<1>4. InList(frags, last_offset) /\ \A z : ~(z \in Spread(frags))  BY <1>1, EmptyList
<1>5. Accounted  BY <1>1, <1>2, <1>4 DEF Accounted
<1> QED  BY <1>1, <1>2, <1>3, <1>4, <1>5, AsmAssumption DEF AsmInv

\* What every lemma about a packet starts from.
LEMMA PacketFacts ==
    ASSUME NoWrap, AsmInv, open, NEW p \in Packets, Capture(p)
    PROVE  LET n == Len(parsed)  s == p.seq  d == p.seq + p.len IN
           /\ n \in Nat /\ n <= StreamLen /\ last_offset = n /\ s \in Nat /\ d \in Nat /\ s < d /\ d <= StreamLen
           /\ p.len \in Nat /\ d - s = p.len
           /\ OffsetGet(p) = s /\ EndOffset(p) = d
           /\ InList(frags, n)
           /\ \A z : z \in got <=> z \in 0 .. n - 1 \/ z \in Spread(frags)
           /\ \A z : z \in got' <=> z \in 0 .. n - 1 \/ z \in Spread(frags) \/ z \in s .. d - 1
           /\ got' \subseteq 0 .. StreamLen - 1 /\ got \subseteq got'
<1> DEFINE n == Len(parsed)
           s == p.seq
           d == p.seq + p.len
<1>1. n \in Nat /\ n <= StreamLen /\ last_offset = n /\ InList(frags, n)
      /\ \A z : z \in got <=> z \in 0 .. n - 1 \/ z \in Spread(frags)
    BY DEF AsmInv, Accounted
<1>2. s \in Nat /\ p.len \in Nat \ {0} /\ d <= StreamLen /\ OffsetGet(p) = s /\ EndOffset(p) = d  BY OffsetIs
<1>3. d \in Nat /\ s < d /\ d - s = p.len  BY <1>2
<1>4. got' = got \union (s .. d - 1)
    <2>1. (p.seq + p.len) - 1 = p.seq + (p.len - 1)  BY <1>2
    <2> QED  BY <2>1 DEF Capture
<1>5. got \subseteq 0 .. StreamLen - 1  BY DEF AsmInv
<1> HIDE DEF n, s, d
<1>6. s .. d - 1 \subseteq 0 .. StreamLen - 1  BY <1>2, <1>3, AsmAssumption
<1>7. got' \subseteq 0 .. StreamLen - 1 /\ got \subseteq got'  BY <1>4, <1>5, <1>6
<1>8. \A z : z \in got' <=> z \in 0 .. n - 1 \/ z \in Spread(frags) \/ z \in s .. d - 1  BY <1>1, <1>4
<1> QED  BY <1>1, <1>2, <1>3, <1>7, <1>8 DEF n, s, d

\* A session that closes: what was parsed is captured; nothing else is promised of it.
LEMMA ClosedOK ==
    ASSUME NEW m \in Nat, NEW lo \in 0 .. StreamLen, m <= StreamLen, CloseSession, parsed' = BytesFrom(0, m),
           last_offset' = lo, 0 .. m - 1 \subseteq got', got' \subseteq 0 .. StreamLen - 1
    PROVE  AsmInv' /\ Len(parsed)' = m
<1>1. parsed' \in Seq(Nat) /\ Len(parsed') = m  BY BytesIs
<1>2. open' = FALSE /\ frags' = <<>>  BY DEF CloseSession
<1>3. InList(frags', last_offset')  BY <1>2, EmptyList
<1>4. InOrder'  BY <1>1 DEF InOrder
<1>5. Accounted'  BY <1>2 DEF Accounted
<1> QED  BY <1>1, <1>2, <1>3, <1>4, <1>5 DEF AsmInv

\* A session that stays open.
LEMMA OpenOK ==
    ASSUME AsmInv, NEW m \in Nat, m <= StreamLen, open, UNCHANGED open, parsed' = BytesFrom(0, m), last_offset' = m,
           InList(frags', m), \A z : z \in got' <=> z \in 0 .. m - 1 \/ z \in Spread(frags'),
           got' \subseteq 0 .. StreamLen - 1
    PROVE  AsmInv' /\ Len(parsed)' = m
<1>1. parsed' \in Seq(Nat) /\ Len(parsed') = m  BY BytesIs
<1>2. InOrder'  BY <1>1 DEF InOrder
<1>3. open' \in BOOLEAN
    <2>1. open' = open  OBVIOUS
    <2> QED  BY DEF AsmInv
<1>4. Accounted'  BY <1>1 DEF Accounted
<1>5. 0 .. m - 1 \subseteq got'  OBVIOUS
<1>6. last_offset' \in 0 .. StreamLen  BY AsmAssumption
<1> QED  BY <1>1, <1>2, <1>3, <1>4, <1>5, <1>6 DEF AsmInv

-----------------------------------------------------------------------------
(* _process_data_packet: one lemma for each of its three ways. *)

LEMMA OldOK ==
    ASSUME NoWrap, AsmInv, open, NEW p \in Packets, Capture(p), DataOld(p)
    PROVE  AsmInv' /\ Len(parsed)' >= Len(parsed) /\ got \subseteq got'
<1> DEFINE n == Len(parsed)
           s == p.seq
           d == p.seq + p.len
<1>1. /\ n \in Nat /\ n <= StreamLen /\ last_offset = n /\ s \in Nat /\ d \in Nat
      /\ EndOffset(p) = d /\ InList(frags, n)
      /\ \A z : z \in got' <=> z \in 0 .. n - 1 \/ z \in Spread(frags) \/ z \in s .. d - 1
      /\ got' \subseteq 0 .. StreamLen - 1 /\ got \subseteq got'
    BY PacketFacts
<1>2. d <= n /\ UNCHANGED <<last_offset, frags, open, parsed>>  BY <1>1 DEF DataOld
<1>3. parsed = BytesFrom(0, n)  BY DEF AsmInv, InOrder
<1> HIDE DEF n, s, d
<1>4. \A z \in s .. d - 1 : z \in 0 .. n - 1  BY <1>1, <1>2
<1>5. \A z : z \in got' <=> z \in 0 .. n - 1 \/ z \in Spread(frags')  BY <1>1, <1>2, <1>4
<1>6. AsmInv' /\ Len(parsed)' = n  BY <1>1, <1>2, <1>3, <1>5, OpenOK
<1> QED  BY <1>1, <1>6 DEF n

LEMMA UnorderOK ==
    ASSUME NoWrap, AsmInv, open, NEW p \in Packets, Capture(p), DataUnorder(p)
    PROVE  AsmInv' /\ Len(parsed)' >= Len(parsed) /\ got \subseteq got'
<1> DEFINE n == Len(parsed)
           s == p.seq
           d == p.seq + p.len
           df == [offset |-> OffsetGet(p), data |-> BytesFrom(p.seq, p.len)]
<1>1. /\ n \in Nat /\ n <= StreamLen /\ last_offset = n /\ s \in Nat /\ d \in Nat /\ s < d /\ d <= StreamLen
      /\ d - s = p.len /\ OffsetGet(p) = s /\ InList(frags, n)
      /\ \A z : z \in got <=> z \in 0 .. n - 1 \/ z \in Spread(frags)
      /\ \A z : z \in got' <=> z \in 0 .. n - 1 \/ z \in Spread(frags) \/ z \in s .. d - 1
      /\ got' \subseteq 0 .. StreamLen - 1 /\ got \subseteq got'
    BY PacketFacts
<1>2. /\ OffsetGet(p) > last_offset /\ UNCHANGED <<last_offset, parsed>>
      /\ (frags' = Push(frags, df) /\ UNCHANGED open) \/ CloseSession
    BY DEF DataUnorder
<1>3. parsed = BytesFrom(0, n)  BY DEF AsmInv, InOrder
<1>4. df = Frag(s, d)  BY <1>1 DEF Frag
<1>5. 0 .. n - 1 \subseteq got'  BY <1>1
<1> HIDE DEF n, s, d, df
<1>6. df \in Frags /\ df.offset = s /\ End(df) = d  BY <1>1, <1>4, FragIs
<1>7. n < s /\ n \in Int  BY <1>1, <1>2
<1>8. CASE frags' = Push(frags, df) /\ UNCHANGED open
    <2>1. /\ InList(frags', n)
          /\ \A z : z \in Spread(frags') <=> z \in Spread(frags) \/ z \in Span(df)
        BY <1>1, <1>6, <1>7, <1>8, PushIs
    <2>2. Span(df) = s .. d - 1  BY <1>6 DEF Span
    <2>3. \A z : z \in got' <=> z \in 0 .. n - 1 \/ z \in Spread(frags')  BY <1>1, <2>1, <2>2
    <2>4. AsmInv' /\ Len(parsed)' = n  BY <1>1, <1>2, <1>3, <1>8, <2>1, <2>3, OpenOK
    <2> QED  BY <1>1, <2>4 DEF n
<1>9. CASE CloseSession
    <2>1. n \in 0 .. StreamLen /\ last_offset' = n /\ parsed' = BytesFrom(0, n)  BY <1>1, <1>2, <1>3, AsmAssumption
    <2>2. AsmInv' /\ Len(parsed)' = n  BY <1>1, <1>5, <1>9, <2>1, ClosedOK
    <2> QED  BY <1>1, <2>2 DEF n
<1> QED  BY <1>2, <1>8, <1>9

\* The stream up to d and then up to m.
LEMMA BytesOn ==
    ASSUME NEW d \in Nat, NEW m \in Nat, d <= m
    PROVE  BytesFrom(0, d) \o BytesFrom(d, m - d) = BytesFrom(0, m)
<1>1. m - d \in Nat /\ 0 + d = d /\ d + (m - d) = m /\ 0 \in Nat  OBVIOUS
<1>2. BytesFrom(0, d) \o BytesFrom(0 + d, m - d) = BytesFrom(0, d + (m - d))
    BY <1>1, BytesCat
<1> QED  BY <1>1, <1>2

\* The part of the packet that is new goes on where the parser stopped.
LEMMA FreshIs ==
    ASSUME NoWrap, NEW n \in Nat, NEW s \in Nat, NEW d \in Nat, s <= n, n < d, d <= StreamLen
    PROVE  /\ SubSeq(BytesFrom(s, d - s), Sub(n, s) + 1, d - s) = BytesFrom(n, d - n)
           /\ BytesFrom(0, n) \o BytesFrom(n, d - n) = BytesFrom(0, d)
<1> DEFINE k == n - s
           l == d - s
<1>1. k \in Nat /\ s + k = n /\ s + k < W /\ l \in Nat /\ d - n \in Nat /\ k + 1 \in 1 .. l + 1 /\ l \in (k + 1) - 1 .. l
      /\ s + (k + 1) - 1 = n /\ l - (k + 1) + 1 = d - n
    BY AsmAssumption DEF NoWrap
<1> HIDE DEF k, l
<1>2. Sub(n, s) = k  BY <1>1, AddSub
<1>3. SubSeq(BytesFrom(s, l), k + 1, l) = BytesFrom(s + (k + 1) - 1, l - (k + 1) + 1)
    <2> DEFINE a == k + 1
    <2>1. a \in 1 .. l + 1 /\ l \in a - 1 .. l /\ l \in Nat  BY <1>1
    <2> HIDE DEF a
    <2>2. SubSeq(BytesFrom(s, l), a, l) = BytesFrom(s + a - 1, l - a + 1)  BY <2>1, BytesSub
    <2> QED  BY <2>2 DEF a
<1>4. BytesFrom(0, n) \o BytesFrom(n, d - n) = BytesFrom(0, d)
    <2>1. n <= d  OBVIOUS
    <2> QED  BY <2>1, BytesOn
<1> QED  BY <1>1, <1>2, <1>3, <1>4 DEF l

LEMMA ExpectedOK ==
    ASSUME NoWrap, AsmInv, open, NEW p \in Packets, Capture(p), DataExpected(p)
    PROVE  AsmInv' /\ Len(parsed)' >= Len(parsed) /\ got \subseteq got'
<1> DEFINE n == Len(parsed)
           s == p.seq
           d == p.seq + p.len
           fresh == SubSeq(BytesFrom(p.seq, p.len), Sub(last_offset, OffsetGet(p)) + 1, p.len)
           rest == FreeBelow(frags, d)
<1>1. /\ n \in Nat /\ n <= StreamLen /\ last_offset = n /\ s \in Nat /\ d \in Nat /\ s < d /\ d <= StreamLen
      /\ d - s = p.len /\ OffsetGet(p) = s /\ EndOffset(p) = d /\ InList(frags, n)
      /\ \A z : z \in got <=> z \in 0 .. n - 1 \/ z \in Spread(frags)
      /\ \A z : z \in got' <=> z \in 0 .. n - 1 \/ z \in Spread(frags) \/ z \in s .. d - 1
      /\ got' \subseteq 0 .. StreamLen - 1 /\ got \subseteq got'
    BY PacketFacts
<1>2. /\ d > n /\ s <= n
      /\ \/ CloseSession /\ last_offset' = d /\ parsed' = parsed \o fresh
         \/ ~CanPop(frags, d) /\ frags' = rest /\ last_offset' = d /\ parsed' = parsed \o fresh /\ UNCHANGED open
         \/ /\ CanPop(frags, d) /\ parsed' = parsed \o fresh \o Head(rest).data
            /\ \/ frags' = Tail(rest) /\ last_offset' = EndOf(Head(rest)) /\ UNCHANGED open
               \/ CloseSession /\ last_offset' = d
    BY <1>1 DEF DataExpected
<1>3. parsed = BytesFrom(0, n)  BY DEF AsmInv, InOrder
<1>4. fresh = SubSeq(BytesFrom(s, d - s), Sub(n, s) + 1, d - s)  BY <1>1
<1> HIDE DEF n, s, d, fresh, rest
<1>5. parsed \o fresh = BytesFrom(0, d)
    <2>1. /\ SubSeq(BytesFrom(s, d - s), Sub(n, s) + 1, d - s) = BytesFrom(n, d - n)
          /\ BytesFrom(0, n) \o BytesFrom(n, d - n) = BytesFrom(0, d)
        BY <1>1, <1>2, FreshIs
    <2> QED  BY <1>3, <1>4, <2>1
<1>6. /\ InList(rest, d - 1) /\ \A z : z \in Spread(rest) <=> z \in Spread(frags) /\ z >= d
    BY <1>1, FreeBelowIs DEF rest
<1>7. ASSUME NEW z PROVE z \in got' <=> z \in 0 .. d - 1 \/ z \in Spread(rest)
    <2>1. z \in got' => z \in 0 .. StreamLen - 1  BY <1>1
    <2>2. z \in 0 .. d - 1 => z \in 0 .. n - 1 \/ z \in s .. d - 1  BY <1>1, <1>2
    <2>3. z \in 0 .. StreamLen - 1 => z \in 0 .. d - 1 \/ z >= d  BY <1>1
    <2>4. z \in 0 .. n - 1 \/ z \in s .. d - 1 => z \in 0 .. d - 1  BY <1>1, <1>2
    <2> QED  BY <2>1, <2>2, <2>3, <2>4, <1>1, <1>6
<1>8. 0 .. d - 1 \subseteq got' /\ d \in 0 .. StreamLen  BY <1>1, <1>7, AsmAssumption
<1>9. CASE CloseSession /\ last_offset' = d /\ parsed' = parsed \o fresh
    <2>1. AsmInv' /\ Len(parsed)' = d  BY <1>1, <1>5, <1>8, <1>9, ClosedOK
    <2> QED  BY <1>1, <1>2, <2>1 DEF n
<1>10. CASE ~CanPop(frags, d) /\ frags' = rest /\ last_offset' = d /\ parsed' = parsed \o fresh /\ UNCHANGED open
    <2>1. InList(rest, d)  BY <1>1, <1>10, PopIs DEF rest
    <2>2. AsmInv' /\ Len(parsed)' = d  BY <1>1, <1>5, <1>7, <1>10, <2>1, OpenOK
    <2> QED  BY <1>1, <1>2, <2>2 DEF n
<1>11. CASE CanPop(frags, d) /\ parsed' = parsed \o fresh \o Head(rest).data
    <2> DEFINE h == Head(rest)
               m == End(h)
               t == Tail(rest)
    <2>1. /\ h \in Frags /\ h.offset = d /\ InList(t, m)
          /\ \A z : z \in Spread(rest) <=> z \in d .. m - 1 \/ z \in Spread(t)
        BY <1>1, <1>11, PopIs DEF rest
    <2> HIDE DEF h, t
    <2>2. m \in Nat /\ d < m /\ m <= StreamLen /\ EndOf(h) = m /\ h.data = BytesFrom(d, m - d)
        BY <2>1, FragsAre
    <2> HIDE DEF m
    <2>3. parsed' = BytesFrom(0, m)
        <3>0. d \in Nat /\ m \in Nat /\ d <= m  BY <1>1, <2>2
        <3>1. BytesFrom(0, d) \o BytesFrom(d, m - d) = BytesFrom(0, m)  BY <3>0, BytesOn
        <3> QED  BY <1>5, <1>11, <2>2, <3>1 DEF h
    <2>4. ASSUME NEW z PROVE z \in got' <=> z \in 0 .. m - 1 \/ z \in Spread(t)
        <3>1. z \in 0 .. m - 1 <=> z \in 0 .. d - 1 \/ z \in d .. m - 1  BY <1>1, <2>2
        <3> QED  BY <3>1, <2>1, <1>7
    <2>5. 0 .. m - 1 \subseteq got'  BY <2>4
    <2>6. CASE frags' = t /\ last_offset' = m /\ UNCHANGED open
        <3>1. AsmInv' /\ Len(parsed)' = m  BY <1>1, <2>1, <2>2, <2>3, <2>4, <2>6, OpenOK
        <3> QED  BY <1>1, <1>2, <2>2, <3>1 DEF n
    <2>7. CASE CloseSession /\ last_offset' = d
        <3>1. AsmInv' /\ Len(parsed)' = m  BY <1>1, <1>8, <2>2, <2>3, <2>5, <2>7, ClosedOK
        <3> QED  BY <1>1, <1>2, <2>2, <3>1 DEF n
    <2>8. \/ frags' = t /\ last_offset' = m /\ UNCHANGED open
          \/ CloseSession /\ last_offset' = d
        <3>1. \/ frags' = Tail(rest) /\ last_offset' = EndOf(Head(rest)) /\ UNCHANGED open
              \/ CloseSession /\ last_offset' = d
            BY <1>2, <1>11
        <3> QED  BY <2>2, <3>1 DEF h, t
    <2> QED  BY <2>6, <2>7, <2>8
<1> QED  BY <1>2, <1>9, <1>10, <1>11

-----------------------------------------------------------------------------
(* Every step. *)

LEMMA AsmPacketOK ==
    ASSUME NoWrap, AsmInv, AsmNext
    PROVE  AsmInv' /\ Len(parsed)' >= Len(parsed) /\ got \subseteq got' /\ open
<1>1. PICK p \in Packets : ProcessDataPacket(p)  BY DEF AsmNext
<1>2. open /\ Capture(p) /\ (DataOld(p) \/ DataUnorder(p) \/ DataExpected(p))  BY <1>1 DEF ProcessDataPacket
<1>3. CASE DataOld(p)       BY <1>2, <1>3, OldOK
<1>4. CASE DataUnorder(p)   BY <1>2, <1>4, UnorderOK
<1>5. CASE DataExpected(p)  BY <1>2, <1>5, ExpectedOK
<1> QED  BY <1>2, <1>3, <1>4, <1>5

LEMMA AsmStepOK == NoWrap /\ AsmInv /\ [AsmNext]_asmVars => AsmInv'
<1> SUFFICES ASSUME NoWrap, AsmInv, [AsmNext]_asmVars PROVE AsmInv'
    OBVIOUS
<1>1. CASE AsmNext  BY <1>1, AsmPacketOK
<1>2. CASE UNCHANGED asmVars
    <2>1. UNCHANGED <<last_offset, frags, open, parsed, got>>  BY <1>2 DEF asmVars
    <2> QED  BY <2>1 DEF AsmInv, InOrder, Accounted
<1> QED  BY <1>1, <1>2

LEMMA AsmIsInv == ASSUME NoWrap PROVE AsmSpec => []AsmInv
<1>1. AsmInit => AsmInv  BY AsmInitOK
<1>2. AsmInv /\ [AsmNext]_asmVars => AsmInv'  BY AsmStepOK
<1> QED  BY <1>1, <1>2, PTL DEF AsmSpec

\* The bytes of a fragment are those of its interval.
LEMMA BytesOfIs ==
    ASSUME NoWrap, NEW f \in Frags
    PROVE  BytesOf(f) = Span(f)
<1> DEFINE o == f.offset
           n == End(f) - o
<1>1. /\ o \in Nat /\ End(f) \in Nat /\ o < End(f) /\ f.data = BytesFrom(o, n) /\ n \in Nat  BY FragsAre
<1>3. Span(f) = o .. (o + n) - 1  BY <1>1 DEF Span
<1> HIDE DEF o, n
<1>2. f.data \in Seq(Nat) /\ Len(f.data) = n /\ \A i \in 1 .. n : f.data[i] = o + i - 1
    <2> DEFINE b == BytesFrom(o, n)
    <2>1. b \in Seq(Nat) /\ Len(b) = n /\ \A i \in 1 .. n : b[i] = o + i - 1  BY <1>1, BytesIs
    <2>2. f.data = b  BY <1>1
    <2> HIDE DEF b
    <2> QED  BY <2>1, <2>2
<1>4. DOMAIN f.data = 1 .. n  BY <1>2
<1>5. ASSUME NEW i \in 1 .. n PROVE f.data[i] \in o .. (o + n) - 1  BY <1>1, <1>2
<1>6. ASSUME NEW z \in o .. (o + n) - 1 PROVE \E i \in 1 .. n : f.data[i] = z
    <2>1. z - o + 1 \in 1 .. n /\ o + (z - o + 1) - 1 = z  BY <1>1
    <2> QED  BY <2>1, <1>2
<1> QED  BY <1>3, <1>4, <1>5, <1>6 DEF BytesOf

LEMMA AsmInvGives ==
    ASSUME NoWrap
    PROVE  AsmInv => AsmTypeOK /\ InOrder /\ FragsApart /\ BytesKept
<1> SUFFICES ASSUME AsmInv PROVE AsmTypeOK /\ InOrder /\ FragsApart /\ BytesKept
    OBVIOUS
<1> DEFINE L == Len(frags)
<1>0. last_offset \in 0 .. StreamLen /\ last_offset \in Int /\ InList(frags, last_offset)  BY DEF AsmInv
<1>1. /\ L \in Nat /\ DOMAIN frags = 1 .. L
      /\ \A i \in 1 .. L : /\ frags[i] \in Frags /\ frags[i].offset \in Nat /\ End(frags[i]) \in Nat
                           /\ frags[i].offset < End(frags[i]) /\ End(frags[i]) <= StreamLen
                           /\ last_offset < frags[i].offset
      /\ \A i, j \in 1 .. L : i < j => End(frags[i]) < frags[j].offset
    BY <1>0, ListIs DEF InList
<1> HIDE DEF L
<1>2. \A i \in 1 .. L : EndOf(frags[i]) = End(frags[i]) /\ frags[i].data # <<>>  BY <1>1, FragsAre
<1>3. \A i \in 1 .. L : BytesOf(frags[i]) = Span(frags[i])  BY <1>1, BytesOfIs
<1>4. AsmTypeOK
    <2>1. last_offset \in 0 .. W - 1  BY <1>0, AsmAssumption DEF NoWrap
    <2>2. ASSUME NEW i \in 1 .. L
          PROVE  frags[i].offset \in 0 .. W - 1 /\ BytesOf(frags[i]) \subseteq 0 .. StreamLen - 1
        <3>1. frags[i].offset \in 0 .. W - 1  BY <1>1, AsmAssumption DEF NoWrap
        <3>2. Span(frags[i]) \subseteq 0 .. StreamLen - 1  BY <1>1, AsmAssumption DEF Span
        <3> QED  BY <3>1, <3>2, <1>3
    <2>3. open \in BOOLEAN /\ got \subseteq 0 .. StreamLen - 1  BY DEF AsmInv
    <2> QED  BY <2>1, <2>2, <2>3, <1>1 DEF AsmTypeOK
<1>5. FragsApart  BY <1>1, <1>2 DEF FragsApart
<1>6. BytesKept
    <2> SUFFICES ASSUME open
                 PROVE  got = {parsed[i] : i \in DOMAIN parsed} \union UNION {BytesOf(frags[i]) : i \in DOMAIN frags}
        BY DEF BytesKept
    <2> DEFINE n == Len(parsed)
    <2>1. n \in Nat /\ parsed = BytesFrom(0, n) /\ DOMAIN parsed = 1 .. n
        BY DEF AsmInv, InOrder
    <2>2. \A z : z \in got <=> z \in 0 .. n - 1 \/ z \in Spread(frags)  BY DEF AsmInv, Accounted
    <2> HIDE DEF n
    <2>3. \A i \in 1 .. n : parsed[i] = 0 + i - 1  BY <2>1, BytesIs
    <2>4. {parsed[i] : i \in DOMAIN parsed} = 0 .. n - 1
        <3>1. ASSUME NEW i \in 1 .. n PROVE parsed[i] \in 0 .. n - 1  BY <2>1, <2>3
        <3>2. ASSUME NEW z \in 0 .. n - 1 PROVE \E i \in 1 .. n : parsed[i] = z
            <4>1. z + 1 \in 1 .. n /\ 0 + (z + 1) - 1 = z  BY <2>1
            <4> QED  BY <4>1, <2>3
        <3> QED  BY <3>1, <3>2, <2>1
    <2>5. UNION {BytesOf(frags[i]) : i \in DOMAIN frags} = Spread(frags)
        BY <1>1, <1>3 DEF Spread, L
    <2> QED  BY <2>2, <2>4, <2>5
<1> QED  BY <1>4, <1>5, <1>6 DEF AsmInv

-----------------------------------------------------------------------------
(* Theorems. *)

\* Offsets stay in the range of uint32_t and fragments hold bytes of the stream.
THEOREM AsmTypeCorrect == ASSUME NoWrap PROVE AsmSpec => []AsmTypeOK
<1>1. AsmInv => AsmTypeOK  BY AsmInvGives
<1> QED  BY <1>1, AsmIsInv, PTL

\* The application parser is called with the bytes of the stream from the first one on, each
\* once and in order, however the packets of _process_data_packet are cut, ordered and repeated.
THEOREM ReassemblyInOrder == ASSUME NoWrap PROVE AsmSpec => []InOrder
<1>1. AsmInv => InOrder  BY AsmInvGives
<1> QED  BY <1>1, AsmIsInv, PTL

\* The fragments of an endpoint are in order with a gap between any two and before the first
\* one: ch_assemble_fragment_push has merged all that touch.
THEOREM ReassemblyApart == ASSUME NoWrap PROVE AsmSpec => []FragsApart
<1>1. AsmInv => FragsApart  BY AsmInvGives
<1> QED  BY <1>1, AsmIsInv, PTL

\* No byte of a packet handled by an open session is lost, as long as the stream is shorter
\* than the range of an offset: what reassembly_wrap shows is the other side of this bound.
THEOREM ReassemblyKeeps == ASSUME NoWrap PROVE AsmSpec => []BytesKept
<1>1. AsmInv => BytesKept  BY AsmInvGives
<1> QED  BY <1>1, AsmIsInv, PTL

\* Reassembly implements ByteStream: after every packet of an open session the parser has
\* exactly the longest gap-free prefix of what was captured.
THEOREM ReassemblyRefines == ASSUME NoWrap PROVE AsmSpec => StreamSpec
<1>1. AsmInit => Stream!Init
    <2> SUFFICES ASSUME AsmInit PROVE Stream!Init
        OBVIOUS
    <2>1. parsed = <<>> /\ got = {} /\ open = TRUE  BY DEF AsmInit
    <2>2. Len(parsed) = 0  BY <2>1
    <2> QED  BY <2>1, <2>2 DEF Stream!Init
<1>2. AsmInv /\ AsmInv' /\ [AsmNext]_asmVars => [Stream!Next]_Stream!vars
    <2> SUFFICES ASSUME AsmInv, AsmInv', [AsmNext]_asmVars PROVE [Stream!Next]_Stream!vars
        OBVIOUS
    <2>1. CASE UNCHANGED asmVars  BY <2>1 DEF asmVars, Stream!vars
    <2>2. CASE AsmNext
        <3> DEFINE n == Len(parsed)
        <3>1. n' >= n /\ got \subseteq got' /\ open  BY <2>2, AsmPacketOK
        <3>2. n \in Nat /\ n' \in Nat /\ n' <= StreamLen /\ 0 .. n' - 1 \subseteq got' /\ got' \subseteq 0 .. StreamLen - 1
              /\ open' \in BOOLEAN
            BY DEF AsmInv
        <3>3. Stream!Capture  BY <3>1, <3>2 DEF Stream!Capture
        <3>4. Stream!GapFree(Len(parsed))'  BY <3>2 DEF Stream!GapFree
        <3>5. n' \in n .. StreamLen  BY <3>1, <3>2, AsmAssumption
        <3>6. CASE open' = FALSE
            <4>1. Stream!Close  BY <3>1, <3>3, <3>4, <3>5, <3>6 DEF Stream!Close
            <4> QED  BY <4>1 DEF Stream!Next
        <3>7. CASE open' = TRUE
            <4>1. InList(frags', n')  BY <3>7 DEF AsmInv, Accounted
            <4>2. \A z : z \in got' <=> z \in 0 .. n' - 1 \/ z \in Spread(frags')  BY <3>7 DEF AsmInv, Accounted
            <4>3. ASSUME n' \in Spread(frags') PROVE FALSE
                <5>1. PICK i \in 1 .. Len(frags') : n' \in Span(frags'[i])  BY <4>3, SpreadIs
                <5>2. n' < frags'[i].offset  BY <4>1 DEF InList
                <5>3. frags'[i] \in Frags  BY <4>1 DEF InList
                <5>4. frags'[i].offset \in Nat /\ End(frags'[i]) \in Nat  BY <5>3, FragsAre
                <5> QED  BY <5>1, <5>2, <5>4, <3>2 DEF Span
            <4>4. n' \notin got'  BY <4>2, <4>3, <3>2
            <4>5. open' = open  BY <3>1, <3>7
            <4>6. Stream!Receive  BY <3>1, <3>3, <3>4, <3>5, <4>4, <4>5 DEF Stream!Receive
            <4> QED  BY <4>6 DEF Stream!Next
        <3> QED  BY <3>2, <3>6, <3>7
    <2> QED  BY <2>1, <2>2
<1> QED  BY <1>1, <1>2, AsmIsInv, PTL DEF AsmSpec, StreamSpec, Stream!Spec
=============================================================================
