------------------------- MODULE StreamAnalyzeProofs -------------------------
(***************************************************************************)
(* Proofs about StreamAnalyze, for streams and segments of any length, any *)
(* number of UDP sessions and any limits of the data stores: no store is   *)
(* lost or shared, whichever way sessions end; and, when FINs come without *)
(* data, the stores have the first bytes of the streams, a session is      *)
(* written out once, and the record of one that ended by the four-way      *)
(* close is complete.  The lemmas about the hosts and about the first gap  *)
(* are those of TcpSessionProofs.                                          *)
(***************************************************************************)
EXTENDS TcpSessionProofs, StreamAnalyze, FiniteSetTheorems, SequenceTheorems

-----------------------------------------------------------------------------
(* Sizes and limits. *)

LEMMA MinTwo ==
    ASSUME NEW a \in Nat, NEW b \in Nat
    PROVE  Min({a, b}) = IF a <= b THEN a ELSE b
<1>1. CASE a <= b
    <2>1. a \in {a, b} /\ \A y \in {a, b} : a <= y  BY <1>1
    <2> QED  BY <1>1, <2>1, MinIs
<1>2. CASE ~(a <= b)
    <2>1. b \in {a, b} /\ \A y \in {a, b} : b <= y  BY <1>2
    <2> QED  BY <1>2, <2>1, MinIs
<1> QED  BY <1>1, <1>2

LEMMA MinThree ==
    ASSUME NEW a \in Nat, NEW b \in Nat, NEW c \in Nat
    PROVE  LET m == Min({a, b, c})
           IN  m \in Nat /\ m <= a /\ m <= b /\ m <= c /\ (m = a \/ m = b \/ m = c)
<1> DEFINE T == {a, b, c}
<1>1. T \in SUBSET Nat /\ T # {}  OBVIOUS
<1>2. PICK x \in T : \A y \in T : x <= y  BY <1>1, NatMin
<1>3. Min(T) = x  BY <1>1, <1>2, MinIs
<1> QED  BY <1>2, <1>3

LEMMA SizeFacts ==
    /\ DSize \in Nat /\ DSize <= MaxPlen /\ MaxPlen \in Nat
    /\ PreAlloc \in Nat /\ DstoreLimits \in Nat
    /\ \E m \in Nat : Stores = 1 .. m /\ PreAlloc <= m /\ DstoreLimits + 1 <= m
                      /\ m = Max({PreAlloc, DstoreLimits + 1})
<1>1. MaxPlen \in Nat /\ MaxDsize \in Nat /\ PreAlloc \in Nat /\ DstoreLimits \in Nat
    BY SAAssumption
<1>2. DSize = IF MaxPlen <= MaxDsize THEN MaxPlen ELSE MaxDsize  BY <1>1, MinTwo DEF DSize
<1>3. DSize \in Nat /\ DSize <= MaxPlen  BY <1>1, <1>2
<1> DEFINE m == Max({PreAlloc, DstoreLimits + 1})
<1>4. m = IF PreAlloc >= DstoreLimits + 1 THEN PreAlloc ELSE DstoreLimits + 1
    <2>1. DstoreLimits + 1 \in Nat  BY <1>1
    <2> QED  BY <1>1, <2>1, MaxTwo
<1>5. Stores = 1 .. m  BY DEF Stores
<1> HIDE DEF m
<1>6. m \in Nat /\ PreAlloc <= m /\ DstoreLimits + 1 <= m  BY <1>1, <1>4
<1> QED  BY <1>1, <1>3, <1>5, <1>6 DEF m

-----------------------------------------------------------------------------
(* Who holds which store. *)

From == {"tcp"} \cup UdpKeys
Owner == From \X Dirs

\* The store of every endpoint, for the connection's session s and the UDP sessions u.
Slots(s, u) ==
    [h \in Owner |->
        IF h[1] = "tcp" THEN (IF s = NoSess THEN NoStore ELSE s.ep[h[2]].dstore)
        ELSE (IF u[h[1]] = NoSess THEN NoStore ELSE u[h[1]][h[2]].dstore)]

Byte == [from : From, dir : Dirs, n : Nat]
DataPool == [free : Seq(Stores), allac : Nat, data : [Stores -> Seq(Byte)]]

\* The bytes are those of endpoint h.
BytesOf(h, bytes) == \A j \in DOMAIN bytes : bytes[j].from = h[1] /\ bytes[j].dir = h[2]

PoolShape(dp) ==
    /\ dp \in DataPool
    /\ dp.allac >= PreAlloc /\ dp.allac \in {0} \cup Stores
    /\ \A i \in Stores : Len(dp.data[i]) <= DSize /\ (i > dp.allac => dp.data[i] = <<>>)
    /\ \A j \in 1 .. Len(dp.free) : dp.free[j] <= dp.allac
    /\ \A j, k \in 1 .. Len(dp.free) : dp.free[j] = dp.free[k] => j = k

\* Every store allocated is in the free list or has one owner, whose bytes it has.
Owned(dp, sl) ==
    /\ PoolShape(dp)
    /\ sl \in [Owner -> Nat]
    /\ \A h \in Owner : sl[h] <= dp.allac
    /\ \A h, g \in Owner : sl[h] = sl[g] /\ sl[h] # NoStore => h = g
    /\ \A h \in Owner, j \in 1 .. Len(dp.free) : dp.free[j] # sl[h]
    /\ \A i \in 1 .. dp.allac : (\E j \in 1 .. Len(dp.free) : dp.free[j] = i) \/ (\E h \in Owner : sl[h] = i)
    /\ \A h \in Owner : sl[h] # NoStore => BytesOf(h, dp.data[sl[h]])

\* What endpoint h has stored.
Content(dp, sl, h) == IF sl[h] = NoStore THEN <<>> ELSE dp.data[sl[h]]

\* Nothing changes for endpoints other than h.
Same(dp, sl, dq, sm, h) ==
    \A g \in Owner : g # h => sm[g] = sl[g] /\ Content(dq, sm, g) = Content(dp, sl, g)

LEMMA OwnedFacts ==
    ASSUME NEW dp, NEW sl, Owned(dp, sl)
    PROVE  /\ dp.free \in Seq(Stores) /\ dp.allac \in Nat /\ dp.data \in [Stores -> Seq(Byte)]
           /\ dp = [free |-> dp.free, allac |-> dp.allac, data |-> dp.data]
           /\ \A h \in Owner : sl[h] \in Nat /\ (sl[h] # NoStore => sl[h] \in Stores)
           /\ \A i \in 1 .. dp.allac : i \in Stores
           /\ 0 \notin Stores /\ Stores \subseteq Nat
<1>1. PICK m \in Nat : Stores = 1 .. m  BY SizeFacts
<1>2. dp \in DataPool /\ dp.allac \in {0} \cup Stores /\ sl \in [Owner -> Nat]
      /\ \A h \in Owner : sl[h] <= dp.allac
    BY DEF Owned, PoolShape
<1>3. dp.free \in Seq(Stores) /\ dp.allac \in Nat /\ dp.data \in [Stores -> Seq(Byte)]
      /\ dp = [free |-> dp.free, allac |-> dp.allac, data |-> dp.data]
    BY <1>2 DEF DataPool
<1>4. dp.allac <= m  BY <1>1, <1>2
<1>5. \A i \in 1 .. dp.allac : i \in Stores  BY <1>1, <1>3, <1>4
<1>6. ASSUME NEW h \in Owner PROVE sl[h] \in Nat /\ (sl[h] # NoStore => sl[h] \in Stores)
    <2>1. sl[h] \in Nat /\ sl[h] <= dp.allac  BY <1>2
    <2> QED  BY <1>3, <1>5, <2>1 DEF NoStore
<1> QED  BY <1>1, <1>3, <1>5, <1>6

LEMMA StoreGetIs ==
    ASSUME NEW dp, NEW sl, Owned(dp, sl), NEW h \in Owner, sl[h] = NoStore
    PROVE  LET got == StoreGet(dp)
               sm == [sl EXCEPT ![h] = got.dst]
           IN  \/ got.dst = NoStore /\ got.dp = dp
               \/ /\ got.dst \in Stores /\ Owned(got.dp, sm)
                  /\ got.dp.data[got.dst] = <<>> /\ Same(dp, sl, got.dp, sm, h)
<1> DEFINE got == StoreGet(dp)
           dst == got.dst
           sm == [sl EXCEPT ![h] = got.dst]
<1>0. PICK m \in Nat : Stores = 1 .. m /\ DstoreLimits + 1 <= m  BY SizeFacts
<1>1. /\ dp.free \in Seq(Stores) /\ dp.allac \in Nat /\ dp.data \in [Stores -> Seq(Byte)]
      /\ dp = [free |-> dp.free, allac |-> dp.allac, data |-> dp.data]
      /\ \A g \in Owner : sl[g] \in Nat /\ (sl[g] # NoStore => sl[g] \in Stores)
      /\ \A i \in 1 .. dp.allac : i \in Stores
      /\ 0 \notin Stores /\ Stores \subseteq Nat
    BY OwnedFacts
<1>2. PoolShape(dp) /\ sl \in [Owner -> Nat]  BY DEF Owned
<1>3. CASE dp.free # <<>>
    <2> DEFINE x == Head(dp.free)
               rest == Tail(dp.free)
    <2>1. x \in Stores /\ rest \in Seq(Stores) /\ Len(rest) = Len(dp.free) - 1 /\ Len(dp.free) \in Nat
          /\ Len(dp.free) >= 1 /\ x = dp.free[1]
          /\ \A j \in 1 .. Len(rest) : rest[j] = dp.free[j + 1] /\ j + 1 \in 1 .. Len(dp.free)
        <3> DEFINE f == dp.free
        <3>1. f \in Seq(Stores) /\ f # <<>>  BY <1>1, <1>3
        <3> HIDE DEF f
        <3>2. Head(f) \in Stores /\ Tail(f) \in Seq(Stores) /\ Len(Tail(f)) = Len(f) - 1  BY <3>1
        <3>3. Len(f) \in Nat /\ Len(f) >= 1 /\ Head(f) = f[1]  BY <3>1
        <3>4. \A j \in 1 .. Len(Tail(f)) : Tail(f)[j] = f[j + 1]  BY <3>1
        <3>5. \A j \in 1 .. Len(Tail(f)) : j + 1 \in 1 .. Len(f)  BY <3>2, <3>3
        <3> QED  BY <3>2, <3>3, <3>4, <3>5 DEF f
    <2>2. got = [dp |-> [dp EXCEPT !.free = rest, !.data[x] = <<>>], dst |-> x]
        BY <1>3 DEF StoreGet
    <2> DEFINE D == [dp.data EXCEPT ![x] = <<>>]
    <2>3. D \in [Stores -> Seq(Byte)] /\ D[x] = <<>> /\ \A i \in Stores : i # x => D[i] = dp.data[i]
        BY <1>1, <2>1
    <2>4. got.dst = x /\ got.dp = [free |-> rest, allac |-> dp.allac, data |-> D]
        <3> DEFINE f == dp.free
                   c == dp.allac
                   E == dp.data
        <3>1. dp = [free |-> f, allac |-> c, data |-> E]  BY <1>1
        <3> HIDE DEF f, c, E, x, rest
        <3>2. [dp EXCEPT !.free = rest, !.data[x] = <<>>]
                = [free |-> rest, allac |-> c, data |-> [E EXCEPT ![x] = <<>>]]
            <4> DEFINE y == [dp EXCEPT !.free = rest]
            <4>1. y = [free |-> rest, allac |-> c, data |-> E]  BY <3>1
            <4>2. [dp EXCEPT !.free = rest, !.data[x] = <<>>] = [y EXCEPT !.data[x] = <<>>]
                OBVIOUS
            <4> HIDE DEF y
            <4>3. [y EXCEPT !.data[x] = <<>>] = [y EXCEPT !.data = [E EXCEPT ![x] = <<>>]]
                BY <4>1
            <4>4. [y EXCEPT !.data = [E EXCEPT ![x] = <<>>]]
                    = [free |-> rest, allac |-> c, data |-> [E EXCEPT ![x] = <<>>]]
                BY <4>1
            <4> QED  BY <4>2, <4>3, <4>4
        <3>3. got.dst = x /\ got.dp = [free |-> rest, allac |-> c, data |-> [E EXCEPT ![x] = <<>>]]
            BY <2>2, <3>2
        <3> QED  BY <3>3 DEF c, E
    <2> HIDE DEF x, rest, D, got
    <2> DEFINE dq == got.dp
    <2>5. dq.free = rest /\ dq.allac = dp.allac /\ dq.data = D /\ dq \in DataPool
        BY <1>1, <2>1, <2>3, <2>4 DEF DataPool
    <2> HIDE DEF dq
    <2>6. x <= dp.allac /\ \A g \in Owner : sl[g] # x
        <3>1. 1 \in 1 .. Len(dp.free) /\ x = dp.free[1]  BY <2>1
        <3>2. \A j \in 1 .. Len(dp.free) : dp.free[j] <= dp.allac  BY <1>2 DEF PoolShape
        <3>3. \A g \in Owner, j \in 1 .. Len(dp.free) : dp.free[j] # sl[g]  BY DEF Owned
        <3> QED  BY <3>1, <3>2, <3>3
    <2>7. sm \in [Owner -> Nat] /\ sm[h] = x /\ \A g \in Owner : g # h => sm[g] = sl[g]
        BY <1>1, <1>2, <2>1, <2>4
    <2> HIDE DEF sm
    <2>8. \A j \in 1 .. Len(rest) : rest[j] <= dp.allac /\ rest[j] # x /\ \A g \in Owner : rest[j] # sl[g]
        <3> SUFFICES ASSUME NEW j \in 1 .. Len(rest)
                     PROVE  rest[j] <= dp.allac /\ rest[j] # x /\ \A g \in Owner : rest[j] # sl[g]
            OBVIOUS
        <3>1. rest[j] = dp.free[j + 1] /\ j + 1 \in 1 .. Len(dp.free) /\ j + 1 # 1 /\ 1 \in 1 .. Len(dp.free)
            BY <2>1
        <3>2. dp.free[j + 1] # dp.free[1]  BY <3>1 DEF Owned, PoolShape
        <3> QED  BY <2>1, <3>1, <3>2 DEF Owned, PoolShape
    <2>9. \A j, k \in 1 .. Len(rest) : rest[j] = rest[k] => j = k
        <3> SUFFICES ASSUME NEW j \in 1 .. Len(rest), NEW k \in 1 .. Len(rest), rest[j] = rest[k]
                     PROVE  j = k
            OBVIOUS
        <3>1. dp.free[j + 1] = dp.free[k + 1] /\ j + 1 \in 1 .. Len(dp.free) /\ k + 1 \in 1 .. Len(dp.free)
            BY <2>1
        <3>2. j + 1 = k + 1  BY <3>1, <1>2 DEF PoolShape
        <3> QED  BY <3>2
    <2>10. \A i \in Stores : Len(D[i]) <= DSize /\ (i > dp.allac => D[i] = <<>>)
        <3> SUFFICES ASSUME NEW i \in Stores
                     PROVE  Len(D[i]) <= DSize /\ (i > dp.allac => D[i] = <<>>)
            OBVIOUS
        <3>1. CASE i = x  BY <2>3, <3>1, SizeFacts
        <3>2. CASE i # x  BY <1>2, <2>3, <3>2 DEF PoolShape
        <3> QED  BY <3>1, <3>2
    <2>11. PoolShape(dq)
        BY <1>2, <2>5, <2>8, <2>9, <2>10 DEF PoolShape
    <2>12. \A g \in Owner : sm[g] <= dq.allac
        BY <2>5, <2>6, <2>7 DEF Owned
    <2>13. \A g, k \in Owner : sm[g] = sm[k] /\ sm[g] # NoStore => g = k
        BY <2>6, <2>7 DEF Owned
    <2>14. \A g \in Owner, j \in 1 .. Len(dq.free) : dq.free[j] # sm[g]
        BY <2>5, <2>7, <2>8
    <2>15. ASSUME NEW i \in 1 .. dq.allac
           PROVE  (\E j \in 1 .. Len(dq.free) : dq.free[j] = i) \/ (\E g \in Owner : sm[g] = i)
        <3>1. CASE i = x  BY <2>7, <3>1
        <3>2. CASE i # x /\ \E g \in Owner : sl[g] = i
            <4>1. PICK g \in Owner : sl[g] = i  BY <3>2
            <4>2. i # NoStore  BY DEF NoStore
            <4> QED  BY <2>7, <4>1, <4>2
        <3>3. CASE i # x /\ \E j \in 1 .. Len(dp.free) : dp.free[j] = i
            <4>1. PICK j \in 1 .. Len(dp.free) : dp.free[j] = i  BY <3>3
            <4>2. j # 1  BY <2>1, <3>3, <4>1
            <4>3. j - 1 \in 1 .. Len(rest) /\ (j - 1) + 1 = j  BY <2>1, <4>2
            <4>4. rest[j - 1] = i  BY <2>1, <4>1, <4>3
            <4> QED  BY <2>5, <4>3, <4>4
        <3> QED  BY <2>5, <3>1, <3>2, <3>3 DEF Owned
    <2>16. ASSUME NEW g \in Owner, sm[g] # NoStore PROVE BytesOf(g, dq.data[sm[g]])
        <3>1. CASE g = h  BY <2>3, <2>5, <2>7, <3>1 DEF BytesOf
        <3>2. CASE g # h
            <4>1. sm[g] = sl[g] /\ sl[g] # x /\ sl[g] \in Stores  BY <1>1, <2>6, <2>7, <2>16, <3>2
            <4>2. dq.data[sm[g]] = dp.data[sl[g]]  BY <2>3, <2>5, <4>1
            <4>3. BytesOf(g, dp.data[sl[g]])  BY <2>16, <4>1 DEF Owned
            <4> QED  BY <4>2, <4>3
        <3> QED  BY <3>1, <3>2
    <2>17. Owned(dq, sm)  BY <2>7, <2>11, <2>12, <2>13, <2>14, <2>15, <2>16 DEF Owned
    <2>18. Same(dp, sl, dq, sm, h)
        <3> SUFFICES ASSUME NEW g \in Owner, g # h
                     PROVE  sm[g] = sl[g] /\ Content(dq, sm, g) = Content(dp, sl, g)
            BY DEF Same
        <3>1. sm[g] = sl[g] /\ sl[g] # x  BY <2>6, <2>7
        <3>2. sl[g] # NoStore => dq.data[sl[g]] = dp.data[sl[g]]  BY <1>1, <2>3, <2>5, <3>1
        <3> QED  BY <3>1, <3>2 DEF Content
    <2> QED  BY <2>1, <2>3, <2>4, <2>5, <2>17, <2>18 DEF dq, sm, got
<1>4. CASE dp.free = <<>> /\ dp.allac <= DstoreLimits
    <2> DEFINE x == dp.allac + 1
    <2>1. got = [dp |-> [dp EXCEPT !.allac = @ + 1], dst |-> x]  BY <1>4 DEF StoreGet
    <2>2. got.dst = x /\ got.dp = [free |-> <<>>, allac |-> x, data |-> dp.data]
        BY <1>1, <1>4, <2>1
    <2>3. x \in Nat /\ x \in Stores /\ x # NoStore /\ x > dp.allac /\ PreAlloc <= x
        BY <1>0, <1>1, <1>2, <1>4, SizeFacts DEF PoolShape, NoStore
    <2> HIDE DEF got
    <2> DEFINE dq == got.dp
    <2>4. dq.free = <<>> /\ dq.allac = x /\ dq.data = dp.data /\ dq \in DataPool
        BY <1>1, <2>2, <2>3 DEF DataPool
    <2> HIDE DEF dq
    <2>5. dp.data[x] = <<>>  BY <1>2, <2>3 DEF PoolShape
    <2>6. \A g \in Owner : sl[g] <= dp.allac /\ sl[g] \in Nat  BY <1>1 DEF Owned
    <2>7. sm \in [Owner -> Nat] /\ sm[h] = x /\ \A g \in Owner : g # h => sm[g] = sl[g]
        BY <1>2, <2>2, <2>3
    <2>8. \A g \in Owner : sl[g] # x /\ sl[g] <= x  BY <1>1, <2>6
    <2> HIDE DEF sm
    <2>9. PoolShape(dq)
        <3>1. \A i \in Stores : Len(dq.data[i]) <= DSize /\ (i > dq.allac => dq.data[i] = <<>>)
            <4> SUFFICES ASSUME NEW i \in Stores
                         PROVE  Len(dp.data[i]) <= DSize /\ (i > x => dp.data[i] = <<>>)
                BY <2>4
            <4>1. i > x => i > dp.allac  BY <1>1
            <4> QED  BY <1>2, <4>1 DEF PoolShape
        <3>2. Len(dq.free) = 0  BY <2>4
        <3> QED  BY <2>3, <2>4, <3>1, <3>2 DEF PoolShape
    <2> HIDE DEF x
    <2>10. \A g \in Owner : sm[g] <= dq.allac  BY <2>3, <2>4, <2>7, <2>8
    <2>11. \A g, k \in Owner : sm[g] = sm[k] /\ sm[g] # NoStore => g = k
        BY <2>7, <2>8 DEF Owned
    <2>12. Len(dq.free) = 0  BY <2>4
    <2>13. ASSUME NEW i \in 1 .. dq.allac PROVE \E g \in Owner : sm[g] = i
        <3>1. CASE i = x  BY <2>7, <3>1
        <3>2. CASE i # x
            <4>1. i \in 1 .. dp.allac  BY <1>1, <2>4, <3>2 DEF x
            <4>2. Len(dp.free) = 0  BY <1>4
            <4>3. PICK g \in Owner : sl[g] = i  BY <4>1, <4>2 DEF Owned
            <4>4. i # NoStore  BY <4>1 DEF NoStore
            <4> QED  BY <2>7, <4>3, <4>4
        <3> QED  BY <3>1, <3>2
    <2>14. ASSUME NEW g \in Owner, sm[g] # NoStore PROVE BytesOf(g, dq.data[sm[g]])
        <3>1. CASE g = h  BY <2>4, <2>5, <2>7, <3>1 DEF BytesOf
        <3>2. CASE g # h  BY <2>4, <2>7, <2>14, <3>2 DEF Owned
        <3> QED  BY <3>1, <3>2
    <2>15. Owned(dq, sm)  BY <2>7, <2>9, <2>10, <2>11, <2>12, <2>13, <2>14 DEF Owned
    <2>16. Same(dp, sl, dq, sm, h)  BY <2>4, <2>7 DEF Same, Content
    <2> QED  BY <2>2, <2>3, <2>4, <2>5, <2>15, <2>16 DEF dq, sm, got
<1>5. CASE dp.free = <<>> /\ ~(dp.allac <= DstoreLimits)
    <2>1. got = [dp |-> dp, dst |-> NoStore]  BY <1>5 DEF StoreGet
    <2> QED  BY <2>1
<1> QED  BY <1>3, <1>4, <1>5

\* As much of the bytes as there is room for is added to what is stored.
Written(c, bytes, c2) ==
    \E k \in 0 .. Len(bytes) :
        /\ Len(c) + k <= DSize /\ (k = Len(bytes) \/ Len(c) + k = DSize)
        /\ c2 = c \o SubSeq(bytes, 1, k)

LEMMA StoreWriteIs ==
    ASSUME NEW dp, NEW sl, Owned(dp, sl), NEW h \in Owner, NEW dst \in Stores, sl[h] = dst,
           NEW bytes \in Seq(Byte), BytesOf(h, bytes)
    PROVE  LET dq == StoreWrite(dp, dst, bytes, MaxPlen - DstoreSize(dp, dst))
           IN  /\ Owned(dq, sl) /\ Same(dp, sl, dq, sl, h)
               /\ Written(dp.data[dst], bytes, dq.data[dst])
<1> DEFINE c == dp.data[dst]
           n == MaxPlen - DstoreSize(dp, dst)
           k == Min({n, Len(bytes), DSize - Len(c)})
           dq == StoreWrite(dp, dst, bytes, n)
           c2 == c \o SubSeq(bytes, 1, k)
           D == [dp.data EXCEPT ![dst] = c2]
<1>1. /\ dp.free \in Seq(Stores) /\ dp.allac \in Nat /\ dp.data \in [Stores -> Seq(Byte)]
      /\ dp = [free |-> dp.free, allac |-> dp.allac, data |-> dp.data]
      /\ \A g \in Owner : sl[g] \in Nat /\ (sl[g] # NoStore => sl[g] \in Stores)
      /\ 0 \notin Stores /\ Stores \subseteq Nat
    BY OwnedFacts
<1>2. PoolShape(dp) /\ dst # NoStore /\ dst <= dp.allac  BY <1>1 DEF Owned, NoStore
<1>3. c \in Seq(Byte) /\ Len(c) \in Nat /\ Len(c) <= DSize /\ DSize \in Nat /\ DSize <= MaxPlen
      /\ MaxPlen \in Nat /\ Len(bytes) \in Nat
    <2>1. c \in Seq(Byte)  BY <1>1
    <2>2. Len(c) <= DSize  BY <1>2 DEF PoolShape
    <2>3. Len(c) \in Nat /\ Len(bytes) \in Nat  BY <2>1
    <2> QED  BY <2>1, <2>2, <2>3, SizeFacts
<1>4. n = MaxPlen - Len(c)  BY <1>2 DEF DstoreSize
<1> HIDE DEF n
<1>5. n \in Nat /\ DSize - Len(c) \in Nat  BY <1>3, <1>4
<1>6. k \in Nat /\ k <= n /\ k <= Len(bytes) /\ k <= DSize - Len(c)
      /\ (k = n \/ k = Len(bytes) \/ k = DSize - Len(c))
    <2> DEFINE l == Len(bytes)
               m == DSize - Len(c)
    <2>1. n \in Nat /\ l \in Nat /\ m \in Nat  BY <1>3, <1>5
    <2> HIDE DEF l, m
    <2>2. LET i == Min({n, l, m}) IN i \in Nat /\ i <= n /\ i <= l /\ i <= m /\ (i = n \/ i = l \/ i = m)
        BY <2>1, MinThree
    <2> QED  BY <2>2 DEF l, m
<1>7. dq = [dp EXCEPT !.data[dst] = c \o SubSeq(bytes, 1, k)]  BY DEF StoreWrite
<1> HIDE DEF k, c
<1>8. /\ Len(c) + k <= DSize /\ (k = Len(bytes) \/ Len(c) + k = DSize) /\ k \in 0 .. Len(bytes)
    BY <1>3, <1>4, <1>6
<1>9. SubSeq(bytes, 1, k) \in Seq(Byte) /\ Len(SubSeq(bytes, 1, k)) = k
      /\ \A j \in 1 .. k : SubSeq(bytes, 1, k)[j] = bytes[j]
    BY <1>8
<1> DEFINE x == SubSeq(bytes, 1, k)
<1> HIDE DEF x
<1>10. c2 = c \o x /\ c2 \in Seq(Byte) /\ Len(c2) = Len(c) + k
       /\ \A j \in 1 .. Len(c2) : IF j <= Len(c) THEN c2[j] = c[j] ELSE c2[j] = bytes[j - Len(c)]
                                                                /\ j - Len(c) \in 1 .. Len(bytes)
    <2>1. c2 = c \o x  BY DEF x
    <2>2. x \in Seq(Byte) /\ Len(x) = k /\ \A j \in 1 .. k : x[j] = bytes[j]  BY <1>9 DEF x
    <2> HIDE DEF c2
    <2>3. c2 \in Seq(Byte) /\ Len(c2) = Len(c) + k  BY <1>3, <2>1, <2>2, ConcatProperties
    <2>4. ASSUME NEW j \in 1 .. Len(c2)
          PROVE IF j <= Len(c) THEN c2[j] = c[j] ELSE c2[j] = bytes[j - Len(c)] /\ j - Len(c) \in 1 .. Len(bytes)
        <3>1. CASE j <= Len(c)  BY <1>3, <2>1, <2>2, <3>1
        <3>2. CASE ~(j <= Len(c))
            <4>1. j - Len(c) \in 1 .. k /\ j - Len(c) \in 1 .. Len(bytes)  BY <1>3, <1>8, <2>3, <3>2
            <4>2. c2[j] = x[j - Len(c)]  BY <1>3, <2>1, <2>2, <3>2, <4>1
            <4> QED  BY <2>2, <3>2, <4>1, <4>2
        <3> QED  BY <3>1, <3>2
    <2> QED  BY <2>1, <2>3, <2>4
<1>11. D \in [Stores -> Seq(Byte)] /\ D[dst] = c2 /\ \A i \in Stores : i # dst => D[i] = dp.data[i]
    BY <1>1, <1>10
<1>12. dq = [free |-> dp.free, allac |-> dp.allac, data |-> D]
    <2> DEFINE f == dp.free
               a == dp.allac
               E == dp.data
    <2>1. dp = [free |-> f, allac |-> a, data |-> E]  BY <1>1
    <2> HIDE DEF f, a, E, c2, dq
    <2>2. dq = [dp EXCEPT !.data[dst] = c2]  BY <1>7 DEF c2
    <2>3. [dp EXCEPT !.data[dst] = c2] = [dp EXCEPT !.data = [E EXCEPT ![dst] = c2]]  BY <2>1
    <2>4. [dp EXCEPT !.data = [E EXCEPT ![dst] = c2]]
            = [free |-> f, allac |-> a, data |-> [E EXCEPT ![dst] = c2]]
        BY <2>1
    <2> QED  BY <2>2, <2>3, <2>4 DEF f, a, E, c2
<1> HIDE DEF D, dq
<1>13. dq.free = dp.free /\ dq.allac = dp.allac /\ dq.data = D /\ dq \in DataPool
    BY <1>1, <1>11, <1>12 DEF DataPool
<1>14. \A i \in Stores : Len(D[i]) <= DSize /\ (i > dp.allac => D[i] = <<>>)
    <2> SUFFICES ASSUME NEW i \in Stores
                 PROVE  Len(D[i]) <= DSize /\ (i > dp.allac => D[i] = <<>>)
        OBVIOUS
    <2>1. CASE i = dst
        <3>1. ~(i > dp.allac)  BY <1>1, <1>2, <2>1
        <3> QED  BY <1>8, <1>10, <1>11, <2>1, <3>1
    <2>2. CASE i # dst  BY <1>2, <1>11, <2>2 DEF PoolShape
    <2> QED  BY <2>1, <2>2
<1>15. PoolShape(dq)  BY <1>2, <1>13, <1>14 DEF PoolShape
<1>16. BytesOf(h, c2)
    <2>1. BytesOf(h, c)  BY <1>2 DEF Owned, c
    <2> SUFFICES ASSUME NEW j \in DOMAIN c2 PROVE c2[j].from = h[1] /\ c2[j].dir = h[2]
        BY DEF BytesOf
    <2> HIDE DEF c2
    <2>2. j \in 1 .. Len(c2)  BY <1>10
    <2>3. CASE j <= Len(c)
        <3>1. j \in DOMAIN c  BY <1>3, <2>2, <2>3
        <3> QED  BY <1>10, <2>1, <2>2, <2>3, <3>1 DEF BytesOf
    <2>4. CASE ~(j <= Len(c))
        <3>1. j - Len(c) \in DOMAIN bytes /\ c2[j] = bytes[j - Len(c)]  BY <1>10, <2>2, <2>4
        <3> QED  BY <3>1 DEF BytesOf
    <2> QED  BY <2>3, <2>4
<1>17. \A g \in Owner : g # h => sl[g] # dst  BY <1>2 DEF Owned
<1>18. \A g \in Owner : sl[g] # NoStore => BytesOf(g, dq.data[sl[g]])
    <2> SUFFICES ASSUME NEW g \in Owner, sl[g] # NoStore PROVE BytesOf(g, dq.data[sl[g]])
        OBVIOUS
    <2>1. CASE g = h  BY <1>11, <1>13, <1>16, <2>1
    <2>2. CASE g # h  BY <1>1, <1>11, <1>13, <1>17, <2>2 DEF Owned
    <2> QED  BY <2>1, <2>2
<1>19. Owned(dq, sl)  BY <1>13, <1>15, <1>18 DEF Owned
<1>20. Same(dp, sl, dq, sl, h)
    <2> SUFFICES ASSUME NEW g \in Owner, g # h PROVE Content(dq, sl, g) = Content(dp, sl, g)
        BY DEF Same
    <2>1. sl[g] # NoStore => dq.data[sl[g]] = dp.data[sl[g]]  BY <1>1, <1>11, <1>13, <1>17
    <2> QED  BY <2>1 DEF Content
<1>21. Written(c, bytes, c2)  BY <1>8 DEF Written
<1> QED  BY <1>11, <1>13, <1>19, <1>20, <1>21 DEF dq, n, c

\* What _write_session_payload and _udp_data_write do for endpoint h.
LEMMA WritePayloadIs ==
    ASSUME NEW dp, NEW sl, Owned(dp, sl), NEW h \in Owner, NEW ep, ep.dstore = sl[h],
           NEW bytes \in Seq(Byte), BytesOf(h, bytes)
    PROVE  LET w == WritePayload(dp, ep, bytes)
           IN  \/ sl[h] = NoStore /\ w.dp = dp /\ w.ep = [ep EXCEPT !.error = TRUE]
               \/ \E dst \in Stores :
                    LET sm == [sl EXCEPT ![h] = dst]
                    IN  /\ w.ep = [ep EXCEPT !.dstore = dst]
                        /\ Owned(w.dp, sm) /\ Same(dp, sl, w.dp, sm, h)
                        /\ Written(Content(dp, sl, h), bytes, w.dp.data[dst])
<1> DEFINE got == IF ep.dstore = NoStore THEN StoreGet(dp) ELSE [dp |-> dp, dst |-> ep.dstore]
           w == WritePayload(dp, ep, bytes)
           dst == got.dst
           sm == [sl EXCEPT ![h] = got.dst]
           dq == StoreWrite(got.dp, got.dst, bytes, MaxPlen - DstoreSize(got.dp, got.dst))
<1>1. w = IF got.dst = NoStore THEN [dp |-> dp, ep |-> [ep EXCEPT !.error = TRUE]]
          ELSE [dp |-> dq, ep |-> [ep EXCEPT !.dstore = got.dst]]
    BY DEF WritePayload
<1>2. sl \in [Owner -> Nat] /\ 0 \notin Stores /\ (sl[h] # NoStore => sl[h] \in Stores)
    BY OwnedFacts DEF Owned
<1>3. \/ sl[h] = NoStore /\ got.dst = NoStore
      \/ /\ got.dst \in Stores /\ Owned(got.dp, sm) /\ got.dp.data[got.dst] = Content(dp, sl, h)
         /\ Same(dp, sl, got.dp, sm, h)
    <2>1. CASE sl[h] = NoStore
        <3>1. got = StoreGet(dp)  BY <2>1
        <3>2. \/ got.dst = NoStore
              \/ /\ got.dst \in Stores /\ Owned(got.dp, sm)
                 /\ got.dp.data[got.dst] = <<>> /\ Same(dp, sl, got.dp, sm, h)
            BY <2>1, <3>1, StoreGetIs
        <3>3. Content(dp, sl, h) = <<>>  BY <2>1 DEF Content
        <3> QED  BY <2>1, <3>2, <3>3
    <2>2. CASE sl[h] # NoStore
        <3>1. got.dp = dp /\ got.dst = sl[h]  BY <2>2
        <3>2. sm = sl  BY <1>2, <3>1
        <3>3. Content(dp, sl, h) = dp.data[sl[h]]  BY <2>2 DEF Content
        <3>4. Same(dp, sl, dp, sl, h)  BY DEF Same
        <3> QED  BY <1>2, <2>2, <3>1, <3>2, <3>3, <3>4
    <2> QED  BY <2>1, <2>2
<1> HIDE DEF got
<1>4. CASE sl[h] = NoStore /\ got.dst = NoStore
    BY <1>1, <1>4
<1>5. CASE /\ got.dst \in Stores /\ Owned(got.dp, sm) /\ got.dp.data[got.dst] = Content(dp, sl, h)
           /\ Same(dp, sl, got.dp, sm, h)
    <2>1. sm[h] = got.dst /\ got.dst # NoStore  BY <1>2, <1>5 DEF NoStore
    <2>2. /\ Owned(dq, sm) /\ Same(got.dp, sm, dq, sm, h)
          /\ Written(got.dp.data[got.dst], bytes, dq.data[got.dst])
        BY <1>5, <2>1, StoreWriteIs
    <2>3. w.dp = dq /\ w.ep = [ep EXCEPT !.dstore = got.dst]  BY <1>1, <2>1
    <2> HIDE DEF dq, w, sm
    <2>4. Same(dp, sl, dq, sm, h)  BY <1>5, <2>2 DEF Same
    <2>5. Written(Content(dp, sl, h), bytes, dq.data[got.dst])  BY <1>5, <2>2
    <2> QED  BY <1>5, <2>2, <2>3, <2>4, <2>5 DEF w, sm
<1> QED  BY <1>3, <1>4, <1>5

\* One store given back, if there is one.
Give(dp, dst) ==
    [free |-> dp.free \o Used(dst), allac |-> dp.allac,
     data |-> [i \in Stores |-> IF i = dst THEN <<>> ELSE dp.data[i]]]

LEMMA GiveIs ==
    ASSUME NEW dp, NEW sl, Owned(dp, sl), NEW h \in Owner
    PROVE  LET dq == Give(dp, sl[h])
               sm == [sl EXCEPT ![h] = NoStore]
           IN  Owned(dq, sm) /\ Same(dp, sl, dq, sm, h) /\ sm[h] = NoStore
<1> DEFINE x == sl[h]
           dq == Give(dp, x)
           sm == [sl EXCEPT ![h] = NoStore]
           D == [i \in Stores |-> IF i = x THEN <<>> ELSE dp.data[i]]
<1>1. /\ dp.free \in Seq(Stores) /\ dp.allac \in Nat /\ dp.data \in [Stores -> Seq(Byte)]
      /\ \A g \in Owner : sl[g] \in Nat /\ (sl[g] # NoStore => sl[g] \in Stores)
      /\ 0 \notin Stores /\ Stores \subseteq Nat
    BY OwnedFacts
<1>2. PoolShape(dp) /\ sl \in [Owner -> Nat] /\ x <= dp.allac  BY DEF Owned
<1>3. D \in [Stores -> Seq(Byte)] /\ \A i \in Stores : D[i] = IF i = x THEN <<>> ELSE dp.data[i]
    <2>1. <<>> \in Seq(Byte)  BY EmptySeq
    <2> QED  BY <1>1, <2>1
<1>4. sm \in [Owner -> Nat] /\ sm[h] = NoStore /\ \A g \in Owner : g # h => sm[g] = sl[g]
    BY <1>2 DEF NoStore
<1>5. dq.free = dp.free \o Used(x) /\ dq.allac = dp.allac /\ dq.data = D  BY DEF Give
<1>6. \A g \in Owner : g # h => sl[g] # x \/ x = NoStore  BY DEF Owned
<1> HIDE DEF sm, D
<1>7. Used(x) \in Seq(Stores)
    <2>1. CASE x = NoStore  BY <2>1, EmptySeq DEF Used
    <2>2. CASE x # NoStore
        <3>1. x \in Stores /\ Used(x) = <<x>>  BY <1>1, <2>2 DEF Used
        <3> HIDE DEF x
        <3> QED  BY <3>1
    <2> QED  BY <2>1, <2>2
<1>8. dq.free \in Seq(Stores)  BY <1>1, <1>5, <1>7, ConcatProperties
<1>9. dq = [free |-> dq.free, allac |-> dq.allac, data |-> dq.data]  BY DEF Give
<1>10. dq \in DataPool  BY <1>1, <1>3, <1>5, <1>8, <1>9 DEF DataPool
<1> HIDE DEF dq
<1> DEFINE f == dp.free
           F == dq.free
<1>11. /\ Len(f) \in Nat /\ Len(F) \in Nat
       /\ \A j \in 1 .. Len(f) : j \in 1 .. Len(F) /\ F[j] = f[j]
       /\ \A j \in 1 .. Len(F) : (j \in 1 .. Len(f) /\ F[j] = f[j])
                                 \/ (x # NoStore /\ j = Len(f) + 1 /\ F[j] = x)
       /\ x # NoStore => Len(f) + 1 \in 1 .. Len(F) /\ F[Len(f) + 1] = x
    <2>1. CASE x = NoStore
        <3>1. Used(x) = <<>>  BY <2>1 DEF Used
        <3>2. F = f  BY <1>1, <1>5, <3>1, ConcatEmptySeq
        <3>3. Len(f) \in Nat  BY <1>1
        <3> QED  BY <2>1, <3>2, <3>3
    <2>2. CASE x # NoStore
        <3>1. Used(x) = <<x>>  BY <2>2 DEF Used
        <3>2. Len(Used(x)) = 1 /\ Used(x)[1] = x  BY <3>1
        <3>3. Len(F) = Len(f) + 1 /\ Len(f) \in Nat
              /\ \A j \in 1 .. Len(f) + 1 : F[j] = IF j <= Len(f) THEN f[j] ELSE Used(x)[j - Len(f)]
            <4> DEFINE U == Used(x)
            <4>1. f \in Seq(Stores) /\ U \in Seq(Stores) /\ F = f \o U /\ Len(U) = 1
                BY <1>1, <1>5, <1>7, <3>2
            <4> HIDE DEF U, F, f
            <4>2. Len(f \o U) = Len(f) + Len(U)
                  /\ \A j \in 1 .. Len(f) + Len(U) : (f \o U)[j] = IF j <= Len(f) THEN f[j] ELSE U[j - Len(f)]
                BY <4>1, ConcatProperties, Zenon
            <4>3. Len(f) \in Nat  BY <4>1
            <4> QED  BY <4>1, <4>2, <4>3 DEF U
        <3> HIDE DEF F, f, x
        <3>4. Len(f) + 1 \in 1 .. Len(F) /\ F[Len(f) + 1] = x
            <4>1. Len(f) + 1 \in 1 .. Len(f) + 1 /\ ~(Len(f) + 1 <= Len(f)) /\ Len(f) + 1 - Len(f) = 1
                BY <3>3
            <4>2. (Len(f) + 1) - Len(f) = 1  BY <3>3
            <4> QED  BY <3>2, <3>3, <4>1, <4>2
        <3>5. \A j \in 1 .. Len(f) : j \in 1 .. Len(F) /\ F[j] = f[j]  BY <3>3
        <3>6. \A j \in 1 .. Len(F) : j \in 1 .. Len(f) \/ j = Len(f) + 1  BY <3>3
        <3> QED  BY <2>2, <3>3, <3>4, <3>5, <3>6
    <2> QED  BY <2>1, <2>2
<1>12. /\ \A j \in 1 .. Len(f) : f[j] <= dp.allac /\ \A g \in Owner : f[j] # sl[g]
       /\ \A j, k \in 1 .. Len(f) : f[j] = f[k] => j = k
    BY DEF Owned, PoolShape
<1> HIDE DEF f, F
<1>13. \A j \in 1 .. Len(F) : F[j] <= dq.allac  BY <1>2, <1>5, <1>11, <1>12
<1>14. \A j, k \in 1 .. Len(F) : F[j] = F[k] => j = k  BY <1>11, <1>12
<1>15. \A i \in Stores : Len(D[i]) <= DSize /\ (i > dq.allac => D[i] = <<>>)
    <2> SUFFICES ASSUME NEW i \in Stores
                 PROVE  Len(D[i]) <= DSize /\ (i > dq.allac => D[i] = <<>>)
        OBVIOUS
    <2>1. CASE i = x
        <3>1. D[i] = <<>> /\ Len(<<>>) = 0  BY <1>3, <2>1
        <3> QED  BY <3>1, SizeFacts
    <2>2. CASE i # x  BY <1>2, <1>3, <1>5, <2>2 DEF PoolShape
    <2> QED  BY <2>1, <2>2
<1>16. PoolShape(dq)
    <2>1. dq.allac >= PreAlloc /\ dq.allac \in {0} \cup Stores  BY <1>2, <1>5 DEF PoolShape
    <2> QED  BY <1>5, <1>10, <1>13, <1>14, <1>15, <2>1 DEF PoolShape, F
<1>17. \A g \in Owner : sm[g] <= dq.allac  BY <1>1, <1>4, <1>5 DEF Owned, NoStore
<1>18. \A g, k \in Owner : sm[g] = sm[k] /\ sm[g] # NoStore => g = k  BY <1>4 DEF Owned
<1>19. \A g \in Owner, j \in 1 .. Len(F) : F[j] # sm[g]
    <2> SUFFICES ASSUME NEW g \in Owner, NEW j \in 1 .. Len(F) PROVE F[j] # sm[g]
        OBVIOUS
    <2>0. F[j] \in Stores  BY <1>8 DEF F
    <2>1. F[j] # NoStore  BY <1>1, <2>0 DEF NoStore
    <2>2. CASE g = h  BY <1>4, <2>1, <2>2
    <2>3. CASE g # h  BY <1>4, <1>6, <1>11, <1>12, <2>1, <2>3
    <2> QED  BY <2>2, <2>3
<1>20. \A i \in 1 .. dq.allac : (\E j \in 1 .. Len(F) : F[j] = i) \/ (\E g \in Owner : sm[g] = i)
    <2> SUFFICES ASSUME NEW i \in 1 .. dq.allac
                 PROVE  (\E j \in 1 .. Len(F) : F[j] = i) \/ (\E g \in Owner : sm[g] = i)
        OBVIOUS
    <2>1. i # NoStore  BY DEF NoStore
    <2>2. CASE \E j \in 1 .. Len(f) : f[j] = i  BY <1>11, <2>2
    <2>3. CASE \E g \in Owner : sl[g] = i
        <3>1. PICK g \in Owner : sl[g] = i  BY <2>3
        <3>2. CASE g = h  BY <1>11, <2>1, <3>1, <3>2
        <3>3. CASE g # h  BY <1>4, <3>1, <3>3
        <3> QED  BY <3>2, <3>3
    <2>4. (\E j \in 1 .. Len(f) : f[j] = i) \/ (\E g \in Owner : sl[g] = i)
        BY <1>5 DEF Owned, f
    <2> QED  BY <2>2, <2>3, <2>4
<1>21. \A g \in Owner : g # h /\ sl[g] # NoStore => dq.data[sl[g]] = dp.data[sl[g]]
    BY <1>1, <1>3, <1>5, <1>6
<1>22. \A g \in Owner : sm[g] # NoStore => BytesOf(g, dq.data[sm[g]])
    <2> SUFFICES ASSUME NEW g \in Owner, sm[g] # NoStore PROVE BytesOf(g, dq.data[sm[g]])
        OBVIOUS
    <2>1. g # h /\ sm[g] = sl[g]  BY <1>4
    <2> QED  BY <1>21, <2>1 DEF Owned
<1>23. Owned(dq, sm)  BY <1>4, <1>16, <1>17, <1>18, <1>19, <1>20, <1>22 DEF Owned, F
<1>24. Same(dp, sl, dq, sm, h)  BY <1>4, <1>21 DEF Same, Content
<1> QED  BY <1>4, <1>23, <1>24 DEF dq, sm

\* Only endpoints a and b lose their stores.
Freed(dp, sl, dq, a, b) ==
    \E sm : /\ Owned(dq, sm) /\ sm[a] = NoStore /\ sm[b] = NoStore
            /\ \A g \in Owner : g # a /\ g # b =>
                  sm[g] = sl[g] /\ Content(dq, sm, g) = Content(dp, sl, g)

\* The two stores of a session are given back.
LEMMA DstoreFreeIs ==
    ASSUME NEW dp, NEW sl, Owned(dp, sl), NEW a \in Owner, NEW b \in Owner, a # b, NEW ep,
           ep["req"].dstore = sl[a], ep["res"].dstore = sl[b]
    PROVE  Freed(dp, sl, DstoreFree(dp, ep), a, b)
<1> DEFINE x == sl[a]
           y == sl[b]
           d1 == Give(dp, x)
           s1 == [sl EXCEPT ![a] = NoStore]
           d2 == Give(d1, s1[b])
           s2 == [s1 EXCEPT ![b] = NoStore]
           dq == DstoreFree(dp, ep)
<1>1. Owned(d1, s1) /\ Same(dp, sl, d1, s1, a) /\ s1[a] = NoStore  BY GiveIs
<1>2. Owned(d2, s2) /\ Same(d1, s1, d2, s2, b) /\ s2[b] = NoStore  BY <1>1, GiveIs
<1>3. s1[b] = y  BY <1>1 DEF Same
<1>4. dp = [free |-> dp.free, allac |-> dp.allac, data |-> dp.data] /\ dp.data \in [Stores -> Seq(Byte)]
    BY OwnedFacts
<1>5. dq = [dp EXCEPT !.free = dp.free \o Used(x) \o Used(y),
                      !.data = [i \in Stores |-> IF i \in {x, y} THEN <<>> ELSE dp.data[i]]]
    BY DEF DstoreFree
<1>6. dq = [free |-> dp.free \o Used(x) \o Used(y), allac |-> dp.allac,
            data |-> [i \in Stores |-> IF i \in {x, y} THEN <<>> ELSE dp.data[i]]]
    <2> DEFINE f == dp.free
               c == dp.allac
               E == dp.data
               f2 == f \o Used(x) \o Used(y)
               E2 == [i \in Stores |-> IF i \in {x, y} THEN <<>> ELSE E[i]]
    <2>1. dp = [free |-> f, allac |-> c, data |-> E]  BY <1>4
    <2>2. dq = [dp EXCEPT !.free = f2, !.data = E2]  BY <1>5
    <2> HIDE DEF f, c, E, f2, E2, dq
    <2>3. dq = [free |-> f2, allac |-> c, data |-> E2]  BY <2>1, <2>2
    <2> QED  BY <2>3 DEF f, c, E, f2, E2
<1>7. d2 = [free |-> dp.free \o Used(x) \o Used(y), allac |-> dp.allac,
            data |-> [i \in Stores |-> IF i = y THEN <<>> ELSE d1.data[i]]]
    BY <1>3 DEF Give
<1>8. [i \in Stores |-> IF i = y THEN <<>> ELSE d1.data[i]]
        = [i \in Stores |-> IF i \in {x, y} THEN <<>> ELSE dp.data[i]]
    <2>1. \A i \in Stores : d1.data[i] = IF i = x THEN <<>> ELSE dp.data[i]  BY DEF Give
    <2> HIDE DEF d1, x, y
    <2>2. \A i \in Stores : (IF i = y THEN <<>> ELSE d1.data[i]) = (IF i \in {x, y} THEN <<>> ELSE dp.data[i])
        BY <2>1
    <2> QED  BY <2>2
<1>9. dq = d2  BY <1>6, <1>7, <1>8
<1> HIDE DEF dq, d1, d2, s1, s2
<1>10. s2[a] = NoStore  BY <1>1, <1>2 DEF Same
<1>11. \A g \in Owner : g # a /\ g # b => s2[g] = sl[g] /\ Content(d2, s2, g) = Content(dp, sl, g)
    BY <1>1, <1>2 DEF Same
<1> QED  BY <1>2, <1>9, <1>10, <1>11 DEF dq, Freed

-----------------------------------------------------------------------------
(* The sessions. *)

TcpEp == [last_offset : Nat, held : SUBSET Nat, dstore : Nat, error : BOOLEAN, ok : BOOLEAN]
SASession ==
    [four_way : FourWays, fin1_seq : Nat, fin2_seq : Nat, init_seq : [Dirs -> Nat], ep : [Dirs -> TcpEp]]
UdpEp == [dstore : Nat, error : BOOLEAN]
UdpSessions == [UdpKeys -> {NoSess} \cup [Dirs -> UdpEp]]

\* What session s has stored of direction d.
Stored(dp, s, d) == IF s.ep[d].dstore = NoStore THEN <<>> ELSE dp.data[s.ep[d].dstore]

\* Direction e is stored as far as it has been handed on, and marked as complete only
\* when as much is stored as is wanted.
KeepsUp(dp, s, e) ==
    /\ s.ep[e].ok => DSize >= MaxPlen
    /\ ~s.ep[e].error => /\ Stored(dp, s, e) = Kept(e, s.ep[e].last_offset)
                         /\ s.ep[e].ok => s.ep[e].last_offset >= MaxPlen

\* What the session holds lies behind a gap.
Shape(dp, s) ==
    \A e \in Dirs :
       /\ s.init_seq[e] = FirstSeq(e)
       /\ s.ep[e].last_offset \in 0 .. StreamLength(e)
       /\ s.ep[e].held \subseteq s.ep[e].last_offset + 1 .. StreamLength(e) - 1
       /\ KeepsUp(dp, s, e)

\* Of the bytes B[e] that were captured none that is to be stored has been overlooked.
Tracks(s, B) ==
    \A e \in Dirs :
       /\ 0 .. s.ep[e].last_offset - 1 \subseteq B[e]
       /\ ~s.ep[e].error => \A b \in B[e] : b < MaxPlen => b < s.ep[e].last_offset \/ b \in s.ep[e].held
       /\ s.ep[e].held \subseteq B[e]

\* An outcome of the steps of a packet, with stores that belong to its session or to the
\* UDP sessions u.
Has(o, u) ==
    /\ o = [dp |-> o.dp, s |-> o.s, out |-> o.out]
    /\ o.s \in SASession /\ Owned(o.dp, Slots(o.s, u))

LEMMA SomeSession ==
    /\ \A s \in SASession : s # NoSess
    /\ \A v \in [Dirs -> UdpEp] : v # NoSess
<1>1. DOMAIN NoSess = {"none"}  BY DEF NoSess
<1>2. ASSUME NEW s \in SASession PROVE s # NoSess
    <2>1. "ep" \in DOMAIN s  BY DEF SASession
    <2> QED  BY <1>1, <2>1
<1>3. ASSUME NEW v \in [Dirs -> UdpEp] PROVE v # NoSess
    <2>1. "req" \in DOMAIN v  BY DEF Dirs
    <2> QED  BY <1>1, <2>1
<1> QED  BY <1>2, <1>3

LEMMA OwnerCases ==
    /\ \A d \in Dirs : <<"tcp", d>> \in Owner
    /\ \A k \in UdpKeys, d \in Dirs : <<k, d>> \in Owner /\ k # "tcp"
    /\ \A h \in Owner : \/ \E d \in Dirs : h = <<"tcp", d>>
                        \/ \E k \in UdpKeys, d \in Dirs : h = <<k, d>>
BY SAAssumption DEF Owner, From

LEMMA SlotsAre ==
    ASSUME NEW u \in UdpSessions, NEW s
    PROVE  /\ \A h \in Owner : h \in DOMAIN Slots(s, u)
           /\ DOMAIN Slots(s, u) = Owner
           /\ s \in SASession => \A d \in Dirs : Slots(s, u)[<<"tcp", d>>] = s.ep[d].dstore
           /\ s = NoSess => \A d \in Dirs : Slots(s, u)[<<"tcp", d>>] = NoStore
           /\ \A k \in UdpKeys, d \in Dirs :
                 Slots(s, u)[<<k, d>>] = IF u[k] = NoSess THEN NoStore ELSE u[k][d].dstore
<1>1. \A d \in Dirs : <<"tcp", d>>[1] = "tcp" /\ <<"tcp", d>>[2] = d  OBVIOUS
<1>2. \A k \in UdpKeys, d \in Dirs : <<k, d>>[1] = k /\ <<k, d>>[2] = d  OBVIOUS
<1> QED  BY <1>1, <1>2, OwnerCases, SomeSession DEF Slots

\* The slots of a session of which one endpoint changes.
LEMMA SlotsChange ==
    ASSUME NEW u \in UdpSessions, NEW s \in SASession, NEW t \in SASession, NEW d \in Dirs, NEW x,
           t.ep[d].dstore = x, \A e \in Dirs : e # d => t.ep[e].dstore = s.ep[e].dstore
    PROVE  Slots(t, u) = [Slots(s, u) EXCEPT ![<<"tcp", d>>] = x]
<1> DEFINE h == <<"tcp", d>>
           sm == [Slots(s, u) EXCEPT ![h] = x]
<1>1. DOMAIN Slots(t, u) = Owner /\ DOMAIN Slots(s, u) = Owner /\ h \in Owner  BY SlotsAre, OwnerCases
<1>2. Slots(t, u) = [g \in Owner |-> Slots(t, u)[g]]  BY DEF Slots
<1>3. sm = [g \in Owner |-> sm[g]]  BY DEF Slots
<1>4. ASSUME NEW g \in Owner PROVE Slots(t, u)[g] = sm[g]
    <2>1. CASE g = h  BY <1>1, <2>1, SlotsAre
    <2>2. ASSUME NEW e \in Dirs, g = <<"tcp", e>>, g # h PROVE Slots(t, u)[g] = sm[g]
        <3>1. e # d  BY <2>2
        <3>2. sm[g] = Slots(s, u)[g]  BY <1>1, <2>2
        <3> QED  BY <2>2, <3>1, <3>2, SlotsAre
    <2>3. ASSUME NEW k \in UdpKeys, NEW e \in Dirs, g = <<k, e>> PROVE Slots(t, u)[g] = sm[g]
        <3>1. g # h  BY <2>3, OwnerCases
        <3>2. sm[g] = Slots(s, u)[g]  BY <1>1, <3>1
        <3> QED  BY <2>3, <3>2, SlotsAre
    <2> QED  BY <2>1, <2>2, <2>3, OwnerCases
<1> HIDE DEF sm
<1> QED  BY <1>2, <1>3, <1>4 DEF sm

EpSet(ep, l, k, H) == [ep EXCEPT !.last_offset = l, !.ok = k, !.held = H]

LEMMA EpUpdate ==
    ASSUME NEW ep \in TcpEp, NEW l \in Nat, NEW k \in BOOLEAN, NEW H \in SUBSET Nat
    PROVE  /\ EpSet(ep, l, k, H) \in TcpEp /\ EpSet(ep, l, k, H).last_offset = l
           /\ EpSet(ep, l, k, H).ok = k /\ EpSet(ep, l, k, H).held = H
           /\ EpSet(ep, l, k, H).dstore = ep.dstore /\ EpSet(ep, l, k, H).error = ep.error
<1> DEFINE y == [ep EXCEPT !.last_offset = l]
           z == [y EXCEPT !.ok = k]
           x == [z EXCEPT !.held = H]
<1>1. y \in TcpEp /\ y.last_offset = l /\ y.dstore = ep.dstore /\ y.error = ep.error
    BY DEF TcpEp
<1> HIDE DEF y
<1>2. z \in TcpEp /\ z.last_offset = l /\ z.dstore = ep.dstore /\ z.error = ep.error /\ z.ok = k
    BY <1>1 DEF TcpEp
<1> HIDE DEF z
<1>3. x \in TcpEp /\ x.last_offset = l /\ x.dstore = ep.dstore /\ x.error = ep.error /\ x.ok = k
      /\ x.held = H
    BY <1>2 DEF TcpEp
<1>4. EpSet(ep, l, k, H) = x  BY DEF y, z, EpSet
<1> HIDE DEF x
<1> QED  BY <1>3, <1>4

\* A session of which only endpoint d changes.
LEMMA SessionEp ==
    ASSUME NEW s \in SASession, NEW d \in Dirs, NEW x \in TcpEp
    PROVE  LET t == [s EXCEPT !.ep[d] = x]
           IN  /\ t \in SASession /\ t.ep[d] = x /\ \A e \in Dirs : e # d => t.ep[e] = s.ep[e]
               /\ t.init_seq = s.init_seq /\ SameFins(s, t)
<1> DEFINE t == [s EXCEPT !.ep[d] = x]
           E == [s.ep EXCEPT ![d] = x]
<1>1. E \in [Dirs -> TcpEp] /\ E[d] = x /\ \A e \in Dirs : e # d => E[e] = s.ep[e]
    BY DEF SASession
<1>2. t = [s EXCEPT !.ep = E]  BY DEF SASession
<1> HIDE DEF t, E
<1>3. t \in SASession /\ t.ep = E /\ t.init_seq = s.init_seq /\ SameFins(s, t)
    BY <1>1, <1>2 DEF SASession, SameFins
<1> QED  BY <1>1, <1>3 DEF t

LEMMA OutcomeEp ==
    ASSUME NEW o, o = [dp |-> o.dp, s |-> o.s, out |-> o.out], o.s \in SASession, NEW d \in Dirs, NEW x, NEW dq
    PROVE  [o EXCEPT !.dp = dq, !.s.ep[d] = x]
              = [dp |-> dq, s |-> [o.s EXCEPT !.ep[d] = x], out |-> o.out]
<1> DEFINE a == o.dp
           b == o.s
           c == o.out
           y == [o EXCEPT !.dp = dq]
           t == [b EXCEPT !.ep[d] = x]
<1>1. o = [dp |-> a, s |-> b, out |-> c]  OBVIOUS
<1> HIDE DEF a, b, c
<1>2. y = [dp |-> dq, s |-> b, out |-> c]  BY <1>1
<1>3. [o EXCEPT !.dp = dq, !.s.ep[d] = x] = [y EXCEPT !.s.ep[d] = x]  OBVIOUS
<1> HIDE DEF y
<1>4. [y EXCEPT !.s.ep[d] = x] = [y EXCEPT !.s = t]  BY <1>2
<1> HIDE DEF t
<1>5. [y EXCEPT !.s = t] = [dp |-> dq, s |-> t, out |-> c]  BY <1>2
<1> QED  BY <1>3, <1>4, <1>5 DEF t, b, c

LEMMA BytesAre ==
    ASSUME NEW d \in Dirs, NEW m \in Nat, NEW n \in Nat, m <= n
    PROVE  /\ Bytes(d, m, n) \in Seq(Byte) /\ Len(Bytes(d, m, n)) = n - m
           /\ \A i \in 1 .. n - m : Bytes(d, m, n)[i] = [from |-> "tcp", dir |-> d, n |-> m + i - 1]
           /\ BytesOf(<<"tcp", d>>, Bytes(d, m, n))
<1> DEFINE b == Bytes(d, m, n)
           B(i) == [from |-> "tcp", dir |-> d, n |-> m + i - 1]
<1>1. b = [i \in 1 .. n - m |-> B(i)]  BY DEF Bytes
<1>2. \A i \in 1 .. n - m : B(i) \in Byte
    <2> SUFFICES ASSUME NEW i \in 1 .. n - m PROVE B(i) \in Byte
        OBVIOUS
    <2>1. m + i - 1 \in Nat  OBVIOUS
    <2> QED  BY <2>1 DEF Byte, From
<1>3. \A i \in 1 .. n - m : B(i).from = "tcp" /\ B(i).dir = d  OBVIOUS
<1> HIDE DEF b, B
<1>4. n - m \in Nat  OBVIOUS
<1>5. b \in Seq(Byte) /\ Len(b) = n - m /\ \A i \in 1 .. n - m : b[i] = B(i)
    BY <1>1, <1>2, <1>4
<1>6. BytesOf(<<"tcp", d>>, b)
    <2>1. DOMAIN b = 1 .. n - m  BY <1>1
    <2> QED  BY <1>3, <1>5, <2>1 DEF BytesOf
<1> QED  BY <1>5, <1>6 DEF b, B

LEMMA KeptIs ==
    ASSUME NEW d \in Dirs, NEW m \in Nat, NEW a, a = IF m <= DSize THEN m ELSE DSize
    PROVE  /\ a \in Nat /\ Kept(d, m) \in Seq(Byte) /\ Len(Kept(d, m)) = a
           /\ \A i \in 1 .. a : Kept(d, m)[i] = [from |-> "tcp", dir |-> d, n |-> 0 + i - 1]
<1>1. DSize \in Nat  BY SizeFacts
<1>2. a \in Nat /\ 0 \in Nat /\ 0 <= a /\ a - 0 = a  BY <1>1
<1>3. Min({m, DSize}) = a  BY <1>1, MinTwo
<1>4. Kept(d, m) = Bytes(d, 0, a)  BY <1>3 DEF Kept
<1>5. Bytes(d, 0, a) \in Seq(Byte) /\ Len(Bytes(d, 0, a)) = a - 0  BY <1>2, BytesAre
<1>6. \A i \in 1 .. a - 0 : Bytes(d, 0, a)[i] = [from |-> "tcp", dir |-> d, n |-> 0 + i - 1]
    BY <1>2, BytesAre
<1> QED  BY <1>2, <1>4, <1>5, <1>6

\* Writing the bytes that follow what is kept keeps the bytes up to their end.
LEMMA KeptGrows ==
    ASSUME NEW d \in Dirs, NEW m \in Nat, NEW n \in Nat, m <= n, NEW c,
           Written(Kept(d, m), Bytes(d, m, n), c)
    PROVE  c = Kept(d, n)
<1> DEFINE B(i) == [from |-> "tcp", dir |-> d, n |-> 0 + i - 1]
           a == IF m <= DSize THEN m ELSE DSize
           b == IF n <= DSize THEN n ELSE DSize
           p == Kept(d, m)
           q == Bytes(d, m, n)
           r == Kept(d, n)
<1>1. DSize \in Nat  BY SizeFacts
<1>2. a \in Nat /\ b \in Nat /\ 0 <= a /\ 0 <= b  BY <1>1
<1>5. p \in Seq(Byte) /\ Len(p) = a /\ \A i \in 1 .. a : p[i] = B(i)  BY KeptIs
<1>6. r \in Seq(Byte) /\ Len(r) = b /\ \A i \in 1 .. b : r[i] = B(i)  BY KeptIs
<1>7. q \in Seq(Byte) /\ Len(q) = n - m
      /\ \A i \in 1 .. n - m : q[i] = [from |-> "tcp", dir |-> d, n |-> m + i - 1]
    BY BytesAre
<1>8. PICK k \in 0 .. Len(q) :
          /\ Len(p) + k <= DSize /\ (k = Len(q) \/ Len(p) + k = DSize)
          /\ c = p \o SubSeq(q, 1, k)
    BY DEF Written
<1> DEFINE x == SubSeq(q, 1, k)
<1>9. x \in Seq(Byte) /\ Len(x) = k /\ \A i \in 1 .. k : x[i] = q[i]
    <2> HIDE DEF q
    <2> QED  BY <1>7, <1>8
<1> HIDE DEF p, q, r, x
<1>10. a + k = b /\ (k = 0 \/ a = m) /\ k <= n - m
    BY <1>1, <1>2, <1>5, <1>7, <1>8
<1>11. Len(p \o x) = Len(p) + Len(x)
       /\ \A i \in 1 .. Len(p) + Len(x) : (p \o x)[i] = IF i <= Len(p) THEN p[i] ELSE x[i - Len(p)]
    BY <1>5, <1>9, ConcatProperties, Zenon
<1>12. c \in Seq(Byte)  BY <1>5, <1>8, <1>9, ConcatProperties DEF x
<1>13. c = p \o x  BY <1>8 DEF x
<1>14. Len(c) = b  BY <1>2, <1>5, <1>9, <1>10, <1>11, <1>13
<1>15. ASSUME NEW i \in 1 .. b PROVE c[i] = B(i)
    <2>1. i \in 1 .. Len(p) + Len(x)  BY <1>2, <1>5, <1>9, <1>10
    <2>2. CASE i <= a
        <3>1. i <= Len(p) /\ i \in 1 .. a  BY <1>2, <1>5, <2>2
        <3> QED  BY <1>5, <1>11, <1>13, <2>1, <3>1
    <2>3. CASE ~(i <= a)
        <3>1. i - a \in 1 .. k /\ ~(i <= Len(p)) /\ Len(p) = a /\ a = m /\ i - a \in 1 .. n - m
            BY <1>2, <1>5, <1>10, <2>3
        <3>2. c[i] = q[i - a]  BY <1>9, <1>11, <1>13, <2>1, <3>1
        <3>3. m + (i - a) - 1 = 0 + i - 1  BY <1>2, <3>1
        <3> QED  BY <1>7, <3>1, <3>2, <3>3
    <2> QED  BY <1>2, <2>2, <2>3
<1> HIDE DEF B
<1>16. Len(r) = b /\ \A i \in 1 .. b : r[i] = B(i)  BY <1>2, <1>6
<1>17. c = r
    BY <1>6, <1>12, <1>14, <1>15, <1>16, SeqEqual
<1> QED  BY <1>17 DEF r

LEMMA StoredContent ==
    ASSUME NEW dp, NEW u \in UdpSessions, NEW s \in SASession, NEW e \in Dirs
    PROVE  Stored(dp, s, e) = Content(dp, Slots(s, u), <<"tcp", e>>)
BY SlotsAre DEF Stored, Content

\* What _write_session_payload does with the bytes of direction d up to n.
Wrote(o, r, d, n, u) ==
    /\ Has(r, u) /\ r.out = o.out /\ r.s.init_seq = o.s.init_seq /\ SameFins(o.s, r.s)
    /\ \A e \in Dirs : e # d => r.s.ep[e] = o.s.ep[e] /\ Stored(r.dp, r.s, e) = Stored(o.dp, o.s, e)
    /\ r.s.ep[d].last_offset = n
    /\ r.s.ep[d].held = o.s.ep[d].held \/ (r.s.ep[d].held = {} /\ r.s.ep[d].ok)
    /\ o.s.ep[d].error => r.s.ep[d].error
    /\ KeepsUp(r.dp, r.s, d)

LEMMA WriteSessionPayloadIs ==
    ASSUME NEW u \in UdpSessions, NEW o, Has(o, u), NEW d \in Dirs, NEW n \in Nat,
           o.s.ep[d].last_offset <= n, KeepsUp(o.dp, o.s, d)
    PROVE  Wrote(o, WriteSessionPayload(o, d, o.s.ep[d].last_offset, n), d, n, u)
<1> DEFINE h == <<"tcp", d>>
           sl == Slots(o.s, u)
           ep == o.s.ep[d]
           m == ep.last_offset
           bytes == Bytes(d, m, n)
           w == WritePayload(o.dp, ep, bytes)
           full == DstoreSize(w.dp, w.ep.dstore) >= MaxPlen
           x == [w.ep EXCEPT !.last_offset = n, !.ok = w.ep.ok \/ full,
                             !.held = IF full THEN {} ELSE w.ep.held]
           t == [o.s EXCEPT !.ep[d] = x]
           r == WriteSessionPayload(o, d, m, n)
<1>1. o.s \in SASession /\ Owned(o.dp, sl) /\ o = [dp |-> o.dp, s |-> o.s, out |-> o.out]  BY DEF Has
<1>2. ep \in TcpEp  BY <1>1 DEF SASession
<1>3. m \in Nat /\ m <= n /\ ep.ok \in BOOLEAN /\ ep.held \in SUBSET Nat  BY <1>2 DEF TcpEp
<1>4. h \in Owner /\ ep.dstore = sl[h] /\ Content(o.dp, sl, h) = Stored(o.dp, o.s, d)
    BY <1>1, OwnerCases, SlotsAre, StoredContent
<1>5. bytes \in Seq(Byte) /\ BytesOf(h, bytes)  BY <1>3, BytesAre
<1>6. r = [o EXCEPT !.dp = w.dp, !.s.ep[d] = x]
    BY DEF WriteSessionPayload
<1>7. r = [dp |-> w.dp, s |-> t, out |-> o.out]
    <2> HIDE DEF x, w, r
    <2> QED  BY <1>1, <1>6, OutcomeEp DEF t
<1> HIDE DEF r, sl, bytes
<1>8. \/ sl[h] = NoStore /\ w.dp = o.dp /\ w.ep = [ep EXCEPT !.error = TRUE]
      \/ \E dst \in Stores :
           LET sm == [sl EXCEPT ![h] = dst]
           IN  /\ w.ep = [ep EXCEPT !.dstore = dst]
               /\ Owned(w.dp, sm) /\ Same(o.dp, sl, w.dp, sm, h)
               /\ Written(Content(o.dp, sl, h), bytes, w.dp.data[dst])
    BY <1>1, <1>4, <1>5, WritePayloadIs
<1> DEFINE Payload(sm) ==
              /\ w.ep \in TcpEp /\ w.ep.held = ep.held /\ w.ep.ok = ep.ok
              /\ Owned(w.dp, sm) /\ sm = [sl EXCEPT ![h] = w.ep.dstore]
              /\ Same(o.dp, sl, w.dp, sm, h) /\ (ep.error => w.ep.error)
              /\ full => DSize >= MaxPlen
              /\ ~w.ep.error => Content(w.dp, sm, h) = Kept(d, n) /\ (full => n >= MaxPlen)
<1>9. ASSUME NEW sm, Payload(sm) PROVE Wrote(o, r, d, n, u)
    <2>1. full \in BOOLEAN  OBVIOUS
    <2> DEFINE k == w.ep.ok \/ full
               H == IF full THEN {} ELSE w.ep.held
    <2>2. k \in BOOLEAN /\ H \in SUBSET Nat  BY <1>3, <1>9
    <2> HIDE DEF full, w
    <2>3. x \in TcpEp /\ x.last_offset = n /\ x.ok = k /\ x.held = H /\ x.dstore = w.ep.dstore
          /\ x.error = w.ep.error
        <3> DEFINE v == w.ep
        <3>1. x = EpSet(v, n, k, H) /\ v \in TcpEp  BY <1>9 DEF EpSet
        <3> HIDE DEF v, k, H, x
        <3> DEFINE y == EpSet(v, n, k, H)
        <3>2. n \in Nat /\ k \in BOOLEAN /\ H \in SUBSET Nat  BY <2>2 DEF k, H
        <3>3. y \in TcpEp /\ y.last_offset = n /\ y.ok = k /\ y.held = H /\ y.dstore = v.dstore
              /\ y.error = v.error
            BY <3>1, <3>2, EpUpdate
        <3> HIDE DEF y
        <3> QED  BY <3>1, <3>3 DEF v, y
    <2> HIDE DEF x
    <2>4. /\ t \in SASession /\ t.ep[d] = x /\ \A e \in Dirs : e # d => t.ep[e] = o.s.ep[e]
          /\ t.init_seq = o.s.init_seq /\ SameFins(o.s, t)
        BY <1>1, <2>3, SessionEp
    <2> HIDE DEF t
    <2>5. r.dp = w.dp /\ r.s = t /\ r.out = o.out  BY <1>7
    <2>6. r = [dp |-> r.dp, s |-> r.s, out |-> r.out]  BY <1>7, <2>5
    <2>7. Slots(t, u) = sm
        BY <1>1, <1>9, <2>3, <2>4, SlotsChange DEF sl
    <2>8. Has(r, u)  BY <1>9, <2>4, <2>5, <2>6, <2>7 DEF Has
    <2>9. ASSUME NEW e \in Dirs, e # d
          PROVE  r.s.ep[e] = o.s.ep[e] /\ Stored(r.dp, r.s, e) = Stored(o.dp, o.s, e)
        <3>1. <<"tcp", e>> \in Owner /\ <<"tcp", e>> # h  BY <2>9, OwnerCases
        <3>2. Content(w.dp, sm, <<"tcp", e>>) = Content(o.dp, sl, <<"tcp", e>>)  BY <1>9, <3>1 DEF Same
        <3>3. Stored(w.dp, t, e) = Content(w.dp, sm, <<"tcp", e>>)  BY <2>4, <2>7, StoredContent
        <3>4. Stored(o.dp, o.s, e) = Content(o.dp, sl, <<"tcp", e>>)  BY <1>1, StoredContent DEF sl
        <3> QED  BY <2>4, <2>5, <2>9, <3>2, <3>3, <3>4
    <2>10. Stored(w.dp, t, d) = Content(w.dp, sm, h)  BY <2>4, <2>7, StoredContent
    <2>11. ~x.error /\ x.ok => n >= MaxPlen
        <3> SUFFICES ASSUME ~x.error, x.ok PROVE n >= MaxPlen
            OBVIOUS
        <3>1. CASE full  BY <1>9, <2>3, <3>1
        <3>2. CASE ~full
            <4>1. ep.ok /\ ~ep.error  BY <1>9, <2>3, <3>2
            <4>2. m >= MaxPlen  BY <4>1 DEF KeepsUp
            <4> QED  BY <1>3, <4>2, SizeFacts
        <3> QED  BY <3>1, <3>2
    <2>12. x.ok => DSize >= MaxPlen  BY <1>9, <2>3 DEF KeepsUp
    <2>13. KeepsUp(r.dp, r.s, d)
        BY <1>9, <2>3, <2>4, <2>5, <2>10, <2>11, <2>12 DEF KeepsUp
    <2>14. r.s.ep[d].held = ep.held \/ (r.s.ep[d].held = {} /\ r.s.ep[d].ok)
        BY <1>9, <2>3, <2>4, <2>5
    <2>15. r.s.ep[d].last_offset = n /\ (ep.error => r.s.ep[d].error)  BY <1>9, <2>3, <2>4, <2>5
    <2> QED  BY <2>4, <2>5, <2>8, <2>9, <2>13, <2>14, <2>15 DEF Wrote
<1>10. CASE sl[h] = NoStore /\ w.dp = o.dp /\ w.ep = [ep EXCEPT !.error = TRUE]
    <2> HIDE DEF w
    <2>1. w.ep \in TcpEp /\ w.ep.held = ep.held /\ w.ep.ok = ep.ok /\ w.ep.error
          /\ w.ep.dstore = ep.dstore
        BY <1>2, <1>10 DEF TcpEp
    <2>2. sl \in [Owner -> Nat]  BY <1>1 DEF Owned
    <2>3. sl = [sl EXCEPT ![h] = w.ep.dstore]  BY <1>4, <2>1, <2>2
    <2>4. Same(o.dp, sl, w.dp, sl, h)  BY <1>10 DEF Same
    <2>5. full => DSize >= MaxPlen
        <3>1. DstoreSize(w.dp, w.ep.dstore) = 0  BY <1>4, <1>10, <2>1 DEF DstoreSize
        <3> QED  BY <3>1, SizeFacts
    <2>6. Owned(w.dp, sl) /\ (ep.error => w.ep.error)  BY <1>1, <1>10, <2>1
    <2>7. ~w.ep.error => Content(w.dp, sl, h) = Kept(d, n) /\ (full => n >= MaxPlen)  BY <2>1
    <2> HIDE DEF full, ep
    <2>8. Payload(sl)  BY <2>1, <2>3, <2>4, <2>5, <2>6, <2>7
    <2> HIDE DEF Payload
    <2> QED  BY <1>9, <2>8 DEF r, ep
<1>11. ASSUME NEW dst \in Stores, NEW sm, sm = [sl EXCEPT ![h] = dst],
              w.ep = [ep EXCEPT !.dstore = dst],
              Owned(w.dp, sm), Same(o.dp, sl, w.dp, sm, h),
              Written(Content(o.dp, sl, h), bytes, w.dp.data[dst])
       PROVE  Wrote(o, r, d, n, u)
    <2> HIDE DEF w
    <2>0. dst \in Nat /\ dst # NoStore  BY <1>1, OwnedFacts DEF NoStore
    <2>1. w.ep \in TcpEp /\ w.ep.held = ep.held /\ w.ep.ok = ep.ok /\ w.ep.error = ep.error
          /\ w.ep.dstore = dst
        BY <1>2, <1>11, <2>0 DEF TcpEp
    <2>2. sl \in [Owner -> Nat]  BY <1>1 DEF Owned
    <2>3. sm[h] = dst  BY <1>4, <1>11, <2>2
    <2>4. Content(w.dp, sm, h) = w.dp.data[dst]  BY <2>0, <2>3 DEF Content
    <2>5. DstoreSize(w.dp, w.ep.dstore) = Len(w.dp.data[dst])  BY <2>0, <2>1 DEF DstoreSize
    <2>6. w.dp.data[dst] \in Seq(Byte) /\ Len(w.dp.data[dst]) <= DSize
        <3>1. w.dp.data \in [Stores -> Seq(Byte)]  BY <1>11, OwnedFacts
        <3>2. Len(w.dp.data[dst]) <= DSize  BY <1>11 DEF Owned, PoolShape
        <3> QED  BY <3>1, <3>2
    <2>7. Len(w.dp.data[dst]) \in Nat  BY <2>6
    <2>8. full => DSize >= MaxPlen  BY <2>5, <2>6, <2>7, SizeFacts
    <2>9. ASSUME ~w.ep.error
          PROVE  Content(w.dp, sm, h) = Kept(d, n) /\ (full => n >= MaxPlen)
        <3>1. Content(o.dp, sl, h) = Kept(d, m)  BY <1>4, <2>1, <2>9 DEF KeepsUp
        <3>2. w.dp.data[dst] = Kept(d, n)  BY <1>3, <1>11, <3>1, KeptGrows DEF bytes
        <3>3. Len(Kept(d, n)) = IF n <= DSize THEN n ELSE DSize  BY KeptIs
        <3>4. full => n >= MaxPlen  BY <2>5, <3>2, <3>3, SizeFacts
        <3> QED  BY <2>4, <3>2, <3>4
    <2> HIDE DEF full, ep
    <2>10. Payload(sm)  BY <1>11, <2>1, <2>8, <2>9
    <2> HIDE DEF Payload
    <2> QED  BY <1>9, <2>10
<1> QED  BY <1>8, <1>10, <1>11 DEF r

\* The packet's bytes and those of the fragment that follows are written (DataReady).
Ready(o, d, end) ==
    LET w   == WriteSessionPayload(o, d, o.s.ep[d].last_offset, end)
        gap == FirstGap(w.s.ep[d].held, end)
        f   == IF gap = end THEN w ELSE WriteSessionPayload(w, d, end, gap)
    IN  [f EXCEPT !.s.ep[d].held = {b \in @ : b > gap}]

\* The session goes on with what was written, up to gap.
TwoWrites(o, d, end, w, f, gap, u) ==
    /\ w = WriteSessionPayload(o, d, o.s.ep[d].last_offset, end)
    /\ gap = FirstGap(w.s.ep[d].held, end)
    /\ f = IF gap = end THEN w ELSE WriteSessionPayload(w, d, end, gap)

LEMMA BothWritten ==
    ASSUME NEW u \in UdpSessions, NEW o, Has(o, u), Shape(o.dp, o.s), NEW d \in Dirs,
           NEW end \in Nat, o.s.ep[d].last_offset < end, end <= StreamLength(d),
           NEW w, NEW f, NEW gap, TwoWrites(o, d, end, w, f, gap, u)
    PROVE  /\ Wrote(o, f, d, gap, u)
           /\ gap \in end .. StreamLength(d)
           /\ \/ /\ gap \notin o.s.ep[d].held /\ end .. gap - 1 \subseteq o.s.ep[d].held
              \/ /\ gap = end /\ f.s.ep[d].held = {}
                 /\ f.s.ep[d].error \/ gap >= MaxPlen
<1> DEFINE L == StreamLength(d)
           last == o.s.ep[d].last_offset
           held == o.s.ep[d].held
           hw == w.s.ep[d].held
<1>1. L \in Nat  BY DirFacts
<1>2. last \in 0 .. L /\ held \subseteq last + 1 .. L - 1 /\ KeepsUp(o.dp, o.s, d)  BY DEF Shape
<1>3. last <= end  BY <1>1, <1>2
<1>4. Wrote(o, w, d, end, u)
    BY <1>2, <1>3, WriteSessionPayloadIs DEF TwoWrites
<1>5. /\ Has(w, u) /\ w.s.ep[d].last_offset = end /\ KeepsUp(w.dp, w.s, d)
      /\ hw = held \/ (hw = {} /\ w.s.ep[d].ok)
    BY <1>4 DEF Wrote
<1> HIDE DEF L, last, held, hw
<1>6. held \in SUBSET (0 .. L - 1) /\ hw \in SUBSET (0 .. L - 1) /\ end \in 0 .. L
    <2>1. end \in 0 .. L  BY <1>1 DEF L
    <2>2. held \in SUBSET (0 .. L - 1)  BY <1>1, <1>2
    <2> QED  BY <1>5, <2>1, <2>2
<1>7. gap = FirstGap(hw, end)  BY DEF TwoWrites, hw
<1>8. gap \in end .. L /\ gap \notin hw /\ end .. gap - 1 \subseteq hw
    BY <1>1, <1>6, <1>7, FirstGapEnds
<1>9. gap \in Nat  BY <1>6, <1>8
<1>10. CASE gap = end
    <2>1. f = w  BY <1>10 DEF TwoWrites
    <2>2. hw = held => gap \notin held /\ end .. gap - 1 \subseteq held  BY <1>8
    <2>3. w.s.ep[d].ok => w.s.ep[d].error \/ end >= MaxPlen  BY <1>5 DEF KeepsUp
    <2> QED  BY <1>4, <1>5, <1>8, <1>10, <2>1, <2>2, <2>3 DEF hw, held, L
<1>11. CASE gap # end
    <2>1. f = WriteSessionPayload(w, d, end, gap)  BY <1>11 DEF TwoWrites
    <2>2. hw # {}
        <3>1. end \in end .. gap - 1  BY <1>6, <1>8, <1>11
        <3> QED  BY <1>8, <3>1
    <2>3. hw = held  BY <1>5, <2>2
    <2>4. w.s.ep[d].last_offset <= gap  BY <1>5, <1>6, <1>8
    <2>5. Wrote(w, f, d, gap, u)  BY <1>5, <1>9, <2>1, <2>4, WriteSessionPayloadIs
    <2>6. Wrote(o, f, d, gap, u)
        <3>1. SameFins(o.s, f.s)  BY <1>4, <2>5 DEF Wrote, SameFins
        <3>2. /\ Has(f, u) /\ f.out = o.out /\ f.s.init_seq = o.s.init_seq
              /\ \A e \in Dirs : e # d => f.s.ep[e] = o.s.ep[e] /\ Stored(f.dp, f.s, e) = Stored(o.dp, o.s, e)
              /\ f.s.ep[d].last_offset = gap
              /\ o.s.ep[d].error => f.s.ep[d].error
              /\ KeepsUp(f.dp, f.s, d)
            BY <1>4, <2>5 DEF Wrote
        <3>3. f.s.ep[d].held = o.s.ep[d].held \/ (f.s.ep[d].held = {} /\ f.s.ep[d].ok)
            BY <2>3, <2>5 DEF Wrote, hw, held
        <3> QED  BY <3>1, <3>2, <3>3 DEF Wrote
    <2> QED  BY <1>8, <2>3, <2>6 DEF held, L
<1> QED  BY <1>10, <1>11

\* A change of what an endpoint holds behind the gap.
HeldSet(o, r, d, H, u) ==
    /\ Has(r, u) /\ r.out = o.out /\ r.dp = o.dp
    /\ r.s.init_seq = o.s.init_seq /\ SameFins(o.s, r.s)
    /\ \A e \in Dirs : /\ e # d => r.s.ep[e] = o.s.ep[e]
                       /\ Stored(r.dp, r.s, e) = Stored(o.dp, o.s, e)
                       /\ KeepsUp(o.dp, o.s, e) => KeepsUp(r.dp, r.s, e)
    /\ r.s.ep[d].held = H /\ r.s.ep[d].last_offset = o.s.ep[d].last_offset
    /\ r.s.ep[d].error = o.s.ep[d].error /\ r.s.ep[d].ok = o.s.ep[d].ok

LEMMA HeldIs ==
    ASSUME NEW u \in UdpSessions, NEW o, Has(o, u), NEW d \in Dirs, NEW H \in SUBSET Nat,
           NEW r, r = [o EXCEPT !.s.ep[d].held = H]
    PROVE  HeldSet(o, r, d, H, u)
<1> DEFINE x == [o.s.ep[d] EXCEPT !.held = H]
           t == [o.s EXCEPT !.ep[d] = x]
<1>1. o.s \in SASession /\ Owned(o.dp, Slots(o.s, u)) /\ o = [dp |-> o.dp, s |-> o.s, out |-> o.out]
    BY DEF Has
<1>2. o.s.ep[d] \in TcpEp  BY <1>1 DEF SASession
<1>3. /\ x \in TcpEp /\ x.held = H /\ x.last_offset = o.s.ep[d].last_offset
      /\ x.error = o.s.ep[d].error /\ x.ok = o.s.ep[d].ok /\ x.dstore = o.s.ep[d].dstore
    <2> DEFINE y == o.s.ep[d]
    <2> HIDE DEF y
    <2>1. y \in TcpEp /\ x = [y EXCEPT !.held = H]  BY <1>2 DEF y
    <2> HIDE DEF x
    <2>2. /\ x \in TcpEp /\ x.held = H /\ x.last_offset = y.last_offset
          /\ x.error = y.error /\ x.ok = y.ok /\ x.dstore = y.dstore
        BY <2>1 DEF TcpEp
    <2> QED  BY <2>2 DEF y
<1>4. r = [dp |-> o.dp, s |-> t, out |-> o.out]
    <2> DEFINE a == o.dp
               b == o.s
               c == o.out
    <2>1. o = [dp |-> a, s |-> b, out |-> c]  BY <1>1
    <2> HIDE DEF a, b, c
    <2>2. [o EXCEPT !.s.ep[d].held = H] = [dp |-> a, s |-> [b EXCEPT !.ep[d].held = H], out |-> c]
        BY <2>1
    <2>3. [b EXCEPT !.ep[d].held = H] = [b EXCEPT !.ep[d] = [b.ep[d] EXCEPT !.held = H]]
        OBVIOUS
    <2> QED  BY <2>2, <2>3 DEF a, b, c
<1> HIDE DEF x
<1>5. /\ t \in SASession /\ t.ep[d] = x /\ \A e \in Dirs : e # d => t.ep[e] = o.s.ep[e]
      /\ t.init_seq = o.s.init_seq /\ SameFins(o.s, t)
    BY <1>1, <1>3, SessionEp
<1> HIDE DEF t
<1>6. r.dp = o.dp /\ r.s = t /\ r.out = o.out  BY <1>4
<1>7. r = [dp |-> r.dp, s |-> r.s, out |-> r.out]  BY <1>4, <1>6
<1>8. \A e \in Dirs : t.ep[e].dstore = o.s.ep[e].dstore  BY <1>3, <1>5
<1>9. Slots(t, u) = Slots(o.s, u)
    <2>1. Slots(t, u) = [Slots(o.s, u) EXCEPT ![<<"tcp", d>>] = o.s.ep[d].dstore]
        BY <1>1, <1>5, <1>8, SlotsChange
    <2>2. Slots(o.s, u)[<<"tcp", d>>] = o.s.ep[d].dstore  BY <1>1, SlotsAre
    <2>3. Slots(o.s, u) \in [Owner -> Nat]  BY <1>1 DEF Owned
    <2> QED  BY <2>1, <2>2, <2>3
<1>10. Has(r, u)
    <2>1. Owned(r.dp, Slots(r.s, u)) /\ r.s \in SASession  BY <1>1, <1>5, <1>6, <1>9
    <2> QED  BY <1>7, <2>1 DEF Has
<1>11. \A e \in Dirs : Stored(r.dp, r.s, e) = Stored(o.dp, o.s, e)  BY <1>6, <1>8 DEF Stored
<1>12. \A e \in Dirs : t.ep[e].last_offset = o.s.ep[e].last_offset /\ t.ep[e].error = o.s.ep[e].error
                       /\ t.ep[e].ok = o.s.ep[e].ok
    BY <1>3, <1>5
<1>13. \A e \in Dirs : KeepsUp(o.dp, o.s, e) => KeepsUp(r.dp, r.s, e)
    BY <1>6, <1>11, <1>12 DEF KeepsUp
<1> QED  BY <1>3, <1>5, <1>6, <1>10, <1>11, <1>13 DEF HeldSet

\* Direction d's bytes sq to sq + n - 1 have been taken into account.
Advanced(o, r, d, sq, n, u) ==
    /\ Has(r, u) /\ r.out = o.out /\ SameFins(o.s, r.s) /\ Shape(r.dp, r.s)
    /\ \A B \in [Dirs -> SUBSET Nat] : Tracks(o.s, B) => Tracks(r.s, Plus(B, d, sq, n))

LEMMA PlusIs ==
    ASSUME NEW B \in [Dirs -> SUBSET Nat], NEW d \in Dirs, NEW sq, NEW n
    PROVE  /\ Plus(B, d, sq, n)[d] = B[d] \cup (sq .. sq + n - 1)
           /\ \A e \in Dirs : e # d => Plus(B, d, sq, n)[e] = B[e]
BY DEF Plus

LEMMA ReadyIs ==
    ASSUME NEW u \in UdpSessions, NEW o, Has(o, u), Shape(o.dp, o.s), NEW d \in Dirs,
           NEW sq \in Nat, NEW n \in Nat, sq <= o.s.ep[d].last_offset,
           o.s.ep[d].last_offset < sq + n, sq + n <= StreamLength(d)
    PROVE  Advanced(o, Ready(o, d, sq + n), d, sq, n, u)
<1> DEFINE end == sq + n
           L == StreamLength(d)
           last == o.s.ep[d].last_offset
           held == o.s.ep[d].held
           w == WriteSessionPayload(o, d, last, end)
           gap == FirstGap(w.s.ep[d].held, end)
           f == IF gap = end THEN w ELSE WriteSessionPayload(w, d, end, gap)
           fh == f.s.ep[d].held
           H == {b \in fh : b > gap}
           r == Ready(o, d, end)
<1>1. L \in Nat /\ end \in Nat  BY DirFacts
<1>2. last \in 0 .. L /\ held \subseteq last + 1 .. L - 1  BY DEF Shape
<1>3. TwoWrites(o, d, end, w, f, gap, u)  BY DEF TwoWrites
<1>4. r = [f EXCEPT !.s.ep[d].held = H]  BY DEF Ready
<1> HIDE DEF w, gap, f, r, end
<1>5. last < end /\ end <= L  BY DEF end
<1>6. /\ Wrote(o, f, d, gap, u)
      /\ gap \in end .. L
      /\ \/ /\ gap \notin held /\ end .. gap - 1 \subseteq held
         \/ /\ gap = end /\ fh = {}
            /\ f.s.ep[d].error \/ gap >= MaxPlen
    BY <1>1, <1>3, <1>5, BothWritten
<1>7. /\ Has(f, u) /\ f.out = o.out /\ f.s.init_seq = o.s.init_seq /\ SameFins(o.s, f.s)
      /\ \A e \in Dirs : e # d => f.s.ep[e] = o.s.ep[e] /\ Stored(f.dp, f.s, e) = Stored(o.dp, o.s, e)
      /\ f.s.ep[d].last_offset = gap
      /\ fh = held \/ (fh = {} /\ f.s.ep[d].ok)
      /\ o.s.ep[d].error => f.s.ep[d].error
      /\ KeepsUp(f.dp, f.s, d)
    BY <1>6 DEF Wrote
<1> HIDE DEF L, last, held
<1>8. gap \in Nat /\ fh \in SUBSET (0 .. L - 1) /\ H \in SUBSET (gap + 1 .. L - 1) /\ H \in SUBSET Nat
    <2>1. gap \in Nat  BY <1>1, <1>6
    <2>2. held \in SUBSET (0 .. L - 1)  BY <1>1, <1>2
    <2>3. fh \in SUBSET (0 .. L - 1)  BY <1>7, <2>2
    <2> HIDE DEF fh
    <2>4. ASSUME NEW b \in H PROVE b \in gap + 1 .. L - 1
        <3>1. b \in fh /\ b > gap  BY <2>4
        <3>2. b \in 0 .. L - 1  BY <2>3, <3>1
        <3> QED  BY <1>1, <2>1, <3>1, <3>2
    <2>5. H \in SUBSET (gap + 1 .. L - 1)  BY <2>4
    <2>6. gap + 1 .. L - 1 \subseteq Nat  BY <1>1, <2>1
    <2> QED  BY <2>1, <2>3, <2>5, <2>6 DEF fh
<1> HIDE DEF H
<1>91. HeldSet(f, r, d, H, u)
    <2>1. Has(f, u) /\ H \in SUBSET Nat  BY <1>7, <1>8
    <2> QED  BY <1>4, <2>1, HeldIs
<1>9. /\ Has(r, u) /\ r.out = f.out /\ r.dp = f.dp
      /\ r.s.init_seq = f.s.init_seq /\ SameFins(f.s, r.s)
      /\ \A e \in Dirs : /\ e # d => r.s.ep[e] = f.s.ep[e]
                         /\ Stored(r.dp, r.s, e) = Stored(f.dp, f.s, e)
                         /\ KeepsUp(f.dp, f.s, e) => KeepsUp(r.dp, r.s, e)
      /\ r.s.ep[d].held = H /\ r.s.ep[d].last_offset = f.s.ep[d].last_offset
      /\ r.s.ep[d].error = f.s.ep[d].error /\ r.s.ep[d].ok = f.s.ep[d].ok
    BY <1>91 DEF HeldSet
<1>10. SameFins(o.s, r.s)  BY <1>7, <1>9 DEF SameFins
<1>11. Shape(r.dp, r.s)
    <2> SUFFICES ASSUME NEW e \in Dirs
                 PROVE  /\ r.s.init_seq[e] = FirstSeq(e)
                        /\ r.s.ep[e].last_offset \in 0 .. StreamLength(e)
                        /\ r.s.ep[e].held \subseteq r.s.ep[e].last_offset + 1 .. StreamLength(e) - 1
                        /\ KeepsUp(r.dp, r.s, e)
        BY DEF Shape
    <2>1. r.s.init_seq[e] = FirstSeq(e)  BY <1>7, <1>9 DEF Shape
    <2>2. CASE e = d
        <3>1. gap \in 0 .. L  BY <1>1, <1>6
        <3> QED  BY <1>7, <1>8, <1>9, <2>1, <2>2, <3>1 DEF L
    <2>3. CASE e # d
        <3>1. r.s.ep[e] = o.s.ep[e] /\ Stored(r.dp, r.s, e) = Stored(o.dp, o.s, e)  BY <1>7, <1>9, <2>3
        <3>2. /\ o.s.ep[e].last_offset \in 0 .. StreamLength(e)
              /\ o.s.ep[e].held \subseteq o.s.ep[e].last_offset + 1 .. StreamLength(e) - 1
              /\ KeepsUp(o.dp, o.s, e)
            BY DEF Shape
        <3>3. KeepsUp(r.dp, r.s, e)  BY <3>1, <3>2 DEF KeepsUp
        <3> QED  BY <2>1, <3>1, <3>2, <3>3
    <2> QED  BY <2>2, <2>3
<1>12. ASSUME NEW B \in [Dirs -> SUBSET Nat], Tracks(o.s, B)
       PROVE  Tracks(r.s, Plus(B, d, sq, n))
    <2> DEFINE C == Plus(B, d, sq, n)
    <2>1. C[d] = B[d] \cup (sq .. end - 1) /\ \A e \in Dirs : e # d => C[e] = B[e]  BY PlusIs DEF end
    <2> HIDE DEF C
    <2>2. /\ 0 .. last - 1 \subseteq B[d] /\ held \subseteq B[d] /\ B[d] \subseteq Nat
          /\ ~o.s.ep[d].error => \A b \in B[d] : b < MaxPlen => b < last \/ b \in held
        BY <1>12 DEF Tracks, last, held
    <2>3. sq <= last  BY DEF last
    <2>4. 0 .. gap - 1 \subseteq C[d]
        <3> SUFFICES ASSUME NEW b \in 0 .. gap - 1 PROVE b \in C[d]
            OBVIOUS
        <3>1. b \in Nat  BY <1>8
        <3>2. CASE b < last
            <4>1. b \in 0 .. last - 1  BY <1>1, <1>2, <3>1, <3>2
            <4> QED  BY <2>1, <2>2, <4>1
        <3>3. CASE ~(b < last) /\ b < end
            <4>1. b \in sq .. end - 1  BY <1>1, <1>2, <2>3, <3>1, <3>3
            <4> QED  BY <2>1, <4>1
        <3>4. CASE ~(b < end)
            <4>1. b \in end .. gap - 1 /\ gap # end  BY <1>1, <1>8, <3>1, <3>4
            <4> QED  BY <1>6, <2>1, <2>2, <4>1
        <3> QED  BY <3>2, <3>3, <3>4
    <2>5. H \subseteq C[d]
        <3>1. H \subseteq fh  BY DEF H
        <3>2. fh \subseteq held  BY <1>7
        <3> QED  BY <2>1, <2>2, <3>1, <3>2
    <2>6. ASSUME ~f.s.ep[d].error, NEW b \in C[d], b < MaxPlen PROVE b < gap \/ b \in H
        <3>1. b \in Nat /\ MaxPlen \in Nat  BY <1>1, <2>1, <2>2, <2>6, SizeFacts
        <3>2. CASE gap >= MaxPlen  BY <1>8, <2>6, <3>1, <3>2
        <3>3. CASE ~(gap >= MaxPlen)
            <4>1. gap \notin held /\ fh = held  BY <1>6, <1>7, <2>6, <3>3 DEF KeepsUp
            <4>2. CASE b \in sq .. end - 1  BY <1>1, <1>6, <1>8, <3>1, <4>2
            <4>3. CASE b \in B[d]
                <5>1. ~o.s.ep[d].error  BY <1>7, <2>6
                <5>2. b < last \/ b \in held  BY <2>2, <2>6, <4>3, <5>1
                <5>3. CASE b < last  BY <1>1, <1>2, <1>5, <1>6, <1>8, <3>1, <5>3
                <5>4. CASE b \in held
                    <6>1. b # gap  BY <4>1, <5>4
                    <6>2. b < gap \/ b > gap  BY <1>8, <3>1, <6>1
                    <6> QED  BY <4>1, <5>4, <6>2 DEF H
                <5> QED  BY <5>2, <5>3, <5>4
            <4> QED  BY <2>1, <2>6, <4>2, <4>3
        <3> QED  BY <3>2, <3>3
    <2> SUFFICES ASSUME NEW e \in Dirs
                 PROVE  /\ 0 .. r.s.ep[e].last_offset - 1 \subseteq C[e]
                        /\ ~r.s.ep[e].error => \A b \in C[e] : b < MaxPlen =>
                              b < r.s.ep[e].last_offset \/ b \in r.s.ep[e].held
                        /\ r.s.ep[e].held \subseteq C[e]
        BY DEF Tracks, C
    <2>7. CASE e = d
        BY <1>7, <1>9, <2>4, <2>5, <2>6, <2>7
    <2>8. CASE e # d
        <3>1. r.s.ep[e] = o.s.ep[e] /\ C[e] = B[e]  BY <1>7, <1>9, <2>1, <2>8
        <3> QED  BY <1>12, <3>1 DEF Tracks
    <2> QED  BY <2>7, <2>8
<1> QED  BY <1>7, <1>9, <1>10, <1>11, <1>12 DEF Advanced, r, end

\* A packet that is behind a gap.
LEMMA HoldIs ==
    ASSUME NEW u \in UdpSessions, NEW o, Has(o, u), Shape(o.dp, o.s), NEW d \in Dirs,
           NEW sq \in Nat, NEW n \in Nat, sq > o.s.ep[d].last_offset, sq + n <= StreamLength(d),
           NEW r, r = [o EXCEPT !.s.ep[d].held = o.s.ep[d].held \cup (sq .. sq + n - 1)]
    PROVE  Advanced(o, r, d, sq, n, u)
<1> DEFINE L == StreamLength(d)
           last == o.s.ep[d].last_offset
           held == o.s.ep[d].held
           H == held \cup (sq .. sq + n - 1)
<1>1. L \in Nat  BY DirFacts
<1>2. last \in 0 .. L /\ held \subseteq last + 1 .. L - 1  BY DEF Shape
<1>3. sq > last /\ sq + n <= L  OBVIOUS
<1> HIDE DEF L, last, held
<1>4. H \in SUBSET (last + 1 .. L - 1) /\ H \in SUBSET Nat  BY <1>1, <1>2, <1>3
<1>5. r = [o EXCEPT !.s.ep[d].held = H]  BY DEF held
<1> HIDE DEF H
<1>61. HeldSet(o, r, d, H, u)  BY <1>4, <1>5, HeldIs
<1>6. /\ Has(r, u) /\ r.out = o.out /\ r.dp = o.dp
      /\ r.s.init_seq = o.s.init_seq /\ SameFins(o.s, r.s)
      /\ \A e \in Dirs : /\ e # d => r.s.ep[e] = o.s.ep[e]
                         /\ Stored(r.dp, r.s, e) = Stored(o.dp, o.s, e)
                         /\ KeepsUp(o.dp, o.s, e) => KeepsUp(r.dp, r.s, e)
      /\ r.s.ep[d].held = H /\ r.s.ep[d].last_offset = last
      /\ r.s.ep[d].error = o.s.ep[d].error /\ r.s.ep[d].ok = o.s.ep[d].ok
    BY <1>61 DEF HeldSet, last
<1>7. Shape(r.dp, r.s)
    <2> SUFFICES ASSUME NEW e \in Dirs
                 PROVE  /\ r.s.init_seq[e] = FirstSeq(e)
                        /\ r.s.ep[e].last_offset \in 0 .. StreamLength(e)
                        /\ r.s.ep[e].held \subseteq r.s.ep[e].last_offset + 1 .. StreamLength(e) - 1
                        /\ KeepsUp(r.dp, r.s, e)
        BY DEF Shape
    <2>1. r.s.init_seq[e] = FirstSeq(e) /\ KeepsUp(r.dp, r.s, e)  BY <1>6 DEF Shape
    <2>2. CASE e = d  BY <1>2, <1>4, <1>6, <2>1, <2>2 DEF L
    <2>3. CASE e # d  BY <1>6, <2>1, <2>3 DEF Shape
    <2> QED  BY <2>2, <2>3
<1>8. ASSUME NEW B \in [Dirs -> SUBSET Nat], Tracks(o.s, B)
      PROVE  Tracks(r.s, Plus(B, d, sq, n))
    <2> DEFINE C == Plus(B, d, sq, n)
    <2>1. C[d] = B[d] \cup (sq .. sq + n - 1) /\ \A e \in Dirs : e # d => C[e] = B[e]  BY PlusIs
    <2> HIDE DEF C
    <2> SUFFICES ASSUME NEW e \in Dirs
                 PROVE  /\ 0 .. r.s.ep[e].last_offset - 1 \subseteq C[e]
                        /\ ~r.s.ep[e].error => \A b \in C[e] : b < MaxPlen =>
                              b < r.s.ep[e].last_offset \/ b \in r.s.ep[e].held
                        /\ r.s.ep[e].held \subseteq C[e]
        BY DEF Tracks, C
    <2>2. CASE e = d
        <3>1. /\ 0 .. last - 1 \subseteq B[d] /\ held \subseteq B[d]
              /\ ~o.s.ep[d].error => \A b \in B[d] : b < MaxPlen => b < last \/ b \in held
            BY <1>8 DEF Tracks, last, held
        <3>2. /\ 0 .. last - 1 \subseteq C[d] /\ H \subseteq C[d]
              /\ ~o.s.ep[d].error => \A b \in C[d] : b < MaxPlen => b < last \/ b \in H
            BY <2>1, <3>1 DEF H
        <3> QED  BY <1>6, <2>2, <3>2
    <2>3. CASE e # d
        <3>1. r.s.ep[e] = o.s.ep[e] /\ C[e] = B[e]  BY <1>6, <2>1, <2>3
        <3> QED  BY <1>8, <3>1 DEF Tracks
    <2> QED  BY <2>2, <2>3
<1> QED  BY <1>6, <1>7, <1>8 DEF Advanced

\* A packet with nothing new, or that is not looked at.
LEMMA SkipIs ==
    ASSUME NEW u \in UdpSessions, NEW o, Has(o, u), Shape(o.dp, o.s), NEW d \in Dirs,
           NEW sq \in Nat, NEW n \in Nat,
           \/ n = 0 \/ sq >= MaxPlen \/ o.s.ep[d].error \/ sq + n <= o.s.ep[d].last_offset
           \/ Len(Stored(o.dp, o.s, d)) >= MaxPlen
    PROVE  Advanced(o, o, d, sq, n, u)
<1> DEFINE last == o.s.ep[d].last_offset
           held == o.s.ep[d].held
<1>1. last \in Nat /\ MaxPlen \in Nat /\ DSize \in Nat
    <2>1. StreamLength(d) \in Nat /\ last \in 0 .. StreamLength(d)  BY DirFacts DEF Shape
    <2> QED  BY <2>1, SizeFacts
<1>2. \/ n = 0 \/ sq >= MaxPlen \/ o.s.ep[d].error \/ sq + n <= last \/ last >= MaxPlen
    <2>1. ASSUME ~o.s.ep[d].error, Len(Stored(o.dp, o.s, d)) >= MaxPlen PROVE last >= MaxPlen
        <3>1. Stored(o.dp, o.s, d) = Kept(d, last)  BY <2>1 DEF Shape, KeepsUp
        <3>2. Len(Kept(d, last)) = IF last <= DSize THEN last ELSE DSize  BY <1>1, KeptIs
        <3> QED  BY <1>1, <2>1, <3>1, <3>2
    <2> QED  BY <2>1
<1> HIDE DEF last, held
<1>3. ASSUME NEW B \in [Dirs -> SUBSET Nat], Tracks(o.s, B)
      PROVE  Tracks(o.s, Plus(B, d, sq, n))
    <2> DEFINE C == Plus(B, d, sq, n)
    <2>1. C[d] = B[d] \cup (sq .. sq + n - 1) /\ \A e \in Dirs : e # d => C[e] = B[e]  BY PlusIs
    <2> HIDE DEF C
    <2> SUFFICES ASSUME NEW e \in Dirs
                 PROVE  /\ 0 .. o.s.ep[e].last_offset - 1 \subseteq C[e]
                        /\ ~o.s.ep[e].error => \A b \in C[e] : b < MaxPlen =>
                              b < o.s.ep[e].last_offset \/ b \in o.s.ep[e].held
                        /\ o.s.ep[e].held \subseteq C[e]
        BY DEF Tracks, C
    <2>2. CASE e = d
        <3>1. /\ 0 .. last - 1 \subseteq B[d] /\ held \subseteq B[d]
              /\ ~o.s.ep[d].error => \A b \in B[d] : b < MaxPlen => b < last \/ b \in held
            BY <1>3 DEF Tracks, last, held
        <3>2. 0 .. last - 1 \subseteq C[d] /\ held \subseteq C[d]  BY <2>1, <3>1
        <3>3. ~o.s.ep[d].error => \A b \in sq .. sq + n - 1 : b < MaxPlen => b < last
            BY <1>1, <1>2
        <3> QED  BY <2>1, <2>2, <3>1, <3>2, <3>3 DEF last, held
    <2>3. CASE e # d  BY <1>3, <2>1, <2>3 DEF Tracks
    <2> QED  BY <2>2, <2>3
<1>4. SameFins(o.s, o.s)  BY DEF SameFins
<1> QED  BY <1>3, <1>4 DEF Advanced

\* What the record of a session says.
RecordOf(o, why) ==
    [why |-> why, error |-> [d \in Dirs |-> o.s.ep[d].error], data |-> [d \in Dirs |-> Stored(o.dp, o.s, d)]]

\* The session is written out and has no store any more.
Closed(o, c, why, u) ==
    /\ Has(c, u) /\ SameFins(o.s, c.s) /\ Owned(c.dp, Slots(NoSess, u))
    /\ c.out = Append(o.out, RecordOf(o, why))

LEMMA CloseIs ==
    ASSUME NEW u \in UdpSessions, NEW o, Has(o, u), NEW why
    PROVE  Closed(o, Close(o, why), why, u)
<1> DEFINE s == o.s
           E == [d \in Dirs |-> [s.ep[d] EXCEPT !.dstore = NoStore]]
           t == [s EXCEPT !.ep = E]
           dq == DstoreFree(o.dp, s.ep)
           c == Close(o, why)
           sl == Slots(s, u)
           a == <<"tcp", "req">>
           b == <<"tcp", "res">>
<1>1. s \in SASession /\ Owned(o.dp, sl)  BY DEF Has
<1>2. c = [dp |-> dq, s |-> t, out |-> Append(o.out, RecordOf(o, why))]
    BY DEF Close, RecordOf, Stored
<1>3. E \in [Dirs -> TcpEp] /\ \A d \in Dirs : E[d].dstore = NoStore
    <2> SUFFICES ASSUME NEW d \in Dirs PROVE E[d] \in TcpEp /\ E[d].dstore = NoStore
        OBVIOUS
    <2> DEFINE x == s.ep[d]
    <2>1. x \in TcpEp /\ E[d] = [x EXCEPT !.dstore = NoStore]  BY <1>1 DEF SASession
    <2> HIDE DEF x, E
    <2> QED  BY <2>1 DEF TcpEp, NoStore
<1> HIDE DEF E
<1>4. t \in SASession /\ t.ep = E /\ SameFins(s, t)
    BY <1>1, <1>3 DEF SASession, SameFins
<1> HIDE DEF t, c
<1>5. c.dp = dq /\ c.s = t /\ c.out = Append(o.out, RecordOf(o, why))
      /\ c = [dp |-> c.dp, s |-> c.s, out |-> c.out]
    <2> DEFINE x == Append(o.out, RecordOf(o, why))
    <2> HIDE DEF x, dq
    <2>1. c = [dp |-> dq, s |-> t, out |-> x]  BY <1>2 DEF x
    <2>2. c.dp = dq /\ c.s = t /\ c.out = x  BY <2>1
    <2>3. c = [dp |-> c.dp, s |-> c.s, out |-> c.out]  BY <2>1, <2>2
    <2> QED  BY <2>2, <2>3 DEF x
<1>6. a \in Owner /\ b \in Owner /\ a # b /\ s.ep["req"].dstore = sl[a] /\ s.ep["res"].dstore = sl[b]
    <2>1. "req" \in Dirs /\ "res" \in Dirs /\ a # b  BY DEF Dirs
    <2> QED  BY <1>1, <2>1, OwnerCases, SlotsAre
<1> HIDE DEF sl
<1>70. Freed(o.dp, sl, dq, a, b)
    <2> HIDE DEF a, b, s
    <2> QED  BY <1>1, <1>6, DstoreFreeIs
<1>7. PICK sm : /\ Owned(dq, sm) /\ sm[a] = NoStore /\ sm[b] = NoStore
                /\ \A g \in Owner : g # a /\ g # b => sm[g] = sl[g]
    BY <1>70 DEF Freed
<1> HIDE DEF dq
<1>8. sm \in [Owner -> Nat]  BY <1>7 DEF Owned
<1>9. ASSUME NEW v, v = NoSess \/ v = t PROVE Slots(v, u) = sm
    <2>1. DOMAIN Slots(v, u) = Owner /\ Slots(v, u) = [g \in Owner |-> Slots(v, u)[g]]
        BY SlotsAre DEF Slots
    <2>2. ASSUME NEW g \in Owner PROVE Slots(v, u)[g] = sm[g]
        <3>1. ASSUME NEW d \in Dirs, g = <<"tcp", d>> PROVE Slots(v, u)[g] = sm[g]
            <4>1. Slots(v, u)[g] = NoStore  BY <1>3, <1>4, <1>9, <3>1, SlotsAre
            <4>2. g = a \/ g = b  BY <3>1 DEF Dirs
            <4> QED  BY <1>7, <4>1, <4>2
        <3>2. ASSUME NEW k \in UdpKeys, NEW d \in Dirs, g = <<k, d>> PROVE Slots(v, u)[g] = sm[g]
            <4>1. g # a /\ g # b  BY <3>2, OwnerCases
            <4>2. Slots(v, u)[g] = sl[g]  BY <3>2, SlotsAre DEF sl
            <4> QED  BY <1>7, <4>1, <4>2
        <3> QED  BY <3>1, <3>2, OwnerCases
    <2> QED  BY <1>8, <2>1, <2>2
<1>10. Slots(t, u) = sm /\ Slots(NoSess, u) = sm  BY <1>9
<1> QED  BY <1>4, <1>5, <1>7, <1>10 DEF Closed, Has, c

\* There is something in the packet that may be wanted (_need_process_payload).
Needed(o, d, sq, n) ==
    /\ n > 0 /\ sq < MaxPlen /\ ~o.s.ep[d].error /\ Len(Stored(o.dp, o.s, d)) < MaxPlen

LEMMA NeededIs ==
    ASSUME NEW o, NEW d \in Dirs, NEW sq \in Nat, NEW n \in Nat, NEW fin, NEW rst, NEW a,
           o.s.init_seq[d] = FirstSeq(d)
    PROVE  NeedProcessPayload(o, Seg(d, sq, n, fin, rst, a)) <=> Needed(o, d, sq, n)
<1> DEFINE p == Seg(d, sq, n, fin, rst, a)
<1>1. p.dir = d /\ p.len = n /\ p.seq = FirstSeq(d) + sq  BY SegFields
<1> HIDE DEF p
<1>2. FirstSeq(d) \in Nat  BY DirFacts
<1>3. p.seq - o.s.init_seq[p.dir] = sq  BY <1>1, <1>2
<1>4. DstoreSize(o.dp, o.s.ep[d].dstore) = Len(Stored(o.dp, o.s, d))
    BY DEF DstoreSize, Stored
<1> QED  BY <1>1, <1>3, <1>4 DEF NeedProcessPayload, Needed, p

\* The outcomes of the data of a packet: it has been taken into account; no memory was left
\* to hold it; or both directions are complete.
DataDone(o, r, d, sq, n, u) ==
    \/ Advanced(o, r, d, sq, n, u)
    \/ Needed(o, d, sq, n) /\ sq > o.s.ep[d].last_offset /\ Closed(o, r, "nomemory", u)
    \/ /\ Needed(o, d, sq, n) /\ sq + n > o.s.ep[d].last_offset
       /\ \E q : /\ Advanced(o, q, d, sq, n, u) /\ Closed(q, r, "break", u)
                 /\ \A e \in Dirs : q.s.ep[e].ok

LEMMA ProcessSADataIs ==
    ASSUME NEW u \in UdpSessions, NEW o, Has(o, u), Shape(o.dp, o.s), NEW d \in Dirs,
           NEW sq \in Nat, NEW n \in Nat, sq + n <= StreamLength(d), NEW fin, NEW rst, NEW a,
           NEW r,
           r \in IF NeedProcessPayload(o, Seg(d, sq, n, fin, rst, a))
                 THEN ProcessSAData(o, Seg(d, sq, n, fin, rst, a)) ELSE {o}
    PROVE  DataDone(o, r, d, sq, n, u)
<1> DEFINE p == Seg(d, sq, n, fin, rst, a)
           last == o.s.ep[d].last_offset
<1>1. o.s.init_seq[d] = FirstSeq(d) /\ last \in 0 .. StreamLength(d)  BY DEF Shape
<1>2. StreamLength(d) \in Nat /\ FirstSeq(d) \in Nat  BY DirFacts
<1>3. last \in Nat  BY <1>1, <1>2
<1>4. NeedProcessPayload(o, p) <=> Needed(o, d, sq, n)  BY <1>1, NeededIs
<1>5. p.dir = d /\ p.len = n /\ p.seq = FirstSeq(d) + sq  BY SegFields
<1> HIDE DEF p
<1>6. r \in IF Needed(o, d, sq, n) THEN ProcessSAData(o, p) ELSE {o}  BY <1>4 DEF p
<1>7. p.seq - o.s.init_seq[d] = sq  BY <1>1, <1>2, <1>5
<1>8. CASE ~Needed(o, d, sq, n)
    <2>1. r = o  BY <1>6, <1>8
    <2>2. Stored(o.dp, o.s, d) \in Seq(Byte)
        <3>1. o.s \in SASession /\ Owned(o.dp, Slots(o.s, u))  BY DEF Has
        <3>2. o.dp.data \in [Stores -> Seq(Byte)]  BY <3>1, OwnedFacts
        <3>3. <<"tcp", d>> \in Owner /\ Slots(o.s, u)[<<"tcp", d>>] = o.s.ep[d].dstore
            BY <3>1, OwnerCases, SlotsAre
        <3>4. o.s.ep[d].dstore # NoStore => o.s.ep[d].dstore \in Stores
            BY <3>1, <3>3, OwnedFacts
        <3>5. <<>> \in Seq(Byte)  BY EmptySeq
        <3> QED  BY <3>2, <3>4, <3>5 DEF Stored
    <2>3. Len(Stored(o.dp, o.s, d)) \in Nat  BY <2>2
    <2>4. n = 0 \/ sq >= MaxPlen \/ o.s.ep[d].error \/ Len(Stored(o.dp, o.s, d)) >= MaxPlen
        BY <1>8, <2>3, SizeFacts DEF Needed
    <2>5. Advanced(o, o, d, sq, n, u)  BY <2>4, SkipIs
    <2> QED  BY <2>1, <2>5 DEF DataDone
<1>9. CASE Needed(o, d, sq, n) /\ sq + n <= last
    <2>0. ~(sq + n > last)  BY <1>3, <1>9
    <2>1. r = o
        <3>1. ProcessSAData(o, p) = {o}
            <4> DEFINE end == sq + n
            <4>1. end <= last /\ ~(end > last)  BY <1>9, <2>0
            <4>2. p.seq - o.s.init_seq[d] + p.len = end  BY <1>5, <1>7
            <4> HIDE DEF end
            <4> QED  BY <1>5, <4>1, <4>2 DEF ProcessSAData
        <3> QED  BY <1>6, <1>9, <3>1
    <2>2. Advanced(o, o, d, sq, n, u)  BY <1>9, SkipIs
    <2> QED  BY <2>1, <2>2 DEF DataDone
<1>10. CASE Needed(o, d, sq, n) /\ sq + n > last /\ sq > last
    <2> DEFINE q == [o EXCEPT !.s.ep[d].held = o.s.ep[d].held \cup (sq .. sq + n - 1)]
    <2>1. ~(sq + n <= last)  BY <1>3, <1>10
    <2>2. r \in {[o EXCEPT !.s.ep[d].held = @ \cup (sq .. sq + n - 1)], Close(o, "nomemory")}
        <3> DEFINE end == sq + n
        <3>1. end > last /\ ~(end <= last) /\ sq > last  BY <1>10, <2>1
        <3>2. p.seq - o.s.init_seq[d] + p.len = end  BY <1>5, <1>7
        <3> HIDE DEF end
        <3>3. ProcessSAData(o, p) = {[o EXCEPT !.s.ep[d].held = @ \cup (sq .. end - 1)], Close(o, "nomemory")}
            BY <1>5, <1>7, <3>1, <3>2 DEF ProcessSAData
        <3> QED  BY <1>6, <1>10, <3>3 DEF end
    <2>3. CASE r = q
        <3>1. Advanced(o, r, d, sq, n, u)  BY <1>10, <2>3, HoldIs
        <3> QED  BY <3>1 DEF DataDone
    <2>4. CASE r = Close(o, "nomemory")
        <3>1. Closed(o, r, "nomemory", u)  BY <2>4, CloseIs
        <3> QED  BY <1>10, <3>1 DEF DataDone
    <2> QED  BY <2>2, <2>3, <2>4
<1>11. CASE Needed(o, d, sq, n) /\ sq + n > last /\ sq <= last
    <2> DEFINE q == Ready(o, d, sq + n)
    <2>1. ~(sq + n <= last) /\ ~(sq > last)  BY <1>3, <1>11
    <2>2. r = DataReady(o, d, sq + n)
        BY <1>5, <1>6, <1>7, <1>11, <2>1 DEF ProcessSAData
    <2>3. DataReady(o, d, sq + n) = BreakIfReady(q)  BY DEF DataReady, Ready
    <2>4. Advanced(o, q, d, sq, n, u)
        <3>1. last < sq + n  BY <1>3, <1>11
        <3> QED  BY <1>11, <3>1, ReadyIs
    <2> HIDE DEF q
    <2>5. CASE \A e \in Dirs : q.s.ep[e].ok
        <3>1. r = q \/ r = Close(q, "break")  BY <2>2, <2>3 DEF BreakIfReady
        <3>2. Has(q, u)  BY <2>4 DEF Advanced
        <3>3. Closed(q, Close(q, "break"), "break", u)  BY <3>2, CloseIs
        <3> QED  BY <1>11, <2>4, <2>5, <3>1, <3>3 DEF DataDone
    <2>6. CASE ~(\A e \in Dirs : q.s.ep[e].ok)
        <3>1. r = q  BY <2>2, <2>3, <2>6 DEF BreakIfReady
        <3> QED  BY <2>4, <3>1 DEF DataDone
    <2> QED  BY <2>5, <2>6
<1>12. (sq + n <= last \/ sq + n > last) /\ (sq <= last \/ sq > last)  BY <1>3
<1> QED  BY <1>8, <1>9, <1>10, <1>11, <1>12

\* What the acknowledgement number of a packet does.
Acked(q, r, p, u) ==
    /\ Has(r, u) /\ r.dp = q.dp /\ r.out = q.out /\ r.s.ep = q.s.ep /\ r.s.init_seq = q.s.init_seq
    /\ r.s.fin1_seq = q.s.fin1_seq /\ r.s.fin2_seq = q.s.fin2_seq
    /\ r.s.four_way = q.s.four_way \/ p.ack = q.s.fin1_seq + 1

LEMMA ProcessAcksIs ==
    ASSUME NEW u \in UdpSessions, NEW q, Has(q, u), NEW p, ~p.fin, NEW r, r = ProcessAcks(q, p)
    PROVE  \/ Acked(q, r, p, u)
           \/ AcksFin2(q.s, p) /\ Closed(q, r, "fourway", u)
<1>1. q.s \in SASession /\ Owned(q.dp, Slots(q.s, u)) /\ q = [dp |-> q.dp, s |-> q.s, out |-> q.out]
    BY DEF Has
<1>2. CASE p.ack = q.s.fin1_seq + 1
    <2> DEFINE t == [q.s EXCEPT !.four_way = "FIN1_ACK"]
    <2>1. r = [q EXCEPT !.s.four_way = "FIN1_ACK"]  BY <1>2 DEF ProcessAcks
    <2>2. r = [dp |-> q.dp, s |-> t, out |-> q.out]
        <3> DEFINE a == q.dp
                   b == q.s
                   c == q.out
        <3>1. q = [dp |-> a, s |-> b, out |-> c]  BY <1>1
        <3> HIDE DEF a, b, c
        <3>2. r = [dp |-> a, s |-> [b EXCEPT !.four_way = "FIN1_ACK"], out |-> c]  BY <2>1, <3>1
        <3> QED  BY <3>2 DEF a, b, c
    <2>3. t \in SASession /\ t.ep = q.s.ep /\ t.init_seq = q.s.init_seq
          /\ t.fin1_seq = q.s.fin1_seq /\ t.fin2_seq = q.s.fin2_seq
        BY <1>1 DEF SASession, FourWays
    <2> HIDE DEF t
    <2>4. r.dp = q.dp /\ r.s = t /\ r.out = q.out  BY <2>2
    <2>5. r = [dp |-> r.dp, s |-> r.s, out |-> r.out]  BY <2>2, <2>4
    <2>6. Slots(t, u) = Slots(q.s, u)  BY <1>1, <2>3, SomeSession DEF Slots
    <2>7. Has(r, u)  BY <1>1, <2>3, <2>4, <2>5, <2>6 DEF Has
    <2> QED  BY <1>2, <2>3, <2>4, <2>7 DEF Acked
<1>3. CASE p.ack # q.s.fin1_seq + 1 /\ p.ack = q.s.fin2_seq + 1
    <2>1. r = Close(q, "fourway")  BY <1>3 DEF ProcessAcks
    <2> QED  BY <1>3, <2>1, CloseIs DEF AcksFin2
<1>4. CASE p.ack # q.s.fin1_seq + 1 /\ p.ack # q.s.fin2_seq + 1
    <2>1. r = q  BY <1>4 DEF ProcessAcks
    <2> QED  BY <2>1 DEF Acked
<1> QED  BY <1>2, <1>3, <1>4

\* The session has been written out and is gone.
Ended(r, u) == Owned(r.dp, Slots(NoSess, u)) /\ r.out # <<>>

\* The rest of a packet whose data has ended the session.
LEMMA EndedIs ==
    ASSUME NEW u \in UdpSessions, NEW o, NEW q, NEW c, NEW why, Closed(q, c, why, u),
           q.out = <<>>, SameFins(o.s, q.s), NEW p, ~p.fin, NEW r, r = c \/ r = ProcessAcks(c, p)
    PROVE  /\ Ended(r, u)
           /\ AcksFin2(o.s, p) \/ r.out = <<RecordOf(q, why)>>
<1> DEFINE x == RecordOf(q, why)
<1>1. Has(c, u) /\ Owned(c.dp, Slots(NoSess, u)) /\ SameFins(q.s, c.s) /\ c.out = Append(<<>>, x)
    BY DEF Closed
<1> HIDE DEF x
<1>2. c.out = <<x>>  BY <1>1
<1>3. CASE r.dp = c.dp /\ r.out = c.out
    BY <1>1, <1>2, <1>3 DEF Ended, x
<1>4. CASE AcksFin2(c.s, p) /\ Closed(c, r, "fourway", u)
    <2>1. AcksFin2(o.s, p)  BY <1>1, <1>4 DEF AcksFin2, SameFins
    <2> DEFINE y == RecordOf(c, "fourway")
    <2>2. r.out = Append(c.out, y) /\ Owned(r.dp, Slots(NoSess, u))  BY <1>4 DEF Closed
    <2> HIDE DEF y
    <2>3. c.out \in Seq({x, y}) /\ y \in {x, y}  BY <1>2
    <2>4. r.out # <<>>  BY <2>2, <2>3, AppendProperties
    <2> QED  BY <2>1, <2>2, <2>4 DEF Ended
<1>5. r = c \/ Acked(c, r, p, u) \/ (AcksFin2(c.s, p) /\ Closed(c, r, "fourway", u))
    BY <1>1, ProcessAcksIs
<1> QED  BY <1>3, <1>4, <1>5 DEF Acked

\* The session goes on after packet p, of which every byte has been taken into account
\* unless the packet has a FIN.
GoesOn(o, r, p, d, sq, n, u) ==
    /\ Has(r, u) /\ r.out = o.out /\ Shape(r.dp, r.s) /\ FinStep(o.s, r.s, p)
    /\ (p.fin /\ n > 0) \/ \A B \in [Dirs -> SUBSET Nat] : Tracks(o.s, B) => Tracks(r.s, Plus(B, d, sq, n))

\* What becomes of a session with a packet (ch_sa_tcp_session_packet_handle).
SAHandled(o, r, p, d, sq, n, u) ==
    \/ GoesOn(o, r, p, d, sq, n, u)
    \/ Ended(r, u) /\ r.out = <<RecordOf(o, "rst")>>
    \/ /\ Ended(r, u) /\ AcksFin2(o.s, p)
       /\ \E q : Advanced(o, q, d, sq, n, u) /\ r.out = <<RecordOf(q, "fourway")>>
    \/ /\ Ended(r, u) /\ Needed(o, d, sq, n) /\ sq > o.s.ep[d].last_offset
       /\ AcksFin2(o.s, p) \/ r.out = <<RecordOf(o, "nomemory")>>
    \/ /\ Ended(r, u) /\ Needed(o, d, sq, n) /\ sq + n > o.s.ep[d].last_offset
       /\ \E q : /\ Advanced(o, q, d, sq, n, u) /\ \A e \in Dirs : q.s.ep[e].ok
                 /\ AcksFin2(o.s, p) \/ r.out = <<RecordOf(q, "break")>>

LEMMA ProcessSAFinIs ==
    ASSUME NEW s \in SASession, NEW p, p.seq \in Nat, p.fin
    PROVE  LET t == ProcessSAFin(s, p)
           IN  t \in SASession /\ t.ep = s.ep /\ t.init_seq = s.init_seq /\ FinStep(s, t, p)
<1> DEFINE t == ProcessSAFin(s, p)
<1>1. CASE s.four_way = "INIT"
    <2>1. t = [s EXCEPT !.four_way = "FIN1", !.fin1_seq = p.seq]  BY <1>1 DEF ProcessSAFin
    <2> HIDE DEF t
    <2>2. t \in SASession /\ t.ep = s.ep /\ t.init_seq = s.init_seq
          /\ t.fin1_seq = p.seq /\ t.fin2_seq = s.fin2_seq
        BY <2>1 DEF SASession, FourWays
    <2> QED  BY <1>1, <2>2 DEF FinStep, t
<1>2. CASE s.four_way \in {"FIN1", "FIN1_ACK"}
    <2>1. t = [s EXCEPT !.four_way = "FIN2", !.fin2_seq = p.seq]  BY <1>2 DEF ProcessSAFin
    <2> HIDE DEF t
    <2>2. t \in SASession /\ t.ep = s.ep /\ t.init_seq = s.init_seq
          /\ t.fin1_seq = s.fin1_seq /\ t.fin2_seq = p.seq
        BY <2>1 DEF SASession, FourWays
    <2>3. s.four_way # "INIT"  BY <1>2
    <2> QED  BY <2>2, <2>3 DEF FinStep, t
<1>3. CASE s.four_way \notin {"INIT", "FIN1", "FIN1_ACK"}
    <2>1. t = s  BY <1>3 DEF ProcessSAFin
    <2> QED  BY <2>1 DEF FinStep
<1> QED  BY <1>1, <1>2, <1>3

LEMMA SAPacketHandleIs ==
    ASSUME NEW u \in UdpSessions, NEW o, Has(o, u), o.out = <<>>, Shape(o.dp, o.s), NEW d \in Dirs,
           NEW sq \in Nat, NEW n \in Nat, sq + n <= StreamLength(d),
           NEW fin \in BOOLEAN, NEW rst \in BOOLEAN, NEW a \in Nat, NEW p, p = Seg(d, sq, n, fin, rst, a),
           NEW r \in SAPacketHandle(o, p)
    PROVE  SAHandled(o, r, p, d, sq, n, u)
<1>1. p.fin = fin /\ p.rst = rst /\ p.seq = FirstSeq(d) + sq  BY SegFields
<1>2. o.s \in SASession /\ Owned(o.dp, Slots(o.s, u)) /\ o = [dp |-> o.dp, s |-> o.s, out |-> o.out]
    BY DEF Has
<1>3. CASE fin
    <2> DEFINE t == ProcessSAFin(o.s, p)
    <2>1. r = [o EXCEPT !.s = t]  BY <1>1, <1>3 DEF SAPacketHandle
    <2>2. p.seq \in Nat  BY <1>1, DirFacts
    <2>3. t \in SASession /\ t.ep = o.s.ep /\ t.init_seq = o.s.init_seq /\ FinStep(o.s, t, p)
        BY <1>1, <1>2, <1>3, <2>2, ProcessSAFinIs
    <2> HIDE DEF t
    <2>4. r.dp = o.dp /\ r.s = t /\ r.out = o.out /\ r = [dp |-> r.dp, s |-> r.s, out |-> r.out]
        <3> DEFINE x == o.dp
                   y == o.s
                   z == o.out
        <3>1. o = [dp |-> x, s |-> y, out |-> z]  BY <1>2
        <3> HIDE DEF x, y, z
        <3>2. r = [dp |-> x, s |-> t, out |-> z]  BY <2>1, <3>1
        <3>3. r.dp = x /\ r.s = t /\ r.out = z  BY <3>2
        <3> QED  BY <3>2, <3>3 DEF x, z
    <2>5. Slots(t, u) = Slots(o.s, u)  BY <1>2, <2>3, SomeSession DEF Slots
    <2>6. Has(r, u)  BY <1>2, <2>3, <2>4, <2>5 DEF Has
    <2>7. Shape(r.dp, r.s)  BY <2>3, <2>4 DEF Shape, KeepsUp, Stored
    <2>8. ASSUME n = 0, NEW B \in [Dirs -> SUBSET Nat], Tracks(o.s, B)
          PROVE  Tracks(r.s, Plus(B, d, sq, n))
        <3>1. Advanced(o, o, d, sq, n, u)  BY <2>8, SkipIs
        <3>2. Tracks(o.s, Plus(B, d, sq, n))  BY <2>8, <3>1 DEF Advanced
        <3> QED  BY <2>3, <2>4, <3>2 DEF Tracks
    <2>9. (p.fin /\ n > 0) \/ n = 0  BY <1>1, <1>3
    <2>10. FinStep(o.s, r.s, p)  BY <2>3, <2>4
    <2>11. GoesOn(o, r, p, d, sq, n, u)
        BY <2>4, <2>6, <2>7, <2>8, <2>9, <2>10 DEF GoesOn
    <2> QED  BY <2>11 DEF SAHandled
<1>4. CASE ~fin /\ rst
    <2>1. r = Close(o, "rst")  BY <1>1, <1>4 DEF SAPacketHandle
    <2>2. Closed(o, r, "rst", u)  BY <2>1, CloseIs
    <2> DEFINE x == RecordOf(o, "rst")
    <2>3. r.out = Append(<<>>, x) /\ Owned(r.dp, Slots(NoSess, u))  BY <2>2 DEF Closed
    <2> HIDE DEF x
    <2>4. r.out = <<x>>  BY <2>3
    <2>5. r.out # <<>>  BY <2>4
    <2> QED  BY <2>3, <2>4, <2>5 DEF SAHandled, Ended, x
<1>5. CASE ~fin /\ ~rst
    <2>1. PICK q \in IF NeedProcessPayload(o, p) THEN ProcessSAData(o, p) ELSE {o} :
              r = ProcessAcks(q, p)
        BY <1>1, <1>5 DEF SAPacketHandle
    <2>2. DataDone(o, q, d, sq, n, u)  BY <2>1, ProcessSADataIs
    <2>3. ~p.fin  BY <1>1, <1>5
    <2>4. CASE Advanced(o, q, d, sq, n, u)
        <3>1. Has(q, u) /\ q.out = <<>> /\ SameFins(o.s, q.s) /\ Shape(q.dp, q.s)
            BY <2>4 DEF Advanced
        <3>2. \/ Acked(q, r, p, u)
              \/ AcksFin2(q.s, p) /\ Closed(q, r, "fourway", u)
            BY <2>1, <2>3, <3>1, ProcessAcksIs
        <3>3. CASE Acked(q, r, p, u)
            <4>1. FinStep(o.s, r.s, p)  BY <3>1, <3>3 DEF Acked, SameFins, FinStep
            <4>2. Shape(r.dp, r.s)  BY <3>1, <3>3 DEF Acked, Shape, KeepsUp, Stored
            <4>3. ASSUME NEW B \in [Dirs -> SUBSET Nat], Tracks(o.s, B)
                  PROVE  Tracks(r.s, Plus(B, d, sq, n))
                <5>1. Tracks(q.s, Plus(B, d, sq, n))  BY <2>4, <4>3 DEF Advanced
                <5> QED  BY <3>3, <5>1 DEF Acked, Tracks
            <4>4. Has(r, u) /\ r.out = o.out  BY <3>1, <3>3 DEF Acked
            <4>5. GoesOn(o, r, p, d, sq, n, u)  BY <4>1, <4>2, <4>3, <4>4 DEF GoesOn
            <4> QED  BY <4>5 DEF SAHandled
        <3>4. CASE AcksFin2(q.s, p) /\ Closed(q, r, "fourway", u)
            <4>1. AcksFin2(o.s, p)  BY <3>1, <3>4 DEF AcksFin2, SameFins
            <4> DEFINE x == RecordOf(q, "fourway")
            <4>2. r.out = Append(<<>>, x) /\ Owned(r.dp, Slots(NoSess, u))  BY <3>1, <3>4 DEF Closed
            <4> HIDE DEF x
            <4>3. r.out = <<x>>  BY <4>2
            <4>4. Ended(r, u)  BY <4>2, <4>3 DEF Ended
            <4> QED  BY <2>4, <4>1, <4>3, <4>4 DEF SAHandled, x
        <3> QED  BY <3>2, <3>3, <3>4
    <2>5. CASE Needed(o, d, sq, n) /\ sq > o.s.ep[d].last_offset /\ Closed(o, q, "nomemory", u)
        <3>1. SameFins(o.s, o.s)  BY DEF SameFins
        <3>2. /\ Ended(r, u)
              /\ AcksFin2(o.s, p) \/ r.out = <<RecordOf(o, "nomemory")>>
            BY <2>1, <2>3, <2>5, <3>1, EndedIs
        <3> QED  BY <2>5, <3>2 DEF SAHandled
    <2>6. ASSUME Needed(o, d, sq, n), sq + n > o.s.ep[d].last_offset, NEW x,
                 Advanced(o, x, d, sq, n, u), Closed(x, q, "break", u), \A e \in Dirs : x.s.ep[e].ok
          PROVE  SAHandled(o, r, p, d, sq, n, u)
        <3>1. SameFins(o.s, x.s) /\ x.out = <<>>  BY <2>6 DEF Advanced
        <3>2. /\ Ended(r, u)
              /\ AcksFin2(o.s, p) \/ r.out = <<RecordOf(x, "break")>>
            BY <2>1, <2>3, <2>6, <3>1, EndedIs
        <3> QED  BY <2>6, <3>2 DEF SAHandled
    <2> QED  BY <2>2, <2>4, <2>5, <2>6 DEF DataDone
<1> QED  BY <1>3, <1>4, <1>5

LEMMA NewSASessionIs ==
    ASSUME NEW req \in Request, req.req_sn_init = FirstSeq("req"), req.res_sn_init = FirstSeq("res"),
           NEW dp
    PROVE  LET s == NewSASession(req)
           IN  /\ s \in SASession /\ Shape(dp, s)
               /\ \A d \in Dirs : s.ep[d].dstore = NoStore
               /\ s.four_way = "INIT" /\ s.fin1_seq = 0 /\ s.fin2_seq = 0
               /\ \A B \in [Dirs -> SUBSET Nat] : (\A d \in Dirs : B[d] = {}) => Tracks(s, B)
<1> DEFINE s == NewSASession(req)
           I == [d \in Dirs |-> IF d = "req" THEN req.req_sn_init ELSE req.res_sn_init]
           E == [d \in Dirs |-> NewTcpEp]
<1>1. s = [four_way |-> "INIT", fin1_seq |-> 0, fin2_seq |-> 0, init_seq |-> I, ep |-> E]
    BY DEF NewSASession
<1>2. I \in [Dirs -> Nat] /\ \A d \in Dirs : I[d] = FirstSeq(d)
    <2>1. \A d \in Dirs : d = "req" \/ d = "res"  BY DEF Dirs
    <2> QED  BY <2>1, DirFacts
<1>3. /\ NewTcpEp \in TcpEp /\ NewTcpEp.last_offset = 0 /\ NewTcpEp.held = {}
      /\ NewTcpEp.dstore = NoStore /\ ~NewTcpEp.error /\ ~NewTcpEp.ok
    BY DEF NewTcpEp, TcpEp, NoStore
<1>4. E \in [Dirs -> TcpEp] /\ \A d \in Dirs : E[d] = NewTcpEp  BY <1>3
<1> HIDE DEF s, I, E
<1>5. s \in SASession /\ s.four_way = "INIT" /\ s.fin1_seq = 0 /\ s.fin2_seq = 0
      /\ s.init_seq = I /\ s.ep = E
    BY <1>1, <1>2, <1>4 DEF SASession, FourWays
<1>6. \A d \in Dirs : s.ep[d] = NewTcpEp  BY <1>4, <1>5
<1>7. ASSUME NEW d \in Dirs PROVE Stored(dp, s, d) = Kept(d, 0)
    <2>1. Stored(dp, s, d) = <<>>  BY <1>3, <1>6 DEF Stored
    <2>2. 0 \in Nat /\ 0 = IF 0 <= DSize THEN 0 ELSE DSize  BY SizeFacts
    <2>3. Kept(d, 0) \in Seq(Byte) /\ Len(Kept(d, 0)) = 0  BY <2>2, KeptIs
    <2>4. Kept(d, 0) = <<>>  BY <2>3, EmptySeq
    <2> QED  BY <2>1, <2>4
<1>8. Shape(dp, s)
    <2> SUFFICES ASSUME NEW e \in Dirs
                 PROVE  /\ s.init_seq[e] = FirstSeq(e)
                        /\ s.ep[e].last_offset \in 0 .. StreamLength(e)
                        /\ s.ep[e].held \subseteq s.ep[e].last_offset + 1 .. StreamLength(e) - 1
                        /\ KeepsUp(dp, s, e)
        BY DEF Shape
    <2>1. StreamLength(e) \in Nat  BY DirFacts
    <2>2. KeepsUp(dp, s, e)  BY <1>3, <1>6, <1>7 DEF KeepsUp
    <2> QED  BY <1>2, <1>3, <1>5, <1>6, <2>1, <2>2
<1>9. ASSUME NEW B \in [Dirs -> SUBSET Nat], \A d \in Dirs : B[d] = {} PROVE Tracks(s, B)
    <2>1. 0 .. 0 - 1 = {}  OBVIOUS
    <2> QED  BY <1>3, <1>6, <1>9, <2>1 DEF Tracks
<1> QED  BY <1>3, <1>5, <1>6, <1>8, <1>9 DEF s

-----------------------------------------------------------------------------
(* No store is lost or shared. *)

\* A request exists only as long as nothing but the handshake has been seen.
SARequestInv ==
    sareq # NoSess =>
       /\ sasess = NoSess /\ out = <<>>
       /\ sareq \in Request /\ sareq.req_sn_init = FirstSeq("req")
       /\ sareq.res_sn_init = IF sareq.state = "SYN" THEN 0 ELSE FirstSeq("res")
       /\ \A d \in Dirs : snt[d].bytes = {}
       /\ hs >= 3 => sareq.state # "SYN"
       /\ hs = 4 => sareq.state = "ACK_ACK"

SASessionInv ==
    sasess # NoSess => sasess \in SASession /\ out = <<>> /\ Shape(Pool, sasess)

\* The inductive invariant.
SAInv ==
    /\ NetInv /\ SARequestInv /\ SASessionInv
    /\ usess \in UdpSessions
    /\ Owned(Pool, Slots(sasess, usess))
    /\ hs < 3 => sasess = NoSess /\ out = <<>>

\* The session s that a packet finds, or that is created for it ...
SAFresh(s) ==
    /\ sasess = NoSess /\ \A e \in Dirs : snt[e].bytes = {}
    /\ s.four_way = "INIT" /\ s.fin1_seq = 0 /\ s.fin2_seq = 0
    /\ \A B \in [Dirs -> SUBSET Nat] : (\A e \in Dirs : B[e] = {}) => Tracks(s, B)

SAFinds(s) ==
    /\ s \in SASession /\ out = <<>> /\ Owned(Pool, Slots(s, usess)) /\ Shape(Pool, s)
    /\ (sasess # NoSess /\ s = sasess) \/ SAFresh(s)

\* ... and what the packet does with it.
SAStepped(s, p, d, sq, n) ==
    \E r : /\ SAHandled([dp |-> Pool, s |-> s, out |-> <<>>], r, p, d, sq, n, usess)
           /\ Pool' = r.dp /\ out' = out \o r.out /\ usess' = usess
           /\ sasess' = IF r.out = <<>> THEN r.s ELSE NoSess

LEMMA SADataProcessIs ==
    ASSUME usess \in UdpSessions, NEW s, SAFinds(s), NEW d \in Dirs,
           NEW sq \in Nat, NEW n \in Nat, sq + n <= StreamLength(d),
           NEW fin \in BOOLEAN, NEW rst \in BOOLEAN, NEW a \in Nat, NEW p, p = Seg(d, sq, n, fin, rst, a),
           SADataProcess(s, p)
    PROVE  SAStepped(s, p, d, sq, n)
<1> DEFINE o == [dp |-> Pool, s |-> s, out |-> <<>>]
<1>1. o.dp = Pool /\ o.s = s /\ o.out = <<>> /\ o = [dp |-> o.dp, s |-> o.s, out |-> o.out]  OBVIOUS
<1>2. PICK r \in SAPacketHandle(o, p) :
          /\ SetPool(r.dp)
          /\ sasess' = IF r.out = <<>> THEN r.s ELSE NoSess
          /\ out' = out \o r.out
          /\ UNCHANGED usess
    BY DEF SADataProcess
<1> HIDE DEF o
<1>3. Has(o, usess) /\ Shape(o.dp, o.s)  BY <1>1 DEF Has, SAFinds
<1>4. SAHandled(o, r, p, d, sq, n, usess)  BY <1>1, <1>3, SAPacketHandleIs
<1>5. \E sl : Owned(r.dp, sl)
    BY <1>4 DEF SAHandled, GoesOn, Ended, Has
<1>6. r.dp = [free |-> r.dp.free, allac |-> r.dp.allac, data |-> r.dp.data]  BY <1>5, OwnedFacts
<1>7. Pool' = r.dp  BY <1>2, <1>6 DEF Pool, SetPool
<1> QED  BY <1>2, <1>4, <1>7 DEF SAStepped, o

LEMMA SAStepKeeps ==
    ASSUME NEW s, SAFinds(s), NEW p, NEW d, NEW sq, NEW n, SAStepped(s, p, d, sq, n)
    PROVE  /\ SASessionInv' /\ Owned(Pool', Slots(sasess', usess')) /\ usess' = usess
<1> DEFINE o == [dp |-> Pool, s |-> s, out |-> <<>>]
<1>1. PICK r : /\ SAHandled(o, r, p, d, sq, n, usess)
               /\ Pool' = r.dp /\ out' = out \o r.out /\ usess' = usess
               /\ sasess' = IF r.out = <<>> THEN r.s ELSE NoSess
    BY DEF SAStepped
<1>2. o.out = <<>>  OBVIOUS
<1> HIDE DEF o
<1>3. out = <<>>  BY DEF SAFinds
<1>4. CASE GoesOn(o, r, p, d, sq, n, usess)
    <2>1. r.out = <<>> /\ Has(r, usess) /\ Shape(r.dp, r.s)  BY <1>2, <1>4 DEF GoesOn
    <2>2. sasess' = r.s /\ r.s \in SASession /\ Owned(r.dp, Slots(r.s, usess))  BY <1>1, <2>1 DEF Has
    <2>3. out' = <<>>
        <3>1. <<>> \o <<>> = <<>>  BY ConcatEmptySeq, EmptySeq
        <3> QED  BY <1>1, <1>3, <2>1, <3>1
    <2> QED  BY <1>1, <2>1, <2>2, <2>3 DEF SASessionInv
<1>5. CASE Ended(r, usess)
    <2>1. sasess' = NoSess /\ Owned(r.dp, Slots(NoSess, usess))  BY <1>1, <1>5 DEF Ended
    <2> QED  BY <1>1, <2>1 DEF SASessionInv
<1> QED  BY <1>1, <1>4, <1>5 DEF SAHandled

\* A packet of an established connection.
LEMMA SASegmentIs ==
    ASSUME SAInv, NEW d \in Dirs, NEW sq, NEW n, NEW fin \in BOOLEAN, NEW rst \in BOOLEAN, Passed(d, sq, n),
           SATcpPacket(Header(d, sq, n, fin, rst)),
           NEW p, p = Seg(d, sq, n, fin, rst, Received(Other(d)))
    PROVE  /\ SARequestInv'
           /\ \/ sasess = NoSess /\ UNCHANGED <<sasess, usess, pool, out>>
              \/ \E s : SAFinds(s) /\ SAStepped(s, p, d, sq, n)
<1> DEFINE a == Received(Other(d))
<1>1. SATcpPacket(p)  BY DEF Header, Seg
<1>2. /\ NetInv' /\ Captured' = Plus(Captured, d, sq, n) /\ hs >= 3
      /\ hs' = hs \/ hs' = 4
      /\ sq \in Nat /\ n \in Nat /\ sq + n <= StreamLength(d)
    BY DEF Passed, SAInv, NetInv
<1>3. a \in Nat /\ Other(d) \in Dirs  BY ReceivedIs, DirFacts DEF SAInv
<1>4. p.dir = d /\ p.kind = "seg" /\ p.len = n /\ p.fin = fin /\ p.rst = rst
      /\ p.ack = FirstSeq(Other(d)) + a
    BY SegFields
<1>5. Captured \in [Dirs -> SUBSET Nat] /\ \A e \in Dirs : Captured[e] = snt[e].bytes
    BY CapturedIs DEF SAInv
<1>6. hs' >= 3 /\ hs \in 0 .. 4  BY <1>2 DEF SAInv, NetInv
<1>7. /\ SARequestInv /\ SASessionInv /\ usess \in UdpSessions
      /\ Owned(Pool, Slots(sasess, usess))
    BY DEF SAInv
<1>8. p = Seg(d, sq, n, fin, rst, a)  OBVIOUS
<1> HIDE DEF a
<1>9. ASSUME NEW s, SAFinds(s), SADataProcess(s, p) PROVE SAStepped(s, p, d, sq, n)
    BY <1>2, <1>3, <1>7, <1>8, <1>9, SADataProcessIs
<1>10. sareq # NoSess =>
        /\ sareq \in Request /\ sasess = NoSess /\ out = <<>> /\ sareq.state \in {"SYN_ACK", "ACK_ACK"}
        /\ sareq.req_sn_init = FirstSeq("req") /\ sareq.res_sn_init = FirstSeq("res")
        /\ \A e \in Dirs : snt[e].bytes = {}
        /\ sareq.state = "SYN_ACK" => IsSAAckAck(p)
    <2> SUFFICES ASSUME sareq # NoSess
                 PROVE  /\ sareq \in Request /\ sasess = NoSess /\ out = <<>>
                        /\ sareq.state \in {"SYN_ACK", "ACK_ACK"}
                        /\ sareq.req_sn_init = FirstSeq("req") /\ sareq.res_sn_init = FirstSeq("res")
                        /\ \A e \in Dirs : snt[e].bytes = {}
                        /\ sareq.state = "SYN_ACK" => IsSAAckAck(p)
        OBVIOUS
    <2>1. /\ sareq \in Request /\ sasess = NoSess /\ out = <<>> /\ sareq.state \in {"SYN_ACK", "ACK_ACK"}
          /\ sareq.req_sn_init = FirstSeq("req") /\ sareq.res_sn_init = FirstSeq("res")
          /\ \A e \in Dirs : snt[e].bytes = {}
        BY <1>2, <1>7 DEF SARequestInv, Request
    <2>2. ASSUME sareq.state = "SYN_ACK" PROVE IsSAAckAck(p)
        <3>1. hs # 4  BY <1>7, <2>2 DEF SARequestInv
        <3>2. d = "req" /\ hs < 4  BY <1>6, <3>1 DEF Passed
        <3>3. Other(d) = "res" /\ "res" \in Dirs  BY <3>2 DEF Other, Dirs
        <3>4. ~rcv["res"].fin  BY <3>2 DEF NetInv, SAInv
        <3>5. a = 0  BY <2>1, <3>3, <3>4, ReceivedIs DEF a, SAInv
        <3>6. FirstSeq("res") \in Nat  BY <3>3, DirFacts
        <3>7. p.ack = FirstSeq("res")  BY <1>4, <3>3, <3>5, <3>6
        <3> QED  BY <2>1, <2>2, <3>7 DEF IsSAAckAck
    <2> QED  BY <2>1, <2>2
<1>11. CASE sasess # NoSess /\ SADataProcess(sasess, p) /\ UNCHANGED sareq
    <2>1. sareq = NoSess  BY <1>7, <1>11 DEF SARequestInv
    <2>2. SAFinds(sasess)  BY <1>7, <1>11 DEF SAFinds, SASessionInv
    <2>3. SAStepped(sasess, p, d, sq, n)  BY <1>9, <1>11, <2>2
    <2>4. SARequestInv'  BY <1>11, <2>1 DEF SARequestInv
    <2> QED  BY <2>2, <2>3, <2>4
<1>12. CASE SASessionCreate(p)
    <2>1. /\ sasess = NoSess /\ sareq # NoSess /\ sareq' = NoSess
          /\ SADataProcess(NewSASession(sareq), p) \/ UNCHANGED <<sasess, usess, pool, out>>
        BY <1>12 DEF SASessionCreate
    <2>2. SARequestInv'  BY <2>1 DEF SARequestInv
    <2>3. CASE SADataProcess(NewSASession(sareq), p)
        <3> DEFINE s == NewSASession(sareq)
        <3>1. /\ s \in SASession /\ Shape(Pool, s)
              /\ \A e \in Dirs : s.ep[e].dstore = NoStore
              /\ s.four_way = "INIT" /\ s.fin1_seq = 0 /\ s.fin2_seq = 0
              /\ \A B \in [Dirs -> SUBSET Nat] : (\A e \in Dirs : B[e] = {}) => Tracks(s, B)
            BY <1>10, <2>1, NewSASessionIs
        <3> HIDE DEF s
        <3>2. SAFresh(s)  BY <1>10, <2>1, <3>1 DEF SAFresh
        <3>3. Slots(s, usess) = Slots(NoSess, usess)
            BY <3>1, SomeSession DEF Slots, Owner
        <3>4. SAFinds(s)  BY <1>7, <1>10, <2>1, <3>1, <3>2, <3>3 DEF SAFinds
        <3>5. SAStepped(s, p, d, sq, n)  BY <1>9, <2>3, <3>4 DEF s
        <3> QED  BY <2>2, <3>4, <3>5
    <2> QED  BY <2>1, <2>2, <2>3
<1>13. CASE SAHandshake(p)
    <2>1. /\ sasess = NoSess /\ ~(sareq # NoSess /\ FirstData(p))
          /\ sareq' \in RequestStates(p) /\ UNCHANGED <<sasess, usess, pool, out>>
        BY <1>4, <1>13 DEF SAHandshake
    <2>2. SARequestInv'
        <3>1. CASE sareq = NoSess
            <4>1. sareq' = NoSess  BY <1>4, <2>1, <3>1 DEF RequestStates
            <4> QED  BY <4>1 DEF SARequestInv
        <3>2. CASE sareq # NoSess
            <4>1. ~FirstData(p)  BY <2>1, <3>2
            <4>2. sareq' = IF IsSAAckAck(p) THEN [sareq EXCEPT !.state = "ACK_ACK"]
                           ELSE IF p.rst THEN NoSess ELSE sareq
                <5>1. RequestStates(p) = {IF IsSAAckAck(p) THEN [sareq EXCEPT !.state = "ACK_ACK"]
                                          ELSE IF p.rst THEN NoSess ELSE sareq}
                    BY <1>4, <3>2 DEF RequestStates
                <5> QED  BY <2>1, <5>1
            <4>3. CASE sareq' = NoSess  BY <4>3 DEF SARequestInv
            <4>4. CASE sareq' # NoSess
                <5>1. IsSAAckAck(p) \/ (sareq.state = "ACK_ACK" /\ ~p.rst)
                    BY <1>10, <3>2, <4>2, <4>4
                <5>2. n = 0
                    <6>1. ~(p.len > 0)  BY <4>1, <5>1 DEF FirstData
                    <6> QED  BY <1>2, <1>4, <6>1
                <5>3. sareq' \in Request /\ sareq'.state = "ACK_ACK"
                      /\ sareq'.req_sn_init = FirstSeq("req") /\ sareq'.res_sn_init = FirstSeq("res")
                    <6>1. sareq \in Request /\ sareq.req_sn_init = FirstSeq("req")
                          /\ sareq.res_sn_init = FirstSeq("res")
                        BY <1>10, <3>2
                    <6>2. CASE IsSAAckAck(p)
                        <7>1. sareq' = [sareq EXCEPT !.state = "ACK_ACK"]  BY <4>2, <6>2
                        <7> QED  BY <6>1, <7>1 DEF Request
                    <6>3. CASE ~IsSAAckAck(p)
                        <7>1. sareq' = sareq /\ sareq.state = "ACK_ACK"  BY <4>2, <4>4, <5>1, <6>3
                        <7> QED  BY <6>1, <7>1
                    <6> QED  BY <6>2, <6>3
                <5>4. \A e \in Dirs : snt'[e].bytes = {}
                    <6>1. sq .. sq + n - 1 = {}  BY <1>2, <5>2
                    <6>2. \A e \in Dirs : Captured[e] = {}  BY <1>5, <1>10, <3>2
                    <6>3. \A e \in Dirs : Captured'[e] = {}
                        BY <1>2, <1>5, <6>1, <6>2, PlusIs
                    <6> QED  BY <6>3 DEF Captured
                <5>5. sasess' = NoSess /\ out' = <<>>  BY <1>10, <2>1, <3>2
                <5> QED  BY <5>3, <5>4, <5>5 DEF SARequestInv
            <4> QED  BY <4>3, <4>4
        <3> QED  BY <3>1, <3>2
    <2> QED  BY <2>1, <2>2
<1> QED  BY <1>1, <1>11, <1>12, <1>13 DEF SATcpPacket

-----------------------------------------------------------------------------
(* UDP sessions and timeouts. *)

LEMMA PoolSet ==
    ASSUME NEW dp, NEW sl, Owned(dp, sl), SetPool(dp)
    PROVE  Pool' = dp
<1>1. dp = [free |-> dp.free, allac |-> dp.allac, data |-> dp.data]  BY OwnedFacts
<1> QED  BY <1>1 DEF Pool, SetPool

LEMMA ShapeSame ==
    ASSUME NEW s, NEW dp, NEW dq, Shape(dp, s), \A e \in Dirs : Stored(dq, s, e) = Stored(dp, s, e)
    PROVE  Shape(dq, s)
BY DEF Shape, KeepsUp

\* The UDP sessions of which that of k becomes v.
Put(U, V, k, v) == V = [U EXCEPT ![k] = v]

LEMMA PutIs ==
    ASSUME NEW U \in UdpSessions, NEW V, NEW k \in UdpKeys, NEW v \in [Dirs -> UdpEp], Put(U, V, k, v)
    PROVE  V \in UdpSessions /\ V[k] = v /\ v # NoSess /\ \A j \in UdpKeys : j # k => V[j] = U[j]
<1>1. v # NoSess  BY SomeSession
<1> QED  BY <1>1 DEF Put, UdpSessions

LEMMA UdpSlot ==
    ASSUME NEW s, NEW U, NEW k \in UdpKeys, NEW e \in Dirs
    PROVE  Slots(s, U)[<<k, e>>] = IF U[k] = NoSess THEN NoStore ELSE U[k][e].dstore
<1>1. <<k, e>>[1] = k /\ <<k, e>>[2] = e  OBVIOUS
<1>2. <<k, e>> \in Owner /\ k # "tcp"  BY OwnerCases
<1> QED  BY <1>1, <1>2 DEF Slots

\* Endpoint d of the session of k becomes w[d].
PutEp(U, V, k, d, w) ==
    /\ Put(U, V, k, w) /\ U[k] # NoSess
    /\ w \in [Dirs -> UdpEp] /\ \A e \in Dirs : e # d => w[e] = U[k][e]

LEMMA SlotsUdp ==
    ASSUME NEW U \in UdpSessions, NEW s, NEW k \in UdpKeys, NEW d \in Dirs, NEW V, NEW w,
           PutEp(U, V, k, d, w)
    PROVE  V \in UdpSessions /\ Slots(s, V) = [Slots(s, U) EXCEPT ![<<k, d>>] = w[d].dstore]
<1> DEFINE h == <<k, d>>
           sm == [Slots(s, U) EXCEPT ![h] = w[d].dstore]
<1>3. V \in UdpSessions /\ V[k] = w /\ w # NoSess /\ \A j \in UdpKeys : j # k => V[j] = U[j]
    BY PutIs DEF PutEp
<1>4. DOMAIN Slots(s, V) = Owner /\ DOMAIN Slots(s, U) = Owner /\ h \in Owner
    BY OwnerCases DEF Slots
<1>5. Slots(s, V) = [g \in Owner |-> Slots(s, V)[g]] /\ sm = [g \in Owner |-> sm[g]]
    <2>1. Slots(s, V) = [g \in Owner |-> Slots(s, V)[g]] /\ Slots(s, U) = [g \in Owner |-> Slots(s, U)[g]]
        BY DEF Slots
    <2> QED  BY <1>4, <2>1
<1>6. ASSUME NEW g \in Owner PROVE Slots(s, V)[g] = sm[g]
    <2>1. CASE g = h
        <3>1. Slots(s, V)[<<k, d>>] = IF V[k] = NoSess THEN NoStore ELSE V[k][d].dstore  BY UdpSlot
        <3> QED  BY <1>3, <1>4, <2>1, <3>1
    <2>2. CASE g # h
        <3>1. sm[g] = Slots(s, U)[g]  BY <1>4, <2>2
        <3>2. ASSUME NEW e \in Dirs, g = <<"tcp", e>> PROVE Slots(s, V)[g] = Slots(s, U)[g]
            <4>1. g[1] = "tcp"  BY <3>2
            <4> QED  BY <4>1 DEF Slots
        <3>3. ASSUME NEW j \in UdpKeys, NEW e \in Dirs, g = <<j, e>> PROVE Slots(s, V)[g] = Slots(s, U)[g]
            <4>1. Slots(s, V)[g] = IF V[j] = NoSess THEN NoStore ELSE V[j][e].dstore
                <5>1. Slots(s, V)[<<j, e>>] = IF V[j] = NoSess THEN NoStore ELSE V[j][e].dstore  BY UdpSlot
                <5> QED  BY <3>3, <5>1
            <4>2. Slots(s, U)[g] = IF U[j] = NoSess THEN NoStore ELSE U[j][e].dstore  BY <3>3, UdpSlot
            <4>3. j # k \/ e # d  BY <2>2, <3>3
            <4> QED  BY <1>3, <4>1, <4>2, <4>3 DEF PutEp
        <3> QED  BY <3>1, <3>2, <3>3, OwnerCases
    <2> QED  BY <2>1, <2>2
<1> HIDE DEF sm
<1>7. Slots(s, V) = sm  BY <1>5, <1>6
<1> QED  BY <1>3, <1>7 DEF sm

\* The connection's session is not touched.
TcpKept(dp, U) ==
    /\ usess' \in UdpSessions /\ Owned(Pool', Slots(sasess, usess'))
    /\ \A e \in Dirs : Content(Pool', Slots(sasess, usess'), <<"tcp", e>>)
                         = Content(dp, Slots(sasess, U), <<"tcp", e>>)

LEMMA UdpDataWriteIs ==
    ASSUME usess \in UdpSessions, NEW k \in UdpKeys, NEW v \in [Dirs -> UdpEp],
           NEW U, Put(usess, U, k, v), Owned(Pool, Slots(sasess, U)),
           NEW d \in Dirs, NEW n \in Nat, UdpDataWrite(k, v, d, n)
    PROVE  TcpKept(Pool, U)
<1> DEFINE h == <<k, d>>
           sl == Slots(sasess, U)
           bytes == [i \in 1 .. n |-> [from |-> k, dir |-> d, n |-> 0]]
           ep == v[d]
           w == WritePayload(Pool, ep, bytes)
<1>1. U \in UdpSessions /\ U[k] = v /\ v # NoSess  BY PutIs
<1>2. h \in Owner /\ sl[h] = ep.dstore
    <2>1. sl[h] = IF U[k] = NoSess THEN NoStore ELSE U[k][d].dstore  BY UdpSlot
    <2> QED  BY <1>1, <2>1, OwnerCases
<1>3. bytes \in Seq(Byte) /\ BytesOf(h, bytes)
    <2>1. [from |-> k, dir |-> d, n |-> 0] \in Byte  BY DEF Byte, From
    <2>2. BytesOf(h, bytes)  BY DEF BytesOf
    <2> QED  BY <2>1, <2>2
<1>4. ep \in UdpEp  OBVIOUS
<1>5. \/ Pool' = Pool /\ usess' = U
      \/ SetPool(w.dp) /\ usess' = [usess EXCEPT ![k] = [v EXCEPT ![d] = w.ep]]
    BY DEF UdpDataWrite, pool, Pool, Put
<1> HIDE DEF bytes, sl
<1>6. CASE Pool' = Pool /\ usess' = U
    BY <1>1, <1>6 DEF TcpKept, sl
<1>7. CASE SetPool(w.dp) /\ usess' = [usess EXCEPT ![k] = [v EXCEPT ![d] = w.ep]]
    <2>1. Put(U, usess', k, [v EXCEPT ![d] = w.ep])
        <3> DEFINE x == [v EXCEPT ![d] = w.ep]
        <3>1. usess' = [usess EXCEPT ![k] = x]  BY <1>7
        <3> HIDE DEF x
        <3>2. [usess EXCEPT ![k] = x] = [[usess EXCEPT ![k] = v] EXCEPT ![k] = x]  BY DEF UdpSessions
        <3> QED  BY <3>1, <3>2 DEF Put, x
    <2>2. \/ sl[h] = NoStore /\ w.dp = Pool /\ w.ep = [ep EXCEPT !.error = TRUE]
          \/ \E dst \in Stores :
               LET sm == [sl EXCEPT ![h] = dst]
               IN  /\ w.ep = [ep EXCEPT !.dstore = dst]
                   /\ Owned(w.dp, sm) /\ Same(Pool, sl, w.dp, sm, h)
                   /\ Written(Content(Pool, sl, h), bytes, w.dp.data[dst])
        BY <1>2, <1>3, WritePayloadIs DEF sl
    <2> HIDE DEF w, ep
    <2>3. ASSUME NEW sm, w.ep \in UdpEp, sm = [sl EXCEPT ![h] = w.ep.dstore],
                 Owned(w.dp, sm), Same(Pool, sl, w.dp, sm, h)
          PROVE  TcpKept(Pool, U)
        <3>1. usess' \in UdpSessions /\ Slots(sasess, usess') = sm
            <4> DEFINE y == [v EXCEPT ![d] = w.ep]
                       V == usess'
            <4>1. y \in [Dirs -> UdpEp] /\ y[d] = w.ep /\ \A e \in Dirs : e # d => y[e] = U[k][e]
                BY <1>1, <2>3
            <4>2. U[k] # NoSess /\ Put(U, V, k, y)  BY <1>1, <2>1
            <4> HIDE DEF y, V
            <4>4. PutEp(U, V, k, d, y)  BY <4>1, <4>2 DEF PutEp
            <4>3. V \in UdpSessions /\ Slots(sasess, V) = [Slots(sasess, U) EXCEPT ![<<k, d>>] = y[d].dstore]
                BY <1>1, <4>4, SlotsUdp
            <4> QED  BY <2>3, <4>1, <4>3 DEF V, sl
        <3>2. Pool' = w.dp  BY <1>7, <2>3, PoolSet
        <3>3. ASSUME NEW e \in Dirs PROVE Content(w.dp, sm, <<"tcp", e>>) = Content(Pool, sl, <<"tcp", e>>)
            <4>1. <<"tcp", e>> \in Owner /\ <<"tcp", e>> # h  BY OwnerCases
            <4> QED  BY <2>3, <4>1 DEF Same
        <3> QED  BY <2>3, <3>1, <3>2, <3>3 DEF TcpKept, sl
    <2>4. CASE sl[h] = NoStore /\ w.dp = Pool /\ w.ep = [ep EXCEPT !.error = TRUE]
        <3>1. w.ep \in UdpEp /\ w.ep.dstore = ep.dstore  BY <1>4, <2>4 DEF UdpEp
        <3>2. sl \in [Owner -> Nat]  BY DEF Owned, sl
        <3>3. sl = [sl EXCEPT ![h] = w.ep.dstore]  BY <1>2, <3>1, <3>2
        <3>4. Same(Pool, sl, w.dp, sl, h) /\ Owned(w.dp, sl)  BY <2>4 DEF Same, sl
        <3> QED  BY <2>3, <3>1, <3>3, <3>4
    <2>5. ASSUME NEW dst \in Stores, NEW sm, sm = [sl EXCEPT ![h] = dst],
                 w.ep = [ep EXCEPT !.dstore = dst], Owned(w.dp, sm), Same(Pool, sl, w.dp, sm, h)
          PROVE  TcpKept(Pool, U)
        <3>1. dst \in Nat  BY OwnedFacts DEF sl
        <3>2. w.ep \in UdpEp /\ w.ep.dstore = dst  BY <1>4, <2>5, <3>1 DEF UdpEp
        <3> QED  BY <2>3, <2>5, <3>2
    <2> QED  BY <2>2, <2>4, <2>5
<1> QED  BY <1>5, <1>6, <1>7

LEMMA SAUdpPacketIs ==
    ASSUME SAInv, NEW k \in UdpKeys, NEW d \in Dirs, NEW n \in UdpSizes, SAUdpPacket(k, d, n)
    PROVE  TcpKept(Pool, usess)
<1>1. usess \in UdpSessions /\ Owned(Pool, Slots(sasess, usess))  BY DEF SAInv
<1>2. n \in Nat  BY SAAssumption
<1>3. CASE usess[k] # NoSess /\ UdpDataWrite(k, usess[k], d, n)
    <2>1. usess[k] \in [Dirs -> UdpEp] /\ Put(usess, usess, k, usess[k])
        BY <1>1, <1>3 DEF UdpSessions, Put
    <2> QED  BY <1>1, <1>2, <1>3, <2>1, UdpDataWriteIs
<1>4. CASE usess[k] = NoSess /\ UdpDataWrite(k, [e \in Dirs |-> NewUdpEp], d, n)
    <2> DEFINE v == [e \in Dirs |-> NewUdpEp]
               U == [usess EXCEPT ![k] = v]
    <2>1. NewUdpEp \in UdpEp /\ NewUdpEp.dstore = NoStore  BY DEF NewUdpEp, UdpEp, NoStore
    <2>2. v \in [Dirs -> UdpEp] /\ \A e \in Dirs : v[e].dstore = NoStore  BY <2>1
    <2>3. v # NoSess  BY <2>2, SomeSession
    <2> HIDE DEF v
    <2>4. U \in UdpSessions /\ U[k] = v /\ \A j \in UdpKeys : j # k => U[j] = usess[j]
        BY <1>1, <2>2 DEF UdpSessions
    <2> HIDE DEF U
    <2>5. Slots(sasess, U) = Slots(sasess, usess)
        <3>1. ASSUME NEW g \in Owner PROVE Slots(sasess, U)[g] = Slots(sasess, usess)[g]
            <4>1. ASSUME NEW e \in Dirs, g = <<"tcp", e>> PROVE Slots(sasess, U)[g] = Slots(sasess, usess)[g]
                <5>1. g[1] = "tcp"  BY <4>1
                <5> QED  BY <5>1 DEF Slots
            <4>2. ASSUME NEW j \in UdpKeys, NEW e \in Dirs, g = <<j, e>>
                  PROVE  Slots(sasess, U)[g] = Slots(sasess, usess)[g]
                <5>1. Slots(sasess, U)[g] = IF U[j] = NoSess THEN NoStore ELSE U[j][e].dstore
                    BY <2>4, <4>2, SlotsAre
                <5>2. Slots(sasess, usess)[g] = IF usess[j] = NoSess THEN NoStore ELSE usess[j][e].dstore
                    BY <1>1, <4>2, SlotsAre
                <5> QED  BY <1>4, <2>2, <2>3, <2>4, <5>1, <5>2
            <4> QED  BY <4>1, <4>2, OwnerCases
        <3>2. \A s, x : Slots(s, x) = [g \in Owner |-> Slots(s, x)[g]]  BY DEF Slots
        <3> QED  BY <3>1, <3>2
    <2>6. TcpKept(Pool, U)
        <3>1. Put(usess, U, k, v) /\ Owned(Pool, Slots(sasess, U)) /\ UdpDataWrite(k, v, d, n)
            BY <1>1, <1>4, <2>5 DEF Put, U, v
        <3> QED  BY <1>1, <1>2, <2>2, <3>1, UdpDataWriteIs
    <2> QED  BY <2>5, <2>6 DEF TcpKept
<1>5. CASE UNCHANGED <<usess, pool>>
    <2>1. Pool' = Pool /\ usess' = usess  BY <1>5 DEF pool, Pool
    <2> QED  BY <1>1, <2>1 DEF TcpKept
<1> QED  BY <1>3, <1>4, <1>5 DEF SAUdpPacket

LEMMA UdpTimeoutIs ==
    ASSUME SAInv, NEW k \in UdpKeys, UdpTimeout(k)
    PROVE  TcpKept(Pool, usess)
<1> DEFINE a == <<k, "req">>
           b == <<k, "res">>
           v == usess[k]
           sl == Slots(sasess, usess)
           dq == DstoreFree(Pool, v)
<1>1. usess \in UdpSessions /\ Owned(Pool, sl)  BY DEF SAInv
<1>2. v # NoSess /\ usess' = [usess EXCEPT ![k] = NoSess] /\ SetPool(dq)  BY DEF UdpTimeout
<1>3. "req" \in Dirs /\ "res" \in Dirs /\ a # b  BY DEF Dirs
<1>4. a \in Owner /\ b \in Owner /\ v["req"].dstore = sl[a] /\ v["res"].dstore = sl[b]
    BY <1>1, <1>2, <1>3, OwnerCases, SlotsAre
<1>5. Freed(Pool, sl, dq, a, b)
    <2> HIDE DEF a, b, v, sl
    <2> QED  BY <1>1, <1>3, <1>4, DstoreFreeIs
<1>6. PICK sm : /\ Owned(dq, sm) /\ sm[a] = NoStore /\ sm[b] = NoStore
                /\ \A g \in Owner : g # a /\ g # b =>
                      sm[g] = sl[g] /\ Content(dq, sm, g) = Content(Pool, sl, g)
    BY <1>5 DEF Freed
<1> HIDE DEF dq, sl
<1>7. usess' \in UdpSessions /\ usess'[k] = NoSess /\ \A j \in UdpKeys : j # k => usess'[j] = usess[j]
    BY <1>1, <1>2 DEF UdpSessions
<1>8. sm \in [Owner -> Nat] /\ Slots(sasess, usess') = [g \in Owner |-> Slots(sasess, usess')[g]]
    BY <1>6 DEF Owned, Slots
<1>9. ASSUME NEW g \in Owner PROVE Slots(sasess, usess')[g] = sm[g]
    <2>1. ASSUME NEW e \in Dirs, g = <<"tcp", e>> PROVE Slots(sasess, usess')[g] = sm[g]
        <3>1. g # a /\ g # b /\ g[1] = "tcp"  BY <2>1, OwnerCases
        <3>2. Slots(sasess, usess')[g] = sl[g]  BY <3>1 DEF Slots, sl
        <3> QED  BY <1>6, <3>1, <3>2
    <2>2. ASSUME NEW j \in UdpKeys, NEW e \in Dirs, g = <<j, e>> PROVE Slots(sasess, usess')[g] = sm[g]
        <3>1. Slots(sasess, usess')[g] = IF usess'[j] = NoSess THEN NoStore ELSE usess'[j][e].dstore
            BY <1>7, <2>2, SlotsAre
        <3>2. sl[g] = IF usess[j] = NoSess THEN NoStore ELSE usess[j][e].dstore
            BY <1>1, <2>2, SlotsAre DEF sl
        <3>3. CASE j = k
            <4>1. g = a \/ g = b  BY <2>2, <3>3 DEF Dirs
            <4> QED  BY <1>6, <1>7, <3>1, <3>3, <4>1
        <3>4. CASE j # k
            <4>1. g # a /\ g # b  BY <2>2, <3>4
            <4> QED  BY <1>6, <1>7, <3>1, <3>2, <3>4, <4>1
        <3> QED  BY <3>3, <3>4
    <2> QED  BY <2>1, <2>2, OwnerCases
<1>10. Slots(sasess, usess') = sm  BY <1>8, <1>9
<1>11. Pool' = dq  BY <1>2, <1>6, PoolSet
<1>12. ASSUME NEW e \in Dirs PROVE Content(dq, sm, <<"tcp", e>>) = Content(Pool, sl, <<"tcp", e>>)
    <2>1. <<"tcp", e>> \in Owner /\ <<"tcp", e>> # a /\ <<"tcp", e>> # b  BY OwnerCases
    <2> QED  BY <1>6, <2>1
<1> QED  BY <1>6, <1>7, <1>10, <1>11, <1>12 DEF TcpKept, sl

LEMMA SASessionTimeoutIs ==
    ASSUME SAInv, SASessionTimeout
    PROVE  /\ sasess' = NoSess /\ UNCHANGED <<sareq, usess>> /\ Owned(Pool', Slots(NoSess, usess))
           /\ \E o : out' = <<RecordOf(o, "timeout")>>
<1> DEFINE o == [dp |-> Pool, s |-> sasess, out |-> out]
           c == Close(o, "timeout")
<1>1. sasess # NoSess /\ sasess' = NoSess /\ SetPool(c.dp) /\ out' = c.out /\ UNCHANGED <<sareq, usess>>
    BY DEF SASessionTimeout
<1>2. o.dp = Pool /\ o.s = sasess /\ o.out = out /\ o = [dp |-> o.dp, s |-> o.s, out |-> o.out]  OBVIOUS
<1> HIDE DEF o
<1>3. usess \in UdpSessions /\ sasess \in SASession /\ out = <<>> /\ Owned(Pool, Slots(sasess, usess))
    BY <1>1 DEF SAInv, SASessionInv
<1>4. Has(o, usess)  BY <1>2, <1>3 DEF Has
<1>5. Closed(o, c, "timeout", usess)  BY <1>3, <1>4, CloseIs
<1> HIDE DEF c
<1>6. Owned(c.dp, Slots(NoSess, usess)) /\ c.out = Append(<<>>, RecordOf(o, "timeout"))
    BY <1>2, <1>3, <1>5 DEF Closed
<1>7. Pool' = c.dp  BY <1>1, <1>6, PoolSet
<1> DEFINE x == RecordOf(o, "timeout")
<1> HIDE DEF x
<1>8. c.out = <<x>>
    <2>1. c.out = Append(<<>>, x)  BY <1>6 DEF x
    <2> QED  BY <2>1
<1> QED  BY <1>1, <1>6, <1>7, <1>8 DEF x

LEMMA SAInvInit == HostInit /\ SAInit => SAInv
<1> SUFFICES ASSUME HostInit, SAInit PROVE SAInv
    OBVIOUS
<1>1. NetInv  BY NetInit
<1>2. /\ sareq = NoSess /\ sasess = NoSess /\ out = <<>>
      /\ usess = [k \in UdpKeys |-> NoSess]
      /\ free = [i \in 1 .. PreAlloc |-> i] /\ allac = PreAlloc /\ data = [i \in Stores |-> <<>>]
    BY DEF SAInit
<1>3. PICK m \in Nat : Stores = 1 .. m /\ PreAlloc <= m  BY SizeFacts
<1>4. PreAlloc \in Nat /\ DSize \in Nat  BY SizeFacts
<1>5. usess \in UdpSessions  BY <1>2 DEF UdpSessions
<1> DEFINE dp == Pool
           sl == Slots(sasess, usess)
<1>6. dp.free = free /\ dp.allac = allac /\ dp.data = data
      /\ dp = [free |-> dp.free, allac |-> dp.allac, data |-> dp.data]
    BY DEF Pool
<1>7. free \in Seq(Stores) /\ Len(free) = PreAlloc /\ \A j \in 1 .. PreAlloc : free[j] = j
    <2>1. \A i \in 1 .. PreAlloc : i \in Stores  BY <1>3, <1>4
    <2> QED  BY <1>2, <1>4, <2>1
<1>8. data \in [Stores -> Seq(Byte)] /\ \A i \in Stores : data[i] = <<>>
    <2>1. <<>> \in Seq(Byte)  BY EmptySeq
    <2> QED  BY <1>2, <2>1
<1>9. \A h \in Owner : sl[h] = NoStore
    <2> SUFFICES ASSUME NEW h \in Owner PROVE sl[h] = NoStore
        OBVIOUS
    <2>1. ASSUME NEW d \in Dirs, h = <<"tcp", d>> PROVE sl[h] = NoStore
        BY <1>2, <1>5, <2>1, SlotsAre
    <2>2. ASSUME NEW k \in UdpKeys, NEW d \in Dirs, h = <<k, d>> PROVE sl[h] = NoStore
        <3>1. usess[k] = NoSess  BY <1>2
        <3> QED  BY <2>2, <3>1, UdpSlot
    <2> QED  BY <2>1, <2>2, OwnerCases
<1>10. sl \in [Owner -> Nat]
    <2>1. sl = [h \in Owner |-> sl[h]]  BY DEF Slots
    <2> QED  BY <1>9, <2>1 DEF NoStore
<1> HIDE DEF dp, sl
<1>11. dp \in DataPool  BY <1>2, <1>4, <1>6, <1>7, <1>8 DEF DataPool
<1>12. PoolShape(dp)
    <2>1. dp.allac >= PreAlloc /\ dp.allac \in {0} \cup Stores  BY <1>2, <1>3, <1>4, <1>6
    <2>2. \A i \in Stores : Len(dp.data[i]) <= DSize /\ (i > dp.allac => dp.data[i] = <<>>)
        <3>1. Len(<<>>) = 0  OBVIOUS
        <3> QED  BY <1>4, <1>6, <1>8, <3>1
    <2>3. \A j \in 1 .. Len(dp.free) : dp.free[j] <= dp.allac  BY <1>2, <1>4, <1>6, <1>7
    <2>4. \A j, k \in 1 .. Len(dp.free) : dp.free[j] = dp.free[k] => j = k  BY <1>6, <1>7
    <2> QED  BY <1>11, <2>1, <2>2, <2>3, <2>4 DEF PoolShape
<1>13. \A h \in Owner, j \in 1 .. Len(dp.free) : dp.free[j] # sl[h]
    BY <1>4, <1>6, <1>7, <1>9 DEF NoStore
<1>14. \A i \in 1 .. dp.allac : \E j \in 1 .. Len(dp.free) : dp.free[j] = i
    BY <1>2, <1>6, <1>7
<1>15. \A h \in Owner : sl[h] <= dp.allac  BY <1>2, <1>4, <1>6, <1>9 DEF NoStore
<1>16. Owned(dp, sl)
    BY <1>9, <1>10, <1>12, <1>13, <1>14, <1>15 DEF Owned
<1> QED  BY <1>1, <1>2, <1>5, <1>16 DEF SAInv, SARequestInv, SASessionInv, dp, sl

\* The packets of the handshake.
LEMMA SAHandshakeIs ==
    ASSUME SAInv, Syn(SATcpPacket) \/ SynAck(SATcpPacket)
    PROVE  SAInv' /\ Captured' = Captured /\ UNCHANGED <<sasess, usess, pool, out>>
<1>1. NetInv /\ SARequestInv /\ SASessionInv  BY DEF SAInv
<1>2. FirstSeq("req") \in Nat /\ FirstSeq("res") \in Nat  BY DirFacts DEF Dirs
<1>3. ASSUME UNCHANGED <<sasess, usess, pool, out>>, NetInv', SARequestInv',
             hs' < 3 => sasess = NoSess /\ out = <<>>
      PROVE  SAInv'
    <2>1. Pool' = Pool  BY <1>3 DEF pool, Pool
    <2> QED  BY <1>3, <2>1 DEF SAInv, SASessionInv
<1>4. CASE Syn(SATcpPacket)
    <2> DEFINE p == Packet("req", "syn", ReqIsn, 0, FALSE, FALSE, 0)
    <2>1. hs < 3 /\ hs' < 3 /\ hs' \in hs .. 4 /\ UNCHANGED <<snt, rcv>>
        BY <1>1, <1>4, SynStep DEF Syn, SendsSyn
    <2>2. SATcpPacket(p)  BY <1>4 DEF Syn
    <2>3. p.kind = "syn" /\ p.seq + 1 = FirstSeq("req")  BY DEF Packet, FirstSeq
    <2> HIDE DEF p
    <2>4. SAHandshake(p)  BY <2>2, <2>3 DEF SATcpPacket, SASessionCreate
    <2>5. sareq' \in RequestStates(p) /\ UNCHANGED <<sasess, usess, pool, out>>  BY <2>4 DEF SAHandshake
    <2>6. sasess = NoSess /\ out = <<>>  BY <2>1 DEF SAInv
    <2>7. NetInv' /\ Captured' = Captured
        <3>1. hs' < 4  BY <1>1, <2>1 DEF NetInv
        <3> QED  BY <1>1, <2>1, <3>1, NetQuiet
    <2>8. ~(hs' >= 3) /\ hs' # 4  BY <1>1, <2>1 DEF NetInv
    <2>9. SARequestInv'
        <3>1. CASE sareq' = sareq
            <4>1. \A d \in Dirs : snt'[d].bytes = snt[d].bytes  BY <2>1
            <4> QED  BY <1>1, <2>1, <2>5, <2>8, <3>1, <4>1 DEF SARequestInv
        <3>2. CASE sareq' = [state |-> "SYN", req_sn_init |-> FirstSeq("req"), res_sn_init |-> 0]
            <4>1. \A d \in Dirs : snt'[d].bytes = {}
                <5>1. hs < 3 /\ hs < 4  BY <1>1, <2>1 DEF NetInv
                <5>2. \A d \in Dirs : d = "req" \/ d = "res"  BY DEF Dirs
                <5> QED  BY <1>1, <2>1, <5>1, <5>2 DEF NetInv
            <4>2. sareq' \in Request /\ sareq'.state = "SYN" /\ sareq'.req_sn_init = FirstSeq("req")
                  /\ sareq'.res_sn_init = 0
                BY <1>2, <3>2 DEF Request
            <4> QED  BY <2>5, <2>6, <2>8, <4>1, <4>2 DEF SARequestInv
        <3>3. sareq' = sareq \/ sareq' = [state |-> "SYN", req_sn_init |-> FirstSeq("req"), res_sn_init |-> 0]
            BY <2>3, <2>5 DEF RequestStates
        <3> QED  BY <3>1, <3>2, <3>3
    <2> QED  BY <1>3, <2>5, <2>6, <2>7, <2>9
<1>5. CASE SynAck(SATcpPacket)
    <2> DEFINE p == Packet("res", "synack", ResIsn, 0, FALSE, FALSE, FirstSeq("req"))
    <2>1. hs \in {2, 3} /\ hs' \in {hs, 3} /\ UNCHANGED <<snt, rcv>>  BY <1>5 DEF SynAck
    <2>2. SATcpPacket(p)  BY <1>5 DEF SynAck
    <2>3. p.kind = "synack" /\ p.seq + 1 = FirstSeq("res")  BY DEF Packet, FirstSeq
    <2> HIDE DEF p
    <2>4. SAHandshake(p)  BY <2>2, <2>3 DEF SATcpPacket, SASessionCreate
    <2>5. sareq' \in RequestStates(p) /\ UNCHANGED <<sasess, usess, pool, out>>  BY <2>4 DEF SAHandshake
    <2>6. NetInv' /\ Captured' = Captured
        <3>1. hs' \in hs .. 4 /\ hs >= 2 /\ hs' < 4  BY <2>1
        <3> QED  BY <1>1, <2>1, <3>1, NetQuiet
    <2>7. hs' # 4 /\ (hs >= 3 => hs' >= 3) /\ (hs' < 3 => hs < 3)  BY <2>1
    <2>8. \A d \in Dirs : snt'[d].bytes = snt[d].bytes  BY <2>1
    <2>9. SARequestInv'
        <3>1. CASE sareq # NoSess /\ sareq.state = "SYN"
            <4>1. sareq' = [sareq EXCEPT !.state = "SYN_ACK", !.res_sn_init = FirstSeq("res")]
                BY <2>3, <2>5, <3>1 DEF RequestStates
            <4>2. sareq \in Request /\ sareq.req_sn_init = FirstSeq("req") /\ sasess = NoSess /\ out = <<>>
                  /\ \A d \in Dirs : snt[d].bytes = {}
                BY <1>1, <3>1 DEF SARequestInv
            <4>3. sareq' \in Request /\ sareq'.state = "SYN_ACK" /\ sareq'.req_sn_init = FirstSeq("req")
                  /\ sareq'.res_sn_init = FirstSeq("res")
                BY <1>2, <4>1, <4>2 DEF Request
            <4> QED  BY <2>5, <2>7, <2>8, <4>2, <4>3 DEF SARequestInv
        <3>2. CASE ~(sareq # NoSess /\ sareq.state = "SYN")
            <4>1. sareq' = sareq  BY <2>3, <2>5, <3>2 DEF RequestStates
            <4> QED  BY <1>1, <2>5, <2>7, <2>8, <3>2, <4>1 DEF SARequestInv
        <3> QED  BY <3>1, <3>2
    <2>10. hs' < 3 => sasess = NoSess /\ out = <<>>  BY <2>7 DEF SAInv
    <2> QED  BY <1>3, <2>5, <2>6, <2>9, <2>10
<1> QED  BY <1>4, <1>5

LEMMA SAInvSegment ==
    ASSUME SAInv, NEW d \in Dirs, NEW sq, NEW n, NEW fin \in BOOLEAN, NEW rst \in BOOLEAN, Passed(d, sq, n),
           SATcpPacket(Header(d, sq, n, fin, rst))
    PROVE  SAInv'
<1> DEFINE p == Seg(d, sq, n, fin, rst, Received(Other(d)))
<1>1. /\ SARequestInv'
      /\ \/ sasess = NoSess /\ UNCHANGED <<sasess, usess, pool, out>>
         \/ \E s : SAFinds(s) /\ SAStepped(s, p, d, sq, n)
    BY SASegmentIs
<1>2. NetInv' /\ ~(hs' < 3)
    <2>1. NetInv' /\ hs >= 3 /\ (hs' = hs \/ hs' = 4) /\ hs \in 0 .. 4  BY DEF Passed, SAInv, NetInv
    <2> QED  BY <2>1
<1> HIDE DEF p
<1>3. CASE sasess = NoSess /\ UNCHANGED <<sasess, usess, pool, out>>
    <2>1. Pool' = Pool  BY <1>3 DEF pool, Pool
    <2> QED  BY <1>1, <1>2, <1>3, <2>1 DEF SAInv, SASessionInv
<1>4. ASSUME NEW s, SAFinds(s), SAStepped(s, p, d, sq, n) PROVE SAInv'
    <2>1. SASessionInv' /\ Owned(Pool', Slots(sasess', usess')) /\ usess' = usess  BY <1>4, SAStepKeeps
    <2> QED  BY <1>1, <1>2, <2>1 DEF SAInv
<1> QED  BY <1>1, <1>3, <1>4

LEMMA SAInvUdp ==
    ASSUME SAInv, TcpKept(Pool, usess), UNCHANGED <<sareq, sasess, out>>, UNCHANGED network
    PROVE  SAInv' /\ Captured' = Captured
<1>1. UNCHANGED <<hs, snt, rcv>>  BY DEF network
<1>2. NetInv' /\ Captured' = Captured  BY <1>1 DEF SAInv, NetInv, Captured
<1>3. SARequestInv'  BY <1>1 DEF SAInv, SARequestInv
<1>4. SASessionInv'
    <2> SUFFICES ASSUME sasess # NoSess PROVE sasess \in SASession /\ out = <<>> /\ Shape(Pool', sasess)
        BY DEF SASessionInv
    <2>1. sasess \in SASession /\ out = <<>> /\ Shape(Pool, sasess)  BY DEF SAInv, SASessionInv
    <2>2. usess \in UdpSessions /\ usess' \in UdpSessions  BY DEF SAInv, TcpKept
    <2>3. ASSUME NEW e \in Dirs PROVE Stored(Pool', sasess, e) = Stored(Pool, sasess, e)
        <3>1. Stored(Pool', sasess, e) = Content(Pool', Slots(sasess, usess'), <<"tcp", e>>)
            BY <2>1, <2>2, StoredContent
        <3>2. Stored(Pool, sasess, e) = Content(Pool, Slots(sasess, usess), <<"tcp", e>>)
            BY <2>1, <2>2, StoredContent
        <3> QED  BY <3>1, <3>2 DEF TcpKept
    <2> QED  BY <2>1, <2>3, ShapeSame
<1> QED  BY <1>1, <1>2, <1>3, <1>4 DEF SAInv, TcpKept

\* The steps, as far as the connection's session is concerned: it is left alone ...
SAQuiet == Captured' = Captured /\ UNCHANGED <<sasess, out>>

\* ... or times out ...
SAOver == Captured' = Captured /\ sasess' = NoSess /\ \E o : out' = <<RecordOf(o, "timeout")>>

\* ... or is given a packet of n bytes from sq on of direction d.
SAPacket(d, sq, n, fin, rst) ==
    /\ Passed(d, sq, n)
    /\ fin => sq + n = StreamLength(d) /\ (n > 0 => DataFin) /\ Whole(d, Captured')
    /\ rst => n = 0
    /\ \/ sasess = NoSess /\ UNCHANGED <<sasess, out>>
       \/ \E s : SAFinds(s) /\ SAStepped(s, Seg(d, sq, n, fin, rst, Received(Other(d))), d, sq, n)

SAStep ==
    \/ SAQuiet \/ SAOver
    \/ \E d \in Dirs, sq \in Nat, n \in Nat, fin \in BOOLEAN, rst \in BOOLEAN : SAPacket(d, sq, n, fin, rst)

LEMMA SAStepCases ==
    ASSUME SANext
    PROVE  \/ Syn(SATcpPacket) \/ SynAck(SATcpPacket)
           \/ \E d \in Dirs, s \in 0 .. ReqLen + ResLen, n \in 0 .. MaxSeg, fin \in BOOLEAN :
                 Segment(d, s, n, fin, SATcpPacket)
           \/ \E d \in Dirs : Reset(d, SATcpPacket)
           \/ SARequestTimeout /\ UNCHANGED network
           \/ SASessionTimeout /\ UNCHANGED network
           \/ \E k \in UdpKeys, d \in Dirs, n \in UdpSizes : SAUdpPacket(k, d, n) /\ UNCHANGED network
           \/ \E k \in UdpKeys : UdpTimeout(k) /\ UNCHANGED network
BY DEF SANext, HostNext

\* Whoever sends it, a packet of the connection is handled alike.
LEMMA SAPacketIs ==
    ASSUME SAInv, NEW d \in Dirs, NEW sq, NEW n, NEW fin \in BOOLEAN, NEW rst \in BOOLEAN, Passed(d, sq, n),
           fin => sq + n = StreamLength(d) /\ (n > 0 => DataFin) /\ Whole(d, Captured'),
           rst => n = 0,
           SATcpPacket(Header(d, sq, n, fin, rst))
    PROVE  SAInv' /\ SAStep
<1> DEFINE p == Seg(d, sq, n, fin, rst, Received(Other(d)))
<1>1. \/ sasess = NoSess /\ UNCHANGED <<sasess, usess, pool, out>>
      \/ \E s : SAFinds(s) /\ SAStepped(s, p, d, sq, n)
    BY SASegmentIs
<1>2. SAPacket(d, sq, n, fin, rst)  BY <1>1 DEF SAPacket
<1>3. sq \in Nat /\ n \in Nat  BY DEF Passed
<1>4. SAStep  BY <1>2, <1>3 DEF SAStep
<1>5. SAInv'  BY SAInvSegment
<1> QED  BY <1>4, <1>5

LEMMA SAInvNext ==
    ASSUME SAInv, [SANext]_<<saVars, network>>
    PROVE  SAInv' /\ SAStep
<1>0. NetInv  BY DEF SAInv
<1>1. CASE Syn(SATcpPacket) \/ SynAck(SATcpPacket)
    <2>1. SAInv' /\ Captured' = Captured /\ UNCHANGED <<sasess, out>>  BY <1>1, SAHandshakeIs
    <2> QED  BY <2>1 DEF SAStep, SAQuiet
<1>2. ASSUME NEW d \in Dirs, NEW s \in 0 .. ReqLen + ResLen, NEW n \in 0 .. MaxSeg,
             NEW fin \in BOOLEAN, Segment(d, s, n, fin, SATcpPacket)
      PROVE  SAInv' /\ SAStep
    <2>0. Sends(d, s, n, fin)  BY <1>2 DEF Segment, Sends
    <2>1. /\ Passed(d, s, n)
          /\ fin => /\ s + n = StreamLength(d) /\ (n > 0 => DataFin)
                    /\ 0 .. StreamLength(d) - 1 \subseteq Captured'[d]
        BY <1>0, <2>0, NetSegment
    <2>2. SATcpPacket(Header(d, s, n, fin, FALSE))  BY <1>2 DEF Segment
    <2>3. fin => s + n = StreamLength(d) /\ (n > 0 => DataFin) /\ Whole(d, Captured')  BY <2>1 DEF Whole
    <2> QED  BY <2>1, <2>2, <2>3, SAPacketIs
<1>3. ASSUME NEW d \in Dirs, Reset(d, SATcpPacket)
      PROVE  SAInv' /\ SAStep
    <2> DEFINE sq == FirstGap(snt[d].all, 0)
    <2>0. Resets(d)  BY <1>3 DEF Reset, Resets
    <2>1. Passed(d, sq, 0)  BY <1>0, <2>0, NetReset
    <2>2. SATcpPacket(Header(d, sq, 0, FALSE, TRUE))  BY <1>3 DEF Reset
    <2> HIDE DEF sq
    <2> QED  BY <2>1, <2>2, SAPacketIs
<1>4. CASE (SARequestTimeout \/ UNCHANGED saVars) /\ UNCHANGED network
    <2>1. /\ UNCHANGED <<sasess, usess, pool, out>> /\ UNCHANGED <<hs, snt, rcv>>
          /\ sareq' = sareq \/ sareq' = NoSess
        BY <1>4 DEF SARequestTimeout, saVars, network
    <2>2. Pool' = Pool  BY <2>1 DEF pool, Pool
    <2>3. NetInv' /\ Captured' = Captured  BY <1>0, <2>1 DEF NetInv, Captured
    <2>4. SARequestInv' /\ SASessionInv'  BY <2>1, <2>2 DEF SAInv, SARequestInv, SASessionInv
    <2> QED  BY <2>1, <2>2, <2>3, <2>4 DEF SAInv, SAStep, SAQuiet
<1>5. CASE SASessionTimeout /\ UNCHANGED network
    <2>1. /\ sasess' = NoSess /\ UNCHANGED <<sareq, usess>> /\ Owned(Pool', Slots(NoSess, usess))
          /\ \E o : out' = <<RecordOf(o, "timeout")>>
        BY <1>5, SASessionTimeoutIs
    <2>2. UNCHANGED <<hs, snt, rcv>> /\ sasess # NoSess  BY <1>5 DEF SASessionTimeout, network
    <2>3. NetInv' /\ Captured' = Captured  BY <1>0, <2>2 DEF NetInv, Captured
    <2>4. sareq = NoSess /\ ~(hs < 3)  BY <2>2 DEF SAInv, SARequestInv
    <2>5. SARequestInv' /\ SASessionInv' /\ ~(hs' < 3)  BY <2>1, <2>2, <2>4 DEF SARequestInv, SASessionInv
    <2>6. SAInv'  BY <2>1, <2>3, <2>5 DEF SAInv
    <2> QED  BY <2>1, <2>3, <2>6 DEF SAStep, SAOver
<1>6. ASSUME NEW k \in UdpKeys, NEW d \in Dirs, NEW n \in UdpSizes, SAUdpPacket(k, d, n), UNCHANGED network
      PROVE  SAInv' /\ SAStep
    <2>1. TcpKept(Pool, usess)  BY <1>6, SAUdpPacketIs
    <2>2. UNCHANGED <<sareq, sasess, out>>  BY <1>6 DEF SAUdpPacket
    <2>3. SAInv' /\ Captured' = Captured  BY <1>6, <2>1, <2>2, SAInvUdp
    <2> QED  BY <2>2, <2>3 DEF SAStep, SAQuiet
<1>7. ASSUME NEW k \in UdpKeys, UdpTimeout(k), UNCHANGED network
      PROVE  SAInv' /\ SAStep
    <2>1. TcpKept(Pool, usess)  BY <1>7, UdpTimeoutIs
    <2>2. UNCHANGED <<sareq, sasess, out>>  BY <1>7 DEF UdpTimeout
    <2>3. SAInv' /\ Captured' = Captured  BY <1>7, <2>1, <2>2, SAInvUdp
    <2> QED  BY <2>2, <2>3 DEF SAStep, SAQuiet
<1>8. CASE UNCHANGED <<saVars, network>>  BY <1>4, <1>8
<1> QED  BY <1>1, <1>2, <1>3, <1>4, <1>5, <1>6, <1>7, <1>8, SAStepCases

\* The invariant holds in every state: every data store is accounted for, and the session
\* of the connection has stored what it says it has.
THEOREM StreamInvariant == SASpec => []SAInv
<1>1. ASSUME SAInv, [SANext]_<<saVars, network>> PROVE SAInv'  BY <1>1, SAInvNext
<1> QED  BY SAInvInit, <1>1, PTL DEF SASpec

\* SATypeOK for all streams and limits: a connection has a request or a session, never
\* both, the session knows both initial sequence numbers (ch_sa_tcp_session_create), no
\* store has more than its size and none beyond dstore_limits is allocated.
THEOREM StreamTypeCorrect == SASpec => []SATypeOK
<1>1. ASSUME SAInv PROVE SATypeOK
    <2>1. sareq = NoSess \/ sasess = NoSess  BY <1>1 DEF SAInv, SARequestInv
    <2>2. Pool.allac = allac /\ Pool.data = data /\ Pool.free = free  BY DEF Pool
    <2>3. Owned(Pool, Slots(sasess, usess)) /\ usess \in UdpSessions  BY <1>1 DEF SAInv
    <2>4. /\ allac >= PreAlloc /\ allac \in {0} \cup Stores /\ allac \in Nat
          /\ \A i \in Stores : Len(data[i]) <= DSize
        <3>1. PoolShape(Pool) /\ Pool.allac \in Nat  BY <2>3, OwnedFacts DEF Owned
        <3> QED  BY <2>2, <3>1 DEF PoolShape
    <2>5. allac \in PreAlloc .. Max({PreAlloc, DstoreLimits + 1})
        <3>1. PICK m \in Nat : Stores = 1 .. m /\ m = Max({PreAlloc, DstoreLimits + 1})  BY SizeFacts
        <3>2. PreAlloc \in Nat  BY SizeFacts
        <3>3. allac \in PreAlloc .. m  BY <2>4, <3>1, <3>2
        <3> QED  BY <3>1, <3>3
    <2>6. ASSUME sasess # NoSess
          PROVE  /\ sasess.four_way \in {"INIT", "FIN1", "FIN1_ACK", "FIN2", "FIN2_ACK"}
                 /\ \A d \in Dirs : /\ sasess.init_seq[d] = FirstSeq(d)
                                    /\ sasess.ep[d].last_offset \in 0 .. StreamLength(d)
                                    /\ sasess.ep[d].dstore \in {NoStore} \cup 1 .. allac
        <3>1. sasess \in SASession /\ Shape(Pool, sasess)  BY <1>1, <2>6 DEF SAInv, SASessionInv
        <3>2. sasess.four_way \in FourWays  BY <3>1 DEF SASession
        <3>3. ASSUME NEW d \in Dirs PROVE sasess.ep[d].dstore \in {NoStore} \cup 1 .. allac
            <4>1. sasess.ep[d].dstore = Slots(sasess, usess)[<<"tcp", d>>] /\ <<"tcp", d>> \in Owner
                BY <2>3, <3>1, SlotsAre, OwnerCases
            <4>2. \A h \in Owner : Slots(sasess, usess)[h] \in Nat /\ Slots(sasess, usess)[h] <= allac
                BY <2>2, <2>3, OwnedFacts DEF Owned
            <4>3. sasess.ep[d].dstore \in Nat /\ sasess.ep[d].dstore <= allac  BY <4>1, <4>2
            <4> QED  BY <2>4, <4>3 DEF NoStore
        <3> QED  BY <3>1, <3>2, <3>3 DEF Shape, FourWays
    <2> QED  BY <2>1, <2>4, <2>5, <2>6 DEF SATypeOK
<1> QED  BY StreamInvariant, <1>1, PTL

LEMMA HoldersAre ==
    ASSUME SAInv, NEW i \in Nat, i # NoStore
    PROVE  Holders(i) = {h \in Owner : Slots(sasess, usess)[h] = i}
<1> DEFINE sl == Slots(sasess, usess)
<1>1. usess \in UdpSessions /\ (sasess # NoSess => sasess \in SASession)  BY DEF SAInv, SASessionInv
<1>2. ASSUME NEW d \in Dirs
      PROVE  sl[<<"tcp", d>>] = i <=> sasess # NoSess /\ sasess.ep[d].dstore = i
    <2>1. CASE sasess = NoSess
        <3>1. sl[<<"tcp", d>>] = NoStore  BY <1>1, <2>1, SlotsAre
        <3> QED  BY <2>1, <3>1
    <2>2. CASE sasess # NoSess
        <3>1. sl[<<"tcp", d>>] = sasess.ep[d].dstore  BY <1>1, <2>2, SlotsAre
        <3> QED  BY <2>2, <3>1
    <2> QED  BY <2>1, <2>2
<1>3. ASSUME NEW k \in UdpKeys, NEW d \in Dirs
      PROVE  sl[<<k, d>>] = i <=> usess[k] # NoSess /\ usess[k][d].dstore = i
    <2>1. sl[<<k, d>>] = IF usess[k] = NoSess THEN NoStore ELSE usess[k][d].dstore  BY UdpSlot
    <2> QED  BY <2>1
<1> HIDE DEF sl
<1>4. ASSUME NEW h \in Holders(i) PROVE h \in Owner /\ sl[h] = i
    <2>1. CASE \E d \in Dirs : h = <<"tcp", d>> /\ sasess # NoSess /\ sasess.ep[d].dstore = i
        <3>1. PICK d \in Dirs : h = <<"tcp", d>> /\ sasess # NoSess /\ sasess.ep[d].dstore = i  BY <2>1
        <3> QED  BY <1>2, <3>1, OwnerCases
    <2>2. CASE h \in UdpKeys \X Dirs /\ usess[h[1]] # NoSess /\ usess[h[1]][h[2]].dstore = i
        <3>1. PICK k \in UdpKeys, d \in Dirs : h = <<k, d>>  BY <2>2
        <3>2. usess[k] # NoSess /\ usess[k][d].dstore = i  BY <2>2, <3>1
        <3> QED  BY <1>3, <3>1, <3>2, OwnerCases
    <2> QED  BY <1>4, <2>1, <2>2 DEF Holders
<1>5. ASSUME NEW h \in Owner, sl[h] = i PROVE h \in Holders(i)
    <2>1. CASE \E d \in Dirs : h = <<"tcp", d>>
        <3>1. PICK d \in Dirs : h = <<"tcp", d>>  BY <2>1
        <3>2. sasess # NoSess /\ sasess.ep[d].dstore = i  BY <1>2, <1>5, <3>1
        <3> QED  BY <3>1, <3>2 DEF Holders
    <2>2. CASE \E k \in UdpKeys, d \in Dirs : h = <<k, d>>
        <3>1. PICK k \in UdpKeys, d \in Dirs : h = <<k, d>>  BY <2>2
        <3>2. usess[k] # NoSess /\ usess[k][d].dstore = i  BY <1>3, <1>5, <3>1
        <3>3. h \in UdpKeys \X Dirs /\ usess[h[1]] # NoSess /\ usess[h[1]][h[2]].dstore = i  BY <3>1, <3>2
        <3> QED  BY <3>3 DEF Holders
    <2> QED  BY <2>1, <2>2, OwnerCases
<1> QED  BY <1>4, <1>5 DEF sl

\* StoresOwned for any number of UDP sessions and any limits: every data store that has
\* been allocated is in the free list, once, or belongs to one endpoint of one session and
\* has only its bytes, whether sessions end by reset, four-way close, complete data, a lack
\* of memory or a timeout (ch_sa_sentry_dstore_free, ch_sa_udp_session_dstore_free).
THEOREM StreamStoresOwned == SASpec => []StoresOwned
<1>1. ASSUME SAInv PROVE StoresOwned
    <2> SUFFICES ASSUME NEW i \in 1 .. allac
                 PROVE  /\ Cardinality({j \in DOMAIN free : free[j] = i}) + Cardinality(Holders(i)) = 1
                        /\ \A h \in Holders(i), j \in DOMAIN data[i] : <<data[i][j].from, data[i][j].dir>> = h
        BY DEF StoresOwned
    <2> DEFINE sl == Slots(sasess, usess)
               F == {j \in DOMAIN free : free[j] = i}
               H == {h \in Owner : sl[h] = i}
    <2>1. Pool.allac = allac /\ Pool.data = data /\ Pool.free = free  BY DEF Pool
    <2>2. Owned(Pool, sl)  BY <1>1 DEF SAInv
    <2>3. free \in Seq(Stores) /\ allac \in Nat  BY <2>1, <2>2, OwnedFacts
    <2>4. DOMAIN free = 1 .. Len(free)  BY <2>3
    <2>5. i \in Nat /\ i # NoStore  BY <2>3 DEF NoStore
    <2>6. Holders(i) = H  BY <1>1, <2>5, HoldersAre
    <2> HIDE DEF sl
    <2>7. /\ \A j, k \in 1 .. Len(free) : free[j] = free[k] => j = k
          /\ \A h, g \in Owner : sl[h] = sl[g] /\ sl[h] # NoStore => h = g
          /\ \A h \in Owner, j \in 1 .. Len(free) : free[j] # sl[h]
          /\ (\E j \in 1 .. Len(free) : free[j] = i) \/ (\E h \in Owner : sl[h] = i)
          /\ \A h \in Owner : sl[h] # NoStore => BytesOf(h, data[sl[h]])
        BY <2>1, <2>2 DEF Owned, PoolShape
    <2>8. Cardinality(F) + Cardinality(H) = 1
        <3>1. Cardinality({}) = 0  BY FS_EmptySet
        <3>2. CASE \E j \in 1 .. Len(free) : free[j] = i
            <4>1. PICK j \in 1 .. Len(free) : free[j] = i  BY <3>2
            <4>2. F = {j} /\ H = {}  BY <2>4, <2>7, <4>1
            <4>3. Cardinality({j}) = 1  BY FS_Singleton
            <4> HIDE DEF F, H
            <4> QED  BY <3>1, <4>2, <4>3
        <3>3. CASE \E h \in Owner : sl[h] = i
            <4>1. PICK h \in Owner : sl[h] = i  BY <3>3
            <4>2. F = {}  BY <2>4, <2>7, <4>1
            <4>3. H = {h}  BY <2>5, <2>7, <4>1
            <4>4. Cardinality(H) = 1  BY <4>3, FS_Singleton
            <4> QED  BY <3>1, <4>2, <4>4
        <3> QED  BY <2>7, <3>2, <3>3
    <2>9. ASSUME NEW h \in H, NEW j \in DOMAIN data[i] PROVE <<data[i][j].from, data[i][j].dir>> = h
        <3>1. h \in Owner /\ BytesOf(h, data[i])  BY <2>5, <2>7, <2>9
        <3>2. data[i][j].from = h[1] /\ data[i][j].dir = h[2]  BY <2>9, <3>1 DEF BytesOf
        <3> QED  BY <3>1, <3>2 DEF Owner
    <2> QED  BY <2>6, <2>8, <2>9
<1> QED  BY StreamInvariant, <1>1, PTL

-----------------------------------------------------------------------------
(* The stores have the first bytes of the streams, when FINs come without data: *)
(* the data of a packet with a FIN is not looked at.                            *)

LEMMA KeptSame ==
    ASSUME NEW e \in Dirs, NEW m \in Nat, NEW n \in Nat, m = n \/ (m >= MaxPlen /\ n >= MaxPlen)
    PROVE  Kept(e, m) = Kept(e, n)
<1>1. DSize \in Nat /\ DSize <= MaxPlen /\ MaxPlen \in Nat  BY SizeFacts
<1>2. CASE m = n  BY <1>2
<1>3. CASE m >= MaxPlen /\ n >= MaxPlen
    <2>1. Min({m, DSize}) = IF m <= DSize THEN m ELSE DSize  BY <1>1, MinTwo
    <2>2. Min({n, DSize}) = IF n <= DSize THEN n ELSE DSize  BY <1>1, MinTwo
    <2>3. Min({m, DSize}) = Min({n, DSize})  BY <1>1, <1>3, <2>1, <2>2
    <2> QED  BY <2>3 DEF Kept
<1> QED  BY <1>2, <1>3

\* No byte that is wanted is waiting at the gap.
LEMMA AtGap ==
    ASSUME NEW dp, NEW s \in SASession, Shape(dp, s), NEW B, Tracks(s, B), NEW e \in Dirs, ~s.ep[e].error,
           s.ep[e].last_offset \in B[e]
    PROVE  s.ep[e].last_offset >= MaxPlen
<1> DEFINE last == s.ep[e].last_offset
<1>1. last \in 0 .. StreamLength(e) /\ s.ep[e].held \subseteq last + 1 .. StreamLength(e) - 1
    BY DEF Shape
<1>2. last < MaxPlen => last < last \/ last \in s.ep[e].held  BY DEF Tracks
<1>3. MaxPlen \in Nat /\ StreamLength(e) \in Nat  BY SizeFacts, DirFacts
<1> HIDE DEF last
<1>4. last >= MaxPlen  BY <1>1, <1>2, <1>3
<1> QED  BY <1>4 DEF last

LEMMA TracksGap ==
    ASSUME NEW dp, NEW s \in SASession, Shape(dp, s), NEW B, Tracks(s, B), NEW e \in Dirs, ~s.ep[e].error,
           B[e] \subseteq 0 .. StreamLength(e) - 1
    PROVE  Kept(e, s.ep[e].last_offset) = Kept(e, FirstGap(B[e], 0))
<1> DEFINE last == s.ep[e].last_offset
           L == StreamLength(e)
           g == FirstGap(B[e], 0)
<1>1. L \in Nat /\ last \in 0 .. L /\ MaxPlen \in Nat  BY SizeFacts, DirFacts DEF Shape
<1>2. g \in 0 .. L /\ g \notin B[e] /\ 0 .. g - 1 \subseteq B[e]
    <2>1. B[e] \in SUBSET (0 .. L - 1) /\ 0 \in 0 .. L  BY <1>1
    <2> QED  BY <1>1, <2>1, FirstGapEnds
<1>3. 0 .. last - 1 \subseteq B[e]  BY DEF Tracks
<1>4. last \in B[e] => last >= MaxPlen  BY AtGap
<1> HIDE DEF g, last, L
<1>5. last <= g  BY <1>1, <1>2, <1>3
<1>6. last = g \/ (last >= MaxPlen /\ g >= MaxPlen)
    <2>1. CASE last < g
        <3>1. last \in B[e]  BY <1>1, <1>2, <2>1
        <3> QED  BY <1>1, <1>2, <1>4, <2>1, <3>1
    <2> QED  BY <1>1, <1>2, <1>5, <2>1
<1>7. last \in Nat /\ g \in Nat  BY <1>1, <1>2
<1>8. Kept(e, last) = Kept(e, g)  BY <1>6, <1>7, KeptSame
<1> QED  BY <1>8 DEF g, last

StreamInv == sasess # NoSess => Tracks(sasess, Captured)

\* What the session that a packet finds has taken into account.
LEMMA FindsTracks ==
    ASSUME SAInv, StreamInv, NEW s, SAFinds(s)
    PROVE  Tracks(s, Captured)
<1>1. CASE sasess # NoSess /\ s = sasess  BY <1>1 DEF StreamInv
<1>2. CASE SAFresh(s)
    <2>1. Captured \in [Dirs -> SUBSET Nat]  BY CapturedIs DEF SAInv
    <2>2. \A e \in Dirs : Captured[e] = {}  BY <1>2 DEF SAFresh, Captured
    <2> QED  BY <1>2, <2>1, <2>2 DEF SAFresh
<1> QED  BY <1>1, <1>2 DEF SAFinds

LEMMA StreamInvNext ==
    ASSUME ~DataFin, SAInv, StreamInv, SAStep
    PROVE  StreamInv'
<1>1. CASE SAQuiet  BY <1>1 DEF SAQuiet, StreamInv
<1>2. CASE SAOver  BY <1>2 DEF SAOver, StreamInv
<1>3. ASSUME NEW d \in Dirs, NEW sq \in Nat, NEW n \in Nat, NEW fin \in BOOLEAN, NEW rst \in BOOLEAN,
             SAPacket(d, sq, n, fin, rst)
      PROVE  StreamInv'
    <2> DEFINE p == Seg(d, sq, n, fin, rst, Received(Other(d)))
    <2>1. Captured' = Plus(Captured, d, sq, n) /\ (fin => ~(n > 0))  BY <1>3 DEF SAPacket, Passed
    <2>2. p.fin = fin  BY SegFields
    <2>3. Captured \in [Dirs -> SUBSET Nat]  BY CapturedIs DEF SAInv
    <2>4. CASE sasess = NoSess /\ UNCHANGED <<sasess, out>>  BY <2>4 DEF StreamInv
    <2>5. ASSUME NEW s, SAFinds(s), SAStepped(s, p, d, sq, n) PROVE StreamInv'
        <3> HIDE DEF p
        <3> DEFINE o == [dp |-> Pool, s |-> s, out |-> <<>>]
        <3>1. PICK r : SAHandled(o, r, p, d, sq, n, usess) /\ sasess' = IF r.out = <<>> THEN r.s ELSE NoSess
            BY <2>5 DEF SAStepped
        <3>2. o.s = s  OBVIOUS
        <3> HIDE DEF o
        <3>3. Tracks(s, Captured)  BY <2>5, FindsTracks
        <3>4. CASE GoesOn(o, r, p, d, sq, n, usess)
            <4>1. Tracks(r.s, Plus(Captured, d, sq, n))  BY <2>1, <2>2, <2>3, <3>2, <3>3, <3>4 DEF GoesOn
            <4> QED  BY <2>1, <3>1, <4>1 DEF StreamInv
        <3>5. CASE ~GoesOn(o, r, p, d, sq, n, usess)
            <4>1. r.out # <<>>  BY <3>1, <3>5 DEF SAHandled, Ended
            <4> QED  BY <3>1, <4>1 DEF StreamInv
        <3> QED  BY <3>4, <3>5
    <2> QED  BY <1>3, <2>4, <2>5 DEF SAPacket
<1> QED  BY <1>1, <1>2, <1>3 DEF SAStep

LEMMA StreamTracks ==
    ASSUME ~DataFin
    PROVE  SASpec => [](SAInv /\ StreamInv)
<1>1. HostInit /\ SAInit => StreamInv  BY DEF SAInit, StreamInv
<1>2. ASSUME SAInv, StreamInv, [SANext]_<<saVars, network>> PROVE SAInv' /\ StreamInv'
    BY <1>2, SAInvNext, StreamInvNext
<1> QED  BY SAInvInit, <1>1, <1>2, PTL DEF SASpec

\* StreamPrefix for all streams and limits, when every FIN is a packet of its own: the
\* store of a direction has the first payload_data_size bytes of what has been captured
\* without a gap, however the packets are cut, reordered and repeated, unless no store
\* could be got (_write_session_payload, _need_process_payload).
THEOREM StreamStoresPrefix ==
    ASSUME ~DataFin
    PROVE  SASpec => []StreamPrefix
<1>1. ASSUME SAInv, StreamInv PROVE StreamPrefix
    <2> SUFFICES ASSUME sasess # NoSess, NEW d \in Dirs, ~sasess.ep[d].error
                 PROVE  (IF sasess.ep[d].dstore = NoStore THEN <<>> ELSE data[sasess.ep[d].dstore])
                            = Kept(d, FirstGap(snt[d].bytes, 0))
        BY DEF StreamPrefix
    <2>1. sasess \in SASession /\ Shape(Pool, sasess)  BY <1>1 DEF SAInv, SASessionInv
    <2>2. Stored(Pool, sasess, d) = Kept(d, sasess.ep[d].last_offset)  BY <2>1 DEF Shape, KeepsUp
    <2>3. Captured[d] \subseteq 0 .. StreamLength(d) - 1 /\ Captured[d] = snt[d].bytes
        BY <1>1 DEF SAInv, NetInv, Captured
    <2>4. Tracks(sasess, Captured)  BY <1>1 DEF StreamInv
    <2>5. Kept(d, sasess.ep[d].last_offset) = Kept(d, FirstGap(Captured[d], 0))
        BY <2>1, <2>3, <2>4, TracksGap
    <2>6. Pool.data = data  BY DEF Pool
    <2> QED  BY <2>2, <2>3, <2>5, <2>6 DEF Stored
<1> QED  BY StreamTracks, <1>1, PTL

-----------------------------------------------------------------------------
(* A session is written out once, with all that is wanted of both streams. *)

\* A record that says so has all that is kept of both streams.
RecordWhole(x) ==
    x.why \in {"fourway", "break"} =>
       \A e \in Dirs : ~x.error[e] => x.data[e] = Kept(e, StreamLength(e))

SAFinInv == OneRecord /\ RecordComplete /\ (sasess # NoSess => Fins(sasess, Captured))

LEMMA RecordFields ==
    ASSUME NEW o, NEW why
    PROVE  /\ RecordOf(o, why).why = why
           /\ \A e \in Dirs : /\ RecordOf(o, why).error[e] = o.s.ep[e].error
                              /\ RecordOf(o, why).data[e] = Stored(o.dp, o.s, e)
BY DEF RecordOf

\* Of a stream that was captured as a whole, all that is wanted has been handed on.
LEMMA SAWhole ==
    ASSUME NEW dp, NEW s \in SASession, Shape(dp, s), NEW B, Tracks(s, B), NEW e \in Dirs, ~s.ep[e].error,
           Whole(e, B)
    PROVE  s.ep[e].last_offset = StreamLength(e) \/ s.ep[e].last_offset >= MaxPlen
<1> DEFINE last == s.ep[e].last_offset
           L == StreamLength(e)
<1>1. L \in Nat /\ last \in 0 .. L /\ MaxPlen \in Nat  BY SizeFacts, DirFacts DEF Shape
<1>2. 0 .. L - 1 \subseteq B[e]  BY DEF Whole
<1>3. last \in B[e] => last >= MaxPlen  BY AtGap
<1> HIDE DEF last, L
<1>4. last = L \/ last \in 0 .. L - 1  BY <1>1
<1>5. last = L \/ last >= MaxPlen  BY <1>2, <1>3, <1>4
<1> QED  BY <1>5 DEF last, L

\* A record of a session that has handed on all that is wanted.
LEMMA RecordIs ==
    ASSUME NEW q, q.s \in SASession, Shape(q.dp, q.s), NEW why,
           \A e \in Dirs : ~q.s.ep[e].error =>
              q.s.ep[e].last_offset = StreamLength(e) \/ q.s.ep[e].last_offset >= MaxPlen
    PROVE  RecordWhole(RecordOf(q, why))
<1> DEFINE x == RecordOf(q, why)
<1>1. \A e \in Dirs : x.error[e] = q.s.ep[e].error /\ x.data[e] = Stored(q.dp, q.s, e)  BY RecordFields
<1> HIDE DEF x
<1>2. ASSUME NEW e \in Dirs, ~q.s.ep[e].error PROVE Stored(q.dp, q.s, e) = Kept(e, StreamLength(e))
    <2> DEFINE last == q.s.ep[e].last_offset
               L == StreamLength(e)
    <2>1. L \in Nat /\ last \in 0 .. L /\ MaxPlen \in Nat  BY SizeFacts, DirFacts DEF Shape
    <2>2. Stored(q.dp, q.s, e) = Kept(e, last)  BY <1>2 DEF Shape, KeepsUp
    <2>3. last = L \/ last >= MaxPlen  BY <1>2
    <2> HIDE DEF last, L
    <2>4. last \in Nat /\ L \in Nat /\ (last = L \/ (last >= MaxPlen /\ L >= MaxPlen))  BY <2>1, <2>3
    <2>5. Kept(e, last) = Kept(e, L)  BY <2>4, KeptSame
    <2> QED  BY <2>2, <2>5 DEF L
<1>3. RecordWhole(x)  BY <1>1, <1>2 DEF RecordWhole
<1> QED  BY <1>3 DEF x

\* Session o.s has taken the captured bytes B into account, and acknowledges the second FIN
\* only when they are all there are.
Following(o, p, B, u) ==
    /\ Has(o, u) /\ Shape(o.dp, o.s) /\ B \in [Dirs -> SUBSET Nat] /\ Tracks(o.s, B)
    /\ AcksFin2(o.s, p) => \A e \in Dirs : Whole(e, B)

\* The packet that ends a session: there is one record.  The data of a packet that also
\* acknowledges the second FIN does not end the session, as nothing is wanted of it.
LEMMA OneRecordIs ==
    ASSUME NEW u, NEW o, NEW p, NEW B, Following(o, p, B, u),
           NEW d \in Dirs, NEW sq \in Nat, NEW n \in Nat, sq + n <= StreamLength(d),
           NEW r, SAHandled(o, r, p, d, sq, n, u), ~GoesOn(o, r, p, d, sq, n, u)
    PROVE  \E x : r.out = <<x>> /\ RecordWhole(x)
<1> DEFINE C == Plus(B, d, sq, n)
           last == o.s.ep[d].last_offset
           L == StreamLength(d)
<1>0. /\ Has(o, u) /\ Shape(o.dp, o.s) /\ B \in [Dirs -> SUBSET Nat] /\ Tracks(o.s, B)
      /\ AcksFin2(o.s, p) => \A e \in Dirs : Whole(e, B)
    BY DEF Following
<1>1. o.s \in SASession  BY <1>0 DEF Has
<1>2. \A e \in Dirs : B[e] \subseteq C[e]  BY <1>0 DEF Plus
<1>3. L \in Nat /\ last \in 0 .. L /\ MaxPlen \in Nat /\ DSize \in Nat /\ DSize <= MaxPlen
    BY <1>0, SizeFacts, DirFacts DEF Shape
<1>4. ASSUME Needed(o, d, sq, n), sq + n > last, AcksFin2(o.s, p) PROVE last >= MaxPlen
    <2>1. ~o.s.ep[d].error /\ Whole(d, B)  BY <1>0, <1>4 DEF Needed
    <2>2. last = L \/ last >= MaxPlen  BY <1>0, <1>1, <2>1, SAWhole
    <2>3. sq + n <= L /\ sq + n > last  BY <1>4
    <2> HIDE DEF last, L
    <2> QED  BY <1>3, <2>2, <2>3
<1> HIDE DEF C
<1>5. CASE r.out = <<RecordOf(o, "rst")>>
    <2>1. RecordOf(o, "rst").why = "rst"  BY RecordFields
    <2>2. RecordWhole(RecordOf(o, "rst"))  BY <2>1 DEF RecordWhole
    <2> QED  BY <1>5, <2>2
<1>6. ASSUME AcksFin2(o.s, p), NEW q, Advanced(o, q, d, sq, n, u), r.out = <<RecordOf(q, "fourway")>>
      PROVE  \E x : r.out = <<x>> /\ RecordWhole(x)
    <2>1. q.s \in SASession /\ Shape(q.dp, q.s) /\ Tracks(q.s, C)  BY <1>0, <1>6 DEF Advanced, Has, C
    <2>2. \A e \in Dirs : Whole(e, C)  BY <1>0, <1>2, <1>6 DEF Whole
    <2>3. \A e \in Dirs : ~q.s.ep[e].error =>
              q.s.ep[e].last_offset = StreamLength(e) \/ q.s.ep[e].last_offset >= MaxPlen
        BY <2>1, <2>2, SAWhole
    <2> QED  BY <1>6, <2>1, <2>3, RecordIs
<1>7. ASSUME Needed(o, d, sq, n), sq > last, AcksFin2(o.s, p) \/ r.out = <<RecordOf(o, "nomemory")>>
      PROVE  \E x : r.out = <<x>> /\ RecordWhole(x)
    <2>1. n > 0 /\ sq < MaxPlen  BY <1>7 DEF Needed
    <2>2. ~AcksFin2(o.s, p)
        <3> HIDE DEF last, L
        <3>1. sq + n > last  BY <1>3, <1>7, <2>1
        <3> QED  BY <1>3, <1>4, <1>7, <2>1, <3>1
    <2>3. RecordOf(o, "nomemory").why = "nomemory"  BY RecordFields
    <2>4. RecordWhole(RecordOf(o, "nomemory"))  BY <2>3 DEF RecordWhole
    <2> QED  BY <1>7, <2>2, <2>4
<1>8. ASSUME Needed(o, d, sq, n), sq + n > last, NEW q, Advanced(o, q, d, sq, n, u),
             \A e \in Dirs : q.s.ep[e].ok, AcksFin2(o.s, p) \/ r.out = <<RecordOf(q, "break")>>
      PROVE  \E x : r.out = <<x>> /\ RecordWhole(x)
    <2>1. q.s \in SASession /\ Shape(q.dp, q.s)  BY <1>8 DEF Advanced, Has
    <2>2. \A e \in Dirs : /\ DSize >= MaxPlen
                          /\ ~q.s.ep[e].error => q.s.ep[e].last_offset >= MaxPlen
        BY <1>8, <2>1 DEF Shape, KeepsUp
    <2>3. ASSUME AcksFin2(o.s, p) PROVE FALSE
        <3>1. ~o.s.ep[d].error /\ Len(Stored(o.dp, o.s, d)) < MaxPlen  BY <1>8 DEF Needed
        <3>2. Stored(o.dp, o.s, d) = Kept(d, last)  BY <1>0, <3>1 DEF Shape, KeepsUp
        <3>3. last >= MaxPlen /\ DSize >= MaxPlen  BY <1>4, <1>8, <2>2, <2>3
        <3> HIDE DEF last
        <3>4. last \in Nat  BY <1>3
        <3>5. Len(Kept(d, last)) = IF last <= DSize THEN last ELSE DSize  BY <3>4, KeptIs
        <3> QED  BY <1>3, <3>1, <3>2, <3>3, <3>5
    <2>4. RecordWhole(RecordOf(q, "break"))  BY <2>1, <2>2, RecordIs
    <2> QED  BY <1>8, <2>3, <2>4
<1> QED  BY <1>5, <1>6, <1>7, <1>8 DEF SAHandled

LEMMA OneRecordOut ==
    ASSUME NEW x, RecordWhole(x), out' = <<x>>
    PROVE  OneRecord' /\ RecordComplete'
<1>1. Len(out') = 1 /\ DOMAIN out' = {1} /\ out'[1] = x  OBVIOUS
<1>2. OneRecord'  BY <1>1 DEF OneRecord
<1>3. RecordComplete'  BY <1>1 DEF RecordComplete, RecordWhole
<1> QED  BY <1>2, <1>3

LEMMA NoRecordOut ==
    ASSUME out' = <<>>
    PROVE  OneRecord' /\ RecordComplete'
<1>1. Len(out') = 0 /\ DOMAIN out' = {}  OBVIOUS
<1> QED  BY <1>1 DEF OneRecord, RecordComplete

LEMMA SAFinPacket ==
    ASSUME ReqIsn # 0, ResIsn # 0, ~DataFin, SAInv, StreamInv, SAFinInv,
           NEW d \in Dirs, NEW sq \in Nat, NEW n \in Nat, NEW fin \in BOOLEAN, NEW rst \in BOOLEAN,
           SAPacket(d, sq, n, fin, rst), NEW s, SAFinds(s),
           NEW p, p = Seg(d, sq, n, fin, rst, Received(Other(d))), SAStepped(s, p, d, sq, n)
    PROVE  SAFinInv'
<1> DEFINE a == Received(Other(d))
           C == Plus(Captured, d, sq, n)
           o == [dp |-> Pool, s |-> s, out |-> <<>>]
<1>1. /\ sq + n <= StreamLength(d) /\ StreamLength(d) \in Nat /\ Captured' = C
      /\ fin => n = 0 /\ sq = StreamLength(d) /\ Whole(d, C)
    <2>1. /\ sq + n <= StreamLength(d) /\ Captured' = C
          /\ fin => sq + n = StreamLength(d) /\ ~(n > 0) /\ Whole(d, Captured')
        BY DEF SAPacket, Passed
    <2>2. StreamLength(d) \in Nat  BY DirFacts
    <2> HIDE DEF C
    <2>3. fin => n = 0 /\ sq = StreamLength(d)  BY <2>1, <2>2
    <2> QED  BY <2>1, <2>2, <2>3
<1>2. Captured \in [Dirs -> SUBSET Nat]  BY CapturedIs DEF SAInv
<1>3. \A e \in Dirs : Captured[e] \subseteq C[e]  BY <1>2 DEF Plus
<1>4. p.seq = FirstSeq(d) + sq /\ p.fin = fin /\ p.ack = FirstSeq(Other(d)) + a  BY SegFields
<1>5. a \in Nat /\ Other(d) \in Dirs  BY ReceivedIs, DirFacts DEF SAInv
<1>6. FirstSeq(Other(d)) \in Nat /\ FirstSeq(Other(d)) > 1 /\ FirstSeq(d) \in Nat /\ FirstSeq(d) > 1
    BY SessionAssumption DEF FirstSeq
<1> HIDE DEF a, C
<1>7. p.ack \in Nat /\ p.ack > 1  BY <1>4, <1>5, <1>6
<1>8. ASSUME p.fin PROVE p.seq # 0 /\ EndOf(p.seq, C)
    <2>1. sq = StreamLength(d) /\ Whole(d, C)  BY <1>1, <1>4, <1>8
    <2>2. p.seq = FirstSeq(d) + StreamLength(d)  BY <1>4, <2>1
    <2>3. p.seq # 0  BY <1>1, <1>6, <2>2
    <2> QED  BY <2>1, <2>2, <2>3 DEF EndOf
<1>9. s \in SASession /\ out = <<>> /\ Owned(Pool, Slots(s, usess)) /\ Shape(Pool, s)
    BY DEF SAFinds
<1>10. s.fin1_seq \in Nat /\ s.fin2_seq \in Nat  BY <1>9 DEF SASession
<1>11. Tracks(s, Captured)  BY FindsTracks
<1>12. Fins(s, Captured)
    <2>1. CASE SAFresh(s)  BY <2>1 DEF SAFresh, Fins, EndOf
    <2>2. CASE sasess # NoSess /\ s = sasess  BY <2>2 DEF SAFinInv
    <2> QED  BY <2>1, <2>2 DEF SAFinds
<1>13. ASSUME AcksFin2(s, p) PROVE \A e \in Dirs : Whole(e, Captured)
    <2>1. p.ack = s.fin2_seq + 1  BY <1>13 DEF AcksFin2
    <2>2. s.fin2_seq # 0  BY <1>7, <1>10, <2>1
    <2> QED  BY <1>12, <1>13, <2>2, TwoFins
<1>14. PICK r : /\ SAHandled(o, r, p, d, sq, n, usess) /\ out' = out \o r.out
                /\ sasess' = IF r.out = <<>> THEN r.s ELSE NoSess
    BY DEF SAStepped
<1>15. o.s = s /\ o.dp = Pool /\ o.out = <<>> /\ o = [dp |-> o.dp, s |-> o.s, out |-> o.out]  OBVIOUS
<1> HIDE DEF o
<1>16. Has(o, usess) /\ Shape(o.dp, o.s)  BY <1>9, <1>15 DEF Has
<1>17. CASE GoesOn(o, r, p, d, sq, n, usess)
    <2>1. r.out = <<>> /\ FinStep(s, r.s, p)  BY <1>15, <1>17 DEF GoesOn
    <2>2. Fins(r.s, C)  BY <1>3, <1>7, <1>8, <1>10, <1>12, <2>1, FinsStep
    <2>3. out' = <<>>  BY <1>9, <1>14, <2>1
    <2>4. OneRecord' /\ RecordComplete'  BY <2>3, NoRecordOut
    <2> QED  BY <1>1, <1>14, <2>1, <2>2, <2>4 DEF SAFinInv
<1>18. CASE ~GoesOn(o, r, p, d, sq, n, usess)
    <2>1. PICK x : r.out = <<x>> /\ RecordWhole(x)
        <3>1. Following(o, p, Captured, usess)  BY <1>2, <1>11, <1>13, <1>15, <1>16 DEF Following
        <3> QED  BY <1>1, <1>14, <1>18, <3>1, OneRecordIs
    <2>2. out' = <<x>> /\ r.out # <<>>
        <3>1. out' = <<>> \o <<x>>  BY <1>9, <1>14, <2>1
        <3> QED  BY <2>1, <3>1
    <2>3. OneRecord' /\ RecordComplete'  BY <2>1, <2>2, OneRecordOut
    <2> QED  BY <1>14, <2>2, <2>3 DEF SAFinInv
<1> QED  BY <1>17, <1>18

LEMMA SAFinNext ==
    ASSUME ReqIsn # 0, ResIsn # 0, ~DataFin, SAInv, StreamInv, SAFinInv, SAStep
    PROVE  SAFinInv'
<1>1. CASE SAQuiet  BY <1>1 DEF SAQuiet, SAFinInv, OneRecord, RecordComplete
<1>2. CASE SAOver
    <2>1. PICK o : out' = <<RecordOf(o, "timeout")>>  BY <1>2 DEF SAOver
    <2>2. RecordOf(o, "timeout").why = "timeout"  BY RecordFields
    <2>3. RecordWhole(RecordOf(o, "timeout"))  BY <2>2 DEF RecordWhole
    <2>4. OneRecord' /\ RecordComplete'  BY <2>1, <2>3, OneRecordOut
    <2> QED  BY <1>2, <2>4 DEF SAOver, SAFinInv
<1>3. ASSUME NEW d \in Dirs, NEW sq \in Nat, NEW n \in Nat, NEW fin \in BOOLEAN, NEW rst \in BOOLEAN,
             SAPacket(d, sq, n, fin, rst)
      PROVE  SAFinInv'
    <2>1. CASE sasess = NoSess /\ UNCHANGED <<sasess, out>>
        BY <2>1 DEF SAFinInv, OneRecord, RecordComplete
    <2>2. ASSUME NEW s, SAFinds(s),
                 SAStepped(s, Seg(d, sq, n, fin, rst, Received(Other(d))), d, sq, n)
          PROVE  SAFinInv'
        BY <1>3, <2>2, SAFinPacket
    <2> QED  BY <1>3, <2>1, <2>2 DEF SAPacket
<1> QED  BY <1>1, <1>2, <1>3 DEF SAStep

LEMMA StreamRecords ==
    ASSUME ReqIsn # 0, ResIsn # 0, ~DataFin
    PROVE  SASpec => []SAFinInv
<1>1. ASSUME HostInit, SAInit PROVE SAFinInv
    <2>1. out = <<>> /\ sasess = NoSess  BY <1>1 DEF SAInit
    <2>2. Len(out) = 0 /\ DOMAIN out = {}  BY <2>1
    <2> QED  BY <2>1, <2>2 DEF SAFinInv, OneRecord, RecordComplete
<1>2. ASSUME SAInv, StreamInv, SAFinInv, [SANext]_<<saVars, network>> PROVE SAFinInv'
    BY <1>2, SAInvNext, SAFinNext
<1> QED  BY StreamTracks, <1>1, <1>2, PTL DEF SASpec

\* RecordComplete for all streams and limits, when every FIN is a packet of its own and no
\* initial sequence number is 0, which fin1_seq and fin2_seq take for "no FIN yet": the
\* record of a session that ended with the four-way close, or because both stores are full
\* ("TCP Session data is ready,so break!"), has all that is to be kept of both streams.
THEOREM StreamRecordComplete ==
    ASSUME ReqIsn # 0, ResIsn # 0, ~DataFin
    PROVE  SASpec => []RecordComplete
<1>1. SAFinInv => RecordComplete  BY DEF SAFinInv
<1> QED  BY StreamRecords, <1>1, PTL

\* OneRecord, likewise: a session is written out and freed once, although
\* ch_sa_tcp_session_packet_handle looks at the acknowledgement number after the data of
\* the same packet has ended the session ("free this tcp  session").
THEOREM StreamOneRecord ==
    ASSUME ReqIsn # 0, ResIsn # 0, ~DataFin
    PROVE  SASpec => []OneRecord
<1>1. SAFinInv => OneRecord  BY DEF SAFinInv
<1> QED  BY StreamRecords, <1>1, PTL

=============================================================================
