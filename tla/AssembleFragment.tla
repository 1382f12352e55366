-------------------------- MODULE AssembleFragment --------------------------
(***************************************************************************)
(* The buffer of out-of-order data of a TCP endpoint: the list of data     *)
(* fragments of tcp/session/ch_assemble_fragment.c, as operators on a      *)
(* sequence of fragments.  A fragment is the record of its offset and its  *)
(* bytes; the length field of the code is the length of the bytes.  All    *)
(* offsets are uint32_t in the code: arithmetic is modulo W, comparison is *)
(* the plain one, as in the code.                                          *)
(***************************************************************************)
EXTENDS Integers, Sequences, FiniteSets, FiniteSetsExt

CONSTANT W   \* the modulus of offsets and sequence numbers, 2^32 in the code

Add(a, b) == (a + b) % W
Sub(a, b) == (a - b) % W

EndOf(df) == Add(df.offset, Len(df.data))

(***************************************************************************)
(* ch_assemble_fragment_push.                                              *)
(***************************************************************************)
\* Every byte of a is in b.
Covered(a, b) == a.offset >= b.offset /\ EndOf(b) >= EndOf(a)

\* The fragments that make the walk over the list stop: they cover df.
Covering(frags, df) ==
    {i \in DOMAIN frags : ~Covered(frags[i], df) /\ Covered(df, frags[i])}

\* What stays of list s, in its order, when only the positions ks do: the n-th of them
\* has n - 1 others before it.
Sublist(s, ks) ==
    [n \in 1 .. Cardinality(ks) |->
        s[CHOOSE k \in ks : Cardinality({j \in ks : j < k}) = n - 1]]

\* The list after the walk: what df covers is removed up to the stop.
CoveredFree(frags, df) ==
    LET stop == Min(Covering(frags, df) \cup {Len(frags) + 1})
    IN  Sublist(frags, {k \in DOMAIN frags : k < stop => ~Covered(frags[k], df)})

\* The index of the neighbour after df, Len(frags) + 1 when there is none.
\* The neighbour before df is the one at the index before, 0 for none.
After(frags, df) ==
    Min({i \in DOMAIN frags : frags[i].offset >= df.offset} \cup {Len(frags) + 1})

\* Faulty variant of SkipBytes, for mutation: the offset moves, the data pointer does not.
SkipBytes_DataKept(df, n) ==
    [offset |-> Add(df.offset, n), data |-> SubSeq(df.data, 1, Len(df.data) - n)]

\* df without its first n bytes.
SkipBytes(df, n) ==
    [offset |-> Add(df.offset, n), data |-> SubSeq(df.data, n + 1, Len(df.data))]

TrimBefore(frags, df, b) ==
    IF b >= 1 /\ EndOf(frags[b]) > df.offset
    THEN SkipBytes(df, Sub(EndOf(frags[b]), df.offset)) ELSE df

TrimAfter(frags, df, a) ==
    IF a <= Len(frags) /\ EndOf(df) > frags[a].offset
    THEN [df EXCEPT !.data =
            SubSeq(@, 1, Len(@) - Sub(EndOf(df), frags[a].offset))] ELSE df

Trim(frags, df) ==
    LET a == After(frags, df) IN TrimAfter(frags, TrimBefore(frags, df, a - 1), a)

Mergable(a, b) == EndOf(a) = b.offset

\* Faulty variant of Merge, for mutation: the neighbour after df is never merged.
Merge_BeforeOnly(frags, df, b) ==
    LET ma == b >= 1 /\ Mergable(frags[b], df)
        mdf == [offset |-> IF ma THEN frags[b].offset ELSE df.offset,
                data   |-> (IF ma THEN frags[b].data ELSE <<>>) \o df.data]
    IN  SubSeq(frags, 1, IF ma THEN b - 1 ELSE b) \o <<mdf>>
          \o SubSeq(frags, b + 1, Len(frags))

\* The new node that stands for df and the neighbours it touches, put between
\* the neighbours at b and b + 1, which are removed when they were merged.
Merge(frags, df, b) ==
    LET a  == b + 1
        ma == b >= 1 /\ Mergable(frags[b], df)
        mb == a <= Len(frags) /\ Mergable(df, frags[a])
        mdf == [offset |-> IF ma THEN frags[b].offset ELSE df.offset,
                data   |-> (IF ma THEN frags[b].data ELSE <<>>) \o df.data
                             \o (IF mb THEN frags[a].data ELSE <<>>)]
    IN  SubSeq(frags, 1, IF ma THEN b - 1 ELSE b) \o <<mdf>>
          \o SubSeq(frags, IF mb THEN a + 1 ELSE a, Len(frags))

\* A new node is needed, so that ch_memory_alloc may fail.
NeedsNode(frags, df) ==
    Covering(frags, df) = {} /\ Trim(CoveredFree(frags, df), df).data # <<>>

\* The list after a push that did not run out of memory.
Push(frags, df) ==
    LET kept == CoveredFree(frags, df)
    IN  IF NeedsNode(frags, df)
        THEN Merge(kept, Trim(kept, df), After(kept, df) - 1) ELSE kept

(***************************************************************************)
(* ch_assemble_fragment_pop.                                               *)
(***************************************************************************)
\* The list without the bytes below last_offset: whole fragments from the head
\* on, then the first part of the fragment that last_offset falls in.
FreeBelow(frags, last_offset) ==
    LET k == Min({i \in DOMAIN frags : EndOf(frags[i]) > last_offset}
                   \cup {Len(frags) + 1})
        rest == SubSeq(frags, k, Len(frags))
    IN  IF rest # <<>> /\ Head(rest).offset < last_offset
        THEN <<SkipBytes(Head(rest), Sub(last_offset, Head(rest).offset))>> \o Tail(rest)
        ELSE rest

\* The fragment popped is the head, if it is the one waited for.
CanPop(frags, last_offset) ==
    LET rest == FreeBelow(frags, last_offset)
    IN  rest # <<>> /\ Head(rest).offset = last_offset
=============================================================================
