------------------------------- MODULE DnsName --------------------------------
(***************************************************************************)
(* ch_dns_name_parse: the name at a position of a dns message, whose       *)
(* labels may be continued by pointers to earlier positions.  One step is  *)
(* one turn of its loop, that is one byte.  Offsets count from 0.          *)
(***************************************************************************)
EXTENDS Naturals, SequencesExt

CONSTANTS Bytes,     \* the bytes a message is made of
          MsgLen,    \* bound: the length of a message
          NameMax    \* DNS_NAME_MAXLEN

ASSUME DnsAssumption == Bytes \subseteq 0 .. 255 /\ MsgLen \in Nat \ {0} /\ NameMax \in Nat

VARIABLES msg, start,
          current, state, n, new_current, biggest_pointer,
          nused, cused, seen_pointer,
          buf,       \* tmp_data: the bytes written so far
          labels, len,
          rc         \* "parse" in the loop, then "ok" or "err"

input == <<msg, start>>
nameVars == <<input, current, state, n, new_current, biggest_pointer, nused, cused, seen_pointer,
              buf, labels, len, rc>>

Dot == 46
At(m, off) == m[off + 1]
last_offset == Len(msg)
nmax == IF last_offset > NameMax THEN NameMax ELSE last_offset

NameInit ==
    /\ msg \in [1 .. MsgLen -> Bytes] /\ start \in 0 .. MsgLen - 1
    /\ current = start /\ biggest_pointer = start
    /\ state = "start" /\ n = 0 /\ new_current = 0
    /\ nused = 0 /\ cused = 0 /\ seen_pointer = FALSE
    /\ buf = <<>> /\ labels = 0 /\ len = 0 /\ rc = "parse"

Fail ==
    /\ rc' = "err"
    /\ UNCHANGED <<state, n, new_current, biggest_pointer, nused, seen_pointer, buf, labels, len>>

\* fw_start: the length of a label, the end of the name, or a pointer
Start(c) ==
    /\ state = "start"
    /\ current' = current + 1
    /\ \/ /\ c < 64 /\ nused + c + 1 <= nmax
          /\ nused' = nused + c + 1
          /\ n' = c /\ state' = "ordinary"
          /\ rc' = IF c = 0 THEN "ok" ELSE rc
          /\ labels' = IF c = 0 THEN labels ELSE labels + 1
          /\ LET dot == labels' # 1 /\ c # 0 IN
             /\ buf' = IF dot THEN Append(buf, Dot) ELSE buf
             /\ len' = len + c + (IF dot THEN 1 ELSE 0)
          /\ UNCHANGED <<new_current, biggest_pointer, seen_pointer>>
       \/ c < 64 /\ nused + c + 1 > nmax /\ Fail
       \/ c >= 64 /\ c < 192 /\ Fail
       \/ /\ c >= 192
          /\ new_current' = c % 64 /\ state' = "newcurrent"
          /\ UNCHANGED <<n, biggest_pointer, nused, seen_pointer, buf, labels, len, rc>>

\* fw_ordinary: a byte of a label
Ordinary(c) ==
    /\ state = "ordinary"
    /\ current' = current + 1
    /\ buf' = Append(buf, c)
    /\ n' = n - 1
    /\ state' = IF n = 1 THEN "start" ELSE state
    /\ UNCHANGED <<new_current, biggest_pointer, nused, seen_pointer, labels, len, rc>>

\* Faulty variant of TooFar, for mutation: a pointer may go where the last one went.
TooFar_Equal(target) == target > biggest_pointer

TooFar(target) == target >= biggest_pointer

\* fw_newcurrent: the second byte of a pointer
NewCurrent(c) ==
    /\ state = "newcurrent"
    /\ LET target == new_current * 256 + c IN
       \/ TooFar(target) /\ Fail /\ current' = current + 1
       \/ /\ ~TooFar(target)
          /\ current' = target /\ biggest_pointer' = target /\ new_current' = target
          /\ seen_pointer' = TRUE /\ state' = "start"
          /\ UNCHANGED <<n, nused, buf, labels, len, rc>>

\* Faulty variant of Turn, for mutation: the bytes a pointer leads to count as well.
Turn_CountAll ==
    /\ rc = "parse" /\ current < last_offset
    /\ cused' = cused + 1
    /\ LET c == At(msg, current) IN Start(c) \/ Ordinary(c) \/ NewCurrent(c)
    /\ UNCHANGED input

Turn ==
    /\ rc = "parse" /\ current < last_offset
    /\ cused' = IF seen_pointer THEN cused ELSE cused + 1
    /\ LET c == At(msg, current) IN Start(c) \/ Ordinary(c) \/ NewCurrent(c)
    /\ UNCHANGED input

\* The message ends before the name does.
Truncated ==
    /\ rc = "parse" /\ current >= last_offset
    /\ rc' = "err"
    /\ UNCHANGED <<input, current, state, n, new_current, biggest_pointer, nused, cused,
                   seen_pointer, buf, labels, len>>

\* What is handed on with labels and len: "%s" of tmp_data, which a byte 0 ends.
ndata ==
    LET zero == SelectInSeq(buf, LAMBDA b : b = 0)
    IN  IF zero = 0 THEN buf ELSE SubSeq(buf, 1, zero - 1)

NameNext == Turn \/ Truncated

NameSpec == NameInit /\ [][NameNext]_nameVars

(***************************************************************************)
(* The reference: what the name at an offset is, by the format of RFC 1035 *)
(* 4.1.4.  A pointer leads to a prior place: before the place `run' where  *)
(* the labels that it ends begin.                                          *)
(***************************************************************************)
Bad == [ok |-> FALSE, name |-> <<>>]

Labels[off \in 0 .. MsgLen, run \in 0 .. MsgLen] ==
    IF off >= last_offset THEN Bad
    ELSE LET c == At(msg, off) IN
         CASE c = 0 -> [ok |-> TRUE, name |-> <<>>]
           [] c \in 1 .. 63 ->
                IF off + c >= last_offset THEN Bad
                ELSE LET rest == Labels[off + c + 1, run]
                     IN  IF rest.ok THEN [rest EXCEPT !.name = <<SubSeq(msg, off + 2, off + c + 1)>> \o @]
                         ELSE Bad
           [] c >= 192 ->
                IF off + 1 >= last_offset \/ (c % 64) * 256 + At(msg, off + 1) >= run THEN Bad
                ELSE LET to == (c % 64) * 256 + At(msg, off + 1) IN Labels[to, to]
           [] OTHER -> Bad

Reference == Labels[start, start]

\* The bytes a name takes when it is written out.
WireLen(labs) == FoldSeq(LAMBDA l, sum : Len(l) + 1 + sum, 1, labs)

\* A name as text: its labels with dots between them.
Text(labs) == FoldLeft(LAMBDA t, l : IF t = <<>> THEN l ELSE t \o <<Dot>> \o l, <<>>, labs)

\* The bytes of the message that belong to the name where it stands.
OwnBytes[off \in 0 .. MsgLen] ==
    LET c == At(msg, off)
    IN  IF c = 0 THEN 1 ELSE IF c >= 192 THEN 2 ELSE c + 1 + OwnBytes[off + c + 1]

(***************************************************************************)
(* Properties.                                                             *)
(***************************************************************************)
\* Type invariant: ch_dns_name_parse reads inside the message, follows pointers only to
\* places before the name and writes at most nmax bytes, with room for the byte 0 that
\* ends them.
NameTypeOK ==
    /\ current \in 0 .. MsgLen /\ biggest_pointer \in 0 .. start
    /\ state \in {"start", "ordinary", "newcurrent"} /\ rc \in {"parse", "ok", "err"}
    /\ nused <= nmax /\ cused \in 0 .. MsgLen
    /\ Len(buf) <= nmax /\ (rc = "ok" => Len(buf) = len /\ len < nmax)

\* ch_dns_name_parse accepts the names the format gives a meaning that are not too long,
\* and no others; the number of labels and the length are those of the name meant, and the
\* message is read on behind the name's own bytes, not behind those a pointer led to.  The
\* text is that of the name if none of its labels holds a byte 0; if one does, the text
\* ends there, although the length is that of the whole name.
NameRight ==
    rc # "parse" =>
        IF Reference.ok /\ WireLen(Reference.name) <= nmax
        THEN LET meant == Text(Reference.name) IN
             /\ rc = "ok" /\ cused = OwnBytes[start]
             /\ labels = Len(Reference.name) /\ len = Len(meant)
             /\ IF 0 \in Range(meant) THEN IsStrictPrefix(ndata, meant) ELSE ndata = meant
        ELSE rc = "err"
=============================================================================
