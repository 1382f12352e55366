------------------------------ MODULE RecordQueue ------------------------------
(***************************************************************************)
(* What the shared-memory queue promises: the records put by one process   *)
(* are got by another one in order, none lost and none twice.  Records are *)
(* numbered in the order they are put.  The reader opens a group of them   *)
(* (an entry of the ring), takes its records one by one and is done with   *)
(* it when none is left.                                                   *)
(*                                                                         *)
(* Only a fault, and every fault is counted, loses or repeats a record: a  *)
(* reader that closes gives up the rest of its group, one that dies gets   *)
(* the whole group again, a writer that starts again loses what was not    *)
(* read.  A queue that is not ok promises nothing until it is started      *)
(* again.                                                                  *)
(***************************************************************************)
EXTENDS Naturals, Sequences

VARIABLES put,     \* the number of records put
          q,       \* records put and not yet taken
          reading, \* a group is open
          left,    \* how many records at the head of q belong to it
          taken,   \* the records taken of it
          faults,  \* closes and deaths of the reader, restarts of the writer
          ok

vars == <<put, q, reading, left, taken, faults, ok>>

NoGroup == reading = FALSE /\ left = 0 /\ taken = <<>>

Init == put = 0 /\ q = <<>> /\ NoGroup /\ faults = 0 /\ ok = TRUE

Put ==
    /\ ok
    /\ put' = put + 1 /\ q' = Append(q, put + 1)
    /\ UNCHANGED <<reading, left, taken, faults, ok>>

Open ==
    /\ ok /\ ~reading
    /\ reading' = TRUE /\ left' \in 0 .. Len(q)
    /\ UNCHANGED <<put, q, taken, faults, ok>>

Take ==
    /\ ok /\ reading /\ left > 0 /\ q # <<>>
    /\ taken' = Append(taken, Head(q)) /\ q' = Tail(q) /\ left' = left - 1
    /\ UNCHANGED <<put, reading, faults, ok>>

\* Every record of the group was taken.
GroupDone == ok /\ reading /\ left = 0 /\ NoGroup' /\ UNCHANGED <<put, q, faults, ok>>

(***************************************************************************)
(* Faults.                                                                 *)
(***************************************************************************)
Close ==
    /\ ok /\ reading /\ faults' = faults + 1
    /\ q' = SubSeq(q, left + 1, Len(q)) /\ NoGroup'
    /\ UNCHANGED <<put, ok>>

TakeAgain ==
    /\ ok /\ reading /\ faults' = faults + 1
    /\ q' = taken \o q /\ NoGroup'
    /\ UNCHANGED <<put, ok>>

Start == faults' = faults + 1 /\ q' = <<>> /\ NoGroup' /\ ok' = TRUE /\ UNCHANGED put

Break == ok' = FALSE /\ put' \in Nat /\ q' = <<>> /\ NoGroup' /\ faults' \in {faults, faults + 1}

Next == Put \/ Open \/ Take \/ GroupDone \/ Close \/ TakeAgain \/ Start \/ Break

Spec == Init /\ [][Next]_vars
=============================================================================
