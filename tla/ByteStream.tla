------------------------------ MODULE ByteStream ------------------------------
(***************************************************************************)
(* What the reassembly of one direction of a TCP connection promises to    *)
(* the application parser above it: however the segments are cut, ordered  *)
(* or repeated, the parser has been handed exactly the longest gap-free    *)
(* prefix of the bytes captured so far, until the session is closed.       *)
(***************************************************************************)
EXTENDS Integers

CONSTANT StreamLen   \* the number of bytes the sender sends

VARIABLES got,    \* the bytes captured so far
          next,   \* the number of bytes handed to the parser
          open    \* the session has not been closed

vars == <<got, next, open>>

Init == got = {} /\ next = 0 /\ open = TRUE

\* n bytes can be handed over: there is no gap before byte n.
GapFree(n) == 0 .. n - 1 \subseteq got

\* Some bytes are captured, new ones or not.
Capture == got \subseteq got' /\ got' \subseteq 0 .. StreamLen - 1

Receive ==
    /\ open
    /\ Capture
    /\ next' \in next .. StreamLen
    /\ GapFree(next)'
    /\ next' \notin got'
    /\ UNCHANGED open

\* The session is closed while a segment is handled: delivery may stop short of
\* the first gap, but never jumps over it.
Close ==
    /\ open
    /\ open' = FALSE
    /\ Capture
    /\ next' \in next .. StreamLen
    /\ GapFree(next)'

Next == Receive \/ Close

Spec == Init /\ [][Next]_vars
=============================================================================
