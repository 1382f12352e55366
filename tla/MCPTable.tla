------------------------------- MODULE MCPTable -------------------------------
(* PTable for TLC: where the hash puts the keys. *)
EXTENDS PTable

\* All keys collide.
OneBucket == [k \in Keys |-> 0]

\* One key has a bucket of its own, all others collide.
TwoBuckets == [k \in Keys |-> IF k = (CHOOSE x \in Keys : TRUE) THEN 1 ELSE 0]
=============================================================================
