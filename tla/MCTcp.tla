-------------------------------- MODULE MCTcp ---------------------------------
(***************************************************************************)
(* The TCP side for TLC: a behavior is one of TcpSession (a connection as  *)
(* TCPMain sees it), of StreamAnalyze (as SAMain does, with a UDP session  *)
(* beside it), or of TcpReassembly, the fragments of a longer stream.      *)
(* `part' says which; the variables of the others keep their first values. *)
(***************************************************************************)
EXTENDS TcpSession, StreamAnalyze, TcpReassembly

VARIABLE part

MCInit ==
    /\ part \in {"session", "stream", "fragments"}
    /\ Init /\ SAInit /\ AsmInit

SessionStep == part = "session" /\ Next /\ UNCHANGED <<part, saVars, asmVars>>
StreamStep == part = "stream" /\ SANext /\ UNCHANGED <<part, monitor, asmVars>>
FragmentStep == part = "fragments" /\ AsmNext /\ UNCHANGED <<part, vars, saVars>>

MCNext == SessionStep \/ StreamStep \/ FragmentStep

MCSpec == MCInit /\ [][MCNext]_<<part, vars, saVars, asmVars>>

\* Type invariants of the three.
MCTypeOK == TypeOK /\ SATypeOK /\ AsmTypeOK
=============================================================================
