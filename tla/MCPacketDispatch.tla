--------------------------- MODULE MCPacketDispatch ---------------------------
(***************************************************************************)
(* Model-checking instances of PacketDispatch; the cfg files give the      *)
(* constants.  Buffers and receive tasks are interchangeable.              *)
(***************************************************************************)
EXTENDS PacketDispatch, TLC

Symmetry == Permutations(Mbuf) \cup Permutations(RxTask)
=============================================================================
