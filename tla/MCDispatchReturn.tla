--------------------------- MODULE MCDispatchReturn ---------------------------
(***************************************************************************)
(* One receive task, fed by a port (PDispatcher, the constants' values) or *)
(* by pcap files (PSink, whose puts wait for space): is_from_pcap is       *)
(* chosen at the start and never changes.  The process that copies its     *)
(* packets differs as well.                                                *)
(***************************************************************************)
EXTENDS PacketDispatch

VARIABLE is_from_pcap

Pcap == INSTANCE PacketDispatch WITH IsFromPcap <- TRUE, CopyQueue <- TcpQueue

mcVars == <<vars, is_from_pcap>>

MCInit == is_from_pcap \in BOOLEAN /\ Init

MCNext ==
  /\ \/ ~is_from_pcap /\ Next
     \/ is_from_pcap /\ Pcap!Next
  /\ UNCHANGED is_from_pcap

\* Every task is a loop on a core of its own; packets need not arrive.
MCSpec ==
  /\ MCInit /\ [][MCNext]_mcVars
  /\ \A t \in RxTask : /\ WF_mcVars(~is_from_pcap /\ RxStep(t) /\ UNCHANGED is_from_pcap)
                       /\ WF_mcVars(is_from_pcap /\ Pcap!RxStep(t) /\ UNCHANGED is_from_pcap)
  /\ \A q \in Queue : /\ WF_mcVars(~is_from_pcap /\ WorkStep(q) /\ UNCHANGED is_from_pcap)
                      /\ WF_mcVars(is_from_pcap /\ Pcap!WorkStep(q) /\ UNCHANGED is_from_pcap)
=============================================================================
