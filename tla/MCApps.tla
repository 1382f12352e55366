-------------------------------- MODULE MCApps --------------------------------
(***************************************************************************)
(* Sessions of applications, for TLC: a behavior is one of UdpSession,     *)
(* with a file read and one written from the same port and dns queries,    *)
(* one of the name parser the dns application uses, on any message, or one *)
(* of FtpData, with three data connections, two of them to the same port.  *)
(* `part' says which; the variables of the others keep their first values. *)
(***************************************************************************)
EXTENDS DnsName, UdpSession, FtpData

VARIABLE part

MCXfer == {"get", "put"}
MCWrites == {"put"}
MCClientPort == [x \in MCXfer |-> 1]
MCBlocks == [x \in MCXfer |-> IF x = "get" THEN 2 ELSE 1]

MCConns == {"one", "again", "other"}
MCPort == [c \in MCConns |-> IF c = "other" THEN 2 ELSE 1]

allVars == <<part, nameVars, vars, ftpVars>>

MCInit ==
    /\ part \in {"name", "udp", "ftp"}
    /\ Init /\ FtpInit /\ NameInit
    /\ part # "name" => msg = [i \in 1 .. MsgLen |-> 0] /\ start = 0

NameStep == part = "name" /\ NameNext /\ UNCHANGED <<part, vars, ftpVars>>
UdpStep == part = "udp" /\ Next /\ UNCHANGED <<part, nameVars, ftpVars>>
TimeoutStep == part = "udp" /\ FinishedOnce /\ Timeouts /\ UNCHANGED <<part, nameVars, ftpVars>>
FtpStep == part = "ftp" /\ FtpNext /\ UNCHANGED <<part, nameVars, vars>>

MCNext == NameStep \/ UdpStep \/ FtpStep

\* The parser's loop runs on; the timeouts of both tables are looked after for good.
MCSpec == MCInit /\ [][MCNext]_allVars /\ WF_allVars(NameStep) /\ WF_allVars(TimeoutStep)

\* Type invariants of the three.
MCTypeOK == NameTypeOK /\ TypeOK /\ FtpTypeOK

\* Whatever pointers a message holds, the loop of ch_dns_name_parse comes to an end.
NameEnds == part = "name" ~> rc # "parse"
=============================================================================
