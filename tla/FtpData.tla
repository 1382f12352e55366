-------------------------------- MODULE FtpData --------------------------------
(***************************************************************************)
(* FTP (tcp/app/ftp): a control connection whose PASV answers announce     *)
(* data connections, and the data connections found by them.  A data       *)
(* connection object (ch_ftp_data_connection_t) lives in a pool of its own *)
(* and points into the pool of the control session (ftp_session, ftp_cmd); *)
(* a data session points into the object (app, sentry).  Which of the      *)
(* connections ends first is up to the hosts.                              *)
(*                                                                         *)
(* The control and the data connections of two hosts are in one session    *)
(* task and one list.  A session exists from the first data packet after   *)
(* the handshake on (_tcp_session_create).  The answer to a PORT command   *)
(* names no address, which is where the code looks for it: it announces    *)
(* nothing.                                                                *)
(***************************************************************************)
EXTENDS Integers, SequencesExt, FiniteSets

CONSTANTS Conns,      \* the data connections the hosts open
          Port,       \* the server's port of each
          MaxCmd,     \* bound: commands of a control session
          MaxDcon,    \* bound: data connections announced
          MaxCtl,     \* bound: control sessions
          MaxData     \* bound: data packets of a connection

VARIABLES ctl,        \* number of the control session, 0 between two
          ctls,       \* control sessions so far
          cmds,       \* its commands, the newest first: kind, ftp_dcon
          list,       \* dcon_list, the newest first
          dcon,       \* the objects: port, control session and command, tsession, entry
          dconn,      \* the number of objects created
          dsess,      \* the data sessions: state, object
          recs,       \* records written of the data of each connection
          dangling,   \* history: freed memory was used
          early,      \* history: a control session ended before a data connection of it
          shared      \* history: two data connections were found by one object

ftpVars == <<ctl, ctls, cmds, list, dcon, dconn, dsess, recs, dangling, early, shared>>

Dcons == 1 .. MaxDcon
NoDcon == 0
NoConn == "none"
Ports == {Port[c] : c \in Conns}

\* Every connection has a port, and there is room for something of each kind.
ASSUME FtpAssumption ==
    /\ NoConn \notin Conns /\ Port \in [Conns -> Nat \ {0}]
    /\ MaxCmd \in Nat /\ MaxDcon \in Nat /\ MaxCtl \in Nat /\ MaxData \in Nat \ {0}

FtpInit ==
    /\ ctl = 0 /\ ctls = 0 /\ cmds = <<>> /\ list = <<>>
    /\ dcon = [d \in Dcons |-> [port |-> 0, ctl |-> 0, cmd |-> 0, tsession |-> NoConn, entry |-> NoConn]]
    /\ dconn = 0
    /\ dsess = [c \in Conns |-> [state |-> "none", dcon |-> NoDcon, bytes |-> 0]]
    /\ recs = [c \in Conns |-> 0]
    /\ dangling = FALSE /\ early = FALSE /\ shared = FALSE

Live == {list[i] : i \in DOMAIN list}

\* ch_ftp_session_find_last_cmd: cmds is newest first; 0 if there is none.
LastCmd(kind) ==
    LET is == {i \in DOMAIN cmds : cmds[i].kind = kind}
    IN  IF is = {} THEN 0 ELSE CHOOSE i \in is : \A j \in is : i <= j

\* ftp_cmd->ftp_dcon = NULL, for the command of object d, if the command is still there.
\* The object keeps its number, counted from the first.
CmdsWithout(d) ==
    IF dcon[d].ctl = ctl /\ ctl # 0
    THEN [cmds EXCEPT ![Len(cmds) + 1 - dcon[d].cmd].dcon = NoDcon] ELSE cmds

\* ch_ftp_data_connection_find: the first object with this port.
ByPort(p) ==
    LET is == {i \in DOMAIN list : dcon[list[i]].port = p}
    IN  IF is = {} THEN NoDcon ELSE list[CHOOSE i \in is : \A j \in is : i <= j]

\* do_ftp_session_entry_create with the first data of the connection
CtlOpen ==
    /\ ctl = 0 /\ ctls < MaxCtl
    /\ ctl' = ctls + 1 /\ ctls' = ctls + 1 /\ cmds' = <<>>
    /\ UNCHANGED <<list, dcon, dconn, dsess, recs, dangling, early, shared>>

\* do_ftp_session_request_parse, ch_ftp_session_cmd_add
CtlCommand(kind) ==
    /\ ctl # 0 /\ Len(cmds) < MaxCmd
    /\ cmds' = <<[kind |-> kind, dcon |-> NoDcon]>> \o cmds
    /\ UNCHANGED <<ctl, ctls, list, dcon, dconn, dsess, recs, dangling, early, shared>>

\* _process_ftp_data_connection: the answer to the current command, a PASV, names a port.
PasvAnswer(p) ==
    /\ ctl # 0 /\ cmds # <<>> /\ dconn < MaxDcon
    /\ Head(cmds).kind = "pasv" /\ Head(cmds).dcon = NoDcon
    /\ dconn' = dconn + 1
    /\ dcon' = [dcon EXCEPT ![dconn'] = [port |-> p, ctl |-> ctl, cmd |-> Len(cmds),
                                         tsession |-> NoConn, entry |-> NoConn]]
    /\ list' = <<dconn'>> \o list
    /\ cmds' = [cmds EXCEPT ![1].dcon = dconn']
    /\ UNCHANGED <<ctl, ctls, dsess, recs, dangling, early, shared>>

\* ch_ftp_data_connection_fin: the object's node is taken out of the list.
Without(d) ==
    IF d \in Live THEN RemoveAt(list, CHOOSE i \in DOMAIN list : list[i] = d) ELSE list

\* _process_ftp_data_rw_ok: the transfer is complete, says the answer to a command other
\* than PASV; ch_ftp_data_connection_fin_output records the data of the object's newest
\* session and ends its first one.
TransferOk ==
    LET i == LastCmd("pasv")
        d == cmds[i].dcon
        c == dcon[d].tsession
    IN  /\ ctl # 0 /\ cmds # <<>> /\ Head(cmds).kind # "pasv"
        /\ i # 0 /\ d # NoDcon
        /\ dangling' = (dangling \/ d \notin Live)
        /\ IF dcon[d].entry # NoConn /\ c # NoConn
           THEN /\ recs' = [recs EXCEPT ![dcon[d].entry] = @ + 1]
                /\ dsess' = [dsess EXCEPT ![c].state = "gone"]
                /\ list' = Without(d)
           ELSE UNCHANGED <<recs, dsess, list>>
        /\ cmds' = [cmds EXCEPT ![i].dcon = NoDcon]
        /\ UNCHANGED <<ctl, ctls, dcon, dconn, early, shared>>

\* do_ftp_session_entry_clean: the commands go, the data connections stay.
CtlClose ==
    /\ ctl # 0
    /\ ctl' = 0 /\ cmds' = <<>>
    /\ early' = (early \/ \E d \in Live : dcon[d].ctl = ctl)
    /\ UNCHANGED <<ctls, list, dcon, dconn, dsess, recs, dangling, shared>>

\* The first data of a connection: find_by_port_for_ftp, do_ftp_data_session_entry_create,
\* _do_content_process.  Without an object the packet, and with it the connection, is skipped.
DataFirst(c) ==
    LET d == ByPort(Port[c])
    IN  /\ dsess[c].state = "none" /\ d # NoDcon
        /\ dangling' = (dangling \/ dcon[d].ctl # ctl)
        /\ shared' = (shared \/ dcon[d].entry # NoConn)
        /\ dsess' = [dsess EXCEPT ![c] = [state |-> "open", dcon |-> d, bytes |-> 1]]
        /\ dcon' = [dcon EXCEPT ![d].entry = c, ![d].tsession = IF @ = NoConn THEN c ELSE @]
        /\ UNCHANGED <<ctl, ctls, cmds, list, dconn, recs, early>>

\* A data packet of a session, if an object is still found by its port.
DataMore(c) ==
    /\ dsess[c].state = "open" /\ dsess[c].bytes < MaxData /\ ByPort(Port[c]) # NoDcon
    /\ dangling' = (dangling \/ dsess[c].dcon \notin Live)
    /\ dsess' = [dsess EXCEPT ![c].bytes = @ + 1]
    /\ UNCHANGED <<ctl, ctls, cmds, list, dcon, dconn, recs, early, shared>>

\* Faulty variant of DataClean, for mutation: the command keeps its pointer.
DataClean_KeepCmd(c) ==
    LET d == dsess[c].dcon
    IN  /\ dangling' = (dangling \/ d \notin Live \/ dcon[d].ctl # ctl)
        /\ recs' = [recs EXCEPT ![c] = @ + 1]
        /\ dsess' = [dsess EXCEPT ![c].state = "gone"]
        /\ list' = Without(d)
        /\ UNCHANGED <<ctl, ctls, cmds, dcon, dconn, early, shared>>

\* do_ftp_data_session_entry_clean, of a session with data: its record, then the pointer of
\* the command is cleared, in the memory of the control session, and the object freed.
DataClean(c) ==
    LET d == dsess[c].dcon
    IN  /\ dangling' = (dangling \/ d \notin Live \/ dcon[d].ctl # ctl)
        /\ recs' = [recs EXCEPT ![c] = @ + 1]
        /\ dsess' = [dsess EXCEPT ![c].state = "gone"]
        /\ list' = Without(d)
        /\ cmds' = CmdsWithout(d)
        /\ UNCHANGED <<ctl, ctls, dcon, dconn, early, shared>>

\* The file for the data cannot be created: the session is closed with its first packet,
\* without a record.
DataNoFile(c) ==
    LET d == ByPort(Port[c])
    IN  /\ dsess[c].state = "none" /\ d # NoDcon
        /\ dangling' = (dangling \/ dcon[d].ctl # ctl)
        /\ shared' = (shared \/ dcon[d].entry # NoConn)
        /\ dsess' = [dsess EXCEPT ![c].state = "failed"]
        /\ list' = Without(d)
        /\ cmds' = CmdsWithout(d)
        /\ UNCHANGED <<ctl, ctls, dcon, dconn, recs, early>>

\* The last packet of the connection, or its timeout, which needs no object.
DataClose(c) == dsess[c].state = "open" /\ ByPort(Port[c]) # NoDcon /\ DataClean(c)
DataTimeout(c) == dsess[c].state = "open" /\ DataClean(c)

FtpNext ==
    \/ CtlOpen \/ CtlClose \/ TransferOk
    \/ \E k \in {"pasv", "retr"} : CtlCommand(k)
    \/ \E p \in Ports : PasvAnswer(p)
    \/ \E c \in Conns : DataFirst(c) \/ DataMore(c) \/ DataNoFile(c) \/ DataClose(c) \/ DataTimeout(c)

FtpSpec == FtpInit /\ [][FtpNext]_ftpVars

-----------------------------------------------------------------------------
\* Commands, objects and sessions stay in their ranges.
FtpTypeOK ==
    /\ ctl \in 0 .. MaxCtl /\ ctls \in 0 .. MaxCtl
    /\ cmds \in Seq([kind : {"pasv", "retr"}, dcon : Dcons \union {NoDcon}]) /\ Len(cmds) <= MaxCmd
    /\ Live \subseteq 1 .. dconn
    /\ dcon \in [Dcons -> [port : Ports \union {0}, ctl : 0 .. MaxCtl, cmd : 0 .. MaxCmd,
                           tsession : Conns \union {NoConn}, entry : Conns \union {NoConn}]]
    /\ dsess \in [Conns -> [state : {"none", "open", "gone", "failed"},
                           dcon : Dcons \union {NoDcon}, bytes : 0 .. MaxData]]

\* Commands, data connection objects and data sessions point into each other's memory, and
\* any of them may go first.  No freed memory is used, and each data connection that ends has
\* one record, as long as the control session outlives the objects it announced and no two
\* connections are found by one object.  Neither is checked by the code: see the hazards.
FtpSound ==
    /\ dangling => early \/ shared
    /\ ~shared => \A c \in Conns : recs[c] = IF dsess[c].state = "gone" THEN 1 ELSE 0
=============================================================================
