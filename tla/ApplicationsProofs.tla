-------------------------- MODULE ApplicationsProofs --------------------------
(***************************************************************************)
(* Proofs about the sessions of applications.  FtpData, for any number of  *)
(* control sessions, commands, data connections and packets.  UdpSession,  *)
(* for any number of transfers, blocks and queries, any limits, and any    *)
(* number of packets lost, repeated or reordered.                          *)
(***************************************************************************)
EXTENDS UdpSession, FtpData, TLAPS, FiniteSetTheorems, FunctionTheorems, SequenceTheorems

-----------------------------------------------------------------------------
(* Lists. *)

\* A set of natural numbers that is not empty has a least element.
LEMMA LeastNat ==
    ASSUME NEW T \in SUBSET Nat, T # {}
    PROVE  \E x \in T : \A y \in T : x <= y
<1>1. PICK x \in T : \A y \in T : ~(<<y, x>> \in OpToRel(<, Nat))
    BY WFMin, NatLessThanWellFounded
<1>2. \A y \in T : y < x => <<y, x>> \in OpToRel(<, Nat)
    BY DEF OpToRel
<1>3. ASSUME NEW y \in T PROVE x <= y
    <2>1. ~(y < x)  BY <1>1, <1>2
    <2> QED  BY <2>1
<1> QED  BY <1>3

\* Nothing is in a list twice.
Distinct(s) == \A i, j \in DOMAIN s : s[i] = s[j] => i = j

\* RemoveAt moves the elements behind the position one place forward.
LEMMA RemoveAtIs ==
    ASSUME NEW S, NEW s \in Seq(S), NEW k \in DOMAIN s
    PROVE  /\ RemoveAt(s, k) \in Seq(S)
           /\ Len(RemoveAt(s, k)) = Len(s) - 1
           /\ \A i \in 1 .. Len(s) - 1 :
                 RemoveAt(s, k)[i] = IF i < k THEN s[i] ELSE s[i + 1]
<1>1. Len(s) \in Nat /\ k \in 1 .. Len(s) /\ DOMAIN s = 1 .. Len(s)  OBVIOUS
<1> DEFINE a == SubSeq(s, 1, k - 1)
           b == SubSeq(s, k + 1, Len(s))
<1>2. a \in Seq(S) /\ Len(a) = k - 1 /\ \A i \in 1 .. k - 1 : a[i] = s[i]
    BY <1>1
<1>3. b \in Seq(S) /\ Len(b) = Len(s) - k /\ \A i \in 1 .. Len(s) - k : b[i] = s[k + i]
    BY <1>1
<1>4. RemoveAt(s, k) = a \o b  BY DEF RemoveAt
<1> HIDE DEF a, b
<1>5. /\ a \o b \in Seq(S) /\ Len(a \o b) = Len(a) + Len(b)
      /\ \A i \in 1 .. Len(a) + Len(b) : (a \o b)[i] = IF i <= Len(a) THEN a[i] ELSE b[i - Len(a)]
    BY <1>2, <1>3, ConcatProperties
<1>6. ASSUME NEW i \in 1 .. Len(s) - 1
      PROVE  (a \o b)[i] = IF i < k THEN s[i] ELSE s[i + 1]
    <2>0. i \in 1 .. Len(a) + Len(b)  BY <1>1, <1>2, <1>3
    <2>1. (a \o b)[i] = IF i <= Len(a) THEN a[i] ELSE b[i - Len(a)]  BY <2>0, <1>5
    <2>2. CASE i < k  BY <2>1, <2>2, <1>1, <1>2
    <2>3. CASE ~(i < k)
        <3>1. i - (k - 1) \in 1 .. Len(s) - k  BY <1>1, <2>3
        <3>2. b[i - (k - 1)] = s[k + (i - (k - 1))]  BY <3>1, <1>3
        <3>3. k + (i - (k - 1)) = i + 1  BY <1>1
        <3> QED  BY <3>2, <3>3, <2>1, <2>3, <1>1, <1>2
    <2> QED  BY <2>2, <2>3
<1>7. Len(a \o b) = Len(s) - 1  BY <1>1, <1>2, <1>3, <1>5
<1> QED  BY <1>4, <1>5, <1>6, <1>7

\* A list without one of its elements, when it holds nothing twice.
LEMMA RemoveAtDistinct ==
    ASSUME NEW S, NEW s \in Seq(S), NEW k \in DOMAIN s, Distinct(s)
    PROVE  LET r == RemoveAt(s, k) IN
           /\ Distinct(r)
           /\ {r[i] : i \in DOMAIN r} = {s[i] : i \in DOMAIN s} \ {s[k]}
<1> DEFINE r == RemoveAt(s, k)
<1>1. /\ r \in Seq(S) /\ Len(r) = Len(s) - 1 /\ Len(s) \in Nat /\ k \in 1 .. Len(s)
      /\ DOMAIN r = 1 .. Len(s) - 1 /\ DOMAIN s = 1 .. Len(s)
      /\ \A i \in 1 .. Len(s) - 1 : r[i] = IF i < k THEN s[i] ELSE s[i + 1]
    BY RemoveAtIs
<1> HIDE DEF r
<1> DEFINE old(i) == IF i < k THEN i ELSE i + 1
<1>2. \A i \in DOMAIN r : old(i) \in DOMAIN s /\ old(i) # k /\ r[i] = s[old(i)]
    BY <1>1
<1>3. \A i, j \in DOMAIN r : old(i) = old(j) => i = j  BY <1>1
<1>4. \A j \in DOMAIN s : j # k => \E i \in DOMAIN r : r[i] = s[j]
    <2> SUFFICES ASSUME NEW j \in DOMAIN s, j # k PROVE \E i \in DOMAIN r : r[i] = s[j]
        OBVIOUS
    <2>1. CASE j < k  BY <2>1, <1>1
    <2>2. CASE j > k
        <3>1. j - 1 \in DOMAIN r /\ ~(j - 1 < k) /\ (j - 1) + 1 = j  BY <2>2, <1>1
        <3> QED  BY <3>1, <1>1
    <2> QED  BY <2>1, <2>2, <1>1
<1> HIDE DEF old
<1>5. Distinct(r)  BY <1>2, <1>3 DEF Distinct
<1>6. \A i \in DOMAIN r : r[i] # s[k]  BY <1>2 DEF Distinct
<1>7. {r[i] : i \in DOMAIN r} = {s[i] : i \in DOMAIN s} \ {s[k]}
    BY <1>2, <1>4, <1>6
<1> QED  BY <1>5, <1>7 DEF r

-----------------------------------------------------------------------------
(* FtpData: which objects the list, the commands and the data sessions point to. *)

\* The list holds objects that were announced, each once, by control sessions up to the
\* present one, whose commands they are.
Announced ==
    /\ dconn \in 0 .. MaxDcon /\ list \in Seq(1 .. dconn) /\ Distinct(list)
    /\ ctl \in 0 .. ctls /\ (ctl = 0 => cmds = <<>>)
    /\ \A d \in 1 .. dconn : /\ dcon[d].ctl \in 1 .. ctls
                             /\ dcon[d].ctl = ctl => dcon[d].cmd \in 1 .. Len(cmds)
    /\ \A c \in Conns : dsess[c].state = "open" => dsess[c].dcon \in 1 .. dconn

\* A command points to an object of the list, which points back.
CmdsPoint ==
    \A i \in DOMAIN cmds :
        LET d == cmds[i].dcon IN
        d # NoDcon => d \in Live /\ dcon[d].ctl = ctl /\ dcon[d].cmd = Len(cmds) + 1 - i

\* As long as no object was found twice, an open data session and its object point to
\* each other.
Paired ==
    ~shared =>
      /\ \A d \in Live : /\ dcon[d].tsession = dcon[d].entry
                         /\ dcon[d].entry # NoConn =>
                              LET s == dsess[dcon[d].entry] IN s.state = "open" /\ s.dcon = d
      /\ \A c \in Conns : dsess[c].state = "open" =>
                              dsess[c].dcon \in Live /\ dcon[dsess[c].dcon].entry = c

\* As long as no control session ended too early, all objects are those of the present one.
Present == ~early => \A d \in Live : dcon[d].ctl = ctl

FlagsOK == dangling \in BOOLEAN /\ early \in BOOLEAN /\ shared \in BOOLEAN /\ recs \in [Conns -> Nat]

\* The inductive invariant behind FtpSound.
FtpInv == FtpTypeOK /\ FlagsOK /\ Announced /\ CmdsPoint /\ Paired /\ Present /\ FtpSound
Cmd == [kind : {"pasv", "retr"}, dcon : Dcons \union {NoDcon}]

LEMMA LiveIs ==
    ASSUME Announced
    PROVE  /\ Live \subseteq 1 .. dconn /\ 1 .. dconn \subseteq Dcons
           /\ \A i \in DOMAIN list : list[i] \in Live
<1>1. list \in Seq(1 .. dconn) /\ dconn \in 0 .. MaxDcon  BY DEF Announced
<1>2. \A i \in DOMAIN list : list[i] \in 1 .. dconn  BY <1>1
<1>3. 1 .. dconn \subseteq Dcons  BY <1>1, FtpAssumption DEF Dcons
<1> QED  BY <1>2, <1>3 DEF Live

\* An object taken out of the list is not in it any more; the others are.
LEMMA WithoutIs ==
    ASSUME Announced, NEW d
    PROVE  LET r == Without(d) IN
           r \in Seq(1 .. dconn) /\ Distinct(r) /\ {r[i] : i \in DOMAIN r} = Live \ {d}
<1>1. list \in Seq(1 .. dconn) /\ Distinct(list)  BY DEF Announced
<1>2. CASE d \in Live
    <2> DEFINE k == CHOOSE i \in DOMAIN list : list[i] = d
    <2>1. k \in DOMAIN list /\ list[k] = d  BY <1>2 DEF Live
    <2>2. Without(d) = RemoveAt(list, k)  BY <1>2 DEF Without
    <2> HIDE DEF k
    <2>3. RemoveAt(list, k) \in Seq(1 .. dconn)  BY <1>1, <2>1, RemoveAtIs
    <2>4. /\ Distinct(RemoveAt(list, k))
          /\ {RemoveAt(list, k)[i] : i \in DOMAIN RemoveAt(list, k)} = Live \ {d}
        BY <1>1, <2>1, RemoveAtDistinct DEF Live
    <2> QED  BY <2>2, <2>3, <2>4
<1>3. CASE d \notin Live
    <2>1. Without(d) = list /\ Live \ {d} = Live  BY <1>3 DEF Without
    <2> QED  BY <1>1, <2>1 DEF Live
<1> QED  BY <1>2, <1>3

\* ch_ftp_data_connection_find returns an object of the list.
LEMMA ByPortIs ==
    ASSUME Announced, NEW p, ByPort(p) # NoDcon
    PROVE  ByPort(p) \in Live /\ ByPort(p) \in 1 .. dconn
<1> DEFINE is == {i \in DOMAIN list : dcon[list[i]].port = p}
<1>1. is # {} /\ ByPort(p) = list[CHOOSE i \in is : \A j \in is : i <= j]  BY DEF ByPort
<1>2. is \in SUBSET Nat  BY DEF Announced
<1>3. \E i \in is : \A j \in is : i <= j  BY <1>1, <1>2, LeastNat
<1>4. (CHOOSE i \in is : \A j \in is : i <= j) \in is  BY <1>3
<1>5. is \subseteq DOMAIN list  OBVIOUS
<1> HIDE DEF is
<1>6. ByPort(p) \in Live  BY <1>1, <1>4, <1>5 DEF Live
<1> QED  BY <1>6, LiveIs

\* The pointer of one command is cleared.
LEMMA CmdCleared ==
    ASSUME FtpTypeOK, NEW k \in DOMAIN cmds
    PROVE  LET q == [cmds EXCEPT ![k].dcon = NoDcon] IN
           /\ q \in Seq(Cmd) /\ Len(q) = Len(cmds) /\ DOMAIN q = DOMAIN cmds
           /\ \A i \in DOMAIN cmds : q[i].dcon = IF i = k THEN NoDcon ELSE cmds[i].dcon
<1>1. cmds \in Seq(Cmd) /\ k \in 1 .. Len(cmds) /\ DOMAIN cmds = 1 .. Len(cmds)
    BY DEF FtpTypeOK, Cmd
<1>2. cmds[k] \in Cmd  BY <1>1
<1> DEFINE e == [cmds[k] EXCEPT !.dcon = NoDcon]
           q == [cmds EXCEPT ![k] = e]
<1>3. e \in Cmd /\ e.dcon = NoDcon  BY <1>2 DEF Cmd
<1> HIDE DEF e
<1>4. /\ q \in Seq(Cmd) /\ Len(q) = Len(cmds)
      /\ \A i \in 1 .. Len(cmds) : q[i] = IF i = k THEN e ELSE cmds[i]
    BY <1>1, <1>3, ExceptSeq
<1>5. [cmds EXCEPT ![k].dcon = NoDcon] = q  BY DEF e
<1>6. DOMAIN q = DOMAIN cmds  BY <1>1
<1>7. \A i \in DOMAIN cmds : q[i].dcon = IF i = k THEN NoDcon ELSE cmds[i].dcon
    BY <1>1, <1>3, <1>4
<1> HIDE DEF q
<1> QED  BY <1>4, <1>5, <1>6, <1>7

\* No command points to object d after its pointer was cleared; nothing else changes.
LEMMA CmdsWithoutIs ==
    ASSUME FtpTypeOK, Announced, CmdsPoint, NEW d \in 1 .. dconn
    PROVE  LET q == CmdsWithout(d) IN
           /\ q \in Seq(Cmd) /\ Len(q) = Len(cmds) /\ DOMAIN q = DOMAIN cmds
           /\ \A i \in DOMAIN cmds : q[i].dcon # NoDcon => q[i].dcon = cmds[i].dcon /\ q[i].dcon # d
<1>1. cmds \in Seq(Cmd) /\ DOMAIN cmds = 1 .. Len(cmds) /\ Len(cmds) \in Nat  BY DEF FtpTypeOK, Cmd
<1>2. CASE dcon[d].ctl = ctl /\ ctl # 0
    <2> DEFINE k == Len(cmds) + 1 - dcon[d].cmd
    <2>1. dcon[d].cmd \in 1 .. Len(cmds)  BY <1>2 DEF Announced
    <2>2. k \in DOMAIN cmds  BY <2>1, <1>1
    <2>3. CmdsWithout(d) = [cmds EXCEPT ![k].dcon = NoDcon]  BY <1>2 DEF CmdsWithout
    <2>4. \A i \in DOMAIN cmds : cmds[i].dcon = d => i = k
        <3> SUFFICES ASSUME NEW i \in DOMAIN cmds, cmds[i].dcon = d PROVE i = k
            OBVIOUS
        <3>1. d # NoDcon  BY DEF NoDcon, Announced
        <3>2. dcon[d].cmd = Len(cmds) + 1 - i  BY <3>1 DEF CmdsPoint
        <3> QED  BY <3>2, <1>1, <2>1
    <2> HIDE DEF k
    <2> QED  BY <2>2, <2>3, <2>4, CmdCleared
<1>3. CASE ~(dcon[d].ctl = ctl /\ ctl # 0)
    <2>1. CmdsWithout(d) = cmds  BY <1>3 DEF CmdsWithout
    <2>2. \A i \in DOMAIN cmds : cmds[i].dcon # d
        <3> SUFFICES ASSUME NEW i \in DOMAIN cmds, cmds[i].dcon = d PROVE FALSE
            OBVIOUS
        <3>1. d # NoDcon  BY DEF NoDcon, Announced
        <3>2. dcon[d].ctl = ctl  BY <3>1 DEF CmdsPoint
        <3>3. ctl # 0  BY <1>1 DEF Announced
        <3> QED  BY <3>2, <3>3, <1>3
    <2> QED  BY <1>1, <2>1, <2>2
<1> QED  BY <1>2, <1>3
-----------------------------------------------------------------------------
(* The steps of FtpData. *)

\* Object d leaves the list, and no command points to it any more.
LEMMA Removed ==
    ASSUME FtpTypeOK, Announced, CmdsPoint, NEW d \in 1 .. dconn,
           list' = Without(d),
           cmds' \in Seq(Cmd), Len(cmds') = Len(cmds), DOMAIN cmds' = DOMAIN cmds,
           \A i \in DOMAIN cmds :
               cmds'[i].dcon # NoDcon => cmds'[i].dcon = cmds[i].dcon /\ cmds'[i].dcon # d,
           \A c \in Conns : dsess'[c].state = "open" => dsess[c].state = "open" /\ dsess'[c].dcon = dsess[c].dcon,
           UNCHANGED <<ctl, ctls, dcon, dconn>>
    PROVE  /\ Announced' /\ CmdsPoint' /\ Live' = Live \ {d} /\ Live' \subseteq 1 .. dconn'
           /\ ctl' \in 0 .. MaxCtl /\ ctls' \in 0 .. MaxCtl
           /\ cmds' \in Seq([kind : {"pasv", "retr"}, dcon : Dcons \union {NoDcon}])
           /\ Len(cmds') <= MaxCmd
<1>1. list' \in Seq(1 .. dconn) /\ Distinct(list') /\ {list'[i] : i \in DOMAIN list'} = Live \ {d}
    BY WithoutIs
<1>2. Live' = Live \ {d}  BY <1>1 DEF Live
<1>3. Live' \subseteq 1 .. dconn'  BY <1>2, LiveIs
<1>4. Announced'
    <2>1. ctl = 0 => cmds' = <<>>  BY DEF Announced
    <2>2. dconn' \in 0 .. MaxDcon /\ list' \in Seq(1 .. dconn') /\ Distinct(list') /\ ctl' \in 0 .. ctls'
        BY <1>1 DEF Announced
    <2>3. \A e \in 1 .. dconn' : /\ dcon'[e].ctl \in 1 .. ctls'
                                 /\ dcon'[e].ctl = ctl' => dcon'[e].cmd \in 1 .. Len(cmds')
        BY DEF Announced
    <2>4. \A c \in Conns : dsess'[c].state = "open" => dsess'[c].dcon \in 1 .. dconn'
        BY DEF Announced
    <2> QED  BY <2>1, <2>2, <2>3, <2>4 DEF Announced, Distinct
<1>5. CmdsPoint'
    <2> SUFFICES ASSUME NEW i \in DOMAIN cmds', cmds'[i].dcon # NoDcon
                 PROVE  /\ cmds'[i].dcon \in Live' /\ dcon'[cmds'[i].dcon].ctl = ctl'
                        /\ dcon'[cmds'[i].dcon].cmd = Len(cmds') + 1 - i
        BY DEF CmdsPoint
    <2>1. cmds'[i].dcon = cmds[i].dcon /\ cmds'[i].dcon # d  OBVIOUS
    <2> QED  BY <2>1, <1>2 DEF CmdsPoint
<1> QED  BY <1>2, <1>3, <1>4, <1>5 DEF FtpTypeOK, Cmd

\* The type of the sessions, and of a session that changes its state.
LEMMA StateTyped ==
    ASSUME FtpTypeOK, NEW c \in Conns, NEW st \in {"open", "gone", "failed"}
    PROVE  [dsess EXCEPT ![c].state = st] \in
               [Conns -> [state : {"none", "open", "gone", "failed"},
                          dcon : Dcons \union {NoDcon}, bytes : 0 .. MaxData]]
BY DEF FtpTypeOK

LEMMA FtpInitOK == FtpInit => FtpInv
<1> SUFFICES ASSUME FtpInit PROVE FtpInv
    OBVIOUS
<1>1. Live = {} /\ cmds = <<>> /\ list = <<>>  BY DEF FtpInit, Live
<1>2. FtpTypeOK  BY <1>1, FtpAssumption DEF FtpInit, FtpTypeOK, NoDcon, NoConn
<1>3. FlagsOK  BY FtpAssumption DEF FtpInit, FlagsOK
<1>5. Announced
    <2>1. dconn = 0 /\ 1 .. 0 = {} /\ list \in Seq(1 .. dconn) /\ Distinct(list)
        BY <1>1 DEF FtpInit, Distinct
    <2> QED  BY <2>1, FtpAssumption DEF FtpInit, Announced
<1>4. CmdsPoint /\ Paired /\ Present /\ FtpSound
    BY <1>1, FtpAssumption DEF FtpInit, CmdsPoint, Paired, Present, FtpSound
<1> QED  BY <1>2, <1>3, <1>4, <1>5 DEF FtpInv

LEMMA CtlOpenOK == FtpInv /\ CtlOpen => FtpInv'
<1> SUFFICES ASSUME FtpInv, CtlOpen PROVE FtpInv'
    OBVIOUS
<1> USE DEF FtpInv
<1>1. Live' = Live  BY DEF CtlOpen, Live
<1>2. \A d \in 1 .. dconn : dcon[d].ctl \in 1 .. ctls  BY DEF Announced
<1>3. ctls \in Nat /\ ctls + 1 \in 0 .. MaxCtl  BY FtpAssumption DEF CtlOpen, FtpTypeOK
<1>4. FtpTypeOK' /\ FlagsOK'  BY <1>1, <1>3, FtpAssumption DEF CtlOpen, FtpTypeOK, FlagsOK
<1>5. Announced'  BY <1>2, <1>3 DEF CtlOpen, Announced, Distinct
<1>6. CmdsPoint' /\ Paired' /\ FtpSound'
    BY <1>1 DEF CtlOpen, CmdsPoint, Paired, FtpSound
<1>7. Present'
    <2>1. ~early => Live = {}
        BY <1>2, LiveIs DEF Present, CtlOpen
    <2> QED  BY <1>1, <2>1 DEF Present, CtlOpen
<1> QED  BY <1>4, <1>5, <1>6, <1>7

LEMMA CtlCloseOK == FtpInv /\ CtlClose => FtpInv'
<1> SUFFICES ASSUME FtpInv, CtlClose PROVE FtpInv'
    OBVIOUS
<1> USE DEF FtpInv
<1>1. Live' = Live  BY DEF CtlClose, Live
<1>2. \A d \in 1 .. dconn : dcon[d].ctl \in 1 .. ctls  BY DEF Announced
<1>3. ctls \in Nat  BY FtpAssumption DEF FtpTypeOK
<1>4. FtpTypeOK' /\ FlagsOK'  BY <1>1, <1>3, FtpAssumption DEF CtlClose, FtpTypeOK, FlagsOK
<1>5. Announced'  BY <1>2, <1>3 DEF CtlClose, Announced, Distinct
<1>6. CmdsPoint' /\ Paired' /\ FtpSound'
    BY <1>1 DEF CtlClose, CmdsPoint, Paired, FtpSound, FlagsOK
<1>7. Present'
    BY <1>1 DEF Present, CtlClose
<1> QED  BY <1>4, <1>5, <1>6, <1>7
\* A step that only adds a command.
LEMMA CtlCommandOK == ASSUME NEW kind \in {"pasv", "retr"}, FtpInv, CtlCommand(kind) PROVE FtpInv'
<1> USE DEF FtpInv
<1> DEFINE e == [kind |-> kind, dcon |-> NoDcon]
<1>1. Live' = Live  BY DEF CtlCommand, Live
<1>2. cmds \in Seq(Cmd) /\ e \in Cmd /\ cmds' = <<e>> \o cmds
    BY DEF FtpTypeOK, Cmd, CtlCommand
<1>3. /\ cmds' \in Seq(Cmd) /\ Len(cmds') = Len(cmds) + 1 /\ Len(cmds) \in Nat
      /\ cmds'[1] = e /\ \A i \in 1 .. Len(cmds) : cmds'[i + 1] = cmds[i]
    <2> HIDE DEF e
    <2>1. <<e>> \in Seq(Cmd) /\ Len(<<e>>) = 1 /\ <<e>>[1] = e  BY <1>2
    <2>2. /\ <<e>> \o cmds \in Seq(Cmd) /\ Len(<<e>> \o cmds) = 1 + Len(cmds)
          /\ \A i \in 1 .. 1 + Len(cmds) :
                (<<e>> \o cmds)[i] = IF i <= 1 THEN <<e>>[i] ELSE cmds[i - 1]
        BY <1>2, <2>1, ConcatProperties
    <2>3. Len(cmds) \in Nat  BY <1>2
    <2> QED  BY <1>2, <2>1, <2>2, <2>3
<1>4. \A i \in DOMAIN cmds' : i # 1 => i - 1 \in DOMAIN cmds /\ cmds'[i] = cmds[i - 1]
    <2> SUFFICES ASSUME NEW i \in DOMAIN cmds', i # 1
                 PROVE  i - 1 \in DOMAIN cmds /\ cmds'[i] = cmds[i - 1]
        OBVIOUS
    <2>1. i \in 1 .. Len(cmds) + 1  BY <1>3
    <2>2. i - 1 \in 1 .. Len(cmds) /\ (i - 1) + 1 = i  BY <2>1, <1>3
    <2> QED  BY <2>2, <1>2, <1>3
<1>5. FtpTypeOK' /\ FlagsOK'  BY <1>1, <1>3, FtpAssumption DEF CtlCommand, FtpTypeOK, FlagsOK, Cmd
<1>6. Announced'  BY <1>3 DEF CtlCommand, Announced, Distinct
<1>7. CmdsPoint'
    <2> SUFFICES ASSUME NEW i \in DOMAIN cmds', cmds'[i].dcon # NoDcon
                 PROVE  /\ cmds'[i].dcon \in Live' /\ dcon'[cmds'[i].dcon].ctl = ctl'
                        /\ dcon'[cmds'[i].dcon].cmd = Len(cmds') + 1 - i
        BY DEF CmdsPoint
    <2>1. i # 1  BY <1>3
    <2>2. i - 1 \in DOMAIN cmds /\ cmds'[i] = cmds[i - 1] /\ i \in Nat  BY <1>3, <1>4, <2>1
    <2>3. Len(cmds') + 1 - i = Len(cmds) + 1 - (i - 1)  BY <1>3, <2>2
    <2> QED  BY <1>1, <2>2, <2>3 DEF CmdsPoint, CtlCommand
<1>8. Paired' /\ FtpSound' /\ Present'  BY <1>1 DEF CtlCommand, Paired, FtpSound, Present
<1> QED  BY <1>5, <1>6, <1>7, <1>8

\* The pairs, when no object was found twice.
LEMMA PairedIs ==
    ASSUME FtpTypeOK, Announced, Paired, ~shared
    PROVE  /\ \A d \in Live : /\ dcon[d].tsession = dcon[d].entry
                              /\ dcon[d].entry # NoConn => /\ dcon[d].entry \in Conns
                                                           /\ dsess[dcon[d].entry].state = "open"
                                                           /\ dsess[dcon[d].entry].dcon = d
           /\ \A c \in Conns : dsess[c].state = "open" =>
                                  dsess[c].dcon \in Live /\ dcon[dsess[c].dcon].entry = c
<1>1. \A d \in Live : d \in Dcons  BY LiveIs
<1>2. \A d \in Live : dcon[d].entry # NoConn => dcon[d].entry \in Conns
    BY <1>1 DEF FtpTypeOK
<1>3. /\ \A d \in Live : /\ dcon[d].tsession = dcon[d].entry
                         /\ dcon[d].entry # NoConn => /\ dsess[dcon[d].entry].state = "open"
                                                      /\ dsess[dcon[d].entry].dcon = d
      /\ \A c \in Conns : dsess[c].state = "open" =>
                                  dsess[c].dcon \in Live /\ dcon[dsess[c].dcon].entry = c
    BY Zenon DEF Paired
<1> QED  BY <1>2, <1>3

\* An object is announced, that no command and no session points to but the current command.
LEMMA PasvAnswerOK == ASSUME NEW p \in Ports, FtpInv, PasvAnswer(p) PROVE FtpInv'
<1> USE DEF FtpInv
<1> DEFINE d == dconn + 1
           o == [port |-> p, ctl |-> ctl, cmd |-> Len(cmds), tsession |-> NoConn, entry |-> NoConn]
           Obj == [port : Ports \union {0}, ctl : 0 .. MaxCtl, cmd : 0 .. MaxCmd,
                   tsession : Conns \union {NoConn}, entry : Conns \union {NoConn}]
<1>1. /\ dconn \in Nat /\ dconn' = d /\ d \in Nat /\ d \in Dcons /\ d # NoDcon
      /\ dcon' = [dcon EXCEPT ![d] = o] /\ list' = <<d>> \o list
    BY FtpAssumption DEF PasvAnswer, Announced, Dcons, NoDcon
<1>2. cmds \in Seq(Cmd) /\ 1 \in DOMAIN cmds /\ Len(cmds) \in Nat \ {0} /\ DOMAIN cmds = 1 .. Len(cmds)
    BY DEF PasvAnswer, FtpTypeOK, Cmd
<1>3. dcon \in [Dcons -> Obj] /\ o \in Obj
    BY <1>2, FtpAssumption DEF FtpTypeOK, PasvAnswer
<1>4. dcon' \in [Dcons -> Obj] /\ dcon'[d] = o /\ \A e \in 1 .. dconn : dcon'[e] = dcon[e]
    <2> HIDE DEF o, Obj
    <2>1. \A e \in 1 .. dconn : e \in Dcons /\ e # d  BY <1>1, FtpAssumption DEF Dcons
    <2> QED  BY <1>1, <1>3, <2>1
<1>5. /\ list' \in Seq(1 .. d) /\ Len(list') = Len(list) + 1 /\ Len(list) \in Nat /\ list'[1] = d
      /\ \A i \in 2 .. Len(list) + 1 : list'[i] = list[i - 1] /\ i - 1 \in DOMAIN list
      /\ \A i \in DOMAIN list : list[i] \in 1 .. dconn
    <2>1. list \in Seq(1 .. dconn)  BY DEF Announced
    <2>2. list \in Seq(1 .. d) /\ <<d>> \in Seq(1 .. d)  BY <1>1, <2>1, SeqMonotonic
    <2>3. /\ <<d>> \o list \in Seq(1 .. d) /\ Len(<<d>> \o list) = 1 + Len(list)
          /\ \A i \in 1 .. 1 + Len(list) :
                (<<d>> \o list)[i] = IF i <= 1 THEN <<d>>[i] ELSE list[i - 1]
        BY <2>2, ConcatProperties
    <2>4. Len(list) \in Nat /\ DOMAIN list = 1 .. Len(list)  BY <2>1
    <2> HIDE DEF d, o
    <2> QED  BY <1>1, <2>1, <2>3, <2>4
<1>6. Live' = Live \union {d} /\ d \notin Live /\ Live \subseteq 1 .. dconn
    <2>1. DOMAIN list' = 1 .. Len(list) + 1 /\ DOMAIN list = 1 .. Len(list)
        BY <1>5 DEF Announced
    <2>2. \A i \in DOMAIN list' : list'[i] \in Live \union {d}
        <3> SUFFICES ASSUME NEW i \in DOMAIN list' PROVE list'[i] \in Live \union {d}
            OBVIOUS
        <3>1. CASE i = 1  BY <3>1, <1>5
        <3>2. CASE i # 1
            <4>1. i \in 2 .. Len(list) + 1  BY <2>1, <3>2, <1>5
            <4> QED  BY <4>1, <1>5 DEF Live
        <3> QED  BY <3>1, <3>2
    <2>3. \A i \in DOMAIN list : i + 1 \in DOMAIN list' /\ list'[i + 1] = list[i]
        <3> SUFFICES ASSUME NEW i \in DOMAIN list
                     PROVE  i + 1 \in DOMAIN list' /\ list'[i + 1] = list[i]
            OBVIOUS
        <3>1. i + 1 \in 2 .. Len(list) + 1 /\ (i + 1) - 1 = i  BY <2>1, <1>5
        <3> QED  BY <3>1, <2>1, <1>5
    <2>4. 1 \in DOMAIN list' /\ list'[1] = d  BY <2>1, <1>5
    <2>5. Live \subseteq 1 .. dconn  BY LiveIs
    <2>6. d \notin 1 .. dconn  BY <1>1
    <2> HIDE DEF d
    <2> QED  BY <2>2, <2>3, <2>4, <2>5, <2>6 DEF Live
<1>7. Distinct(list')
    <2> SUFFICES ASSUME NEW i \in DOMAIN list', NEW j \in DOMAIN list', list'[i] = list'[j] PROVE i = j
        BY DEF Distinct
    <2>1. DOMAIN list' = 1 .. Len(list) + 1  BY <1>5
    <2>2. d \notin 1 .. dconn  BY <1>1
    <2>3. \A m \in DOMAIN list' : m # 1 => /\ m - 1 \in DOMAIN list /\ list'[m] = list[m - 1]
                                          /\ list'[m] # d
        <3> SUFFICES ASSUME NEW m \in DOMAIN list', m # 1
                     PROVE  m - 1 \in DOMAIN list /\ list'[m] = list[m - 1] /\ list'[m] # d
            OBVIOUS
        <3>1. m \in 2 .. Len(list) + 1  BY <2>1, <1>5
        <3> QED  BY <3>1, <1>5, <2>2
    <2>4. CASE i = 1 \/ j = 1  BY <2>3, <2>4, <1>5
    <2>5. CASE i # 1 /\ j # 1
        <3>1. list[i - 1] = list[j - 1] /\ i - 1 \in DOMAIN list /\ j - 1 \in DOMAIN list  BY <2>3, <2>5
        <3>2. i - 1 = j - 1  BY <3>1 DEF Announced, Distinct
        <3> QED  BY <3>2, <2>1, <1>5
    <2> QED  BY <2>4, <2>5
<1>8. /\ cmds' \in Seq(Cmd) /\ Len(cmds') = Len(cmds) /\ DOMAIN cmds' = DOMAIN cmds
      /\ cmds'[1].dcon = d
      /\ \A i \in DOMAIN cmds : i # 1 => cmds'[i] = cmds[i]
    <2> DEFINE e == [cmds[1] EXCEPT !.dcon = d]
    <2>1. cmds[1] \in Cmd  BY <1>2
    <2>2. e \in Cmd /\ e.dcon = d  BY <2>1, <1>1 DEF Cmd
    <2>3. cmds' = [cmds EXCEPT ![1] = e]  BY <1>1 DEF PasvAnswer
    <2> HIDE DEF e
    <2>4. /\ cmds' \in Seq(Cmd) /\ Len(cmds') = Len(cmds)
          /\ \A i \in 1 .. Len(cmds) : cmds'[i] = IF i = 1 THEN e ELSE cmds[i]
        BY <1>2, <2>2, <2>3, ExceptSeq
    <2> QED  BY <1>2, <2>2, <2>4
<1> HIDE DEF o, Obj
<1>9. FlagsOK'  BY DEF PasvAnswer, FlagsOK
<1>10. FtpTypeOK'
    <2>1. Live' \subseteq 1 .. dconn'  BY <1>1, <1>6
    <2>2. dcon' \in [Dcons -> Obj]'  BY <1>4 DEF Obj, Ports, Dcons
    <2>3. /\ ctl' \in 0 .. MaxCtl /\ ctls' \in 0 .. MaxCtl
          /\ dsess' \in [Conns -> [state : {"none", "open", "gone", "failed"},
                                   dcon : Dcons \union {NoDcon}, bytes : 0 .. MaxData]]
        BY DEF PasvAnswer, FtpTypeOK
    <2>4. cmds' \in Seq(Cmd) /\ Len(cmds') <= MaxCmd  BY <1>8 DEF FtpTypeOK
    <2> QED  BY <2>1, <2>2, <2>3, <2>4 DEF FtpTypeOK, Cmd, Obj
<1>11. o.ctl = ctl /\ o.cmd = Len(cmds) /\ o.tsession = NoConn /\ o.entry = NoConn  BY DEF o
<1>12. UNCHANGED <<ctl, ctls, dsess, recs, dangling, early, shared>> /\ ctl # 0  BY DEF PasvAnswer
<1>13. Announced'
    <2>1. dconn' \in 0 .. MaxDcon  BY <1>1 DEF Dcons
    <2>2. ctl' \in 0 .. ctls' /\ ctl' # 0 /\ ctl' \in 1 .. ctls' /\ ctls \in Nat
        BY <1>12, FtpAssumption DEF Announced, FtpTypeOK
    <2>3. ASSUME NEW e \in 1 .. dconn'
          PROVE  dcon'[e].ctl \in 1 .. ctls' /\ (dcon'[e].ctl = ctl' => dcon'[e].cmd \in 1 .. Len(cmds'))
        <3>1. CASE e = d  BY <3>1, <1>4, <1>11, <1>12, <1>2, <1>8, <2>2
        <3>2. CASE e # d
            <4>1. e \in 1 .. dconn  BY <3>2, <1>1
            <4> QED  BY <4>1, <1>4, <1>8, <1>12 DEF Announced
        <3> QED  BY <3>1, <3>2
    <2>4. \A c \in Conns : dsess'[c].state = "open" => dsess'[c].dcon \in 1 .. dconn'
        BY <1>1, <1>12 DEF Announced
    <2> QED  BY <1>1, <1>5, <1>7, <2>1, <2>2, <2>3, <2>4 DEF Announced, Distinct
<1>14. CmdsPoint'
    <2> SUFFICES ASSUME NEW i \in DOMAIN cmds', cmds'[i].dcon # NoDcon
                 PROVE  /\ cmds'[i].dcon \in Live' /\ dcon'[cmds'[i].dcon].ctl = ctl'
                        /\ dcon'[cmds'[i].dcon].cmd = Len(cmds') + 1 - i
        BY DEF CmdsPoint
    <2>1. CASE i = 1  BY <2>1, <1>2, <1>4, <1>6, <1>8, <1>11, <1>12
    <2>2. CASE i # 1
        <3>1. cmds'[i] = cmds[i]  BY <2>2, <1>8
        <3>2. cmds[i].dcon \in Live /\ dcon[cmds[i].dcon].ctl = ctl /\ dcon[cmds[i].dcon].cmd = Len(cmds) + 1 - i
            BY <3>1, <1>8 DEF CmdsPoint
        <3> QED  BY <3>1, <3>2, <1>4, <1>6, <1>8, <1>12
    <2> QED  BY <2>1, <2>2
<1>15. Paired' /\ Present' /\ FtpSound'
    <2> HIDE DEF d
    <2>1. Paired'
        <3> SUFFICES ASSUME ~shared PROVE Paired'
            BY <1>12 DEF Paired
        <3>1. \A e \in Live : /\ dcon[e].tsession = dcon[e].entry
                              /\ dcon[e].entry # NoConn => /\ dsess[dcon[e].entry].state = "open"
                                                           /\ dsess[dcon[e].entry].dcon = e
            BY PairedIs
        <3>2. \A b \in Conns : dsess[b].state = "open" => dsess[b].dcon \in Live /\ dcon[dsess[b].dcon].entry = b
            BY PairedIs
        <3>3. \A e \in Live : dcon'[e] = dcon[e]  BY <1>4, <1>6
        <3>4. ASSUME NEW e \in Live'
              PROVE  /\ dcon'[e].tsession = dcon'[e].entry
                     /\ dcon'[e].entry # NoConn => dsess'[dcon'[e].entry].state = "open" /\ dsess'[dcon'[e].entry].dcon = e
            <4>1. CASE e = d  BY <4>1, <1>4, <1>11
            <4>2. CASE e # d  BY <4>2, <3>1, <3>3, <1>6, <1>12
            <4> QED  BY <4>1, <4>2
        <3>5. \A b \in Conns : dsess'[b].state = "open" => dsess'[b].dcon \in Live' /\ dcon'[dsess'[b].dcon].entry = b
            BY <3>2, <3>3, <1>6, <1>12
        <3> QED  BY <3>4, <3>5 DEF Paired
    <2>2. Present'  BY <1>4, <1>6, <1>11, <1>12 DEF Present
    <2> QED  BY <2>1, <2>2, <1>12 DEF FtpSound
<1> QED  BY <1>9, <1>10, <1>13, <1>14, <1>15
\* ch_ftp_session_find_last_cmd returns a command of the list.
LEMMA LastCmdIs ==
    ASSUME FtpTypeOK, NEW kind, LastCmd(kind) # 0
    PROVE  LastCmd(kind) \in DOMAIN cmds
<1> DEFINE is == {i \in DOMAIN cmds : cmds[i].kind = kind}
<1>1. is # {} /\ LastCmd(kind) = CHOOSE i \in is : \A j \in is : i <= j  BY DEF LastCmd
<1>2. is \in SUBSET Nat  BY DEF FtpTypeOK
<1>3. \E i \in is : \A j \in is : i <= j  BY <1>1, <1>2, LeastNat
<1>4. (CHOOSE i \in is : \A j \in is : i <= j) \in is  BY <1>3
<1> QED  BY <1>1, <1>4

\* 226: the object and its session are paired, so that the record is the session's first.
LEMMA TransferOkOK == FtpInv /\ TransferOk => FtpInv'
<1> SUFFICES ASSUME FtpInv, TransferOk PROVE FtpInv'
    OBVIOUS
<1> USE DEF FtpInv
<1> DEFINE k == LastCmd("pasv")
           d == cmds[k].dcon
           e == dcon[d].entry
           c == dcon[d].tsession
<1>1. /\ k # 0 /\ d # NoDcon /\ dangling' = (dangling \/ d \notin Live)
      /\ cmds' = [cmds EXCEPT ![k].dcon = NoDcon]
      /\ UNCHANGED <<ctl, ctls, dcon, dconn, early, shared>>
    BY DEF TransferOk
<1>2. k \in DOMAIN cmds  BY <1>1, LastCmdIs
<1>3. /\ cmds' \in Seq(Cmd) /\ Len(cmds') = Len(cmds) /\ DOMAIN cmds' = DOMAIN cmds
      /\ \A i \in DOMAIN cmds : cmds'[i].dcon = IF i = k THEN NoDcon ELSE cmds[i].dcon
    BY <1>1, <1>2, CmdCleared
<1>4. d \in Live /\ d \in 1 .. dconn /\ dangling' = dangling /\ dcon[d].cmd = Len(cmds) + 1 - k
    BY <1>1, <1>2, LiveIs DEF CmdsPoint, FlagsOK
<1>5. \A i \in DOMAIN cmds :
          cmds'[i].dcon # NoDcon => cmds'[i].dcon = cmds[i].dcon /\ cmds'[i].dcon # d
    <2> SUFFICES ASSUME NEW i \in DOMAIN cmds, cmds'[i].dcon # NoDcon
                 PROVE  cmds'[i].dcon = cmds[i].dcon /\ cmds[i].dcon # d
        OBVIOUS
    <2>1. i # k /\ cmds'[i].dcon = cmds[i].dcon  BY <1>3
    <2>2. ASSUME cmds[i].dcon = d PROVE FALSE
        <3>1. dcon[d].cmd = Len(cmds) + 1 - i  BY <2>2, <1>1 DEF CmdsPoint
        <3>2. Len(cmds) \in Nat /\ i \in Nat /\ k \in Nat  BY <1>2 DEF FtpTypeOK
        <3> QED  BY <3>1, <3>2, <2>1, <1>4
    <2> QED  BY <2>1, <2>2
<1> HIDE DEF k
<1>6. CASE e # NoConn /\ c # NoConn
    <2>1. /\ recs' = [recs EXCEPT ![e] = @ + 1]
          /\ dsess' = [dsess EXCEPT ![c].state = "gone"]
          /\ list' = Without(d)
        BY <1>6 DEF TransferOk, k
    <2>2. c \in Conns /\ e \in Conns
        <3>1. d \in Dcons  BY <1>4, LiveIs
        <3> QED  BY <3>1, <1>6 DEF FtpTypeOK
    <2>3. /\ dsess'[c].state = "gone" /\ dsess \in [Conns -> [state : {"none", "open", "gone", "failed"},
                                          dcon : Dcons \union {NoDcon}, bytes : 0 .. MaxData]]
          /\ \A b \in Conns : b # c => dsess'[b] = dsess[b]
        BY <2>1, <2>2 DEF FtpTypeOK
    <2> HIDE DEF d, e, c
    <2>4. \A b \in Conns : dsess'[b].state = "open" => /\ b # c /\ dsess'[b] = dsess[b]
        BY <2>3
    <2>5. /\ Announced' /\ CmdsPoint' /\ Live' = Live \ {d} /\ Live' \subseteq 1 .. dconn'
          /\ ctl' \in 0 .. MaxCtl /\ ctls' \in 0 .. MaxCtl
          /\ cmds' \in Seq([kind : {"pasv", "retr"}, dcon : Dcons \union {NoDcon}])
          /\ Len(cmds') <= MaxCmd
        BY <1>1, <1>3, <1>4, <1>5, <2>1, <2>4, Removed
    <2>6. dsess' \in [Conns -> [state : {"none", "open", "gone", "failed"},
                                dcon : Dcons \union {NoDcon}, bytes : 0 .. MaxData]]
        BY <2>1, <2>2, StateTyped
    <2>7. FtpTypeOK'  BY <2>5, <2>6, <1>1 DEF FtpTypeOK, Ports
    <2>8. FlagsOK'  BY <1>1, <1>4, <2>1, <2>2 DEF FlagsOK
    <2>9. Present'  BY <1>1, <2>5 DEF Present
    <2>10. ASSUME ~shared PROVE e = c /\ dsess[c].state = "open" /\ dsess[c].dcon = d
        BY <2>10, <1>4, <1>6, PairedIs DEF e, c
    <2>11. Paired'
        <3> SUFFICES ASSUME ~shared PROVE Paired'
            BY <1>1 DEF Paired
        <3>1. ASSUME NEW x \in Live'
              PROVE  /\ dcon'[x].tsession = dcon'[x].entry
                     /\ dcon'[x].entry # NoConn => /\ dsess'[dcon'[x].entry].state = "open"
                                                   /\ dsess'[dcon'[x].entry].dcon = x
            <4>1. x \in Live /\ x # d /\ dcon'[x] = dcon[x]  BY <2>5, <1>1
            <4>2. dcon[x].tsession = dcon[x].entry  BY <4>1, PairedIs
            <4>3. ASSUME dcon[x].entry # NoConn
                  PROVE  dsess'[dcon[x].entry].state = "open" /\ dsess'[dcon[x].entry].dcon = x
                <5>1. dsess[dcon[x].entry].state = "open" /\ dsess[dcon[x].entry].dcon = x
                    BY <4>1, <4>3, PairedIs
                <5>2. dcon[x].entry # c  BY <5>1, <4>1, <2>10
                <5>3. dcon[x].entry \in Conns
                    <6>1. x \in Dcons  BY <4>1, LiveIs
                    <6> QED  BY <6>1, <4>3 DEF FtpTypeOK
                <5> QED  BY <5>1, <5>2, <5>3, <2>3
            <4> QED  BY <4>1, <4>2, <4>3
        <3>2. ASSUME NEW b \in Conns, dsess'[b].state = "open"
              PROVE  dsess'[b].dcon \in Live' /\ dcon'[dsess'[b].dcon].entry = b
            <4>1. b # c /\ dsess'[b] = dsess[b]  BY <3>2, <2>4
            <4>2. dsess[b].dcon \in Live /\ dcon[dsess[b].dcon].entry = b  BY <3>2, <4>1, PairedIs
            <4>3. dsess[b].dcon # d  BY <4>1, <4>2, <2>10 DEF e
            <4> QED  BY <4>1, <4>2, <4>3, <2>5, <1>1
        <3> QED  BY <3>1, <3>2 DEF Paired
    <2>12. FtpSound'
        <3>1. dangling' => early' \/ shared'  BY <1>1, <1>4 DEF FtpSound
        <3>2. ASSUME ~shared, NEW b \in Conns
              PROVE  recs'[b] = IF dsess'[b].state = "gone" THEN 1 ELSE 0
            <4>1. recs[b] = IF dsess[b].state = "gone" THEN 1 ELSE 0  BY <3>2 DEF FtpSound
            <4>2. CASE b = c  BY <4>1, <4>2, <2>1, <2>2, <2>3, <2>10, <3>2 DEF FlagsOK
            <4>3. CASE b # c  BY <4>1, <4>3, <2>1, <2>2, <2>3, <2>10, <3>2 DEF FlagsOK
            <4> QED  BY <4>2, <4>3
        <3> QED  BY <3>1, <3>2, <1>1 DEF FtpSound
    <2> QED  BY <2>5, <2>7, <2>8, <2>9, <2>11, <2>12
<1>7. CASE ~(e # NoConn /\ c # NoConn)
    <2>1. UNCHANGED <<recs, dsess, list>>  BY <1>7 DEF TransferOk, k
    <2> HIDE DEF d, e, c
    <2>2. Live' = Live  BY <2>1 DEF Live
    <2>3. FtpTypeOK' /\ FlagsOK'
        BY <1>1, <1>3, <1>4, <2>1, <2>2 DEF FtpTypeOK, FlagsOK, Cmd, Ports
    <2>4. Announced'
        <3>1. ctl = 0 => cmds' = <<>>  BY <1>3 DEF Announced
        <3> QED  BY <3>1, <1>1, <1>3, <2>1 DEF Announced, Distinct
    <2>5. CmdsPoint'  BY <1>1, <1>3, <1>5, <2>2 DEF CmdsPoint
    <2>6. Paired' /\ Present' /\ FtpSound'
        BY <1>1, <1>4, <2>1, <2>2 DEF Paired, Present, FtpSound
    <2> QED  BY <2>3, <2>4, <2>5, <2>6
<1> QED  BY <1>6, <1>7
Sess == [state : {"none", "open", "gone", "failed"}, dcon : Dcons \union {NoDcon}, bytes : 0 .. MaxData]

\* The first data: the object found becomes the session's, and the session the object's.
LEMMA DataFirstOK == ASSUME NEW c \in Conns, FtpInv, DataFirst(c) PROVE FtpInv'
<1> USE DEF FtpInv
<1> DEFINE d == ByPort(Port[c])
           n == [state |-> "open", dcon |-> d, bytes |-> 1]
           o == [dcon[d] EXCEPT !.entry = c, !.tsession = IF @ = NoConn THEN c ELSE @]
           Obj == [port : Ports \union {0}, ctl : 0 .. MaxCtl, cmd : 0 .. MaxCmd,
                   tsession : Conns \union {NoConn}, entry : Conns \union {NoConn}]
<1>1. /\ dsess[c].state = "none" /\ d # NoDcon
      /\ dangling' = (dangling \/ dcon[d].ctl # ctl)
      /\ shared' = (shared \/ dcon[d].entry # NoConn)
      /\ dsess' = [dsess EXCEPT ![c] = n]
      /\ dcon' = [dcon EXCEPT ![d] = o]
      /\ UNCHANGED <<ctl, ctls, cmds, list, dconn, recs, early>>
    BY DEF DataFirst
<1>2. d \in Live /\ d \in 1 .. dconn  BY <1>1, ByPortIs
<1>3. d \in Dcons /\ c # NoConn  BY <1>2, LiveIs, FtpAssumption
<1>4. dcon \in [Dcons -> Obj] /\ dsess \in [Conns -> Sess]  BY DEF FtpTypeOK, Sess
<1>5. n \in Sess /\ n.state = "open" /\ n.dcon = d  BY <1>3, FtpAssumption DEF Sess
<1>6. /\ o \in Obj /\ o.entry = c /\ o.ctl = dcon[d].ctl /\ o.cmd = dcon[d].cmd
      /\ o.tsession = IF dcon[d].tsession = NoConn THEN c ELSE dcon[d].tsession
    BY <1>3, <1>4
<1> HIDE DEF n, o, Obj, d
<1>7. /\ dcon' \in [Dcons -> Obj] /\ dcon'[d] = o /\ \A e \in Dcons : e # d => dcon'[e] = dcon[e]
      /\ dsess' \in [Conns -> Sess] /\ dsess'[c] = n /\ \A b \in Conns : b # c => dsess'[b] = dsess[b]
    BY <1>1, <1>3, <1>4, <1>5, <1>6
<1>8. Live' = Live /\ Live \subseteq Dcons /\ Live \subseteq 1 .. dconn  BY <1>1, LiveIs DEF Live
<1>9. \A e \in Dcons : dcon'[e].ctl = dcon[e].ctl /\ dcon'[e].cmd = dcon[e].cmd  BY <1>6, <1>7
<1>10. FtpTypeOK'
    <2>1. dcon' \in [Dcons -> Obj]'  BY <1>7 DEF Obj, Ports, Dcons
    <2> QED  BY <2>1, <1>1, <1>7, <1>8 DEF FtpTypeOK, Sess, Obj, Ports
<1>11. FlagsOK'  BY <1>1 DEF FlagsOK
<1>12. Announced'
    <2>1. \A e \in 1 .. dconn : e \in Dcons  BY LiveIs
    <2>2. \A e \in 1 .. dconn' : /\ dcon'[e].ctl \in 1 .. ctls'
                                 /\ dcon'[e].ctl = ctl' => dcon'[e].cmd \in 1 .. Len(cmds')
        BY <2>1, <1>1, <1>9 DEF Announced
    <2>3. \A b \in Conns : dsess'[b].state = "open" => dsess'[b].dcon \in 1 .. dconn'
        BY <1>1, <1>2, <1>5, <1>7 DEF Announced
    <2> QED  BY <2>2, <2>3, <1>1 DEF Announced, Distinct
<1>13. CmdsPoint'
    <2> SUFFICES ASSUME NEW i \in DOMAIN cmds, cmds[i].dcon # NoDcon
                 PROVE  /\ cmds[i].dcon \in Live /\ dcon'[cmds[i].dcon].ctl = ctl
                        /\ dcon'[cmds[i].dcon].cmd = Len(cmds) + 1 - i
        BY <1>1, <1>8 DEF CmdsPoint
    <2>1. cmds[i].dcon \in Live /\ dcon[cmds[i].dcon].ctl = ctl /\ dcon[cmds[i].dcon].cmd = Len(cmds) + 1 - i
        BY DEF CmdsPoint
    <2> QED  BY <2>1, <1>8, <1>9
<1>14. Present'  BY <1>1, <1>8, <1>9 DEF Present
<1>15. Paired'
    <2> SUFFICES ASSUME ~shared, dcon[d].entry = NoConn PROVE Paired'
        BY <1>1 DEF Paired
    <2>1. \A e \in Live : /\ dcon[e].tsession = dcon[e].entry
                          /\ dcon[e].entry # NoConn => /\ dcon[e].entry \in Conns
                                                       /\ dsess[dcon[e].entry].state = "open"
                                                       /\ dsess[dcon[e].entry].dcon = e
        BY PairedIs
    <2>2. \A b \in Conns : dsess[b].state = "open" => dsess[b].dcon \in Live /\ dcon[dsess[b].dcon].entry = b
        BY PairedIs
    <2>3. ASSUME NEW e \in Live'
          PROVE  /\ dcon'[e].tsession = dcon'[e].entry
                 /\ dcon'[e].entry # NoConn => dsess'[dcon'[e].entry].state = "open" /\ dsess'[dcon'[e].entry].dcon = e
        <3>1. CASE e = d  BY <3>1, <2>1, <1>2, <1>5, <1>6, <1>7
        <3>2. CASE e # d
            <4>1. e \in Live /\ dcon'[e] = dcon[e]  BY <3>2, <1>7, <1>8
            <4>2. dcon[e].entry # NoConn => dcon[e].entry # c  BY <4>1, <2>1, <1>1
            <4> QED  BY <4>1, <4>2, <2>1, <1>7
        <3> QED  BY <3>1, <3>2
    <2>4. ASSUME NEW b \in Conns, dsess'[b].state = "open"
          PROVE  dsess'[b].dcon \in Live' /\ dcon'[dsess'[b].dcon].entry = b
        <3>1. CASE b = c  BY <3>1, <1>2, <1>5, <1>6, <1>7, <1>8
        <3>2. CASE b # c
            <4>1. dsess'[b] = dsess[b]  BY <3>2, <1>7
            <4>2. dsess[b].dcon \in Live /\ dcon[dsess[b].dcon].entry = b  BY <2>2, <2>4, <4>1
            <4>3. dsess[b].dcon # d  BY <4>2, FtpAssumption
            <4> QED  BY <4>1, <4>2, <4>3, <1>7, <1>8
        <3> QED  BY <3>1, <3>2
    <2> QED  BY <2>3, <2>4 DEF Paired
<1>16. FtpSound'
    <2>1. dangling' => early' \/ shared'
        <3>1. ~early => dcon[d].ctl = ctl  BY <1>2 DEF Present
        <3> QED  BY <3>1, <1>1 DEF FtpSound
    <2>2. ASSUME ~shared, NEW b \in Conns PROVE recs'[b] = IF dsess'[b].state = "gone" THEN 1 ELSE 0
        <3>1. recs[b] = IF dsess[b].state = "gone" THEN 1 ELSE 0  BY <2>2 DEF FtpSound
        <3> QED  BY <3>1, <1>1, <1>5, <1>7
    <2> QED  BY <2>1, <2>2, <1>1 DEF FtpSound
<1> QED  BY <1>10, <1>11, <1>12, <1>13, <1>14, <1>15, <1>16

\* More data: the session's object is still in the list.
LEMMA DataMoreOK == ASSUME NEW c \in Conns, FtpInv, DataMore(c) PROVE FtpInv'
<1> USE DEF FtpInv
<1> DEFINE n == [dsess[c] EXCEPT !.bytes = @ + 1]
<1>1. /\ dsess[c].state = "open" /\ dsess[c].bytes < MaxData
      /\ dangling' = (dangling \/ dsess[c].dcon \notin Live)
      /\ dsess' = [dsess EXCEPT ![c] = n]
      /\ UNCHANGED <<ctl, ctls, cmds, list, dcon, dconn, recs, early, shared>>
    BY DEF DataMore
<1>2. dsess \in [Conns -> Sess]  BY DEF FtpTypeOK, Sess
<1>3. n \in Sess /\ n.state = dsess[c].state /\ n.dcon = dsess[c].dcon
    <2>1. dsess[c] \in Sess  BY <1>2
    <2>2. dsess[c].bytes + 1 \in 0 .. MaxData  BY <2>1, <1>1, FtpAssumption DEF Sess
    <2> QED  BY <2>1, <2>2 DEF Sess
<1> HIDE DEF n
<1>4. /\ dsess' \in [Conns -> Sess]
      /\ \A b \in Conns : dsess'[b].state = dsess[b].state /\ dsess'[b].dcon = dsess[b].dcon
    BY <1>1, <1>2, <1>3
<1>5. Live' = Live /\ Live \subseteq Dcons  BY <1>1, LiveIs DEF Live
<1>6. FtpTypeOK' /\ FlagsOK'  BY <1>1, <1>4, <1>5 DEF FtpTypeOK, FlagsOK, Sess, Ports
<1>7. Announced' /\ CmdsPoint' /\ Present'
    BY <1>1, <1>4, <1>5 DEF Announced, Distinct, CmdsPoint, Present
<1>8. Paired'
    <2> SUFFICES ASSUME ~shared PROVE Paired'
        BY <1>1 DEF Paired
    <2>1. \A e \in Live : /\ dcon[e].tsession = dcon[e].entry
                          /\ dcon[e].entry # NoConn => /\ dcon[e].entry \in Conns
                                                       /\ dsess[dcon[e].entry].state = "open"
                                                       /\ dsess[dcon[e].entry].dcon = e
        BY PairedIs
    <2>2. \A b \in Conns : dsess[b].state = "open" => dsess[b].dcon \in Live /\ dcon[dsess[b].dcon].entry = b
        BY PairedIs
    <2> QED  BY <2>1, <2>2, <1>1, <1>4, <1>5 DEF Paired
<1>9. FtpSound'
    <2>1. ~shared => dsess[c].dcon \in Live  BY <1>1, PairedIs
    <2> QED  BY <2>1, <1>1, <1>4 DEF FtpSound
<1> QED  BY <1>6, <1>7, <1>8, <1>9

\* The end of a data session: it was paired with its object, which goes with it.
LEMMA DataCleanOK ==
    ASSUME NEW c \in Conns, FtpInv, dsess[c].state = "open", DataClean(c) PROVE FtpInv'
<1> USE DEF FtpInv
<1> DEFINE d == dsess[c].dcon
<1>1. /\ dangling' = (dangling \/ d \notin Live \/ dcon[d].ctl # ctl)
      /\ recs' = [recs EXCEPT ![c] = @ + 1]
      /\ dsess' = [dsess EXCEPT ![c].state = "gone"]
      /\ list' = Without(d) /\ cmds' = CmdsWithout(d)
      /\ UNCHANGED <<ctl, ctls, dcon, dconn, early, shared>>
    BY DEF DataClean
<1>2. d \in 1 .. dconn  BY DEF Announced
<1>3. /\ cmds' \in Seq(Cmd) /\ Len(cmds') = Len(cmds) /\ DOMAIN cmds' = DOMAIN cmds
      /\ \A i \in DOMAIN cmds : cmds'[i].dcon # NoDcon => cmds'[i].dcon = cmds[i].dcon /\ cmds'[i].dcon # d
    BY <1>1, <1>2, CmdsWithoutIs
<1>4. /\ dsess \in [Conns -> Sess] /\ dsess' \in [Conns -> Sess] /\ dsess'[c].state = "gone"
      /\ \A b \in Conns : b # c => dsess'[b] = dsess[b]
    BY <1>1 DEF FtpTypeOK, Sess
<1> HIDE DEF d
<1>5. \A b \in Conns : dsess'[b].state = "open" => b # c /\ dsess'[b] = dsess[b]  BY <1>4
<1>6. /\ Announced' /\ CmdsPoint' /\ Live' = Live \ {d} /\ Live' \subseteq 1 .. dconn'
      /\ ctl' \in 0 .. MaxCtl /\ ctls' \in 0 .. MaxCtl
      /\ cmds' \in Seq([kind : {"pasv", "retr"}, dcon : Dcons \union {NoDcon}])
      /\ Len(cmds') <= MaxCmd
    BY <1>1, <1>2, <1>3, <1>5, Removed
<1>7. FtpTypeOK'  BY <1>1, <1>4, <1>6 DEF FtpTypeOK, Sess, Ports
<1>8. FlagsOK'  BY <1>1 DEF FlagsOK
<1>9. Present'  BY <1>1, <1>6 DEF Present
<1>10. Paired'
    <2> SUFFICES ASSUME ~shared PROVE Paired'
        BY <1>1 DEF Paired
    <2>1. \A e \in Live : /\ dcon[e].tsession = dcon[e].entry
                          /\ dcon[e].entry # NoConn => /\ dcon[e].entry \in Conns
                                                       /\ dsess[dcon[e].entry].state = "open"
                                                       /\ dsess[dcon[e].entry].dcon = e
        BY PairedIs
    <2>2. \A b \in Conns : dsess[b].state = "open" => dsess[b].dcon \in Live /\ dcon[dsess[b].dcon].entry = b
        BY PairedIs
    <2>3. dcon[d].entry = c  BY <2>2 DEF d
    <2>4. ASSUME NEW e \in Live'
          PROVE  /\ dcon'[e].tsession = dcon'[e].entry
                 /\ dcon'[e].entry # NoConn => dsess'[dcon'[e].entry].state = "open" /\ dsess'[dcon'[e].entry].dcon = e
        <3>1. e \in Live /\ e # d /\ dcon'[e] = dcon[e]  BY <1>1, <1>6
        <3>2. dcon[e].entry # NoConn => dcon[e].entry # c  BY <3>1, <2>1 DEF d
        <3> QED  BY <3>1, <3>2, <2>1, <1>4
    <2>5. ASSUME NEW b \in Conns, dsess'[b].state = "open"
          PROVE  dsess'[b].dcon \in Live' /\ dcon'[dsess'[b].dcon].entry = b
        <3>1. b # c /\ dsess'[b] = dsess[b]  BY <1>5, <2>5
        <3>2. dsess[b].dcon \in Live /\ dcon[dsess[b].dcon].entry = b  BY <2>2, <2>5, <3>1
        <3> QED  BY <3>1, <3>2, <2>3, <1>1, <1>6
    <2> QED  BY <2>4, <2>5 DEF Paired
<1>11. FtpSound'
    <2>1. dangling' => early' \/ shared'
        <3>1. ~shared => d \in Live  BY PairedIs DEF d
        <3>2. ~early /\ d \in Live => dcon[d].ctl = ctl  BY DEF Present
        <3> QED  BY <3>1, <3>2, <1>1 DEF FtpSound
    <2>2. ASSUME ~shared, NEW b \in Conns PROVE recs'[b] = IF dsess'[b].state = "gone" THEN 1 ELSE 0
        <3>1. recs[b] = IF dsess[b].state = "gone" THEN 1 ELSE 0  BY <2>2 DEF FtpSound
        <3>2. recs \in [Conns -> Nat]  BY DEF FlagsOK
        <3> QED  BY <3>1, <3>2, <1>1, <1>4
    <2> QED  BY <2>1, <2>2, <1>1 DEF FtpSound
<1> QED  BY <1>6, <1>7, <1>8, <1>9, <1>10, <1>11

\* No file for the data: the object goes, and no session has it.
LEMMA DataNoFileOK == ASSUME NEW c \in Conns, FtpInv, DataNoFile(c) PROVE FtpInv'
<1> USE DEF FtpInv
<1> DEFINE d == ByPort(Port[c])
<1>1. /\ dsess[c].state = "none" /\ d # NoDcon
      /\ dangling' = (dangling \/ dcon[d].ctl # ctl)
      /\ shared' = (shared \/ dcon[d].entry # NoConn)
      /\ dsess' = [dsess EXCEPT ![c].state = "failed"]
      /\ list' = Without(d) /\ cmds' = CmdsWithout(d)
      /\ UNCHANGED <<ctl, ctls, dcon, dconn, recs, early>>
    BY DEF DataNoFile
<1>2. d \in Live /\ d \in 1 .. dconn  BY <1>1, ByPortIs
<1> HIDE DEF d
<1>3. /\ cmds' \in Seq(Cmd) /\ Len(cmds') = Len(cmds) /\ DOMAIN cmds' = DOMAIN cmds
      /\ \A i \in DOMAIN cmds : cmds'[i].dcon # NoDcon => cmds'[i].dcon = cmds[i].dcon /\ cmds'[i].dcon # d
    BY <1>1, <1>2, CmdsWithoutIs
<1>4. /\ dsess \in [Conns -> Sess] /\ dsess' \in [Conns -> Sess] /\ dsess'[c].state = "failed"
      /\ \A b \in Conns : b # c => dsess'[b] = dsess[b]
    BY <1>1 DEF FtpTypeOK, Sess
<1>5. \A b \in Conns : dsess'[b].state = "open" => b # c /\ dsess'[b] = dsess[b]  BY <1>4
<1>6. /\ Announced' /\ CmdsPoint' /\ Live' = Live \ {d} /\ Live' \subseteq 1 .. dconn'
      /\ ctl' \in 0 .. MaxCtl /\ ctls' \in 0 .. MaxCtl
      /\ cmds' \in Seq([kind : {"pasv", "retr"}, dcon : Dcons \union {NoDcon}])
      /\ Len(cmds') <= MaxCmd
    BY <1>1, <1>2, <1>3, <1>5, Removed
<1>7. FtpTypeOK'  BY <1>1, <1>4, <1>6 DEF FtpTypeOK, Sess, Ports
<1>8. FlagsOK'  BY <1>1 DEF FlagsOK
<1>9. Present'  BY <1>1, <1>6 DEF Present
<1>10. Paired'
    <2> SUFFICES ASSUME ~shared, dcon[d].entry = NoConn PROVE Paired'
        BY <1>1 DEF Paired
    <2>1. \A e \in Live : /\ dcon[e].tsession = dcon[e].entry
                          /\ dcon[e].entry # NoConn => /\ dcon[e].entry \in Conns
                                                       /\ dsess[dcon[e].entry].state = "open"
                                                       /\ dsess[dcon[e].entry].dcon = e
        BY PairedIs
    <2>2. \A b \in Conns : dsess[b].state = "open" => dsess[b].dcon \in Live /\ dcon[dsess[b].dcon].entry = b
        BY PairedIs
    <2>4. ASSUME NEW e \in Live'
          PROVE  /\ dcon'[e].tsession = dcon'[e].entry
                 /\ dcon'[e].entry # NoConn => dsess'[dcon'[e].entry].state = "open" /\ dsess'[dcon'[e].entry].dcon = e
        <3>1. e \in Live /\ e # d /\ dcon'[e] = dcon[e]  BY <1>1, <1>6
        <3>2. dcon[e].entry # NoConn => dcon[e].entry # c  BY <3>1, <2>1, <1>1
        <3> QED  BY <3>1, <3>2, <2>1, <1>4
    <2>5. ASSUME NEW b \in Conns, dsess'[b].state = "open"
          PROVE  dsess'[b].dcon \in Live' /\ dcon'[dsess'[b].dcon].entry = b
        <3>1. b # c /\ dsess'[b] = dsess[b]  BY <1>5, <2>5
        <3>2. dsess[b].dcon \in Live /\ dcon[dsess[b].dcon].entry = b  BY <2>2, <2>5, <3>1
        <3>3. dsess[b].dcon # d  BY <3>2, FtpAssumption
        <3> QED  BY <3>1, <3>2, <3>3, <1>1, <1>6
    <2> QED  BY <2>4, <2>5 DEF Paired
<1>11. FtpSound'
    <2>1. dangling' => early' \/ shared'
        <3>2. ~early => dcon[d].ctl = ctl  BY <1>2 DEF Present
        <3> QED  BY <3>2, <1>1 DEF FtpSound
    <2>2. ASSUME ~shared, NEW b \in Conns PROVE recs'[b] = IF dsess'[b].state = "gone" THEN 1 ELSE 0
        <3>1. recs[b] = IF dsess[b].state = "gone" THEN 1 ELSE 0  BY <2>2 DEF FtpSound
        <3> QED  BY <3>1, <1>1, <1>4
    <2> QED  BY <2>1, <2>2, <1>1 DEF FtpSound
<1> QED  BY <1>6, <1>7, <1>8, <1>9, <1>10, <1>11

LEMMA FtpStep == FtpInv /\ [FtpNext]_ftpVars => FtpInv'
<1> SUFFICES ASSUME FtpInv, [FtpNext]_ftpVars PROVE FtpInv'
    OBVIOUS
<1>1. CASE UNCHANGED ftpVars
    BY <1>1 DEF ftpVars, FtpInv, FtpTypeOK, FlagsOK, Announced, CmdsPoint, Paired, Present,
                FtpSound, Live, Distinct, Ports
<1>2. CASE CtlOpen  BY <1>2, CtlOpenOK
<1>3. CASE CtlClose  BY <1>3, CtlCloseOK
<1>4. CASE TransferOk  BY <1>4, TransferOkOK
<1>5. CASE \E k \in {"pasv", "retr"} : CtlCommand(k)  BY <1>5, CtlCommandOK
<1>6. CASE \E p \in Ports : PasvAnswer(p)  BY <1>6, PasvAnswerOK
<1>7. ASSUME NEW c \in Conns,
             DataFirst(c) \/ DataMore(c) \/ DataNoFile(c) \/ DataClose(c) \/ DataTimeout(c)
      PROVE  FtpInv'
    <2>1. CASE DataFirst(c)  BY <2>1, DataFirstOK
    <2>2. CASE DataMore(c)  BY <2>2, DataMoreOK
    <2>3. CASE DataNoFile(c)  BY <2>3, DataNoFileOK
    <2>4. CASE DataClose(c) \/ DataTimeout(c)  BY <2>4, DataCleanOK DEF DataClose, DataTimeout
    <2> QED  BY <1>7, <2>1, <2>2, <2>3, <2>4
<1> QED  BY <1>1, <1>2, <1>3, <1>4, <1>5, <1>6, <1>7 DEF FtpNext

\* Commands, objects and data sessions of the ftp application stay well formed.
THEOREM FtpTypeCorrect == FtpSpec => []FtpTypeOK
<1>1. FtpInv => FtpTypeOK  BY DEF FtpInv
<1> QED  BY <1>1, FtpInitOK, FtpStep, PTL DEF FtpSpec

\* Control connection, data connections and 226 answers may end in any order: no freed memory
\* is used and every data connection that ended has one record, unless a control session
\* ended before an object it announced (do_ftp_session_entry_clean leaves the objects in the
\* list) or two connections were found by one object (ch_ftp_data_connection_find).
THEOREM FtpIsSound == FtpSpec => []FtpSound
<1>1. FtpInv => FtpSound  BY DEF FtpInv
<1> QED  BY <1>1, FtpInitOK, FtpStep, PTL DEF FtpSpec

-----------------------------------------------------------------------------
(* UdpSession: application sessions, their owners and the records. *)

AppRec == [type : {"tftp", "dns"}, fname : Flow, flow : Flow, last_block : Nat, content : Seq(Nat),
           is_error : BOOLEAN, dns_req : Nat, dns_res : Nat, fin : 0 .. 2]

\* Block b was written, and the block before it earlier.
Written(content, b) ==
    \E j \in DOMAIN content : content[j] = b /\ (b > 1 => \E h \in 1 .. j - 1 : content[h] = b - 1)

\* While an application session is not finished, the blocks up to last_block were written in
\* order.
AppOK(a) ==
    /\ a \in AppRec /\ (a.type = "dns" <=> a.flow = "dns")
    /\ a.fin = 0 => \A b \in 1 .. a.last_block : Written(a.content, b)

Members(rq) == {rq[k] : k \in DOMAIN rq}
Busy(se) == {f \in Flow : se[f] # None}

\* The inductive invariant of list, table and application sessions, as a predicate of their
\* values: the requests are tftp sessions, each once, the session of a flow is one of this
\* flow and no request, and those are the application sessions that are not finished.
MonOK(ap, rq, se, lk) ==
    /\ ap \in Seq(AppRec) /\ \A i \in 1 .. Len(ap) : AppOK(ap[i])
    /\ rq \in Seq(1 .. Len(ap)) /\ Distinct(rq) /\ Len(rq) <= ReqLimit
    /\ \A i \in Members(rq) : ap[i].type = "tftp"
    /\ se \in [Flow -> {None} \union 1 .. Len(ap)]
    /\ \A f \in Flow : se[f] # None => ap[se[f]].flow = f /\ se[f] \notin Members(rq)
    /\ Cardinality(Busy(se)) <= SessLimit
    /\ lk \subseteq 1 .. Len(ap)
    /\ \A i \in 1 .. Len(ap) :
          (i \in Members(rq) \/ \E f \in Flow : se[f] = i) <=> ap[i].fin = 0 /\ i \notin lk

\* An entry in the ring is no request and was not refused; if its session has ended since, it
\* counts as overtaken, and only such a session is finished twice.
RingInv ==
    /\ ring \subseteq 1 .. Len(app) /\ overtaken \subseteq 1 .. Len(app)
    /\ \A i \in ring : i \notin refused /\ i \notin Members(reqs)
    /\ \A i \in ring : app[i].fin >= 1 => i \in overtaken
    /\ \A i \in 1 .. Len(app) : app[i].fin > 1 => i \in overtaken

Rec == [of : Nat, type : {"tftp", "dns"}, flow : Flow, content : Seq(Nat), is_error : BOOLEAN,
        req : Nat, res : Nat, why : {"done", "timeout"}]

\* A record is one of an application session that is finished.
OutInv ==
    /\ out \in Seq(Rec) /\ RecordedWhole /\ ReportedOnce
    /\ \A n \in DOMAIN out : out[n].of \in 1 .. Len(app) /\ app[out[n].of].fin >= 1

UdpInv ==
    /\ MonOK(app, reqs, sess, refused) /\ RingInv /\ OutInv
    /\ draining \in BOOLEAN /\ sent \in [Xfer -> Int] /\ queries \in Nat

\* The packets of the network.
PktOK(pkt) ==
    \/ pkt.op \in {"rrq", "wrq", "error"} /\ pkt.x \in Xfer
    \/ pkt.op = "data" /\ pkt.x \in Xfer /\ pkt.b \in Nat \ {0}
    \/ pkt.op = "ack" /\ pkt.x \in Xfer /\ pkt.b \in Nat
    \/ pkt.op \in {"query", "response"} /\ pkt.id \in Nat /\ pkt.body \in Bodies /\ pkt.src # "server"

LEMMA FlowOfIs ==
    ASSUME NEW pkt, PktOK(pkt)
    PROVE  /\ FlowOf(pkt) \in Flow
           /\ FlowOf(pkt) = "dns" <=> pkt.op \in {"query", "response"}
           /\ pkt.op = "data" => FlowOf(pkt) = pkt.x /\ pkt.x \in Xfer
BY UdpAssumption DEF PktOK, FlowOf, Flow

\* The file is whole: every block was written, in order.
Whole(a) == \A b \in 1 .. Blocks[a.flow] : Written(a.content, b)

\* What was written stays written when another block is.
LEMMA WrittenAppend ==
    ASSUME NEW s \in Seq(Nat), NEW c \in Nat, NEW b \in Nat, Written(s, b)
    PROVE  Written(Append(s, c), b)
<1>1. PICK j \in DOMAIN s : s[j] = b /\ (b > 1 => \E h \in 1 .. j - 1 : s[h] = b - 1)
    BY DEF Written
<1>2. /\ DOMAIN s = 1 .. Len(s) /\ Len(s) \in Nat /\ DOMAIN Append(s, c) = 1 .. Len(s) + 1
      /\ \A i \in 1 .. Len(s) : Append(s, c)[i] = s[i]
    OBVIOUS
<1>3. j \in DOMAIN Append(s, c) /\ Append(s, c)[j] = b  BY <1>1, <1>2
<1>4. b > 1 => \E h \in 1 .. j - 1 : Append(s, c)[h] = b - 1
    <2> SUFFICES ASSUME b > 1 PROVE \E h \in 1 .. j - 1 : Append(s, c)[h] = b - 1
        OBVIOUS
    <2>1. PICK h \in 1 .. j - 1 : s[h] = b - 1  BY <1>1
    <2>2. h \in 1 .. Len(s)  BY <1>1, <1>2
    <2> QED  BY <2>1, <2>2, <1>2
<1> QED  BY <1>3, <1>4 DEF Written

\* The next block, or one that was written before, is written to the file.
LEMMA BlockWritten ==
    ASSUME NEW s \in Seq(Nat), NEW last \in Nat, NEW c \in Nat \ {0}, c <= last + 1,
           \A b \in 1 .. last : Written(s, b)
    PROVE  \A b \in 1 .. c : Written(Append(s, c), b)
<1> SUFFICES ASSUME NEW b \in 1 .. c PROVE Written(Append(s, c), b)
    OBVIOUS
<1>1. CASE b <= last
    <2>1. b \in 1 .. last /\ b \in Nat  BY <1>1
    <2> QED  BY <2>1, WrittenAppend
<1>2. CASE b > last
    <2>1. b = last + 1 /\ c = b  BY <1>2
    <2>2. /\ Len(s) \in Nat /\ DOMAIN s = 1 .. Len(s) /\ DOMAIN Append(s, c) = 1 .. Len(s) + 1
          /\ Append(s, c)[Len(s) + 1] = c /\ \A i \in 1 .. Len(s) : Append(s, c)[i] = s[i]
        OBVIOUS
    <2>3. b > 1 => \E h \in 1 .. (Len(s) + 1) - 1 : Append(s, c)[h] = b - 1
        <3> SUFFICES ASSUME b > 1 PROVE \E h \in 1 .. (Len(s) + 1) - 1 : Append(s, c)[h] = b - 1
            OBVIOUS
        <3>1. last \in 1 .. last /\ last = b - 1  BY <2>1
        <3>2. PICK j \in DOMAIN s : s[j] = last  BY <3>1 DEF Written
        <3> QED  BY <2>2, <3>1, <3>2
    <2>4. Len(s) + 1 \in DOMAIN Append(s, c)  BY <2>2
    <2> QED  BY <2>1, <2>2, <2>3, <2>4 DEF Written
<1> QED  BY <1>1, <1>2

Kept(a, w) == /\ w \in AppRec /\ w.type = a.type /\ w.fname = a.fname /\ w.flow = a.flow
              /\ w.fin = a.fin

\* What the parsers make of a packet of the session's flow: a session that goes on is well
\* formed, and a transfer that is done without an error packet is whole.
LEMMA ProcessIs ==
    ASSUME NEW a, AppOK(a), a.fin = 0, NEW pkt, PktOK(pkt), FlowOf(pkt) = a.flow,
           NEW v \in PacketProcess(a, pkt)
    PROVE  /\ Kept(a, v.a)
           /\ v.rc = "CONTINUE" => AppOK(v.a)
           /\ v.rc = "DONE" /\ a.type = "tftp" /\ ~v.a.is_error => Whole(v.a)
<1>1. /\ a \in AppRec /\ (a.type = "dns" <=> a.flow = "dns")
      /\ \A b \in 1 .. a.last_block : Written(a.content, b)
    BY DEF AppOK
<1>2. a.content \in Seq(Nat) /\ a.last_block \in Nat /\ a.type \in {"tftp", "dns"}  BY <1>1 DEF AppRec
<1>3. v.a = a => Kept(a, v.a) /\ AppOK(v.a)  BY <1>1 DEF Kept
<1>4. CASE a.type = "tftp"
    <2>1. v \in Tftp_packet_parse(a, pkt)  BY <1>4 DEF PacketProcess
    <2>3. CASE pkt.op = "data"
        <3>0. FlowOf(pkt) = pkt.x /\ pkt.x \in Xfer  BY <2>3, FlowOfIs
        <3> DEFINE b == pkt.b
                   w == [a EXCEPT !.last_block = b, !.content = Append(a.content, b)]
                   u == [a EXCEPT !.last_block = b]
        <3>1. b \in Nat \ {0}  BY <2>3 DEF PktOK
        <3>2. v \in Tftp_data(a, b, b = Blocks[pkt.x])  BY <2>1, <2>3 DEF Tftp_packet_parse
        <3>3. CASE b - a.last_block > 1
            <4>1. v = [rc |-> "ERR", a |-> a]  BY <3>2, <3>3 DEF Tftp_data
            <4> QED  BY <4>1, <1>3
        <3>4. CASE ~(b - a.last_block > 1)
            <4>1. \/ v = [rc |-> IF b = Blocks[pkt.x] THEN "DONE" ELSE "CONTINUE", a |-> w]
                  \/ v = [rc |-> "ERR", a |-> u]
                BY <3>2, <3>4 DEF Tftp_data
            <4>2. CASE v = [rc |-> "ERR", a |-> u]
                <5>1. Kept(a, u)  BY <1>1, <3>1 DEF Kept, AppRec
                <5> QED  BY <5>1, <4>2
            <4>3. CASE v = [rc |-> IF b = Blocks[pkt.x] THEN "DONE" ELSE "CONTINUE", a |-> w]
                <5>1. Append(a.content, b) \in Seq(Nat)  BY <1>2, <3>1
                <5>2. Kept(a, w) /\ w.last_block = b /\ w.content = Append(a.content, b)
                    BY <1>1, <3>1, <5>1 DEF Kept, AppRec
                <5>3. \A c \in 1 .. b : Written(Append(a.content, b), c)
                    <6>1. b <= a.last_block + 1  BY <1>2, <3>1, <3>4
                    <6> HIDE DEF b, w
                    <6> QED  BY <1>1, <1>2, <3>1, <6>1, BlockWritten
                <5> HIDE DEF w, b
                <5>4. AppOK(w)  BY <1>1, <5>2, <5>3 DEF AppOK, Kept
                <5>5. b = Blocks[pkt.x] => Whole(w)
                    BY <5>2, <5>3, <3>0 DEF Whole, Kept
                <5>6. v.a = w /\ (v.rc = "DONE" => b = Blocks[pkt.x])  BY <4>3
                <5> QED  BY <5>2, <5>4, <5>5, <5>6
            <4> QED  BY <4>1, <4>2, <4>3
        <3> QED  BY <3>3, <3>4
    <2>4. CASE pkt.op = "error"
        <3> DEFINE w == [a EXCEPT !.is_error = TRUE]
        <3>1. v = [rc |-> "DONE", a |-> w]  BY <2>1, <2>4 DEF Tftp_packet_parse
        <3>2. Kept(a, w) /\ w.is_error = TRUE  BY <1>1 DEF Kept, AppRec
        <3> QED  BY <3>1, <3>2
    <2>5. CASE pkt.op \notin {"data", "error"}
        <3>1. v.a = a /\ v.rc \in {"CONTINUE", "ERR"}  BY <2>1, <2>5 DEF Tftp_packet_parse
        <3> QED  BY <3>1, <1>3
    <2> QED  BY <2>3, <2>4, <2>5
<1>5. CASE a.type = "dns"
    <2>1. v \in Dns_pkt_process(a, pkt)  BY <1>5 DEF PacketProcess
    <2>2. pkt.op \in {"query", "response"} /\ pkt.id \in Nat
        BY <1>1, <1>5, FlowOfIs DEF PktOK
    <2> DEFINE q == [a EXCEPT !.dns_req = pkt.id]
               r == [a EXCEPT !.dns_res = pkt.id]
    <2>3. v.a \in {a, q, r}  BY <2>1 DEF Dns_pkt_process
    <2>4. Kept(a, q) /\ AppOK(q)
        <3>1. q \in AppRec /\ q.last_block = a.last_block /\ q.content = a.content
              /\ q.type = a.type /\ q.fname = a.fname /\ q.flow = a.flow /\ q.fin = a.fin
            BY <1>1, <2>2 DEF AppRec
        <3> HIDE DEF q
        <3> QED  BY <3>1, <1>1 DEF Kept, AppOK
    <2>5. Kept(a, r) /\ AppOK(r)
        <3>1. r \in AppRec /\ r.last_block = a.last_block /\ r.content = a.content
              /\ r.type = a.type /\ r.fname = a.fname /\ r.flow = a.flow /\ r.fin = a.fin
            BY <1>1, <2>2 DEF AppRec
        <3> HIDE DEF r
        <3> QED  BY <3>1, <1>1 DEF Kept, AppOK
    <2> HIDE DEF q, r
    <2> QED  BY <2>3, <2>4, <2>5, <1>3, <1>5
<1> QED  BY <1>2, <1>4, <1>5

-----------------------------------------------------------------------------
(* Changes of the list, the table and the application sessions. *)

LEMMA BusyFinite == ASSUME NEW se PROVE IsFiniteSet(Busy(se)) /\ Cardinality(Busy(se)) \in Nat
<1>1. IsFiniteSet(Flow)
    <2>1. IsFiniteSet(Xfer \union {"69"})  BY UdpAssumption, FS_AddElement
    <2>2. IsFiniteSet((Xfer \union {"69"}) \union {"dns"})  BY <2>1, FS_AddElement
    <2>3. Flow = (Xfer \union {"69"}) \union {"dns"}  BY DEF Flow
    <2> QED  BY <2>2, <2>3
<1>2. Busy(se) \subseteq Flow  BY DEF Busy
<1> QED  BY <1>1, <1>2, FS_Subset, FS_CardinalityType

\* A table that has no more flows than another is not more full.
LEMMA BusyLess ==
    ASSUME NEW se, NEW te, Cardinality(Busy(se)) <= SessLimit, Busy(te) \subseteq Busy(se)
    PROVE  Cardinality(Busy(te)) <= SessLimit
<1>1. Cardinality(Busy(te)) <= Cardinality(Busy(se))  BY BusyFinite, FS_Subset
<1> QED  BY <1>1, BusyFinite, UdpAssumption

\* There is room for one more.
LEMMA BusyMore ==
    ASSUME NEW se, NEW te, NEW f, Cardinality(Busy(se)) < SessLimit, Busy(te) \subseteq Busy(se) \union {f}
    PROVE  Cardinality(Busy(te)) <= SessLimit
<1>1. IsFiniteSet(Busy(se)) /\ Cardinality(Busy(se)) \in Nat  BY BusyFinite
<1>2. /\ IsFiniteSet(Busy(se) \union {f})
      /\ Cardinality(Busy(se) \union {f}) = IF f \in Busy(se) THEN Cardinality(Busy(se)) ELSE Cardinality(Busy(se)) + 1
    BY <1>1, FS_AddElement
<1>3. Cardinality(Busy(te)) <= Cardinality(Busy(se) \union {f})  BY <1>2, FS_Subset
<1> QED  BY <1>1, <1>2, <1>3, BusyFinite, UdpAssumption

\* One application session changes; if a request held it, the request is gone.
LEMMA ChangeOK ==
    ASSUME NEW ap, NEW rq, NEW se, NEW lk, MonOK(ap, rq, se, lk),
           NEW i \in 1 .. Len(ap), NEW r, AppOK(r),
           NEW nrq \in Seq(1 .. Len(ap)), Distinct(nrq), Len(nrq) <= Len(rq),
           Members(nrq) = Members(rq) \ {i},
           NEW nse \in [Flow -> {None} \union 1 .. Len(ap)],
           \A f \in Flow : nse[f] = i => r.flow = f,
           \A f \in Flow : nse[f] # i => nse[f] = se[f] \/ (nse[f] = None /\ se[f] = i),
           \A f \in Flow : nse[f] = i => se[f] \in {None, i},
           Cardinality(Busy(nse)) <= SessLimit,
           NEW nlk, nlk \in {lk, lk \union {i}},
           (\E f \in Flow : nse[f] = i) <=> r.fin = 0 /\ i \notin nlk
    PROVE  MonOK([ap EXCEPT ![i] = r], nrq, nse, nlk)
<1> DEFINE nap == [ap EXCEPT ![i] = r]
<1>1. /\ ap \in Seq(AppRec) /\ Len(ap) \in Nat /\ r \in AppRec /\ None \notin 1 .. Len(ap)
      /\ \A j \in 1 .. Len(ap) : AppOK(ap[j])
    BY DEF MonOK, AppOK, None
<1>2. nap \in Seq(AppRec) /\ Len(nap) = Len(ap) /\ \A j \in 1 .. Len(ap) : nap[j] = IF j = i THEN r ELSE ap[j]
    BY <1>1, ExceptSeq
<1> HIDE DEF nap
<1>3. \A j \in 1 .. Len(nap) : AppOK(nap[j])  BY <1>1, <1>2
<1>4. Len(nrq) <= ReqLimit
    <2>1. Len(rq) <= ReqLimit /\ Len(rq) \in Nat /\ Len(nrq) \in Nat  BY DEF MonOK
    <2> QED  BY <2>1, UdpAssumption
<1>5. \A j \in Members(nrq) : nap[j].type = "tftp"
    <2>1. \A j \in Members(nrq) : j \in Members(rq) /\ j # i /\ j \in 1 .. Len(ap)
        <3>1. \A j \in Members(nrq) : j \in 1 .. Len(ap)  BY DEF Members
        <3> QED  BY <3>1
    <2> QED  BY <2>1, <1>2 DEF MonOK
<1>6. \A f \in Flow : nse[f] # None => nap[nse[f]].flow = f /\ nse[f] \notin Members(nrq)
    <2> SUFFICES ASSUME NEW f \in Flow, nse[f] # None
                 PROVE  nap[nse[f]].flow = f /\ nse[f] \notin Members(nrq)
        OBVIOUS
    <2>1. CASE nse[f] = i  BY <2>1, <1>2
    <2>2. CASE nse[f] # i
        <3>1. nse[f] = se[f] /\ se[f] \in 1 .. Len(ap)  BY <2>2
        <3>2. ap[se[f]].flow = f /\ se[f] \notin Members(rq)  BY <3>1 DEF MonOK
        <3> QED  BY <3>1, <3>2, <2>2, <1>2
    <2> QED  BY <2>1, <2>2
<1>7. nlk \subseteq 1 .. Len(nap)  BY <1>2 DEF MonOK
<1>8. ASSUME NEW j \in 1 .. Len(ap)
      PROVE  (j \in Members(nrq) \/ \E f \in Flow : nse[f] = j) <=> nap[j].fin = 0 /\ j \notin nlk
    <2>1. CASE j = i  BY <2>1, <1>2
    <2>2. CASE j # i
        <3>1. (j \in Members(rq) \/ \E f \in Flow : se[f] = j) <=> ap[j].fin = 0 /\ j \notin lk
            BY DEF MonOK
        <3>2. j \in Members(nrq) <=> j \in Members(rq)  BY <2>2
        <3>3. \A f \in Flow : nse[f] = j <=> se[f] = j
            <4> SUFFICES ASSUME NEW f \in Flow PROVE nse[f] = j <=> se[f] = j
                OBVIOUS
            <4>1. j # None  BY <1>1
            <4>2. CASE nse[f] = i  BY <4>1, <4>2, <2>2
            <4>3. CASE nse[f] # i  BY <4>1, <4>3, <2>2
            <4> QED  BY <4>2, <4>3
        <3>4. j \notin nlk <=> j \notin lk  BY <2>2
        <3> QED  BY <3>1, <3>2, <3>3, <3>4, <2>2, <1>2
    <2> QED  BY <2>1, <2>2
<1>9. MonOK(nap, nrq, nse, nlk)  BY <1>2, <1>3, <1>4, <1>5, <1>6, <1>7, <1>8 DEF MonOK
<1> QED  BY <1>9 DEF nap

\* A new application session, with a request, a session or neither.
LEMMA AppendOK ==
    ASSUME NEW ap, NEW rq, NEW se, NEW lk, MonOK(ap, rq, se, lk), NEW r, AppOK(r),
           NEW nrq \in Seq(1 .. Len(ap) + 1), Distinct(nrq), Len(nrq) <= ReqLimit,
           Members(nrq) = Members(rq) \/ (Members(nrq) = Members(rq) \union {Len(ap) + 1} /\ r.type = "tftp"),
           NEW nse \in [Flow -> {None} \union 1 .. Len(ap) + 1],
           \A f \in Flow : nse[f] = se[f] \/ (nse[f] = Len(ap) + 1 /\ se[f] = None /\ r.flow = f),
           Cardinality(Busy(nse)) <= SessLimit,
           Len(ap) + 1 \notin Members(nrq) \/ nse = se,
           NEW nlk, nlk \in {lk, lk \union {Len(ap) + 1}},
           (Len(ap) + 1 \in Members(nrq) \/ \E f \in Flow : nse[f] = Len(ap) + 1)
               <=> r.fin = 0 /\ Len(ap) + 1 \notin nlk
    PROVE  MonOK(Append(ap, r), nrq, nse, nlk)
<1> DEFINE nap == Append(ap, r)
           m == Len(ap) + 1
<1>1. /\ ap \in Seq(AppRec) /\ Len(ap) \in Nat /\ r \in AppRec /\ None \notin 1 .. m
      /\ \A j \in 1 .. Len(ap) : AppOK(ap[j])
      /\ m \notin 1 .. Len(ap) /\ m \in 1 .. m /\ 1 .. Len(ap) \subseteq 1 .. m
      /\ \A j \in 1 .. m : j \in 1 .. Len(ap) \/ j = m
    BY DEF MonOK, AppOK, None
<1>2. /\ nap \in Seq(AppRec) /\ Len(nap) = m /\ nap[m] = r
      /\ \A j \in 1 .. Len(ap) : nap[j] = ap[j]
    BY <1>1
<1>3. /\ Members(rq) \subseteq 1 .. Len(ap) /\ \A f \in Flow : se[f] \in {None} \union 1 .. Len(ap)
      /\ lk \subseteq 1 .. Len(ap)
    BY DEF MonOK, Members
<1>0. nse \in [Flow -> {None} \union 1 .. m] /\ nrq \in Seq(1 .. m)  OBVIOUS
<1> HIDE DEF nap, m
<1>4. \A j \in 1 .. Len(nap) : AppOK(nap[j])  BY <1>1, <1>2
<1>5. \A j \in Members(nrq) : nap[j].type = "tftp"
    <2> SUFFICES ASSUME NEW j \in Members(nrq) PROVE nap[j].type = "tftp"
        OBVIOUS
    <2>1. CASE j \in Members(rq)
        <3>1. ap[j].type = "tftp"  BY <2>1 DEF MonOK
        <3>2. j \in 1 .. Len(ap)  BY <2>1, <1>3
        <3> QED  BY <3>1, <3>2, <1>2
    <2>2. CASE j \notin Members(rq)
        <3>1. j = m /\ r.type = "tftp"  BY <2>2 DEF m
        <3> QED  BY <3>1, <1>2
    <2> QED  BY <2>1, <2>2
<1>6. \A f \in Flow : nse[f] # None => nap[nse[f]].flow = f /\ nse[f] \notin Members(nrq)
    <2> SUFFICES ASSUME NEW f \in Flow, nse[f] # None
                 PROVE  nap[nse[f]].flow = f /\ nse[f] \notin Members(nrq)
        OBVIOUS
    <2>1. CASE nse[f] = se[f]
        <3>1. se[f] \in 1 .. Len(ap) /\ ap[se[f]].flow = f /\ se[f] \notin Members(rq)
            BY <2>1, <1>3 DEF MonOK
        <3>2. se[f] # m  BY <3>1, <1>1
        <3> QED  BY <2>1, <3>1, <3>2, <1>2 DEF m
    <2>2. CASE nse[f] # se[f]
        <3>1. nse[f] = m /\ r.flow = f  BY <2>2 DEF m
        <3>2. m \notin Members(nrq)  BY <2>2 DEF m
        <3> QED  BY <3>1, <3>2, <1>2
    <2> QED  BY <2>1, <2>2
<1>7. nlk \subseteq 1 .. Len(nap)  BY <1>1, <1>2, <1>3 DEF m
<1>8. ASSUME NEW j \in 1 .. Len(nap)
      PROVE  (j \in Members(nrq) \/ \E f \in Flow : nse[f] = j) <=> nap[j].fin = 0 /\ j \notin nlk
    <2>1. CASE j = m  BY <2>1, <1>2 DEF m
    <2>2. CASE j # m
        <3>0. j \in 1 .. Len(ap)  BY <2>2, <1>1, <1>2
        <3>1. (j \in Members(rq) \/ \E f \in Flow : se[f] = j) <=> ap[j].fin = 0 /\ j \notin lk
            BY <3>0 DEF MonOK
        <3>2. j \in Members(nrq) <=> j \in Members(rq)  BY <2>2 DEF m
        <3>3. \A f \in Flow : nse[f] = j <=> se[f] = j
            <4> SUFFICES ASSUME NEW f \in Flow PROVE nse[f] = j <=> se[f] = j
                OBVIOUS
            <4>1. j # None  BY <1>1, <3>0
            <4> QED  BY <4>1, <2>2 DEF m
        <3>4. j \notin nlk <=> j \notin lk  BY <2>2 DEF m
        <3> QED  BY <3>0, <3>1, <3>2, <3>3, <3>4, <1>2
    <2> QED  BY <2>1, <2>2
<1>9. MonOK(nap, nrq, nse, nlk)  BY <1>0, <1>2, <1>4, <1>5, <1>6, <1>7, <1>8 DEF MonOK
<1> QED  BY <1>9 DEF nap

\* A session that is finished, once or once more, stays well formed.
LEMMA AppFinIs ==
    ASSUME NEW a \in AppRec, a.type = "dns" <=> a.flow = "dns", a.fin \in 0 .. 1
    PROVE  AppOK(App_fin(a)) /\ App_fin(a).fin = a.fin + 1 /\ App_fin(a).flow = a.flow /\ App_fin(a).type = a.type
<1>1. a.fin + 1 \in 1 .. 2  OBVIOUS
<1>2. /\ App_fin(a) \in AppRec /\ App_fin(a).fin = a.fin + 1 /\ App_fin(a).flow = a.flow
      /\ App_fin(a).type = a.type
    BY <1>1 DEF App_fin, AppRec
<1> QED  BY <1>1, <1>2 DEF AppOK

\* The entries at some positions, in their order.
LEMMA SublistIs ==
    ASSUME NEW S, NEW s \in Seq(S), Distinct(s), NEW ks \in SUBSET DOMAIN s, NEW r \in Sublists(s, ks)
    PROVE  /\ r \in Seq(S) /\ Distinct(r) /\ Members(r) = {s[k] : k \in ks}
           /\ Len(r) = Cardinality(ks) /\ Len(r) <= Len(s)
           /\ ks # DOMAIN s => Len(r) < Len(s)
<1> DEFINE n == Cardinality(ks)
<1>0. Len(s) \in Nat /\ DOMAIN s = 1 .. Len(s)  OBVIOUS
<1>1. IsFiniteSet(DOMAIN s) /\ Cardinality(DOMAIN s) = Len(s)
    <2>1. IsFiniteSet(1 .. Len(s)) /\ Cardinality(1 .. Len(s)) = IF 1 > Len(s) THEN 0 ELSE Len(s) - 1 + 1
        BY <1>0, FS_Interval
    <2> QED  BY <1>0, <2>1
<1>2. IsFiniteSet(ks) /\ n \in Nat /\ n <= Len(s) /\ (ks # DOMAIN s => n < Len(s))
    BY <1>0, <1>1, FS_Subset, FS_CardinalityType
<1> HIDE DEF n
<1>3. PICK pos \in Bijection(1 .. n, ks) : r = [m \in DOMAIN pos |-> s[pos[m]]]
    BY DEF Sublists, n
<1>4. /\ pos \in [1 .. n -> ks] /\ \A i, j \in 1 .. n : pos[i] = pos[j] => i = j
      /\ \A k \in ks : \E i \in 1 .. n : pos[i] = k
    BY <1>3 DEF Bijection, Injection, Surjection, IsInjective
<1>5. r = [m \in 1 .. n |-> s[pos[m]]]  BY <1>3, <1>4
<1>6. \A m \in 1 .. n : pos[m] \in DOMAIN s /\ s[pos[m]] \in S  BY <1>4
<1>7. r \in Seq(S) /\ Len(r) = n /\ DOMAIN r = 1 .. n  BY <1>2, <1>5, <1>6
<1>8. Distinct(r)  BY <1>4, <1>5, <1>6, <1>7 DEF Distinct
<1>9. Members(r) = {s[k] : k \in ks}  BY <1>4, <1>5, <1>7 DEF Members
<1> QED  BY <1>2, <1>7, <1>8, <1>9 DEF n

\* The requests that are late are finished and leave the list.
LEMMA LateOK ==
    ASSUME NEW ap, NEW rq, NEW se, NEW lk, MonOK(ap, rq, se, lk), NEW late \in SUBSET DOMAIN rq,
           NEW rest \in Sublists(rq, DOMAIN rq \ late)
    PROVE  LET nap == [j \in DOMAIN ap |-> IF \E k \in late : rq[k] = j THEN App_fin(ap[j]) ELSE ap[j]]
           IN  MonOK(nap, rest, se, lk) /\ Len(nap) = Len(ap)
<1> DEFINE Late(j) == \E k \in late : rq[k] = j
           nap == [j \in DOMAIN ap |-> IF Late(j) THEN App_fin(ap[j]) ELSE ap[j]]
<1>1. /\ ap \in Seq(AppRec) /\ Len(ap) \in Nat /\ DOMAIN ap = 1 .. Len(ap)
      /\ \A j \in 1 .. Len(ap) : AppOK(ap[j])
      /\ rq \in Seq(1 .. Len(ap)) /\ Distinct(rq) /\ Len(rq) <= ReqLimit
    BY DEF MonOK
<1>2. /\ rest \in Seq(1 .. Len(ap)) /\ Distinct(rest) /\ Members(rest) = {rq[k] : k \in DOMAIN rq \ late}
      /\ Len(rest) <= Len(rq)
    BY <1>1, SublistIs
<1>3. \A j \in 1 .. Len(ap) : Late(j) => j \in Members(rq)  BY DEF Members
<1>4. \A j \in 1 .. Len(ap) : j \in Members(rest) <=> j \in Members(rq) /\ ~Late(j)
    BY <1>1, <1>2 DEF Members, Distinct
<1> HIDE DEF Late
<1>5. \A j \in 1 .. Len(ap) : j \in Members(rq) => ap[j].fin = 0 /\ j \notin lk
    BY DEF MonOK
<1>6. \A j \in 1 .. Len(ap) : Late(j) => /\ AppOK(App_fin(ap[j])) /\ App_fin(ap[j]).fin = 1
                                         /\ App_fin(ap[j]).flow = ap[j].flow
                                         /\ App_fin(ap[j]).type = ap[j].type
    BY <1>1, <1>3, <1>5, AppFinIs DEF AppOK
<1>7. /\ nap \in Seq(AppRec) /\ Len(nap) = Len(ap)
      /\ \A j \in 1 .. Len(ap) : nap[j] = IF Late(j) THEN App_fin(ap[j]) ELSE ap[j]
    <2>1. \A j \in 1 .. Len(ap) : (IF Late(j) THEN App_fin(ap[j]) ELSE ap[j]) \in AppRec
        BY <1>1, <1>6 DEF AppOK
    <2> QED  BY <1>1, <2>1
<1> HIDE DEF nap
<1>8. \A j \in 1 .. Len(nap) : AppOK(nap[j])  BY <1>1, <1>6, <1>7
<1>9. \A j \in 1 .. Len(ap) : nap[j].flow = ap[j].flow /\ nap[j].type = ap[j].type  BY <1>6, <1>7
<1>10. Members(rest) \subseteq Members(rq) /\ Members(rest) \subseteq 1 .. Len(ap)
    <2>1. Members(rest) \subseteq 1 .. Len(ap)  BY <1>2 DEF Members
    <2> QED  BY <2>1, <1>4
<1>11. Len(rest) <= ReqLimit
    <2>1. Len(rest) \in Nat /\ Len(rq) \in Nat  BY <1>1, <1>2
    <2> QED  BY <2>1, <1>1, <1>2, UdpAssumption
<1>12. \A j \in Members(rest) : nap[j].type = "tftp"  BY <1>9, <1>10 DEF MonOK
<1>13. \A f \in Flow : se[f] # None => nap[se[f]].flow = f /\ se[f] \notin Members(rest)
    <2> SUFFICES ASSUME NEW f \in Flow, se[f] # None PROVE nap[se[f]].flow = f /\ se[f] \notin Members(rest)
        OBVIOUS
    <2>1. se[f] \in 1 .. Len(ap) /\ ap[se[f]].flow = f /\ se[f] \notin Members(rq)  BY DEF MonOK
    <2> QED  BY <2>1, <1>9, <1>10
<1>14. ASSUME NEW j \in 1 .. Len(ap)
       PROVE  (j \in Members(rest) \/ \E f \in Flow : se[f] = j) <=> nap[j].fin = 0 /\ j \notin lk
    <2>1. (j \in Members(rq) \/ \E f \in Flow : se[f] = j) <=> ap[j].fin = 0 /\ j \notin lk
        BY DEF MonOK
    <2>2. CASE Late(j)
        <3>1. j \in Members(rq) /\ j \notin Members(rest) /\ nap[j].fin = 1
            BY <2>2, <1>3, <1>4, <1>6, <1>7
        <3>2. ~ \E f \in Flow : se[f] = j
            <4>1. j # None  BY DEF None
            <4> QED  BY <3>1, <4>1 DEF MonOK
        <3> QED  BY <3>1, <3>2
    <2>3. CASE ~Late(j)  BY <2>1, <2>3, <1>4, <1>7
    <2> QED  BY <2>2, <2>3
<1>15. se \in [Flow -> {None} \union 1 .. Len(ap)] /\ lk \subseteq 1 .. Len(ap)
       /\ Cardinality(Busy(se)) <= SessLimit
    BY DEF MonOK
<1>16. MonOK(nap, rest, se, lk)
    BY <1>2, <1>7, <1>8, <1>11, <1>12, <1>13, <1>14, <1>15 DEF MonOK
<1> QED  BY <1>7, <1>16 DEF nap, Late

\* What is finished stays so.
Later == /\ \A i \in 1 .. Len(app) : i \in 1 .. Len(app') /\ (app[i].fin >= 1 => app'[i].fin >= 1)
         /\ overtaken \subseteq overtaken'

\* A record is added, of a session that ends now or ended while it was in the ring.
LEMMA OutAppended ==
    ASSUME OutInv, Later, NEW i \in 1 .. Len(app), Len(app) \in Nat, app[i].fin = 0 \/ i \in overtaken',
           app'[i].fin >= 1,
           NEW a \in AppRec, NEW why \in {"done", "timeout"},
           why = "done" /\ a.type = "tftp" /\ ~a.is_error => Whole(a),
           out' = Append(out, Record(i, a, why))
    PROVE  OutInv'
<1> DEFINE r == Record(i, a, why)
<1>1. /\ r \in Rec /\ r.of = i /\ r.type = a.type /\ r.flow = a.flow /\ r.content = a.content
      /\ r.is_error = a.is_error /\ r.why = why
    BY DEF Record, Rec, AppRec
<1>2. out \in Seq(Rec)  BY DEF OutInv
<1> HIDE DEF r
<1>3. /\ out' \in Seq(Rec) /\ DOMAIN out' = 1 .. Len(out) + 1 /\ DOMAIN out = 1 .. Len(out)
      /\ out'[Len(out) + 1] = r /\ \A n \in DOMAIN out : out'[n] = out[n] /\ Len(out) \in Nat
      /\ \A n \in DOMAIN out' : n \in DOMAIN out \/ n = Len(out) + 1
    BY <1>1, <1>2 DEF r
<1>4. ReportedOnce'
    <2>1. \A n \in DOMAIN out : out[n].of = i => i \in overtaken'
        <3>1. \A n \in DOMAIN out : out[n].of = i => app[i].fin >= 1  BY DEF OutInv
        <3>2. app[i].fin = 0 => ~(app[i].fin >= 1)  OBVIOUS
        <3> QED  BY <3>1, <3>2
    <2> SUFFICES ASSUME NEW m \in DOMAIN out', NEW n \in DOMAIN out', m # n, out'[m].of = out'[n].of
                 PROVE  out'[m].of \in overtaken'
        BY DEF ReportedOnce
    <2>2. CASE m \in DOMAIN out /\ n \in DOMAIN out
        BY <2>2, <1>3 DEF OutInv, ReportedOnce, Later
    <2>3. CASE m \in DOMAIN out /\ n = Len(out) + 1  BY <2>1, <2>3, <1>1, <1>3
    <2>4. CASE n \in DOMAIN out /\ m = Len(out) + 1  BY <2>1, <2>4, <1>1, <1>3
    <2> QED  BY <2>2, <2>3, <2>4, <1>3
<1>5. RecordedWhole'
    <2> SUFFICES ASSUME NEW n \in DOMAIN out', out'[n].type = "tftp", out'[n].why = "done",
                        ~out'[n].is_error, NEW b \in 1 .. Blocks[out'[n].flow]
                 PROVE  \E j \in DOMAIN out'[n].content :
                           /\ out'[n].content[j] = b
                           /\ b > 1 => \E h \in 1 .. j - 1 : out'[n].content[h] = b - 1
        BY DEF RecordedWhole
    <2>1. CASE n \in DOMAIN out  BY <2>1, <1>3 DEF OutInv, RecordedWhole
    <2>2. CASE n = Len(out) + 1
        <3>1. Whole(a)  BY <2>2, <1>1, <1>3
        <3>2. Written(a.content, b)  BY <2>2, <3>1, <1>1, <1>3 DEF Whole
        <3> QED  BY <2>2, <3>2, <1>1, <1>3 DEF Written
    <2> QED  BY <2>1, <2>2, <1>3
<1>6. \A n \in DOMAIN out' : out'[n].of \in 1 .. Len(app') /\ app'[out'[n].of].fin >= 1
    <2> SUFFICES ASSUME NEW n \in DOMAIN out' PROVE out'[n].of \in 1 .. Len(app') /\ app'[out'[n].of].fin >= 1
        OBVIOUS
    <2>1. CASE n \in DOMAIN out  BY <2>1, <1>3 DEF OutInv, Later
    <2>2. CASE n = Len(out) + 1  BY <2>2, <1>1, <1>3 DEF Later
    <2> QED  BY <2>1, <2>2, <1>3
<1> QED  BY <1>3, <1>4, <1>5, <1>6 DEF OutInv

LEMMA OutSame == ASSUME OutInv, Later, UNCHANGED out PROVE OutInv'
<1>1. ReportedOnce'  BY DEF OutInv, ReportedOnce, Later
<1>2. RecordedWhole'  BY DEF OutInv, RecordedWhole
<1>3. \A n \in DOMAIN out' : out'[n].of \in 1 .. Len(app') /\ app'[out'[n].of].fin >= 1
    BY DEF OutInv, Later
<1> QED  BY <1>1, <1>2, <1>3 DEF OutInv

\* The ring stays as it is, and no session in it ends without being overtaken.
LEMMA RingSame ==
    ASSUME RingInv, Later, UNCHANGED ring, overtaken' \subseteq 1 .. Len(app'),
           \A i \in ring : i \notin refused' /\ i \notin Members(reqs'),
           \A i \in ring : app'[i].fin = app[i].fin \/ i \in overtaken',
           \A i \in 1 .. Len(app') : (i \in 1 .. Len(app) /\ app'[i].fin = app[i].fin) \/ app'[i].fin \in 0 .. 1
    PROVE  RingInv'
<1>1. ring' \subseteq 1 .. Len(app')  BY DEF RingInv, Later
<1>2. \A i \in ring' : app'[i].fin >= 1 => i \in overtaken'  BY DEF RingInv, Later
<1>3. \A i \in 1 .. Len(app') : app'[i].fin > 1 => i \in overtaken'
    <2> SUFFICES ASSUME NEW i \in 1 .. Len(app'), app'[i].fin > 1 PROVE i \in overtaken'
        OBVIOUS
    <2>1. i \in 1 .. Len(app) /\ app'[i].fin = app[i].fin  OBVIOUS
    <2> QED  BY <2>1 DEF RingInv, Later
<1> QED  BY <1>1, <1>2, <1>3 DEF RingInv

-----------------------------------------------------------------------------
(* The steps of UdpSession. *)

MonInv == MonOK(app, reqs, sess, refused) /\ OutInv /\ RingInv
MonNext == MonOK(app', reqs', sess', refused') /\ OutInv' /\ RingInv'

\* What a change of one application session means for records and ring.
LEMMA OneChanges ==
    ASSUME RingInv, app \in Seq(AppRec), NEW i \in 1 .. Len(app), NEW r \in AppRec, app[i].fin = 0,
           r.fin \in 0 .. 1, app' = [app EXCEPT ![i] = r], UNCHANGED ring,
           Members(reqs') \subseteq Members(reqs), refused' \subseteq refused \union {i},
           i \in ring => i \notin refused' /\ (r.fin = 0 \/ i \in overtaken'),
           overtaken \subseteq overtaken', overtaken' \subseteq 1 .. Len(app)
    PROVE  Later /\ RingInv' /\ app'[i] = r
<1>1. Len(app') = Len(app) /\ \A j \in 1 .. Len(app) : app'[j] = IF j = i THEN r ELSE app[j]
    BY ExceptSeq
<1>2. Later  BY <1>1 DEF Later
<1>3. \A j \in ring : j \notin refused' /\ j \notin Members(reqs')  BY DEF RingInv
<1>4. \A j \in ring : app'[j].fin = app[j].fin \/ j \in overtaken'  BY <1>1 DEF RingInv
<1>5. \A j \in 1 .. Len(app') : (j \in 1 .. Len(app) /\ app'[j].fin = app[j].fin) \/ app'[j].fin \in 0 .. 1
    BY <1>1
<1> QED  BY <1>1, <1>2, <1>3, <1>4, <1>5, RingSame

\* What a new application session means for records and ring; late requests were finished.
LEMMA OneAdded ==
    ASSUME RingInv, app \in Seq(AppRec), NEW ap \in Seq(AppRec), Len(ap) = Len(app),
           \A j \in 1 .. Len(app) : ap[j].fin = app[j].fin \/ (j \notin ring /\ app[j].fin = 0 /\ ap[j].fin = 1),
           NEW a \in AppRec, a.fin \in 0 .. 1, app' = Append(ap, a), UNCHANGED <<ring, overtaken>>,
           Members(reqs') \subseteq Members(reqs) \union {Len(app) + 1},
           refused' \subseteq refused \union {Len(app) + 1}
    PROVE  Later /\ RingInv'
<1>1. /\ Len(app) \in Nat /\ Len(app') = Len(app) + 1 /\ app'[Len(app) + 1] = a
      /\ \A j \in 1 .. Len(app) : app'[j] = ap[j]
    OBVIOUS
<1>2. 1 .. Len(app) \subseteq 1 .. Len(app') /\ Len(app) + 1 \notin 1 .. Len(app)
      /\ \A j \in 1 .. Len(app') : j \in 1 .. Len(app) \/ j = Len(app) + 1
    BY <1>1
<1>3. Later  BY <1>1, <1>2 DEF Later
<1>4. \A j \in ring : j \notin refused' /\ j \notin Members(reqs')  BY <1>2 DEF RingInv
<1>5. \A j \in ring : app'[j].fin = app[j].fin  BY <1>1 DEF RingInv
<1>6. \A j \in 1 .. Len(app') : (j \in 1 .. Len(app) /\ app'[j].fin = app[j].fin) \/ app'[j].fin \in 0 .. 1
    BY <1>1, <1>2
<1>7. overtaken' \subseteq 1 .. Len(app')  BY <1>2 DEF RingInv
<1> QED  BY <1>3, <1>4, <1>5, <1>6, <1>7, RingSame

\* ch_udp_session_packet_handle for the owner of application session i.
LEMMA HandleOK ==
    ASSUME MonInv, NEW pkt, PktOK(pkt), NEW i \in 1 .. Len(app), i \notin refused, app[i].fin = 0,
           NEW a, AppOK(a), a.fin = 0, a.flow = FlowOf(pkt),
           reqs' \in Seq(1 .. Len(app)), Distinct(reqs'), Len(reqs') <= Len(reqs),
           Members(reqs') = Members(reqs) \ {i},
           \A f \in Flow : f # FlowOf(pkt) => sess[f] # i,
           sess[FlowOf(pkt)] = i \/ (sess[FlowOf(pkt)] = None /\ Cardinality(Busy(sess)) < SessLimit),
           Session_packet_handle(i, a, pkt), UNCHANGED <<refused, ring>>
    PROVE  MonNext
<1> DEFINE g == FlowOf(pkt)
<1>0. /\ MonOK(app, reqs, sess, refused) /\ OutInv /\ RingInv /\ app \in Seq(AppRec)
      /\ Members(reqs') \subseteq Members(reqs) /\ refused' \subseteq refused \union {i} /\ i \notin refused'
      /\ overtaken \subseteq 1 .. Len(app) /\ Len(app) \in Nat
    <2>1. MonOK(app, reqs, sess, refused) /\ OutInv /\ RingInv  BY DEF MonInv
    <2>2. app \in Seq(AppRec)  BY <2>1 DEF MonOK
    <2> QED  BY <2>1, <2>2 DEF RingInv
<1>1. PICK v \in PacketProcess(a, pkt) :
          IF v.rc = "CONTINUE"
          THEN /\ app' = [app EXCEPT ![i] = v.a]
               /\ sess' = [sess EXCEPT ![g] = i]
               /\ UNCHANGED <<out, overtaken>>
          ELSE /\ app' = [app EXCEPT ![i] = App_fin(v.a)]
               /\ sess' = [sess EXCEPT ![g] = None]
               /\ overtaken' = overtaken \union (ring \intersect {i})
               /\ IF v.rc = "DONE" THEN Session_out(i, v.a, "done") ELSE UNCHANGED out
    BY DEF Session_packet_handle
<1>2. /\ Kept(a, v.a)
      /\ v.rc = "CONTINUE" => AppOK(v.a)
      /\ v.rc = "DONE" /\ a.type = "tftp" /\ ~v.a.is_error => Whole(v.a)
    BY ProcessIs
<1>3. g \in Flow /\ sess \in [Flow -> {None} \union 1 .. Len(app)] /\ i # None
    BY <1>0, FlowOfIs DEF MonOK, None
<1>4. v.a \in AppRec /\ (v.a.type = "dns" <=> v.a.flow = "dns") /\ v.a.fin = 0
      /\ v.a.flow = g /\ v.a.type = a.type
    BY <1>2 DEF Kept, AppOK
<1>5. Cardinality(Busy(sess)) <= SessLimit  BY <1>0 DEF MonOK
<1> HIDE DEF g
<1>6. CASE v.rc = "CONTINUE"
    <2> DEFINE r == v.a
               nse == [sess EXCEPT ![g] = i]
    <2>1. app' = [app EXCEPT ![i] = r] /\ sess' = nse /\ UNCHANGED <<out, overtaken>>  BY <1>1, <1>6
    <2>2. nse \in [Flow -> {None} \union 1 .. Len(app)] /\ \A f \in Flow : nse[f] = IF f = g THEN i ELSE sess[f]
        BY <1>3
    <2>3. AppOK(r) /\ r.fin = 0 /\ r.flow = g  BY <1>2, <1>4, <1>6
    <2> HIDE DEF r, nse
    <2>4. Cardinality(Busy(nse)) <= SessLimit
        <3>1. CASE sess[g] = i
            <4>1. Busy(nse) \subseteq Busy(sess)  BY <3>1, <2>2, <1>3 DEF Busy
            <4> QED  BY <4>1, <1>5, BusyLess
        <3>2. CASE sess[g] # i
            <4>1. Busy(nse) \subseteq Busy(sess) \union {g}  BY <2>2 DEF Busy
            <4> QED  BY <4>1, <3>2, BusyMore DEF g
        <3> QED  BY <3>1, <3>2
    <2>5. MonOK([app EXCEPT ![i] = r], reqs', nse, refused)
        <3>1. \A f \in Flow : nse[f] = i => r.flow = f  BY <2>2, <2>3 DEF g
        <3>2. \A f \in Flow : nse[f] # i => nse[f] = sess[f] \/ (nse[f] = None /\ sess[f] = i)  BY <2>2
        <3>3. \A f \in Flow : nse[f] = i => sess[f] \in {None, i}  BY <2>2 DEF g
        <3>4. \E f \in Flow : nse[f] = i  BY <2>2, <1>3
        <3> QED  BY <1>0, <2>2, <2>3, <2>4, <3>1, <3>2, <3>3, <3>4, ChangeOK
    <2>6. Later /\ RingInv'
        <3>1. r \in AppRec /\ r.fin \in 0 .. 1 /\ r.fin = 0  BY <2>3 DEF AppOK
        <3> QED  BY <1>0, <2>1, <3>1, OneChanges
    <2> QED  BY <1>0, <2>1, <2>5, <2>6, OutSame DEF MonNext
<1>7. CASE v.rc # "CONTINUE"
    <2> DEFINE r == App_fin(v.a)
               nse == [sess EXCEPT ![g] = None]
    <2>1. /\ app' = [app EXCEPT ![i] = r] /\ sess' = nse
          /\ overtaken' = overtaken \union (ring \intersect {i})
          /\ IF v.rc = "DONE" THEN Session_out(i, v.a, "done") ELSE UNCHANGED out
        BY <1>1, <1>7
    <2>2. nse \in [Flow -> {None} \union 1 .. Len(app)] /\ \A f \in Flow : nse[f] = IF f = g THEN None ELSE sess[f]
        BY <1>3
    <2>3. AppOK(r) /\ r.fin = 1  BY <1>4, AppFinIs
    <2> HIDE DEF r, nse
    <2>4. Cardinality(Busy(nse)) <= SessLimit
        <3>1. Busy(nse) \subseteq Busy(sess)  BY <2>2 DEF Busy
        <3> QED  BY <3>1, <1>5, BusyLess
    <2>5. MonOK([app EXCEPT ![i] = r], reqs', nse, refused)
        <3>1. \A f \in Flow : nse[f] # i  BY <2>2, <1>3 DEF g
        <3>2. \A f \in Flow : nse[f] # i => nse[f] = sess[f] \/ (nse[f] = None /\ sess[f] = i)
            BY <2>2 DEF g
        <3>3. ~ (\E f \in Flow : nse[f] = i) /\ ~(r.fin = 0)  BY <3>1, <2>3
        <3>4. (\E f \in Flow : nse[f] = i) <=> r.fin = 0 /\ i \notin refused  BY <3>3
        <3>5. \A f \in Flow : nse[f] = i => r.flow = f  BY <3>1
        <3>6. \A f \in Flow : nse[f] = i => sess[f] \in {None, i}  BY <3>1
        <3>7. AppOK(r) /\ refused \in {refused, refused \union {i}}  BY <2>3
        <3> QED  BY <1>0, <2>2, <2>4, <3>2, <3>4, <3>5, <3>6, <3>7, ChangeOK
    <2>6. Later /\ RingInv' /\ app'[i] = r
        <3>1. r \in AppRec /\ r.fin \in 0 .. 1  BY <2>3 DEF AppOK
        <3>2. overtaken \subseteq overtaken' /\ overtaken' \subseteq 1 .. Len(app) /\ (i \in ring => i \in overtaken')
            BY <1>0, <2>1
        <3> QED  BY <1>0, <2>1, <3>1, <3>2, OneChanges
    <2>7. OutInv'
        <3>1. CASE UNCHANGED out  BY <1>0, <2>6, <3>1, OutSame
        <3>2. CASE v.rc = "DONE" /\ out' = Append(out, Record(i, v.a, "done"))
            <4>1. app'[i].fin >= 1  BY <2>3, <2>6
            <4> QED  BY <1>0, <3>2, <1>2, <1>4, <2>6, <4>1, OutAppended
        <3> QED  BY <2>1, <3>1, <3>2 DEF Session_out
    <2> QED  BY <2>1, <2>5, <2>6, <2>7 DEF MonNext
<1> QED  BY <1>6, <1>7

\* The session of a flow is held by this flow only.
LEMMA SessIs ==
    ASSUME MonOK(app, reqs, sess, refused), NEW f \in Flow, sess[f] # None
    PROVE  /\ sess[f] \in 1 .. Len(app) /\ sess[f] \notin refused /\ AppOK(app[sess[f]])
           /\ app[sess[f]].fin = 0 /\ app[sess[f]].flow = f /\ sess[f] \notin Members(reqs)
           /\ \A e \in Flow : e # f => sess[e] # sess[f]
<1>1. sess[f] \in 1 .. Len(app) /\ app[sess[f]].flow = f /\ sess[f] \notin Members(reqs)
    BY DEF MonOK
<1>2. \A e \in Flow : sess[e] # None => app[sess[e]].flow = e  BY DEF MonOK
<1> QED  BY <1>1, <1>2 DEF MonOK

\* A request that is waiting, and the list without it.
LEMMA ReqIs ==
    ASSUME MonOK(app, reqs, sess, refused), NEW k \in DOMAIN reqs
    PROVE  /\ reqs[k] \in 1 .. Len(app) /\ reqs[k] \notin refused /\ AppOK(app[reqs[k]])
           /\ app[reqs[k]].fin = 0 /\ app[reqs[k]].type = "tftp"
           /\ \A f \in Flow : sess[f] # reqs[k]
           /\ RemoveAt(reqs, k) \in Seq(1 .. Len(app)) /\ Distinct(RemoveAt(reqs, k))
           /\ Len(RemoveAt(reqs, k)) <= Len(reqs)
           /\ Members(RemoveAt(reqs, k)) = Members(reqs) \ {reqs[k]}
<1>1. reqs \in Seq(1 .. Len(app)) /\ Distinct(reqs)  BY DEF MonOK
<1>2. reqs[k] \in 1 .. Len(app) /\ reqs[k] \in Members(reqs)  BY <1>1 DEF Members
<1>3. \A f \in Flow : sess[f] # reqs[k]  BY <1>2 DEF MonOK, None
<1>4. RemoveAt(reqs, k) \in Seq(1 .. Len(app)) /\ Len(RemoveAt(reqs, k)) = Len(reqs) - 1
    BY <1>1, RemoveAtIs
<1>5. Distinct(RemoveAt(reqs, k)) /\ Members(RemoveAt(reqs, k)) = Members(reqs) \ {reqs[k]}
    BY <1>1, RemoveAtDistinct DEF Members
<1>6. Len(reqs) \in Nat  BY <1>1
<1> QED  BY <1>2, <1>3, <1>4, <1>5, <1>6 DEF MonOK

LEMMA SessionPacketOK ==
    ASSUME MonInv, NEW pkt, PktOK(pkt), SessionPacket(pkt), UNCHANGED ring PROVE MonNext
<1> DEFINE g == FlowOf(pkt)
           i == sess[g]
<1>1. g \in Flow  BY FlowOfIs
<1>2. i # None /\ Session_packet_handle(i, app[i], pkt) /\ UNCHANGED <<reqs, refused>>  BY DEF SessionPacket
<1>3. /\ i \in 1 .. Len(app) /\ i \notin refused /\ AppOK(app[i])
      /\ app[i].fin = 0 /\ app[i].flow = g /\ i \notin Members(reqs)
      /\ \A e \in Flow : e # g => sess[e] # i
    BY <1>1, <1>2, SessIs DEF MonInv
<1>4. reqs' \in Seq(1 .. Len(app)) /\ Distinct(reqs') /\ Len(reqs') <= Len(reqs) /\ Members(reqs') = Members(reqs) \ {i}
    BY <1>2, <1>3 DEF MonInv, MonOK
<1> QED  BY <1>2, <1>3, <1>4, HandleOK DEF MonNext

\* The first request of the list that the packet matches.
LEMMA FirstIs ==
    ASSUME MonOK(app, reqs, sess, refused), NEW pkt, Matching(pkt) # {}
    PROVE  LET k == CHOOSE k \in Matching(pkt) : \A j \in Matching(pkt) : k <= j
           IN  k \in DOMAIN reqs /\ pkt.src = "server"
<1>1. Matching(pkt) \in SUBSET Nat
    <2>1. reqs \in Seq(1 .. Len(app))  BY DEF MonOK
    <2> QED  BY <2>1 DEF Matching
<1>2. \E k \in Matching(pkt) : \A j \in Matching(pkt) : k <= j  BY <1>1, LeastNat
<1>3. (CHOOSE k \in Matching(pkt) : \A j \in Matching(pkt) : k <= j) \in Matching(pkt)  BY <1>2
<1> QED  BY <1>3 DEF Matching, Request_equal

LEMMA RequestPacketOK ==
    ASSUME MonInv, NEW pkt, PktOK(pkt), RequestPacket(pkt), UNCHANGED ring PROVE MonNext
<1> DEFINE g == FlowOf(pkt)
           k == CHOOSE k \in Matching(pkt) : \A j \in Matching(pkt) : k <= j
           i == reqs[k]
           a == [app[i] EXCEPT !.flow = g]
<1>0. MonOK(app, reqs, sess, refused) /\ OutInv /\ RingInv  BY DEF MonInv
<1>1. /\ sess[g] = None /\ Matching(pkt) # {} /\ reqs' = RemoveAt(reqs, k)
      /\ \/ Session_packet_handle(i, a, pkt) /\ ~SessionsFull /\ UNCHANGED refused
         \/ /\ SessionsFull
            /\ refused' = refused \union {i}
            /\ app' = [app EXCEPT ![i] = a]
            /\ UNCHANGED <<sess, out, overtaken>>
    BY DEF RequestPacket
<1>2. k \in DOMAIN reqs /\ pkt.src = "server"  BY <1>0, <1>1, FirstIs
<1> HIDE DEF k
<1>3. /\ i \in 1 .. Len(app) /\ i \notin refused /\ AppOK(app[i])
      /\ app[i].fin = 0 /\ app[i].type = "tftp" /\ \A f \in Flow : sess[f] # i
      /\ reqs' \in Seq(1 .. Len(app)) /\ Distinct(reqs')
      /\ Len(reqs') <= Len(reqs) /\ Members(reqs') = Members(reqs) \ {i} /\ i \in Members(reqs)
    <2>1. i \in Members(reqs)  BY <1>2 DEF Members
    <2> QED  BY <1>0, <1>1, <1>2, <2>1, ReqIs
<1>4. g \in Flow /\ g # "dns"
    <2>1. pkt.op \notin {"query", "response"}  BY <1>2 DEF PktOK
    <2> QED  BY <2>1, FlowOfIs
<1>5. AppOK(a) /\ a \in AppRec /\ a.fin = 0 /\ a.flow = g
    <2>1. app[i] \in AppRec  BY <1>3 DEF AppOK
    <2>2. /\ a \in AppRec /\ a.fin = 0 /\ a.flow = g /\ a.type = "tftp"
          /\ a.content = app[i].content /\ a.last_block = app[i].last_block
        BY <2>1, <1>3, <1>4 DEF AppRec
    <2> HIDE DEF a
    <2> QED  BY <2>2, <1>3, <1>4 DEF AppOK
<1> HIDE DEF i, a, g
<1>6. CASE Session_packet_handle(i, a, pkt) /\ ~SessionsFull /\ UNCHANGED refused
    <2>1. Cardinality(Busy(sess)) < SessLimit
        <3>1. ~(Cardinality(Busy(sess)) >= SessLimit)  BY <1>6 DEF SessionsFull, Busy
        <3> QED  BY <3>1, BusyFinite, UdpAssumption
    <2>2. AppOK(a) /\ a.fin = 0 /\ a.flow = FlowOf(pkt)  BY <1>5 DEF g
    <2> QED  BY <1>1, <1>3, <1>6, <2>1, <2>2, HandleOK DEF MonNext, g
<1>7. CASE SessionsFull /\ refused' = refused \union {i} /\ app' = [app EXCEPT ![i] = a]
           /\ UNCHANGED <<sess, out, overtaken>>
    <2>1. /\ sess \in [Flow -> {None} \union 1 .. Len(app)] /\ Cardinality(Busy(sess)) <= SessLimit
          /\ app \in Seq(AppRec)
        BY <1>0 DEF MonOK
    <2>2. ~ (\E f \in Flow : sess[f] = i) /\ i \in refused \union {i}  BY <1>3
    <2>4. MonOK([app EXCEPT ![i] = a], reqs', sess, refused \union {i})
        BY <1>0, <1>3, <1>5, <2>1, <2>2, ChangeOK
    <2>5. Later /\ RingInv'
        <3>1. i \notin ring /\ overtaken \subseteq 1 .. Len(app)  BY <1>0, <1>3 DEF RingInv
        <3>2. a.fin \in 0 .. 1 /\ Members(reqs') \subseteq Members(reqs)  BY <1>3, <1>5
        <3> QED  BY <1>0, <1>3, <1>5, <1>7, <2>1, <3>1, <3>2, OneChanges
    <2> QED  BY <1>0, <2>4, <2>5, <1>7, OutSame DEF MonNext
<1> QED  BY <1>1, <1>6, <1>7

\* A list with one more element in front of it.
LEMMA ConsIs ==
    ASSUME NEW S, NEW s \in Seq(S), Distinct(s), NEW x \in S, x \notin Members(s)
    PROVE  /\ <<x>> \o s \in Seq(S) /\ Len(<<x>> \o s) = Len(s) + 1
           /\ Distinct(<<x>> \o s) /\ Members(<<x>> \o s) = Members(s) \union {x}
<1> DEFINE t == <<x>> \o s
<1>1. Len(s) \in Nat /\ DOMAIN s = 1 .. Len(s)  OBVIOUS
<1>2. <<x>> \in Seq(S) /\ Len(<<x>>) = 1 /\ <<x>>[1] = x  OBVIOUS
<1>3. /\ t \in Seq(S) /\ Len(t) = 1 + Len(s)
      /\ \A i \in 1 .. 1 + Len(s) : t[i] = IF i <= 1 THEN <<x>>[i] ELSE s[i - 1]
    BY <1>2, ConcatProperties
<1> HIDE DEF t
<1>4. DOMAIN t = 1 .. Len(s) + 1 /\ t[1] = x /\ \A i \in 2 .. Len(s) + 1 : t[i] = s[i - 1] /\ i - 1 \in DOMAIN s
    BY <1>1, <1>2, <1>3
<1>5. \A i \in DOMAIN t : i = 1 \/ i \in 2 .. Len(s) + 1  BY <1>1, <1>4
<1>6. \A i \in 2 .. Len(s) + 1 : t[i] # x  BY <1>4 DEF Members
<1>7. Distinct(t)
    <2> SUFFICES ASSUME NEW i \in DOMAIN t, NEW j \in DOMAIN t, t[i] = t[j] PROVE i = j
        BY DEF Distinct
    <2>1. CASE i = 1 \/ j = 1  BY <2>1, <1>4, <1>5, <1>6
    <2>2. CASE i # 1 /\ j # 1
        <3>1. i \in 2 .. Len(s) + 1 /\ j \in 2 .. Len(s) + 1  BY <2>2, <1>5
        <3>2. i - 1 = j - 1  BY <3>1, <1>4 DEF Distinct
        <3> QED  BY <3>1, <3>2
    <2> QED  BY <2>1, <2>2
<1>8. \A k \in DOMAIN s : k + 1 \in DOMAIN t /\ t[k + 1] = s[k]  BY <1>1, <1>3, <1>4
<1>9. 1 \in DOMAIN t  BY <1>1, <1>4
<1>10. Members(t) = Members(s) \union {x}
    <2>1. \A i \in DOMAIN t : t[i] \in Members(s) \union {x}  BY <1>4, <1>5 DEF Members
    <2>2. \A k \in DOMAIN s : s[k] \in Members(t)  BY <1>8 DEF Members
    <2>3. x \in Members(t)  BY <1>4, <1>9 DEF Members
    <2> QED  BY <2>1, <2>2, <2>3 DEF Members
<1> QED  BY <1>1, <1>3, <1>7, <1>10 DEF t

\* A list stays well typed when the set it is over grows.
LEMMA SeqGrows ==
    ASSUME NEW n \in Nat, NEW s \in Seq(1 .. n)
    PROVE  s \in Seq(1 .. n + 1) /\ n + 1 \notin Members(s)
<1>1. Len(s) \in Nat /\ DOMAIN s = 1 .. Len(s) /\ s = [k \in 1 .. Len(s) |-> s[k]]  OBVIOUS
<1>2. \A k \in 1 .. Len(s) : s[k] \in 1 .. n  OBVIOUS
<1>3. \A k \in 1 .. Len(s) : s[k] \in 1 .. n + 1 /\ s[k] # n + 1  BY <1>2
<1> QED  BY <1>1, <1>3 DEF Members

LEMMA NewAppOK ==
    ASSUME NEW type, NEW x \in Flow, NEW f \in Flow, type \in {"tftp", "dns"}, type = "dns" <=> f = "dns"
    PROVE  LET a == NewApp(type, x, f) IN AppOK(a) /\ a.fin = 0 /\ a.flow = f /\ a.type = type
<1> DEFINE a == NewApp(type, x, f)
<1>1. /\ a \in AppRec /\ a.flow = f /\ a.type = type /\ a.fin = 0 /\ a.last_block = 0
    BY DEF NewApp, AppRec, None
<1> HIDE DEF a
<1>2. AppOK(a)  BY <1>1 DEF AppOK
<1> QED  BY <1>1, <1>2 DEF a

\* A request is put in front of the list, if it has room.
LEMMA RequestAdded ==
    ASSUME NEW ap, NEW rq, NEW se, NEW lk, MonOK(ap, rq, se, lk), Len(rq) < ReqLimit,
           NEW a, AppOK(a), a.fin = 0, a.type = "tftp"
    PROVE  MonOK(Append(ap, a), <<Len(ap) + 1>> \o rq, se, lk)
<1> DEFINE m == Len(ap) + 1
           nrq == <<m>> \o rq
<1>1. /\ Len(ap) \in Nat /\ rq \in Seq(1 .. Len(ap)) /\ Distinct(rq) /\ lk \subseteq 1 .. Len(ap)
      /\ se \in [Flow -> {None} \union 1 .. Len(ap)] /\ Cardinality(Busy(se)) <= SessLimit
    <2>1. ap \in Seq(AppRec)  BY DEF MonOK
    <2> QED  BY <2>1 DEF MonOK
<1>2. m \in 1 .. m /\ m \notin lk /\ se \in [Flow -> {None} \union 1 .. m]  BY <1>1
<1>3. rq \in Seq(1 .. m) /\ m \notin Members(rq)  BY <1>1, SeqGrows
<1> HIDE DEF m
<1>4. /\ nrq \in Seq(1 .. m) /\ Len(nrq) = Len(rq) + 1 /\ Distinct(nrq)
      /\ Members(nrq) = Members(rq) \union {m}
    BY <1>1, <1>2, <1>3, ConsIs
<1> HIDE DEF nrq
<1>5. Len(nrq) <= ReqLimit
    <2>1. Len(rq) \in Nat  BY <1>1
    <2> QED  BY <2>1, <1>4, UdpAssumption
<1>6. m \in Members(nrq)  BY <1>4
<1>7. MonOK(Append(ap, a), nrq, se, lk)
    <2>1. (m \in Members(nrq) \/ \E f \in Flow : se[f] = m) <=> a.fin = 0 /\ m \notin lk  BY <1>2, <1>6
    <2>2. lk \in {lk, lk \union {m}}  OBVIOUS
    <2> QED  BY <1>1, <1>2, <1>4, <1>5, <2>1, <2>2, AppendOK DEF m
<1> QED  BY <1>7 DEF m, nrq

\* An application session is lost: neither a request nor a session could be had.
LEMMA AppLost ==
    ASSUME NEW ap, NEW rq, NEW se, NEW lk, MonOK(ap, rq, se, lk), NEW a, AppOK(a)
    PROVE  MonOK(Append(ap, a), rq, se, lk \union {Len(ap) + 1})
<1> DEFINE m == Len(ap) + 1
           nlk == lk \union {m}
<1>1. /\ Len(ap) \in Nat /\ rq \in Seq(1 .. Len(ap)) /\ Distinct(rq) /\ Len(rq) <= ReqLimit
      /\ se \in [Flow -> {None} \union 1 .. Len(ap)] /\ Cardinality(Busy(se)) <= SessLimit
    <2>1. ap \in Seq(AppRec)  BY DEF MonOK
    <2> QED  BY <2>1 DEF MonOK
<1>2. se \in [Flow -> {None} \union 1 .. m] /\ m \notin {None} \union 1 .. Len(ap)  BY <1>1 DEF None
<1>3. rq \in Seq(1 .. m) /\ m \notin Members(rq)  BY <1>1, SeqGrows
<1>4. m \in nlk /\ nlk \in {lk, lk \union {m}}  OBVIOUS
<1>5. ~ \E f \in Flow : se[f] = m  BY <1>1, <1>2
<1>6. (m \in Members(rq) \/ \E f \in Flow : se[f] = m) <=> a.fin = 0 /\ m \notin nlk  BY <1>3, <1>4, <1>5
<1> HIDE DEF nlk
<1>7. MonOK(Append(ap, a), rq, se, nlk)
    BY <1>1, <1>2, <1>3, <1>4, <1>6, AppendOK DEF m
<1> QED  BY <1>7 DEF nlk, m

LEMMA NewRequestOK ==
    ASSUME MonInv, NEW a, AppOK(a), a.fin = 0, a.type = "tftp",
           NewRequest(a), UNCHANGED <<sess, out, ring, overtaken>>
    PROVE  MonNext
<1> DEFINE i == Len(app) + 1
<1>0. MonOK(app, reqs, sess, refused) /\ OutInv /\ RingInv  BY DEF MonInv
<1>1. /\ app \in Seq(AppRec) /\ a \in AppRec /\ a.fin \in 0 .. 1 /\ reqs \in Seq(1 .. Len(app)) /\ Distinct(reqs)
      /\ Len(app) \in Nat /\ i \notin Members(reqs) /\ reqs \in Seq(1 .. i) /\ i \in 1 .. i
    <2>1. app \in Seq(AppRec) /\ reqs \in Seq(1 .. Len(app)) /\ Distinct(reqs)  BY <1>0 DEF MonOK
    <2>2. Len(app) \in Nat  BY <2>1
    <2>3. i \notin Members(reqs) /\ reqs \in Seq(1 .. i) /\ i \in 1 .. i  BY <2>1, <2>2, SeqGrows
    <2> QED  BY <2>1, <2>2, <2>3 DEF AppOK
<1>2. CASE Len(reqs) < ReqLimit /\ app' = Append(app, a) /\ reqs' = <<i>> \o reqs /\ UNCHANGED refused
    <2>1. MonOK(Append(app, a), <<i>> \o reqs, sess, refused)  BY <1>0, <1>2, RequestAdded
    <2>2. Members(reqs') = Members(reqs) \union {i}  BY <1>1, <1>2, ConsIs
    <2>3. Later /\ RingInv'  BY <1>0, <1>1, <1>2, <2>2, OneAdded
    <2> QED  BY <1>0, <1>2, <2>1, <2>3, OutSame DEF MonNext
<1>3. ASSUME NEW late \in (SUBSET DOMAIN reqs) \ {{}}, NEW rest \in Sublists(reqs, DOMAIN reqs \ late),
             app' = Append([j \in DOMAIN app |-> IF \E k \in late : reqs[k] = j
                                                 THEN App_fin(app[j]) ELSE app[j]], a),
             reqs' = <<i>> \o rest, UNCHANGED refused
      PROVE  MonNext
    <2> DEFINE nap == [j \in DOMAIN app |-> IF \E k \in late : reqs[k] = j THEN App_fin(app[j]) ELSE app[j]]
    <2>1. MonOK(nap, rest, sess, refused) /\ Len(nap) = Len(app)  BY <1>0, LateOK
    <2>2. Len(rest) < ReqLimit
        <3>1. reqs \in Seq(1 .. Len(app)) /\ Distinct(reqs) /\ Len(reqs) <= ReqLimit  BY <1>0 DEF MonOK
        <3>2. DOMAIN reqs \ late # DOMAIN reqs /\ DOMAIN reqs \ late \in SUBSET DOMAIN reqs  OBVIOUS
        <3>3. Len(rest) < Len(reqs) /\ rest \in Seq(1 .. Len(app))  BY <3>1, <3>2, SublistIs
        <3>4. Len(rest) \in Nat /\ Len(reqs) \in Nat  BY <3>1, <3>3
        <3> QED  BY <3>1, <3>3, <3>4, UdpAssumption
    <2>3. app' = Append(nap, a)  BY <1>3
    <2>5. \A j \in 1 .. Len(app) : nap[j].fin = app[j].fin \/ (j \notin ring /\ app[j].fin = 0 /\ nap[j].fin = 1)
        <3> SUFFICES ASSUME NEW j \in 1 .. Len(app)
                     PROVE  nap[j].fin = app[j].fin \/ (j \notin ring /\ app[j].fin = 0 /\ nap[j].fin = 1)
            OBVIOUS
        <3>1. j \in DOMAIN app  BY <1>1
        <3>2. CASE \E k \in late : reqs[k] = j
            <4>1. j \in Members(reqs)  BY <3>2 DEF Members
            <4>2. app[j].fin = 0 /\ AppOK(app[j]) /\ j \notin ring  BY <4>1, <1>0 DEF MonOK, RingInv
            <4>3. App_fin(app[j]).fin = 1  BY <4>2, AppFinIs DEF AppOK
            <4> QED  BY <3>1, <3>2, <4>2, <4>3
        <3>3. CASE ~ \E k \in late : reqs[k] = j  BY <3>1, <3>3
        <3> QED  BY <3>2, <3>3
    <2>6. /\ rest \in Seq(1 .. Len(app)) /\ Distinct(rest) /\ Members(rest) \subseteq Members(reqs)
        <3>1. DOMAIN reqs \ late \in SUBSET DOMAIN reqs  OBVIOUS
        <3>2. /\ rest \in Seq(1 .. Len(app)) /\ Distinct(rest)
              /\ Members(rest) = {reqs[k] : k \in DOMAIN reqs \ late}
            BY <1>1, <3>1, SublistIs
        <3> QED  BY <3>2 DEF Members
    <2>7. Members(reqs') = Members(rest) \union {i}
        <3>1. rest \in Seq(1 .. i) /\ i \notin Members(rest)  BY <1>1, <2>6, SeqGrows
        <3>2. Distinct(rest) /\ i \in 1 .. i  BY <1>1, <2>6
        <3> HIDE DEF i
        <3>3. Members(<<i>> \o rest) = Members(rest) \union {i}  BY <3>1, <3>2, ConsIs
        <3> QED  BY <1>3, <3>3
    <2> HIDE DEF nap
    <2>8. Later /\ RingInv'
        <3>1. nap \in Seq(AppRec)  BY <2>1 DEF MonOK
        <3>2. Members(reqs') \subseteq Members(reqs) \union {i} /\ refused' \subseteq refused \union {i}
            BY <1>3, <2>6, <2>7
        <3> QED  BY <1>0, <1>1, <2>1, <2>3, <2>5, <3>1, <3>2, OneAdded
    <2>9. MonOK(Append(nap, a), <<i>> \o rest, sess, refused)  BY <2>1, <2>2, RequestAdded
    <2> QED  BY <1>0, <1>3, <2>3, <2>9, <2>8, OutSame DEF MonNext
<1>4. CASE app' = Append(app, a) /\ refused' = refused \union {i} /\ UNCHANGED reqs
    <2>1. MonOK(Append(app, a), reqs, sess, refused \union {i})  BY <1>0, AppLost DEF AppOK
    <2>2. Later /\ RingInv'  BY <1>0, <1>1, <1>4, OneAdded
    <2> QED  BY <1>0, <1>4, <2>1, <2>2, OutSame DEF MonNext
<1> QED  BY <1>2, <1>3, <1>4 DEF NewRequest

LEMMA NewSessionOK ==
    ASSUME MonInv, NEW pkt, PktOK(pkt), FlowOf(pkt) = "dns",
           sess["dns"] = None, NEW a, AppOK(a), a.fin = 0, a.flow = "dns",
           NewSession(a, pkt), UNCHANGED <<reqs, out, ring, overtaken>>
    PROVE  MonNext
<1> DEFINE m == Len(app) + 1
<1>0. MonOK(app, reqs, sess, refused) /\ OutInv /\ RingInv  BY DEF MonInv
<1>1. app \in Seq(AppRec) /\ a \in AppRec /\ a.fin \in 0 .. 1  BY <1>0 DEF MonOK, AppOK
<1>2. CASE SessionsFull /\ app' = Append(app, a) /\ refused' = refused \union {m} /\ UNCHANGED sess
    <2>1. MonOK(Append(app, a), reqs, sess, refused \union {m})  BY <1>0, AppLost
    <2>2. Later /\ RingInv'  BY <1>0, <1>1, <1>2, OneAdded
    <2> QED  BY <1>0, <1>2, <2>1, <2>2, OutSame DEF MonNext
<1>3. ASSUME ~SessionsFull, NEW v \in PacketProcess(a, pkt),
             app' = Append(app, IF v.rc = "CONTINUE" THEN v.a ELSE App_fin(v.a)),
             sess' = [sess EXCEPT !["dns"] = IF v.rc = "CONTINUE" THEN m ELSE None], UNCHANGED refused
      PROVE  MonNext
    <2> DEFINE r == IF v.rc = "CONTINUE" THEN v.a ELSE App_fin(v.a)
               nse == [sess EXCEPT !["dns"] = IF v.rc = "CONTINUE" THEN m ELSE None]
    <2>1. Kept(a, v.a) /\ (v.rc = "CONTINUE" => AppOK(v.a))  BY ProcessIs
    <2>2. v.a \in AppRec /\ (v.a.type = "dns" <=> v.a.flow = "dns") /\ v.a.fin = 0
          /\ v.a.flow = "dns"
        BY <2>1 DEF Kept, AppOK
    <2>3. AppOK(r) /\ r.flow = "dns" /\ (r.fin = 0 <=> v.rc = "CONTINUE")
        BY <2>1, <2>2, AppFinIs
    <2>0. r \in AppRec /\ r.fin \in 0 .. 1  BY <2>1, <2>2, <2>3, AppFinIs DEF AppOK
    <2>4. /\ Len(app) \in Nat /\ reqs \in Seq(1 .. Len(app)) /\ Distinct(reqs) /\ Len(reqs) <= ReqLimit
          /\ sess \in [Flow -> {None} \union 1 .. Len(app)] /\ refused \subseteq 1 .. Len(app)
        BY <1>0, <1>1 DEF MonOK
    <2>5. m \in 1 .. m /\ m \notin {None} \union 1 .. Len(app) /\ 1 .. Len(app) \subseteq 1 .. m  BY <2>4 DEF None
    <2>6. "dns" \in Flow  BY DEF Flow
    <2>7. reqs \in Seq(1 .. m) /\ m \notin Members(reqs)  BY <2>4, SeqGrows
    <2> HIDE DEF r, m
    <2>8. nse \in [Flow -> {None} \union 1 .. m]
          /\ \A f \in Flow : nse[f] = IF f = "dns" THEN IF v.rc = "CONTINUE" THEN m ELSE None ELSE sess[f]
        BY <2>4, <2>5, <2>6
    <2> HIDE DEF nse
    <2>9. \A f \in Flow : nse[f] = sess[f] \/ (nse[f] = m /\ sess[f] = None /\ r.flow = f)
        BY <2>3, <2>8
    <2>10. Cardinality(Busy(nse)) <= SessLimit
        <3>1. ~(Cardinality(Busy(sess)) >= SessLimit)  BY <1>3 DEF SessionsFull, Busy
        <3>2. Cardinality(Busy(sess)) < SessLimit  BY <3>1, BusyFinite, UdpAssumption
        <3>3. Busy(nse) \subseteq Busy(sess) \union {"dns"}  BY <2>8 DEF Busy
        <3> QED  BY <3>2, <3>3, BusyMore
    <2>11. (m \in Members(reqs) \/ \E f \in Flow : nse[f] = m) <=> r.fin = 0 /\ m \notin refused
        <3>1. m \notin refused  BY <2>4, <2>5
        <3>2. (\E f \in Flow : nse[f] = m) <=> v.rc = "CONTINUE"  BY <2>4, <2>5, <2>6, <2>8
        <3> QED  BY <3>1, <3>2, <2>3, <2>7
    <2>12. refused \in {refused, refused \union {m}}  OBVIOUS
    <2>13. MonOK(Append(app, r), reqs, nse, refused)
        BY <1>0, <2>3, <2>4, <2>7, <2>8, <2>9, <2>10, <2>11, <2>12, AppendOK DEF m
    <2>14. app' = Append(app, r) /\ sess' = nse /\ UNCHANGED <<reqs, refused>>  BY <1>3 DEF r, nse, m
    <2>15. Later /\ RingInv'  BY <1>0, <1>1, <2>0, <2>14, OneAdded
    <2> QED  BY <1>0, <2>13, <2>14, <2>15, OutSame DEF MonNext
<1> QED  BY <1>2, <1>3 DEF NewSession

LEMMA NewPacketOK ==
    ASSUME MonInv, NEW pkt, PktOK(pkt), NewPacket(pkt), UNCHANGED ring PROVE MonNext
<1>1. PICK a \in AppOf(pkt) :
          \/ a.type = "tftp" /\ NewRequest(a) /\ UNCHANGED sess
          \/ a.type = "dns" /\ NewSession(a, pkt) /\ UNCHANGED reqs
    BY DEF NewPacket
<1>2. sess[FlowOf(pkt)] = None /\ UNCHANGED <<out, overtaken>>  BY DEF NewPacket
<1>3. CASE pkt.op \in {"rrq", "wrq"}
    <2>1. a = NewApp("tftp", pkt.x, "69")  BY <1>1, <1>3 DEF AppOf, FlowOf
    <2>2. pkt.x \in Flow /\ "69" \in Flow  BY <1>3 DEF PktOK, Flow
    <2>3. AppOK(a) /\ a.fin = 0 /\ a.type = "tftp"  BY <2>1, <2>2, NewAppOK
    <2> QED  BY <1>1, <1>2, <2>3, NewRequestOK
<1>4. CASE pkt.op = "query"
    <2>1. a = NewApp("dns", "dns", "dns")  BY <1>1, <1>4 DEF AppOf, FlowOf
    <2>2. "dns" \in Flow  BY DEF Flow
    <2>3. AppOK(a) /\ a.fin = 0 /\ a.type = "dns" /\ a.flow = "dns"  BY <2>1, <2>2, NewAppOK
    <2>4. FlowOf(pkt) = "dns"  BY <1>4 DEF FlowOf
    <2> QED  BY <1>1, <1>2, <2>3, <2>4, NewSessionOK
<1>5. CASE pkt.op \notin {"rrq", "wrq", "query"}
    <2>1. AppOf(pkt) = {}  BY <1>5 DEF AppOf
    <2> QED  BY <1>1, <2>1
<1> QED  BY <1>3, <1>4, <1>5

\* ch_udp_session_request_packet_handle, or the capture missed the packet.
LEMMA PassOK ==
    ASSUME UdpInv, NEW pkt, PktOK(pkt), Pass(pkt) PROVE MonNext /\ draining' \in BOOLEAN
<1>1. MonInv  BY DEF UdpInv, MonInv
<1>2. CASE UNCHANGED monitor
    <2>1. UNCHANGED <<app, reqs, sess, out, refused, overtaken, ring, draining>>  BY <1>2 DEF monitor, table
    <2>2. Later  BY <2>1 DEF Later
    <2>3. OutInv'  BY <1>1, <2>1, <2>2, OutSame DEF MonInv
    <2>4. RingInv'  BY <1>1, <2>1 DEF MonInv, RingInv, Members
    <2> QED  BY <1>1, <2>1, <2>3, <2>4 DEF MonInv, MonNext, UdpInv
<1>3. CASE Request_packet_handle(pkt) /\ draining' = (ring # {}) /\ UNCHANGED ring
    <2>1. CASE SessionPacket(pkt)  BY <1>1, <1>3, <2>1, SessionPacketOK
    <2>2. CASE RequestPacket(pkt)  BY <1>1, <1>3, <2>2, RequestPacketOK
    <2>3. CASE NewPacket(pkt)  BY <1>1, <1>3, <2>3, NewPacketOK
    <2>4. CASE NotWanted(pkt)
        <3>1. UNCHANGED <<app, reqs, sess, out, refused, overtaken, ring>>  BY <1>3, <2>4 DEF NotWanted, table
        <3>2. Later  BY <3>1 DEF Later
        <3>3. OutInv'  BY <1>1, <3>1, <3>2, OutSame DEF MonInv
        <3>4. RingInv'  BY <1>1, <3>1 DEF MonInv, RingInv, Members
        <3>5. MonNext  BY <1>1, <3>1, <3>3, <3>4 DEF MonInv, MonNext
        <3> QED  BY <1>3, <3>5
    <2> QED  BY <1>3, <2>1, <2>2, <2>3, <2>4 DEF Request_packet_handle
<1> QED  BY <1>2, <1>3 DEF Pass

\* The watch thread puts the entry of a session into the ring.
LEMMA WatchTimeoutOK ==
    ASSUME UdpInv, NEW f \in Flow, WatchTimeout(f) PROVE MonNext /\ draining' \in BOOLEAN
<1>1. /\ MonOK(app, reqs, sess, refused) /\ OutInv /\ RingInv /\ draining \in BOOLEAN  BY DEF UdpInv
<1>2. /\ sess[f] # None /\ ring' = ring \union {sess[f]}
      /\ UNCHANGED <<app, reqs, sess, out, refused, overtaken, draining>>
    BY DEF WatchTimeout, table
<1>3. /\ sess[f] \in 1 .. Len(app) /\ sess[f] \notin refused /\ app[sess[f]].fin = 0
      /\ sess[f] \notin Members(reqs)
    BY <1>1, <1>2, SessIs
<1>4. Later  BY <1>2 DEF Later
<1>5. OutInv'  BY <1>1, <1>2, <1>4, OutSame
<1>6. Members(reqs') = Members(reqs)  BY <1>2 DEF Members
<1>7. RingInv'
    <2>1. ring' \subseteq 1 .. Len(app) /\ overtaken \subseteq 1 .. Len(app)  BY <1>1, <1>2, <1>3 DEF RingInv
    <2>2. \A i \in ring' : i \notin refused /\ i \notin Members(reqs')  BY <1>1, <1>2, <1>3, <1>6 DEF RingInv
    <2>3. \A i \in ring' : app[i].fin >= 1 => i \in overtaken  BY <1>1, <1>2, <1>3 DEF RingInv
    <2>4. \A i \in 1 .. Len(app) : app[i].fin > 1 => i \in overtaken  BY <1>1 DEF RingInv
    <2> QED  BY <1>2, <2>1, <2>2, <2>3, <2>4 DEF RingInv
<1> QED  BY <1>1, <1>2, <1>5, <1>7 DEF MonNext

\* An entry of the ring is freed: its session ends, or has ended before.
LEMMA SessionTimeoutOK ==
    ASSUME UdpInv, FinishedOnce, NEW i \in ring, SessionTimeout(i) PROVE MonNext /\ draining' \in BOOLEAN
<1> DEFINE a == app[i]
           r == App_fin(a)
           nse == [f \in Flow |-> IF sess[f] = i THEN None ELSE sess[f]]
<1>0. MonOK(app, reqs, sess, refused) /\ OutInv /\ RingInv  BY DEF UdpInv
<1>1. /\ Session_out(i, a, "timeout") /\ sess' = nse /\ app' = [app EXCEPT ![i] = r]
      /\ \/ ring' = ring \ {i} /\ UNCHANGED overtaken
         \/ ring = {i} /\ UNCHANGED ring /\ overtaken' = overtaken \union {i}
      /\ draining' \in BOOLEAN /\ UNCHANGED <<reqs, refused>>
    BY DEF SessionTimeout
<1>2. /\ i \in 1 .. Len(app) /\ i \notin refused /\ i \notin Members(reqs) /\ app \in Seq(AppRec)
      /\ AppOK(a) /\ a.fin \in 0 .. 1 /\ Len(app) \in Nat
      /\ (a.fin = 0 <=> \E f \in Flow : sess[f] = i) /\ (a.fin >= 1 => i \in overtaken)
    <2>1. i \in 1 .. Len(app) /\ i \notin refused /\ i \notin Members(reqs) /\ (a.fin >= 1 => i \in overtaken)
        BY <1>0 DEF RingInv
    <2>2. app \in Seq(AppRec) /\ AppOK(a) /\ (a.fin = 0 <=> \E f \in Flow : sess[f] = i)
        BY <1>0, <2>1 DEF MonOK
    <2>3. a.fin \in 0 .. 2 /\ a.fin <= 1
        <3>1. DOMAIN app = 1 .. Len(app)  BY <2>2
        <3> QED  BY <2>1, <2>2, <3>1 DEF FinishedOnce, AppOK, AppRec
    <2> QED  BY <2>1, <2>2, <2>3
<1>3. AppOK(r) /\ r.fin = a.fin + 1 /\ r.fin >= 1 /\ r.fin # 0 /\ (r.fin > 1 => a.fin = 1) /\ r \in AppRec
    BY <1>2, AppFinIs DEF AppOK
<1>4. /\ sess \in [Flow -> {None} \union 1 .. Len(app)] /\ Cardinality(Busy(sess)) <= SessLimit
      /\ reqs \in Seq(1 .. Len(app)) /\ Distinct(reqs) /\ Len(reqs) <= Len(reqs) /\ i # None
    <2>1. reqs \in Seq(1 .. Len(app))  BY <1>0 DEF MonOK
    <2> QED  BY <1>0, <1>2, <2>1 DEF MonOK, None
<1> HIDE DEF r
<1>5. nse \in [Flow -> {None} \union 1 .. Len(app)] /\ \A e \in Flow : nse[e] = IF sess[e] = i THEN None ELSE sess[e]
    BY <1>4
<1> HIDE DEF nse
<1>6. Cardinality(Busy(nse)) <= SessLimit
    <2>1. Busy(nse) \subseteq Busy(sess)  BY <1>5 DEF Busy
    <2> QED  BY <2>1, <1>4, BusyLess
<1>7. \A e \in Flow : nse[e] # i  BY <1>4, <1>5
<1>8. \A e \in Flow : nse[e] # i => nse[e] = sess[e] \/ (nse[e] = None /\ sess[e] = i)  BY <1>5
<1>9. MonOK([app EXCEPT ![i] = r], reqs, nse, refused)
    <2>1. (\E e \in Flow : nse[e] = i) <=> r.fin = 0 /\ i \notin refused  BY <1>3, <1>7
    <2>2. \A e \in Flow : nse[e] = i => r.flow = e  BY <1>7
    <2>3. \A e \in Flow : nse[e] = i => sess[e] \in {None, i}  BY <1>7
    <2>4. refused \in {refused, refused \union {i}} /\ Members(reqs) = Members(reqs) \ {i}  BY <1>2
    <2> QED  BY <1>0, <1>2, <1>3, <1>4, <1>5, <1>6, <1>8, <2>1, <2>2, <2>3, <2>4, ChangeOK
<1>10. Len(app') = Len(app) /\ \A j \in 1 .. Len(app) : app'[j] = IF j = i THEN r ELSE app[j]
    BY <1>1, <1>2, <1>3, ExceptSeq
<1>11. Later  BY <1>1, <1>3, <1>10 DEF Later
<1>12. OutInv'
    <2>1. CASE UNCHANGED out  BY <1>0, <1>11, <2>1, OutSame
    <2>2. CASE out' = Append(out, Record(i, a, "timeout"))
        <3>1. a \in AppRec  BY <1>2 DEF AppOK
        <3>2. a.fin = 0 \/ i \in overtaken'  BY <1>1, <1>2
        <3>3. app'[i].fin >= 1  BY <1>2, <1>3, <1>10
        <3> QED  BY <1>0, <1>2, <1>11, <2>2, <3>1, <3>2, <3>3, OutAppended
    <2> QED  BY <1>1, <2>1, <2>2 DEF Session_out
<1>13. RingInv'
    <2>1. ring' \subseteq ring /\ overtaken' \subseteq 1 .. Len(app') /\ (i \in ring' => i \in overtaken')
        BY <1>0, <1>1, <1>2, <1>10 DEF RingInv
    <2>2. Members(reqs') = Members(reqs)  BY <1>1 DEF Members
    <2>3. \A j \in ring' : app'[j].fin >= 1 => j \in overtaken'
        BY <1>0, <1>10, <1>11, <2>1 DEF RingInv, Later
    <2>4. \A j \in 1 .. Len(app') : app'[j].fin > 1 => j \in overtaken'
        <3> SUFFICES ASSUME NEW j \in 1 .. Len(app), app'[j].fin > 1 PROVE j \in overtaken'
            BY <1>10
        <3>1. CASE j = i  BY <1>2, <1>3, <1>10, <1>11, <3>1 DEF Later
        <3>2. CASE j # i  BY <1>0, <1>10, <1>11, <3>2 DEF RingInv, Later
        <3> QED  BY <3>1, <3>2
    <2>5. ring' \subseteq 1 .. Len(app') /\ \A j \in ring' : j \notin refused' /\ j \notin Members(reqs')
        BY <1>0, <1>1, <1>10, <2>1, <2>2 DEF RingInv
    <2> QED  BY <2>1, <2>3, <2>4, <2>5 DEF RingInv
<1> QED  BY <1>1, <1>9, <1>12, <1>13 DEF MonNext

LEMMA RequestTimeoutOK ==
    ASSUME UdpInv, NEW k \in DOMAIN reqs, RequestTimeout(k) PROVE MonNext /\ draining' \in BOOLEAN
<1> DEFINE i == reqs[k]
           r == App_fin(app[i])
           nrq == RemoveAt(reqs, k)
<1>0. MonOK(app, reqs, sess, refused) /\ OutInv /\ RingInv /\ draining \in BOOLEAN  BY DEF UdpInv
<1>1. app' = [app EXCEPT ![i] = r] /\ reqs' = nrq /\ UNCHANGED <<sess, ring, draining, out, refused, overtaken>>
    BY DEF RequestTimeout
<1>2. /\ i \in 1 .. Len(app) /\ i \notin refused /\ AppOK(app[i]) /\ app[i].fin = 0
      /\ \A f \in Flow : sess[f] # i
      /\ nrq \in Seq(1 .. Len(app)) /\ Distinct(nrq) /\ Len(nrq) <= Len(reqs)
      /\ Members(nrq) = Members(reqs) \ {i}
    BY <1>0, ReqIs
<1>3. AppOK(r) /\ r.fin = 1  BY <1>2, AppFinIs DEF AppOK
<1>4. /\ sess \in [Flow -> {None} \union 1 .. Len(app)] /\ Cardinality(Busy(sess)) <= SessLimit
      /\ app \in Seq(AppRec) /\ i \in Members(reqs)
    BY <1>0 DEF MonOK, Members
<1> HIDE DEF r, nrq, i
<1>5. MonOK([app EXCEPT ![i] = r], nrq, sess, refused)
    <2>1. (\E e \in Flow : sess[e] = i) <=> r.fin = 0 /\ i \notin refused  BY <1>2, <1>3
    <2>2. \A e \in Flow : sess[e] = i => r.flow = e  BY <1>2
    <2>3. refused \in {refused, refused \union {i}}  OBVIOUS
    <2> QED  BY <1>0, <1>2, <1>3, <1>4, <2>1, <2>2, <2>3, ChangeOK
<1>6. Later /\ RingInv'
    <2>1. i \notin ring /\ overtaken \subseteq 1 .. Len(app)  BY <1>0, <1>4 DEF RingInv
    <2>2. r \in AppRec /\ r.fin \in 0 .. 1 /\ Members(reqs') \subseteq Members(reqs)
        BY <1>1, <1>2, <1>3 DEF AppOK
    <2> QED  BY <1>0, <1>1, <1>2, <1>4, <2>1, <2>2, OneChanges
<1> QED  BY <1>0, <1>1, <1>5, <1>6, OutSame DEF MonNext

LEMMA UdpInitOK == Init => UdpInv
<1> SUFFICES ASSUME Init PROVE UdpInv
    OBVIOUS
<1>1. /\ app = <<>> /\ reqs = <<>> /\ sess = [f \in Flow |-> None] /\ out = <<>> /\ refused = {}
      /\ ring = {} /\ overtaken = {} /\ draining = FALSE
      /\ sent \in [Xfer -> Int] /\ queries \in Nat
    BY DEF Init, NotAsked
<1>2. Len(app) = 0 /\ Members(reqs) = {} /\ 1 .. Len(app) = {}  BY <1>1 DEF Members
<1>3. /\ app \in Seq(AppRec) /\ reqs \in Seq(1 .. Len(app)) /\ Distinct(reqs) /\ Len(reqs) = 0
      /\ DOMAIN out = {} /\ out \in Seq(Rec)
    BY <1>1 DEF Distinct
<1>4. sess \in [Flow -> {None} \union 1 .. Len(app)] /\ \A f \in Flow : sess[f] = None  BY <1>1
<1>5. Cardinality(Busy(sess)) <= SessLimit
    <2>1. Busy(sess) = {}  BY <1>4 DEF Busy
    <2>2. Cardinality(Busy(sess)) = 0  BY <2>1, FS_EmptySet
    <2> QED  BY <2>2, UdpAssumption
<1>6. MonOK(app, reqs, sess, refused)
    <2>1. Len(reqs) <= ReqLimit  BY <1>3, UdpAssumption
    <2> QED  BY <1>1, <1>2, <1>3, <1>4, <1>5, <2>1 DEF MonOK
<1>7. OutInv  BY <1>3 DEF OutInv, ReportedOnce, RecordedWhole
<1>8. RingInv  BY <1>1, <1>2 DEF RingInv
<1> QED  BY <1>1, <1>6, <1>7, <1>8 DEF UdpInv

UdpNext == MonNext /\ draining' \in BOOLEAN /\ sent' \in [Xfer -> Int] /\ queries' \in Nat

LEMMA UdpStep == UdpInv /\ [Next]_vars => UdpInv'
<1> SUFFICES ASSUME UdpInv, [Next]_vars PROVE UdpInv'
    OBVIOUS
<1>0. sent \in [Xfer -> Int] /\ queries \in Nat /\ \A x \in Xfer : Blocks[x] \in Nat
    BY UdpAssumption DEF UdpInv
<1> SUFFICES UdpNext
    BY DEF UdpInv, MonNext, UdpNext
<1>1. ASSUME NEW x \in Xfer, PassRequest(x) PROVE UdpNext
    <2> DEFINE pkt == [op |-> IF x \in Writes THEN "wrq" ELSE "rrq", x |-> x, src |-> "client"]
    <2>1. PktOK(pkt)  BY DEF PktOK
    <2>2. Pass(pkt)  BY <1>1 DEF PassRequest
    <2>3. MonNext /\ draining' \in BOOLEAN  BY <2>1, <2>2, PassOK
    <2> QED  BY <1>0, <1>1, <2>3 DEF PassRequest, UdpNext
<1>2. ASSUME NEW x \in Xfer, PassError(x) PROVE UdpNext
    <2> DEFINE pkt == [op |-> "error", x |-> x, src |-> "server"]
    <2>1. PktOK(pkt)  BY DEF PktOK
    <2>2. Pass(pkt)  BY <1>2 DEF PassError
    <2>3. MonNext /\ draining' \in BOOLEAN  BY <2>1, <2>2, PassOK
    <2> QED  BY <1>0, <1>2, <2>3 DEF PassError, network, UdpNext
<1>3. ASSUME NEW x \in Xfer, NEW b \in 0 .. Blocks[x], PassData(x, b)
      PROVE  UdpNext
    <2> DEFINE pkt == [op |-> "data", x |-> x, b |-> b,
                       src |-> IF x \in Writes THEN "client" ELSE "server"]
    <2>1. b \in Nat \ {0}  BY <1>0, <1>3 DEF PassData
    <2>2. PktOK(pkt)  BY <2>1 DEF PktOK
    <2>3. Pass(pkt)  BY <1>3 DEF PassData
    <2>4. MonNext /\ draining' \in BOOLEAN  BY <2>2, <2>3, PassOK
    <2> QED  BY <1>0, <1>3, <2>4 DEF PassData, UdpNext
<1>4. ASSUME NEW x \in Xfer, NEW b \in 0 .. Blocks[x], PassAck(x, b)
      PROVE  UdpNext
    <2> DEFINE pkt == [op |-> "ack", x |-> x, b |-> b,
                       src |-> IF x \in Writes THEN "server" ELSE "client"]
    <2>1. b \in Nat  BY <1>0
    <2>2. PktOK(pkt)  BY <2>1 DEF PktOK
    <2>3. Pass(pkt)  BY <1>4 DEF PassAck
    <2>4. MonNext /\ draining' \in BOOLEAN  BY <2>2, <2>3, PassOK
    <2>5. sent' \in [Xfer -> Int]  BY <1>0, <1>4, <2>1 DEF PassAck
    <2> QED  BY <1>0, <1>4, <2>4, <2>5 DEF PassAck, UdpNext
<1>5. ASSUME NEW body \in Bodies, PassQuery(body) PROVE UdpNext
    <2> DEFINE pkt == [op |-> "query", id |-> queries + 1, body |-> body, src |-> "client"]
    <2>1. PktOK(pkt)  BY <1>0 DEF PktOK
    <2>2. Pass(pkt)  BY <1>5 DEF PassQuery
    <2>3. MonNext /\ draining' \in BOOLEAN  BY <2>1, <2>2, PassOK
    <2> QED  BY <1>0, <1>5, <2>3 DEF PassQuery, UdpNext
<1>6. ASSUME NEW body \in Bodies, NEW id \in 1 .. queries, PassResponse(id, body)
      PROVE  UdpNext
    <2> DEFINE pkt == [op |-> "response", id |-> id, body |-> body, src |-> "dnsserver"]
    <2>0. id \in Nat  BY <1>0
    <2>1. PktOK(pkt)  BY <2>0 DEF PktOK
    <2>2. Pass(pkt)  BY <1>6 DEF PassResponse
    <2>3. MonNext /\ draining' \in BOOLEAN  BY <2>1, <2>2, PassOK
    <2> QED  BY <1>0, <1>6, <2>3 DEF PassResponse, network, UdpNext
<1>7. ASSUME NEW f \in Flow, WatchTimeout(f) PROVE UdpNext
    BY <1>0, <1>7, WatchTimeoutOK DEF WatchTimeout, network, UdpNext
<1>8. ASSUME FinishedOnce, NEW i \in ring, SessionTimeout(i) PROVE UdpNext
    BY <1>0, <1>8, SessionTimeoutOK DEF SessionTimeout, network, UdpNext
<1>9. ASSUME NEW k \in DOMAIN reqs, RequestTimeout(k) PROVE UdpNext
    BY <1>0, <1>9, RequestTimeoutOK DEF RequestTimeout, network, UdpNext
<1>10. CASE UNCHANGED vars
    <2>1. UNCHANGED <<app, reqs, sess, out, refused, overtaken, ring, draining, sent, queries>>
        BY <1>10 DEF vars, monitor, table, network
    <2>2. Later  BY <2>1 DEF Later
    <2>3. OutInv'  BY <2>1, <2>2, OutSame DEF UdpInv
    <2>4. RingInv'  BY <2>1 DEF UdpInv, RingInv, Members
    <2> QED  BY <1>0, <2>1, <2>3, <2>4 DEF UdpInv, MonNext, UdpNext
<1>11. CASE FinishedOnce /\ Packets
    BY <1>1, <1>2, <1>3, <1>4, <1>5, <1>6, <1>11 DEF Packets
<1>12. CASE FinishedOnce /\ Timeouts
    BY <1>7, <1>8, <1>9, <1>12 DEF Timeouts
<1> QED  BY <1>10, <1>11, <1>12 DEF Next

LEMMA UdpInvariant == Spec => []UdpInv
BY UdpInitOK, UdpStep, PTL DEF Spec

\* Type correctness of UdpSession: the list of requests and the table of sessions never
\* exceed their limits.
THEOREM UdpTypeCorrect == Spec => []TypeOK
<1>1. UdpInv => TypeOK
    <2> SUFFICES ASSUME UdpInv PROVE TypeOK
        OBVIOUS
    <2>1. MonOK(app, reqs, sess, refused)  BY DEF UdpInv
    <2>2. DOMAIN app = 1 .. Len(app)  BY <2>1 DEF MonOK
    <2>3. \A i \in DOMAIN app : app[i].fin \in 0 .. 2 /\ app[i].flow \in Flow
        BY <2>1, <2>2 DEF MonOK, AppOK, AppRec
    <2>4. ring \subseteq DOMAIN app /\ draining \in BOOLEAN /\ overtaken \subseteq DOMAIN app
        BY <2>2 DEF UdpInv, RingInv
    <2> QED  BY <2>1, <2>2, <2>3, <2>4 DEF MonOK, TypeOK, Busy
<1> QED  BY <1>1, UdpInvariant, PTL

\* An application session has exactly one owner until it is finished and none afterwards,
\* whatever packets and timeouts it lives through; it is lost only where
\* ch_udp_session_request_packet_handle got no entry for it, and finished twice only if its
\* session ended while the watch thread had it in the ring.
THEOREM UdpAppOwned == Spec => []AppOwned
<1>1. UdpInv => AppOwned
    <2> SUFFICES ASSUME UdpInv, NEW i \in DOMAIN app
                 PROVE  /\ Cardinality(Holders(i)) = IF app[i].fin = 0 /\ i \notin refused THEN 1 ELSE 0
                        /\ app[i].fin > 1 => i \in overtaken
        BY DEF AppOwned
    <2>1. MonOK(app, reqs, sess, refused)  BY DEF UdpInv
    <2>2. i \in 1 .. Len(app) /\ i # None  BY <2>1 DEF MonOK, None
    <2>3. (i \in Members(reqs) \/ \E f \in Flow : sess[f] = i) <=> app[i].fin = 0 /\ i \notin refused
        BY <2>1, <2>2 DEF MonOK
    <2>0. app[i].fin > 1 => i \in overtaken  BY <2>2 DEF UdpInv, RingInv
    <2>4. CASE i \in Members(reqs)
        <3>1. PICK k \in DOMAIN reqs : reqs[k] = i  BY <2>4 DEF Members
        <3>2. \A j \in DOMAIN reqs : reqs[j] = i => j = k  BY <2>1, <3>1 DEF MonOK, Distinct
        <3>3. \A f \in Flow : sess[f] # i  BY <2>1, <2>2, <2>4 DEF MonOK
        <3>4. Holders(i) = {<<"request", k>>}  BY <3>1, <3>2, <3>3 DEF Holders
        <3> QED  BY <2>3, <2>4, <3>4, FS_Singleton, <2>0
    <2>5. CASE i \notin Members(reqs) /\ \E f \in Flow : sess[f] = i
        <3>1. PICK f \in Flow : sess[f] = i  BY <2>5
        <3>2. \A e \in Flow : sess[e] = i => e = f  BY <2>1, <2>2, <3>1, SessIs
        <3>3. \A k \in DOMAIN reqs : reqs[k] # i  BY <2>5 DEF Members
        <3>4. Holders(i) = {<<"session", f>>}  BY <3>1, <3>2, <3>3 DEF Holders
        <3> QED  BY <2>3, <2>5, <3>4, FS_Singleton, <2>0
    <2>6. CASE i \notin Members(reqs) /\ ~ \E f \in Flow : sess[f] = i
        <3>1. \A k \in DOMAIN reqs : reqs[k] # i  BY <2>6 DEF Members
        <3>2. Holders(i) = {}  BY <3>1, <2>6 DEF Holders
        <3> QED  BY <2>3, <2>6, <3>2, FS_EmptySet, <2>0
    <2> QED  BY <2>4, <2>5, <2>6
<1> QED  BY <1>1, UdpInvariant, PTL

\* A session is written out once, by its last packet or by its timeout; twice only if it
\* ended while the watch thread had it in the ring (_udp_app_pkt_handle,
\* _udp_session_timeout_cb).
THEOREM UdpReportedOnce == Spec => []ReportedOnce
<1>1. UdpInv => ReportedOnce  BY DEF UdpInv, OutInv
<1> QED  BY <1>1, UdpInvariant, PTL

\* The file of a transfer that is reported as done without an error packet holds every block
\* in order, whatever the network lost, repeated or reordered and the capture missed
\* (do_tftp_packet_parse).
THEOREM UdpRecordedWhole == Spec => []RecordedWhole
<1>1. UdpInv => RecordedWhole  BY DEF UdpInv, OutInv
<1> QED  BY <1>1, UdpInvariant, PTL
=============================================================================
