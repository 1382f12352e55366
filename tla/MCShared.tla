------------------------------- MODULE MCShared -------------------------------
(***************************************************************************)
(* What processes and threads share without a lock, for TLC: a behavior is *)
(* one of ShmQueue (the queue of records), of SessionMonitor (the table of *)
(* monitored sessions) or of StatPool (the statistics).  `part' says       *)
(* which; the variables of the others keep their first values.             *)
(***************************************************************************)
EXTENDS ShmQueue, SessionMonitor, StatPool

VARIABLE part

\* An address, a port of it and a session from another address to that port.
MCWatch ==
    {[type |-> 0, src_ip |-> 0, src_port |-> 0, dst_ip |-> 1, dst_port |-> 0],
     [type |-> 2, src_ip |-> 0, src_port |-> 0, dst_ip |-> 1, dst_port |-> 1],
     [type |-> 3, src_ip |-> 2, src_port |-> 2, dst_ip |-> 1, dst_port |-> 1]}

allVars == <<part, vars, monVars, statVars>>

MCInit ==
    /\ part \in {"queue", "monitor", "statistics"}
    /\ Init /\ MonInit /\ StatInit
    /\ part # "statistics" => use_task /\ tasks = RxTasks /\ cap = PoolSize

InQueue(Step) == part = "queue" /\ Step /\ UNCHANGED <<part, monVars, statVars>>

MCNext ==
    \/ InQueue(Next)
    \/ part = "monitor" /\ MonNext /\ UNCHANGED <<part, vars, statVars>>
    \/ part = "statistics" /\ StatNext /\ UNCHANGED <<part, vars, monVars>>

\* The fairness of ShmQueue: a put goes on and the reader polls.
MCSpec ==
    /\ MCInit /\ [][MCNext]_allVars
    /\ WF_allVars(InQueue(WriterWork)) /\ WF_allVars(InQueue(ReaderStep))

\* Type invariants of SessionMonitor and StatPool; TypeOK is that of ShmQueue.
MCTypeOK == MonTypeOK /\ StatTypeOK
=============================================================================
