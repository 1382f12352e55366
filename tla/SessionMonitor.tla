---------------------------- MODULE SessionMonitor ----------------------------
(***************************************************************************)
(* The table of monitored sessions (SessionMonitor): a file that every     *)
(* process maps, an array of items of which those before the first free    *)
(* one are in use.  A tool (SMonCmd, or Java through JNI) adds, deletes,   *)
(* stops and restarts items; a delete moves the items behind it, one after *)
(* the other.  Nothing is locked, so what is in the file between two       *)
(* stores is what another process reads, and what stays when the tool is   *)
(* killed.  The state of an item is stored last, in a step of its own.     *)
(* One tool runs at a time.                                                *)
(***************************************************************************)
EXTENDS Integers, FiniteSets

CONSTANTS ItemNumber,  \* item_number
          Watch,       \* what may be watched: records with the fields of NoKey
          MaxId        \* bound: items added

ASSUME MonAssumption ==
    /\ ItemNumber \in Nat /\ MaxId \in Nat
    /\ \A k \in Watch : k.type \in 0 .. 3

VARIABLES items,       \* of each slot: id, key (addresses and type), state
          next_id,
          mpc,         \* where the tool is, "idle" between two commands
          pos,         \* cur_item
          killed,      \* history: a tool was killed
          want         \* history: what was added and is not to be deleted, by id

monVars == <<items, next_id, mpc, pos, killed, want>>

Items == 1 .. ItemNumber
NoId == 0
NoKey == [type |-> 0, src_ip |-> 0, src_port |-> 0, dst_ip |-> 0, dst_port |-> 0]

MON_ITEM_TYPE_IP == 0
MON_ITEM_TYPE_PORT == 1
MON_ITEM_TYPE_IP_PORT == 2
MON_ITEM_TYPE_SESSION == 3

MonInit ==
    /\ items = [i \in Items |-> [id |-> NoId, key |-> NoKey, state |-> "init"]]
    /\ next_id = 1 /\ mpc = "idle" /\ pos = 1
    /\ killed = FALSE /\ want = <<>>

\* Every walk over the table ends at the first item that is free.
Walked == {i \in Items : \A j \in 1 .. i : items[j].state # "init"}

\* An item with key k fits a session with the addresses and ports of q.
IsMatch(k, q) ==
    CASE k.type = MON_ITEM_TYPE_PORT -> k.dst_port \in {q.src_port, q.dst_port}
      [] k.type = MON_ITEM_TYPE_IP -> k.dst_ip \in {q.src_ip, q.dst_ip}
      [] k.type = MON_ITEM_TYPE_IP_PORT ->
            <<k.dst_ip, k.dst_port>> \in {<<q.src_ip, q.src_port>>, <<q.dst_ip, q.dst_port>>}
      [] OTHER -> <<k.src_ip, k.src_port, k.dst_ip, k.dst_port>> \in
                  {<<q.src_ip, q.src_port, q.dst_ip, q.dst_port>>,
                   <<q.dst_ip, q.dst_port, q.src_ip, q.src_port>>}

\* ch_session_monitor_item_find: an item that is not stopped, of the greatest type.
Found(q) ==
    LET fit == {i \in Walked : items[i].state # "stop" /\ IsMatch(items[i].key, q)}
    IN  {i \in fit : \A j \in fit : items[j].key.type <= items[i].key.type}

\* The first item with this id, if there is one.
FindById(id) ==
    {i \in Walked : items[i].id = id /\ \A j \in 1 .. i - 1 : items[j].id # id}

\* _alloc_item: the first free item.
AllocItem == {i \in Items : items[i].state = "init" /\ \A j \in 1 .. i - 1 : items[j].state # "init"}

\* _item_add: an item of this type that fits is not added again.
ItemAdd(k) ==
    /\ mpc = "idle" /\ next_id <= MaxId
    /\ \A i \in Found(k) : items[i].key.type # k.type
    /\ \E i \in AllocItem :
        /\ items' = [items EXCEPT ![i].id = next_id, ![i].key = k]
        /\ next_id' = next_id + 1
        /\ mpc' = "add" /\ pos' = i
    /\ UNCHANGED <<killed, want>>

ItemStart ==
    /\ mpc = "add"
    /\ items' = [items EXCEPT ![pos].state = "start"]
    /\ want' = [id \in DOMAIN want \union {items[pos].id} |->
                  IF id = items[pos].id THEN items[pos].key ELSE want[id]]
    /\ mpc' = "idle"
    /\ UNCHANGED <<next_id, pos, killed>>

\* Faulty variant of ItemDel, for mutation: the item is freed before the others are moved.
ItemDel_Free(id) ==
    /\ mpc = "idle"
    /\ \E i \in FindById(id) : pos' = i + 1 /\ items' = [items EXCEPT ![i].state = "init"]
    /\ want' = [w \in DOMAIN want \ {id} |-> want[w]]
    /\ mpc' = "move"
    /\ UNCHANGED <<next_id, killed>>

\* ch_session_monitor_item_del
ItemDel(id) ==
    /\ mpc = "idle"
    /\ \E i \in FindById(id) : pos' = i + 1
    /\ want' = [w \in DOMAIN want \ {id} |-> want[w]]
    /\ mpc' = "move"
    /\ UNCHANGED <<items, next_id, killed>>

\* There is an item at cur_item.
More == pos \in Items /\ items[pos].state # "init"

\* elements_move, one ITEM_COPY.
MoveItem ==
    /\ mpc = "move" /\ More
    /\ items' = [items EXCEPT ![pos - 1].id = items[pos].id, ![pos - 1].key = items[pos].key]
    /\ mpc' = "copied"
    /\ UNCHANGED <<next_id, pos, killed, want>>

MoveState ==
    /\ mpc = "copied"
    /\ items' = [items EXCEPT ![pos - 1].state = items[pos].state]
    /\ mpc' = "move" /\ pos' = pos + 1
    /\ UNCHANGED <<next_id, killed, want>>

\* ITEM_INIT of the last one, which leaves the type as it is.
ClearItem ==
    /\ mpc = "move" /\ ~More
    /\ items' = [items EXCEPT ![pos - 1].id = NoId,
                              ![pos - 1].key = [NoKey EXCEPT !.type = items[pos - 1].key.type]]
    /\ mpc' = "clear"
    /\ UNCHANGED <<next_id, pos, killed, want>>

\* Faulty variant of ClearState, for mutation: the last item stays in use, stopped.
ClearState_Stop ==
    /\ mpc = "clear"
    /\ items' = [items EXCEPT ![pos - 1].state = "stop"]
    /\ mpc' = "idle"
    /\ UNCHANGED <<next_id, pos, killed, want>>

ClearState ==
    /\ mpc = "clear"
    /\ items' = [items EXCEPT ![pos - 1].state = "init"]
    /\ mpc' = "idle"
    /\ UNCHANGED <<next_id, pos, killed, want>>

\* ch_session_monitor_item_stop, ch_session_monitor_item_restart
SetState(id, state) ==
    /\ mpc = "idle"
    /\ \E i \in FindById(id) : items' = [items EXCEPT ![i].state = state]
    /\ UNCHANGED <<next_id, mpc, pos, killed, want>>

\* The tool is killed within a command; the next one maps the file as it is.
ToolKilled ==
    /\ mpc # "idle"
    /\ mpc' = "idle" /\ killed' = TRUE
    /\ UNCHANGED <<items, next_id, pos, want>>

MonNext ==
    \/ \E k \in Watch : ItemAdd(k)
    \/ \E id \in 1 .. MaxId : ItemDel(id) \/ SetState(id, "stop") \/ SetState(id, "start")
    \/ ItemStart \/ MoveItem \/ MoveState \/ ClearItem \/ ClearState \/ ToolKilled

MonSpec == MonInit /\ [][MonNext]_monVars

-----------------------------------------------------------------------------
\* Slots, program counter and history stay in their ranges.
MonTypeOK ==
    /\ items \in [Items -> [id : 0 .. MaxId, state : {"init", "start", "stop"},
                            key : Watch \union {[NoKey EXCEPT !.type = t] : t \in 0 .. 3}]]
    /\ next_id \in 1 .. MaxId + 1
    /\ mpc \in {"idle", "add", "move", "copied", "clear"}
    /\ pos \in 1 .. ItemNumber + 1
    /\ killed \in BOOLEAN
    /\ DOMAIN want \subseteq 1 .. MaxId

\* Whatever another process reads between two stores of a delete, and whatever a killed
\* tool leaves behind: no item that is to be kept is out of the walks' reach or has lost
\* its addresses (elements_move copies before it clears and never opens a gap).
ItemsKept == \A id \in DOMAIN want : \E i \in Walked : items[i].id = id /\ items[i].key = want[id]

\* Between two commands of which none was killed, the table holds each item that was added
\* and not deleted once, in the order they were added, and nothing else.
TableExact ==
    mpc = "idle" /\ ~killed =>
        /\ {i \in Items : items[i].state # "init"} = 1 .. Cardinality(DOMAIN want)
        /\ \A i, j \in Walked : i < j => items[i].id < items[j].id
        /\ \A i \in Walked : items[i].id \in DOMAIN want
=============================================================================
