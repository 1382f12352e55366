-------------------------- MODULE MonitorStatProofs --------------------------
(***************************************************************************)
(* Proofs about SessionMonitor and StatPool.                               *)
(*                                                                         *)
(* SessionMonitor, for a table of any size and any number of items added:  *)
(* no store of a delete, and no kill of the tool, takes an item that is to *)
(* be kept out of the walks' reach; and without kills the table is the     *)
(* ordered list of what was added and not deleted.                         *)
(*                                                                         *)
(* StatPool, for any number of receive tasks, any pool and ring sizes and  *)
(* any period: entries are in one place at a time, none is lost with one   *)
(* receive task or a ring with room for all of them, and with one receive  *)
(* task periods only move forward.                                         *)
(***************************************************************************)
EXTENDS SessionMonitor, StatPool, TLAPS, FiniteSetTheorems, FunctionTheorems, SequenceTheorems

(***************************************************************************)
(* SessionMonitor.                                                         *)
(***************************************************************************)
InUse == {i \in Items : items[i].state # "init"}

\* The item a delete has to spare: what it held is held elsewhere, or is not wanted.
Spare == IF mpc \in {"move", "copied", "clear"} THEN {pos - 1} ELSE {}

\* The items in use come first.
Prefix == \A i \in InUse : 1 .. i \subseteq InUse

\* What is known of cur_item in each step of a command.
Step ==
    /\ mpc = "add" => /\ pos \in Items \ InUse
                      /\ 1 .. pos - 1 \subseteq InUse
                      /\ items[pos].id # NoId
    /\ mpc \in {"move", "copied", "clear"} => pos - 1 \in InUse
    /\ mpc = "copied" => /\ pos \in InUse
                         /\ items[pos - 1].id = items[pos].id
                         /\ items[pos - 1].key = items[pos].key
    /\ mpc = "clear" => pos \notin InUse

\* What is to be kept is held by an item other than the spare one.
KeptAside ==
    \A id \in DOMAIN want :
        \E i \in InUse : i \notin Spare /\ items[i].id = id /\ items[i].key = want[id]

Key == Watch \union {[NoKey EXCEPT !.type = t] : t \in 0 .. 3}
Item == [id : 0 .. MaxId, state : {"init", "start", "stop"}, key : Key]

\* The inductive invariant behind ItemsKept.
MonInv == MonTypeOK /\ Prefix /\ Step /\ KeptAside

-----------------------------------------------------------------------------
\* While the items in use come first, the walks reach all of them.
LEMMA WalkedInUse ==
    ASSUME Prefix, ItemNumber \in Nat
    PROVE  Walked = InUse
BY DEF Walked, InUse, Prefix, Items

\* With the states left as they are, the items in use stay the same ones.
LEMMA SameInUse ==
    ASSUME \A i \in Items : items'[i].state = items[i].state
    PROVE  InUse' = InUse
BY DEF InUse, Items

\* The table that was just created satisfies the invariant.
LEMMA MonInitInv == MonInit => MonInv
<1> USE MonAssumption
<1> SUFFICES ASSUME MonInit PROVE MonInv
    OBVIOUS
<1>0. NoKey \in {[NoKey EXCEPT !.type = t] : t \in 0 .. 3}
    <2>1. NoKey = [NoKey EXCEPT !.type = 0]  BY DEF NoKey
    <2> QED  BY <2>1
<1>1. MonTypeOK
    <2>1. items \in [Items -> Item]  BY <1>0 DEF MonInit, Item, Key, NoId
    <2>2. DOMAIN want = {}  BY DEF MonInit
    <2>3. /\ next_id \in 1 .. MaxId + 1 /\ pos \in 1 .. ItemNumber + 1
          /\ mpc = "idle" /\ killed = FALSE
        BY DEF MonInit
    <2> QED  BY <2>1, <2>2, <2>3 DEF MonTypeOK, Item, Key
<1>2. InUse = {}  BY DEF MonInit, InUse
<1> QED  BY <1>1, <1>2 DEF MonInit, MonInv, Prefix, Step, KeptAside

\* Types: of a cleared item its key keeps the type it had, which is one of the four.
LEMMA MonTypeStep ==
    ASSUME MonTypeOK, Step, Prefix, MonNext
    PROVE  MonTypeOK'
<1> USE MonAssumption
<1>0. items \in [Items -> Item] /\ pos \in Int  BY DEF MonTypeOK, Item, Key
<1>1. ASSUME NEW k \in Watch, ItemAdd(k) PROVE MonTypeOK'
    <2>1. next_id \in 0 .. MaxId /\ k \in Key  BY <1>1 DEF ItemAdd, MonTypeOK, Key
    <2>2. PICK i \in Items : /\ items' = [items EXCEPT ![i].id = next_id, ![i].key = k]
                             /\ pos' = i
        BY <1>1 DEF ItemAdd, AllocItem
    <2>3. items' \in [Items -> Item]  BY <1>0, <2>1, <2>2 DEF Item
    <2>4. /\ next_id' \in 1 .. MaxId + 1 /\ pos' \in 1 .. ItemNumber + 1
          /\ mpc' = "add" /\ UNCHANGED <<killed, want>>
        BY <1>1, <2>2 DEF ItemAdd, MonTypeOK, Items
    <2> QED  BY <2>3, <2>4 DEF MonTypeOK, Item, Key
<1>2. ASSUME NEW id \in 1 .. MaxId, ItemDel(id) PROVE MonTypeOK'
    BY <1>2, SMTT(60) DEF ItemDel, FindById, Walked, MonTypeOK, Items
<1>3. ASSUME NEW id \in 1 .. MaxId, NEW s \in {"stop", "start"}, SetState(id, s) PROVE MonTypeOK'
    <2>1. PICK i \in Items : items' = [items EXCEPT ![i].state = s]
        BY <1>3 DEF SetState, FindById, Walked
    <2>2. items' \in [Items -> Item]  BY <1>0, <2>1 DEF Item
    <2> QED  BY <1>3, <2>2 DEF SetState, MonTypeOK, Item, Key
<1>4. CASE ItemStart
    <2>1. pos \in Items /\ items[pos].id \in 1 .. MaxId
        BY <1>0, <1>4 DEF ItemStart, Step, Item, NoId
    <2>2. items' \in [Items -> Item]  BY <1>0, <1>4, <2>1 DEF ItemStart, Item
    <2>3. DOMAIN want' \subseteq 1 .. MaxId  BY <1>4, <2>1 DEF ItemStart, MonTypeOK
    <2> QED  BY <1>4, <2>2, <2>3 DEF ItemStart, MonTypeOK, Item, Key
<1>5. CASE MoveItem
    BY <1>5 DEF MoveItem, More, MonTypeOK, Items, Step, InUse
<1>6. CASE MoveState
    <2>1. pos \in Items /\ pos - 1 \in Items  BY <1>6 DEF MoveState, Step, InUse
    <2>2. items' \in [Items -> Item]  BY <1>0, <1>6, <2>1 DEF MoveState, Item
    <2> QED  BY <1>6, <2>1, <2>2, SMTT(60) DEF MoveState, MonTypeOK, Item, Key, Items
<1>7. CASE ClearItem
    <2>1. pos - 1 \in Items  BY <1>7 DEF ClearItem, Step, InUse
    <2>2. items[pos - 1].key.type \in 0 .. 3
        BY <2>1 DEF MonTypeOK, NoKey
    <2> QED  BY <1>7, <2>1, <2>2, SMTT(60) DEF ClearItem, MonTypeOK, NoId
<1>8. CASE ClearState
    BY <1>8 DEF ClearState, MonTypeOK, Items, Step, InUse
<1>9. CASE ToolKilled
    BY <1>9 DEF ToolKilled, MonTypeOK
<1> QED  BY <1>1, <1>2, <1>3, <1>4, <1>5, <1>6, <1>7, <1>8, <1>9 DEF MonNext

\* Each store of a command keeps the items in use first, and what is to be kept elsewhere.
LEMMA MonStepInv ==
    ASSUME MonInv, MonNext
    PROVE  (Prefix /\ Step /\ KeptAside)'
<1> USE MonAssumption DEF MonInv
<1> Walked = InUse  BY WalkedInUse
<1> ItemNumber \in Nat  OBVIOUS
<1>1. ASSUME NEW k \in Watch, ItemAdd(k) PROVE (Prefix /\ Step /\ KeptAside)'
    <2>1. PICK i \in AllocItem :
              /\ items' = [items EXCEPT ![i].id = next_id, ![i].key = k]
              /\ mpc' = "add" /\ pos' = i
        BY <1>1 DEF ItemAdd
    <2>2. i \in Items \ InUse /\ 1 .. i - 1 \subseteq InUse
        BY <2>1 DEF AllocItem, InUse, Items
    <2>3. InUse' = InUse
        BY <2>1, <2>2, SameInUse DEF MonTypeOK
    <2>4. items'[i].id # NoId
        BY <1>1, <2>1, <2>2 DEF ItemAdd, MonTypeOK, NoId
    <2>5. Prefix' /\ Step'
        BY <2>1, <2>2, <2>3, <2>4 DEF Prefix, Step
    <2>6. \A j \in InUse : items'[j] = items[j]
        BY <2>1, <2>2 DEF MonTypeOK, InUse
    <2>7. KeptAside'
        <3>1. Spare = {} /\ Spare' = {} /\ want' = want
            BY <1>1, <2>1 DEF Spare, ItemAdd
        <3> QED  BY <2>3, <2>6, <3>1 DEF KeptAside
    <2> QED  BY <2>5, <2>7
<1>2. ASSUME NEW id \in 1 .. MaxId, ItemDel(id) PROVE (Prefix /\ Step /\ KeptAside)'
    <2>1. PICK i \in FindById(id) : pos' = i + 1  BY <1>2 DEF ItemDel
    <2>2. i \in InUse /\ i \in Int /\ items[i].id = id  BY <2>1 DEF FindById, InUse, Items
    <2>3. InUse' = InUse  BY <1>2 DEF ItemDel, InUse
    <2>4. Prefix' /\ Step'
        BY <1>2, <2>1, <2>2, <2>3 DEF ItemDel, Prefix, Step
    <2>5. Spare' = {i} /\ Spare = {}
        BY <1>2, <2>1, <2>2 DEF ItemDel, Spare
    <2>6. KeptAside'
        BY <1>2, <2>2, <2>3, <2>5 DEF KeptAside, ItemDel
    <2> QED  BY <2>4, <2>6
<1>3. ASSUME NEW id \in 1 .. MaxId, NEW s \in {"stop", "start"}, SetState(id, s)
      PROVE  (Prefix /\ Step /\ KeptAside)'
    <2>1. PICK i \in FindById(id) : items' = [items EXCEPT ![i].state = s]
        BY <1>3 DEF SetState
    <2>2. i \in InUse  BY <2>1 DEF FindById
    <2>3. InUse' = InUse
        BY <2>1, <2>2 DEF InUse, MonTypeOK
    <2>4. \A j \in Items : items'[j].id = items[j].id /\ items'[j].key = items[j].key
        BY <2>1 DEF MonTypeOK
    <2>5. mpc' = "idle" /\ mpc = "idle" /\ want' = want
        BY <1>3 DEF SetState
    <2>6. Prefix' /\ Step'
        BY <2>3, <2>5 DEF Prefix, Step
    <2>7. KeptAside'
        BY <2>3, <2>4, <2>5 DEF KeptAside, Spare, InUse
    <2> QED  BY <2>6, <2>7
<1>4. CASE ItemStart
    <2>1. pos \in Items /\ pos \notin InUse /\ mpc = "add" /\ mpc' = "idle" /\ pos' = pos
        BY <1>4 DEF ItemStart, Step
    <2>2. items' = [items EXCEPT ![pos].state = "start"]
        BY <1>4 DEF ItemStart
    <2>3. InUse' = InUse \union {pos}
        BY <2>1, <2>2 DEF InUse, MonTypeOK
    <2>4. \A j \in Items : items'[j].id = items[j].id /\ items'[j].key = items[j].key
        BY <2>2 DEF MonTypeOK
    <2>5. Prefix'
        BY <2>1, <2>3 DEF Prefix, Step, InUse, Items
    <2>6. Step'
        BY <2>1 DEF Step
    <2>7. ASSUME NEW id \in DOMAIN want'
          PROVE  \E i \in InUse' : items'[i].id = id /\ items'[i].key = want'[id]
        <3>1. CASE id = items[pos].id
            BY <1>4, <2>1, <2>3, <2>4, <3>1 DEF ItemStart
        <3>2. CASE id # items[pos].id
            <4>1. id \in DOMAIN want /\ want'[id] = want[id]
                BY <1>4, <2>7, <3>2 DEF ItemStart
            <4>2. PICK i \in InUse : items[i].id = id /\ items[i].key = want[id]
                BY <4>1 DEF KeptAside
            <4> QED  BY <2>3, <2>4, <4>1, <4>2 DEF InUse
        <3> QED  BY <3>1, <3>2
    <2>8. KeptAside'
        BY <2>1, <2>7 DEF KeptAside, Spare
    <2> QED  BY <2>5, <2>6, <2>8
<1>5. CASE MoveItem
    <2>1. /\ pos \in InUse /\ pos - 1 \in InUse /\ pos \in Int
          /\ mpc = "move" /\ mpc' = "copied" /\ pos' = pos /\ want' = want
        BY <1>5 DEF MoveItem, More, Step, InUse, Items
    <2>2. items' = [items EXCEPT ![pos - 1].id = items[pos].id, ![pos - 1].key = items[pos].key]
        BY <1>5 DEF MoveItem
    <2>3. InUse' = InUse
        BY <2>2, SameInUse DEF MonTypeOK
    <2>4. \A j \in Items \ {pos - 1} : items'[j] = items[j]
        BY <2>2 DEF MonTypeOK
    <2>5. items'[pos - 1].id = items[pos].id /\ items'[pos - 1].key = items[pos].key
        BY <2>1, <2>2 DEF MonTypeOK, InUse
    <2>6. Prefix' /\ Step'
        BY <2>1, <2>3, <2>4, <2>5 DEF Prefix, Step, InUse
    <2>7. KeptAside'
        BY <2>1, <2>3, <2>4 DEF KeptAside, Spare, InUse
    <2> QED  BY <2>6, <2>7
<1>6. CASE MoveState
    <2>1. /\ pos \in InUse /\ pos - 1 \in InUse /\ pos \in Int
          /\ mpc = "copied" /\ mpc' = "move" /\ pos' = pos + 1 /\ want' = want
          /\ items[pos - 1].id = items[pos].id /\ items[pos - 1].key = items[pos].key
        BY <1>6 DEF MoveState, Step, InUse, Items
    <2>2. items' = [items EXCEPT ![pos - 1].state = items[pos].state]
        BY <1>6 DEF MoveState
    <2>3. InUse' = InUse
        BY <2>1, <2>2 DEF InUse, MonTypeOK
    <2>4. \A j \in Items : items'[j].id = items[j].id /\ items'[j].key = items[j].key
        BY <2>2 DEF MonTypeOK
    <2>5. Prefix' /\ Step'
        BY <2>1, <2>3 DEF Prefix, Step
    <2>6. Spare = {pos - 1} /\ Spare' = {pos}
        BY <2>1 DEF Spare
    <2>7. KeptAside'
        <3> SUFFICES ASSUME NEW id \in DOMAIN want
                     PROVE  \E i \in InUse : i # pos /\ items[i].id = id /\ items[i].key = want[id]
            BY <2>1, <2>3, <2>4, <2>6 DEF KeptAside, InUse
        <3>1. PICK i \in InUse : items[i].id = id /\ items[i].key = want[id]
            BY DEF KeptAside
        <3>2. CASE i = pos  BY <2>1, <3>1, <3>2
        <3>3. CASE i # pos  BY <3>1, <3>3
        <3> QED  BY <3>2, <3>3
    <2> QED  BY <2>5, <2>7
<1>7. CASE ClearItem
    <2>1. /\ pos - 1 \in InUse /\ pos \notin InUse
          /\ mpc = "move" /\ mpc' = "clear" /\ pos' = pos /\ want' = want
        BY <1>7 DEF ClearItem, More, Step, InUse
    <2>2. items' = [items EXCEPT ![pos - 1].id = NoId,
                                 ![pos - 1].key = [NoKey EXCEPT !.type = items[pos - 1].key.type]]
        BY <1>7 DEF ClearItem
    <2>3. InUse' = InUse
        BY <2>2, SameInUse DEF MonTypeOK
    <2>4. \A j \in Items \ {pos - 1} : items'[j] = items[j]
        BY <2>2 DEF MonTypeOK
    <2>5. Prefix' /\ Step'
        BY <2>1, <2>3 DEF Prefix, Step
    <2>6. KeptAside'
        BY <2>1, <2>3, <2>4 DEF KeptAside, Spare, InUse
    <2> QED  BY <2>5, <2>6
<1>8. CASE ClearState
    <2>1. /\ pos - 1 \in InUse /\ pos \notin InUse /\ pos \in Int
          /\ mpc = "clear" /\ mpc' = "idle" /\ pos' = pos /\ want' = want
        BY <1>8 DEF ClearState, Step, MonTypeOK
    <2>2. items' = [items EXCEPT ![pos - 1].state = "init"]
        BY <1>8 DEF ClearState
    <2>3. InUse' = InUse \ {pos - 1}
        BY <2>1, <2>2 DEF InUse, MonTypeOK
    <2>4. \A j \in Items \ {pos - 1} : items'[j] = items[j]
        BY <2>2 DEF MonTypeOK
    <2>5. \A j \in InUse : j < pos
        BY <2>1 DEF Prefix, InUse, Items, MonTypeOK
    <2>6. Prefix' /\ Step'
        BY <2>1, <2>3, <2>5 DEF Prefix, Step, InUse, Items
    <2>7. KeptAside'
        BY <2>1, <2>3, <2>4 DEF KeptAside, Spare, InUse
    <2> QED  BY <2>6, <2>7
<1>9. CASE ToolKilled
    <2>1. mpc' = "idle" /\ UNCHANGED <<items, pos, want>>  BY <1>9 DEF ToolKilled
    <2>2. InUse' = InUse  BY <2>1 DEF InUse
    <2> QED  BY <2>1, <2>2 DEF Prefix, Step, KeptAside, Spare
<1> QED  BY <1>1, <1>2, <1>3, <1>4, <1>5, <1>6, <1>7, <1>8, <1>9 DEF MonNext

\* The invariant holds in every state of the specification.
THEOREM MonInvariant == MonSpec => []MonInv
<1>1. MonInv /\ [MonNext]_monVars => MonInv'
    <2>1. CASE MonNext  BY <2>1, MonTypeStep, MonStepInv DEF MonInv
    <2>2. CASE UNCHANGED monVars
        BY <2>2 DEF monVars, MonInv, MonTypeOK, Prefix, Step, KeptAside, Spare, InUse, Items
    <2> QED  BY <2>1, <2>2
<1> QED  BY <1>1, MonInitInv, PTL DEF MonSpec

\* Slots, program counter and history of the table stay in their ranges.
THEOREM MonTypeCorrect == MonSpec => []MonTypeOK
<1>1. MonInv => MonTypeOK  BY DEF MonInv
<1> QED  BY <1>1, MonInvariant, PTL

\* Whatever another process reads between two stores of a delete, and whatever a killed tool
\* leaves behind, each item that is to be kept is reached by the walks and has its addresses.
THEOREM MonItemsKept == MonSpec => []ItemsKept
<1>1. MonInv => ItemsKept
    BY WalkedInUse, MonAssumption DEF MonInv, KeptAside, ItemsKept
<1> QED  BY <1>1, MonInvariant, PTL

-----------------------------------------------------------------------------
(***************************************************************************)
(* Without kills.  The items in use but the spare one hold what is wanted, *)
(* each once and in the order of the ids; an id given out is a new one.    *)
(***************************************************************************)
Wanted == Cardinality(DOMAIN want)
Deleting == mpc \in {"move", "copied", "clear"}

InOrder ==
    /\ \A i, j \in InUse \ Spare : i < j => items[i].id < items[j].id
    /\ \A i \in InUse \ Spare : items[i].id \in DOMAIN want

FreshId ==
    /\ mpc # "add" => \A id \in DOMAIN want : id < next_id
    /\ mpc = "add" => items[pos].id = next_id - 1 /\ \A id \in DOMAIN want : id < next_id - 1

Filled ==
    /\ ~Deleting => InUse = 1 .. Wanted
    /\ Deleting => InUse = 1 .. Wanted + 1

Exact == ~killed => InOrder /\ FreshId /\ Filled

\* The invariant behind TableExact.
ExactInv == MonInv /\ Exact

\* The ids that are wanted are finitely many: one more or one less changes their number by one.
LEMMA WantedFinite ==
    ASSUME MonTypeOK
    PROVE  IsFiniteSet(DOMAIN want) /\ Wanted \in Nat
<1>1. IsFiniteSet(1 .. MaxId)  BY FS_Interval, MonAssumption
<1>2. IsFiniteSet(DOMAIN want)  BY <1>1, FS_Subset DEF MonTypeOK
<1> QED  BY <1>2, FS_CardinalityType DEF Wanted

\* A step that is not a kill, in a history without kills, keeps the table exact.
LEMMA ExactStep ==
    ASSUME MonInv, MonInv', Exact, MonNext
    PROVE  Exact'
<1> USE MonAssumption DEF MonInv
<1> Walked = InUse  BY WalkedInUse
<1>0. CASE killed \/ ToolKilled
    <2>1. killed => killed'
        BY Zenon DEF MonNext, ToolKilled, ItemAdd, ItemDel, SetState, ItemStart, MoveItem,
                     MoveState, ClearItem, ClearState
    <2>2. ToolKilled => killed'  BY DEF ToolKilled
    <2> QED  BY <1>0, <2>1, <2>2 DEF Exact
<1> SUFFICES ASSUME ~killed, ~ToolKilled, InOrder, FreshId, Filled
             PROVE  (InOrder /\ FreshId /\ Filled)'
    BY <1>0 DEF Exact
<1>a. Wanted \in Nat /\ IsFiniteSet(DOMAIN want)  BY WantedFinite
<1>b. next_id \in Int /\ DOMAIN want \subseteq Int /\ pos \in Int  BY DEF MonTypeOK
<1>1. ASSUME NEW k \in Watch, ItemAdd(k) PROVE (InOrder /\ FreshId /\ Filled)'
    <2>1. PICK i \in AllocItem :
              /\ items' = [items EXCEPT ![i].id = next_id, ![i].key = k]
              /\ mpc = "idle" /\ mpc' = "add" /\ pos' = i
              /\ next_id' = next_id + 1 /\ want' = want
        BY <1>1 DEF ItemAdd
    <2>2. i \in Items \ InUse  BY <2>1 DEF AllocItem, InUse
    <2>3. InUse' = InUse  BY <2>1, <2>2, SameInUse DEF MonTypeOK
    <2>4. \A j \in InUse : items'[j] = items[j]  BY <2>1, <2>2 DEF MonTypeOK, InUse
    <2>5. items'[i].id = next_id  BY <2>1, <2>2 DEF MonTypeOK
    <2>6. Spare = {} /\ Spare' = {}  BY <2>1 DEF Spare
    <2>7. InOrder'  BY <2>1, <2>3, <2>4, <2>6, ZenonT(60) DEF InOrder
    <2>8. FreshId'  BY <1>b, <2>1, <2>5 DEF FreshId
    <2>9. Filled'  BY <2>1, <2>3 DEF Filled, Deleting, Wanted
    <2> QED  BY <2>7, <2>8, <2>9
<1>2. ASSUME NEW id \in 1 .. MaxId, ItemDel(id) PROVE (InOrder /\ FreshId /\ Filled)'
    <2>1. PICK i \in FindById(id) : pos' = i + 1  BY <1>2 DEF ItemDel
    <2>2. i \in InUse /\ i \in Int /\ items[i].id = id  BY <2>1 DEF FindById, InUse, Items
    <2>3. /\ mpc = "idle" /\ mpc' = "move" /\ UNCHANGED <<items, next_id>>
          /\ DOMAIN want' = DOMAIN want \ {id} /\ InUse' = InUse
        BY <1>2 DEF ItemDel, InUse
    <2>4. Spare = {} /\ Spare' = {i}  BY <2>1, <2>2, <2>3 DEF Spare
    <2>5. \A j \in InUse \ {i} : items[j].id # id
        <3>1. \A j \in InUse : j \in Int /\ items[j].id \in Int  BY DEF InUse, Items, MonTypeOK
        <3> QED  BY <2>2, <2>4, <3>1 DEF InOrder
    <2>6. InOrder'  BY <2>3, <2>4, <2>5 DEF InOrder
    <2>7. FreshId'  BY <2>3 DEF FreshId
    <2>8. id \in DOMAIN want  BY <2>2, <2>4 DEF InOrder
    <2>9. Wanted' = Wanted - 1
        BY <1>a, <2>3, <2>8, FS_RemoveElement DEF Wanted
    <2>10. Filled'  BY <1>a, <2>3, <2>9 DEF Filled, Deleting
    <2> QED  BY <2>6, <2>7, <2>10
<1>3. ASSUME NEW id \in 1 .. MaxId, NEW s \in {"stop", "start"}, SetState(id, s)
      PROVE  (InOrder /\ FreshId /\ Filled)'
    <2>1. PICK i \in FindById(id) : items' = [items EXCEPT ![i].state = s]
        BY <1>3 DEF SetState
    <2>2. i \in InUse  BY <2>1 DEF FindById
    <2>3. InUse' = InUse  BY <2>1, <2>2 DEF InUse, MonTypeOK
    <2>4. \A j \in Items : items'[j].id = items[j].id  BY <2>1 DEF MonTypeOK
    <2>5. mpc' = "idle" /\ mpc = "idle" /\ UNCHANGED <<want, next_id>>  BY <1>3 DEF SetState
    <2>6. InOrder'  BY <2>3, <2>4, <2>5 DEF InOrder, Spare, InUse
    <2> QED  BY <2>3, <2>5, <2>6 DEF FreshId, Filled, Deleting, Wanted
<1>4. CASE ItemStart
    <2>1. /\ pos \in Items \ InUse /\ mpc = "add" /\ mpc' = "idle"
          /\ 1 .. pos - 1 \subseteq InUse /\ next_id' = next_id
        BY <1>4 DEF ItemStart, Step
    <2>2. items' = [items EXCEPT ![pos].state = "start"]  BY <1>4 DEF ItemStart
    <2>3. InUse' = InUse \union {pos}  BY <2>1, <2>2 DEF InUse, MonTypeOK
    <2>4. \A j \in Items : items'[j].id = items[j].id  BY <2>2 DEF MonTypeOK
    <2>5. DOMAIN want' = DOMAIN want \union {items[pos].id}  BY <1>4 DEF ItemStart
    <2>6. items[pos].id = next_id - 1 /\ \A id \in DOMAIN want : id < items[pos].id
        BY <2>1 DEF FreshId
    <2>7. Spare = {} /\ Spare' = {}  BY <2>1 DEF Spare
    <2>8. InUse = 1 .. Wanted  BY <2>1 DEF Filled, Deleting
    <2>9. pos = Wanted + 1  BY <1>a, <2>1, <2>8 DEF Items
    <2>10. Wanted' = Wanted + 1
        <3>1. items[pos].id \notin DOMAIN want  BY <1>b, <2>6
        <3> QED  BY <1>a, <2>5, <3>1, FS_AddElement DEF Wanted
    <2>11. Filled'  BY <1>a, <2>1, <2>3, <2>8, <2>9, <2>10 DEF Filled, Deleting
    <2>12. FreshId'  BY <1>b, <2>1, <2>5, <2>6 DEF FreshId
    <2>13. \A j \in InUse : j < pos /\ items[j].id < items[pos].id
        BY <1>a, <2>6, <2>7, <2>8, <2>9 DEF InOrder
    <2>14. InOrder'
        BY <2>1, <2>3, <2>4, <2>5, <2>7, <2>13 DEF InOrder, InUse, Items
    <2> QED  BY <2>11, <2>12, <2>14
<1>5. CASE MoveItem
    <2>1. mpc = "move" /\ mpc' = "copied" /\ UNCHANGED <<pos, want, next_id>>
        BY <1>5 DEF MoveItem
    <2>2. items' = [items EXCEPT ![pos - 1].id = items[pos].id, ![pos - 1].key = items[pos].key]
        BY <1>5 DEF MoveItem
    <2>3. InUse' = InUse  BY <2>2, SameInUse DEF MonTypeOK
    <2>4. \A j \in Items \ {pos - 1} : items'[j] = items[j]  BY <2>2 DEF MonTypeOK
    <2>5. InOrder'  BY <2>1, <2>3, <2>4 DEF InOrder, Spare, InUse
    <2> QED  BY <2>1, <2>3, <2>5 DEF FreshId, Filled, Deleting, Wanted
<1>6. CASE MoveState
    <2>1. /\ mpc = "copied" /\ mpc' = "move" /\ pos' = pos + 1 /\ UNCHANGED <<want, next_id>>
          /\ pos \in InUse /\ pos - 1 \in InUse
          /\ items[pos - 1].id = items[pos].id
        BY <1>6 DEF MoveState, Step
    <2>2. items' = [items EXCEPT ![pos - 1].state = items[pos].state]  BY <1>6 DEF MoveState
    <2>3. InUse' = InUse  BY <2>1, <2>2 DEF InUse, MonTypeOK
    <2>4. \A j \in Items : items'[j].id = items[j].id  BY <2>2 DEF MonTypeOK
    <2>5. Spare = {pos - 1} /\ Spare' = {pos}  BY <1>b, <2>1 DEF Spare
    <2>6. \A j \in InUse : j \in Int /\ items[j].id \in Int  BY DEF InUse, Items, MonTypeOK
    <2>7. ASSUME NEW i \in InUse \ {pos}, NEW j \in InUse \ {pos}, i < j
          PROVE  items[i].id < items[j].id
        <3>1. CASE i = pos - 1
            <4>1. pos < j  BY <1>b, <2>6, <2>7, <3>1
            <4> QED  BY <1>b, <2>1, <2>5, <2>6, <3>1, <4>1 DEF InOrder
        <3>2. CASE j = pos - 1
            <4>1. i < pos /\ i # pos - 1  BY <1>b, <2>6, <2>7, <3>2
            <4>2. pos # pos - 1  BY <1>b
            <4> QED  BY <1>b, <2>1, <2>5, <2>6, <3>2, <4>1, <4>2 DEF InOrder
        <3>3. CASE i # pos - 1 /\ j # pos - 1
            BY <2>5, <2>7, <3>3 DEF InOrder
        <3> QED  BY <3>1, <3>2, <3>3
    <2>8. \A i \in InUse \ {pos} : items[i].id \in DOMAIN want
        BY <1>b, <2>1, <2>5 DEF InOrder
    <2>9. InOrder'  BY <2>1, <2>3, <2>4, <2>5, <2>7, <2>8 DEF InOrder, InUse
    <2> QED  BY <2>1, <2>3, <2>9 DEF FreshId, Filled, Deleting, Wanted
<1>7. CASE ClearItem
    <2>1. mpc = "move" /\ mpc' = "clear" /\ UNCHANGED <<pos, want, next_id>>
        BY <1>7 DEF ClearItem
    <2>2. items' = [items EXCEPT ![pos - 1].id = NoId,
                                 ![pos - 1].key = [NoKey EXCEPT !.type = items[pos - 1].key.type]]
        BY <1>7 DEF ClearItem
    <2>3. InUse' = InUse  BY <2>2, SameInUse DEF MonTypeOK
    <2>4. \A j \in Items \ {pos - 1} : items'[j] = items[j]  BY <2>2 DEF MonTypeOK
    <2>5. InOrder'  BY <2>1, <2>3, <2>4 DEF InOrder, Spare, InUse
    <2> QED  BY <2>1, <2>3, <2>5 DEF FreshId, Filled, Deleting, Wanted
<1>8. CASE ClearState
    <2>1. /\ mpc = "clear" /\ mpc' = "idle" /\ UNCHANGED <<pos, want, next_id>>
          /\ pos - 1 \in InUse /\ pos \notin InUse
        BY <1>8 DEF ClearState, Step
    <2>2. items' = [items EXCEPT ![pos - 1].state = "init"]  BY <1>8 DEF ClearState
    <2>3. InUse' = InUse \ {pos - 1}  BY <2>1, <2>2 DEF InUse, MonTypeOK
    <2>4. \A j \in Items \ {pos - 1} : items'[j] = items[j]  BY <2>2 DEF MonTypeOK
    <2>5. Spare = {pos - 1} /\ Spare' = {}  BY <2>1 DEF Spare
    <2>6. InOrder'  BY <2>1, <2>3, <2>4, <2>5 DEF InOrder, InUse
    <2>7. InUse = 1 .. Wanted + 1  BY <2>1 DEF Filled, Deleting
    <2>8. pos - 1 = Wanted + 1  BY <1>a, <1>b, <2>1, <2>7
    <2>9. Filled'  BY <1>a, <2>1, <2>3, <2>7, <2>8 DEF Filled, Deleting, Wanted
    <2> QED  BY <2>1, <2>6, <2>9 DEF FreshId
<1> QED  BY <1>1, <1>2, <1>3, <1>4, <1>5, <1>6, <1>7, <1>8 DEF MonNext

\* Between two commands of which none was killed, the table holds each item that was added
\* and not deleted once, in the order they were added, and nothing else.
THEOREM MonTableExact == MonSpec => []TableExact
<1>1. MonInit => Exact
    <2> SUFFICES ASSUME MonInit PROVE InOrder /\ FreshId /\ Filled  BY DEF Exact
    <2>1. InUse = {} /\ DOMAIN want = {}  BY DEF MonInit, InUse
    <2>2. Wanted = 0  BY <2>1, FS_EmptySet DEF Wanted
    <2> QED  BY <2>1, <2>2 DEF MonInit, InOrder, FreshId, Filled, Deleting
<1>2. ExactInv /\ MonInv' /\ [MonNext]_monVars => Exact'
    <2>1. CASE MonNext  BY <2>1, ExactStep DEF ExactInv
    <2>2. CASE UNCHANGED monVars
        BY <2>2 DEF monVars, ExactInv, Exact, InOrder, FreshId, Filled, Deleting, Wanted, Spare,
                    InUse, Items
    <2> QED  BY <2>1, <2>2
<1>3. ExactInv => TableExact
    <2> SUFFICES ASSUME ExactInv, mpc = "idle", ~killed
                 PROVE  /\ InUse = 1 .. Wanted
                        /\ \A i, j \in Walked : i < j => items[i].id < items[j].id
                        /\ \A i \in Walked : items[i].id \in DOMAIN want
        BY DEF TableExact, InUse, Wanted
    <2>1. Walked = InUse  BY WalkedInUse, MonAssumption DEF ExactInv, MonInv
    <2> QED  BY <2>1 DEF ExactInv, Exact, InOrder, Filled, Deleting, Spare
<1> QED  BY <1>1, <1>2, <1>3, MonInvariant, PTL DEF MonSpec, ExactInv

(***************************************************************************)
(* StatPool.                                                               *)
(***************************************************************************)
Holding(r) == rx[r].pc \in {"put", "enqueue"}

\* No entry is in a queue twice.
Once(q) == \A i, j \in DOMAIN q : q[i] = q[j] => i = j

\* The configuration, and which tasks and entries the steps are about.
Steps ==
    /\ use_task \in BOOLEAN /\ tasks \in SUBSET RxTasks /\ cap \in Nat
    /\ \A r \in RxTasks : rx[r].pc # "idle" => r \in tasks
    /\ \A r \in RxTasks : Holding(r) => rx[r].entry \in Entries
    /\ stat.pc # "idle" => stat.entry \in Entries

\* Every entry is in at most one place.
Apart ==
    /\ Once(mpool) /\ Once(ring)
    /\ Queued(mpool) \cap Queued(ring) = {}
    /\ InHand \cap (Queued(mpool) \union Queued(ring)) = {}
    /\ \A r, s \in RxTasks : Holding(r) /\ Holding(s) /\ rx[r].entry = rx[s].entry => r = s
    /\ \A r \in RxTasks : Holding(r) /\ stat.pc = "free" => rx[r].entry # stat.entry

\* The space a single receive task found is still there when it enqueues.
Room == Cardinality(tasks) = 1 => \A r \in RxTasks : rx[r].pc = "enqueue" => Len(ring) < cap

\* No entry is lost.
Cover ==
    Cardinality(tasks) = 1 \/ PoolSize <= cap =>
        Queued(mpool) \union Queued(ring) \union InHand = Entries

\* The inductive invariant behind StatKept.
StatInv == StatTypeOK /\ Steps /\ Apart /\ Room /\ Cover

-----------------------------------------------------------------------------
\* What enqueuing at the end does to the entries of a queue.
LEMMA QueuedAppend ==
    ASSUME NEW q \in Seq(Entries), NEW e \in Entries
    PROVE  /\ Queued(Append(q, e)) = Queued(q) \union {e}
           /\ Once(q) /\ e \notin Queued(q) => Once(Append(q, e))
<1>1. /\ Append(q, e) \in Seq(Entries) /\ Len(Append(q, e)) = Len(q) + 1
      /\ \A i \in 1 .. Len(q) : Append(q, e)[i] = q[i]
      /\ Append(q, e)[Len(q) + 1] = e
    OBVIOUS
<1>2. DOMAIN Append(q, e) = DOMAIN q \union {Len(q) + 1} /\ DOMAIN q = 1 .. Len(q)
    OBVIOUS
<1> QED  BY <1>1, <1>2 DEF Queued, Once

\* What dequeuing at the front does to the entries of a queue.
LEMMA QueuedTail ==
    ASSUME NEW q \in Seq(Entries), q # <<>>
    PROVE  /\ Head(q) \in Entries /\ Head(q) \in Queued(q)
           /\ Tail(q) \in Seq(Entries) /\ Len(Tail(q)) = Len(q) - 1
           /\ \A i \in 1 .. Len(q) - 1 : Tail(q)[i] = q[i + 1]
           /\ Once(q) => Queued(Tail(q)) = Queued(q) \ {Head(q)} /\ Once(Tail(q))
<1>1. /\ Head(q) = q[1] /\ Len(q) \in Nat \ {0} /\ DOMAIN q = 1 .. Len(q)
      /\ Tail(q) \in Seq(Entries) /\ Len(Tail(q)) = Len(q) - 1
      /\ DOMAIN Tail(q) = 1 .. Len(q) - 1
      /\ \A i \in 1 .. Len(q) - 1 : Tail(q)[i] = q[i + 1]
    OBVIOUS
<1>2. Head(q) \in Queued(q) /\ Head(q) \in Entries  BY <1>1 DEF Queued
<1>3. ASSUME Once(q) PROVE Once(Tail(q))  BY <1>1, <1>3 DEF Once
<1>4. ASSUME Once(q) PROVE Queued(Tail(q)) = Queued(q) \ {Head(q)}
    <2>1. ASSUME NEW e \in Queued(Tail(q)) PROVE e \in Queued(q) /\ e # Head(q)
        <3>1. PICK i \in 1 .. Len(q) - 1 : e = q[i + 1]  BY <1>1, <2>1 DEF Queued
        <3> QED  BY <1>1, <1>4, <3>1 DEF Queued, Once
    <2>2. ASSUME NEW e \in Queued(q), e # Head(q) PROVE e \in Queued(Tail(q))
        <3>1. PICK i \in 1 .. Len(q) : e = q[i]  BY <1>1, <2>2 DEF Queued
        <3>2. i - 1 \in 1 .. Len(q) - 1 /\ (i - 1) + 1 = i  BY <1>1, <2>2, <3>1
        <3> QED  BY <1>1, <3>1, <3>2 DEF Queued
    <2> QED  BY <2>1, <2>2
<1> QED  BY <1>1, <1>2, <1>3, <1>4

\* A queue without repetitions is as long as the set of its entries is large.
LEMMA QueuedCardinality ==
    ASSUME NEW q \in Seq(Entries), Once(q)
    PROVE  /\ Queued(q) \subseteq Entries /\ IsFiniteSet(Queued(q))
           /\ Cardinality(Queued(q)) = Len(q)
<1>1. Len(q) \in Nat /\ DOMAIN q = 1 .. Len(q)  OBVIOUS
<1>2. Queued(q) \subseteq Entries  BY <1>1 DEF Queued
<1>3. q \in Bijection(1 .. Len(q), Queued(q))
    <2>1. q \in [1 .. Len(q) -> Queued(q)]  BY <1>1 DEF Queued
    <2>2. q \in Injection(1 .. Len(q), Queued(q))  BY <1>1, <2>1 DEF Injection, Once, IsInjective
    <2>3. q \in Surjection(1 .. Len(q), Queued(q))  BY <1>1, <2>1 DEF Surjection, Queued
    <2> QED  BY <2>2, <2>3 DEF Bijection
<1>4. ExistsBijection(1 .. Len(q), Queued(q))  BY <1>3 DEF ExistsBijection
<1>5. IsFiniteSet(Entries)  BY FS_Interval, StatAssumption DEF Entries
<1> QED  BY <1>1, <1>2, <1>4, <1>5, FS_CountingElements, FS_Subset

\* An entry is in hand when a receive task or the statistics task has it.
LEMMA InHandDef ==
    ASSUME NEW e
    PROVE  e \in InHand <=> \/ \E r \in RxTasks : Holding(r) /\ rx[r].entry = e
                            \/ stat.pc = "free" /\ stat.entry = e
BY DEF InHand, Holding

\* Steps that leave every task with what it holds leave the same entries in hand.
LEMMA InHandSame ==
    ASSUME \A r \in RxTasks : Holding(r)' = Holding(r) /\ (Holding(r) => rx'[r].entry = rx[r].entry),
           (stat.pc = "free")' = (stat.pc = "free"), stat.pc = "free" => stat'.entry = stat.entry
    PROVE  InHand' = InHand
BY DEF InHand, Holding

-----------------------------------------------------------------------------
\* Times, queues and steps stay in their ranges, and entries in hand are entries.
LEMMA TypeStep ==
    ASSUME StatTypeOK, Steps, StatNext
    PROVE  (StatTypeOK /\ Steps)'
<1> USE StatAssumption
<1> DEFINE Rx == [pc : {"idle", "update", "reset", "put", "enqueue"},
                  time : 0 .. MaxTime, entry : Entries \union {NoEntry}]
<1>0. rx \in [RxTasks -> Rx] /\ Len(ring) \in Nat
    BY DEF StatTypeOK
<1>1. CASE Tick
    BY <1>1 DEF Tick, statConf, StatTypeOK, Steps, Holding
<1>2. CASE StatDequeue
    <2>1. ring \in Seq(Entries) /\ ring # <<>>  BY <1>2 DEF StatDequeue, StatTypeOK
    <2>2. Head(ring) \in Entries /\ Tail(ring) \in Seq(Entries) /\ Len(Tail(ring)) <= Len(ring)
        BY <1>0, <2>1, QueuedTail
    <2>3. ring' \in Seq(Entries) /\ Len(ring') <= cap
        BY <1>0, <1>2, <2>2 DEF StatDequeue, StatTypeOK, Steps
    <2> QED  BY <1>2, <2>2, <2>3 DEF StatDequeue, statConf, StatTypeOK, Steps, Holding
<1>3. CASE StatFree
    <2>1. stat.entry \in Entries  BY <1>3 DEF StatFree, Steps
    <2>2. mpool' \in Seq(Entries)  BY <1>3, <2>1 DEF StatFree, StatTypeOK
    <2>3. stat'.pc = "update" /\ stat'.entry = stat.entry
        BY <1>3 DEF StatFree, StatTypeOK
    <2>4. stat' \in [pc : {"idle", "free", "update"}, entry : Entries \union {NoEntry}]
        BY <1>3, <2>1 DEF StatFree, StatTypeOK
    <2> QED  BY <1>3, <2>1, <2>2, <2>3, <2>4 DEF StatFree, statConf, StatTypeOK, Steps, Holding
<1>4. CASE StatUpdate
    <2>1. base_time' \in 0 .. MaxTime  BY <1>4 DEF StatUpdate, StatTypeOK, Steps
    <2> QED  BY <1>4, <2>1 DEF StatUpdate, statConf, StatTypeOK, Steps, Holding
<1>5. ASSUME NEW r \in RxTasks,
             RxRun(r) \/ RxUpdate(r) \/ RxReset(r) \/ EntryGet(r) \/ FullTest(r) \/ EntryEnqueue(r)
      PROVE  (StatTypeOK /\ Steps)'
    <2>1. CASE RxRun(r)
        <3>0. now \in 0 .. MaxTime  BY DEF StatTypeOK
        <3>1. rx' \in [RxTasks -> Rx]
            <4>1. CASE use_task  BY <1>0, <2>1, <3>0, <4>1, ZenonT(60) DEF RxRun
            <4>2. CASE ~use_task  BY <1>0, <2>1, <3>0, <4>2 DEF RxRun
            <4> QED  BY <4>1, <4>2
        <3>2. \A s \in RxTasks : /\ rx'[s].pc # "idle" => rx[s].pc # "idle" \/ s = r
                                 /\ rx'[s].entry = rx[s].entry
                                 /\ rx'[s].pc \in {"put", "enqueue"} => rx'[s].pc = rx[s].pc
            BY <1>0, <2>1 DEF RxRun
        <3> QED  BY <2>1, <3>1, <3>2 DEF RxRun, statConf, StatTypeOK, Steps, Holding
    <2>2. CASE RxUpdate(r)
        <3>1. rx' \in [RxTasks -> Rx]  BY <1>0, <2>2 DEF RxUpdate
        <3>2. \A s \in RxTasks : /\ rx'[s].pc # "idle" => rx[s].pc # "idle"
                                 /\ rx'[s].entry = rx[s].entry
                                 /\ rx'[s].pc \in {"put", "enqueue"} => rx'[s].pc = rx[s].pc
            BY <1>0, <2>2 DEF RxUpdate
        <3> QED  BY <2>2, <3>1, <3>2 DEF RxUpdate, statConf, StatTypeOK, Steps, Holding
    <2>3. CASE RxReset(r)
        <3>1. rx' \in [RxTasks -> Rx] /\ base_time' \in 0 .. MaxTime  BY <1>0, <2>3 DEF RxReset
        <3>2. \A s \in RxTasks : /\ rx'[s].pc # "idle" => rx[s].pc # "idle"
                                 /\ rx'[s].entry = rx[s].entry
                                 /\ rx'[s].pc \in {"put", "enqueue"} => rx'[s].pc = rx[s].pc
            BY <1>0, <2>3 DEF RxReset
        <3> QED  BY <2>3, <3>1, <3>2 DEF RxReset, statConf, StatTypeOK, Steps, Holding
    <2>4. CASE EntryGet(r)
        <3>1. mpool \in Seq(Entries) /\ mpool # <<>>  BY <2>4 DEF EntryGet, StatTypeOK
        <3>2. Head(mpool) \in Entries /\ Tail(mpool) \in Seq(Entries)  BY <3>1, QueuedTail
        <3>3. rx' \in [RxTasks -> Rx]  BY <1>0, <2>4, <3>2 DEF EntryGet
        <3>4. \A s \in RxTasks : s # r => rx'[s] = rx[s]  BY <1>0, <2>4 DEF EntryGet
        <3>5. r \in tasks /\ rx'[r].entry \in Entries  BY <1>0, <2>4, <3>2 DEF EntryGet
        <3>6. etime' \in [Entries -> 0 .. MaxTime]  BY <1>0, <2>4, <3>2 DEF EntryGet, StatTypeOK
        <3> QED
            BY <2>4, <3>2, <3>3, <3>4, <3>5, <3>6 DEF EntryGet, statConf, StatTypeOK, Steps, Holding
    <2>5. CASE FullTest(r)
        <3>1. rx[r].entry \in Entries  BY <2>5 DEF FullTest, Steps, Holding
        <3>2. rx' \in [RxTasks -> Rx]
            <4>1. \/ rx' = [rx EXCEPT ![r].pc = "idle", ![r].entry = NoEntry]
                  \/ rx' = [rx EXCEPT ![r].pc = "enqueue"]
                BY <2>5 DEF FullTest
            <4>2. CASE rx' = [rx EXCEPT ![r].pc = "idle", ![r].entry = NoEntry]
                BY <1>0, <4>2, ZenonT(60)
            <4>3. CASE rx' = [rx EXCEPT ![r].pc = "enqueue"]  BY <1>0, <4>3, ZenonT(60)
            <4> QED  BY <4>1, <4>2, <4>3
        <3>3. mpool' \in Seq(Entries)
            <4>1. mpool \in Seq(Entries)  BY DEF StatTypeOK
            <4>2. Append(mpool, rx[r].entry) \in Seq(Entries)  BY <3>1, <4>1
            <4>3. mpool' = Append(mpool, rx[r].entry) \/ mpool' = mpool  BY <2>5 DEF FullTest
            <4> QED  BY <4>1, <4>2, <4>3
        <3>4. \A s \in RxTasks : /\ s # r => rx'[s] = rx[s]
                                 /\ rx'[s].pc # "idle" => rx'[s].entry = rx[s].entry /\ rx[s].pc # "idle"
            BY <1>0, <2>5 DEF FullTest
        <3> QED
            BY <2>5, <3>1, <3>2, <3>3, <3>4 DEF FullTest, statConf, StatTypeOK, Steps, Holding
    <2>6. CASE EntryEnqueue(r)
        <3>1. rx[r].entry \in Entries  BY <2>6 DEF EntryEnqueue, Steps, Holding
        <3>2. rx' \in [RxTasks -> Rx]  BY <1>0, <2>6 DEF EntryEnqueue, NoEntry
        <3>3. ring' \in Seq(Entries) /\ Len(ring') <= cap
            BY <1>0, <2>6, <3>1 DEF EntryEnqueue, StatTypeOK, Steps, RingFull
        <3>4. \A s \in RxTasks : /\ s # r => rx'[s] = rx[s]
                                 /\ s = r => rx'[s].pc = "idle"
            BY <1>0, <2>6 DEF EntryEnqueue
        <3> QED
            BY <2>6, <3>1, <3>2, <3>3, <3>4 DEF EntryEnqueue, statConf, StatTypeOK, Steps, Holding
    <2> QED  BY <1>5, <2>1, <2>2, <2>3, <2>4, <2>5, <2>6
<1> QED  BY <1>1, <1>2, <1>3, <1>4, <1>5 DEF StatNext

\* With one receive task, tasks that are not idle are the same one.
LEMMA OneTask ==
    ASSUME StatTypeOK, Steps, Cardinality(tasks) = 1,
           NEW r \in RxTasks, NEW s \in RxTasks, rx[r].pc # "idle", rx[s].pc # "idle"
    PROVE  r = s
<1>1. IsFiniteSet(tasks)  BY FS_Subset, StatAssumption DEF Steps
<1>2. PICK x : tasks = {x}  BY <1>1, FS_Singleton
<1> QED  BY <1>2 DEF Steps

\* A ring that may hold all entries is not full while one of them is in hand.
LEMMA RingHasRoom ==
    ASSUME StatTypeOK, Steps, Apart, Room, Cardinality(tasks) = 1 \/ PoolSize <= cap,
           NEW r \in RxTasks, rx[r].pc = "enqueue"
    PROVE  Len(ring) < cap
<1>1. CASE Cardinality(tasks) = 1  BY <1>1 DEF Room
<1>2. CASE PoolSize <= cap
    <2> DEFINE e == rx[r].entry
    <2>1. e \in Entries /\ e \in InHand  BY DEF Steps, Holding, InHand
    <2>2. e \notin Queued(ring)  BY <2>1 DEF Apart
    <2>3. ring \in Seq(Entries) /\ Len(ring) \in Nat  BY DEF StatTypeOK
    <2>4. /\ Queued(ring) \subseteq Entries /\ IsFiniteSet(Queued(ring))
          /\ Cardinality(Queued(ring)) = Len(ring)
        BY <2>3, QueuedCardinality DEF Apart
    <2>5. Cardinality(Queued(ring) \union {e}) = Len(ring) + 1
        BY <2>2, <2>4, FS_AddElement
    <2>6. IsFiniteSet(Entries) /\ Cardinality(Entries) = PoolSize
        BY FS_Interval, StatAssumption DEF Entries
    <2>7. Len(ring) + 1 <= PoolSize
        BY <2>1, <2>4, <2>5, <2>6, FS_Subset
    <2> QED  BY <1>2, <2>3, <2>7, StatAssumption DEF Steps
<1> QED  BY <1>1, <1>2

\* A step that moves no entry leaves the places as they are.
LEMMA PlacesSame ==
    ASSUME Apart, Room, Cover, UNCHANGED <<tasks, cap, mpool, ring, rx>>,
           UNCHANGED stat \/ (stat.pc # "free" /\ stat'.pc # "free")
    PROVE  (Apart /\ Room /\ Cover)'
<1>1. Queued(mpool)' = Queued(mpool) /\ Queued(ring)' = Queued(ring)  BY DEF Queued
<1>2. Once(mpool)' = Once(mpool) /\ Once(ring)' = Once(ring)  BY DEF Once
<1>3. \A r \in RxTasks : Holding(r)' = Holding(r)  BY DEF Holding
<1>4. InHand' = InHand  BY DEF InHand
<1>5. Apart'  BY <1>1, <1>2, <1>3, <1>4 DEF Apart
<1>6. Room'  BY DEF Room
<1>7. Cover'  BY <1>1, <1>4 DEF Cover
<1> QED  BY <1>5, <1>6, <1>7

\* Each step moves at most one entry, from the place it is in to the next.
LEMMA PlacesStep ==
    ASSUME StatInv, StatNext, (StatTypeOK /\ Steps)'
    PROVE  (Apart /\ Room /\ Cover)'
<1> USE StatAssumption DEF StatInv
<1>0. /\ rx \in [RxTasks -> [pc : {"idle", "update", "reset", "put", "enqueue"},
                             time : 0 .. MaxTime, entry : Entries \union {NoEntry}]]
      /\ mpool \in Seq(Entries) /\ ring \in Seq(Entries) /\ Len(ring) \in Nat /\ cap \in Nat
      /\ Len(ring) <= cap
    BY SMTT(60) DEF StatTypeOK, Steps
<1>1. CASE Tick
    <2>1. UNCHANGED <<tasks, cap, mpool, ring, rx, stat>>  BY <1>1 DEF Tick, statConf
    <2> QED  BY <2>1, PlacesSame
<1>2. CASE StatDequeue
    <2> DEFINE e == Head(ring)
    <2>1. /\ stat.pc = "idle" /\ ring # <<>> /\ stat'.pc = "free" /\ stat'.entry = e
          /\ ring' = Tail(ring) /\ UNCHANGED <<tasks, cap, mpool, rx>>
        BY <1>2 DEF StatDequeue, statConf
    <2>2. /\ e \in Queued(ring) /\ Len(Tail(ring)) = Len(ring) - 1
          /\ Queued(Tail(ring)) = Queued(ring) \ {e} /\ Once(Tail(ring))
        BY <1>0, <2>1, QueuedTail DEF Apart
    <2>3. InHand' = InHand \union {e}  BY <2>1 DEF InHand
    <2>4. Queued(ring)' = Queued(ring) \ {e} /\ Once(ring)'  BY <2>1, <2>2
    <2>5. Queued(mpool)' = Queued(mpool) /\ Once(mpool)' = Once(mpool)
        BY <2>1 DEF Queued, Once
    <2>6. \A r \in RxTasks : Holding(r)' = Holding(r)  BY <2>1 DEF Holding
    <2>7. \A r \in RxTasks : Holding(r) => rx[r].entry # e
        BY <2>2 DEF Apart, InHand, Holding
    <2>8. Apart'
        BY <2>1, <2>2, <2>3, <2>4, <2>5, <2>6, <2>7 DEF Apart
    <2>9. Room'  BY <1>0, <2>1, <2>2 DEF Room
    <2>10. Cover'  BY <2>1, <2>2, <2>3, <2>4, <2>5 DEF Cover
    <2> QED  BY <2>8, <2>9, <2>10
<1>3. CASE StatFree
    <2> DEFINE e == stat.entry
    <2>1. /\ stat.pc = "free" /\ stat'.pc = "update" /\ mpool' = Append(mpool, e)
          /\ UNCHANGED <<tasks, cap, ring, rx>>
        BY <1>3 DEF StatFree, statConf, StatTypeOK
    <2>2. e \in Entries /\ e \in InHand  BY <2>1 DEF Steps, InHand
    <2>3. e \notin Queued(mpool) /\ e \notin Queued(ring)  BY <2>2 DEF Apart
    <2>4. Queued(mpool)' = Queued(mpool) \union {e} /\ Once(mpool)'
        BY <1>0, <2>1, <2>2, <2>3, QueuedAppend DEF Apart
    <2>5. Queued(ring)' = Queued(ring) /\ Once(ring)' = Once(ring)
        BY <2>1 DEF Queued, Once
    <2>6. \A r \in RxTasks : Holding(r)' = Holding(r)  BY <2>1 DEF Holding
    <2>7. InHand' = InHand \ {e}
        <3>1. \A r \in RxTasks : Holding(r) => rx[r].entry # e  BY <2>1 DEF Apart
        <3> QED  BY <2>1, <3>1 DEF InHand, Holding
    <2>8. Apart'
        BY <2>1, <2>3, <2>4, <2>5, <2>6, <2>7 DEF Apart
    <2>9. Room'  BY <2>1 DEF Room
    <2>10. Cover'  BY <2>1, <2>2, <2>4, <2>5, <2>7 DEF Cover
    <2> QED  BY <2>8, <2>9, <2>10
<1>4. CASE StatUpdate
    <2>1. /\ UNCHANGED <<tasks, cap, mpool, ring, rx>>
          /\ stat.pc # "free" /\ stat'.pc # "free"
        BY <1>4 DEF StatUpdate, statConf
    <2> QED  BY <2>1, PlacesSame
<1>5. ASSUME NEW r \in RxTasks, RxRun(r) \/ RxUpdate(r) \/ RxReset(r)
      PROVE  (Apart /\ Room /\ Cover)'
    <2>1. UNCHANGED <<tasks, cap, mpool, ring, stat>>
        BY <1>5 DEF RxRun, RxUpdate, RxReset, statConf
    <2>2. \A s \in RxTasks : /\ rx'[s].entry = rx[s].entry
                             /\ rx'[s].pc \in {"put", "enqueue"} => rx'[s].pc = rx[s].pc
                             /\ rx[s].pc \in {"put", "enqueue"} => rx'[s].pc = rx[s].pc
        <3>1. CASE RxRun(r)  BY <1>0, <3>1 DEF RxRun
        <3>2. CASE RxUpdate(r)  BY <1>0, <3>2 DEF RxUpdate
        <3>3. CASE RxReset(r)  BY <1>0, <3>3 DEF RxReset
        <3> QED  BY <1>5, <3>1, <3>2, <3>3
    <2>3. \A s \in RxTasks : Holding(s)' = Holding(s)  BY <2>2 DEF Holding
    <2>4. InHand' = InHand  BY <2>1, <2>2, <2>3, InHandSame
    <2>5. Queued(mpool)' = Queued(mpool) /\ Queued(ring)' = Queued(ring)  BY <2>1 DEF Queued
    <2>6. Once(mpool)' = Once(mpool) /\ Once(ring)' = Once(ring)  BY <2>1 DEF Once
    <2>7. Apart'  BY <2>1, <2>2, <2>3, <2>4, <2>5, <2>6 DEF Apart
    <2>8. Room'  BY <2>1, <2>2 DEF Room
    <2>9. Cover'  BY <2>1, <2>4, <2>5 DEF Cover
    <2> QED  BY <2>7, <2>8, <2>9
<1>6. ASSUME NEW r \in RxTasks, EntryGet(r) PROVE (Apart /\ Room /\ Cover)'
    <2> DEFINE e == Head(mpool)
    <2>1. /\ rx[r].pc = "idle" /\ mpool # <<>> /\ mpool' = Tail(mpool)
          /\ UNCHANGED <<tasks, cap, ring, stat>>
        BY <1>6 DEF EntryGet, statConf
    <2>2. rx'[r].pc = "put" /\ rx'[r].entry = e /\ \A s \in RxTasks : s # r => rx'[s] = rx[s]
        BY <1>0, <1>6 DEF EntryGet
    <2>3. /\ e \in Queued(mpool) /\ Queued(Tail(mpool)) = Queued(mpool) \ {e} /\ Once(Tail(mpool))
        BY <1>0, <2>1, QueuedTail DEF Apart
    <2>4. Queued(mpool)' = Queued(mpool) \ {e} /\ Once(mpool)'  BY <2>1, <2>3
    <2>5. Queued(ring)' = Queued(ring) /\ Once(ring)' = Once(ring)  BY <2>1 DEF Queued, Once
    <2>6. /\ Holding(r)' /\ ~Holding(r)
          /\ \A s \in RxTasks : s # r => Holding(s)' = Holding(s)
        BY <2>1, <2>2 DEF Holding
    <2>7. InHand' = InHand \union {e}
        <3>1. ASSUME NEW x PROVE x \in InHand' <=> x \in InHand \/ x = e
            BY <2>1, <2>2, <2>6 DEF InHand, Holding
        <3> QED  BY <3>1
    <2>8. /\ \A s \in RxTasks : Holding(s) => rx[s].entry # e
          /\ stat.pc = "free" => stat.entry # e
        BY <2>3 DEF Apart, InHand, Holding
    <2>9. Apart'
        BY <2>1, <2>2, <2>3, <2>4, <2>5, <2>6, <2>7, <2>8 DEF Apart
    <2>10. Room'  BY <2>1, <2>2 DEF Room
    <2>11. Cover'  BY <2>1, <2>3, <2>4, <2>5, <2>7 DEF Cover
    <2> QED  BY <2>9, <2>10, <2>11
<1>7. ASSUME NEW r \in RxTasks, FullTest(r) PROVE (Apart /\ Room /\ Cover)'
    <2> DEFINE e == rx[r].entry
    <2>1. /\ rx[r].pc = "put" /\ UNCHANGED <<tasks, cap, ring, stat>>
          /\ Queued(ring)' = Queued(ring) /\ Once(ring)' = Once(ring)
        BY <1>7 DEF FullTest, statConf, Queued, Once
    <2>2. e \in Entries /\ e \in InHand  BY <2>1 DEF Steps, Holding, InHand
    <2>3. e \notin Queued(mpool) /\ e \notin Queued(ring)  BY <2>2 DEF Apart
    <2>4. \A s \in RxTasks : s # r => rx'[s] = rx[s] /\ Holding(s)' = Holding(s)
        BY <1>0, <1>7 DEF FullTest, Holding
    <2>5. CASE RingFull
        <3>1. rx'[r].pc = "idle" /\ mpool' = Append(mpool, e)
            BY <1>0, <1>7, <2>5 DEF FullTest
        <3>2. Queued(mpool)' = Queued(mpool) \union {e} /\ Once(mpool)'
            BY <1>0, <2>2, <2>3, <3>1, QueuedAppend DEF Apart
        <3>3. /\ \A s \in RxTasks : s # r /\ Holding(s) => rx[s].entry # e
              /\ stat.pc = "free" => stat.entry # e
            BY <2>1 DEF Apart, Holding
        <3>4. ~Holding(r)' /\ Holding(r)  BY <2>1, <3>1 DEF Holding
        <3>5. InHand' = InHand \ {e}
            <4>1. ASSUME NEW x PROVE x \in InHand' <=> x \in InHand /\ x # e
                BY <2>1, <2>4, <3>3, <3>4 DEF InHand, Holding
            <4> QED  BY <4>1
        <3>6. Apart'
            BY <2>1, <2>3, <2>4, <3>2, <3>3, <3>4, <3>5 DEF Apart
        <3>7. Room'  BY <2>1, <2>4, <3>1 DEF Room
        <3>8. Cover'  BY <2>1, <2>2, <3>2, <3>5 DEF Cover
        <3> QED  BY <3>6, <3>7, <3>8
    <2>6. CASE ~RingFull
        <3>1. rx'[r].pc = "enqueue" /\ rx'[r].entry = e /\ mpool' = mpool
            BY <1>0, <1>7, <2>6 DEF FullTest
        <3>2. Queued(mpool)' = Queued(mpool) /\ Once(mpool)' = Once(mpool)
            BY <3>1 DEF Queued, Once
        <3>3. \A s \in RxTasks : Holding(s)' = Holding(s) /\ (Holding(s) => rx'[s].entry = rx[s].entry)
            BY <2>1, <2>4, <3>1 DEF Holding
        <3>4. InHand' = InHand  BY <2>1, <3>3, InHandSame
        <3>5. Apart'  BY <2>1, <3>2, <3>3, <3>4 DEF Apart
        <3>6. Room'  BY <1>0, <2>1, <2>4, <2>6, <3>1 DEF Room, RingFull
        <3>7. Cover'  BY <2>1, <3>2, <3>4 DEF Cover
        <3> QED  BY <3>5, <3>6, <3>7
    <2> QED  BY <2>5, <2>6
<1>8. ASSUME NEW r \in RxTasks, EntryEnqueue(r) PROVE (Apart /\ Room /\ Cover)'
    <2> DEFINE e == rx[r].entry
    <2>1. /\ rx[r].pc = "enqueue" /\ UNCHANGED <<tasks, cap, mpool, stat>>
          /\ Queued(mpool)' = Queued(mpool) /\ Once(mpool)' = Once(mpool)
        BY <1>8 DEF EntryEnqueue, statConf, Queued, Once
    <2>2. e \in Entries /\ e \in InHand  BY <2>1 DEF Steps, Holding, InHand
    <2>3. e \notin Queued(mpool) /\ e \notin Queued(ring)  BY <2>2 DEF Apart
    <2>4. /\ rx'[r].pc = "idle"
          /\ \A s \in RxTasks : s # r => rx'[s] = rx[s] /\ Holding(s)' = Holding(s)
        BY <1>0, <1>8 DEF EntryEnqueue, Holding
    <2>5. /\ \A s \in RxTasks : s # r /\ Holding(s) => rx[s].entry # e
          /\ stat.pc = "free" => stat.entry # e
        BY <2>1 DEF Apart, Holding
    <2>6. ~Holding(r)' /\ Holding(r)  BY <2>1, <2>4 DEF Holding
    <2>7. InHand' = InHand \ {e}
        <3>1. ASSUME NEW x PROVE x \in InHand' <=> x \in InHand /\ x # e
            BY <2>1, <2>4, <2>5, <2>6 DEF InHand, Holding
        <3> QED  BY <3>1
    <2>8. Room'
        <3> SUFFICES ASSUME Cardinality(tasks)' = 1, NEW s \in RxTasks, rx'[s].pc = "enqueue"
                     PROVE  FALSE
            BY DEF Room
        <3>1. Cardinality(tasks) = 1 /\ s # r /\ rx[s].pc # "idle" /\ rx[r].pc # "idle"
            BY <2>1, <2>4
        <3> QED  BY <3>1, OneTask
    <2>9. CASE RingFull
        <3>1. ~(Cardinality(tasks) = 1 \/ PoolSize <= cap)
            BY <1>0, <2>1, <2>9, RingHasRoom DEF RingFull
        <3>2. ring' = ring  BY <1>8, <2>9 DEF EntryEnqueue
        <3>3. Queued(ring)' = Queued(ring) /\ Once(ring)' = Once(ring)
            BY <3>2 DEF Queued, Once
        <3>4. Apart'  BY <2>1, <2>4, <2>6, <2>7, <3>3 DEF Apart
        <3>5. Cover'  BY <2>1, <3>1 DEF Cover
        <3> QED  BY <2>8, <3>4, <3>5
    <2>10. CASE ~RingFull
        <3>1. ring' = Append(ring, e)  BY <1>8, <2>10 DEF EntryEnqueue
        <3>2. Queued(ring)' = Queued(ring) \union {e} /\ Once(ring)'
            BY <1>0, <2>2, <2>3, <3>1, QueuedAppend DEF Apart
        <3>3. Apart'  BY <2>1, <2>3, <2>4, <2>5, <2>6, <2>7, <3>2 DEF Apart
        <3>4. Cover'  BY <2>1, <2>2, <2>7, <3>2 DEF Cover
        <3> QED  BY <2>8, <3>3, <3>4
    <2> QED  BY <2>9, <2>10
<1> QED  BY <1>1, <1>2, <1>3, <1>4, <1>5, <1>6, <1>7, <1>8 DEF StatNext

\* The invariant holds in every state of the specification.
THEOREM StatInvariant == StatSpec => []StatInv
<1> USE StatAssumption
<1>1. StatInit => StatInv
    <2> SUFFICES ASSUME StatInit PROVE StatInv
        OBVIOUS
    <2>1. /\ Entries = 1 .. PoolSize /\ mpool = [i \in 1 .. PoolSize |-> i] /\ ring = <<>>
          /\ \A r \in RxTasks : rx[r] = [pc |-> "idle", time |-> 0, entry |-> NoEntry]
          /\ stat = [pc |-> "idle", entry |-> NoEntry]
        BY DEF StatInit, Entries
    <2>2. mpool \in Seq(Entries) /\ DOMAIN mpool = Entries /\ ring \in Seq(Entries) /\ Len(ring) = 0
        BY <2>1
    <2>3. cap \in Nat /\ tasks \in SUBSET RxTasks /\ use_task \in BOOLEAN  BY DEF StatInit
    <2>4. StatTypeOK  BY <2>1, <2>2, <2>3 DEF StatInit, StatTypeOK
    <2>5. \A r \in RxTasks : ~Holding(r)  BY <2>1 DEF Holding
    <2>6. InHand = {}  BY <2>1 DEF InHand
    <2>7. Queued(mpool) = Entries /\ Queued(ring) = {}  BY <2>1, <2>2 DEF Queued
    <2>8. Once(mpool) /\ Once(ring)  BY <2>1, <2>2 DEF Once
    <2>9. Steps  BY <2>1, <2>3, <2>5 DEF Steps
    <2> QED  BY <2>1, <2>4, <2>5, <2>6, <2>7, <2>8, <2>9 DEF StatInv, Apart, Room, Cover
<1>2. StatInv /\ [StatNext]_statVars => StatInv'
    <2>1. CASE StatNext  BY <2>1, TypeStep, PlacesStep DEF StatInv
    <2>2. CASE UNCHANGED statVars
        <3>1. UNCHANGED <<use_task, tasks, cap, now, base_time, mpool, ring, etime, rx, stat>>
            BY <2>2 DEF statVars, statConf
        <3>2. StatInv => (StatTypeOK /\ Steps)'
            BY <3>1 DEF StatInv, StatTypeOK, Steps, Holding
        <3>3. StatInv => (Apart /\ Room /\ Cover)'
            BY <3>1, PlacesSame DEF StatInv
        <3> QED  BY <3>2, <3>3 DEF StatInv
    <2> QED  BY <2>1, <2>2
<1> QED  BY <1>1, <1>2, PTL DEF StatSpec

\* Times, queues and steps of the statistics stay in their ranges.
THEOREM StatTypeCorrect == StatSpec => []StatTypeOK
<1>1. StatInv => StatTypeOK  BY DEF StatInv
<1> QED  BY <1>1, StatInvariant, PTL

\* No entry of the statistics is lost or given out twice, with one receive task or a ring
\* with room for all entries: free entries, the ring and the hands of tasks add up to the pool.
THEOREM StatEntriesKept == StatSpec => []StatKept
<1>1. StatInv => StatKept
    <2> SUFFICES ASSUME StatInv, Cardinality(tasks) = 1 \/ PoolSize <= cap
                 PROVE  /\ Queued(mpool) \union Queued(ring) \union InHand = Entries
                        /\ Len(mpool) + Len(ring) + Cardinality(InHand) = PoolSize
        BY DEF StatKept
    <2> DEFINE A == Queued(mpool)
               B == Queued(ring)
    <2>1. A \union B \union InHand = Entries  BY DEF StatInv, Cover
    <2>2. /\ IsFiniteSet(A) /\ Cardinality(A) = Len(mpool)
          /\ IsFiniteSet(B) /\ Cardinality(B) = Len(ring)
        BY QueuedCardinality DEF StatInv, StatTypeOK, Apart
    <2>3. IsFiniteSet(Entries) /\ Cardinality(Entries) = PoolSize
        BY FS_Interval, StatAssumption DEF Entries
    <2>4. IsFiniteSet(InHand)
        <3>1. InHand \subseteq Entries  BY <2>1
        <3> QED  BY <2>3, <3>1, FS_Subset
    <2>5. A \cap B = {} /\ (A \union B) \cap InHand = {}  BY DEF StatInv, Apart
    <2>6. Cardinality(A \cap B) = 0 /\ Cardinality((A \union B) \cap InHand) = 0
        BY <2>5, FS_EmptySet
    <2>7. /\ IsFiniteSet(A \union B)
          /\ Cardinality(A \union B) = Cardinality(A) + Cardinality(B) - Cardinality(A \cap B)
        BY <2>2, FS_Union
    <2>8. Cardinality((A \union B) \union InHand)
            = Cardinality(A \union B) + Cardinality(InHand) - Cardinality((A \union B) \cap InHand)
        BY <2>4, <2>7, FS_Union
    <2>9. Cardinality(InHand) \in Nat /\ Len(mpool) \in Nat /\ Len(ring) \in Nat
        BY <2>4, FS_CardinalityType DEF StatInv, StatTypeOK
    <2>10. Len(mpool) + Len(ring) + Cardinality(InHand) = PoolSize
        <3>1. Cardinality((A \union B) \union InHand) = PoolSize  BY <2>1, <2>3
        <3>2. Cardinality(A \union B) = Len(mpool) + Len(ring)  BY <2>2, <2>6, <2>7, <2>9
        <3> QED  BY <2>6, <2>8, <2>9, <3>1, <3>2
    <2> QED  BY <2>1, <2>10
<1> QED  BY <1>1, StatInvariant, PTL

-----------------------------------------------------------------------------
(***************************************************************************)
(* One receive task, and no entry the statistics task still reads was      *)
(* given out again: the times the entries carry are in the order of the    *)
(* queue, from the period's beginning to the task's last reading of the    *)
(* clock.  Without the statistics task the receive task's time is alone.   *)
(***************************************************************************)
Mode ==
    /\ use_task => \A r \in RxTasks : rx[r].pc \notin {"update", "reset"}
    /\ ~use_task => ring = <<>> /\ stat.pc = "idle" /\ \A r \in RxTasks : ~Holding(r)

TimesOf(r) ==
    /\ base_time <= rx[r].time /\ rx[r].time <= now
    /\ rx[r].pc = "reset" => rx[r].time - base_time >= TimeUp
    /\ Holding(r) => etime[rx[r].entry] = rx[r].time
    /\ \A i \in DOMAIN ring : base_time <= etime[ring[i]] /\ etime[ring[i]] <= rx[r].time
    /\ \A i, j \in DOMAIN ring : i <= j => etime[ring[i]] <= etime[ring[j]]
    /\ stat.pc # "idle" =>
         /\ base_time <= etime[stat.entry] /\ etime[stat.entry] <= rx[r].time
         /\ \A i \in DOMAIN ring : etime[stat.entry] <= etime[ring[i]]

Timely == Cardinality(tasks) = 1 /\ ~reused => \A r \in tasks : TimesOf(r)

\* The inductive invariant behind PeriodForward.
TimeInv == StatInv /\ reused \in BOOLEAN /\ Mode /\ Timely

\* Of a time not before base_time the unsigned difference is the real one.
LEMMA ExpiredMeans ==
    ASSUME NEW t \in 0 .. MaxTime, base_time \in 0 .. MaxTime, base_time <= t, Expired(t)
    PROVE  t - base_time >= TimeUp
<1>1. t - base_time \in 0 .. TimeMod - 1 /\ TimeMod \in Nat \ {0}  BY StatAssumption
<1>2. ASSUME NEW m \in Nat \ {0}, NEW a \in 0 .. m - 1 PROVE a % m = a  OBVIOUS
<1>3. (t - base_time) % TimeMod = t - base_time  BY <1>1, <1>2
<1> QED  BY <1>3 DEF Expired

\* The two ways of counting do not mix.
LEMMA ModeStep ==
    ASSUME StatInv, Mode, StatNext
    PROVE  Mode'
<1>0. /\ rx \in [RxTasks -> [pc : {"idle", "update", "reset", "put", "enqueue"},
                             time : 0 .. MaxTime, entry : Entries \union {NoEntry}]]
      /\ stat \in [pc : {"idle", "free", "update"}, entry : Entries \union {NoEntry}]
      /\ use_task \in BOOLEAN
    BY DEF StatInv, StatTypeOK, Steps
<1>1. CASE Tick  BY <1>1 DEF Tick, statConf, Mode, Holding
<1>2. CASE StatDequeue \/ StatFree \/ StatUpdate
    <2>1. use_task  BY <1>0, <1>2 DEF StatDequeue, StatFree, StatUpdate, Mode
    <2>2. use_task' = use_task /\ rx' = rx  BY <1>2 DEF StatDequeue, StatFree, StatUpdate, statConf
    <2> QED  BY <2>1, <2>2 DEF Mode
<1>3. ASSUME NEW r \in RxTasks, RxRun(r) \/ RxUpdate(r) \/ RxReset(r)
      PROVE  Mode'
    <2>1. UNCHANGED <<use_task, ring, stat>>
        BY <1>3 DEF RxRun, RxUpdate, RxReset, statConf
    <2>2. \A s \in RxTasks :
              /\ use_task => rx'[s].pc \in {rx[s].pc, "idle"}
              /\ ~use_task /\ rx'[s].pc \in {"put", "enqueue"} => rx[s].pc \in {"put", "enqueue"}
        <3>1. CASE RxRun(r)  BY <1>0, <3>1 DEF RxRun
        <3>2. CASE RxUpdate(r)  BY <1>0, <3>2 DEF RxUpdate, Mode
        <3>3. CASE RxReset(r)  BY <1>0, <3>3 DEF RxReset
        <3> QED  BY <1>3, <3>1, <3>2, <3>3
    <2> QED  BY <1>0, <2>1, <2>2 DEF Mode, Holding
<1>4. ASSUME NEW r \in RxTasks, EntryGet(r) \/ FullTest(r) \/ EntryEnqueue(r)
      PROVE  Mode'
    <2>1. use_task
        BY <1>0, <1>4 DEF EntryGet, FullTest, EntryEnqueue, Mode, Holding
    <2>2. use_task' = use_task
        BY <1>4 DEF EntryGet, FullTest, EntryEnqueue, statConf
    <2>3. \A s \in RxTasks : rx'[s].pc \in {rx[s].pc, "idle", "put", "enqueue"}
        <3>1. CASE EntryGet(r)  BY <1>0, <3>1 DEF EntryGet
        <3>2. CASE FullTest(r)
            <4>1. CASE RingFull  BY <1>0, <3>2, <4>1 DEF FullTest
            <4>2. CASE ~RingFull  BY <1>0, <3>2, <4>2 DEF FullTest
            <4> QED  BY <4>1, <4>2
        <3>3. CASE EntryEnqueue(r)  BY <1>0, <3>3 DEF EntryEnqueue
        <3> QED  BY <1>4, <3>1, <3>2, <3>3
    <2> QED  BY <2>1, <2>2, <2>3 DEF Mode
<1> QED  BY <1>1, <1>2, <1>3, <1>4 DEF StatNext

\* Times stay in order with a single receive task x.
LEMMA TimesStep ==
    ASSUME TimeInv, StatInv', StatNext, NEW x \in RxTasks, tasks = {x}, TimesOf(x), ~reused'
    PROVE  TimesOf(x)'
<1> USE StatAssumption DEF TimeInv, StatInv
<1>0. /\ rx \in [RxTasks -> [pc : {"idle", "update", "reset", "put", "enqueue"},
                             time : 0 .. MaxTime, entry : Entries \union {NoEntry}]]
      /\ mpool \in Seq(Entries) /\ ring \in Seq(Entries)
      /\ Len(ring) \in Nat /\ DOMAIN ring = 1 .. Len(ring)
      /\ \A i \in DOMAIN ring : ring[i] \in Entries
      /\ etime \in [Entries -> 0 .. MaxTime]
      /\ now \in 0 .. MaxTime /\ base_time \in 0 .. MaxTime
      /\ stat \in [pc : {"idle", "free", "update"}, entry : Entries \union {NoEntry}]
    BY SMTT(60) DEF StatTypeOK
<1>t. rx[x].time \in 0 .. MaxTime  BY <1>0
<1>1. CASE Tick
    BY <1>0, <1>t, <1>1 DEF Tick, TimesOf, Holding
<1>2. CASE StatDequeue
    <2>1. /\ ring # <<>> /\ stat'.pc = "free" /\ stat'.entry = Head(ring) /\ ring' = Tail(ring)
          /\ UNCHANGED <<rx, etime, base_time, now>>
        BY <1>2 DEF StatDequeue
    <2>2. /\ Len(ring) >= 1 /\ Head(ring) = ring[1] /\ DOMAIN ring' = 1 .. Len(ring) - 1
          /\ \A i \in 1 .. Len(ring) - 1 : ring'[i] = ring[i + 1] /\ i + 1 \in DOMAIN ring /\ 1 <= i + 1
        BY <1>0, <2>1
    <2>3. \A i \in DOMAIN ring' : /\ base_time <= etime[ring'[i]] /\ etime[ring'[i]] <= rx[x].time
                                  /\ etime[stat'.entry] <= etime[ring'[i]]
        <3>1. 1 \in DOMAIN ring  BY <1>0, <2>2
        <3> QED  BY <2>1, <2>2, <3>1 DEF TimesOf
    <2>4. \A i, j \in DOMAIN ring' : i <= j => etime[ring'[i]] <= etime[ring'[j]]
        <3>1. \A i, j \in 1 .. Len(ring) - 1 : i <= j => i + 1 <= j + 1  BY <1>0
        <3> QED  BY <2>2, <3>1 DEF TimesOf
    <2>5. base_time <= etime[stat'.entry] /\ etime[stat'.entry] <= rx[x].time
        <3>1. 1 \in DOMAIN ring /\ stat'.entry = ring[1]  BY <1>0, <2>1, <2>2
        <3> QED  BY <3>1 DEF TimesOf
    <2> QED  BY <2>1, <2>3, <2>4, <2>5 DEF TimesOf, Holding
<1>3. CASE StatFree
    <2>1. /\ stat.pc # "idle" /\ stat'.entry = stat.entry
          /\ UNCHANGED <<rx, etime, base_time, now, ring>>
        BY <1>0, <1>3 DEF StatFree
    <2> QED  BY <2>1 DEF TimesOf, Holding
<1>4. CASE StatUpdate
    <2>1. /\ stat.pc # "idle" /\ stat'.pc = "idle" /\ UNCHANGED <<rx, etime, now, ring>>
          /\ base_time' = base_time \/ base_time' = etime[stat.entry]
        BY <1>4 DEF StatUpdate
    <2>2. use_task /\ rx[x].pc # "reset"  BY <1>0, <2>1 DEF Mode, Steps
    <2> QED  BY <2>1, <2>2 DEF TimesOf, Holding
<1>5. ASSUME NEW r \in RxTasks, RxRun(r) PROVE TimesOf(x)'
    <2>1. r = x /\ rx[x].pc = "idle" /\ UNCHANGED <<etime, base_time, now, ring, stat>>
        BY <1>5 DEF RxRun
    <2>2. rx'[x].time = now /\ rx'[x].pc \in {"idle", "update"}
        BY <1>0, <1>5, <2>1 DEF RxRun
    <2>3. base_time <= now /\ rx[x].time <= now  BY <1>0, <1>t DEF TimesOf
    <2>4. \A i \in DOMAIN ring : etime[ring[i]] \in 0 .. MaxTime  BY <1>0
    <2>5. stat.pc # "idle" => etime[stat.entry] \in 0 .. MaxTime  BY <1>0 DEF Steps
    <2> QED  BY <1>0, <1>t, <2>1, <2>2, <2>3, <2>4, <2>5 DEF TimesOf, Holding
<1>6. ASSUME NEW r \in RxTasks, RxUpdate(r) PROVE TimesOf(x)'
    <2>1. r = x /\ rx[x].pc = "update" /\ UNCHANGED <<etime, base_time, now, ring, stat>>
        BY <1>6 DEF RxUpdate, Steps
    <2>2. /\ rx'[x].time = rx[x].time /\ rx'[x].pc \in {"idle", "reset"}
          /\ rx'[x].pc = "reset" => Expired(rx[x].time)
        BY <1>0, <1>6, <2>1 DEF RxUpdate
    <2>3. rx'[x].pc = "reset" => rx[x].time - base_time >= TimeUp
        BY <1>0, <1>t, <2>2, ExpiredMeans DEF TimesOf
    <2> QED  BY <2>1, <2>2, <2>3 DEF TimesOf, Holding
<1>7. ASSUME NEW r \in RxTasks, RxReset(r) PROVE TimesOf(x)'
    <2>1. r = x /\ rx[x].pc = "reset" /\ UNCHANGED <<etime, now, ring, stat>>
          /\ base_time' = rx[x].time
        BY <1>7 DEF RxReset, Steps
    <2>2. rx'[x].time = rx[x].time /\ rx'[x].pc = "idle"  BY <1>0, <1>7, <2>1 DEF RxReset
    <2>3. ring = <<>> /\ stat.pc = "idle"  BY <2>1 DEF Mode, Steps
    <2> QED  BY <1>0, <1>t, <2>1, <2>2, <2>3 DEF TimesOf, Holding
<1>8. ASSUME NEW r \in RxTasks, EntryGet(r) PROVE TimesOf(x)'
    <2> DEFINE e == Head(mpool)
    <2>1. r = x /\ mpool # <<>> /\ UNCHANGED <<base_time, now, ring, stat>>
        BY <1>8 DEF EntryGet
    <2>2. rx'[x].pc = "put" /\ rx'[x].entry = e /\ rx'[x].time = rx[x].time
        BY <1>0, <1>8, <2>1 DEF EntryGet
    <2>3. e \in Entries /\ e \in Queued(mpool)  BY <1>0, <2>1, QueuedTail
    <2>4. etime'[e] = rx[x].time /\ \A f \in Entries : f # e => etime'[f] = etime[f]
        BY <1>0, <1>8, <2>1, <2>3 DEF EntryGet
    <2>5. \A i \in DOMAIN ring : ring[i] # e  BY <2>3 DEF Apart, Queued
    <2>6. stat.pc # "idle" => stat.entry # e
        <3>1. CASE stat.pc = "free"  BY <2>3, <3>1 DEF Apart, InHand
        <3>2. CASE stat.pc = "update"  BY <1>8, <3>2 DEF EntryGet
        <3> QED  BY <1>0, <3>1, <3>2
    <2>7. stat.pc # "idle" => stat.entry \in Entries  BY DEF Steps
    <2> QED  BY <1>0, <2>1, <2>2, <2>3, <2>4, <2>5, <2>6, <2>7, SMTT(60) DEF TimesOf, Holding
<1>9. ASSUME NEW r \in RxTasks, FullTest(r) PROVE TimesOf(x)'
    <2>1. r = x /\ rx[x].pc = "put" /\ UNCHANGED <<etime, base_time, now, ring, stat>>
        BY <1>9 DEF FullTest, Steps
    <2>2. /\ rx'[x].time = rx[x].time /\ rx'[x].pc # "reset"
          /\ rx'[x].pc \in {"put", "enqueue"} => rx'[x].entry = rx[x].entry
        BY <1>0, <1>9, <2>1 DEF FullTest
    <2> QED  BY <2>1, <2>2 DEF TimesOf, Holding
<1>10. ASSUME NEW r \in RxTasks, EntryEnqueue(r) PROVE TimesOf(x)'
    <2> DEFINE e == rx[x].entry
    <2>1. r = x /\ rx[x].pc = "enqueue" /\ UNCHANGED <<etime, base_time, now, stat>>
        BY <1>10 DEF EntryEnqueue, Steps
    <2>2. rx'[x].time = rx[x].time /\ rx'[x].pc = "idle"  BY <1>0, <1>10, <2>1 DEF EntryEnqueue
    <2>3. e \in Entries /\ etime[e] = rx[x].time  BY <2>1 DEF Steps, TimesOf, Holding
    <2>4. CASE RingFull
        <3>1. ring' = ring  BY <1>10, <2>4 DEF EntryEnqueue
        <3> QED  BY <2>1, <2>2, <3>1 DEF TimesOf, Holding
    <2>5. CASE ~RingFull
        <3>1. ring' = Append(ring, e)  BY <1>10, <2>1, <2>5 DEF EntryEnqueue
        <3>2. /\ DOMAIN ring' = 1 .. Len(ring) + 1 /\ ring'[Len(ring) + 1] = e
              /\ \A i \in DOMAIN ring : ring'[i] = ring[i]
            BY <1>0, <2>3, <3>1
        <3>3. \A i \in DOMAIN ring' : i \in DOMAIN ring \/ (i = Len(ring) + 1 /\ ring'[i] = e)
            BY <1>0, <3>2
        <3>4. \A i \in DOMAIN ring' : base_time <= etime[ring'[i]] /\ etime[ring'[i]] <= rx[x].time
            <4>1. \A i \in DOMAIN ring : base_time <= etime[ring'[i]] /\ etime[ring'[i]] <= rx[x].time
                BY <3>2 DEF TimesOf
            <4>2. base_time <= etime[e] /\ etime[e] <= rx[x].time
                BY <1>t, <2>3 DEF TimesOf
            <4> QED  BY <3>3, <4>1, <4>2
        <3>5. ASSUME NEW i \in DOMAIN ring', NEW j \in DOMAIN ring', i <= j
              PROVE  etime[ring'[i]] <= etime[ring'[j]]
            <4>1. CASE j = Len(ring) + 1  BY <2>3, <3>2, <3>4, <4>1
            <4>2. CASE j \in DOMAIN ring
                <5>1. i \in DOMAIN ring  BY <1>0, <3>2, <3>5, <4>2
                <5> QED  BY <3>2, <3>5, <4>2, <5>1 DEF TimesOf
            <4> QED  BY <3>3, <4>1, <4>2
        <3>6. stat.pc # "idle" => \A i \in DOMAIN ring' : etime[stat.entry] <= etime[ring'[i]]
            BY <2>3, <3>2, <3>3 DEF TimesOf
        <3> QED  BY <2>1, <2>2, <3>4, <3>5, <3>6 DEF TimesOf, Holding
    <2> QED  BY <2>4, <2>5
<1> QED  BY <1>1, <1>2, <1>3, <1>4, <1>5, <1>6, <1>7, <1>8, <1>9, <1>10 DEF StatNext

\* A period ends only when stat_time_up has passed since it began, and base_time never goes
\* back, with one receive task, unless an entry the statistics task still reads is in use again.
THEOREM StatPeriodForward == StatSpec => PeriodForward
<1> USE StatAssumption
<1>1. StatInit => Mode /\ Timely /\ reused \in BOOLEAN
    <2> SUFFICES ASSUME StatInit PROVE Mode /\ Timely /\ reused \in BOOLEAN
        OBVIOUS
    <2>1. /\ \A r \in RxTasks : rx[r] = [pc |-> "idle", time |-> 0, entry |-> NoEntry]
          /\ stat.pc = "idle" /\ ring = <<>> /\ now = 0 /\ base_time = 0 /\ reused = FALSE
          /\ tasks \subseteq RxTasks /\ DOMAIN ring = {}
        BY DEF StatInit
    <2>2. ASSUME NEW r \in tasks PROVE TimesOf(r)
        <3>1. rx[r].time = 0 /\ rx[r].pc = "idle"  BY <2>1
        <3> QED  BY <2>1, <3>1 DEF TimesOf, Holding
    <2>3. \A r \in RxTasks : rx[r].pc = "idle"  BY <2>1
    <2> QED  BY <2>1, <2>2, <2>3 DEF Mode, Timely, Holding
<1>2. TimeInv /\ StatInv' /\ [StatNext]_statVars => (Mode /\ Timely /\ reused \in BOOLEAN)'
    <2> SUFFICES ASSUME TimeInv, StatInv', [StatNext]_statVars
                 PROVE  (Mode /\ Timely /\ reused \in BOOLEAN)'
        OBVIOUS
    <2>1. CASE StatNext
        <3>1. reused' \in BOOLEAN /\ (reused => reused') /\ UNCHANGED tasks
            BY <2>1, Zenon DEF TimeInv, StatNext, Tick, StatDequeue, StatFree, StatUpdate, RxRun,
                RxUpdate, RxReset, EntryGet, FullTest, EntryEnqueue, statConf
        <3>2. Mode'  BY <2>1, ModeStep DEF TimeInv
        <3>3. Timely'
            <4> SUFFICES ASSUME Cardinality(tasks)' = 1, ~reused', NEW r \in tasks' PROVE TimesOf(r)'
                BY DEF Timely
            <4>1. IsFiniteSet(tasks) /\ r \in RxTasks /\ r \in tasks
                BY <3>1, FS_Subset DEF TimeInv, StatInv, Steps
            <4>2. Cardinality(tasks) = 1 /\ ~reused  BY <3>1
            <4>3. tasks = {r}
                <5>1. PICK y : tasks = {y}  BY <4>1, <4>2, FS_Singleton
                <5> QED  BY <4>1, <5>1
            <4>4. TimesOf(r)  BY <4>1, <4>2 DEF TimeInv, Timely
            <4> QED  BY <2>1, <4>1, <4>3, <4>4, TimesStep
        <3> QED  BY <3>1, <3>2, <3>3
    <2>2. CASE UNCHANGED statVars
        BY <2>2 DEF statVars, statConf, TimeInv, Mode, Timely, TimesOf, Holding
    <2> QED  BY <2>1, <2>2
<1>3. TimeInv /\ [StatNext]_statVars =>
        [Cardinality(tasks) = 1 /\ ~reused /\ base_time' # base_time =>
            base_time' - base_time >= TimeUp]_statVars
    <2> SUFFICES ASSUME TimeInv, StatNext, Cardinality(tasks) = 1, ~reused, base_time' # base_time
                 PROVE  base_time' - base_time >= TimeUp
        OBVIOUS
    <2>0. IsFiniteSet(tasks) /\ tasks \subseteq RxTasks
        BY FS_Subset DEF TimeInv, StatInv, Steps
    <2>1. PICK x : tasks = {x}  BY <2>0, FS_Singleton
    <2>2. x \in RxTasks /\ TimesOf(x)  BY <2>0, <2>1 DEF TimeInv, Timely
    <2>3. StatUpdate \/ \E r \in RxTasks : RxReset(r)
        BY DEF StatNext, Tick, StatDequeue, StatFree, RxRun, RxUpdate, EntryGet, FullTest,
               EntryEnqueue
    <2>4. CASE StatUpdate
        <3>1. /\ stat.pc # "idle" /\ Expired(etime[stat.entry]) /\ base_time' = etime[stat.entry]
            BY <2>4 DEF StatUpdate
        <3>2. /\ etime[stat.entry] \in 0 .. MaxTime /\ base_time \in 0 .. MaxTime
            BY <3>1 DEF TimeInv, StatInv, StatTypeOK, Steps
        <3>3. base_time <= etime[stat.entry]  BY <2>2, <3>1 DEF TimesOf
        <3> QED  BY <3>1, <3>2, <3>3, ExpiredMeans
    <2>5. ASSUME NEW r \in RxTasks, RxReset(r) PROVE base_time' - base_time >= TimeUp
        <3>1. r = x  BY <2>1, <2>5 DEF RxReset, TimeInv, StatInv, Steps
        <3> QED  BY <2>2, <2>5, <3>1 DEF RxReset, TimesOf
    <2> QED  BY <2>3, <2>4, <2>5
<1> QED  BY <1>1, <1>2, <1>3, StatInvariant, PTL DEF StatSpec, TimeInv, PeriodForward
=============================================================================
