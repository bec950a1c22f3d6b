---------------------------- MODULE InventoryProofs ----------------------------
(***************************************************************************)
(* Proofs about Inventory for any users, items, catalog and slots: rows    *)
(* refer to rows that exist, and an equip uses the slot of the moment.     *)
(***************************************************************************)
EXTENDS Inventory, TLAPS

(* The inductive invariant. *)

\* equipped_items holds one row per user and slot.
TableOK ==
    /\ DOMAIN equipped = Users
    /\ \A u \in Users : equipped[u] \in [DOMAIN equipped[u] -> Items]

\* What a request has seen before its transaction is still so, items being
\* neither given away nor lost.
Decided ==
    \A r \in Requests : pc[r] \in {"locking", "upsert"} =>
        /\ call[r].kind = "equip" /\ slot[r] \in MascotSlots
        /\ Mine(r)

\* A catalog row is locked by the one request that is about to use its slot.
RowsLocked ==
    /\ \A r \in Requests : pc[r] = "upsert" => catalogLock[ItemOf[call[r].item]] = r
    /\ \A c \in Catalog : catalogLock[c] # None =>
          /\ pc[catalogLock[c]] = "upsert"
          /\ ItemOf[call[catalogLock[c]].item] = c

\* The slot decided on is that of the locked row.
SlotIsCurrent ==
    \A r \in Requests : pc[r] = "upsert" => slotKey[ItemOf[call[r].item]] = slot[r]

IInv == TypeOK /\ TableOK /\ Decided /\ RowsLocked /\ SlotIsCurrent

-----------------------------------------------------------------------------
\* Nothing is owned, worn or locked initially.
LEMMA InitInv == Init => IInv
  <1> SUFFICES ASSUME Init
               PROVE  IInv
    OBVIOUS
  <1>1. TypeOK
    BY DEF Init, TypeOK, Worn
  <1>2. TableOK
    BY DEF Init, TableOK
  <1>3. Decided /\ RowsLocked /\ SlotIsCurrent
    BY DEF Init, Decided, RowsLocked, SlotIsCurrent
  <1> QED
    BY <1>1, <1>2, <1>3 DEF IInv

\* What does not touch the rows worn keeps them in order.
LEMMA RowsKept ==
    ASSUME IInv, equipped' = equipped, owned \subseteq owned'
    PROVE  /\ TableOK'
           /\ \A u \in Users : /\ DOMAIN equipped'[u] \subseteq MascotSlots
                               /\ Worn(u)' \subseteq {i \in owned' : ItemUser[i] = u}
  BY DEF IInv, TypeOK, TableOK, Worn

\* Granting an item and moving it to another slot (admin.go UpdateItem).
LEMMA OthersInv ==
    ASSUME IInv,
           \/ \E i \in Items : Grant(i)
           \/ \E c \in Catalog, s \in Slots : UpdateItem(c, s)
    PROVE  IInv'
  <1>1. ASSUME NEW i \in Items, Grant(i)
        PROVE  IInv'
    <2>1. /\ owned' = owned \cup {i}
          /\ UNCHANGED <<slotKey, equipped, catalogLock, pc, call, slot, result>>
      BY <1>1 DEF Grant
    <2>2. TypeOK' /\ TableOK'
      BY <2>1, RowsKept DEF IInv, TypeOK
    <2>3. Decided' /\ RowsLocked' /\ SlotIsCurrent'
      BY <2>1 DEF IInv, Decided, RowsLocked, SlotIsCurrent, Mine
    <2> QED
      BY <2>2, <2>3 DEF IInv
  <1>2. ASSUME NEW c \in Catalog, NEW s \in Slots, UpdateItem(c, s)
        PROVE  IInv'
    <2>1. /\ catalogLock[c] = None /\ slotKey' = [slotKey EXCEPT ![c] = s]
          /\ UNCHANGED <<owned, equipped, catalogLock, pc, call, slot, result>>
      BY <1>2 DEF UpdateItem
    <2>2. TypeOK' /\ TableOK'
      BY <2>1, RowsKept DEF IInv, TypeOK
    <2>3. Decided' /\ RowsLocked'
      BY <2>1 DEF IInv, Decided, RowsLocked, Mine
    <2>4. ASSUME NEW r \in Requests, pc[r] = "upsert"
          PROVE  slotKey'[ItemOf[call[r].item]] = slot[r]
      <3>1. catalogLock[ItemOf[call[r].item]] = r /\ r # None
        BY <2>4, FreshAssumption DEF IInv, RowsLocked
      <3>2. slotKey'[ItemOf[call[r].item]] = slotKey[ItemOf[call[r].item]]
        BY <2>1, <3>1 DEF IInv, TypeOK
      <3> QED
        BY <2>4, <3>2 DEF IInv, SlotIsCurrent
    <2> QED
      BY <2>1, <2>2, <2>3, <2>4 DEF IInv, SlotIsCurrent
  <1> QED
    BY <1>1, <1>2

\* The reads before the transaction (service.go Equip).
LEMMA DecideInv ==
    ASSUME IInv, NEW r \in Requests, DecideSlot(r)
    PROVE  IInv'
  <1>1. UNCHANGED <<owned, slotKey, equipped, catalogLock, call>>
    BY DEF DecideSlot
  <1>2. /\ pc[r] = "idle" /\ call[r].kind = "equip"
        /\ pc' = [pc EXCEPT ![r] = pc'[r]] /\ slot' = [slot EXCEPT ![r] = slot'[r]]
        /\ \/ /\ pc'[r] = "locking" /\ Mine(r) /\ slot'[r] \in MascotSlots
              /\ UNCHANGED result
           \/ pc'[r] = "answered" /\ UNCHANGED slot
    BY DEF DecideSlot, Finish, IInv, TypeOK
  <1>3. result' \in [Requests -> {"none", "ok", "slotMismatch", "notFound", "error"}]
    BY DEF DecideSlot, Finish, IInv, TypeOK
  <1>4. TypeOK' /\ TableOK'
    <2>1. slot' \in [Requests -> MascotSlots \cup {None}]
      BY <1>2 DEF IInv, TypeOK
    <2>2. pc' \in [Requests -> {"idle", "locking", "upsert", "answered"}]
      BY <1>2 DEF IInv, TypeOK
    <2>3. TableOK' /\ \A u \in Users :
             /\ DOMAIN equipped'[u] \subseteq MascotSlots
             /\ Worn(u)' \subseteq {i \in owned' : ItemUser[i] = u}
      BY <1>1, RowsKept
    <2> QED
      BY <1>1, <1>3, <2>1, <2>2, <2>3 DEF IInv, TypeOK
  <1>5. Decided'
    BY <1>1, <1>2 DEF IInv, Decided, Mine, TypeOK
  <1>6. RowsLocked' /\ SlotIsCurrent'
    BY <1>1, <1>2 DEF IInv, RowsLocked, SlotIsCurrent, TypeOK
  <1> QED
    BY <1>4, <1>5, <1>6 DEF IInv

\* The transaction up to its upsert, or its end without one
\* (equip_repository.go EquipTx).
LEMMA LockInv ==
    ASSUME IInv, NEW r \in Requests, LockItem(r) \/ FailEquip(r)
    PROVE  IInv'
  <1> DEFINE c == ItemOf[call[r].item]
  <1>1. /\ c \in Catalog /\ r # None
        /\ \A q \in Requests : ItemOf[call[q].item] \in Catalog
    BY ItemAssumption, FreshAssumption DEF IInv, TypeOK, Calls
  <1>2. UNCHANGED <<owned, slotKey, equipped, call, slot>>
    BY DEF LockItem, FailEquip
  <1>3. /\ pc' = [pc EXCEPT ![r] = pc'[r]] /\ pc'[r] \in {"upsert", "answered"}
        /\ result' \in [Requests -> {"none", "ok", "slotMismatch", "notFound", "error"}]
    BY DEF LockItem, FailEquip, Finish, IInv, TypeOK
  <1>4. catalogLock' \in [Catalog -> Requests \cup {None}]
    BY DEF LockItem, FailEquip, IInv, TypeOK
  <1>5. TypeOK' /\ TableOK'
    BY <1>2, <1>3, <1>4, RowsKept DEF IInv, TypeOK
  <1>6. Decided'
    <2>1. pc[r] \in {"locking", "upsert"}
      BY DEF LockItem, FailEquip
    <2> QED
      BY <1>2, <1>3, <2>1 DEF IInv, Decided, Mine, TypeOK
  <1>7. CASE /\ pc[r] = "locking" /\ catalogLock[c] = None
             /\ pc'[r] = "upsert" /\ slotKey[c] = slot[r]
             /\ catalogLock' = [catalogLock EXCEPT ![c] = r]
    <2>1. RowsLocked'
      BY <1>1, <1>2, <1>3, <1>7, FreshAssumption DEF IInv, RowsLocked, TypeOK
    <2>2. SlotIsCurrent'
      BY <1>2, <1>3, <1>7 DEF IInv, SlotIsCurrent, TypeOK
    <2> QED
      BY <1>5, <1>6, <2>1, <2>2 DEF IInv
  <1>8. CASE pc[r] = "locking" /\ pc'[r] = "answered" /\ catalogLock' = catalogLock
    BY <1>1, <1>2, <1>3, <1>5, <1>6, <1>8, FreshAssumption
    DEF IInv, RowsLocked, SlotIsCurrent, TypeOK
  <1>9. CASE FailEquip(r)
    <2>1. /\ pc' = [pc EXCEPT ![r] = "answered"]
          /\ catalogLock' = [d \in Catalog |->
                               IF catalogLock[d] = r THEN None ELSE catalogLock[d]]
      BY <1>9 DEF FailEquip, Finish
    <2>2. RowsLocked'
      <3>1. \A q \in Requests : pc'[q] = "upsert" => q # r /\ pc[q] = "upsert"
        BY <2>1 DEF IInv, TypeOK
      <3>2. \A q \in Requests : pc'[q] = "upsert" => catalogLock'[ItemOf[call[q].item]] = q
        BY <1>1, <2>1, <3>1 DEF IInv, RowsLocked
      <3>3. \A d \in Catalog : catalogLock'[d] # None =>
              /\ catalogLock'[d] = catalogLock[d] /\ catalogLock[d] # r
              /\ catalogLock[d] \in Requests
        BY <2>1 DEF IInv, TypeOK
      <3>4. \A d \in Catalog : catalogLock'[d] # None =>
              /\ pc'[catalogLock'[d]] = "upsert"
              /\ ItemOf[call[catalogLock'[d]].item] = d
        BY <2>1, <3>3 DEF IInv, RowsLocked, TypeOK
      <3> QED
        BY <1>2, <3>2, <3>4 DEF RowsLocked
    <2>3. SlotIsCurrent'
      BY <1>2, <2>1 DEF IInv, SlotIsCurrent, TypeOK
    <2> QED
      BY <1>5, <1>6, <2>2, <2>3 DEF IInv
  <1> QED
    BY <1>3, <1>7, <1>8, <1>9 DEF LockItem, Finish, IInv, TypeOK

\* The upsert and the commit (equip_repository.go EquipTx): the row of the
\* locked item's slot is the item, and no other row of anybody changes.
LEMMA UpsertInv ==
    ASSUME IInv, NEW r \in Requests, UpsertEquipped(r)
    PROVE  IInv'
  <1>1. PICK u, i, s : u = call[r].user /\ i = call[r].item /\ s = slot[r]
    OBVIOUS
  <1>2. /\ pc[r] = "upsert" /\ pc' = [pc EXCEPT ![r] = "answered"]
        /\ result' = [result EXCEPT ![r] = "ok"]
        /\ equipped' = [equipped EXCEPT ![u] = Put(equipped[u], s, i)]
        /\ catalogLock' = [catalogLock EXCEPT ![ItemOf[i]] = None]
        /\ UNCHANGED <<owned, slotKey, call, slot>>
    BY <1>1 DEF UpsertEquipped, Finish, IInv, TableOK
  <1>3. /\ u \in Users /\ i \in Items /\ ItemOf[i] \in Catalog
        /\ s \in MascotSlots /\ i \in owned /\ ItemUser[i] = u
    BY <1>1, <1>2, ItemAssumption DEF IInv, TypeOK, Calls, Decided, Mine
  <1>4. /\ DOMAIN equipped'[u] = DOMAIN equipped[u] \cup {s}
        /\ equipped'[u] \in [DOMAIN equipped'[u] -> Items]
        /\ equipped'[u][s] = i
        /\ \A k \in DOMAIN equipped[u] \ {s} : equipped'[u][k] = equipped[u][k]
        /\ \A v \in Users \ {u} : equipped'[v] = equipped[v]
        /\ DOMAIN equipped' = Users
    <2>1. equipped[u] \in [DOMAIN equipped[u] -> Items] /\ DOMAIN equipped = Users
      BY <1>3 DEF IInv, TableOK
    <2>2. equipped'[u] = Put(equipped[u], s, i)
      BY <1>2, <1>3, <2>1
    <2>3. PICK slots : slots = equipped[u]
      OBVIOUS
    <2>4. /\ DOMAIN Put(slots, s, i) = DOMAIN slots \cup {s}
          /\ Put(slots, s, i) \in [DOMAIN Put(slots, s, i) -> Items]
          /\ Put(slots, s, i)[s] = i
          /\ \A k \in DOMAIN slots \ {s} : Put(slots, s, i)[k] = slots[k]
      BY <1>3, <2>1, <2>3 DEF Put
    <2> QED
      BY <1>2, <1>3, <2>1, <2>2, <2>3, <2>4
  <1>5. TableOK'
    BY <1>4 DEF IInv, TableOK
  <1>6. TypeOK'
    <2>1. ASSUME NEW v \in Users
          PROVE  /\ DOMAIN equipped'[v] \subseteq MascotSlots
                 /\ \A k \in DOMAIN equipped'[v] :
                       equipped'[v][k] \in {j \in owned : ItemUser[j] = v}
      <3>1. /\ DOMAIN equipped[v] \subseteq MascotSlots
            /\ \A k \in DOMAIN equipped[v] :
                  equipped[v][k] \in {j \in owned : ItemUser[j] = v}
        BY DEF IInv, TypeOK, Worn
      <3>2. CASE v = u
        BY <1>3, <1>4, <3>1, <3>2
      <3>3. CASE v # u
        BY <1>4, <3>1, <3>3
      <3> QED
        BY <3>2, <3>3
    <2>2. \A v \in Users : Worn(v)' \subseteq {j \in owned' : ItemUser[j] = v}
      BY <1>2, <2>1 DEF Worn
    <2>3. catalogLock' \in [Catalog -> Requests \cup {None}]
      BY <1>2 DEF IInv, TypeOK
    <2> QED
      BY <1>2, <2>1, <2>2, <2>3 DEF IInv, TypeOK
  <1>7. Decided'
    BY <1>2 DEF IInv, Decided, Mine, TypeOK
  <1>8. RowsLocked'
    <2>1. catalogLock[ItemOf[i]] = r /\ r # None
      BY <1>1, <1>2, FreshAssumption DEF IInv, RowsLocked
    <2>2. \A q \in Requests : pc'[q] = "upsert" => q # r /\ pc[q] = "upsert"
      BY <1>2 DEF IInv, TypeOK
    <2>3. \A q \in Requests : pc'[q] = "upsert" =>
            catalogLock[ItemOf[call[q].item]] = q /\ ItemOf[call[q].item] # ItemOf[i]
      BY <2>1, <2>2 DEF IInv, RowsLocked
    <2>4. \A q \in Requests : pc'[q] = "upsert" => catalogLock'[ItemOf[call[q].item]] = q
      BY <1>2, <2>3, ItemAssumption DEF IInv, TypeOK, Calls
    <2>5. \A d \in Catalog : catalogLock'[d] # None =>
            /\ d # ItemOf[i] /\ catalogLock'[d] = catalogLock[d]
            /\ catalogLock[d] \in Requests
      BY <1>2 DEF IInv, TypeOK
    <2>6. \A d \in Catalog : catalogLock'[d] # None =>
            /\ pc'[catalogLock'[d]] = "upsert" /\ ItemOf[call[catalogLock'[d]].item] = d
      BY <1>1, <1>2, <2>5 DEF IInv, RowsLocked, TypeOK
    <2> QED
      BY <1>2, <2>4, <2>6 DEF RowsLocked
  <1>9. SlotIsCurrent'
    BY <1>2 DEF IInv, SlotIsCurrent, TypeOK
  <1> QED
    BY <1>5, <1>6, <1>7, <1>8, <1>9 DEF IInv

\* The delete of an item's rows (equip_repository.go UnequipTx).
LEMMA UnequipInv ==
    ASSUME IInv, NEW r \in Requests, Unequip(r)
    PROVE  IInv'
  <1>1. PICK u, i : u = call[r].user /\ i = call[r].item
    OBVIOUS
  <1>2. /\ pc[r] = "idle" /\ pc' = [pc EXCEPT ![r] = "answered"]
        /\ equipped' = [equipped EXCEPT ![u] =
              [s \in {x \in DOMAIN equipped[u] : equipped[u][x] # i} |-> equipped[u][s]]]
        /\ UNCHANGED <<owned, slotKey, catalogLock, call, slot>>
    BY <1>1 DEF Unequip, Finish, IInv, TableOK
  <1>3. result' \in [Requests -> {"none", "ok", "slotMismatch", "notFound", "error"}]
    BY DEF Unequip, Finish, IInv, TypeOK
  <1>4. u \in Users /\ DOMAIN equipped = Users
    BY <1>1 DEF IInv, TypeOK, TableOK, Calls
  <1>5. /\ DOMAIN equipped' = Users
        /\ \A v \in Users \ {u} : equipped'[v] = equipped[v]
        /\ equipped'[u] =
              [s \in {x \in DOMAIN equipped[u] : equipped[u][x] # i} |-> equipped[u][s]]
    BY <1>2, <1>4
  <1>6. TableOK'
    <2>1. equipped'[u] \in [DOMAIN equipped'[u] -> Items]
      BY <1>4, <1>5 DEF IInv, TableOK
    <2> QED
      BY <1>5, <2>1 DEF IInv, TableOK
  <1>7. TypeOK'
    <2>1. ASSUME NEW v \in Users
          PROVE  /\ DOMAIN equipped'[v] \subseteq DOMAIN equipped[v]
                 /\ \A k \in DOMAIN equipped'[v] : equipped'[v][k] = equipped[v][k]
      <3>1. CASE v = u
        BY <1>5, <3>1
      <3>2. CASE v # u
        BY <1>5, <3>2
      <3> QED
        BY <3>1, <3>2
    <2>2. \A v \in Users : /\ DOMAIN equipped'[v] \subseteq MascotSlots
                           /\ Worn(v)' \subseteq {j \in owned' : ItemUser[j] = v}
      <3>1. ASSUME NEW v \in Users
            PROVE  /\ DOMAIN equipped[v] \subseteq MascotSlots
                   /\ \A k \in DOMAIN equipped[v] :
                         equipped[v][k] \in {j \in owned : ItemUser[j] = v}
        BY DEF Worn, IInv, TypeOK
      <3>2. \A v \in Users : \A k \in DOMAIN equipped'[v] :
               equipped'[v][k] \in {j \in owned : ItemUser[j] = v}
        BY <2>1, <3>1
      <3>3. ASSUME NEW v \in Users
            PROVE  Worn(v)' \subseteq {j \in owned' : ItemUser[j] = v}
        <4>1. owned' = owned
          BY <1>2
        <4>2. \A k \in DOMAIN equipped'[v] :
                 equipped'[v][k] \in owned /\ ItemUser[equipped'[v][k]] = v
          BY <3>2
        <4> QED
          BY <4>1, <4>2 DEF Worn
      <3>4. \A v \in Users : DOMAIN equipped'[v] \subseteq MascotSlots
        BY <2>1, <3>1
      <3> QED
        BY <3>3, <3>4
    <2> QED
      BY <1>2, <1>3, <2>2 DEF IInv, TypeOK
  <1>8. Decided' /\ RowsLocked' /\ SlotIsCurrent'
    BY <1>2 DEF IInv, Decided, Mine, RowsLocked, SlotIsCurrent, TypeOK
  <1> QED
    BY <1>6, <1>7, <1>8 DEF IInv

\* Every step keeps the invariant.
LEMMA NextInv == IInv /\ [Next]_vars => IInv'
  <1> SUFFICES ASSUME IInv, [Next]_vars
               PROVE  IInv'
    OBVIOUS
  <1>1. CASE UNCHANGED vars
    BY <1>1 DEF vars, IInv, TypeOK, Worn, TableOK, Decided, Mine, RowsLocked, SlotIsCurrent
  <1> QED
    BY <1>1, OthersInv, DecideInv, LockInv, UpsertInv, UnequipInv DEF Next, Start, Step

\* The invariant holds in every reachable state.
LEMMA Inductive == Spec => []IInv
  BY InitInv, NextInv, PTL DEF Spec

-----------------------------------------------------------------------------
(* The properties. *)

\* Worn items are granted ones, and nobody wears what another user owns
\* (the foreign keys and the ownership checks of equip_repository.go).
THEOREM TypeCorrect == Spec => []TypeOK
  BY Inductive, PTL DEF IInv

\* An equip uses the slot the catalog gives the item when it commits, replaces
\* what was there and touches no other slot, although the slot was chosen from
\* an earlier read (service.go Equip, equip_repository.go EquipTx).
THEOREM EquipReplacesItsSlot == Spec => EquipReplacesSlot
  <1> DEFINE Equipped(r) ==
                LET u == call[r].user
                    key == slotKey[ItemOf[call[r].item]]
                IN  /\ key \in DOMAIN equipped'[u] /\ equipped'[u][key] = call[r].item
                    /\ \A s \in Slots \ {key} :
                         /\ s \in DOMAIN equipped'[u] <=> s \in DOMAIN equipped[u]
                         /\ s \in DOMAIN equipped[u] => equipped'[u][s] = equipped[u][s]
             Succeeds(r) == /\ call[r].kind = "equip" /\ pc[r] # "answered"
                            /\ pc'[r] = "answered" /\ result'[r] = "ok"
  <1>1. ASSUME IInv, [Next]_vars, NEW r \in Requests, Succeeds(r)
        PROVE  Equipped(r)
    <2>1. UpsertEquipped(r)
      <3>1. /\ pc \in [Requests -> {"idle", "locking", "upsert", "answered"}]
            /\ result \in [Requests -> {"none", "ok", "slotMismatch", "notFound", "error"}]
        BY <1>1 DEF IInv, TypeOK
      <3>2. pc'[r] # pc[r]
        BY <1>1
      <3>3. ASSUME NEW q \in Requests, Start(q) \/ Step(q) \/ FailEquip(q)
            PROVE  q = r /\ ~DecideSlot(q) /\ ~LockItem(q) /\ ~FailEquip(q) /\ ~Unequip(q)
        <4>1. q = r
          BY <1>1, <3>1, <3>2, <3>3
          DEF Start, Step, DecideSlot, Unequip, LockItem, UpsertEquipped, FailEquip, Finish
        <4>2. ~Unequip(q)
          BY <1>1, <4>1 DEF Unequip
        <4>3. ~DecideSlot(q) /\ ~LockItem(q) /\ ~FailEquip(q)
          BY <1>1, <3>1, <4>1 DEF DecideSlot, LockItem, FailEquip, Finish
        <4> QED
          BY <4>1, <4>2, <4>3
      <3>4. ASSUME \/ \E i \in Items : Grant(i)
                   \/ \E c \in Catalog, s \in Slots : UpdateItem(c, s)
            PROVE  pc'[r] = pc[r]
        BY <3>4 DEF Grant, UpdateItem
      <3> QED
        BY <1>1, <3>2, <3>3, <3>4 DEF Next, vars, Start, Step
    <2>2. PICK u, i, s : u = call[r].user /\ i = call[r].item /\ s = slot[r]
      OBVIOUS
    <2>3. s = slotKey[ItemOf[i]] /\ u \in Users /\ i \in Items
      BY <1>1, <2>1, <2>2 DEF UpsertEquipped, IInv, SlotIsCurrent, TypeOK, Calls
    <2>4. PICK slots : slots = equipped[u]
      OBVIOUS
    <2>5. /\ slots \in [DOMAIN slots -> Items] /\ DOMAIN equipped = Users
      BY <1>1, <2>3, <2>4 DEF IInv, TableOK
    <2>6. equipped'[u] = Put(slots, s, i)
      BY <2>1, <2>2, <2>3, <2>4, <2>5 DEF UpsertEquipped
    <2>7. /\ DOMAIN Put(slots, s, i) = DOMAIN slots \cup {s}
          /\ Put(slots, s, i)[s] = i
          /\ \A k \in DOMAIN slots \ {s} : Put(slots, s, i)[k] = slots[k]
      BY <2>3, <2>5 DEF Put
    <2> QED
      BY <2>2, <2>3, <2>4, <2>6, <2>7
  <1>2. IInv /\ [Next]_vars => [\A r \in Requests : Succeeds(r) => Equipped(r)]_vars
    BY <1>1
  <1> QED
    BY <1>2, Inductive, PTL DEF Spec, EquipReplacesSlot

=============================================================================
