------------------------------ MODULE Inventory ------------------------------
(***************************************************************************)
(* Equipping and unequipping owned items while the administrator edits the *)
(* catalog.  An equip request decides the slot from rows it has read       *)
(* before its transaction; the transaction locks the item and its catalog  *)
(* row, checks that the slot is still the one decided on, and upserts the  *)
(* equipped row of that slot.                                              *)
(***************************************************************************)
EXTENDS Integers, FiniteSets

CONSTANTS
    Users,
    Items,          \* user_inventory_items that may come to exist
    Catalog,        \* inventory_items
    Slots,          \* slot keys an administrator may give an item
    Requests,       \* calls of equip and unequip
    ItemUser,       \* the user of an owned item
    ItemOf,         \* its catalog item
    MascotSlots,    \* the slots of the active mascot
    EditSlots,      \* whether the administrator moves items between slots
    None

ASSUME ItemAssumption ==
    /\ ItemUser \in [Items -> Users]
    /\ ItemOf \in [Items -> Catalog]
ASSUME SlotAssumption == MascotSlots \subseteq Slots /\ EditSlots \in BOOLEAN
ASSUME FreshAssumption == None \notin Requests \cup Slots \cup Items

VARIABLES
    owned,          \* the items granted so far
    slotKey,        \* inventory_items.slot_key
    equipped,       \* equipped_items: per user, the item of each used slot
    catalogLock,    \* the equip request holding FOR UPDATE on a catalog row
    pc,
    call,           \* the user, the item and the kind of a request
    slot,           \* the slot a request has decided on
    result          \* its outcome

vars == <<owned, slotKey, equipped, catalogLock, pc, call, slot, result>>

Calls == [kind : {"equip", "unequip"}, user : Users, item : Items]

Init ==
    /\ owned = {}
    /\ slotKey \in [Catalog -> Slots]
    /\ equipped = [u \in Users |-> [s \in {} |-> None]]
    /\ catalogLock = [c \in Catalog |-> None]
    /\ pc = [r \in Requests |-> "idle"]
    /\ call \in [Requests -> Calls]
    /\ slot = [r \in Requests |-> None]
    /\ result = [r \in Requests |-> "none"]

Put(slots, s, i) == [k \in DOMAIN slots \cup {s} |-> IF k = s THEN i ELSE slots[k]]

Worn(u) == {equipped[u][s] : s \in DOMAIN equipped[u]}

Finish(r, outcome) ==
    /\ pc' = [pc EXCEPT ![r] = "answered"]
    /\ result' = [result EXCEPT ![r] = outcome]

-----------------------------------------------------------------------------
(* The rest of the system: completions grant items, the administrator edits  *)
(* the slot of a catalog item; the update waits for the row lock.            *)

Grant(i) ==
    /\ i \notin owned
    /\ owned' = owned \cup {i}
    /\ UNCHANGED <<slotKey, equipped, catalogLock, pc, call, slot, result>>

UpdateItem(c, s) ==
    /\ EditSlots
    /\ catalogLock[c] = None
    /\ slotKey' = [slotKey EXCEPT ![c] = s]
    /\ UNCHANGED <<owned, equipped, catalogLock, pc, call, slot, result>>

-----------------------------------------------------------------------------
(* Equip *)

\* Mutant: the owner of the item is not looked at.
MineAnyUser(r) == call[r].item \in owned

Mine(r) == call[r].item \in owned /\ ItemUser[call[r].item] = call[r].user

\* ListOwned, ActiveMascot and slotAccepted.
DecideSlot(r) ==
    LET mine == Mine(r)
        key == slotKey[ItemOf[call[r].item]]
    IN  /\ pc[r] = "idle" /\ call[r].kind = "equip"
        /\ IF mine /\ key \in MascotSlots
           THEN /\ pc' = [pc EXCEPT ![r] = "locking"]
                /\ slot' = [slot EXCEPT ![r] = key]
                /\ UNCHANGED result
           ELSE /\ Finish(r, IF mine THEN "slotMismatch" ELSE "notFound")
                /\ UNCHANGED slot
        /\ UNCHANGED <<owned, slotKey, equipped, catalogLock, call>>

\* Mutant: the slot read before the transaction is not compared again.
LockItemUnchecked(r) ==
    LET c == ItemOf[call[r].item]
    IN  /\ pc[r] = "locking"
        /\ catalogLock[c] = None
        /\ pc' = [pc EXCEPT ![r] = "upsert"]
        /\ catalogLock' = [catalogLock EXCEPT ![c] = r]
        /\ UNCHANGED <<owned, slotKey, equipped, call, slot, result>>

\* SELECT ... FOR UPDATE of the item joined with its catalog row.
LockItem(r) ==
    LET c == ItemOf[call[r].item]
    IN  /\ pc[r] = "locking"
        /\ catalogLock[c] = None
        /\ IF Mine(r) /\ slotKey[c] = slot[r]
           THEN /\ pc' = [pc EXCEPT ![r] = "upsert"]
                /\ catalogLock' = [catalogLock EXCEPT ![c] = r]
                /\ UNCHANGED result
           ELSE /\ Finish(r, IF Mine(r) THEN "slotMismatch" ELSE "notFound")
                /\ UNCHANGED catalogLock
        /\ UNCHANGED <<owned, slotKey, equipped, call, slot>>

\* Mutant: the upsert adds the item to a free slot only.
UpsertKeepsOld(r) ==
    LET u == call[r].user
        c == ItemOf[call[r].item]
    IN  /\ pc[r] = "upsert"
        /\ equipped' = [equipped EXCEPT ![u] =
              IF slot[r] \in DOMAIN @ THEN @ ELSE Put(@, slot[r], call[r].item)]
        /\ catalogLock' = [catalogLock EXCEPT ![c] = None]
        /\ Finish(r, "ok")
        /\ UNCHANGED <<owned, slotKey, call, slot>>

\* INSERT ... ON CONFLICT (user_id, slot_key) DO UPDATE, and the commit.
UpsertEquipped(r) ==
    LET u == call[r].user
        c == ItemOf[call[r].item]
    IN  /\ pc[r] = "upsert"
        /\ equipped' = [equipped EXCEPT ![u] = Put(@, slot[r], call[r].item)]
        /\ catalogLock' = [catalogLock EXCEPT ![c] = None]
        /\ Finish(r, "ok")
        /\ UNCHANGED <<owned, slotKey, call, slot>>

\* Mutant: the row lock outlives the failed request.
FailKeepingLock(r) ==
    /\ pc[r] \in {"locking", "upsert"}
    /\ Finish(r, "error")
    /\ UNCHANGED <<owned, slotKey, equipped, catalogLock, call, slot>>

\* A failing statement, or a caller that goes away, rolls the transaction back.
FailEquip(r) ==
    /\ pc[r] \in {"locking", "upsert"}
    /\ catalogLock' = [c \in Catalog |->
                          IF catalogLock[c] = r THEN None ELSE catalogLock[c]]
    /\ Finish(r, "error")
    /\ UNCHANGED <<owned, slotKey, equipped, call, slot>>

-----------------------------------------------------------------------------
(* Unequip *)

\* DELETE of every equipped row of this user and item.
Unequip(r) ==
    LET u == call[r].user
        i == call[r].item
    IN  /\ pc[r] = "idle" /\ call[r].kind = "unequip"
        /\ Finish(r, IF i \in Worn(u) THEN "ok" ELSE "notFound")
        /\ equipped' = [equipped EXCEPT ![u] =
              [s \in {x \in DOMAIN @ : @[x] # i} |-> @[s]]]
        /\ UNCHANGED <<owned, slotKey, catalogLock, call, slot>>

-----------------------------------------------------------------------------
Step(r) ==
    \/ LockItem(r)
    \/ UpsertEquipped(r)

Start(r) == DecideSlot(r) \/ Unequip(r)

Next ==
    \/ \E r \in Requests : Start(r) \/ Step(r) \/ FailEquip(r)
    \/ \E i \in Items : Grant(i)
    \/ \E c \in Catalog, s \in Slots : UpdateItem(c, s)

Spec == Init /\ [][Next]_vars

\* A request the server works on is not abandoned, and a statement that waits
\* for nobody returns; nothing has to fail.
FairSpec == Spec /\ \A r \in Requests : WF_vars(Step(r))

-----------------------------------------------------------------------------
\* Rows refer to rows that exist: worn and locked items are granted ones, and
\* nobody wears what another user owns.
TypeOK ==
    /\ owned \subseteq Items
    /\ slotKey \in [Catalog -> Slots]
    /\ \A u \in Users :
          /\ DOMAIN equipped[u] \subseteq MascotSlots
          /\ Worn(u) \subseteq {i \in owned : ItemUser[i] = u}
    /\ catalogLock \in [Catalog -> Requests \cup {None}]
    /\ pc \in [Requests -> {"idle", "locking", "upsert", "answered"}]
    /\ call \in [Requests -> Calls]
    /\ slot \in [Requests -> MascotSlots \cup {None}]
    /\ result \in [Requests -> {"none", "ok", "slotMismatch", "notFound", "error"}]

\* A successful equip puts the item into the slot the catalog gives it at that
\* very moment, although the slot was chosen from an earlier read and the
\* administrator may have moved the item in between, replaces what was there
\* and touches no other slot (packet P07: one item per user slot).
EquipReplacesSlot ==
    [][\A r \in Requests :
          (/\ call[r].kind = "equip" /\ pc[r] # "answered"
           /\ pc'[r] = "answered" /\ result'[r] = "ok") =>
             LET u == call[r].user
                 key == slotKey[ItemOf[call[r].item]]
             IN  /\ key \in DOMAIN equipped'[u] /\ equipped'[u][key] = call[r].item
                 /\ \A s \in Slots \ {key} :
                      /\ s \in DOMAIN equipped'[u] <=> s \in DOMAIN equipped[u]
                      /\ s \in DOMAIN equipped[u] => equipped'[u][s] = equipped[u][s]
      ]_vars

\* Every equip the server has started ends, also when requests meet on the same
\* catalog row and one of them fails.
EveryEquipAnswered ==
    \A r \in Requests : pc[r] = "locking" ~> pc[r] = "answered"

-----------------------------------------------------------------------------
(* A statement of the documentation that the code does not keep. *)

\* "equipment_xp_multiplier = product(equipped_item.xp_multiplier)" over the
\* worn items: the rows multiplied are the worn items, each of them once.
EachItemCountsOnce ==
    \A u \in Users : Cardinality(DOMAIN equipped[u]) = Cardinality(Worn(u))

=============================================================================
