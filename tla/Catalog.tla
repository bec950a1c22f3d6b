------------------------------ MODULE Catalog ------------------------------
(***************************************************************************)
(* The administrator's changes of the item catalog.  Each is a transaction *)
(* that writes its row and its entry of the audit log together.  A row is  *)
(* locked from the write to the end of the transaction; the unique index   *)
(* on the name makes a write of a name wait for every open transaction     *)
(* that holds a row of this name, or is about to give it to one.  An       *)
(* upload writes a file before it writes the row.                          *)
(***************************************************************************)
EXTENDS Requests

VARIABLES
    items,          \* inventory_items
    file            \* the file of an upload: none, part or whole

catalogVars == <<items, file>>

CatalogInit ==
    /\ items = mix.items
    /\ file = [c \in Calls |-> "none"]

Item(c) == IF req[c].op = "createItem" THEN c ELSE req[c].item

\* The name a call writes, None if it leaves the name alone.
NewName(c) == IF "name" \in DOMAIN req[c].fields THEN req[c].fields.name ELSE None

rarityAllowlist == {"common", "rare", "epic", "legendary"}
MaxMultiplier == 999999                     \* numeric(6,3), in thousandths

\* A text that is given but blank is None.
Filled(fields, f) == f \in DOMAIN fields => fields[f] # None
ValidMultiplier(fields) ==
    "base_xp_multiplier" \in DOMAIN fields => fields.base_xp_multiplier >= 1000

validItemInput(fields) ==
    /\ {"name", "slot_key", "rarity"} \subseteq DOMAIN fields
    /\ fields.rarity \in rarityAllowlist
    /\ Filled(fields, "name") /\ Filled(fields, "slot_key") /\ ValidMultiplier(fields)
validItemPatch(fields) ==
    Filled(fields, "name") /\ Filled(fields, "slot_key") /\ ValidMultiplier(fields)

\* The bound is missing above: the database refuses the row.
Storable(fields) ==
    "base_xp_multiplier" \in DOMAIN fields => fields.base_xp_multiplier <= MaxMultiplier

NewItem(c) ==
    LET given == req[c].fields
    IN  [name |-> given.name, slot_key |-> given.slot_key, rarity |-> given.rarity,
         base_xp_multiplier |-> IF "base_xp_multiplier" \in DOMAIN given
                                THEN given.base_xp_multiplier ELSE 1000,
         active |-> TRUE, asset |-> None, created |-> at[c]]

-----------------------------------------------------------------------------
(* Locks. *)

HoldsRow(d, i) ==
    /\ pc[d] \in {"i_name", "i_commit"}
    /\ req[d].op # "createItem" /\ req[d].item = i

Holder(i) == {d \in Calls : HoldsRow(d, i)}

\* d keeps others from writing the name.
HoldsName(d, name) ==
    \/ pc[d] = "i_commit" /\ NewName(d) = name
    \/ \E i \in DOMAIN items : items[i].name = name /\ HoldsRow(d, i)

WaitsForName(c, d) == c # d /\ pc[c] = "i_name" /\ HoldsName(d, NewName(c))

-----------------------------------------------------------------------------
(* Creating, editing and disabling an item. *)

BeginItem(c, valid) ==
    IF ~valid THEN Answer(c, "invalid_input")
    ELSE IF ~Storable(req[c].fields) THEN Answer(c, "internal")
    ELSE IF NewName(c) = None THEN Go(c, "i_commit") ELSE Go(c, "i_name")

CreateItem(c) ==
    /\ pc[c] = "createItem"
    /\ BeginItem(c, validItemInput(req[c].fields))
    /\ UNCHANGED <<limiterVars, audit, catalogVars>>

\* The UPDATE of a row waits for its lock.
UpdateItem(c) ==
    /\ pc[c] = "updateItem"
    /\ IF ~validItemPatch(req[c].fields) THEN Answer(c, "invalid_input")
       ELSE IF Item(c) \notin DOMAIN items THEN Answer(c, "not_found")
       ELSE Holder(Item(c)) = {} /\ BeginItem(c, TRUE)
    /\ UNCHANGED <<limiterVars, audit, catalogVars>>

\* The unique index on the name.
WriteName(c) ==
    /\ pc[c] = "i_name"
    /\ \A d \in Calls : ~WaitsForName(c, d)
    /\ IF \E i \in DOMAIN items \ {Item(c)} : items[i].name = NewName(c)
       THEN Answer(c, "conflict") ELSE Go(c, "i_commit")
    /\ UNCHANGED <<limiterVars, audit, catalogVars>>

\* Two renames may each wait for the name of the other one's row.
NameDeadlock(c) ==
    /\ pc[c] = "i_name"
    /\ InCircle(c, {p \in Calls \X Calls : WaitsForName(p[1], p[2])})
    /\ Answer(c, "internal")
    /\ UNCHANGED <<limiterVars, audit, catalogVars>>

DisableItem(c) ==
    /\ pc[c] = "disableItem"
    /\ IF Item(c) \notin DOMAIN items THEN Answer(c, "not_found")
       ELSE Holder(Item(c)) = {} /\ Go(c, "i_commit")
    /\ UNCHANGED <<limiterVars, audit, catalogVars>>

ActionOf ==
    [createItem |-> "item.create", updateItem |-> "item.update",
     disableItem |-> "item.disable", uploadAsset |-> "asset.upload"]

Written(c) ==
    LET i == Item(c)
        given == IF req[c].op = "updateItem" THEN req[c].fields ELSE <<>>
    IN  IF req[c].op = "createItem" THEN NewItem(c)
        ELSE [f \in DOMAIN items[i] |->
                 CASE f = "active" /\ req[c].op = "disableItem" -> FALSE
                   [] f = "asset" /\ req[c].op = "uploadAsset" -> c
                   [] f \in DOMAIN given -> given[f]
                   [] OTHER -> items[i][f]]

\* Mutant: the entry of the log is written after the commit, and may be missing.
CommitItemThenAudit(c) ==
    /\ pc[c] = "i_commit"
    /\ items' = [i \in DOMAIN items \cup {Item(c)} |->
                    IF i = Item(c) THEN Written(c) ELSE items[i]]
    /\ BestEffortAudit(c, ActionOf[req[c].op])
    /\ AnswerCommit(c, "ok")
    /\ UNCHANGED <<limiterVars, file>>

\* The row and the entry of the log, in one commit.
CommitItem(c) ==
    /\ pc[c] = "i_commit"
    /\ items' = [i \in DOMAIN items \cup {Item(c)} |->
                    IF i = Item(c) THEN Written(c) ELSE items[i]]
    /\ Audited(c, ActionOf[req[c].op])
    /\ AnswerCommit(c, "ok")
    /\ UNCHANGED <<limiterVars, file>>

GetItem(c) ==
    /\ pc[c] = "getItem"
    /\ Answer(c, IF Item(c) \in DOMAIN items THEN "ok" ELSE "not_found")
    /\ UNCHANGED <<limiterVars, audit, catalogVars>>

-----------------------------------------------------------------------------
(* Uploading the image of an item. *)

\* The type is taken from the content; the item is looked up once before.
UploadAsset(c) ==
    /\ pc[c] = "uploadAsset"
    /\ IF req[c].content = "too_large" THEN Answer(c, "too_large")
       ELSE IF req[c].content \notin {"png", "jpg", "webp"} THEN Answer(c, "invalid_type")
       ELSE IF Item(c) \notin DOMAIN items THEN Answer(c, "not_found")
       ELSE Go(c, "a_create")
    /\ UNCHANGED <<limiterVars, audit, catalogVars>>

\* A new file under a random name; writing it may stop half way.
CreateFile(c) ==
    /\ pc[c] = "a_create"
    /\ file' = [file EXCEPT ![c] = "part"]
    /\ Go(c, "a_write")
    /\ UNCHANGED <<limiterVars, audit, items>>

\* Mutant: the error of a short write is not looked at.
WriteFileUnchecked(c) ==
    /\ pc[c] = "a_write"
    /\ file' = [file EXCEPT ![c] = "whole"] \/ UNCHANGED file
    /\ Go(c, "a_update")
    /\ UNCHANGED <<limiterVars, audit, items>>

WriteFile(c) ==
    /\ pc[c] = "a_write"
    /\ file' = [file EXCEPT ![c] = "whole"]
    /\ Go(c, "a_update")
    /\ UNCHANGED <<limiterVars, audit, items>>

SetItemAsset(c) ==
    /\ pc[c] = "a_update"
    /\ IF Item(c) \notin DOMAIN items THEN Answer(c, "not_found")
       ELSE Holder(Item(c)) = {} /\ Go(c, "i_commit")
    /\ UNCHANGED <<limiterVars, audit, catalogVars>>

CatalogStep(c) ==
    \/ CreateItem(c) \/ UpdateItem(c) \/ WriteName(c) \/ NameDeadlock(c)
    \/ DisableItem(c) \/ CommitItem(c) \/ GetItem(c)
    \/ UploadAsset(c) \/ CreateFile(c) \/ WriteFile(c) \/ SetItemAsset(c)

-----------------------------------------------------------------------------
EntriesOf(c) == {n \in DOMAIN audit : audit[n].call = c /\ audit[n].action # "admin.role_denied"}
Latest(S) == CHOOSE n \in S : \A m \in S : m <= n

\* The entries that name the item, of the given action.
EntriesOn(i, action) ==
    {n \in DOMAIN audit : audit[n].action = action /\ Item(audit[n].call) = i}

\* The log and the catalog tell one story: a change that was confirmed is logged
\* once, one that was refused is not, an item is disabled exactly if the log says
\* so, exists exactly if it was there or the log says it was created, and shows
\* the image of the last upload the log has of it.  Last is the order in which the
\* entries were committed, not that of the times they carry, which are those of
\* the begins of their transactions.
AuditTrail ==
    /\ \A c \in Calls : req[c] # None /\ req[c].op \in DOMAIN ActionOf =>
          /\ Cardinality(EntriesOf(c)) <= 1
          /\ Answered(c, {"ok"}) => EntriesOf(c) # {}
          /\ pc[c] # "done" \/ ~Answered(c, {"ok", "internal"}) => EntriesOf(c) = {}
          /\ req[c].op = "createItem" => (c \in DOMAIN items <=> EntriesOf(c) # {})
    /\ \A i \in DOMAIN items :
          LET uploads == EntriesOn(i, "asset.upload")
          IN  /\ ~items[i].active <=> EntriesOn(i, "item.disable") # {}
              /\ items[i].asset = IF uploads = {} THEN None ELSE audit[Latest(uploads)].call

\* The image an item shows has been written to the end, whatever writes stopped
\* half way and whichever upload of the item was the last.
AssetServed ==
    \A i \in DOMAIN items : items[i].asset # None => file[items[i].asset] = "whole"

=============================================================================
