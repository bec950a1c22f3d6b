------------------------------- MODULE Server -------------------------------
(***************************************************************************)
(* The server: requests of any service side by side, over one database.    *)
(***************************************************************************)
EXTENDS AdminReads, Visual

\* The endpoints, as their handlers are registered.
Operations ==
    {"register", "login", "me", "getProfile", "patchProfile", "getProgression",
     "getSettings", "patchSettings", "getVisual", "refreshVisual", "createTask",
     "listTasks", "getTask", "patchTask", "archiveTask", "getCategories", "listUsers",
     "listItems", "getItem", "listLogs", "stats", "createItem", "updateItem",
     "disableItem", "uploadAsset"}

\* Settings and looks are asked for with a token, stored settings have a place for
\* each key, the seed has active items without images, and an edit of an item
\* reaches neither its image, its rarity or its age nor whether it is active.
ASSUME WorkloadAssumption ==
    /\ {"getSettings", "patchSettings", "refreshVisual"} \cap PublicOps = {}
    /\ \A m \in DOMAIN Mixes :
           /\ DOMAIN Mixes[m].known \subseteq Users
           /\ \A rows \in Mixes[m].rows : rows = [k \in SettingKeys |-> rows[k]]
           /\ \A i \in DOMAIN Mixes[m].items :
                 /\ i \notin Calls
                 /\ "asset" \in DOMAIN Mixes[m].items[i] /\ Mixes[m].items[i].asset = None
                 /\ "active" \in DOMAIN Mixes[m].items[i] /\ Mixes[m].items[i].active = TRUE
           /\ \A r \in Mixes[m].requests :
                 /\ r.op \in Operations /\ r.user \in Users
                 /\ r.op \in Scopes => r.address \in Addresses
                 /\ r.op \in {"register", "login"} => r.email \in Emails
                 /\ r.op = "updateItem" =>
                       {"asset", "active", "rarity", "created"} \cap DOMAIN r.fields = {}

\* None is no setting, no account, no look and no request.
ASSUME AbsenceAssumption ==
    /\ \A k \in SettingKeys : defaultSettings[k] # None
    /\ \A m \in DOMAIN Mixes : \A u \in DOMAIN Mixes[m].known : SeededRow(Mixes[m].known[u], u) # None
    /\ \A c \in Calls : roll(c) # None
    /\ \A m \in DOMAIN Mixes : None \notin Mixes[m].requests
    /\ \A m \in DOMAIN Mixes : \A r \in Mixes[m].requests : r.op = "register" =>
          None \notin [email : {r.email}, role : {"user"}, password : {r.password},
                       by : Calls, created : Int]

ASSUME SlotAssumption == Slots # {}

\* What rows are sorted by: names and texts are numbers in alphabetical order.
ItemSorts(item) ==
    /\ {"name", "slot_key", "rarity", "created"} \subseteq DOMAIN item
    /\ {item.name, item.slot_key, item.created} \subseteq Int
    /\ item.rarity \in rarityAllowlist
TaskSorts(row) ==
    /\ {"deadline", "created"} \subseteq DOMAIN row
    /\ row.deadline \in Int \cup {None} /\ row.created \in Int

\* There are finitely many rows, which can be sorted; a patch of a task leaves alone
\* when it was created; and the seed has the e-mail of each user.
ASSUME SortAssumption ==
    /\ Lists \subseteq {"listTasks", "listUsers", "listItems", "listLogs"}
    /\ IsFiniteSet(Users) /\ Emails \subseteq Int
    /\ \A m \in DOMAIN Mixes :
          /\ \A u \in DOMAIN Mixes[m].known : \E e \in Emails : Mailbox[e] = u
          /\ IsFiniteSet(DOMAIN Mixes[m].items)
          /\ \A i \in DOMAIN Mixes[m].items : ItemSorts(Mixes[m].items[i])
          /\ IsFiniteSet(DOMAIN Mixes[m].tasks)
          /\ \A t \in DOMAIN Mixes[m].tasks : TaskSorts(Mixes[m].tasks[t])
          /\ \A r \in Mixes[m].requests :
                /\ r.op \in {"listTasks", "listUsers", "listItems", "listLogs"} =>
                      r.limit \in Int /\ r.offset \in Int
                /\ r.op \in {"createItem", "updateItem"} =>
                      \A f \in {"name", "slot_key"} \cap DOMAIN r.fields :
                          r.fields[f] \in Int \cup {None}
                /\ r.op = "createTask" => r.deadline \in Int \cup {None}
                /\ r.op = "patchTask" =>
                      /\ "created" \notin DOMAIN r.fields
                      /\ "deadline" \in DOMAIN r.fields => r.fields.deadline \in Int \cup {None}

VARIABLE
    mayRoll         \* history: calls that met a moment when their user had
                    \* not disabled the randomness of the look

vars == <<requestVars, settingsVars, accountVars, visualVars, boardVars,
          catalogVars, mayRoll>>

Init ==
    /\ RequestsInit /\ SettingsInit /\ AccountsInit /\ VisualInit
    /\ BoardInit /\ CatalogInit /\ PagingInit
    /\ mayRoll = {}

Observe ==
    mayRoll' = mayRoll \cup
        {c \in Calls : /\ pc'[c] \notin {"idle", "done"}
                       /\ req'[c].op = "refreshVisual"
                       /\ ~(mapSettings(settings'[req'[c].user])[keyDisableRandom])}

serviceVars == <<settingsVars, accountVars, visualVars, boardVars, catalogVars>>

\* The next statement of a call.
Step(c) ==
    /\ \/ Refuse(c) /\ UNCHANGED serviceVars
       \/ SettingsStep(c) /\ UNCHANGED <<accountVars, visualVars, boardVars, catalogVars>>
       \/ AccountStep(c) /\ UNCHANGED <<visualVars, boardVars, catalogVars>>
       \/ VisualStep(c) /\ UNCHANGED <<accountVars, boardVars, catalogVars>>
       \/ BoardStep(c) /\ UNCHANGED <<settingsVars, accountVars, visualVars, catalogVars>>
       \/ CatalogStep(c) /\ UNCHANGED <<settingsVars, accountVars, visualVars, boardVars>>
       \/ AdminReadStep(c) /\ UNCHANGED visualVars
    /\ Observe

\* A login turns an error of the database into an answer of its own.
Failure(c) ==
    /\ pc[c] \notin {"login", "l_right", "l_wrong"}
    /\ Fail(c)
    /\ UNCHANGED serviceVars /\ Observe

\* A token is signed for a user once the account is there.
Signed(c) ==
    req'[c].op \in PublicOps \/ req'[c].token = None \/ account[req'[c].user] # None

Arrival(c) == Receive(c) /\ Signed(c) /\ UNCHANGED serviceVars /\ Observe
Clock == Tick /\ UNCHANGED serviceVars /\ Observe

Next == (\E c \in Calls : Arrival(c) \/ Step(c) \/ Failure(c)) \/ Clock

\* Every request has a goroutine that goes on whenever the database lets it; it
\* is enough that one of those that can go on does.
Spec == Init /\ [][Next]_vars /\ WF_vars(\E c \in Calls : Step(c))

-----------------------------------------------------------------------------
\* With randomness disabled a valid look stays: it only gives way to the whole
\* look of a refresh that met a moment without the setting, or it is itself the
\* look of such a refresh.  That one the fallback may replace, by a refresh that
\* found no valid look before it was saved: loading and saving are not one
\* transaction, as service.go says.
DisabledKeepsLook ==
    [][\A u \in Users :
         Valid(visual[u]) /\ visual'[u] # visual[u] =>
            \E c \in mayRoll : /\ req[c].user = u
                               /\ roll(c) \in {visual[u], visual'[u]}]_vars

\* Every request is answered, whoever holds the rows it needs and whatever fails:
\* there is always again a moment when no call that came in is still at work.
EveryRequestAnswered == []<>(\A c \in Calls : ~Active(c))

=============================================================================
