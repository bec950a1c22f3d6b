------------------------------ MODULE MCServer ------------------------------
(***************************************************************************)
(* Workloads for Server: each behaviour draws its calls from one of them,  *)
(* so that calls that can meet over the same rows meet in every order.     *)
(***************************************************************************)
EXTENDS Server, TLC

MCCalls == 1..4
MCSlots == {"theme", "mascot"}
MCAddresses == {"home", "office", "away"}
MCLists == {"listTasks", "listUsers", "listItems", "listLogs"}
MCScopes == {"register", "login", "refreshVisual", "createItem", "updateItem",
             "disableItem", "uploadAsset"}
\* Some scopes admit more calls than others.
MCLimits == [s \in MCScopes |-> IF s \in {"refreshVisual", "login"} THEN 3 ELSE 2]
MCAdminOps == {"listUsers", "listItems", "getItem", "listLogs", "stats", "createItem",
               "updateItem", "disableItem", "uploadAsset"}
MCPublicOps == {"register", "login"}

\* E-mails 1 and 2 are one mailbox; 3 is another one to the database only, and
\* 4 is a tabulator, which is no e-mail to the service only.
MCUsers == 1..3
MCEmails == 1..4
MCMailbox == <<1, 1, 2, 3>>
MCKeys == <<"a", "a", "a", None>>

UserToken == [role |-> "user", expires |-> 9]
AdminToken == [role |-> "admin", expires |-> 9]
ExpiredToken == [role |-> "user", expires |-> 0]

Req(op, fields) ==
    [op |-> op, user |-> 1, token |-> UserToken, address |-> "home", malformed |-> FALSE] @@ fields
ByAdmin(op, fields) == [token |-> AdminToken] @@ Req(op, fields)
Bare == <<>>
Malformed(r) == [r EXCEPT !.malformed = TRUE]

Base ==
    [requests |-> {}, calls |-> 2, until |-> 0, faults |-> TRUE, known |-> 1 :> "user",
     rows |-> {defaultSettings}, looks |-> {Outdated}, items |-> <<>>, tasks |-> <<>>]
Mix(fields) == fields @@ Base

-----------------------------------------------------------------------------
Patch(k, v) == Req("patchSettings", [patch |-> (k :> v)])
Refresh(event) == Req("refreshVisual", [event |-> event])
StoredLook == [s \in MCSlots |-> <<"stored">>]
DisableRandom == Patch(keyDisableRandom, TRUE)

\* Three patches of one user, from stored rows or from none.
PatchMix == Mix([calls |-> 3, rows |-> {NoRows, defaultSettings}, requests |->
    {DisableRandom, Patch("reduced_motion", TRUE), Patch(keyDefaultReminder, 10)}])

\* Refreshes against each other and against the setting that disables them.
LookMix == Mix([calls |-> 2,
    rows |-> {NoRows, defaultSettings, [defaultSettings EXCEPT ![keyDisableRandom] = TRUE]},
    looks |-> {Outdated, PartialLook({"theme"}), PartialLook(MCSlots), StoredLook},
    requests |-> {Refresh("page-enter"), Refresh("other"), Req("getVisual", Bare),
                  Req("getSettings", Bare),
                  DisableRandom, Patch(keyDisableRandom, FALSE),
                  Patch(keyDefaultReminder, 10081), Patch("other", TRUE)}])
CrowdMix == Mix([calls |-> 3, faults |-> FALSE, requests |-> {Refresh("page-enter"), DisableRandom}])

\* Four calls of one scope while the window moves on.
Wrong(email, address) ==
    Req("login", [email |-> email, password |-> "guess", address |-> address])
RateMix == Mix([calls |-> 4, until |-> 3,
                requests |-> {ByAdmin("uploadAsset", [content |-> "text", item |-> 11])}])
AddressMix == Mix([calls |-> 4, requests |-> {Wrong(4, "home"), Wrong(4, "office")}])

\* Failed and successful logins of one key under several spellings.
Right == Req("login", [email |-> 2, password |-> "secret", address |-> "office"])
LoginMix == Mix([calls |-> 4, faults |-> FALSE,
                 requests |-> {Wrong(3, "away"), Right}])
GuessMix == Mix([calls |-> 3, until |-> 3, faults |-> FALSE, requests |-> {Wrong(1, "home")}])

\* Registrations of one mailbox under two spellings.
Registration(email, name, password) ==
    Req("register", [email |-> email, name |-> name, password |-> password])
RegisterMix == Mix([calls |-> 3, known |-> 2 :> "admin", requests |->
    {Registration(1, "x", "secret"), Registration(2, "y", "secret")}])
\* A user registers and then disables the randomness and refreshes the look.
FirstMix == Mix([calls |-> 3, known |-> 2 :> "admin", requests |->
    {Registration(1, "x", "secret"), DisableRandom, Refresh("other")}])
ProfileMix == Mix([requests |->
    {Registration(4, "x", "secret"), Registration(3, "x", "short"), Right,
     Req("me", Bare), Req("getProfile", Bare), Req("getProgression", Bare),
     Req("patchProfile", [name |-> "z"]), Malformed(Req("patchProfile", Bare)), Req("patchProfile", [name |-> None]),
     [token |-> ExpiredToken] @@ Req("me", Bare), [token |-> None] @@ Req("me", Bare)}])

-----------------------------------------------------------------------------
SeedItem(name, slot, rarity) ==
    [name |-> name, slot_key |-> slot, rarity |-> rarity, base_xp_multiplier |-> 1000,
     active |-> TRUE, asset |-> None, created |-> -name]
TwoItems == (11 :> SeedItem(1, 1, "common")) @@ (12 :> SeedItem(2, 2, "common"))

Rename(item, name) == ByAdmin("updateItem", [item |-> item, fields |-> ("name" :> name)])
Disable(item) == ByAdmin("disableItem", [item |-> item, fields |-> Bare])
Upload(item, content) ==
    ByAdmin("uploadAsset", [item |-> item, content |-> content, fields |-> Bare])
Create(fields) == ByAdmin("createItem", [fields |-> fields])
Good(name) == [name |-> name, slot_key |-> 1, rarity |-> "rare"]

\* Changes of two items and of their names, which two renames can swap.
CatalogMix == Mix([calls |-> 3, items |-> TwoItems, requests |->
    {Rename(11, 2), Rename(12, 3), Disable(12), Create(Good(3))}])
UploadMix == Mix([calls |-> 2, items |-> TwoItems, requests |->
    {Upload(11, "png"), Upload(11, "text"), Upload(11, "too_large"), Upload(13, "png"),
     Rename(13, 3), Rename(11, 2), Rename(12, 1), Disable(11), Disable(13), Create([Good(3) EXCEPT !.rarity = "mythic"]),
     Create(Good(3) @@ ("base_xp_multiplier" :> 1000000)),
     ByAdmin("updateItem", [item |-> 11, fields |-> ("base_xp_multiplier" :> 999)]),
     ByAdmin("updateItem", [item |-> 11, fields |-> ("base_xp_multiplier" :> 2000)]),
     ByAdmin("getItem", [item |-> 13]), Malformed(Upload(11, "png")),
     [token |-> UserToken] @@ Disable(11)}])

\* Lists next to changes of what they list.
Page(start) == [limit |-> 1, offset |-> start, sort |-> "rarity", dir |-> "asc",
                rarity |-> "common", active |-> TRUE, slot |-> None, q |-> None]
ItemListMix == Mix([faults |-> FALSE, items |-> TwoItems, calls |-> 3, requests |->
    {ByAdmin("listItems", Page(0)), ByAdmin("listItems", [Page(1) EXCEPT !.sort = "name"]),
     ByAdmin("listItems", [Page(0) EXCEPT !.sort = "name"]), Disable(11)}])
LogPage == [limit |-> 9, offset |-> -1, actor |-> 1, action |-> None,
            from |-> 0, to |-> None]
UserPage == [limit |-> 0, offset |-> 0, sort |-> "email", dir |-> "desc",
             role |-> "user", q |-> None]
ReadMix == Mix([faults |-> FALSE, items |-> TwoItems, requests |->
    {ByAdmin("listLogs", LogPage), ByAdmin("listUsers", UserPage),
     ByAdmin("listUsers", [UserPage EXCEPT !.sort = "role", !.q = [emails |-> {}, names |-> {"seeded"}]]),
     ByAdmin("listItems", [Page(0) EXCEPT !.sort = "slot_key", !.q = [names |-> {1}]]),
     ByAdmin("listItems", [Page(0) EXCEPT !.sort = "created_at"]),
     ByAdmin("stats", Bare), Disable(11), [token |-> UserToken] @@ Disable(11),
     Req("login", [email |-> 3, password |-> "secret"])},
    known |-> (1 :> "user") @@ (2 :> "admin")])

-----------------------------------------------------------------------------
SeedTask(owner, priority, deadline, created) ==
    [owner |-> owner, status |-> "active", category |-> <<owner, "general">>,
     priority |-> priority, complexity |-> "small", deadline |-> deadline,
     created |-> created]
TwoTasks == (-1 :> SeedTask(1, "low", 0, -2)) @@ (-2 :> SeedTask(1, "high", None, -1))

NewTask(title, category, complexity) ==
    Req("createTask", [title |-> title, category |-> category, complexity |-> complexity,
                       priority |-> "urgent", deadline |-> None])
TaskPage(start, priority, sort) ==
    Req("listTasks", [limit |-> 1, offset |-> start, status |-> "active",
                      category |-> None, priority |-> priority, sort |-> sort])
Edit(t, fields) == Req("patchTask", [task |-> t, fields |-> fields])

TaskMix == Mix([tasks |-> TwoTasks, requests |->
    {NewTask("x", None, None), NewTask(None, None, None), NewTask("x", <<2, "general">>, None),
     NewTask("x", <<1, "work">>, "huge"), NewTask("x", <<1, "work">>, "large"),
     Edit(-1, "priority" :> "high"), Edit(-1, "priority" :> "urgent"),
     Edit(-1, "category" :> <<2, "general">>), Edit(-3, "title" :> "y"),
     Req("getTask", [task |-> -1]), Req("getTask", [task |-> -3]),
     Req("archiveTask", [task |-> -1]), Req("archiveTask", [task |-> -3]),
     Req("getCategories", Bare), TaskPage(0, "low", "deadline")}])
TaskListMix == Mix([faults |-> FALSE, tasks |-> TwoTasks, calls |-> 3, until |-> 1, requests |->
    {TaskPage(0, None, "created_at"), TaskPage(1, None, "created_at"),
     Req("archiveTask", [task |-> -1])}])

MCMixes ==
    [patch |-> PatchMix, look |-> LookMix, crowd |-> CrowdMix, rate |-> RateMix,
     address |-> AddressMix, login |-> LoginMix, guess |-> GuessMix, register |-> RegisterMix, first |-> FirstMix,
     profile |-> ProfileMix, catalog |-> CatalogMix, upload |-> UploadMix,
     itemList |-> ItemListMix, read |-> ReadMix, task |-> TaskMix,
     taskList |-> TaskListMix]

=============================================================================
