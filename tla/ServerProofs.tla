---------------------------- MODULE ServerProofs ----------------------------
(***************************************************************************)
(* Proofs about Server for every workload: overlapping patches of the      *)
(* settings, refreshes of the look, and images of items.                   *)
(***************************************************************************)
EXTENDS Server, FiniteSetTheorems, TLAPS

-----------------------------------------------------------------------------
(* Where a step may take a call. *)

\* The entries that the invariants below speak of.
Entries == {"register", "getSettings", "patchSettings", "refreshVisual", "createItem", "updateItem",
            "disableItem", "uploadAsset"}

SettingsLabels == {"s_read", "s_lock", "s_apply", "s_commit"}
AccountLabels == {"r_commit", "r_note", "issuePair", "l_right", "l_wrong", "l_admin",
                  "getProfile"}
VisualLabels == {"v_flag", "v_load", "v_save"}
BoardLabels == {"t_category", "t_insert", "t_update", "t_categories", "t_page"}
CatalogLabels == {"i_name", "i_commit", "a_create", "a_write", "a_update"}

\* The answers of the middleware, which no service gives.
Refusals == {"unauthorized", "forbidden", "rate_limited"}

\* Where a call may be that a service gives one of these answers.
Tells(c, status) ==
    /\ status \notin Refusals
    /\ status = "email_taken" => pc[c] = "register"
    /\ status = "created" => pc[c] \in {"issuePair", "t_insert"}

Moves(c, labels) ==
    /\ UNCHANGED <<load, now, req, hits, at>>
    /\ pc[c] \notin {"idle", "done"}
    /\ pc' = pc \/ \E l \in labels \cup {"done"} : pc' = [pc EXCEPT ![c] = l]
    /\ \/ ans' = ans /\ (pc' = pc \/ \E l \in labels : pc' = [pc EXCEPT ![c] = l])
       \/ \E status : /\ Tells(c, status)
                      /\ pc' = [pc EXCEPT ![c] = "done"]
                      /\ ans' = [ans EXCEPT ![c] = status]

\* The steps of a service take a call to labels of this service.
LEMMA SettingsMoves ==
    ASSUME NEW c \in Calls, SettingsStep(c)
    PROVE  Moves(c, SettingsLabels)
<1> USE DEF Moves, Tells, Refusals, SettingsLabels, Go, Answer, AnswerCommit, limiterVars
<1>1. CASE GetSettings(c) BY <1>1 DEF GetSettings
<1>2. CASE ReadSettings(c) BY <1>2 DEF ReadSettings
<1>3. CASE PatchSettings(c) BY <1>3 DEF PatchSettings
<1>4. CASE LockSettings(c) BY <1>4 DEF LockSettings
<1>5. CASE ReadAndApply(c) BY <1>5 DEF ReadAndApply
<1>6. CASE SaveSettings(c) BY <1>6 DEF SaveSettings
<1>7. QED BY <1>1, <1>2, <1>3, <1>4, <1>5, <1>6 DEF SettingsStep

LEMMA AccountMoves ==
    ASSUME NEW c \in Calls, AccountStep(c)
    PROVE  Moves(c, AccountLabels)
<1> USE DEF Moves, Tells, Refusals, AccountLabels, Go, Answer, AnswerCommit, limiterVars
<1>1. CASE Register(c) BY <1>1 DEF Register
<1>2. CASE CommitUser(c) BY <1>2 DEF CommitUser
<1>3. CASE NoteRegistration(c) BY <1>3 DEF NoteRegistration
<1>4. CASE IssuePair(c) BY <1>4 DEF IssuePair
<1>5. CASE Login(c) BY <1>5 DEF Login
<1>6. CASE RecordFailedLogin(c) BY <1>6 DEF RecordFailedLogin
<1>7. CASE LoginSucceeded(c) BY <1>7 DEF LoginSucceeded
<1>8. CASE NoteAdminLogin(c) BY <1>8 DEF NoteAdminLogin
<1>9. CASE Me(c) BY <1>9 DEF Me
<1>10. CASE UpdateDisplayName(c) BY <1>10 DEF UpdateDisplayName
<1>11. CASE Summary(c) BY <1>11 DEF Summary
<1>12. CASE Progression(c) BY <1>12 DEF Progression
<1>13. QED BY <1>1, <1>2, <1>3, <1>4, <1>5, <1>6, <1>7, <1>8, <1>9, <1>10, <1>11, <1>12
           DEF AccountStep

LEMMA VisualMoves ==
    ASSUME NEW c \in Calls, VisualStep(c)
    PROVE  Moves(c, VisualLabels)
<1> USE DEF Moves, Tells, Refusals, VisualLabels, Go, Answer, AnswerCommit, limiterVars
<1>1. CASE GetVisual(c) BY <1>1 DEF GetVisual
<1>2. CASE RefreshVisual(c) BY <1>2 DEF RefreshVisual
<1>3. CASE ReadFlag(c) BY <1>3 DEF ReadFlag, BeginSave
<1>4. CASE LoadVisual(c) BY <1>4 DEF LoadVisual, BeginSave
<1>5. CASE UpsertSlot(c) BY <1>5 DEF UpsertSlot
<1>6. CASE DeadlockVictim(c) BY <1>6 DEF DeadlockVictim
<1>7. CASE CommitVisual(c) BY <1>7 DEF CommitVisual
<1>8. QED BY <1>1, <1>2, <1>3, <1>4, <1>5, <1>6, <1>7 DEF VisualStep

LEMMA BoardMoves ==
    ASSUME NEW c \in Calls, BoardStep(c)
    PROVE  Moves(c, BoardLabels)
<1> USE DEF Moves, Tells, Refusals, BoardLabels, Go, Answer, AnswerCommit, limiterVars
<1>1. CASE CreateTask(c) BY <1>1 DEF CreateTask
<1>2. CASE ResolveCategory(c) BY <1>2 DEF ResolveCategory
<1>3. CASE InsertTask(c) BY <1>3 DEF InsertTask
<1>4. CASE PatchTask(c) BY <1>4 DEF PatchTask
<1>5. CASE UpdateTask(c) BY <1>5 DEF UpdateTask
<1>6. CASE ArchiveTask(c) BY <1>6 DEF ArchiveTask
<1>7. CASE GetTask(c) BY <1>7 DEF GetTask
<1>8. CASE GetCategories(c) BY <1>8 DEF GetCategories
<1>9. CASE ReadCategories(c) BY <1>9 DEF ReadCategories
<1>10. CASE CountTasks(c) BY <1>10 DEF CountTasks
<1>11. CASE ListTasks(c) BY <1>11 DEF ListTasks
<1>12. QED BY <1>1, <1>2, <1>3, <1>4, <1>5, <1>6, <1>7, <1>8, <1>9, <1>10, <1>11
           DEF BoardStep

LEMMA CatalogMoves ==
    ASSUME NEW c \in Calls, CatalogStep(c)
    PROVE  Moves(c, CatalogLabels)
<1> USE DEF Moves, Tells, Refusals, CatalogLabels, Go, Answer, AnswerCommit, limiterVars
<1>1. CASE CreateItem(c) BY <1>1 DEF CreateItem, BeginItem
<1>2. CASE UpdateItem(c) BY <1>2 DEF UpdateItem, BeginItem
<1>3. CASE WriteName(c) BY <1>3 DEF WriteName
<1>4. CASE NameDeadlock(c) BY <1>4 DEF NameDeadlock
<1>5. CASE DisableItem(c) BY <1>5 DEF DisableItem
<1>6. CASE CommitItem(c) BY <1>6 DEF CommitItem
<1>7. CASE GetItem(c) BY <1>7 DEF GetItem
<1>8. CASE UploadAsset(c) BY <1>8 DEF UploadAsset
<1>9. CASE CreateFile(c) BY <1>9 DEF CreateFile
<1>10. CASE WriteFile(c) BY <1>10 DEF WriteFile
<1>11. CASE SetItemAsset(c) BY <1>11 DEF SetItemAsset
<1>12. QED BY <1>1, <1>2, <1>3, <1>4, <1>5, <1>6, <1>7, <1>8, <1>9, <1>10, <1>11
           DEF CatalogStep

LEMMA AdminReadMoves ==
    ASSUME NEW c \in Calls, AdminReadStep(c)
    PROVE  Moves(c, {"count"})
<1> USE DEF Moves, Tells, Refusals, Go, Answer, limiterVars, ReadList
<1>1. CASE ListUsers(c) BY <1>1 DEF ListUsers
<1>2. CASE ListItems(c) BY <1>2 DEF ListItems
<1>3. CASE ListAuditLogs(c) BY <1>3 DEF ListAuditLogs
<1>4. CASE CountListed(c) BY <1>4 DEF CountListed
<1>5. CASE Stats(c) BY <1>5 DEF Stats
<1>6. QED BY <1>1, <1>2, <1>3, <1>4, <1>5 DEF AdminReadStep

LEMMA EndMoves ==
    ASSUME NEW c \in Calls, Refuse(c) \/ Fail(c)
    PROVE  Moves(c, {})
BY DEF Refuse, Fail, Moves, Tells, Refusals, Active, Answer, limiterVars

\* A call comes in with a request of the workload.
Arrives(c) ==
    /\ UNCHANGED load
    /\ pc[c] = "idle"
    /\ \E r \in mix.requests :
          /\ req' = [req EXCEPT ![c] = r]
          /\ \E l \in {"done", "malformed", r.op} : pc' = [pc EXCEPT ![c] = l]

LEMMA ReceiveArrives ==
    ASSUME NEW c \in Calls, Receive(c)
    PROVE  Arrives(c)
<1>1. PICK r \in mix.requests :
         /\ req' = [req EXCEPT ![c] = r]
         /\ IF r.op \notin PublicOps /\ ~Verify(r.token)
            THEN Answer(c, "unauthorized")
            ELSE IF r.op \in AdminOps /\ r.token.role # "admin"
            THEN Answer(c, "forbidden")
            ELSE IF r.op \in Scopes THEN Allow(c, r) ELSE Go(c, Entry(r))
    BY DEF Receive
<1>2. \E l \in {"done", "malformed", r.op} : pc' = [pc EXCEPT ![c] = l]
    BY <1>1 DEF Answer, Go, Allow, Entry
<1>3. QED BY <1>1, <1>2 DEF Arrives, Receive

\* What a step of the server is, with what it leaves alone.
Idles == Tick /\ UNCHANGED serviceVars
Receives(c) == Receive(c) /\ Signed(c) /\ UNCHANGED serviceVars
Ends(c) == (Refuse(c) \/ Fail(c)) /\ UNCHANGED serviceVars
InSettings(c) == SettingsStep(c) /\ UNCHANGED <<accountVars, visualVars, boardVars, catalogVars>>
InAccounts(c) == AccountStep(c) /\ UNCHANGED <<visualVars, boardVars, catalogVars>>
InVisual(c) == VisualStep(c) /\ UNCHANGED <<accountVars, boardVars, catalogVars>>
InBoard(c) == BoardStep(c) /\ UNCHANGED <<settingsVars, accountVars, visualVars, catalogVars>>
InCatalog(c) == CatalogStep(c) /\ UNCHANGED <<settingsVars, accountVars, visualVars, boardVars>>
InReads(c) == AdminReadStep(c) /\ UNCHANGED visualVars

LEMMA NextCases ==
    ASSUME Next
    PROVE  /\ Observe
           /\ \/ Idles
              \/ \E c \in Calls : \/ Receives(c) \/ Ends(c) \/ InSettings(c) \/ InAccounts(c)
                                   \/ InVisual(c) \/ InBoard(c) \/ InCatalog(c) \/ InReads(c)
<1>1. CASE Clock BY <1>1 DEF Clock, Idles
<1>2. ASSUME NEW c \in Calls, Arrival(c)
      PROVE  Observe /\ Receives(c)
    BY <1>2 DEF Arrival, Receives
<1>3. ASSUME NEW c \in Calls, Failure(c)
      PROVE  Observe /\ Ends(c)
    BY <1>3 DEF Failure, Ends
<1>4. ASSUME NEW c \in Calls, Step(c)
      PROVE  /\ Observe
             /\ \/ Ends(c) \/ InSettings(c) \/ InAccounts(c)
                \/ InVisual(c) \/ InBoard(c) \/ InCatalog(c) \/ InReads(c)
    BY <1>4 DEF Step, Ends, InSettings, InAccounts, InVisual, InBoard, InCatalog, InReads
<1>5. QED BY <1>1, <1>2, <1>3, <1>4 DEF Next

-----------------------------------------------------------------------------
(* Calls and their requests. *)

\* A call that came in has a request of the workload, and enters at its operation.
CallsOK ==
    /\ load \in DOMAIN Mixes
    /\ DOMAIN pc = Calls /\ DOMAIN req = Calls
    /\ \A c \in Calls : pc[c] # "idle" => req[c] \in mix.requests
    /\ \A c \in Calls : pc[c] \in Entries => req[c].op = pc[c]

LEMMA MovesKeepCalls ==
    ASSUME CallsOK, NEW c \in Calls, NEW labels, Moves(c, labels),
           "idle" \notin labels, labels \cap Entries = {}
    PROVE  CallsOK'
BY DEF CallsOK, Moves, mix, Entries

LEMMA ArrivalKeepsCalls ==
    ASSUME CallsOK, NEW c \in Calls, Arrives(c)
    PROVE  CallsOK'
<1>1. PICK r \in mix.requests :
         /\ req' = [req EXCEPT ![c] = r]
         /\ \E l \in {"done", "malformed", r.op} : pc' = [pc EXCEPT ![c] = l]
    BY DEF Arrives
<1>2. load' = load /\ mix' = mix BY DEF Arrives, mix
<1>3. QED BY <1>1, <1>2 DEF CallsOK, Entries

LEMMA CallsInit == ASSUME Init PROVE CallsOK
BY DEF Init, RequestsInit, CallsOK, Entries

LEMMA CallsStep == ASSUME CallsOK, [Next]_vars PROVE CallsOK'
<1> USE DEF SettingsLabels, AccountLabels, VisualLabels, BoardLabels, CatalogLabels, Entries
<1>1. CASE UNCHANGED vars BY <1>1 DEF vars, requestVars, CallsOK, mix
<1>2. CASE Idles BY <1>2 DEF Idles, Tick, CallsOK, mix
<1>3. ASSUME NEW c \in Calls, Receives(c) PROVE CallsOK'
    BY <1>3, ReceiveArrives, ArrivalKeepsCalls DEF Receives
<1>4. ASSUME NEW c \in Calls, Ends(c) PROVE CallsOK'
    BY <1>4, EndMoves, MovesKeepCalls DEF Ends
<1>5. ASSUME NEW c \in Calls, InSettings(c) PROVE CallsOK'
    BY <1>5, SettingsMoves, MovesKeepCalls DEF InSettings
<1>6. ASSUME NEW c \in Calls, InAccounts(c) PROVE CallsOK'
    BY <1>6, AccountMoves, MovesKeepCalls DEF InAccounts
<1>7. ASSUME NEW c \in Calls, InVisual(c) PROVE CallsOK'
    BY <1>7, VisualMoves, MovesKeepCalls DEF InVisual
<1>8. ASSUME NEW c \in Calls, InBoard(c) PROVE CallsOK'
    BY <1>8, BoardMoves, MovesKeepCalls DEF InBoard
<1>9. ASSUME NEW c \in Calls, InCatalog(c) PROVE CallsOK'
    BY <1>9, CatalogMoves, MovesKeepCalls DEF InCatalog
<1>10. ASSUME NEW c \in Calls, InReads(c) PROVE CallsOK'
    BY <1>10, AdminReadMoves, MovesKeepCalls DEF InReads
<1>11. QED BY <1>1, <1>2, <1>3, <1>4, <1>5, <1>6, <1>7, <1>8, <1>9, <1>10, NextCases

LEMMA CallsAlways == Spec => []CallsOK
<1>1. Init => CallsOK BY CallsInit
<1>2. CallsOK /\ [Next]_vars => CallsOK' BY CallsStep
<1>3. QED BY <1>1, <1>2, PTL DEF Spec

\* No call gets to one of the labels, or is another call there.
Aloof(labels) ==
    \A d \in Calls : pc'[d] \in labels => pc'[d] = pc[d] /\ req'[d] = req[d]

LEMMA MovesAloof ==
    ASSUME CallsOK, NEW c \in Calls, NEW labels, NEW others, Moves(c, others),
           "done" \notin labels, others \cap labels = {}
    PROVE  Aloof(labels)
BY DEF CallsOK, Moves, Aloof

LEMMA ArrivalAloof ==
    ASSUME CallsOK, NEW c \in Calls, NEW labels, Arrives(c),
           labels \cap (Operations \cup {"done", "malformed"}) = {}
    PROVE  Aloof(labels)
<1>1. PICK r \in mix.requests :
         /\ req' = [req EXCEPT ![c] = r]
         /\ \E l \in {"done", "malformed", r.op} : pc' = [pc EXCEPT ![c] = l]
    BY DEF Arrives
<1>2. r.op \in Operations BY WorkloadAssumption DEF CallsOK, mix
<1>3. QED BY <1>1, <1>2 DEF CallsOK, Aloof

-----------------------------------------------------------------------------
(* The look. *)

\* A call that came in stays, with its request.
Lasting == \A d \in Calls : pc[d] # "idle" => pc'[d] # "idle" /\ req'[d] = req[d]

LEMMA MovesLasting ==
    ASSUME CallsOK, NEW c \in Calls, NEW labels, Moves(c, labels), "idle" \notin labels
    PROVE  Lasting
BY DEF CallsOK, Moves, Lasting

LEMMA ArrivalLasting ==
    ASSUME CallsOK, NEW c \in Calls, Arrives(c)
    PROVE  Lasting
BY DEF CallsOK, Arrives, Lasting

\* What is stored for a user was rolled by a refresh that was allowed to.
RolledFor(u) == \E c \in mayRoll : req[c].user = u /\ visual[u] = roll(c)

\* A save writes the roll of its call, which was allowed, or the fallback; a valid
\* look that the fallback would replace is a roll that was allowed.
LookInv ==
    /\ DOMAIN look = Calls /\ DOMAIN visual = Users
    /\ VisualWhole
    /\ \A c \in Calls : pc[c] = "v_save" =>
          look[c] = fallback \/ (look[c] = roll(c) /\ c \in mayRoll)
    /\ \A c \in Calls, u \in Users :
          /\ pc[c] = "v_save" /\ look[c] = fallback
          /\ req[c].user = u /\ Valid(visual[u])
          => visual[u] = fallback \/ RolledFor(u)
    /\ \A c \in Calls : pc[c] = "v_flag" => req[c].op = "refreshVisual"
    /\ \A c \in Calls : /\ pc[c] \notin {"idle", "done"}
                        /\ req[c].op = "refreshVisual"
                        /\ ~(mapSettings(settings[req[c].user])[keyDisableRandom])
                        => c \in mayRoll
    /\ \A c \in mayRoll : c \in Calls /\ pc[c] # "idle"

LEMMA RollsDiffer == \A c \in Calls : roll(c) # fallback
<1>1. PICK s : s \in Slots BY SlotAssumption
<1>2. \A c \in Calls : roll(c)[s] = <<"rolled", c>> BY <1>1 DEF roll
<1>3. fallback[s] = <<"fallback">> BY <1>1 DEF fallback
<1>4. \A c \in Calls : <<"rolled", c>> # <<"fallback">> OBVIOUS
<1>5. QED BY <1>2, <1>3, <1>4

LEMMA LookInit == ASSUME Init PROVE LookInv
<1>1. DOMAIN look = Calls /\ DOMAIN visual = Users
    BY DEF Init, VisualInit
<1>2. \A u \in Users : visual[u] \in mix.looks \cup {NoLook}
    BY DEF Init, VisualInit
<1>3. \A c \in Calls : pc[c] = "idle"
    BY DEF Init, RequestsInit
<1>4. mayRoll = {} BY DEF Init
<1>5. QED BY <1>1, <1>2, <1>3, <1>4 DEF LookInv, VisualWhole

\* Where looks stay, so does what is known of them.
LEMMA LookHistory ==
    ASSUME LookInv, Observe, Lasting
    PROVE  /\ mayRoll \subseteq mayRoll'
           /\ \A c \in mayRoll' : c \in Calls /\ pc'[c] # "idle"
           /\ \A c \in Calls : /\ pc'[c] \notin {"idle", "done"}
                               /\ req'[c].op = "refreshVisual"
                               /\ ~(mapSettings(settings'[req'[c].user])[keyDisableRandom])
                               => c \in mayRoll'
           /\ \A u \in Users : visual'[u] = visual[u] /\ RolledFor(u) => RolledFor(u)'
<1>1. mayRoll \subseteq mayRoll' BY DEF Observe
<1>2. \A c \in mayRoll : c \in Calls /\ pc[c] # "idle" BY DEF LookInv
<1>3. \A c \in mayRoll' : c \in Calls /\ pc'[c] # "idle" BY <1>2 DEF Observe, Lasting
<1>4. \A c \in mayRoll : req'[c] = req[c] BY <1>2 DEF Lasting
<1>5. \A u \in Users : visual'[u] = visual[u] /\ RolledFor(u) => RolledFor(u)'
    BY <1>1, <1>4 DEF RolledFor
<1>6. QED BY <1>1, <1>3, <1>5 DEF Observe

LEMMA LookCalm ==
    ASSUME CallsOK, LookInv, Observe, UNCHANGED <<visual, look, load>>,
           Aloof(VisualLabels), Lasting
    PROVE  LookInv'
<1>1. \A c \in Calls : pc'[c] \in VisualLabels => pc'[c] = pc[c] /\ req'[c] = req[c]
    BY DEF Aloof
<1>2. VisualWhole' BY DEF LookInv, VisualWhole, mix
<1>3. ASSUME NEW c \in Calls, NEW u \in Users, pc'[c] = "v_save", look'[c] = fallback,
             req'[c].user = u, Valid(visual'[u])
      PROVE  visual'[u] = fallback \/ RolledFor(u)'
    <2>1. pc[c] = "v_save" /\ req[c].user = u BY <1>1, <1>3 DEF VisualLabels
    <2>2. visual[u] = fallback \/ RolledFor(u) BY <1>3, <2>1 DEF LookInv
    <2>3. QED BY <2>2, LookHistory
<1>4. QED BY <1>1, <1>2, <1>3, LookHistory DEF LookInv, VisualLabels

LEMMA LookInVisual ==
    ASSUME CallsOK, LookInv, Observe, NEW c \in Calls, InVisual(c)
    PROVE  LookInv'
<1> USE DEF VisualLabels
<1>1. Moves(c, VisualLabels) BY VisualMoves DEF InVisual
<1>2. DOMAIN pc = Calls /\ load' = load /\ req' = req /\ User(c) \in Users
    BY <1>1, WorkloadAssumption DEF CallsOK, Moves, User, mix
<1>3. Lasting BY <1>1, MovesLasting
<1>4. User(c) = req[c].user BY DEF User
<1>5. CASE UNCHANGED <<visual, look>> /\ Aloof(VisualLabels)
    BY <1>2, <1>3, <1>5, LookCalm
<1>6. ASSUME NEW v, DOMAIN look' = Calls, look'[c] = v,
             \A d \in Calls \ {c} : look'[d] = look[d], UNCHANGED visual,
             \A d \in Calls \ {c} : pc'[d] = pc[d],
             \/ pc'[c] \in {"done", "v_load"}
             \/ pc'[c] = "v_flag" /\ req[c].op = "refreshVisual"
             \/ pc'[c] = "v_save" /\ v = fallback /\ ~Valid(visual[User(c)])
             \/ pc'[c] = "v_save" /\ v = roll(c) /\ c \in mayRoll
      PROVE  LookInv'
    <2>1. VisualWhole' BY <1>2, <1>6 DEF LookInv, VisualWhole, mix
    <2>2. ASSUME NEW d \in Calls, pc'[d] = "v_save"
          PROVE  look'[d] = fallback \/ (look'[d] = roll(d) /\ d \in mayRoll')
        BY <1>3, <1>6, <2>2, LookHistory DEF LookInv
    <2>3. ASSUME NEW d \in Calls, NEW u \in Users, pc'[d] = "v_save",
                 look'[d] = fallback, req'[d].user = u, Valid(visual'[u])
          PROVE  visual'[u] = fallback \/ RolledFor(u)'
        <3>1. CASE d = c
            BY <1>2, <1>4, <1>6, <2>3, <3>1, RollsDiffer
        <3>2. CASE d # c
            <4>1. pc[d] = "v_save" /\ look[d] = fallback BY <1>6, <2>3, <3>2
            <4>2. visual[u] = fallback \/ RolledFor(u)
                BY <1>2, <1>6, <2>3, <4>1 DEF LookInv
            <4>3. QED BY <1>3, <1>6, <4>2, LookHistory
        <3>3. QED BY <3>1, <3>2
    <2>4. \A d \in Calls : pc'[d] = "v_flag" => req'[d].op = "refreshVisual"
        BY <1>2, <1>6 DEF LookInv
    <2>5. QED BY <1>3, <1>6, <2>1, <2>2, <2>3, <2>4, LookHistory DEF LookInv
<1>7. /\ DOMAIN look = Calls
      /\ \A v : look' = [look EXCEPT ![c] = v] =>
             /\ DOMAIN look' = Calls /\ look'[c] = v
             /\ \A d \in Calls \ {c} : look'[d] = look[d]
    BY DEF LookInv
<1>8. CASE GetVisual(c)
    BY <1>2, <1>6, <1>7, <1>8 DEF GetVisual, Answer
<1>9. CASE RefreshVisual(c)
    <2>1. pc[c] = "refreshVisual" /\ UNCHANGED <<visual, look>>
        BY <1>9 DEF RefreshVisual, visualVars
    <2>2. pc' = [pc EXCEPT ![c] = "v_flag"] \/ pc' = [pc EXCEPT ![c] = "done"]
        BY <1>9 DEF RefreshVisual, Go, Answer
    <2>3. req[c].op = "refreshVisual" BY <2>1 DEF CallsOK, Entries
    <2>4. QED BY <1>2, <1>6, <1>7, <2>1, <2>2, <2>3
<1>10. CASE ReadFlag(c)
    <2>1. CASE VisualRandomDisabled(User(c))
        <3>1. pc' = [pc EXCEPT ![c] = "v_load"] /\ UNCHANGED <<visual, look>>
            BY <1>10, <2>1 DEF ReadFlag, Go
        <3>2. QED BY <1>2, <1>6, <1>7, <3>1
    <2>2. CASE ~VisualRandomDisabled(User(c))
        <3>1. pc[c] = "v_flag" /\ pc' = [pc EXCEPT ![c] = "v_save"] /\ UNCHANGED visual
                /\ look' = [look EXCEPT ![c] = roll(c)]
            BY <1>10, <2>2 DEF ReadFlag, BeginSave, Go
        <3>2. c \in mayRoll
            BY <2>2, <3>1 DEF LookInv, VisualRandomDisabled, User
        <3>3. QED BY <1>2, <1>6, <1>7, <3>1, <3>2
    <2>3. QED BY <2>1, <2>2
<1>11. CASE LoadVisual(c)
    BY <1>2, <1>6, <1>7, <1>11 DEF LoadVisual, BeginSave, Go, Answer
<1>12. CASE UpsertSlot(c)
    BY <1>2, <1>5, <1>12 DEF UpsertSlot, Aloof
<1>13. CASE DeadlockVictim(c)
    BY <1>2, <1>5, <1>13 DEF DeadlockVictim, visualVars, Aloof, Answer
<1>14. CASE CommitVisual(c)
    <2>1. visual' = [visual EXCEPT ![User(c)] = look[c]] /\ look' = look
            /\ pc[c] = "v_save" /\ pc' = [pc EXCEPT ![c] = "done"]
        BY <1>14 DEF CommitVisual, AnswerCommit, Answer
    <2>2. look[c] = fallback \/ (look[c] = roll(c) /\ c \in mayRoll) BY <2>1 DEF LookInv
    <2>3. \A s, t \in Slots : look[c][s] = look[c][t] BY <2>2 DEF fallback, roll
    <2>4. VisualWhole' BY <1>2, <2>1, <2>3 DEF LookInv, VisualWhole, mix
    <2>5. DOMAIN visual' = Users /\ visual'[User(c)] = look[c]
            /\ \A u \in Users \ {User(c)} : visual'[u] = visual[u]
        BY <1>2, <2>1 DEF LookInv
    <2>6. \A u \in Users : u = User(c) => visual'[u] = fallback \/ RolledFor(u)'
        BY <1>2, <1>3, <1>4, <2>2, <2>5, LookHistory DEF RolledFor
    <2>7. ASSUME NEW d \in Calls, NEW u \in Users, pc'[d] = "v_save",
                 look'[d] = fallback, req'[d].user = u, Valid(visual'[u])
          PROVE  visual'[u] = fallback \/ RolledFor(u)'
        <3>1. CASE u = User(c) BY <2>6, <3>1
        <3>2. CASE u # User(c)
            <4>1. visual'[u] = visual[u] /\ pc[d] = "v_save"
                BY <1>2, <2>1, <2>5, <2>7, <3>2
            <4>2. visual[u] = fallback \/ RolledFor(u)
                BY <1>2, <2>1, <2>7, <4>1 DEF LookInv
            <4>3. QED BY <1>3, <4>1, <4>2, LookHistory
        <3>3. QED BY <3>1, <3>2
    <2>8. \A d \in Calls : /\ pc'[d] = "v_save" => pc[d] = "v_save"
                           /\ pc'[d] = "v_flag" => pc[d] = "v_flag"
        BY <1>2, <2>1
    <2>9. QED BY <1>2, <1>3, <2>1, <2>4, <2>5, <2>7, <2>8, LookHistory DEF LookInv
<1>15. QED BY <1>8, <1>9, <1>10, <1>11, <1>12, <1>13, <1>14 DEF InVisual, VisualStep

LEMMA LookStep == ASSUME CallsOK, LookInv, [Next]_vars PROVE LookInv'
<1> USE DEF VisualLabels
<1>1. CASE UNCHANGED vars
    <2>1. UNCHANGED <<load, pc, req, visual, look, settings, mayRoll>>
        BY <1>1 DEF vars, requestVars, visualVars, settingsVars
    <2>2. VisualWhole' BY <2>1 DEF LookInv, VisualWhole, mix
    <2>3. \A u : RolledFor(u)' <=> RolledFor(u) BY <2>1 DEF RolledFor
    <2>4. QED BY <2>1, <2>2, <2>3 DEF LookInv, mapSettings
<1>2. CASE Observe /\ Idles
    BY <1>2, LookCalm DEF Idles, Tick, serviceVars, visualVars, Aloof, Lasting
<1>3. ASSUME NEW c \in Calls, Observe, Receives(c) PROVE LookInv'
    <2>1. Aloof(VisualLabels) /\ Lasting
        BY <1>3, ReceiveArrives, ArrivalAloof, ArrivalLasting DEF Receives, Operations
    <2>2. QED BY <1>3, <2>1, LookCalm DEF Receives, Receive, serviceVars, visualVars
<1>4. ASSUME NEW c \in Calls, NEW others, Observe, Moves(c, others),
             UNCHANGED visualVars, others \cap (VisualLabels \cup {"idle"}) = {}
      PROVE  LookInv'
    BY <1>4, MovesAloof, MovesLasting, LookCalm DEF visualVars, Moves
<1>5. ASSUME NEW c \in Calls, Observe, Ends(c) PROVE LookInv'
    BY <1>5, <1>4, EndMoves DEF Ends, serviceVars
<1>6. ASSUME NEW c \in Calls, Observe, InSettings(c) PROVE LookInv'
    BY <1>6, <1>4, SettingsMoves DEF InSettings, SettingsLabels
<1>7. ASSUME NEW c \in Calls, Observe, InAccounts(c) PROVE LookInv'
    BY <1>7, <1>4, AccountMoves DEF InAccounts, AccountLabels
<1>8. ASSUME NEW c \in Calls, Observe, InBoard(c) PROVE LookInv'
    BY <1>8, <1>4, BoardMoves DEF InBoard, BoardLabels
<1>9. ASSUME NEW c \in Calls, Observe, InCatalog(c) PROVE LookInv'
    BY <1>9, <1>4, CatalogMoves DEF InCatalog, CatalogLabels
<1>10. ASSUME NEW c \in Calls, Observe, InReads(c) PROVE LookInv'
    BY <1>10, <1>4, AdminReadMoves DEF InReads
<1>11. QED
    BY <1>1, <1>2, <1>3, <1>5, <1>6, <1>7, <1>8, <1>9, <1>10, LookInVisual, NextCases

LEMMA LookAlways == Spec => []LookInv
<1>1. Init => LookInv BY LookInit
<1>2. CallsOK /\ LookInv /\ [Next]_vars => LookInv' BY LookStep
<1>3. QED BY <1>1, <1>2, CallsAlways, PTL DEF Spec

\* Concurrent refreshes never leave a mixture of their looks (SaveState).
THEOREM LooksStayWhole == Spec => []VisualWhole
<1>1. LookInv => VisualWhole BY DEF LookInv
<1>2. QED BY <1>1, LookAlways, PTL

\* Looks change only when a save commits.
LEMMA LookChanges ==
    ASSUME CallsOK, LookInv, [Next]_vars, NEW u \in Users, visual'[u] # visual[u]
    PROVE  \E c \in Calls : /\ pc[c] = "v_save" /\ User(c) = u
                            /\ visual'[u] = look[c]
<1>1. ~UNCHANGED visual OBVIOUS
<1>2. \E c \in Calls : InVisual(c)
    BY <1>1, NextCases DEF vars, visualVars, serviceVars, Idles, Receives, Ends,
        InSettings, InAccounts, InBoard, InCatalog, InReads
<1>3. PICK c \in Calls : CommitVisual(c)
    BY <1>1, <1>2 DEF InVisual, VisualStep, GetVisual, RefreshVisual, ReadFlag,
        LoadVisual, UpsertSlot, DeadlockVictim, visualVars
<1>4. pc[c] = "v_save" /\ visual' = [visual EXCEPT ![User(c)] = look[c]]
    BY <1>3 DEF CommitVisual
<1>5. QED BY <1>4 DEF LookInv

\* With randomness disabled a valid look stays: it gives way only to the look of
\* a refresh that met a moment without the setting, or it is such a look itself
\* and the fallback of a refresh that had loaded before replaces it (Refresh).
THEOREM DisabledLooksStay == Spec => DisabledKeepsLook
<1>1. ASSUME CallsOK, LookInv, [Next]_vars, NEW u \in Users,
             Valid(visual[u]), visual'[u] # visual[u]
      PROVE  \E c \in mayRoll : req[c].user = u /\ roll(c) \in {visual[u], visual'[u]}
    <2>1. PICK c \in Calls : pc[c] = "v_save" /\ User(c) = u /\ visual'[u] = look[c]
        BY <1>1, LookChanges
    <2>2. CASE look[c] = roll(c) /\ c \in mayRoll
        BY <2>1, <2>2 DEF User
    <2>3. CASE look[c] = fallback
        <3>1. visual[u] = fallback \/ RolledFor(u) BY <1>1, <2>1, <2>3 DEF LookInv, User
        <3>2. QED BY <1>1, <2>1, <2>3, <3>1 DEF RolledFor
    <2>4. look[c] = fallback \/ (look[c] = roll(c) /\ c \in mayRoll)
        BY <1>1, <2>1 DEF LookInv
    <2>5. QED BY <2>2, <2>3, <2>4
<1>2. CallsOK /\ LookInv /\ [Next]_vars =>
        [\A u \in Users :
            Valid(visual[u]) /\ visual'[u] # visual[u] =>
               \E c \in mayRoll : /\ req[c].user = u
                                  /\ roll(c) \in {visual[u], visual'[u]}]_vars
    BY <1>1
<1>3. QED BY <1>2, LookAlways, CallsAlways, PTL DEF Spec, DisabledKeepsLook

-----------------------------------------------------------------------------
(* Who is registered. *)

\* Where a call makes or changes rows of its user's settings, or is about to.
Doors == {"getSettings", "patchSettings", "refreshVisual"}
PatchLabels == {"s_lock", "s_apply", "s_commit"}
Served(c) == pc[c] \in Doors \cup PatchLabels

\* Who is served is registered, and one registration at a time has inserted a
\* mailbox, which is free until it commits.
HolderInv ==
    /\ DOMAIN account = Users
    /\ \A c \in Calls : Served(c) => User(c) \in Users /\ account[User(c)] # None
    /\ \A c \in Calls : pc[c] = "r_commit" => Named(c) \in Users /\ account[Named(c)] = None
    /\ \A c, d \in Calls :
          pc[c] = "r_commit" /\ pc[d] = "r_commit" /\ Named(c) = Named(d) => c = d

LEMMA HolderInit == ASSUME Init PROVE HolderInv
BY DEF Init, RequestsInit, AccountsInit, HolderInv, Served, Doors, PatchLabels

\* Calls go on, and no account is made.
LEMMA HolderGoesOn ==
    ASSUME HolderInv, account' = account,
           \A c \in Calls : Served(c)' =>
               \/ Served(c) /\ req'[c] = req[c]
               \/ User(c)' \in Users /\ account[User(c)'] # None,
           \A c \in Calls : pc'[c] = "r_commit" => pc[c] = "r_commit" /\ req'[c] = req[c]
    PROVE  HolderInv'
<1>1. \A c \in Calls : req'[c] = req[c] => User(c)' = User(c) /\ Named(c)' = Named(c)
    BY DEF User, Named
<1>2. QED BY <1>1 DEF HolderInv

LEMMA HolderMoves ==
    ASSUME CallsOK, HolderInv, account' = account, NEW c \in Calls, NEW labels,
           Moves(c, labels),
           Served(c) \/ labels \cap (Doors \cup PatchLabels) = {},
           "r_commit" \notin labels
    PROVE  HolderInv'
<1>1. \A d \in Calls : /\ Served(d)' => Served(d) /\ req'[d] = req[d]
                       /\ pc'[d] = "r_commit" => pc[d] = "r_commit" /\ req'[d] = req[d]
    BY DEF CallsOK, Moves, Served, Doors, PatchLabels
<1>2. QED BY <1>1, HolderGoesOn

\* A call that comes in with a token comes from a registered user.
LEMMA HolderReceives ==
    ASSUME CallsOK, HolderInv, NEW c \in Calls, Receives(c)
    PROVE  HolderInv'
<1>1. PICK r \in mix.requests :
         /\ req' = [req EXCEPT ![c] = r]
         /\ IF r.op \notin PublicOps /\ ~Verify(r.token)
            THEN Answer(c, "unauthorized")
            ELSE IF r.op \in AdminOps /\ r.token.role # "admin"
            THEN Answer(c, "forbidden")
            ELSE IF r.op \in Scopes THEN Allow(c, r) ELSE Go(c, Entry(r))
    BY DEF Receives, Receive
<1>2. r.op \in Operations /\ r.user \in Users BY WorkloadAssumption DEF CallsOK, mix
<1>3. DOMAIN pc = Calls /\ DOMAIN req = Calls /\ account' = account
    BY DEF CallsOK, Receives, serviceVars, accountVars, rowVars
<1>4. req'[c] = r /\ \A d \in Calls \ {c} : pc'[d] = pc[d] /\ req'[d] = req[d]
    BY <1>1, <1>3 DEF Answer, Go, Allow
<1>5. \/ pc'[c] = "done"
      \/ /\ pc'[c] \in {"malformed", r.op}
         /\ r.op \in PublicOps \/ Verify(r.token)
    BY <1>1, <1>3 DEF Answer, Go, Allow, Entry
<1>6. pc'[c] # "r_commit" /\ (Served(c)' => pc'[c] = r.op /\ r.op \in Doors)
    BY <1>2, <1>5 DEF Operations, Served, Doors, PatchLabels
<1>7. ASSUME Served(c)' PROVE User(c)' \in Users /\ account[User(c)'] # None
    <2>1. r.op \notin PublicOps BY <1>6, <1>7, WorkloadAssumption DEF Doors
    <2>2. r.token # None BY <1>5, <1>6, <1>7, <2>1 DEF Verify, Doors
    <2>3. User(c)' = r.user BY <1>4 DEF User
    <2>4. account[r.user] # None BY <1>4, <2>1, <2>2 DEF Receives, Signed
    <2>5. QED BY <1>2, <2>3, <2>4
<1>8. \A d \in Calls : Served(d)' =>
         \/ Served(d) /\ req'[d] = req[d]
         \/ User(d)' \in Users /\ account[User(d)'] # None
    BY <1>4, <1>7 DEF Served
<1>9. QED BY <1>3, <1>4, <1>6, <1>8, HolderGoesOn

LEMMA HolderInAccounts ==
    ASSUME CallsOK, HolderInv, NEW c \in Calls, InAccounts(c)
    PROVE  HolderInv'
<1> USE DEF Served, Doors, PatchLabels
<1>1. DOMAIN pc = Calls /\ req' = req BY AccountMoves DEF CallsOK, InAccounts, Moves
<1>2. \A d \in Calls : User(d)' = User(d) /\ Named(d)' = Named(d) BY <1>1 DEF User, Named
<1>3. ASSUME account' = account,
             \A d \in Calls : pc'[d] \in Doors \cup PatchLabels \cup {"r_commit"} => pc'[d] = pc[d]
      PROVE  HolderInv'
    BY <1>1, <1>3, HolderGoesOn
<1> USE DEF Go, Answer, AnswerCommit
<1>4. CASE Register(c)
    <2>1. pc[c] = "register" /\ account' = account
        BY <1>4 DEF Register, accountVars, rowVars
    <2>2. CASE pc' = [pc EXCEPT ![c] = "done"] BY <1>1, <1>3, <2>1, <2>2
    <2>3. CASE /\ pc' = [pc EXCEPT ![c] = "r_commit"]
               /\ account[Named(c)] = None /\ \A d \in Calls : ~Inserting(d, Named(c))
        <3>1. Named(c) \in Users
            <4>1. req[c] \in mix.requests /\ req[c].op = "register" /\ load \in DOMAIN Mixes
                BY <2>1 DEF CallsOK, Entries
            <4>2. req[c].email \in Emails BY <4>1, WorkloadAssumption DEF mix
            <4>3. QED BY <4>2, AccountAssumption DEF Named
        <3>2. \A d \in Calls : pc'[d] = "r_commit" => d = c \/ pc[d] = "r_commit"
            BY <1>1, <2>3
        <3>3. \A d \in Calls : pc[d] = "r_commit" => Named(d) # Named(c)
            BY <2>3 DEF Inserting
        <3>4. \A d \in Calls : Served(d)' => Served(d) BY <1>1, <2>3
        <3>5. QED BY <1>2, <2>1, <2>3, <3>1, <3>2, <3>3, <3>4 DEF HolderInv
    <2>4. QED BY <1>4, <2>2, <2>3 DEF Register
<1>5. CASE CommitUser(c)
    <2>1. /\ pc[c] = "r_commit" /\ account' = [account EXCEPT ![Named(c)] = NewUser(c)]
          /\ pc' = [pc EXCEPT ![c] = "r_note"] \/ pc' = [pc EXCEPT ![c] = "done"]
        BY <1>5 DEF CommitUser
    <2>2. /\ DOMAIN account' = Users
          /\ \A u \in Users \ {Named(c)} : account'[u] = account[u]
        BY <2>1 DEF HolderInv
    <2>3. \A d \in Calls : Served(d)' => Served(d) /\ User(d) # Named(c)
        BY <1>1, <2>1 DEF HolderInv
    <2>4. \A d \in Calls : pc'[d] = "r_commit" => pc[d] = "r_commit" /\ Named(d) # Named(c)
        BY <1>1, <2>1 DEF HolderInv
    <2>5. QED BY <1>2, <2>2, <2>3, <2>4 DEF HolderInv
<1>6. CASE NoteRegistration(c) BY <1>1, <1>3, <1>6 DEF NoteRegistration, accountVars, rowVars
<1>7. CASE IssuePair(c) BY <1>1, <1>3, <1>7 DEF IssuePair, accountVars, rowVars
<1>8. CASE Login(c) BY <1>1, <1>3, <1>8 DEF Login, accountVars, rowVars
<1>9. CASE RecordFailedLogin(c) BY <1>1, <1>3, <1>9 DEF RecordFailedLogin, rowVars
<1>10. CASE LoginSucceeded(c) BY <1>1, <1>3, <1>10 DEF LoginSucceeded, rowVars
<1>11. CASE NoteAdminLogin(c) BY <1>1, <1>3, <1>11 DEF NoteAdminLogin, accountVars, rowVars
<1>12. CASE Me(c) BY <1>1, <1>3, <1>12 DEF Me, accountVars, rowVars
<1>13. CASE UpdateDisplayName(c) BY <1>1, <1>3, <1>13 DEF UpdateDisplayName
<1>14. CASE Summary(c) BY <1>1, <1>3, <1>14 DEF Summary, accountVars, rowVars
<1>15. CASE Progression(c) BY <1>1, <1>3, <1>15 DEF Progression, accountVars, rowVars
<1>16. QED
    BY <1>4, <1>5, <1>6, <1>7, <1>8, <1>9, <1>10, <1>11, <1>12, <1>13, <1>14, <1>15
    DEF InAccounts, AccountStep

LEMMA HolderStep == ASSUME CallsOK, HolderInv, [Next]_vars PROVE HolderInv'
<1> USE DEF Doors, PatchLabels, accountVars, rowVars
<1>1. CASE UNCHANGED <<pc, req, account>> BY <1>1, HolderGoesOn DEF Served
<1>2. CASE UNCHANGED vars \/ Idles
    BY <1>1, <1>2 DEF vars, requestVars, Idles, Tick, serviceVars
<1>3. ASSUME NEW c \in Calls, Ends(c) PROVE HolderInv'
    BY <1>3, EndMoves, HolderMoves DEF Ends, serviceVars
<1>4. ASSUME NEW c \in Calls, InSettings(c) PROVE HolderInv'
    <2>1. Served(c) \/ pc[c] = "s_read"
        BY <1>4 DEF InSettings, SettingsStep, GetSettings, ReadSettings, PatchSettings,
                    LockSettings, ReadAndApply, SaveSettings, Served
    <2>2. CASE Served(c)
        BY <1>4, <2>2, SettingsMoves, HolderMoves DEF InSettings, SettingsLabels
    <2>3. CASE pc[c] = "s_read"
        <3>1. ReadSettings(c)
            BY <1>4, <2>3 DEF InSettings, SettingsStep, GetSettings, PatchSettings,
                              LockSettings, ReadAndApply, SaveSettings
        <3>2. \A d \in Calls : pc'[d] = pc[d] \/ pc'[d] = "done"
            BY <3>1 DEF ReadSettings, Answer, CallsOK
        <3>3. req' = req /\ account' = account BY <1>4, <3>1 DEF InSettings, ReadSettings, limiterVars
        <3>4. QED BY <3>2, <3>3, HolderGoesOn DEF Served
    <2>4. QED BY <2>1, <2>2, <2>3
<1>5. ASSUME NEW c \in Calls, InVisual(c) PROVE HolderInv'
    BY <1>5, VisualMoves, HolderMoves DEF InVisual, VisualLabels
<1>6. ASSUME NEW c \in Calls, InBoard(c) PROVE HolderInv'
    BY <1>6, BoardMoves, HolderMoves DEF InBoard, BoardLabels
<1>7. ASSUME NEW c \in Calls, InCatalog(c) PROVE HolderInv'
    BY <1>7, CatalogMoves, HolderMoves DEF InCatalog, CatalogLabels
<1>8. ASSUME NEW c \in Calls, InReads(c) PROVE HolderInv'
    BY <1>8, AdminReadMoves, HolderMoves DEF InReads, AdminReadStep
<1>9. QED BY <1>2, <1>3, <1>4, <1>5, <1>6, <1>7, <1>8, HolderReceives, HolderInAccounts, NextCases

LEMMA HolderAlways == Spec => []HolderInv
<1>1. Init => HolderInv BY HolderInit
<1>2. CallsOK /\ HolderInv /\ [Next]_vars => HolderInv' BY HolderStep
<1>3. QED BY <1>1, <1>2, CallsAlways, PTL DEF Spec

-----------------------------------------------------------------------------
(* Patches of the settings. *)

Patches(c) == pc[c] \in PatchLabels
Full(u) == notification[u] # {} /\ \A k \in SettingKeys : settings[u][k] # None

\* A patch at work is a valid one of a registered user whose rows exist.  One
\* patch at a time holds the rows, and what it is about to write is what is stored
\* now with its own fields replaced.  Whoever has no row of reminders, or is not
\* registered, has never patched.
PatchInv ==
    /\ DOMAIN settings = Users /\ DOMAIN notification = Users
    /\ DOMAIN wanted = Users /\ DOMAIN draft = Calls /\ DOMAIN account = Users
    /\ PatchesKept
    /\ \A u \in Users : notification[u] = {} => wanted[u] = defaultSettings
    /\ \A c \in Calls : Patches(c) =>
          /\ req[c].op = "patchSettings" /\ ValidPatch(req[c].patch)
          /\ Full(User(c))
    /\ \A c \in Calls : pc[c] = "s_commit" =>
          draft[c] = mergeSettings(mapSettings(settings[User(c)]), req[c].patch)
    /\ \A c, d \in Calls :
          /\ pc[c] \in {"s_apply", "s_commit"} /\ pc[d] \in {"s_apply", "s_commit"}
          /\ User(c) = User(d)
          => c = d
    /\ \A u \in Users : account[u] = None => wanted[u] = defaultSettings

LEMMA SettingNames ==
    /\ keyDisableRandom \in SettingKeys
    /\ DOMAIN defaultSettings = SettingKeys
BY DEF SettingKeys, defaultSettings, keyDisableRandom

LEMMA MapFills ==
    ASSUME NEW rows
    PROVE  /\ mapSettings(mapSettings(rows)) = mapSettings(rows)
           /\ \A k \in SettingKeys : mapSettings(rows)[k] # None
<1>1. \A k \in SettingKeys : mapSettings(rows)[k] = IF rows[k] = None THEN defaultSettings[k] ELSE rows[k]
    BY DEF mapSettings
<1>2. \A k \in SettingKeys : mapSettings(rows)[k] # None BY <1>1, AbsenceAssumption
<1>3. QED BY <1>2 DEF mapSettings

LEMMA PatchedFields ==
    ASSUME NEW p, ValidPatch(p)
    PROVE  \A k \in DOMAIN p : p[k] # None
BY DEF ValidPatch, decodeSettingsPatch

LEMMA MapOfNothing == mapSettings(NoRows) = defaultSettings
BY DEF mapSettings, NoRows, SettingKeys, defaultSettings

LEMMA MapOfDefault == mapSettings(defaultSettings) = defaultSettings
BY AbsenceAssumption DEF mapSettings, SettingKeys, defaultSettings

LEMMA PatchInit == ASSUME Init PROVE PatchInv
<1>1. mix = Mixes[load] /\ load \in DOMAIN Mixes /\ \A c \in Calls : pc[c] = "idle"
    BY DEF Init, RequestsInit, mix
<1>2. /\ DOMAIN settings = Users /\ DOMAIN notification = Users
      /\ DOMAIN wanted = Users /\ DOMAIN draft = Calls
      /\ \A u \in Users : /\ wanted[u] = mapSettings(settings[u])
                          /\ notification[u] \subseteq {Reminders(wanted[u])}
                          /\ notification[u] = {} => settings[u] = NoRows
                          /\ u \notin DOMAIN mix.known => settings[u] = NoRows
    BY DEF Init, SettingsInit
<1>3. DOMAIN account = Users /\ \A u \in DOMAIN mix.known : account[u] # None
    BY <1>1, WorkloadAssumption, AbsenceAssumption DEF Init, AccountsInit, SeededUser
<1>4. PatchesKept BY <1>2 DEF PatchesKept
<1>5. QED BY <1>1, <1>2, <1>3, <1>4, MapOfNothing DEF PatchInv, Patches, PatchLabels

LEMMA PatchCalm ==
    ASSUME PatchInv, UNCHANGED <<load, settings, notification, wanted, account>>,
           Aloof(PatchLabels), DOMAIN draft' = Calls,
           \A c \in Calls : pc'[c] = "s_commit" => draft'[c] = draft[c]
    PROVE  PatchInv'
<1>1. \A c \in Calls : pc'[c] \in PatchLabels => pc'[c] = pc[c] /\ req'[c] = req[c]
    BY DEF Aloof
<1>2. PatchesKept' BY DEF PatchInv, PatchesKept, mapSettings
<1>3. \A u : Full(u)' = Full(u) /\ mapSettings(settings[u])' = mapSettings(settings[u])
    BY DEF Full, mapSettings
<1>4. \A c \in Calls : pc'[c] \in PatchLabels => User(c)' = User(c)
    BY <1>1 DEF User
<1>5. \A c \in Calls : Patches(c)' =>
         /\ req'[c].op = "patchSettings" /\ ValidPatch(req'[c].patch)
         /\ Full(User(c))'
    BY <1>1, <1>3, <1>4 DEF PatchInv, Patches, PatchLabels
<1>6. \A c \in Calls : pc'[c] = "s_commit" =>
         draft'[c] = mergeSettings(mapSettings(settings'[User(c)']), req'[c].patch)
    BY <1>1, <1>3, <1>4 DEF PatchInv, PatchLabels
<1>7. \A c, d \in Calls :
         /\ pc'[c] \in {"s_apply", "s_commit"} /\ pc'[d] \in {"s_apply", "s_commit"}
         /\ User(c)' = User(d)'
         => c = d
    BY <1>1, <1>4 DEF PatchInv, PatchLabels
<1>8. QED
    BY <1>2, <1>5, <1>6, <1>7 DEF PatchInv

\* Rows that are made, with the default of a setting, show what was shown before.
LEMMA PatchRowsMade ==
    ASSUME PatchInv,
           UNCHANGED <<load, wanted, draft, account>>,
           DOMAIN settings' = Users, DOMAIN notification' = Users,
           \A u \in Users : mapSettings(settings'[u]) = mapSettings(settings[u]),
           \A u \in Users : Full(u) => Full(u)',
           \A u \in Users : \/ notification'[u] = notification[u]
                            \/ notification'[u] = {Reminders(defaultSettings)}
                               /\ wanted[u] = defaultSettings,
           \A c \in Calls : Patches(c) => User(c) \in Users,
           \A c \in Calls : pc'[c] \in PatchLabels \ {"s_lock"} =>
               pc'[c] = pc[c] /\ req'[c] = req[c],
           \A c \in Calls : pc'[c] = "s_lock" =>
               \/ pc[c] = "s_lock" /\ req'[c] = req[c]
               \/ /\ req'[c].op = "patchSettings" /\ ValidPatch(req'[c].patch)
                  /\ Full(User(c))'
    PROVE  PatchInv'
<1>1. PatchesKept' BY DEF PatchInv, PatchesKept
<1>3. \A c \in Calls : req'[c] = req[c] => User(c)' = User(c) BY DEF User
<1>4. \A c \in Calls : Patches(c)' =>
         /\ req'[c].op = "patchSettings" /\ ValidPatch(req'[c].patch)
         /\ Full(User(c))'
    BY <1>3 DEF PatchInv, Patches, PatchLabels
<1>5. \A c \in Calls : pc'[c] = "s_commit" =>
         draft'[c] = mergeSettings(mapSettings(settings'[User(c)']), req'[c].patch)
    BY <1>3 DEF PatchInv, Patches, PatchLabels
<1>6. \A c, d \in Calls :
         /\ pc'[c] \in {"s_apply", "s_commit"} /\ pc'[d] \in {"s_apply", "s_commit"}
         /\ User(c)' = User(d)'
         => c = d
    BY <1>3 DEF PatchInv, PatchLabels
<1>7. \A u \in Users : account'[u] = None \/ notification'[u] = {} => wanted'[u] = defaultSettings
    BY DEF PatchInv
<1>8. QED BY <1>1, <1>4, <1>5, <1>6, <1>7 DEF PatchInv

LEMMA Ensured ==
    ASSUME PatchInv, NEW u \in Users, ensureSettings(u)
    PROVE  /\ DOMAIN settings' = Users /\ DOMAIN notification' = Users
           /\ \A v \in Users : mapSettings(settings'[v]) = mapSettings(settings[v])
           /\ \A v \in Users : Full(v) => Full(v)'
           /\ Full(u)'
           /\ \A v \in Users : \/ notification'[v] = notification[v]
                               \/ notification'[v] = {Reminders(defaultSettings)}
                                  /\ v = u /\ notification[u] = {}
BY MapFills DEF ensureSettings, PatchInv, Full

LEMMA PatchInSettings ==
    ASSUME CallsOK, HolderInv, PatchInv, NEW c \in Calls, InSettings(c)
    PROVE  PatchInv'
<1> DEFINE u == User(c)
<1> USE DEF PatchLabels
<1>1. Moves(c, SettingsLabels) BY SettingsMoves DEF InSettings
<1>2. /\ DOMAIN pc = Calls /\ UNCHANGED <<load, req, account>> /\ u \in Users
      /\ \A d \in Calls : Patches(d) => User(d) \in Users
    BY <1>1, WorkloadAssumption DEF CallsOK, Moves, InSettings, accountVars, rowVars, User, mix, Patches
<1>4. \A d \in Calls : User(d)' = User(d) BY <1>2 DEF User
<1>5. ASSUME ensureSettings(u), UNCHANGED <<draft, wanted>>,
             \/ pc' = [pc EXCEPT ![c] = "s_read"]
             \/ /\ pc' = [pc EXCEPT ![c] = "s_lock"]
                /\ req[c].op = "patchSettings" /\ ValidPatch(req[c].patch)
      PROVE  PatchInv'
    <2>1. \A v \in Users : notification[v] = {} => wanted[v] = defaultSettings BY DEF PatchInv
    <2>2. QED BY <1>2, <1>4, <1>5, <2>1, Ensured, PatchRowsMade DEF Patches
<1>6. CASE GetSettings(c) BY <1>5, <1>6 DEF GetSettings, Go
<1>7. CASE ReadSettings(c)
    BY <1>2, <1>7, PatchCalm DEF ReadSettings, Answer, Aloof, PatchInv
<1>8. CASE PatchSettings(c)
    <2>1. CASE ValidPatch(req[c].patch)
        BY <1>5, <1>8, <2>1 DEF PatchSettings, Go, CallsOK, Entries
    <2>2. CASE ~ValidPatch(req[c].patch)
        BY <1>2, <1>8, <2>2, PatchCalm DEF PatchSettings, Answer, Aloof, PatchInv
    <2>3. QED BY <2>1, <2>2
<1>9. CASE LockSettings(c)
    <2>1. /\ pc[c] = "s_lock" /\ pc' = [pc EXCEPT ![c] = "s_apply"]
          /\ UNCHANGED settingsVars
          /\ \A d \in Calls : pc[d] \in {"s_apply", "s_commit"} => User(d) # u
        BY <1>9 DEF LockSettings, Go, LocksSettings
    <2>2. PatchesKept' BY <2>1 DEF PatchInv, PatchesKept, settingsVars, mapSettings
    <2>3. \A v : Full(v)' = Full(v) BY <2>1 DEF Full, settingsVars
    <2>4. \A d \in Calls : Patches(d)' =>
             /\ req'[d].op = "patchSettings" /\ ValidPatch(req'[d].patch)
             /\ Full(User(d))'
        BY <1>2, <1>4, <2>1, <2>3 DEF PatchInv, Patches
    <2>5. \A d \in Calls : pc'[d] = "s_commit" =>
             draft'[d] = mergeSettings(mapSettings(settings'[User(d)']), req'[d].patch)
        BY <1>2, <1>4, <2>1 DEF PatchInv, settingsVars
    <2>6. \A d, e \in Calls :
             /\ pc'[d] \in {"s_apply", "s_commit"} /\ pc'[e] \in {"s_apply", "s_commit"}
             /\ User(d)' = User(e)'
             => d = e
        BY <1>2, <1>4, <2>1 DEF PatchInv
    <2>7. QED
        BY <1>2, <2>1, <2>2, <2>4, <2>5, <2>6 DEF PatchInv, settingsVars
<1>10. CASE ReadAndApply(c)
    <2>1. /\ pc[c] = "s_apply" /\ pc' = [pc EXCEPT ![c] = "s_commit"]
          /\ UNCHANGED <<settings, notification, wanted>>
          /\ draft' = [draft EXCEPT ![c] =
                          mergeSettings(mapSettings(settings[u]), req[c].patch)]
        BY <1>10 DEF ReadAndApply, Go
    <2>2. PatchesKept' BY <2>1 DEF PatchInv, PatchesKept, mapSettings
    <2>3. \A v : Full(v)' = Full(v) BY <2>1 DEF Full
    <2>4. \A d \in Calls : Patches(d)' =>
             /\ req'[d].op = "patchSettings" /\ ValidPatch(req'[d].patch)
             /\ Full(User(d))'
        BY <1>2, <1>4, <2>1, <2>3 DEF PatchInv, Patches
    <2>5. \A d \in Calls : pc'[d] = "s_commit" =>
             draft'[d] = mergeSettings(mapSettings(settings'[User(d)']), req'[d].patch)
        BY <1>2, <1>4, <2>1 DEF PatchInv
    <2>6. \A d, e \in Calls :
             /\ pc'[d] \in {"s_apply", "s_commit"} /\ pc'[e] \in {"s_apply", "s_commit"}
             /\ User(d)' = User(e)'
             => d = e
        BY <1>2, <1>4, <2>1 DEF PatchInv
    <2>7. QED
        BY <1>2, <2>1, <2>2, <2>4, <2>5, <2>6 DEF PatchInv
<1>11. CASE SaveSettings(c)
    <2>1. /\ pc[c] = "s_commit" /\ pc' = [pc EXCEPT ![c] = "done"]
          /\ settings' = [settings EXCEPT ![u] =
                [k \in SettingKeys |-> IF @[k] = None THEN None ELSE draft[c][k]]]
          /\ notification' = [notification EXCEPT ![u] = {Reminders(draft[c]) : row \in @}]
          /\ wanted' = [wanted EXCEPT ![u] = mergeSettings(@, req[c].patch)]
          /\ draft' = draft
        BY <1>11 DEF SaveSettings, AnswerCommit, Answer
    <2>2. Full(u) /\ ValidPatch(req[c].patch) /\ req[c].op = "patchSettings"
        BY <2>1 DEF PatchInv, Patches
    <2>3. draft[c] = mergeSettings(mapSettings(settings[u]), req[c].patch)
        BY <2>1 DEF PatchInv
    <2>4. \A k \in SettingKeys : draft[c][k] # None
        <3>1. \A k \in SettingKeys : draft[c][k] = IF k \in DOMAIN req[c].patch THEN req[c].patch[k]
                                                   ELSE mapSettings(settings[u])[k]
            BY <2>3 DEF mergeSettings
        <3>2. \A k \in SettingKeys : mapSettings(settings[u])[k] # None BY MapFills
        <3>3. \A k \in DOMAIN req[c].patch : req[c].patch[k] # None
            BY <2>2, PatchedFields
        <3>4. QED BY <3>1, <3>2, <3>3
    <2>5. settings'[u] = [k \in SettingKeys |-> draft[c][k]]
        BY <1>2, <2>1, <2>2 DEF PatchInv, Full
    <2>6. mapSettings(settings'[u]) = draft[c]
        <3>1. mapSettings(settings'[u]) = [k \in SettingKeys |-> draft[c][k]]
            BY <2>4, <2>5 DEF mapSettings
        <3>2. QED BY <2>3, <3>1 DEF mergeSettings
    <2>7. wanted'[u] = draft[c]
        BY <1>2, <2>1, <2>3 DEF PatchInv, PatchesKept
    <2>8. /\ notification'[u] = {Reminders(draft[c])}
          /\ \A v \in Users \ {u} : /\ notification'[v] = notification[v]
                                  /\ settings'[v] = settings[v] /\ wanted'[v] = wanted[v]
        BY <1>2, <2>1, <2>2 DEF PatchInv, Full
    <2>9. PatchesKept' BY <2>6, <2>7, <2>8 DEF PatchInv, PatchesKept
    <2>10. \A v \in Users : Full(v) => Full(v)' BY <2>4, <2>5, <2>8 DEF Full
    <2>11. \A d \in Calls : Patches(d)' =>
              /\ req'[d].op = "patchSettings" /\ ValidPatch(req'[d].patch)
              /\ Full(User(d))'
        BY <1>2, <1>4, <2>1, <2>10 DEF PatchInv, Patches
    <2>12. \A d \in Calls : pc'[d] = "s_commit" =>
              draft'[d] = mergeSettings(mapSettings(settings'[User(d)']), req'[d].patch)
        <3>1. SUFFICES ASSUME NEW d \in Calls, pc'[d] = "s_commit"
                       PROVE  draft[d] = mergeSettings(mapSettings(settings'[User(d)]), req[d].patch)
            BY <1>2, <1>4, <2>1
        <3>2. d # c /\ pc[d] = "s_commit" BY <1>2, <2>1, <3>1
        <3>3. User(d) # u BY <2>1, <3>2 DEF PatchInv
        <3>4. User(d) \in Users BY <1>2, <3>2 DEF Patches
        <3>5. QED BY <2>8, <3>2, <3>3, <3>4 DEF PatchInv
    <2>13. \A d, e \in Calls :
              /\ pc'[d] \in {"s_apply", "s_commit"} /\ pc'[e] \in {"s_apply", "s_commit"}
              /\ User(d)' = User(e)'
              => d = e
        BY <1>2, <1>4, <2>1 DEF PatchInv
    <2>14. account[u] # None BY <2>1 DEF HolderInv, Served
    <2>15. \A v \in Users : account'[v] = None \/ notification'[v] = {} => wanted'[v] = defaultSettings
        BY <1>2, <2>8, <2>14 DEF PatchInv
    <2>16. QED
        BY <1>2, <2>1, <2>9, <2>11, <2>12, <2>13, <2>15 DEF PatchInv
<1>12. QED
    BY <1>6, <1>7, <1>8, <1>9, <1>10, <1>11 DEF InSettings, SettingsStep

\* The rows of a new user are those of somebody who has not patched.
LEMMA PatchInAccounts ==
    ASSUME CallsOK, HolderInv, PatchInv, NEW c \in Calls, InAccounts(c)
    PROVE  PatchInv'
<1> USE DEF PatchLabels
<1>1. Moves(c, AccountLabels) BY AccountMoves DEF InAccounts
<1>2. /\ DOMAIN pc = Calls /\ UNCHANGED <<load, req>>
      /\ \A d \in Calls : Patches(d) => User(d) \in Users /\ account[User(d)] # None
      /\ \A d \in Calls : pc'[d] \in PatchLabels => pc'[d] = pc[d]
    BY <1>1 DEF CallsOK, Moves, AccountLabels, Patches, HolderInv, Served
<1>3. \A d \in Calls : User(d)' = User(d) BY <1>2 DEF User
<1>4. CASE UNCHANGED <<settingsVars, account>>
    BY <1>2, <1>4, PatchCalm DEF Aloof, PatchInv, settingsVars
<1>5. CASE CommitUser(c)
    <2>1. /\ pc[c] = "r_commit"
          /\ account' = [account EXCEPT ![Named(c)] = NewUser(c)]
          /\ settings' = [settings EXCEPT ![Named(c)] = defaultSettings]
          /\ notification' = [notification EXCEPT ![Named(c)] = {Reminders(defaultSettings)}]
          /\ UNCHANGED <<draft, wanted>>
        BY <1>5 DEF CommitUser
    <2>2. Named(c) \in Users /\ account[Named(c)] = None BY <2>1 DEF HolderInv
    <2>3. \A v \in Users : \/ /\ v = Named(c) /\ settings'[v] = defaultSettings
                             /\ notification'[v] = {Reminders(defaultSettings)}
                             /\ wanted[v] = defaultSettings
                          \/ /\ settings'[v] = settings[v]
                             /\ notification'[v] = notification[v]
        <3> TAKE v \in Users
        <3>1. v \in DOMAIN settings /\ v \in DOMAIN notification BY DEF PatchInv
        <3>2. CASE v = Named(c)
            <4>1. settings'[v] = defaultSettings BY <2>1, <3>1, <3>2
            <4>2. notification'[v] = {Reminders(defaultSettings)} BY <2>1, <3>1, <3>2
            <4>3. wanted[v] = defaultSettings BY <2>2, <3>2 DEF PatchInv
            <4>4. QED BY <3>2, <4>1, <4>2, <4>3
        <3>3. CASE v # Named(c)
            BY <2>1, <3>1, <3>3
        <3>4. QED BY <3>2, <3>3
    <2>4. \A v \in Users : mapSettings(settings'[v]) = wanted[v]
        BY <2>3, MapOfDefault DEF PatchInv, PatchesKept
    <2>5. PatchesKept' BY <2>1, <2>3, <2>4 DEF PatchInv, PatchesKept
    <2>6. \A v \in Users : account[v] # None =>
             settings'[v] = settings[v] /\ notification'[v] = notification[v]
        BY <2>1, <2>2 DEF PatchInv
    <2>7. \A d \in Calls : Patches(d)' =>
             /\ req'[d].op = "patchSettings" /\ ValidPatch(req'[d].patch)
             /\ Full(User(d))'
        BY <1>2, <1>3, <2>6 DEF PatchInv, Patches, Full
    <2>8. \A d \in Calls : pc'[d] = "s_commit" =>
             draft'[d] = mergeSettings(mapSettings(settings'[User(d)']), req'[d].patch)
        BY <1>2, <1>3, <2>1, <2>6 DEF PatchInv, Patches
    <2>9. \A d, e \in Calls :
             /\ pc'[d] \in {"s_apply", "s_commit"} /\ pc'[e] \in {"s_apply", "s_commit"}
             /\ User(d)' = User(e)'
             => d = e
        BY <1>2, <1>3 DEF PatchInv
    <2>10. \A v \in Users : account'[v] = None \/ notification'[v] = {} =>
              wanted'[v] = defaultSettings
        <3>1. \A v \in Users \ {Named(c)} : account'[v] = account[v]
            BY <2>1 DEF PatchInv
        <3>2. QED BY <2>1, <2>2, <2>3, <3>1 DEF PatchInv
    <2>11. QED BY <2>1, <2>5, <2>7, <2>8, <2>9, <2>10 DEF PatchInv
<1>6. QED
    BY <1>4, <1>5
    DEF InAccounts, AccountStep, Register, NoteRegistration, IssuePair, Login,
        RecordFailedLogin, LoginSucceeded, NoteAdminLogin, Me, UpdateDisplayName, Summary,
        Progression, accountVars, rowVars

\* A refresh makes the row of one setting, with what it shows already.
LEMMA PatchInVisual ==
    ASSUME CallsOK, PatchInv, NEW c \in Calls, InVisual(c)
    PROVE  PatchInv'
<1> USE DEF PatchLabels
<1>1. Moves(c, VisualLabels) BY VisualMoves DEF InVisual
<1>2. /\ UNCHANGED <<load, req, account>> /\ User(c) \in Users
      /\ \A d \in Calls : Patches(d) => User(d) \in Users
      /\ \A d \in Calls : pc'[d] \in PatchLabels => pc'[d] = pc[d] /\ req'[d] = req[d]
    BY <1>1, WorkloadAssumption
    DEF CallsOK, Moves, VisualLabels, InVisual, accountVars, rowVars, User, mix, Patches
<1>3. CASE UNCHANGED settingsVars
    BY <1>2, <1>3, PatchCalm DEF settingsVars, Aloof, PatchInv
<1>4. CASE settings' = [settings EXCEPT ![User(c)][keyDisableRandom] =
                           mapSettings(settings[User(c)])[keyDisableRandom]]
           /\ UNCHANGED <<notification, draft, wanted>>
    <2> DEFINE u == User(c)
               key == keyDisableRandom
    <2>1. /\ DOMAIN settings' = Users
          /\ \A v \in Users \ {u} : settings'[v] = settings[v]
          /\ settings'[u] = [settings[u] EXCEPT ![key] = mapSettings(settings[u])[key]]
        BY <1>2, <1>4 DEF PatchInv
    <2>2. \A k \in SettingKeys : settings'[u][k] = IF k = key /\ k \in DOMAIN settings[u]
                                                   THEN mapSettings(settings[u])[k]
                                                   ELSE settings[u][k]
        BY <2>1
    <2>3. \A k \in SettingKeys : mapSettings(settings[u])[k] # None
                              /\ (settings[u][k] # None => mapSettings(settings[u])[k] = settings[u][k])
        BY MapFills DEF mapSettings
    <2>4. \A k \in SettingKeys : settings'[u][k] = None => settings[u][k] = None
        BY <2>2, <2>3
    <2>5. \A k \in SettingKeys : mapSettings(settings'[u])[k] = mapSettings(settings[u])[k]
        BY <2>2, <2>3 DEF mapSettings
    <2>6. mapSettings(settings'[u]) = mapSettings(settings[u]) BY <2>5 DEF mapSettings
    <2>7. \A v \in Users : mapSettings(settings'[v]) = mapSettings(settings[v])
        BY <2>1, <2>6
    <2>8. \A v \in Users : Full(v) => Full(v)' BY <1>4, <2>1, <2>4 DEF Full
    <2>9. QED BY <1>2, <1>4, <2>1, <2>7, <2>8, PatchRowsMade DEF PatchInv
<1>5. QED
    BY <1>3, <1>4
    DEF InVisual, VisualStep, GetVisual, RefreshVisual, ReadFlag, LoadVisual, UpsertSlot,
        DeadlockVictim, CommitVisual, settingsVars

LEMMA PatchStep == ASSUME CallsOK, HolderInv, PatchInv, [Next]_vars PROVE PatchInv'
<1> USE DEF PatchLabels
<1>1. CASE UNCHANGED vars
    BY <1>1, PatchCalm DEF vars, requestVars, settingsVars, accountVars, rowVars, Aloof, PatchInv
<1>2. CASE Idles
    BY <1>2, PatchCalm
    DEF Idles, Tick, serviceVars, settingsVars, accountVars, rowVars, Aloof, PatchInv
<1>3. ASSUME NEW c \in Calls, Receives(c) PROVE PatchInv'
    <2>1. Aloof(PatchLabels)
        BY <1>3, ReceiveArrives, ArrivalAloof DEF Receives, Operations
    <2>2. QED
        BY <1>3, <2>1, PatchCalm
        DEF Receives, Receive, serviceVars, settingsVars, accountVars, rowVars, PatchInv
<1>4. ASSUME NEW c \in Calls, NEW others, Moves(c, others),
             UNCHANGED <<settingsVars, account>>, others \cap PatchLabels = {}
      PROVE  PatchInv'
    BY <1>4, MovesAloof, PatchCalm DEF settingsVars, Moves, PatchInv
<1>5. ASSUME NEW c \in Calls, Ends(c) PROVE PatchInv'
    BY <1>5, <1>4, EndMoves DEF Ends, serviceVars, accountVars, rowVars
<1>6. ASSUME NEW c \in Calls, InBoard(c) PROVE PatchInv'
    BY <1>6, <1>4, BoardMoves DEF InBoard, BoardLabels, accountVars, rowVars
<1>7. ASSUME NEW c \in Calls, InCatalog(c) PROVE PatchInv'
    BY <1>7, <1>4, CatalogMoves DEF InCatalog, CatalogLabels, accountVars, rowVars
<1>8. ASSUME NEW c \in Calls, InReads(c) PROVE PatchInv'
    BY <1>8, <1>4, AdminReadMoves DEF InReads, AdminReadStep, accountVars, rowVars
<1>9. QED
    BY <1>1, <1>2, <1>3, <1>5, <1>6, <1>7, <1>8, PatchInSettings, PatchInAccounts,
       PatchInVisual, NextCases

LEMMA PatchAlways == Spec => []PatchInv
<1>1. Init => PatchInv BY PatchInit
<1>2. CallsOK /\ HolderInv /\ PatchInv /\ [Next]_vars => PatchInv' BY PatchStep
<1>3. QED BY <1>1, <1>2, CallsAlways, HolderAlways, PTL DEF Spec

\* Patches of different fields that overlap never undo each other: the settings
\* show, field by field, what the last committed patch asked for (UpdateSettings).
THEOREM PatchesAreKept == Spec => []PatchesKept
<1>1. PatchInv => PatchesKept BY DEF PatchInv
<1>2. QED BY <1>1, PatchAlways, PTL

-----------------------------------------------------------------------------
(* Images of items. *)

Uploads(c) == req[c].op = "uploadAsset"

\* An image that an item shows was written to the end by a call that is over; an
\* upload gets to the row only with a whole file, and to a row that exists.
AssetInv ==
    /\ DOMAIN file = Calls
    /\ \A i \in DOMAIN items :
          /\ "asset" \in DOMAIN items[i]
          /\ items[i].asset # None =>
                /\ items[i].asset \in Calls
                /\ file[items[i].asset] = "whole" /\ pc[items[i].asset] = "done"
    /\ \A c \in Calls :
          /\ pc[c] \in {"a_create", "a_write", "a_update"} => Uploads(c)
          /\ pc[c] = "a_update" => file[c] = "whole"
          /\ pc[c] = "i_commit" /\ Uploads(c) => file[c] = "whole"
          /\ pc[c] = "i_name" => ~Uploads(c)
          /\ pc[c] \in {"i_name", "i_commit"} /\ req[c].op # "createItem" =>
                req[c].item \in DOMAIN items

LEMMA AssetInit == ASSUME Init PROVE AssetInv
<1>1. items = Mixes[load].items /\ load \in DOMAIN Mixes /\ DOMAIN file = Calls
    BY DEF Init, RequestsInit, CatalogInit, mix
<1>2. \A c \in Calls : pc[c] = "idle" BY DEF Init, RequestsInit
<1>3. QED BY <1>1, <1>2, WorkloadAssumption DEF AssetInv

LEMMA AssetCalm ==
    ASSUME AssetInv, UNCHANGED <<load, items, file>>, Aloof(CatalogLabels),
           \A c \in Calls : pc[c] = "done" => pc'[c] = "done"
    PROVE  AssetInv'
<1>1. \A c \in Calls : pc'[c] \in CatalogLabels =>
          pc'[c] = pc[c] /\ req'[c] = req[c] /\ Uploads(c)' = Uploads(c)
    BY DEF Aloof, Uploads
<1>2. QED BY <1>1 DEF AssetInv, CatalogLabels

\* A call goes on while items and files stay as they are.
LEMMA AssetGoesOn ==
    ASSUME AssetInv, NEW c \in Calls, NEW l, pc' = [pc EXCEPT ![c] = l], DOMAIN pc = Calls,
           UNCHANGED <<load, req, items, file>>, pc[c] # "done", 
           l \in {"a_create", "a_write", "a_update"} => Uploads(c),
           l = "a_update" => file[c] = "whole",
           l = "i_commit" /\ Uploads(c) => file[c] = "whole",
           l = "i_name" => ~Uploads(c),
           l \in {"i_name", "i_commit"} /\ req[c].op # "createItem" => req[c].item \in DOMAIN items
    PROVE  AssetInv'
BY DEF AssetInv, Uploads

LEMMA AssetInCatalog ==
    ASSUME CallsOK, AssetInv, NEW c \in Calls, InCatalog(c)
    PROVE  AssetInv'
<1>1. Moves(c, CatalogLabels) BY CatalogMoves DEF InCatalog
<1>2. DOMAIN pc = Calls /\ UNCHANGED <<load, req>> /\ pc[c] # "done" /\ pc[c] # "idle"
    BY <1>1 DEF CallsOK, Moves
<1>3. pc[c] \in Entries => req[c].op = pc[c] BY DEF CallsOK
<1>4. req[c] \in mix.requests BY <1>2 DEF CallsOK
<1>5. Item(c) = IF req[c].op = "createItem" THEN c ELSE req[c].item BY DEF Item
<1>6. CASE CreateItem(c)
    <2>1. req[c].op = "createItem" /\ UNCHANGED <<items, file>>
        BY <1>3, <1>6 DEF CreateItem, catalogVars, Entries
    <2>2. \E l \in {"done", "i_name", "i_commit"} : pc' = [pc EXCEPT ![c] = l]
        BY <1>6 DEF CreateItem, BeginItem, Go, Answer
    <2>3. QED BY <1>2, <2>1, <2>2, AssetGoesOn DEF Uploads
<1>7. CASE UpdateItem(c)
    <2>1. req[c].op = "updateItem" /\ UNCHANGED <<items, file>>
        BY <1>3, <1>7 DEF UpdateItem, catalogVars, Entries
    <2>2. \/ pc' = [pc EXCEPT ![c] = "done"]
          \/ /\ \E l \in {"i_name", "i_commit"} : pc' = [pc EXCEPT ![c] = l]
             /\ Item(c) \in DOMAIN items
        BY <1>7 DEF UpdateItem, BeginItem, Go, Answer
    <2>3. QED BY <1>2, <1>5, <2>1, <2>2, AssetGoesOn DEF Uploads
<1>8. CASE WriteName(c)
    <2>1. pc[c] = "i_name" /\ UNCHANGED <<items, file>>
        BY <1>8 DEF WriteName, catalogVars
    <2>2. \E l \in {"done", "i_commit"} : pc' = [pc EXCEPT ![c] = l]
        BY <1>8 DEF WriteName, Go, Answer
    <2>3. ~Uploads(c) /\ (req[c].op # "createItem" => req[c].item \in DOMAIN items)
        BY <2>1 DEF AssetInv
    <2>4. QED BY <1>2, <2>1, <2>2, <2>3, AssetGoesOn
<1>9. CASE NameDeadlock(c) \/ GetItem(c)
    <2>1. pc' = [pc EXCEPT ![c] = "done"] /\ UNCHANGED <<items, file>>
        BY <1>9 DEF NameDeadlock, GetItem, Answer, catalogVars
    <2>2. QED BY <1>2, <2>1, AssetGoesOn
<1>10. CASE DisableItem(c)
    <2>1. req[c].op = "disableItem" /\ UNCHANGED <<items, file>>
        BY <1>3, <1>10 DEF DisableItem, catalogVars, Entries
    <2>2. \/ pc' = [pc EXCEPT ![c] = "done"]
          \/ pc' = [pc EXCEPT ![c] = "i_commit"] /\ Item(c) \in DOMAIN items
        BY <1>10 DEF DisableItem, Go, Answer
    <2>3. QED BY <1>2, <1>5, <2>1, <2>2, AssetGoesOn DEF Uploads
<1>11. CASE UploadAsset(c)
    <2>1. Uploads(c) /\ UNCHANGED <<items, file>>
        BY <1>3, <1>11 DEF UploadAsset, catalogVars, Entries, Uploads
    <2>2. \E l \in {"done", "a_create"} : pc' = [pc EXCEPT ![c] = l]
        BY <1>11 DEF UploadAsset, Go, Answer
    <2>3. QED BY <1>2, <2>1, <2>2, AssetGoesOn
<1>12. CASE CreateFile(c)
    <2>1. /\ pc[c] = "a_create" /\ pc' = [pc EXCEPT ![c] = "a_write"] /\ items' = items
          /\ file' = [file EXCEPT ![c] = "part"]
        BY <1>12 DEF CreateFile, Go
    <2>2. QED BY <1>2, <2>1 DEF AssetInv, Uploads
<1>13. CASE WriteFile(c)
    <2>1. /\ pc[c] = "a_write" /\ pc' = [pc EXCEPT ![c] = "a_update"] /\ items' = items
          /\ file' = [file EXCEPT ![c] = "whole"]
        BY <1>13 DEF WriteFile, Go
    <2>2. QED BY <1>2, <2>1 DEF AssetInv, Uploads
<1>14. CASE SetItemAsset(c)
    <2>1. Uploads(c) /\ file[c] = "whole" /\ UNCHANGED <<items, file>>
        BY <1>14 DEF SetItemAsset, catalogVars, AssetInv
    <2>2. \/ pc' = [pc EXCEPT ![c] = "done"]
          \/ pc' = [pc EXCEPT ![c] = "i_commit"] /\ Item(c) \in DOMAIN items
        BY <1>14 DEF SetItemAsset, Go, Answer
    <2>3. QED BY <1>2, <1>5, <2>1, <2>2, AssetGoesOn DEF Uploads
<1>15. CASE CommitItem(c)
    <2>1. /\ pc[c] = "i_commit" /\ pc' = [pc EXCEPT ![c] = "done"] /\ file' = file
          /\ items' = [i \in DOMAIN items \cup {Item(c)} |->
                          IF i = Item(c) THEN Written(c) ELSE items[i]]
        BY <1>15 DEF CommitItem, AnswerCommit, Answer
    <2>2. \/ "asset" \in DOMAIN Written(c) /\ Written(c).asset = None
          \/ /\ "asset" \in DOMAIN Written(c)
             /\ Written(c).asset = c /\ file[c] = "whole"
          \/ /\ Item(c) \in DOMAIN items /\ "asset" \in DOMAIN Written(c)
             /\ Written(c).asset = items[Item(c)].asset
        <3>1. CASE req[c].op = "createItem"
            BY <3>1 DEF Written, NewItem
        <3>2. CASE req[c].op # "createItem"
            <4> DEFINE i == Item(c)
                       given == IF req[c].op = "updateItem" THEN req[c].fields ELSE <<>>
            <4>1. i \in DOMAIN items /\ "asset" \in DOMAIN items[i]
                BY <1>5, <2>1, <3>2 DEF AssetInv
            <4>2. "asset" \notin DOMAIN given
                BY <1>4, WorkloadAssumption DEF CallsOK, mix
            <4>3. Written(c) = [f \in DOMAIN items[i] |->
                     CASE f = "active" /\ req[c].op = "disableItem" -> FALSE
                       [] f = "asset" /\ req[c].op = "uploadAsset" -> c
                       [] f \in DOMAIN given -> given[f]
                       [] OTHER -> items[i][f]]
                BY <3>2 DEF Written
            <4>4. "asset" \in DOMAIN Written(c) BY <4>1, <4>3
            <4>5. CASE Uploads(c)
                <5>1. Written(c)["asset"] = c BY <4>1, <4>2, <4>3, <4>5 DEF Uploads
                <5>2. file[c] = "whole" BY <2>1, <4>5 DEF AssetInv
                <5>3. QED BY <4>4, <5>1, <5>2
            <4>6. CASE ~Uploads(c)
                <5>1. Written(c)["asset"] = items[i]["asset"]
                    BY <4>1, <4>2, <4>3, <4>6 DEF Uploads
                <5>2. QED BY <4>1, <4>4, <5>1
            <4>7. QED BY <4>5, <4>6
        <3>3. QED BY <3>1, <3>2
    <2>3. QED BY <1>2, <2>1, <2>2 DEF AssetInv, Uploads
<1>16. QED
    BY <1>6, <1>7, <1>8, <1>9, <1>10, <1>11, <1>12, <1>13, <1>14, <1>15
    DEF InCatalog, CatalogStep

LEMMA AssetStep == ASSUME CallsOK, AssetInv, [Next]_vars PROVE AssetInv'
<1> USE DEF CatalogLabels
<1>1. CASE UNCHANGED vars
    BY <1>1, AssetCalm DEF vars, requestVars, catalogVars, Aloof
<1>2. CASE Idles
    BY <1>2, AssetCalm DEF Idles, Tick, serviceVars, catalogVars, Aloof
<1>3. ASSUME NEW c \in Calls, Receives(c) PROVE AssetInv'
    <2>1. Aloof(CatalogLabels)
        BY <1>3, ReceiveArrives, ArrivalAloof DEF Receives, Operations
    <2>2. \A d \in Calls : pc[d] = "done" => pc'[d] = "done"
        BY <1>3, ReceiveArrives DEF Receives, Arrives, CallsOK
    <2>3. QED BY <1>3, <2>1, <2>2, AssetCalm DEF Receives, Receive, serviceVars, catalogVars
<1>4. ASSUME NEW c \in Calls, NEW others, Moves(c, others),
             UNCHANGED catalogVars, others \cap CatalogLabels = {}
      PROVE  AssetInv'
    <2>1. \A d \in Calls : pc[d] = "done" => pc'[d] = "done" BY <1>4 DEF Moves, CallsOK
    <2>2. QED BY <1>4, <2>1, MovesAloof, AssetCalm DEF catalogVars, Moves
<1>5. ASSUME NEW c \in Calls, Ends(c) PROVE AssetInv'
    BY <1>5, <1>4, EndMoves DEF Ends, serviceVars
<1>6. ASSUME NEW c \in Calls, InSettings(c) PROVE AssetInv'
    BY <1>6, <1>4, SettingsMoves DEF InSettings, SettingsLabels
<1>7. ASSUME NEW c \in Calls, InAccounts(c) PROVE AssetInv'
    BY <1>7, <1>4, AccountMoves DEF InAccounts, AccountLabels
<1>8. ASSUME NEW c \in Calls, InVisual(c) PROVE AssetInv'
    BY <1>8, <1>4, VisualMoves DEF InVisual, VisualLabels
<1>9. ASSUME NEW c \in Calls, InBoard(c) PROVE AssetInv'
    BY <1>9, <1>4, BoardMoves DEF InBoard, BoardLabels
<1>10. ASSUME NEW c \in Calls, InReads(c) PROVE AssetInv'
    BY <1>10, <1>4, AdminReadMoves DEF InReads, AdminReadStep
<1>11. QED
    BY <1>1, <1>2, <1>3, <1>5, <1>6, <1>7, <1>8, <1>9, <1>10, AssetInCatalog, NextCases

\* Whichever uploads fail half way, the image an item shows is whole (UploadAsset).
THEOREM ImagesAreWhole == Spec => []AssetServed
<1>1. Init => AssetInv BY AssetInit
<1>2. CallsOK /\ AssetInv /\ [Next]_vars => AssetInv' BY AssetStep
<1>3. AssetInv => AssetServed BY DEF AssetInv, AssetServed
<1>4. QED BY <1>1, <1>2, <1>3, CallsAlways, PTL DEF Spec
-----------------------------------------------------------------------------
(* The limiter of calls. *)

Admitted(d) == Limited(d) /\ ans[d] # "rate_limited"
AdmittedFor(k) == {d \in Calls : Admitted(d) /\ Key(req[d]) = k}
Counts(c) ==
    IF ans[c] = "rate_limited" THEN Cardinality(InWindow(c)) >= LimitOf[req[c].op]
    ELSE Cardinality(InWindow(c)) <= LimitOf[req[c].op]

\* What the limiter remembers of a key are admitted calls of this key, no more
\* than the limit, and none is forgotten that is still inside the window.
LimiterInv ==
    /\ DOMAIN ans = Calls /\ DOMAIN at = Calls /\ DOMAIN hits = Keys
    /\ now \in Int
    /\ \A c \in Calls : pc[c] = "idle" => req[c] = None
    /\ \A c \in Calls : req[c] # None => at[c] \in Int /\ at[c] <= now
    /\ \A c \in Calls : ans[c] \in Refusals => pc[c] = "done"
    /\ \A c \in Calls : Limited(c) => Key(req[c]) \in Keys
    /\ \A k \in Keys : /\ IsFiniteSet(AdmittedFor(k))
                       /\ hits[k] \subseteq AdmittedFor(k)
                       /\ Cardinality(hits[k]) <= LimitOf[k[1]]
    /\ \A d \in Calls : Admitted(d) /\ at[d] > now - Window => d \in hits[Key(req[d])]
    /\ \A c \in Calls : Limited(c) => Counts(c)

LEMMA LimitType ==
    ASSUME NEW k \in Keys
    PROVE  LimitOf[k[1]] \in Nat \ {0} /\ k[1] \in Scopes
BY RequestAssumption DEF Keys

LEMMA InWindowFinite ==
    ASSUME LimiterInv, NEW c \in Calls, Limited(c)
    PROVE  /\ InWindow(c) \subseteq AdmittedFor(Key(req[c]))
           /\ IsFiniteSet(InWindow(c)) /\ Cardinality(InWindow(c)) \in Nat
<1>1. InWindow(c) \subseteq AdmittedFor(Key(req[c]))
    BY DEF InWindow, AdmittedFor, Admitted
<1>2. IsFiniteSet(AdmittedFor(Key(req[c]))) BY DEF LimiterInv
<1>3. QED BY <1>1, <1>2, FS_Subset, FS_CardinalityType

LEMMA LimiterInit == ASSUME Init PROVE LimiterInv
<1>1. /\ now = 0 /\ pc = [c \in Calls |-> "idle"] /\ req = [c \in Calls |-> None]
      /\ ans = [c \in Calls |-> None] /\ hits = [k \in Keys |-> {}]
      /\ at = [c \in Calls |-> None]
    BY DEF Init, RequestsInit
<1>2. \A c \in Calls : ~Limited(c) BY <1>1 DEF Limited
<1>3. \A k \in Keys : AdmittedFor(k) = {} BY <1>2 DEF AdmittedFor, Admitted
<1>4. \A k \in Keys : /\ IsFiniteSet(AdmittedFor(k))
                      /\ hits[k] \subseteq AdmittedFor(k)
                      /\ Cardinality(hits[k]) <= LimitOf[k[1]]
    <2>1. SUFFICES ASSUME NEW k \in Keys
                   PROVE  Cardinality({}) <= LimitOf[k[1]]
        BY <1>1, <1>3, FS_EmptySet
    <2>2. QED BY LimitType, FS_EmptySet
<1>5. \A c \in Calls : pc[c] = "idle" BY <1>1
<1>6. \A c \in Calls : ans[c] \in Refusals => pc[c] = "done"
    <2>1. SUFFICES ASSUME NEW c \in Calls, ans[c] \in Refusals PROVE FALSE
        OBVIOUS
    <2>2. None \in Refusals BY <1>1, <2>1
    <2>3. QED BY <2>2, NoneAssumption DEF Refusals
<1>7. QED BY <1>1, <1>2, <1>3, <1>4, <1>5, <1>6 DEF LimiterInv, Admitted

\* Nothing but the answers of calls at work has changed.
LEMMA LimiterCalm ==
    ASSUME LimiterInv, UNCHANGED <<req, hits, at>>, now' \in Int, now <= now',
           DOMAIN ans' = Calls,
           \A c \in Calls : ans'[c] = ans[c] \/ (ans[c] \notin Refusals /\ ans'[c] \notin Refusals),
           \A c \in Calls : pc'[c] = "idle" => pc[c] = "idle",
           \A c \in Calls : pc[c] = "done" => pc'[c] = "done"
    PROVE  LimiterInv'
<1>1. \A c \in Calls : /\ Limited(c)' <=> Limited(c)
                       /\ ans'[c] = "rate_limited" <=> ans[c] = "rate_limited"
    BY DEF Limited, Refusals
<1>2. \A c \in Calls : Admitted(c)' <=> Admitted(c)
    BY <1>1 DEF Admitted
<1>3. \A k : AdmittedFor(k)' = AdmittedFor(k)
    BY <1>2 DEF AdmittedFor, Key
<1>4. \A c \in Calls : InWindow(c)' = InWindow(c)
    BY <1>1 DEF InWindow, Key
<1>5. \A c \in Calls : Limited(c)' => Counts(c)'
    BY <1>1, <1>4 DEF LimiterInv, Counts
<1>6. \A c \in Calls : Key(req[c])' = Key(req[c])
    BY DEF Key
<1>7. \A d \in Calls : Admitted(d)' /\ at'[d] > now' - Window => d \in hits'[Key(req[d])']
    <2>1. SUFFICES ASSUME NEW d \in Calls, Admitted(d), at[d] > now' - Window
                   PROVE  d \in hits[Key(req[d])]
        BY <1>2, <1>6
    <2>2. now \in Int /\ at[d] \in Int /\ Window \in Nat
        BY <2>1, RequestAssumption DEF LimiterInv, Admitted, Limited
    <2>3. at[d] > now - Window BY <2>1, <2>2
    <2>4. QED BY <2>1, <2>3 DEF LimiterInv
<1>8. \A c \in Calls : req'[c] # None => at'[c] \in Int /\ at'[c] <= now'
    BY DEF LimiterInv
<1>9. \A c \in Calls : ans'[c] \in Refusals => pc'[c] = "done"
    BY DEF LimiterInv
<1>10. \A c \in Calls : Limited(c)' => Key(req[c])' \in Keys
    BY <1>1, <1>6 DEF LimiterInv
<1>11. QED BY <1>3, <1>5, <1>7, <1>8, <1>9, <1>10 DEF LimiterInv, Keys

\* A call comes in that the limiter does not count.
LEMMA LimiterPassed ==
    ASSUME LimiterInv, CallsOK, NEW c \in Calls, NEW r \in mix.requests, NEW status, NEW label,
           pc[c] = "idle", UNCHANGED <<now, hits>>,
           req' = [req EXCEPT ![c] = r], at' = [at EXCEPT ![c] = now],
           DOMAIN ans' = Calls, ans'[c] = status, \A d \in Calls \ {c} : ans'[d] = ans[d],
           pc' = [pc EXCEPT ![c] = label],
           \/ r.op \notin Scopes /\ label # "idle" /\ status \notin Refusals
           \/ label = "done" /\ status \in {"unauthorized", "forbidden"}
    PROVE  LimiterInv'
<1>0. DOMAIN req = Calls /\ DOMAIN pc = Calls /\ DOMAIN ans = Calls /\ DOMAIN at = Calls
    BY DEF CallsOK, LimiterInv
<1>1. ~Limited(c) /\ ~Limited(c)'
    BY <1>0 DEF LimiterInv, Limited
<1>2. \A d \in Calls : /\ Limited(d)' <=> Limited(d)
                       /\ Limited(d) => ans'[d] = ans[d] /\ req'[d] = req[d] /\ at'[d] = at[d]
    BY <1>0, <1>1 DEF Limited
<1>3. \A d \in Calls : Admitted(d)' <=> Admitted(d)
    BY <1>2 DEF Admitted
<1>4. \A k : AdmittedFor(k)' = AdmittedFor(k)
    BY <1>2, <1>3 DEF AdmittedFor, Admitted, Key
<1>5. \A d \in Calls : Limited(d) => InWindow(d)' = InWindow(d)
    BY <1>2 DEF InWindow, Key
<1>6. \A d \in Calls : Limited(d)' => Counts(d)'
    BY <1>2, <1>5 DEF LimiterInv, Counts
<1>7. \A d \in Calls : Admitted(d)' /\ at'[d] > now' - Window => d \in hits'[Key(req[d])']
    BY <1>2, <1>3 DEF LimiterInv, Admitted, Key
<1>8. \A d \in Calls : req'[d] # None => at'[d] \in Int /\ at'[d] <= now'
    BY <1>0 DEF LimiterInv
<1>9. \A d \in Calls : /\ pc'[d] = "idle" => req'[d] = None
                       /\ ans'[d] \in Refusals => pc'[d] = "done"
    BY <1>0 DEF LimiterInv
<1>10. \A d \in Calls : Limited(d)' => Key(req[d])' \in Keys
    BY <1>2 DEF LimiterInv, Key, Keys
<1>11. DOMAIN ans' = Calls /\ DOMAIN at' = Calls /\ DOMAIN hits' = Keys
    BY <1>0 DEF LimiterInv
<1>12. QED BY <1>4, <1>6, <1>7, <1>8, <1>9, <1>10, <1>11 DEF LimiterInv, Keys

\* The limiter lets a call through or refuses it.
LEMMA LimiterDecides ==
    ASSUME LimiterInv, CallsOK, NEW c \in Calls, NEW r \in mix.requests,
           pc[c] = "idle", r.op \in Scopes, UNCHANGED <<load, now>>,
           req' = [req EXCEPT ![c] = r], at' = [at EXCEPT ![c] = now],
           Allow(c, r)
    PROVE  LimiterInv'
<1> DEFINE k == Key(r)
           full == Cardinality(Kept(k)) >= LimitOf[r.op]
<1>0. DOMAIN req = Calls /\ DOMAIN pc = Calls /\ DOMAIN ans = Calls /\ DOMAIN at = Calls
      /\ DOMAIN hits = Keys
    BY DEF CallsOK, LimiterInv
<1>1. /\ k \in Keys /\ k[1] = r.op /\ r # None /\ now \in Int /\ Window \in Nat \ {0}
      /\ r.op \in Operations
    BY WorkloadAssumption, AbsenceAssumption, RequestAssumption
    DEF CallsOK, LimiterInv, mix, Key, Keys
<1>2. IsFiniteSet(AdmittedFor(k)) /\ Kept(k) \subseteq hits[k] /\ hits[k] \subseteq AdmittedFor(k)
    BY <1>1 DEF LimiterInv, Kept
<1>3. IsFiniteSet(Kept(k)) /\ Cardinality(Kept(k)) \in Nat
    BY <1>2, FS_Subset, FS_CardinalityType
<1>4. LimitOf[r.op] \in Nat \ {0}
    BY <1>1, LimitType
<1>5. ~Limited(c) /\ ans[c] \notin Refusals /\ c \notin Kept(k)
    BY <1>2 DEF LimiterInv, Limited, AdmittedFor, Admitted
<1>6. /\ DOMAIN ans' = Calls /\ DOMAIN at' = Calls /\ DOMAIN hits' = Keys
      /\ \A d \in Calls \ {c} : /\ ans'[d] = ans[d] /\ req'[d] = req[d]
                                /\ at'[d] = at[d] /\ pc'[d] = pc[d]
      /\ req'[c] = r /\ at'[c] = now
    BY <1>0 DEF Allow, Answer, Go
<1>7. /\ full => ans'[c] = "rate_limited" /\ pc'[c] = "done"
                 /\ hits' = [hits EXCEPT ![k] = Kept(k)]
      /\ ~full => ans'[c] = ans[c] /\ pc'[c] # "idle"
                  /\ hits' = [hits EXCEPT ![k] = Kept(k) \cup {c}]
    BY <1>0, <1>1 DEF Allow, Answer, Go, Entry, Operations
<1>8. Limited(c)' /\ Key(req[c])' = k /\ (Admitted(c)' <=> ~full)
    BY <1>1, <1>5, <1>6, <1>7 DEF Limited, Admitted, Refusals, Key
<1>9. \A d \in Calls \ {c} : /\ Limited(d)' <=> Limited(d)
                             /\ Admitted(d)' <=> Admitted(d)
                             /\ Key(req[d])' = Key(req[d])
    BY <1>6 DEF Limited, Admitted, Key
<1> HIDE DEF full
<1>10. \A j \in Keys : AdmittedFor(j)' = IF j = k /\ ~full THEN AdmittedFor(j) \cup {c}
                                        ELSE AdmittedFor(j)
    BY <1>5, <1>8, <1>9 DEF AdmittedFor, Admitted
<1>11. \A j \in Keys : hits'[j] = IF j # k THEN hits[j]
                                  ELSE IF full THEN Kept(k) ELSE Kept(k) \cup {c}
    BY <1>0, <1>7
<1>12. ~full => Cardinality(Kept(k) \cup {c}) = Cardinality(Kept(k)) + 1
    BY <1>3, <1>5, FS_AddElement
<1>13. ~full => Cardinality(Kept(k) \cup {c}) <= LimitOf[r.op]
    BY <1>3, <1>4, <1>12 DEF full
<1>14. Cardinality(Kept(k)) <= LimitOf[r.op]
    <2>1. Cardinality(Kept(k)) <= Cardinality(hits[k]) /\ Cardinality(hits[k]) \in Nat
        BY <1>2, FS_Subset, FS_CardinalityType
    <2>2. Cardinality(hits[k]) <= LimitOf[r.op]
        BY <1>1 DEF LimiterInv
    <2>3. QED BY <1>3, <1>4, <2>1, <2>2
<1>15. \A j \in Keys : /\ IsFiniteSet(AdmittedFor(j)')
                       /\ hits'[j] \subseteq AdmittedFor(j)'
                       /\ Cardinality(hits'[j]) <= LimitOf[j[1]]
    <2>1. SUFFICES ASSUME NEW j \in Keys
                   PROVE  /\ IsFiniteSet(AdmittedFor(j)')
                          /\ hits'[j] \subseteq AdmittedFor(j)'
                          /\ Cardinality(hits'[j]) <= LimitOf[j[1]]
        OBVIOUS
    <2>2. IsFiniteSet(AdmittedFor(j)) /\ IsFiniteSet(AdmittedFor(j) \cup {c})
        BY FS_AddElement DEF LimiterInv
    <2>3. CASE j # k BY <1>10, <1>11, <2>2, <2>3 DEF LimiterInv
    <2>4. CASE j = k BY <1>1, <1>2, <1>10, <1>11, <1>13, <1>14, <2>2, <2>4
    <2>5. QED BY <2>3, <2>4
<1>16. \A d \in Calls : Admitted(d)' /\ at'[d] > now' - Window => d \in hits'[Key(req[d])']
    <2>1. SUFFICES ASSUME NEW d \in Calls, Admitted(d)', at'[d] > now - Window
                   PROVE  d \in hits'[Key(req[d])']
        OBVIOUS
    <2>2. CASE d = c BY <1>1, <1>8, <1>11, <2>1, <2>2
    <2>3. CASE d # c
        <3>1. Admitted(d) /\ at[d] > now - Window /\ Key(req[d])' = Key(req[d])
            BY <1>6, <1>9, <2>1, <2>3
        <3>2. d \in hits[Key(req[d])] /\ Key(req[d]) \in Keys
            BY <3>1 DEF LimiterInv, Admitted
        <3>3. Key(req[d]) = k => d \in Kept(k) BY <3>1, <3>2 DEF Kept
        <3>4. QED BY <1>11, <3>1, <3>2, <3>3
    <2>4. QED BY <2>2, <2>3
<1>17. InWindow(c)' = IF full THEN Kept(k) ELSE Kept(k) \cup {c}
    <2>1. ASSUME NEW d \in Calls \ {c}
          PROVE  d \in InWindow(c)' <=> d \in Kept(k)
        <3>1. d \in InWindow(c)' <=> /\ Admitted(d) /\ Key(req[d]) = k
                                     /\ at[d] > now - Window /\ at[d] <= now
            BY <1>6, <1>8, <1>9 DEF InWindow, Admitted
        <3>2. Admitted(d) => at[d] <= now BY DEF LimiterInv, Admitted, Limited
        <3>3. d \in Kept(k) => Admitted(d) /\ Key(req[d]) = k
            BY <1>2 DEF AdmittedFor
        <3>4. QED BY <1>1, <3>1, <3>2, <3>3 DEF Kept, LimiterInv
    <2>2. c \in InWindow(c)' <=> ~full
        BY <1>1, <1>6, <1>8 DEF InWindow, Admitted
    <2>3. InWindow(c)' \subseteq Calls /\ Kept(k) \subseteq Calls
        BY <1>2 DEF InWindow, AdmittedFor
    <2>4. QED BY <1>5, <2>1, <2>2, <2>3
<1>18. Counts(c)'
    BY <1>3, <1>4, <1>6, <1>7, <1>8, <1>13, <1>17 DEF Counts, full, Admitted
<1>19. ASSUME NEW e \in Calls \ {c}, Limited(e)
       PROVE  Counts(e)'
    <2>1. InWindow(e)' = InWindow(e) \/ (~full /\ InWindow(e)' = InWindow(e) \cup {c})
        <3>1. \A d \in Calls \ {c} : d \in InWindow(e)' <=> d \in InWindow(e)
            BY <1>6, <1>9 DEF InWindow, Admitted
        <3>2. c \in InWindow(e)' => ~full
            BY <1>8 DEF InWindow, Admitted
        <3>3. c \notin InWindow(e) BY <1>5 DEF InWindow
        <3>4. InWindow(e) \subseteq Calls /\ InWindow(e)' \subseteq Calls BY DEF InWindow
        <3>5. QED BY <3>1, <3>2, <3>3, <3>4
    <2>2. IsFiniteSet(InWindow(e)) /\ Cardinality(InWindow(e)) \in Nat
        BY <1>19, InWindowFinite
    <2>3. Key(req[e]) \in Keys /\ LimitOf[req[e].op] \in Nat
        <3>1. Key(req[e]) \in Keys BY <1>19 DEF LimiterInv
        <3>2. Key(req[e])[1] = req[e].op BY DEF Key
        <3>3. QED BY <3>1, <3>2, LimitType
    <2>4. ans'[e] = ans[e] /\ req'[e] = req[e] BY <1>6
    <2>5. Counts(e) BY <1>19 DEF LimiterInv
    <2>6. CASE InWindow(e)' = InWindow(e) BY <2>4, <2>5, <2>6 DEF Counts
    <2>7. CASE ~full /\ InWindow(e)' = InWindow(e) \cup {c} /\ InWindow(e)' # InWindow(e)
        <3>0. c \notin InWindow(e) BY <2>7
        <3>1. Cardinality(InWindow(e)') = Cardinality(InWindow(e)) + 1
            BY <2>2, <2>7, <3>0, FS_AddElement
        <3>2. CASE ans[e] = "rate_limited"
            BY <2>2, <2>3, <2>4, <2>5, <3>1, <3>2 DEF Counts
        <3>3. CASE ans[e] # "rate_limited"
            <4>1. c \in InWindow(e)' BY <2>7
            <4>2. Key(req[e]) = k /\ at[e] >= now /\ at[e] <= now
                <5>1. Key(req[c])' = Key(req[e])' /\ at'[c] <= at'[e]
                    BY <4>1 DEF InWindow
                <5>2. at[e] \in Int /\ at[e] <= now
                    BY <1>19 DEF LimiterInv, Limited
                <5>3. QED BY <1>1, <1>6, <1>8, <1>9, <5>1, <5>2
            <4>3. at[e] = now /\ req[e].op = r.op
                <5>1. at[e] \in Int BY <1>19 DEF LimiterInv, Limited
                <5>2. QED BY <1>1, <4>2, <5>1 DEF Key
            <4>4. InWindow(e)' \subseteq Kept(k) \cup {c}
                <5>1. SUFFICES ASSUME NEW d \in InWindow(e)', d # c
                               PROVE  d \in Kept(k)
                    OBVIOUS
                <5>2. d \in InWindow(e) BY <2>7, <5>1
                <5>3. Admitted(d) /\ Key(req[d]) = k /\ at[d] > now - Window /\ d \in Calls
                    BY <4>2, <4>3, <5>2 DEF InWindow, Admitted
                <5>4. QED BY <5>3 DEF LimiterInv, Kept
            <4>5. IsFiniteSet(Kept(k) \cup {c}) /\ Cardinality(Kept(k) \cup {c}) \in Nat
                BY <1>3, FS_AddElement, FS_CardinalityType
            <4>6. Cardinality(InWindow(e)') <= Cardinality(Kept(k) \cup {c})
                BY <4>4, <4>5, FS_Subset
            <4>7. Cardinality(InWindow(e)') <= LimitOf[r.op]
                BY <1>4, <1>13, <2>2, <2>7, <3>1, <4>5, <4>6
            <4>8. QED BY <2>4, <3>3, <4>3, <4>7 DEF Counts
        <3>4. QED BY <3>2, <3>3
    <2>8. QED BY <2>1, <2>6, <2>7
<1>20. \A d \in Calls : Limited(d)' => Counts(d)'
    BY <1>9, <1>18, <1>19
<1>21. \A d \in Calls : req'[d] # None => at'[d] \in Int /\ at'[d] <= now'
    BY <1>1, <1>6 DEF LimiterInv
<1>22. \A d \in Calls : /\ pc'[d] = "idle" => req'[d] = None
                        /\ ans'[d] \in Refusals => pc'[d] = "done"
    BY <1>5, <1>6, <1>7 DEF LimiterInv
<1>23. \A d \in Calls : Limited(d)' => Key(req[d])' \in Keys
    BY <1>1, <1>8, <1>9 DEF LimiterInv
<1>24. QED BY <1>1, <1>6, <1>15, <1>16, <1>20, <1>21, <1>22, <1>23 DEF LimiterInv, Keys

LEMMA LimiterReceive ==
    ASSUME LimiterInv, CallsOK, NEW c \in Calls, Receive(c)
    PROVE  LimiterInv'
<1>1. PICK r \in mix.requests :
         /\ req' = [req EXCEPT ![c] = r]
         /\ at' = [at EXCEPT ![c] = now]
         /\ IF r.op \notin PublicOps /\ ~Verify(r.token)
            THEN Answer(c, "unauthorized") /\ UNCHANGED <<hits, audit>>
            ELSE IF r.op \in AdminOps /\ r.token.role # "admin"
            THEN /\ Answer(c, "forbidden")
                 /\ BestEffortAudit(c, "admin.role_denied")
                 /\ UNCHANGED hits
            ELSE /\ IF r.op \in Scopes THEN Allow(c, r)
                                       ELSE Go(c, Entry(r)) /\ UNCHANGED hits
                 /\ UNCHANGED audit
    BY DEF Receive
<1>2. pc[c] = "idle" /\ UNCHANGED <<load, now>> BY DEF Receive
<1>3. DOMAIN ans = Calls /\ ans[c] \notin Refusals BY <1>2 DEF LimiterInv
<1>4. CASE Answer(c, "unauthorized") /\ UNCHANGED hits
    BY <1>1, <1>2, <1>3, <1>4, LimiterPassed DEF Answer
<1>5. CASE Answer(c, "forbidden") /\ UNCHANGED hits
    BY <1>1, <1>2, <1>3, <1>5, LimiterPassed DEF Answer
<1>6. CASE r.op \in Scopes /\ Allow(c, r)
    BY <1>1, <1>2, <1>6, LimiterDecides
<1>7. CASE r.op \notin Scopes /\ Go(c, Entry(r)) /\ UNCHANGED hits
    <2>1. Entry(r) # "idle"
        BY WorkloadAssumption DEF CallsOK, mix, Entry, Operations
    <2>2. ans' = ans /\ pc' = [pc EXCEPT ![c] = Entry(r)] BY <1>7 DEF Go
    <2>3. QED BY <1>1, <1>2, <1>3, <1>7, <2>1, <2>2, LimiterPassed
<1>8. QED BY <1>1, <1>4, <1>5, <1>6, <1>7

LEMMA LimiterMoves ==
    ASSUME LimiterInv, CallsOK, NEW c \in Calls, NEW labels, Moves(c, labels),
           "idle" \notin labels
    PROVE  LimiterInv'
<1>1. now \in Int /\ now <= now /\ DOMAIN ans = Calls /\ DOMAIN pc = Calls
    BY DEF LimiterInv, CallsOK
<1>2. ans[c] \notin Refusals BY DEF LimiterInv, Moves
<1>3. DOMAIN ans' = Calls BY <1>1 DEF Moves
<1>4. \A d \in Calls : ans'[d] = ans[d] \/ (ans[d] \notin Refusals /\ ans'[d] \notin Refusals)
    BY <1>1, <1>2 DEF Moves, Tells
<1>5. \A d \in Calls : /\ pc'[d] = "idle" => pc[d] = "idle"
                       /\ pc[d] = "done" => pc'[d] = "done"
    BY <1>1 DEF Moves
<1>6. QED BY <1>1, <1>3, <1>4, <1>5, LimiterCalm DEF Moves

LEMMA LimiterStep == ASSUME CallsOK, LimiterInv, [Next]_vars PROVE LimiterInv'
<1> USE DEF SettingsLabels, AccountLabels, VisualLabels, BoardLabels, CatalogLabels
<1>1. CASE UNCHANGED vars
    <2>1. UNCHANGED <<req, hits, at, now, ans, pc>> BY <1>1 DEF vars, requestVars
    <2>2. now \in Int /\ now <= now BY DEF LimiterInv
    <2>3. QED BY <2>1, <2>2, LimiterCalm DEF LimiterInv
<1>2. CASE Idles
    <2>1. now \in Int /\ now' \in Int /\ now <= now'
        BY <1>2 DEF Idles, Tick, LimiterInv
    <2>2. QED BY <1>2, <2>1, LimiterCalm DEF Idles, Tick, LimiterInv
<1>3. ASSUME NEW c \in Calls, Receives(c) PROVE LimiterInv'
    BY <1>3, LimiterReceive DEF Receives
<1>4. ASSUME NEW c \in Calls, Ends(c) PROVE LimiterInv'
    BY <1>4, EndMoves, LimiterMoves DEF Ends
<1>5. ASSUME NEW c \in Calls, InSettings(c) PROVE LimiterInv'
    BY <1>5, SettingsMoves, LimiterMoves DEF InSettings
<1>6. ASSUME NEW c \in Calls, InAccounts(c) PROVE LimiterInv'
    BY <1>6, AccountMoves, LimiterMoves DEF InAccounts
<1>7. ASSUME NEW c \in Calls, InVisual(c) PROVE LimiterInv'
    BY <1>7, VisualMoves, LimiterMoves DEF InVisual
<1>8. ASSUME NEW c \in Calls, InBoard(c) PROVE LimiterInv'
    BY <1>8, BoardMoves, LimiterMoves DEF InBoard
<1>9. ASSUME NEW c \in Calls, InCatalog(c) PROVE LimiterInv'
    BY <1>9, CatalogMoves, LimiterMoves DEF InCatalog
<1>10. ASSUME NEW c \in Calls, InReads(c) PROVE LimiterInv'
    BY <1>10, AdminReadMoves, LimiterMoves DEF InReads
<1>11. QED BY <1>1, <1>2, <1>3, <1>4, <1>5, <1>6, <1>7, <1>8, <1>9, <1>10, NextCases

\* No window holds more admitted calls of a scope and an address than the
\* limit, and a call is refused only when its window is full (RateLimiter.Allow),
\* for any limits, any window and any arrival of calls.
THEOREM LimitsAreExact == Spec => []LimiterExact
<1>1. Init => LimiterInv BY LimiterInit
<1>2. CallsOK /\ LimiterInv /\ [Next]_vars => LimiterInv' BY LimiterStep
<1>3. LimiterInv => LimiterExact BY DEF LimiterInv, LimiterExact, Counts
<1>4. QED BY <1>1, <1>2, <1>3, CallsAlways, PTL DEF Spec

LEMMA LimiterAlways == Spec => []LimiterInv
<1>1. Init => LimiterInv BY LimiterInit
<1>2. CallsOK /\ LimiterInv /\ [Next]_vars => LimiterInv' BY LimiterStep
<1>3. QED BY <1>1, <1>2, CallsAlways, PTL DEF Spec

LEMMA AssetAlways == Spec => []AssetInv
<1>1. Init => AssetInv BY AssetInit
<1>2. CallsOK /\ AssetInv /\ [Next]_vars => AssetInv' BY AssetStep
<1>3. QED BY <1>1, <1>2, CallsAlways, PTL DEF Spec

-----------------------------------------------------------------------------
(* The log of the changes of the catalog. *)

Changes == {"createItem", "updateItem", "disableItem", "uploadAsset"}
Places == Changes \cup CatalogLabels
ItemActions == {"item.create", "item.update", "item.disable", "asset.upload"}
AuthActions == {"auth.register", "auth.login_success", "auth.admin_login",
                "auth.login_failure_threshold"}
Actions == ItemActions \cup AuthActions \cup {"admin.role_denied"}
LogEntry == [action : Actions, call : Calls, created : Int]

LEMMA ActionNames ==
    /\ DOMAIN ActionOf = Changes
    /\ \A op \in Changes : ActionOf[op] \in ItemActions
    /\ ActionOf["createItem"] = "item.create" /\ ActionOf["updateItem"] = "item.update"
    /\ ActionOf["disableItem"] = "item.disable" /\ ActionOf["uploadAsset"] = "asset.upload"
BY DEF ActionOf, Changes, ItemActions

LEMMA Appended ==
    ASSUME NEW S, NEW s \in Seq(S), NEW e \in S
    PROVE  /\ Append(s, e) \in Seq(S)
           /\ Len(s) + 1 \notin DOMAIN s
           /\ DOMAIN Append(s, e) = DOMAIN s \cup {Len(s) + 1}
           /\ \A n \in DOMAIN s : n \in Nat /\ n <= Len(s) + 1 /\ Append(s, e)[n] = s[n]
           /\ Append(s, e)[Len(s) + 1] = e
<1>1. Len(s) \in Nat /\ DOMAIN s = 1..Len(s) OBVIOUS
<1>2. Len(Append(s, e)) = Len(s) + 1 /\ Append(s, e) \in Seq(S) OBVIOUS
<1>3. DOMAIN Append(s, e) = 1..(Len(s) + 1) BY <1>2
<1>4. \A n \in 1..Len(s) : Append(s, e)[n] = s[n] OBVIOUS
<1>5. Append(s, e)[Len(s) + 1] = e OBVIOUS
<1>6. QED BY <1>1, <1>2, <1>3, <1>4, <1>5

\* The entry n is about a change that call c made.
Logs(n, c) == audit[n].call = c /\ audit[n].action \in ItemActions

\* A call that changes the catalog is at a place of the catalog until it is over,
\* and no other call is.
PlaceInv ==
    \A c \in Calls :
        /\ pc[c] \in CatalogLabels => req[c].op \in Changes
        /\ pc[c] \notin {"idle", "done", "malformed"} /\ req[c].op \in Changes => pc[c] \in Places

\* The entries of the log come from calls that came in.  A change is logged once,
\* by a call that is over and whose item exists; a confirmed change is logged; and
\* logins and registrations are no changes.
LogInv ==
    /\ audit \in Seq(LogEntry)
    /\ \A n \in DOMAIN audit : pc[audit[n].call] # "idle"
    /\ \A c \in Calls : \A n \in DOMAIN audit : Logs(n, c) =>
          /\ req[c].op \in Changes /\ audit[n].action = ActionOf[req[c].op]
          /\ pc[c] = "done" /\ ans[c] \in {"ok", "internal"}
          /\ Item(c) \in DOMAIN items
    /\ \A n \in DOMAIN audit : audit[n].action \in AuthActions =>
          req[audit[n].call].op \notin Changes
    /\ \A c \in Calls : \A n, m \in DOMAIN audit : Logs(n, c) /\ Logs(m, c) => n = m
    /\ \A c \in Calls : pc[c] = "done" /\ ans[c] = "ok" /\ req[c].op \in Changes =>
          \E n \in DOMAIN audit : Logs(n, c)

\* The item shows the image of the last upload of it.
Shown(i) ==
    \/ EntriesOn(i, "asset.upload") = {} /\ items[i].asset = None
    \/ \E n \in EntriesOn(i, "asset.upload") :
          /\ \A m \in EntriesOn(i, "asset.upload") : m <= n
          /\ items[i].asset = audit[n].call

\* What the catalog holds is what the log says of it.
ShelfInv ==
    /\ \A c \in Calls : c \in DOMAIN items <=>
          \E n \in DOMAIN audit : audit[n].call = c /\ audit[n].action = "item.create"
    /\ \A i \in DOMAIN items :
          /\ {"active", "asset"} \subseteq DOMAIN items[i] /\ items[i].active \in BOOLEAN
          /\ items[i].active = FALSE <=> EntriesOn(i, "item.disable") # {}
          /\ Shown(i)

AuditInv == PlaceInv /\ LogInv /\ ShelfInv

LEMMA AuditInit == ASSUME Init PROVE AuditInv
<1>1. /\ audit = <<>> /\ load \in DOMAIN Mixes /\ items = Mixes[load].items
      /\ \A c \in Calls : pc[c] = "idle"
    BY DEF Init, RequestsInit, CatalogInit, mix
<1>2. audit \in Seq(LogEntry) /\ DOMAIN audit = {} BY <1>1
<1>3. PlaceInv BY <1>1 DEF PlaceInv, CatalogLabels
<1>4. LogInv BY <1>1, <1>2 DEF LogInv
<1>5. \A i, a : EntriesOn(i, a) = {} BY <1>2 DEF EntriesOn
<1>6. \A c \in Calls : c \notin DOMAIN items BY <1>1, WorkloadAssumption
<1>7. \A i \in DOMAIN items : /\ {"active", "asset"} \subseteq DOMAIN items[i]
                              /\ items[i].active = TRUE /\ items[i].asset = None
    BY <1>1, WorkloadAssumption
<1>8. ShelfInv BY <1>2, <1>5, <1>6, <1>7 DEF ShelfInv, Shown
<1>9. QED BY <1>3, <1>4, <1>8 DEF AuditInv

\* A call comes in or goes on without a change of the catalog, and may leave a note
\* that it registers, logs in or is turned away.
LEMMA AuditGoesOn ==
    ASSUME AuditInv, NEW c \in Calls, items' = items,
           \A d \in Calls \ {c} : pc'[d] = pc[d] /\ req'[d] = req[d] /\ ans'[d] = ans[d],
           pc[c] # "done", pc'[c] # "idle" \/ pc'[c] = pc[c],
           req'[c] = req[c] \/ pc[c] = "idle",
           \/ audit' = audit
           \/ /\ pc'[c] # "idle"
              /\ \E e \in LogEntry :
                    /\ audit' = Append(audit, e) /\ e.call = c /\ e.action \notin ItemActions
                    /\ e.action \in AuthActions => req'[c].op \notin Changes,
           pc'[c] = "done" /\ ans'[c] = "ok" => req'[c].op \notin Changes,
           pc'[c] \in CatalogLabels => req'[c].op \in Changes,
           pc'[c] \notin {"idle", "done", "malformed"} /\ req'[c].op \in Changes => pc'[c] \in Places
    PROVE  AuditInv'
<1>1. PlaceInv' BY DEF AuditInv, PlaceInv
<1>2. /\ audit' \in Seq(LogEntry) /\ DOMAIN audit \subseteq DOMAIN audit'
      /\ \A n \in DOMAIN audit : audit'[n] = audit[n]
      /\ \A n \in DOMAIN audit' \ DOMAIN audit :
            /\ audit'[n].call = c /\ audit'[n].action \notin ItemActions
            /\ audit'[n].action \in AuthActions => req'[c].op \notin Changes
            /\ pc'[c] # "idle"
    <2>1. audit \in Seq(LogEntry) BY DEF AuditInv, LogInv
    <2>2. CASE audit' = audit BY <2>1, <2>2
    <2>3. ASSUME NEW e \in LogEntry, audit' = Append(audit, e)
          PROVE  /\ audit' \in Seq(LogEntry) /\ DOMAIN audit \subseteq DOMAIN audit'
                 /\ \A n \in DOMAIN audit : audit'[n] = audit[n]
                 /\ \A n \in DOMAIN audit' \ DOMAIN audit : audit'[n] = e
        BY <2>1, <2>3, Appended
    <2>4. QED BY <2>2, <2>3
<1>3. \A n \in DOMAIN audit : audit[n].call \in Calls /\ audit[n].action \in Actions
    <2>1. \A n \in DOMAIN audit : audit[n] \in LogEntry BY DEF AuditInv, LogInv
    <2>2. QED BY <2>1 DEF LogEntry
<1>4. \A n \in DOMAIN audit : /\ pc'[audit[n].call] # "idle"
                              /\ req'[audit[n].call] = req[audit[n].call]
    BY <1>3 DEF AuditInv, LogInv
<1>5. \A n \in DOMAIN audit : audit[n].action \in ItemActions => audit[n].call # c
    BY <1>3 DEF AuditInv, LogInv, Logs
<1>6. \A n \in DOMAIN audit' : audit'[n].action \in ItemActions => n \in DOMAIN audit
    BY <1>2
<1>7. LogInv'
    <2>1. \A n \in DOMAIN audit' : pc'[audit'[n].call] # "idle"
        BY <1>2, <1>4
    <2>2. ASSUME NEW d \in Calls, NEW n \in DOMAIN audit', Logs(n, d)'
          PROVE  /\ req'[d].op \in Changes /\ audit'[n].action = ActionOf[req'[d].op]
                 /\ pc'[d] = "done" /\ ans'[d] \in {"ok", "internal"}
                 /\ Item(d)' \in DOMAIN items'
        <3>1. n \in DOMAIN audit /\ audit'[n] = audit[n] /\ Logs(n, d)
            BY <1>2, <1>6, <2>2 DEF Logs
        <3>2. d # c BY <1>5, <3>1 DEF Logs
        <3>3. Item(d)' = Item(d) BY <3>2 DEF Item
        <3>4. QED BY <3>1, <3>2, <3>3 DEF AuditInv, LogInv
    <2>3. \A n \in DOMAIN audit' : audit'[n].action \in AuthActions =>
             req'[audit'[n].call].op \notin Changes
        BY <1>2, <1>4 DEF AuditInv, LogInv
    <2>4. \A d \in Calls : \A n, m \in DOMAIN audit' : Logs(n, d)' /\ Logs(m, d)' => n = m
        BY <1>2, <1>6 DEF AuditInv, LogInv, Logs
    <2>5. \A d \in Calls : pc'[d] = "done" /\ ans'[d] = "ok" /\ req'[d].op \in Changes =>
             \E n \in DOMAIN audit' : Logs(n, d)'
        BY <1>2 DEF AuditInv, LogInv, Logs
    <2>6. QED BY <1>2, <2>1, <2>2, <2>3, <2>4, <2>5 DEF LogInv
<1>8. \A i : \A a \in ItemActions : EntriesOn(i, a)' = EntriesOn(i, a)
    <2>1. \A d \in Calls \ {c} : Item(d)' = Item(d) BY DEF Item
    <2>2. \A n \in DOMAIN audit : audit[n].action \in ItemActions =>
             Item(audit[n].call)' = Item(audit[n].call)
        BY <1>2, <1>3, <1>5, <2>1 DEF Item
    <2>3. QED BY <1>2, <1>6, <2>2 DEF EntriesOn
<1>9. ShelfInv'
    <2>1. "item.create" \in ItemActions /\ "item.disable" \in ItemActions
          /\ "asset.upload" \in ItemActions
        BY DEF ItemActions
    <2>2. \A d \in Calls : d \in DOMAIN items' <=>
             \E n \in DOMAIN audit' : audit'[n].call = d /\ audit'[n].action = "item.create"
        BY <1>2, <1>6, <2>1 DEF AuditInv, ShelfInv
    <2>3. \A i \in DOMAIN items' : Shown(i)'
        <3>1. SUFFICES ASSUME NEW i \in DOMAIN items
                       PROVE  Shown(i)'
            OBVIOUS
        <3>2. EntriesOn(i, "asset.upload")' = EntriesOn(i, "asset.upload") BY <1>8, <2>1
        <3>3. \A n \in EntriesOn(i, "asset.upload") : audit'[n] = audit[n]
            BY <1>2 DEF EntriesOn
        <3>4. Shown(i) BY DEF AuditInv, ShelfInv
        <3>5. QED BY <3>2, <3>3, <3>4 DEF Shown
    <2>4. \A i \in DOMAIN items' :
             /\ {"active", "asset"} \subseteq DOMAIN items'[i] /\ items'[i].active \in BOOLEAN
             /\ items'[i].active = FALSE <=> EntriesOn(i, "item.disable")' # {}
        BY <1>8, <2>1 DEF AuditInv, ShelfInv
    <2>5. QED BY <2>2, <2>3, <2>4 DEF ShelfInv
<1>10. QED BY <1>1, <1>7, <1>9 DEF AuditInv

\* The services that neither change the catalog nor write the log.
LEMMA OthersQuiet ==
    ASSUME NEW c \in Calls,
           SettingsStep(c) \/ VisualStep(c) \/ BoardStep(c) \/ AdminReadStep(c)
    PROVE  audit' = audit /\ pc[c] \notin Places \cup {"malformed"}
<1> USE DEF Places, Changes, CatalogLabels
<1>1. CASE SettingsStep(c)
    BY <1>1 DEF SettingsStep, GetSettings, ReadSettings, PatchSettings, LockSettings,
                ReadAndApply, SaveSettings
<1>2. CASE VisualStep(c)
    BY <1>2 DEF VisualStep, GetVisual, RefreshVisual, ReadFlag, LoadVisual, UpsertSlot,
                DeadlockVictim, CommitVisual
<1>3. CASE BoardStep(c)
    <2>1. CASE CreateTask(c) BY <2>1 DEF CreateTask
    <2>2. CASE ResolveCategory(c) BY <2>2 DEF ResolveCategory
    <2>3. CASE InsertTask(c) BY <2>3 DEF InsertTask
    <2>4. CASE PatchTask(c) BY <2>4 DEF PatchTask
    <2>5. CASE UpdateTask(c) BY <2>5 DEF UpdateTask
    <2>6. CASE ArchiveTask(c) BY <2>6 DEF ArchiveTask
    <2>7. CASE GetTask(c) BY <2>7 DEF GetTask
    <2>8. CASE GetCategories(c) BY <2>8 DEF GetCategories
    <2>9. CASE ReadCategories(c) BY <2>9 DEF ReadCategories
    <2>10. CASE CountTasks(c) BY <2>10 DEF CountTasks
    <2>11. CASE ListTasks(c) BY <2>11 DEF ListTasks
    <2>12. QED BY <1>3, <2>1, <2>2, <2>3, <2>4, <2>5, <2>6, <2>7, <2>8, <2>9, <2>10,
                  <2>11 DEF BoardStep
<1>4. CASE AdminReadStep(c)
    <2>1. CASE ListUsers(c) BY <2>1 DEF ListUsers, ReadList
    <2>2. CASE ListItems(c) BY <2>2 DEF ListItems, ReadList
    <2>3. CASE ListAuditLogs(c) BY <2>3 DEF ListAuditLogs, ReadList
    <2>4. CASE CountListed(c) BY <2>4 DEF CountListed
    <2>5. CASE Stats(c) BY <2>5 DEF Stats
    <2>6. QED BY <1>4, <2>1, <2>2, <2>3, <2>4, <2>5 DEF AdminReadStep
<1>5. QED BY <1>1, <1>2, <1>3, <1>4

\* A registration or a login may leave a note.
Notes(c) ==
    \E a \in AuthActions : audit' = Append(audit, [action |-> a, call |-> c, created |-> now])

LEMMA AccountsNote ==
    ASSUME NEW c \in Calls, AccountStep(c)
    PROVE  (audit' = audit \/ Notes(c)) /\ pc[c] \notin Places \cup {"malformed"}
<1> USE DEF Places, Changes, CatalogLabels, Notes, AuthActions, BestEffortAudit
<1>1. CASE Register(c) BY <1>1 DEF Register
<1>2. CASE CommitUser(c) BY <1>2 DEF CommitUser
<1>3. CASE NoteRegistration(c) BY <1>3 DEF NoteRegistration
<1>4. CASE IssuePair(c) BY <1>4 DEF IssuePair
<1>5. CASE Login(c) BY <1>5 DEF Login
<1>6. CASE RecordFailedLogin(c) BY <1>6 DEF RecordFailedLogin
<1>7. CASE LoginSucceeded(c) BY <1>7 DEF LoginSucceeded
<1>8. CASE NoteAdminLogin(c) BY <1>8 DEF NoteAdminLogin
<1>9. CASE Me(c) BY <1>9 DEF Me
<1>10. CASE UpdateDisplayName(c) BY <1>10 DEF UpdateDisplayName
<1>11. CASE Summary(c) BY <1>11 DEF Summary
<1>12. CASE Progression(c) BY <1>12 DEF Progression
<1>13. QED BY <1>1, <1>2, <1>3, <1>4, <1>5, <1>6, <1>7, <1>8, <1>9, <1>10, <1>11, <1>12
           DEF AccountStep

\* A change goes on, or ends without success, before its commit.
Quiet(c) ==
    /\ pc[c] \in Places /\ UNCHANGED <<audit, items>>
    /\ \/ \E l \in CatalogLabels : pc' = [pc EXCEPT ![c] = l] /\ ans' = ans
       \/ \E status : /\ status # "ok" /\ pc' = [pc EXCEPT ![c] = "done"]
                      /\ ans' = [ans EXCEPT ![c] = status]

LEMMA CatalogQuiet ==
    ASSUME NEW c \in Calls, CatalogStep(c)
    PROVE  Quiet(c) \/ CommitItem(c) \/ GetItem(c)
<1> USE DEF Quiet, Places, Changes, CatalogLabels, Go, Answer, catalogVars
<1>1. CASE CreateItem(c) BY <1>1 DEF CreateItem, BeginItem
<1>2. CASE UpdateItem(c) BY <1>2 DEF UpdateItem, BeginItem
<1>3. CASE WriteName(c) BY <1>3 DEF WriteName
<1>4. CASE NameDeadlock(c) BY <1>4 DEF NameDeadlock
<1>5. CASE DisableItem(c) BY <1>5 DEF DisableItem
<1>6. CASE UploadAsset(c) BY <1>6 DEF UploadAsset
<1>7. CASE CreateFile(c) BY <1>7 DEF CreateFile
<1>8. CASE WriteFile(c) BY <1>8 DEF WriteFile
<1>9. CASE SetItemAsset(c) BY <1>9 DEF SetItemAsset
<1>10. QED BY <1>1, <1>2, <1>3, <1>4, <1>5, <1>6, <1>7, <1>8, <1>9 DEF CatalogStep

\* A step of any call that is not a commit of the catalog.
LEMMA AuditMoves ==
    ASSUME CallsOK, LimiterInv, AuditInv, NEW c \in Calls, NEW labels, Moves(c, labels),
           "idle" \notin labels, labels \cap CatalogLabels = {}, items' = items,
           audit' = audit \/ Notes(c), pc[c] \notin Places \cup {"malformed"}
    PROVE  AuditInv'
<1>1. DOMAIN pc = Calls /\ DOMAIN ans = Calls /\ req' = req /\ pc[c] \notin {"idle", "done"}
    BY DEF CallsOK, LimiterInv, Moves
<1>2. req[c].op \notin Changes BY <1>1 DEF AuditInv, PlaceInv
<1>3. \A d \in Calls \ {c} : pc'[d] = pc[d] /\ req'[d] = req[d] /\ ans'[d] = ans[d]
    BY <1>1 DEF Moves
<1>4. pc'[c] # "idle" /\ pc'[c] \notin CatalogLabels
    BY <1>1 DEF Moves, Places, CatalogLabels
<1>5. audit' = audit \/ \E e \in LogEntry :
         audit' = Append(audit, e) /\ e.call = c /\ e.action \notin ItemActions
    <2>1. now \in Int BY DEF LimiterInv
    <2>2. ASSUME NEW a \in AuthActions,
                 audit' = Append(audit, [action |-> a, call |-> c, created |-> now])
          PROVE  \E e \in LogEntry :
                    audit' = Append(audit, e) /\ e.call = c /\ e.action \notin ItemActions
        <3> DEFINE e == [action |-> a, call |-> c, created |-> now]
        <3>1. e \in LogEntry BY <2>1 DEF LogEntry, Actions
        <3>2. e.call = c /\ e.action \notin ItemActions BY DEF AuthActions, ItemActions
        <3>3. QED BY <2>2, <3>1, <3>2
    <2>3. QED BY <2>2 DEF Notes
<1>6. QED BY <1>1, <1>2, <1>3, <1>4, <1>5, AuditGoesOn

LEMMA AuditQuiet ==
    ASSUME CallsOK, LimiterInv, AuditInv, NEW c \in Calls, Moves(c, CatalogLabels),
           Quiet(c) \/ (GetItem(c) /\ UNCHANGED <<audit, items>>)
    PROVE  AuditInv'
<1>1. DOMAIN pc = Calls /\ DOMAIN ans = Calls /\ req' = req /\ pc[c] \notin {"idle", "done"}
    BY DEF CallsOK, LimiterInv, Moves
<1>2. \A d \in Calls \ {c} : pc'[d] = pc[d] /\ req'[d] = req[d] /\ ans'[d] = ans[d]
    BY <1>1 DEF Moves
<1>3. CASE Quiet(c)
    <2>1. req[c].op \in Changes
        BY <1>3 DEF Quiet, Places, Changes, CallsOK, Entries, AuditInv, PlaceInv
    <2>2. /\ pc'[c] \in CatalogLabels \cup {"done"}
          /\ ~(pc'[c] = "done" /\ ans'[c] = "ok")
        BY <1>1, <1>3 DEF Quiet, CatalogLabels
    <2>3. QED BY <1>1, <1>2, <1>3, <2>1, <2>2, AuditGoesOn DEF Quiet, Places, CatalogLabels
<1>4. CASE GetItem(c) /\ UNCHANGED <<audit, items>>
    <2>1. pc[c] = "getItem" /\ pc' = [pc EXCEPT ![c] = "done"]
        BY <1>4 DEF GetItem, Answer
    <2>2. req[c].op \notin Changes
        BY <2>1 DEF AuditInv, PlaceInv, Places, Changes, CatalogLabels
    <2>3. QED BY <1>1, <1>2, <1>4, <2>1, <2>2, AuditGoesOn DEF CatalogLabels
<1>5. QED BY <1>3, <1>4

\* A request comes in; one that is turned away for its role is noted.
LEMMA AuditReceive ==
    ASSUME CallsOK, LimiterInv, AuditInv, NEW c \in Calls, Receive(c), items' = items
    PROVE  AuditInv'
<1>1. PICK r \in mix.requests :
         /\ req' = [req EXCEPT ![c] = r]
         /\ IF r.op \notin PublicOps /\ ~Verify(r.token)
            THEN Answer(c, "unauthorized") /\ UNCHANGED <<hits, audit>>
            ELSE IF r.op \in AdminOps /\ r.token.role # "admin"
            THEN /\ Answer(c, "forbidden")
                 /\ BestEffortAudit(c, "admin.role_denied")
            ELSE /\ IF r.op \in Scopes THEN Allow(c, r) ELSE Go(c, Entry(r)) /\ UNCHANGED hits
                 /\ UNCHANGED audit
    BY DEF Receive
<1>2. /\ pc[c] = "idle" /\ DOMAIN pc = Calls /\ DOMAIN ans = Calls /\ DOMAIN req = Calls
      /\ ans[c] \notin Refusals /\ now \in Int
    BY DEF Receive, CallsOK, LimiterInv
<1>3. r.op \in Operations BY WorkloadAssumption DEF CallsOK, mix
<1>4. \A d \in Calls \ {c} : pc'[d] = pc[d] /\ req'[d] = req[d] /\ ans'[d] = ans[d]
    BY <1>1, <1>2 DEF Answer, Go, Allow
<1>5. req'[c] = r BY <1>1, <1>2
<1>6. /\ pc'[c] \in {"done", "malformed", r.op}
      /\ pc'[c] = "done" => ans'[c] \in Refusals
    BY <1>1, <1>2, <1>3 DEF Answer, Go, Allow, Entry, Refusals, Operations
<1>7. pc'[c] # "idle" /\ pc'[c] \notin CatalogLabels
    BY <1>3, <1>6 DEF Operations, CatalogLabels
<1>8. pc'[c] = "done" => ans'[c] # "ok"
    BY <1>6 DEF Refusals
<1>9. audit' = audit \/ \E e \in LogEntry :
         /\ audit' = Append(audit, e) /\ e.call = c /\ e.action \notin ItemActions
         /\ e.action \notin AuthActions
    <2> DEFINE e == [action |-> "admin.role_denied", call |-> c, created |-> now]
    <2>1. audit' = audit \/ audit' = Append(audit, e)
        BY <1>1 DEF BestEffortAudit
    <2>2. e \in LogEntry BY <1>2 DEF LogEntry, Actions
    <2>3. e.call = c /\ e.action \notin ItemActions /\ e.action \notin AuthActions
        BY DEF AuthActions, ItemActions
    <2>4. QED BY <2>1, <2>2, <2>3
<1>10. pc'[c] \notin {"idle", "done", "malformed"} /\ req'[c].op \in Changes => pc'[c] \in Places
    BY <1>5, <1>6 DEF Places
<1>11. QED BY <1>2, <1>4, <1>7, <1>8, <1>9, <1>10, AuditGoesOn

\* What a commit makes of the row.
LEMMA WrittenFields ==
    ASSUME CallsOK, NEW c \in Calls, pc[c] # "idle", req[c].op \in Changes,
           req[c].op # "createItem" =>
              Item(c) \in DOMAIN items /\ {"active", "asset"} \subseteq DOMAIN items[Item(c)]
    PROVE  /\ {"active", "asset"} \subseteq DOMAIN Written(c)
           /\ Written(c).active = IF req[c].op = "createItem" THEN TRUE
                                  ELSE IF req[c].op = "disableItem" THEN FALSE
                                  ELSE items[Item(c)].active
           /\ Written(c).asset = IF req[c].op = "createItem" THEN None
                                 ELSE IF req[c].op = "uploadAsset" THEN c
                                 ELSE items[Item(c)].asset
<1>1. CASE req[c].op = "createItem"
    <2>1. Written(c) = NewItem(c) BY <1>1 DEF Written
    <2>2. {"active", "asset"} \subseteq DOMAIN NewItem(c) BY DEF NewItem
    <2>3. NewItem(c).active = TRUE /\ NewItem(c).asset = None BY DEF NewItem
    <2>4. QED BY <1>1, <2>1, <2>2, <2>3
<1>2. CASE req[c].op # "createItem"
    <2> DEFINE i == Item(c)
               given == IF req[c].op = "updateItem" THEN req[c].fields ELSE <<>>
    <2>1. "asset" \notin DOMAIN given /\ "active" \notin DOMAIN given
        <3>1. CASE req[c].op = "updateItem"
            <4>1. req[c] \in mix.requests BY DEF CallsOK
            <4>2. {"asset", "active"} \cap DOMAIN req[c].fields = {}
                BY <3>1, <4>1, WorkloadAssumption DEF CallsOK, mix
            <4>3. QED BY <3>1, <4>2
        <3>2. CASE req[c].op # "updateItem"
            <4>1. DOMAIN <<>> = {} OBVIOUS
            <4>2. given = <<>> BY <3>2
            <4>3. QED BY <4>1, <4>2
        <3>3. QED BY <3>1, <3>2
    <2>2. Written(c) = [f \in DOMAIN items[i] |->
             CASE f = "active" /\ req[c].op = "disableItem" -> FALSE
               [] f = "asset" /\ req[c].op = "uploadAsset" -> c
               [] f \in DOMAIN given -> given[f]
               [] OTHER -> items[i][f]]
        BY <1>2 DEF Written
    <2>3. "active" \in DOMAIN items[i] /\ "asset" \in DOMAIN items[i] BY <1>2
    <2>4. {"active", "asset"} \subseteq DOMAIN Written(c) BY <2>2, <2>3
    <2> HIDE DEF given
    <2>5. CASE req[c].op = "disableItem"
        <3>1. Written(c)["active"] = FALSE BY <2>1, <2>2, <2>3, <2>5
        <3>2. Written(c)["asset"] = items[i]["asset"] BY <2>1, <2>2, <2>3, <2>5
        <3>3. QED BY <2>4, <2>5, <3>1, <3>2
    <2>6. CASE req[c].op = "uploadAsset"
        <3>1. Written(c)["active"] = items[i]["active"] BY <2>1, <2>2, <2>3, <2>6
        <3>2. Written(c)["asset"] = c BY <2>1, <2>2, <2>3, <2>6
        <3>3. QED BY <2>4, <2>6, <3>1, <3>2
    <2>7. CASE req[c].op = "updateItem"
        <3>1. Written(c)["active"] = items[i]["active"] BY <2>1, <2>2, <2>3, <2>7
        <3>2. Written(c)["asset"] = items[i]["asset"] BY <2>1, <2>2, <2>3, <2>7
        <3>3. QED BY <2>4, <2>7, <3>1, <3>2
    <2>8. QED BY <1>2, <2>5, <2>6, <2>7 DEF Changes
<1>3. QED BY <1>1, <1>2

\* A commit writes a row and its entry together.
LEMMA AuditCommit ==
    ASSUME CallsOK, LimiterInv, AssetInv, AuditInv, NEW c \in Calls, Moves(c, CatalogLabels),
           CommitItem(c)
    PROVE  AuditInv'
<1> DEFINE i == Item(c)
           N == Len(audit) + 1
           op == req[c].op
<1>1. /\ DOMAIN pc = Calls /\ DOMAIN ans = Calls /\ req' = req
      /\ pc[c] = "i_commit" /\ pc' = [pc EXCEPT ![c] = "done"]
      /\ items' = [j \in DOMAIN items \cup {i} |-> IF j = i THEN Written(c) ELSE items[j]]
      /\ \E st \in {"ok", "internal"} : ans' = [ans EXCEPT ![c] = st]
    BY DEF CallsOK, LimiterInv, Moves, CommitItem, AnswerCommit, Answer
<1>2. op \in Changes /\ ActionOf[op] \in ItemActions
    BY <1>1, ActionNames DEF AuditInv, PlaceInv, CatalogLabels
<1>3. PICK begin \in at[c]..now :
         audit' = Append(audit, [action |-> ActionOf[op], call |-> c, created |-> begin])
    BY DEF CommitItem, Audited
<1> DEFINE e == [action |-> ActionOf[op], call |-> c, created |-> begin]
<1>4. e \in LogEntry
    <2>1. req[c] # None
        BY <1>1, AbsenceAssumption DEF CallsOK, mix
    <2>2. at[c] \in Int /\ now \in Int BY <2>1 DEF LimiterInv
    <2>3. begin \in Int BY <2>2
    <2>4. QED BY <1>2, <2>3 DEF LogEntry, Actions
<1>5. /\ audit \in Seq(LogEntry) /\ audit' \in Seq(LogEntry)
      /\ N \notin DOMAIN audit /\ DOMAIN audit' = DOMAIN audit \cup {N}
      /\ \A n \in DOMAIN audit : n \in Nat /\ n <= N /\ audit'[n] = audit[n]
      /\ audit'[N].action = ActionOf[op] /\ audit'[N].call = c
    <2>1. audit \in Seq(LogEntry) /\ audit' = Append(audit, e)
        BY <1>3 DEF AuditInv, LogInv
    <2>2. audit'[N] = e BY <1>4, <2>1, Appended
    <2>3. QED BY <1>4, <2>1, <2>2, Appended
<1>6. \A n \in DOMAIN audit : audit[n].call \in Calls
    <2>1. \A n \in DOMAIN audit : audit[n] \in LogEntry BY <1>5
    <2>2. QED BY <2>1 DEF LogEntry
<1>7. N \in Nat BY <1>5
<1> HIDE DEF e, N
<1>8. /\ op = "createItem" => i = c /\ c \notin DOMAIN items
      /\ op # "createItem" => i \in DOMAIN items /\ {"active", "asset"} \subseteq DOMAIN items[i]
    <2>1. CASE op = "createItem"
        <3>1. i = c BY <2>1 DEF Item
        <3>2. SUFFICES ASSUME c \in DOMAIN items PROVE FALSE BY <2>1, <3>1
        <3>3. PICK n \in DOMAIN audit : audit[n].call = c /\ audit[n].action = "item.create"
            BY <3>2 DEF AuditInv, ShelfInv
        <3>4. Logs(n, c) BY <3>3 DEF Logs, ItemActions
        <3>5. QED BY <1>1, <3>4 DEF AuditInv, LogInv
    <2>2. CASE op # "createItem"
        <3>1. i \in DOMAIN items BY <1>1, <2>2 DEF AssetInv, Item
        <3>2. QED BY <2>2, <3>1 DEF AuditInv, ShelfInv
    <2>3. QED BY <2>1, <2>2
<1>9. DOMAIN items' = DOMAIN items \cup {i} /\ items'[i] = Written(c)
      /\ \A j \in DOMAIN items \ {i} : items'[j] = items[j]
    BY <1>1
<1>10. /\ {"active", "asset"} \subseteq DOMAIN Written(c)
       /\ Written(c).active = IF op = "createItem" THEN TRUE
                              ELSE IF op = "disableItem" THEN FALSE ELSE items[i].active
       /\ Written(c).asset = IF op = "createItem" THEN None
                             ELSE IF op = "uploadAsset" THEN c ELSE items[i].asset
    BY <1>1, <1>2, <1>8, WrittenFields
<1>11. \A n \in DOMAIN audit : ~Logs(n, c)
    BY <1>1 DEF AuditInv, LogInv
<1>12. \A d : Item(d)' = Item(d) BY <1>1 DEF Item
<1>13. PlaceInv'
    BY <1>1 DEF AuditInv, PlaceInv, CatalogLabels
<1>14. LogInv'
    <2>1. \A n \in DOMAIN audit' : pc'[audit'[n].call] # "idle"
        BY <1>1, <1>5, <1>6 DEF AuditInv, LogInv
    <2>2. ASSUME NEW d \in Calls, NEW n \in DOMAIN audit', Logs(n, d)'
          PROVE  /\ req'[d].op \in Changes /\ audit'[n].action = ActionOf[req'[d].op]
                 /\ pc'[d] = "done" /\ ans'[d] \in {"ok", "internal"}
                 /\ Item(d)' \in DOMAIN items'
        <3>1. CASE n = N
            <4>1. d = c BY <1>5, <2>2, <3>1 DEF Logs
            <4>2. QED BY <1>1, <1>2, <1>5, <1>9, <1>12, <3>1, <4>1
        <3>2. CASE n # N
            <4>1. n \in DOMAIN audit /\ audit'[n] = audit[n] /\ Logs(n, d)
                BY <1>5, <2>2, <3>2 DEF Logs
            <4>2. d # c BY <1>11, <4>1
            <4>3. pc'[d] = pc[d] /\ ans'[d] = ans[d] BY <1>1, <4>2
            <4>4. QED BY <1>1, <1>9, <1>12, <4>1, <4>3 DEF AuditInv, LogInv
        <3>3. QED BY <3>1, <3>2
    <2>3. \A n \in DOMAIN audit' : audit'[n].action \in AuthActions =>
             req'[audit'[n].call].op \notin Changes
        <3>1. ActionOf[op] \notin AuthActions BY <1>2 DEF AuthActions, ItemActions
        <3>2. QED BY <1>1, <1>5, <3>1 DEF AuditInv, LogInv
    <2>4. \A d \in Calls : \A n, m \in DOMAIN audit' : Logs(n, d)' /\ Logs(m, d)' => n = m
        <3>1. \A d \in Calls : \A n \in DOMAIN audit' : Logs(n, d)' =>
                 (n = N /\ d = c) \/ (n \in DOMAIN audit /\ Logs(n, d) /\ d # c)
            BY <1>5, <1>11 DEF Logs
        <3>2. QED BY <3>1 DEF AuditInv, LogInv
    <2>5. \A d \in Calls : pc'[d] = "done" /\ ans'[d] = "ok" /\ req'[d].op \in Changes =>
             \E n \in DOMAIN audit' : Logs(n, d)'
        <3>1. \E n \in DOMAIN audit' : Logs(n, c)' BY <1>2, <1>5 DEF Logs
        <3>2. \A d \in Calls \ {c} : pc'[d] = pc[d] /\ ans'[d] = ans[d] BY <1>1
        <3>3. \A n \in DOMAIN audit, d \in Calls : Logs(n, d) => Logs(n, d)'
            BY <1>5 DEF Logs
        <3>4. DOMAIN audit \subseteq DOMAIN audit' BY <1>5
        <3>5. SUFFICES ASSUME NEW d \in Calls \ {c}, pc[d] = "done", ans[d] = "ok",
                              req[d].op \in Changes
                       PROVE  \E n \in DOMAIN audit : Logs(n, d)
            BY <1>1, <3>1, <3>2, <3>3, <3>4
        <3>6. QED BY <3>5 DEF AuditInv, LogInv
    <2>6. QED BY <1>5, <2>1, <2>2, <2>3, <2>4, <2>5 DEF LogInv
<1>15. \A j : \A a : EntriesOn(j, a)' = IF j = i /\ a = ActionOf[op]
                                        THEN EntriesOn(j, a) \cup {N} ELSE EntriesOn(j, a)
    <2>1. SUFFICES ASSUME NEW j, NEW a
                   PROVE  EntriesOn(j, a)' = IF j = i /\ a = ActionOf[op]
                                             THEN EntriesOn(j, a) \cup {N} ELSE EntriesOn(j, a)
        OBVIOUS
    <2>2. \A n \in DOMAIN audit : n \in EntriesOn(j, a)' <=> n \in EntriesOn(j, a)
        BY <1>1, <1>5 DEF EntriesOn, Item
    <2>3. N \in EntriesOn(j, a)' <=> j = i /\ a = ActionOf[op]
        BY <1>1, <1>5 DEF EntriesOn, Item
    <2>4. EntriesOn(j, a) \subseteq DOMAIN audit /\ EntriesOn(j, a)' \subseteq DOMAIN audit'
        BY DEF EntriesOn
    <2>5. N \notin DOMAIN audit /\ DOMAIN audit' = DOMAIN audit \cup {N} BY <1>5
    <2>6. CASE j = i /\ a = ActionOf[op]
        <3>1. EntriesOn(j, a)' = EntriesOn(j, a) \cup {N} BY <2>2, <2>3, <2>4, <2>5, <2>6
        <3>2. QED BY <2>6, <3>1
    <2>7. CASE ~(j = i /\ a = ActionOf[op])
        <3>1. EntriesOn(j, a)' = EntriesOn(j, a) BY <2>2, <2>3, <2>4, <2>5, <2>7
        <3>2. QED BY <2>7, <3>1
    <2>8. QED BY <2>6, <2>7
<1>16. op = "createItem" => EntriesOn(i, "item.disable") = {} /\ EntriesOn(i, "asset.upload") = {}
    <2>1. SUFFICES ASSUME op = "createItem", NEW n \in DOMAIN audit,
                          audit[n].action \in {"item.disable", "asset.upload"},
                          Item(audit[n].call) = i
                   PROVE  FALSE
        BY DEF EntriesOn
    <2>2. Logs(n, audit[n].call) BY <2>1 DEF Logs, ItemActions
    <2>3. Item(audit[n].call) \in DOMAIN items BY <1>6, <2>2 DEF AuditInv, LogInv
    <2>4. QED BY <1>8, <2>1, <2>3
<1>17. \A d \in Calls : d \in DOMAIN items' <=>
          \E n \in DOMAIN audit' : audit'[n].call = d /\ audit'[n].action = "item.create"
    <2>1. ActionOf[op] = "item.create" <=> op = "createItem"
        BY <1>2, ActionNames DEF Changes
    <2>2. SUFFICES ASSUME NEW d \in Calls
                   PROVE  d \in DOMAIN items' <=>
                             \E n \in DOMAIN audit' :
                                audit'[n].call = d /\ audit'[n].action = "item.create"
        OBVIOUS
    <2>3. (\E n \in DOMAIN audit' : audit'[n].call = d /\ audit'[n].action = "item.create")
            <=> d \in DOMAIN items \/ (d = c /\ op = "createItem")
        BY <1>5, <2>1 DEF AuditInv, ShelfInv
    <2>4. d \in DOMAIN items' <=> d \in DOMAIN items \/ (d = c /\ op = "createItem")
        BY <1>8, <1>9
    <2>5. QED BY <2>3, <2>4
<1>18. ASSUME NEW j \in DOMAIN items'
       PROVE  /\ {"active", "asset"} \subseteq DOMAIN items'[j] /\ items'[j].active \in BOOLEAN
              /\ items'[j].active = FALSE <=> EntriesOn(j, "item.disable")' # {}
              /\ Shown(j)'
    <2>1. j # i => j \in DOMAIN items BY <1>9, <1>18
    <2>2. CASE j # i
        <3>1. items'[j] = items[j] /\ j \in DOMAIN items BY <1>9, <2>1, <2>2
        <3>2. /\ EntriesOn(j, "item.disable")' = EntriesOn(j, "item.disable")
              /\ EntriesOn(j, "asset.upload")' = EntriesOn(j, "asset.upload")
            BY <1>15, <2>2
        <3>3. \A n \in EntriesOn(j, "asset.upload") : audit'[n] = audit[n]
            BY <1>5 DEF EntriesOn
        <3>4. Shown(j)
            BY <3>1 DEF AuditInv, ShelfInv
        <3>5. Shown(j)' BY <3>1, <3>2, <3>3, <3>4 DEF Shown
        <3>6. QED BY <3>1, <3>2, <3>5 DEF AuditInv, ShelfInv
    <2>3. CASE j = i
        <3>1. items'[j] = Written(c) BY <1>9, <2>3
        <3>2. /\ ActionOf[op] = "item.disable" <=> op = "disableItem"
              /\ ActionOf[op] = "asset.upload" <=> op = "uploadAsset"
            BY <1>2, ActionNames DEF Changes
        <3>3. /\ EntriesOn(j, "item.disable")' =
                   IF op = "disableItem" THEN EntriesOn(j, "item.disable") \cup {N}
                                         ELSE EntriesOn(j, "item.disable")
              /\ EntriesOn(j, "asset.upload")' =
                   IF op = "uploadAsset" THEN EntriesOn(j, "asset.upload") \cup {N}
                                         ELSE EntriesOn(j, "asset.upload")
            BY <1>15, <2>3, <3>2
        <3>4. {"active", "asset"} \subseteq DOMAIN items'[j] BY <1>10, <3>1
        <3>5. op # "createItem" =>
                 /\ items[j].active \in BOOLEAN
                 /\ items[j].active = FALSE <=> EntriesOn(j, "item.disable") # {}
                 /\ Shown(j)
            BY <1>8, <2>3 DEF AuditInv, ShelfInv
        <3>6. /\ items'[j].active \in BOOLEAN
              /\ items'[j].active = FALSE <=> EntriesOn(j, "item.disable")' # {}
            BY <1>10, <1>16, <2>3, <3>1, <3>3, <3>5
        <3>7. \A n \in EntriesOn(j, "asset.upload") :
                 n \in Nat /\ n <= N /\ audit'[n] = audit[n]
            BY <1>5 DEF EntriesOn
        <3>8. Shown(j)'
            <4>1. CASE op = "createItem"
                BY <1>10, <1>16, <2>3, <3>1, <3>3, <4>1 DEF Shown
            <4>2. CASE op = "uploadAsset"
                <5>1. N \in EntriesOn(j, "asset.upload")' BY <3>3, <4>2
                <5>2. \A m \in EntriesOn(j, "asset.upload")' : m <= N
                    BY <1>7, <3>3, <3>7, <4>2
                <5>3. items'[j].asset = c BY <1>10, <3>1, <4>2
                <5>4. QED BY <1>5, <5>1, <5>2, <5>3 DEF Shown
            <4>3. CASE op \notin {"createItem", "uploadAsset"}
                <5>1. items'[j].asset = items[j].asset BY <1>10, <2>3, <3>1, <4>3
                <5>2. EntriesOn(j, "asset.upload")' = EntriesOn(j, "asset.upload")
                    BY <3>3, <4>3
                <5>3. QED BY <3>5, <3>7, <4>3, <5>1, <5>2 DEF Shown
            <4>4. QED BY <4>1, <4>2, <4>3
        <3>9. QED BY <3>4, <3>6, <3>8
    <2>4. QED BY <2>2, <2>3
<1>19. ShelfInv' BY <1>17, <1>18 DEF ShelfInv
<1>20. QED BY <1>13, <1>14, <1>19 DEF AuditInv

LEMMA AuditStep ==
    ASSUME CallsOK, LimiterInv, AssetInv, AuditInv, [Next]_vars
    PROVE  AuditInv'
<1> USE DEF SettingsLabels, AccountLabels, VisualLabels, BoardLabels, CatalogLabels
<1>1. ASSUME UNCHANGED <<pc, req, ans, audit, items>> PROVE AuditInv'
    <2>1. /\ \A d : Item(d)' = Item(d)
          /\ \A n, c : Logs(n, c)' = Logs(n, c)
          /\ \A i, a : EntriesOn(i, a)' = EntriesOn(i, a)
        BY <1>1 DEF Item, Logs, EntriesOn
    <2>2. \A i : Shown(i)' = Shown(i) BY <1>1, <2>1 DEF Shown
    <2>3. PlaceInv' /\ LogInv' BY <1>1, <2>1 DEF AuditInv, PlaceInv, LogInv
    <2>4. ShelfInv' BY <1>1, <2>1, <2>2 DEF AuditInv, ShelfInv
    <2>5. QED BY <2>3, <2>4 DEF AuditInv
<1>2. CASE UNCHANGED vars \/ Idles
    BY <1>1, <1>2 DEF vars, requestVars, catalogVars, Idles, Tick, serviceVars
<1>3. ASSUME NEW c \in Calls, Receives(c) PROVE AuditInv'
    BY <1>3, AuditReceive DEF Receives, serviceVars, catalogVars
<1>4. ASSUME NEW c \in Calls, Ends(c) PROVE AuditInv'
    <2>1. /\ pc[c] \notin {"idle", "done"} /\ UNCHANGED <<req, audit, items>>
          /\ pc' = [pc EXCEPT ![c] = "done"]
          /\ \E status \in {"bad_request", "internal"} : ans' = [ans EXCEPT ![c] = status]
        BY <1>4 DEF Ends, Refuse, Fail, Active, Answer, limiterVars, serviceVars, catalogVars
    <2>2. DOMAIN pc = Calls /\ DOMAIN ans = Calls BY DEF CallsOK, LimiterInv
    <2>3. QED BY <2>1, <2>2, AuditGoesOn
<1>5. ASSUME NEW c \in Calls, InSettings(c) PROVE AuditInv'
    <2>1. items' = items BY <1>5 DEF InSettings, catalogVars
    <2>2. QED BY <1>5, <2>1, SettingsMoves, OthersQuiet, AuditMoves DEF InSettings
<1>6. ASSUME NEW c \in Calls, InAccounts(c) PROVE AuditInv'
    <2>1. items' = items BY <1>6 DEF InAccounts, catalogVars
    <2>2. QED BY <1>6, <2>1, AccountMoves, AccountsNote, AuditMoves DEF InAccounts
<1>7. ASSUME NEW c \in Calls, InVisual(c) PROVE AuditInv'
    <2>1. items' = items BY <1>7 DEF InVisual, catalogVars
    <2>2. QED BY <1>7, <2>1, VisualMoves, OthersQuiet, AuditMoves DEF InVisual
<1>8. ASSUME NEW c \in Calls, InBoard(c) PROVE AuditInv'
    <2>1. items' = items BY <1>8 DEF InBoard, catalogVars
    <2>2. QED BY <1>8, <2>1, BoardMoves, OthersQuiet, AuditMoves DEF InBoard
<1>9. ASSUME NEW c \in Calls, InReads(c) PROVE AuditInv'
    <2>1. items' = items BY <1>9 DEF InReads, AdminReadStep, catalogVars
    <2>2. QED BY <1>9, <2>1, AdminReadMoves, OthersQuiet, AuditMoves DEF InReads
<1>10. ASSUME NEW c \in Calls, InCatalog(c) PROVE AuditInv'
    <2>1. Moves(c, CatalogLabels) BY <1>10, CatalogMoves DEF InCatalog
    <2>2. CASE Quiet(c) BY <2>1, <2>2, AuditQuiet
    <2>3. CASE CommitItem(c) BY <2>1, <2>3, AuditCommit
    <2>4. CASE GetItem(c)
        <3>1. UNCHANGED <<audit, items>> BY <2>4 DEF GetItem, catalogVars
        <3>2. QED BY <2>1, <2>4, <3>1, AuditQuiet
    <2>5. QED BY <1>10, <2>2, <2>3, <2>4, CatalogQuiet DEF InCatalog
<1>11. QED BY <1>2, <1>3, <1>4, <1>5, <1>6, <1>7, <1>8, <1>9, <1>10, NextCases

\* The largest entry of a set that has one.
LEMMA LatestOf ==
    ASSUME NEW S \in SUBSET Nat, NEW n \in S, \A m \in S : m <= n
    PROVE  Latest(S) = n
<1>1. \A m \in S : (\A k \in S : k <= m) => m = n BY SMT
<1>2. QED BY <1>1 DEF Latest

\* The log and the catalog tell one story: a confirmed change is logged once and a
\* refused one is not, and the items are what the log says (CreateItem, UpdateItem,
\* DisableItem, UploadAsset and the audit entries they write).
THEOREM LogTellsTheCatalog == Spec => []AuditTrail
<1>1. Init => AuditInv BY AuditInit
<1>2. CallsOK /\ LimiterInv /\ AssetInv /\ AuditInv /\ [Next]_vars => AuditInv' BY AuditStep
<1>3. CallsOK /\ LimiterInv /\ AuditInv => AuditTrail
    <2>1. SUFFICES ASSUME CallsOK, LimiterInv, AuditInv PROVE AuditTrail OBVIOUS
    <2>2. \A n \in DOMAIN audit : audit[n].action \in Actions /\ n \in Nat
        <3>1. \A n \in DOMAIN audit : audit[n] \in LogEntry /\ n \in Nat
            BY <2>1 DEF AuditInv, LogInv
        <3>2. QED BY <3>1 DEF LogEntry
    <2>3. ASSUME NEW c \in Calls, req[c] # None, req[c].op \in DOMAIN ActionOf
          PROVE  /\ Cardinality(EntriesOf(c)) <= 1
                 /\ Answered(c, {"ok"}) => EntriesOf(c) # {}
                 /\ pc[c] # "done" \/ ~Answered(c, {"ok", "internal"}) => EntriesOf(c) = {}
                 /\ req[c].op = "createItem" => (c \in DOMAIN items <=> EntriesOf(c) # {})
        <3>1. req[c].op \in Changes BY <2>3, ActionNames
        <3>2. \A n : n \in EntriesOf(c) <=> n \in DOMAIN audit /\ Logs(n, c)
            <4>1. \A n \in DOMAIN audit : audit[n].call = c =>
                     audit[n].action \notin AuthActions
                BY <2>1, <3>1 DEF AuditInv, LogInv
            <4>2. "admin.role_denied" \notin ItemActions BY DEF ItemActions
            <4>3. QED BY <2>2, <4>1, <4>2 DEF EntriesOf, Logs, Actions
        <3>3. \A n, m \in EntriesOf(c) : n = m
            BY <2>1, <3>2 DEF AuditInv, LogInv
        <3>4. Cardinality(EntriesOf(c)) <= 1
            <4>1. CASE EntriesOf(c) = {} BY <4>1, FS_EmptySet
            <4>2. CASE EntriesOf(c) # {}
                <5>1. PICK n : n \in EntriesOf(c) BY <4>2
                <5>2. EntriesOf(c) = {n} BY <3>3, <5>1
                <5>3. Cardinality(EntriesOf(c)) = 1 BY <5>2, FS_Singleton
                <5>4. QED BY <5>3
            <4>3. QED BY <4>1, <4>2
        <3>5. Answered(c, {"ok"}) => EntriesOf(c) # {}
            BY <2>1, <3>1, <3>2 DEF AuditInv, LogInv, Answered
        <3>6. pc[c] # "done" \/ ~Answered(c, {"ok", "internal"}) => EntriesOf(c) = {}
            BY <2>1, <3>2 DEF AuditInv, LogInv, Answered
        <3>7. req[c].op = "createItem" => (c \in DOMAIN items <=> EntriesOf(c) # {})
            <4>1. SUFFICES ASSUME req[c].op = "createItem"
                           PROVE  c \in DOMAIN items <=> EntriesOf(c) # {}
                OBVIOUS
            <4>2. c \in DOMAIN items <=> \E n \in DOMAIN audit :
                     audit[n].call = c /\ audit[n].action = "item.create"
                BY <2>1 DEF AuditInv, ShelfInv
            <4>3. \A n \in DOMAIN audit : Logs(n, c) <=>
                     audit[n].call = c /\ audit[n].action = "item.create"
                BY <2>1, <4>1, ActionNames DEF AuditInv, LogInv, Logs, ItemActions
            <4>4. QED BY <3>2, <4>2, <4>3
        <3>8. QED BY <3>4, <3>5, <3>6, <3>7
    <2>4. ASSUME NEW i \in DOMAIN items
          PROVE  LET uploads == EntriesOn(i, "asset.upload")
                 IN  /\ ~items[i].active <=> EntriesOn(i, "item.disable") # {}
                     /\ items[i].asset = IF uploads = {} THEN None
                                         ELSE audit[Latest(uploads)].call
        <3> DEFINE uploads == EntriesOn(i, "asset.upload")
        <3>1. ~items[i].active <=> EntriesOn(i, "item.disable") # {}
            <4>1. items[i].active \in BOOLEAN BY <2>1 DEF AuditInv, ShelfInv
            <4>2. items[i].active = FALSE <=> EntriesOn(i, "item.disable") # {}
                BY <2>1 DEF AuditInv, ShelfInv
            <4>3. QED BY <4>1, <4>2
        <3>2. Shown(i) BY <2>1 DEF AuditInv, ShelfInv
        <3>3. uploads \in SUBSET Nat BY <2>2 DEF EntriesOn
        <3>4. CASE uploads = {} /\ items[i].asset = None
            BY <3>1, <3>4
        <3>5. ASSUME NEW n \in uploads, \A m \in uploads : m <= n,
                     items[i].asset = audit[n].call
              PROVE  uploads # {} /\ items[i].asset = audit[Latest(uploads)].call
            <4> HIDE DEF uploads
            <4>1. Latest(uploads) = n BY <3>3, <3>5, LatestOf
            <4>2. QED BY <3>5, <4>1
        <3>6. QED BY <3>1, <3>2, <3>4, <3>5 DEF Shown
    <2>5. QED BY <2>3, <2>4 DEF AuditTrail
<1>4. QED BY <1>1, <1>2, <1>3, CallsAlways, LimiterAlways, AssetAlways, PTL DEF Spec

=============================================================================
