---------------------------- MODULE ServiceProofs ----------------------------
(***************************************************************************)
(* Proofs about the services in Server, for every workload: the first rows *)
(* of a user, the alarm on failed logins, and what the pages of a list     *)
(* show and how they fit to the total and to other pages.                  *)
(***************************************************************************)
EXTENDS ServerProofs, SequenceTheorems

-----------------------------------------------------------------------------
(* Where registrations and logins are. *)

RegisterPlaces == {"register", "r_commit", "r_note"}
LoginPlaces == {"login", "l_right", "l_wrong", "l_admin"}
EntryPlaces == RegisterPlaces \cup LoginPlaces \cup {"issuePair"}

\* A registration stays among its own statements until it is over, nobody else gets
\* to them, and a call has its answer when it is over and not before.
EntryInv ==
    /\ DOMAIN ans = Calls
    /\ \A c \in Calls :
          /\ pc[c] \in RegisterPlaces => req[c].op = "register"
          /\ pc[c] \in LoginPlaces => req[c].op = "login"
          /\ pc[c] \notin {"idle", "done", "malformed"} /\ req[c].op = "register" =>
                pc[c] \in RegisterPlaces \cup {"issuePair"}
          /\ pc[c] # "done" => ans[c] = None

\* The other services work on calls at places of their own.
LEMMA Elsewhere ==
    ASSUME NEW c \in Calls,
           SettingsStep(c) \/ VisualStep(c) \/ BoardStep(c) \/ CatalogStep(c) \/ AdminReadStep(c)
    PROVE  pc[c] \notin EntryPlaces \cup {"malformed"}
<1> USE DEF EntryPlaces, RegisterPlaces, LoginPlaces
<1>1. CASE SettingsStep(c)
    BY <1>1 DEF SettingsStep, GetSettings, ReadSettings, PatchSettings, LockSettings,
                ReadAndApply, SaveSettings
<1>2. CASE VisualStep(c)
    BY <1>2 DEF VisualStep, GetVisual, RefreshVisual, ReadFlag, LoadVisual, UpsertSlot,
                DeadlockVictim, CommitVisual
<1>3. CASE BoardStep(c)
    <2>1. CASE CreateTask(c) BY <2>1 DEF CreateTask
    <2>2. CASE ResolveCategory(c) BY <2>2 DEF ResolveCategory
    <2>3. CASE InsertTask(c) BY <2>3 DEF InsertTask
    <2>4. CASE PatchTask(c) BY <2>4 DEF PatchTask
    <2>5. CASE UpdateTask(c) BY <2>5 DEF UpdateTask
    <2>6. CASE ArchiveTask(c) BY <2>6 DEF ArchiveTask
    <2>7. CASE GetTask(c) BY <2>7 DEF GetTask
    <2>8. CASE GetCategories(c) BY <2>8 DEF GetCategories
    <2>9. CASE ReadCategories(c) BY <2>9 DEF ReadCategories
    <2>10. CASE CountTasks(c) BY <2>10 DEF CountTasks
    <2>11. CASE ListTasks(c) BY <2>11 DEF ListTasks
    <2>12. QED BY <1>3, <2>1, <2>2, <2>3, <2>4, <2>5, <2>6, <2>7, <2>8, <2>9, <2>10,
                  <2>11 DEF BoardStep
<1>4. CASE CatalogStep(c)
    <2>1. CASE CreateItem(c) BY <2>1 DEF CreateItem
    <2>2. CASE UpdateItem(c) BY <2>2 DEF UpdateItem
    <2>3. CASE WriteName(c) BY <2>3 DEF WriteName
    <2>4. CASE NameDeadlock(c) BY <2>4 DEF NameDeadlock
    <2>5. CASE DisableItem(c) BY <2>5 DEF DisableItem
    <2>6. CASE CommitItem(c) BY <2>6 DEF CommitItem
    <2>7. CASE GetItem(c) BY <2>7 DEF GetItem
    <2>8. CASE UploadAsset(c) BY <2>8 DEF UploadAsset
    <2>9. CASE CreateFile(c) BY <2>9 DEF CreateFile
    <2>10. CASE WriteFile(c) BY <2>10 DEF WriteFile
    <2>11. CASE SetItemAsset(c) BY <2>11 DEF SetItemAsset
    <2>12. QED BY <1>4, <2>1, <2>2, <2>3, <2>4, <2>5, <2>6, <2>7, <2>8, <2>9, <2>10,
                  <2>11 DEF CatalogStep
<1>5. CASE AdminReadStep(c)
    <2>1. CASE ListUsers(c) BY <2>1 DEF ListUsers, ReadList
    <2>2. CASE ListItems(c) BY <2>2 DEF ListItems, ReadList
    <2>3. CASE ListAuditLogs(c) BY <2>3 DEF ListAuditLogs, ReadList
    <2>4. CASE CountListed(c) BY <2>4 DEF CountListed
    <2>5. CASE Stats(c) BY <2>5 DEF Stats
    <2>6. QED BY <1>5, <2>1, <2>2, <2>3, <2>4, <2>5 DEF AdminReadStep
<1>6. QED BY <1>1, <1>2, <1>3, <1>4, <1>5

\* A step of a call that neither registers nor logs in: it stays away from their
\* statements.
Passes(c) ==
    /\ UNCHANGED <<load, now, req>>
    /\ pc[c] \notin EntryPlaces \cup {"idle", "done", "malformed"}
    /\ \/ ans' = ans /\ pc' = pc
       \/ ans' = ans /\ \E l : /\ l \notin EntryPlaces \cup {"idle", "done", "malformed"}
                               /\ pc' = [pc EXCEPT ![c] = l]
       \/ \E status : /\ status \notin {"created", "email_taken"} \/ (pc[c] = "t_insert" /\ status = "created")
                      /\ pc' = [pc EXCEPT ![c] = "done"]
                      /\ ans' = [ans EXCEPT ![c] = status]

LEMMA MovesPass ==
    ASSUME NEW c \in Calls, NEW labels, Moves(c, labels),
           pc[c] \notin EntryPlaces \cup {"malformed"},
           labels \cap (EntryPlaces \cup {"idle", "done", "malformed"}) = {}
    PROVE  Passes(c)
<1>1. pc[c] \notin {"idle", "done"} /\ pc[c] \notin {"register", "issuePair"}
    BY DEF Moves, EntryPlaces, RegisterPlaces
<1>2. \A status : Tells(c, status) =>
         status \notin {"created", "email_taken"} \/ (pc[c] = "t_insert" /\ status = "created")
    <2>1. SUFFICES ASSUME NEW status, Tells(c, status), status \in {"created", "email_taken"}
                   PROVE  pc[c] = "t_insert" /\ status = "created"
        OBVIOUS
    <2>2. pc[c] # "register" /\ pc[c] # "issuePair" BY <1>1
    <2>3. status # "email_taken" BY <2>1, <2>2 DEF Tells
    <2>4. QED BY <2>1, <2>2, <2>3 DEF Tells
<1>3. CASE ans' = ans /\ (pc' = pc \/ \E l \in labels : pc' = [pc EXCEPT ![c] = l])
    <2>1. \A l \in labels : l \notin EntryPlaces \cup {"idle", "done", "malformed"} OBVIOUS
    <2>2. QED BY <1>1, <1>3, <2>1 DEF Moves, Passes
<1>4. CASE \E status : /\ Tells(c, status)
                       /\ pc' = [pc EXCEPT ![c] = "done"]
                       /\ ans' = [ans EXCEPT ![c] = status]
    BY <1>1, <1>2, <1>4 DEF Moves, Passes
<1>5. QED BY <1>3, <1>4 DEF Moves

\* A call ends in a way that confirms nothing.
GivesUp(c) ==
    /\ UNCHANGED <<load, now, req>>
    /\ pc[c] \notin {"idle", "done"}
    /\ pc' = [pc EXCEPT ![c] = "done"]
    /\ \E status : status \notin {"created", "email_taken"} /\ ans' = [ans EXCEPT ![c] = status]

LEMMA EndsGiveUp ==
    ASSUME NEW c \in Calls, Ends(c)
    PROVE  GivesUp(c)
BY DEF Ends, GivesUp, Refuse, Fail, Active, Answer, limiterVars

\* A call comes in, and is turned away or enters at its operation.
ComesIn(c) ==
    /\ UNCHANGED <<load, now>>
    /\ pc[c] = "idle"
    /\ \E r \in mix.requests :
          /\ req' = [req EXCEPT ![c] = r]
          /\ \/ \E status \in Refusals : /\ pc' = [pc EXCEPT ![c] = "done"]
                                         /\ ans' = [ans EXCEPT ![c] = status]
             \/ \E l \in {"malformed", r.op} : pc' = [pc EXCEPT ![c] = l] /\ ans' = ans

LEMMA ReceivesComeIn ==
    ASSUME NEW c \in Calls, Receives(c)
    PROVE  ComesIn(c)
<1>1. PICK r \in mix.requests :
         /\ req' = [req EXCEPT ![c] = r]
         /\ IF r.op \notin PublicOps /\ ~Verify(r.token)
            THEN Answer(c, "unauthorized")
            ELSE IF r.op \in AdminOps /\ r.token.role # "admin"
            THEN Answer(c, "forbidden")
            ELSE IF r.op \in Scopes THEN Allow(c, r) ELSE Go(c, Entry(r))
    BY DEF Receives, Receive
<1>2. \/ \E status \in Refusals : /\ pc' = [pc EXCEPT ![c] = "done"]
                                  /\ ans' = [ans EXCEPT ![c] = status]
      \/ \E l \in {"malformed", r.op} : pc' = [pc EXCEPT ![c] = l] /\ ans' = ans
    BY <1>1 DEF Answer, Go, Allow, Entry, Refusals
<1>3. QED BY <1>1, <1>2 DEF ComesIn, Receives, Receive

\* What a step is to registrations and logins, with the rows it may touch.
Untouched == UNCHANGED <<settingsVars, accountVars>>

LEMMA EntryCases ==
    ASSUME [Next]_vars
    PROVE  \/ UNCHANGED <<load, req, pc, ans>> /\ Untouched /\ (now' = now \/ now' = now + 1)
           \/ \E c \in Calls :
                 \/ (ComesIn(c) \/ GivesUp(c)) /\ Untouched
                 \/ InAccounts(c)
                 \/ Passes(c) /\ UNCHANGED accountVars /\ (InSettings(c) \/ InVisual(c) \/ UNCHANGED settingsVars)
<1> USE DEF EntryPlaces, RegisterPlaces, LoginPlaces, Untouched
<1>1. CASE UNCHANGED vars BY <1>1 DEF vars, requestVars
<1>2. CASE Idles BY <1>2 DEF Idles, Tick, serviceVars
<1>3. ASSUME NEW c \in Calls, Receives(c) PROVE ComesIn(c) /\ Untouched
    BY <1>3, ReceivesComeIn DEF Receives, serviceVars
<1>4. ASSUME NEW c \in Calls, Ends(c) PROVE GivesUp(c) /\ Untouched
    BY <1>4, EndsGiveUp DEF Ends, serviceVars
<1>5. ASSUME NEW c \in Calls, InSettings(c) PROVE Passes(c) /\ UNCHANGED accountVars
    BY <1>5, SettingsMoves, Elsewhere, MovesPass DEF InSettings, SettingsLabels
<1>6. ASSUME NEW c \in Calls, InVisual(c) PROVE Passes(c) /\ UNCHANGED accountVars
    BY <1>6, VisualMoves, Elsewhere, MovesPass DEF InVisual, VisualLabels
<1>7. ASSUME NEW c \in Calls, InBoard(c) PROVE Passes(c) /\ Untouched
    BY <1>7, BoardMoves, Elsewhere, MovesPass DEF InBoard, BoardLabels
<1>8. ASSUME NEW c \in Calls, InCatalog(c) PROVE Passes(c) /\ Untouched
    BY <1>8, CatalogMoves, Elsewhere, MovesPass DEF InCatalog, CatalogLabels
<1>9. ASSUME NEW c \in Calls, InReads(c) PROVE Passes(c) /\ Untouched
    BY <1>9, AdminReadMoves, Elsewhere, MovesPass DEF InReads, AdminReadStep
<1>10. QED BY <1>1, <1>2, <1>3, <1>4, <1>5, <1>6, <1>7, <1>8, <1>9, NextCases

LEMMA EntryInit == ASSUME Init PROVE EntryInv
BY DEF Init, RequestsInit, EntryInv, EntryPlaces, RegisterPlaces, LoginPlaces

\* What a registration or a login, or a call to the profile, does to its place.
LEMMA EntryInAccounts ==
    ASSUME CallsOK, EntryInv, NEW c \in Calls, AccountStep(c)
    PROVE  EntryInv'
<1> USE DEF EntryInv, RegisterPlaces, LoginPlaces
<1>1. /\ DOMAIN pc = Calls /\ DOMAIN ans = Calls /\ UNCHANGED req
      /\ pc[c] \notin {"idle", "done"}
    BY AccountMoves DEF CallsOK, Moves
<1>2. ASSUME \/ \E l : /\ pc' = [pc EXCEPT ![c] = l] /\ ans' = ans
                       /\ l \in RegisterPlaces => pc[c] \in RegisterPlaces
                       /\ l \in LoginPlaces => pc[c] \in LoginPlaces
                       /\ pc[c] \in RegisterPlaces => l \in RegisterPlaces \cup {"issuePair"}
                       /\ pc[c] # "issuePair" /\ l # "done"
             \/ \E status : pc' = [pc EXCEPT ![c] = "done"] /\ ans' = [ans EXCEPT ![c] = status],
             pc[c] # "malformed"
      PROVE  EntryInv'
    BY <1>1, <1>2
<1> USE DEF Go, Answer, AnswerCommit
<1>3. CASE Register(c) BY <1>1, <1>2, <1>3 DEF Register
<1>4. CASE CommitUser(c) BY <1>1, <1>2, <1>4 DEF CommitUser
<1>5. CASE NoteRegistration(c) BY <1>1, <1>2, <1>5 DEF NoteRegistration
<1>6. CASE IssuePair(c) BY <1>1, <1>2, <1>6 DEF IssuePair
<1>7. CASE Login(c) BY <1>1, <1>2, <1>7 DEF Login
<1>8. CASE RecordFailedLogin(c) BY <1>1, <1>2, <1>8 DEF RecordFailedLogin
<1>9. CASE LoginSucceeded(c) BY <1>1, <1>2, <1>9 DEF LoginSucceeded
<1>10. CASE NoteAdminLogin(c) BY <1>1, <1>2, <1>10 DEF NoteAdminLogin
<1>11. CASE Me(c) BY <1>1, <1>2, <1>11 DEF Me
<1>12. CASE UpdateDisplayName(c) BY <1>1, <1>2, <1>12 DEF UpdateDisplayName
<1>13. CASE Summary(c) BY <1>1, <1>2, <1>13 DEF Summary
<1>14. CASE Progression(c) BY <1>1, <1>2, <1>14 DEF Progression
<1>15. QED BY <1>3, <1>4, <1>5, <1>6, <1>7, <1>8, <1>9, <1>10, <1>11, <1>12, <1>13, <1>14
           DEF AccountStep

LEMMA EntryComesIn ==
    ASSUME CallsOK, EntryInv, NEW c \in Calls, ComesIn(c)
    PROVE  EntryInv'
<1>1. PICK r \in mix.requests :
         /\ req' = [req EXCEPT ![c] = r]
         /\ \/ \E status \in Refusals : /\ pc' = [pc EXCEPT ![c] = "done"]
                                        /\ ans' = [ans EXCEPT ![c] = status]
            \/ \E l \in {"malformed", r.op} : pc' = [pc EXCEPT ![c] = l] /\ ans' = ans
    BY DEF ComesIn
<1>2. r.op \in Operations BY WorkloadAssumption DEF CallsOK, mix
<1>3. r.op \notin {"r_commit", "r_note", "l_right", "l_wrong", "l_admin", "done", "idle"}
    BY <1>2 DEF Operations
<1>4. DOMAIN pc = Calls /\ DOMAIN req = Calls /\ DOMAIN ans = Calls /\ pc[c] = "idle"
    BY DEF CallsOK, EntryInv, ComesIn
<1>5. DOMAIN ans' = Calls /\ ans[c] = None BY <1>1, <1>4 DEF EntryInv
<1>6. \A d \in Calls \ {c} : pc'[d] = pc[d] /\ req'[d] = req[d] /\ ans'[d] = ans[d]
    BY <1>1, <1>4
<1>7. /\ req'[c] = r /\ pc'[c] \in {"done", "malformed", r.op}
      /\ pc'[c] # "done" => ans'[c] = None
    BY <1>1, <1>4, <1>5
<1>8. QED BY <1>3, <1>5, <1>6, <1>7 DEF EntryInv, RegisterPlaces, LoginPlaces

LEMMA EntryStep == ASSUME CallsOK, EntryInv, [Next]_vars PROVE EntryInv'
<1>1. DOMAIN pc = Calls /\ DOMAIN ans = Calls BY DEF CallsOK, EntryInv
<1>2. CASE UNCHANGED <<load, req, pc, ans>> BY <1>2 DEF EntryInv
<1>3. ASSUME NEW c \in Calls, ComesIn(c) PROVE EntryInv' BY <1>3, EntryComesIn
<1>4. ASSUME NEW c \in Calls, GivesUp(c) PROVE EntryInv'
    BY <1>1, <1>4 DEF GivesUp, EntryInv, RegisterPlaces, LoginPlaces
<1>5. ASSUME NEW c \in Calls, Passes(c) PROVE EntryInv'
    BY <1>1, <1>5 DEF Passes, EntryInv, EntryPlaces, RegisterPlaces, LoginPlaces
<1>6. ASSUME NEW c \in Calls, InAccounts(c) PROVE EntryInv'
    BY <1>6, EntryInAccounts DEF InAccounts
<1>7. QED BY <1>2, <1>3, <1>4, <1>5, <1>6, EntryCases

LEMMA EntryAlways == Spec => []EntryInv
<1>1. Init => EntryInv BY EntryInit
<1>2. CallsOK /\ EntryInv /\ [Next]_vars => EntryInv' BY EntryStep
<1>3. QED BY <1>1, <1>2, CallsAlways, PTL DEF Spec

\* The mailbox and the key of a call that registers or logs in.
LEMMA NamedUser ==
    ASSUME CallsOK, NEW c \in Calls, pc[c] # "idle", req[c].op \in {"register", "login"}
    PROVE  Named(c) \in Users /\ req[c] \in mix.requests
<1>1. req[c] \in mix.requests /\ load \in DOMAIN Mixes BY DEF CallsOK
<1>2. req[c].email \in Emails BY <1>1, WorkloadAssumption DEF mix
<1>3. QED BY <1>1, <1>2, AccountAssumption DEF Named

-----------------------------------------------------------------------------
(* The first rows of a user. *)

Rowless(u) ==
    /\ profile[u] = None /\ u \notin progressed /\ u \notin companions
    /\ notification[u] = {} /\ \A k \in SettingKeys : settings[u][k] = None
Complete(u) ==
    /\ profile[u] # None /\ u \in progressed /\ u \in companions
    /\ notification[u] # {} /\ \A k \in SettingKeys : settings[u][k] # None

\* Call c has registered the mailbox that it names.
Registered(c) ==
    /\ req[c].op = "register"
    /\ pc[c] \in {"r_note", "issuePair"} \/ Answered(c, {"created"})
Owns(c) == account[Named(c)] # None /\ account[Named(c)].by = c
Refused(c) == account[Named(c)] # None /\ account[Named(c)].by # c

\* A user is there with every first row or with none.  Who has registered a mailbox
\* is past the commit, and whose mailbox was taken has not.
RegInv ==
    /\ DOMAIN profile = Users
    /\ \A u \in Users : account[u] = None => Rowless(u)
    /\ \A u \in Users : account[u] # None /\ account[u].by # None => Complete(u)
    /\ \A u \in Users : \A c \in Calls : account[u] # None /\ account[u].by = c =>
          req[c].op = "register" /\ pc[c] \in {"r_note", "issuePair", "done"}
    /\ \A c \in Calls : pc[c] = "r_commit" => ValidRegistration(req[c])
    /\ \A c \in Calls : Registered(c) => Owns(c)
    /\ \A c \in Calls : Answered(c, {"email_taken"}) => Refused(c)

LEMMA RegInit == ASSUME Init PROVE RegInv
<1>1. /\ load \in DOMAIN Mixes /\ mix = Mixes[load]
      /\ \A c \in Calls : pc[c] = "idle"
      /\ DOMAIN profile = Users
      /\ account = [u \in Users |-> IF u \in DOMAIN mix.known THEN SeededUser(u) ELSE None]
      /\ progressed = DOMAIN mix.known /\ companions = DOMAIN mix.known
    BY DEF Init, RequestsInit, AccountsInit, mix
<1>2. ASSUME NEW u \in Users, u \in DOMAIN mix.known
      PROVE  account[u] # None /\ account[u].by = None
    <2>1. account[u] = SeededRow(mix.known[u], u) BY <1>1, <1>2 DEF SeededUser
    <2>2. account[u] # None BY <1>1, <1>2, <2>1, AbsenceAssumption
    <2>3. QED BY <2>1, <2>2 DEF SeededRow
<1>3. ASSUME NEW u \in Users, u \notin DOMAIN mix.known
      PROVE  account[u] = None /\ Rowless(u)
    <2>1. settings[u] = NoRows /\ notification[u] = {}
        BY <1>3 DEF Init, SettingsInit
    <2>2. profile[u] = None BY <1>3 DEF Init, AccountsInit
    <2>3. account[u] = None BY <1>1, <1>3
    <2>4. QED BY <1>1, <1>3, <2>1, <2>2, <2>3 DEF Rowless, NoRows
<1>4. \A u \in Users : account[u] = None \/ account[u].by = None BY <1>2, <1>3
<1>5. \A u \in Users : account[u] = None => Rowless(u) BY <1>2, <1>3
<1>6. QED BY <1>1, <1>4, <1>5, NoneAssumption DEF RegInv, Registered, Answered

\* The rows of a user who is not registered stay away, those of others stay there.
RowsKept ==
    /\ DOMAIN profile' = Users
    /\ \A u \in Users : /\ account[u] = None /\ Rowless(u) => Rowless(u)'
                        /\ Complete(u) => Complete(u)'

\* Call c goes on and registers nobody.
LEMMA RegGoesOn ==
    ASSUME RegInv, NEW c \in Calls, account' = account, RowsKept,
           \A d \in Calls \ {c} : pc'[d] = pc[d] /\ req'[d] = req[d] /\ ans'[d] = ans[d],
           \A u \in Users : account[u] # None /\ account[u].by = c =>
               req'[c].op = "register" /\ pc'[c] \in {"r_note", "issuePair", "done"},
           pc'[c] = "r_commit" => ValidRegistration(req'[c]),
           Registered(c)' => Owns(c)',
           Answered(c, {"email_taken"})' => Refused(c)'
    PROVE  RegInv'
<1>1. ASSUME NEW d \in Calls \ {c}
      PROVE  /\ Named(d)' = Named(d) /\ Registered(d)' = Registered(d)
             /\ Answered(d, {"email_taken"})' = Answered(d, {"email_taken"})
             /\ Owns(d)' = Owns(d) /\ Refused(d)' = Refused(d)
    BY DEF Named, Registered, Answered, Owns, Refused
<1>2. \A u \in Users : account'[u] = None => Rowless(u)' BY DEF RegInv, RowsKept
<1>3. \A u \in Users : account'[u] # None /\ account'[u].by # None => Complete(u)'
    BY DEF RegInv, RowsKept
<1>4. \A u \in Users : \A d \in Calls : account'[u] # None /\ account'[u].by = d =>
         req'[d].op = "register" /\ pc'[d] \in {"r_note", "issuePair", "done"}
    BY DEF RegInv
<1>5. \A d \in Calls : pc'[d] = "r_commit" => ValidRegistration(req'[d]) BY DEF RegInv
<1>6. \A d \in Calls : Registered(d)' => Owns(d)' BY <1>1 DEF RegInv
<1>7. \A d \in Calls : Answered(d, {"email_taken"})' => Refused(d)' BY <1>1 DEF RegInv
<1>8. QED BY <1>2, <1>3, <1>4, <1>5, <1>6, <1>7 DEF RegInv, RowsKept

LEMMA KeptUntouched == ASSUME RegInv, Untouched PROVE RowsKept /\ account' = account
BY DEF RegInv, Untouched, settingsVars, accountVars, rowVars, RowsKept, Rowless, Complete

\* Whoever reads or patches settings is registered, and their rows are only made or
\* replaced.
LEMMA KeptInSettings ==
    ASSUME CallsOK, HolderInv, PatchInv, RegInv, NEW c \in Calls, InSettings(c)
    PROVE  RowsKept /\ account' = account
<1>0. PICK u : u = User(c) OBVIOUS
<1>1. UNCHANGED <<account, profile, progressed, companions>>
    BY DEF InSettings, accountVars, rowVars
<1>2. ASSUME u \in Users, account[u] # None, DOMAIN settings' = Users, DOMAIN notification' = Users,
             \A v \in Users \ {u} : settings'[v] = settings[v] /\ notification'[v] = notification[v],
             Full(u) => Full(u)'
      PROVE  RowsKept
    <2>2. DOMAIN profile' = Users BY <1>1 DEF RegInv
    <2>3. ASSUME NEW v \in Users, account[v] = None, Rowless(v) PROVE Rowless(v)'
        BY <1>1, <1>2, <2>3 DEF Rowless
    <2>4. ASSUME NEW v \in Users, Complete(v) PROVE Complete(v)'
        <3>1. CASE v = u BY <1>1, <1>2, <2>4, <3>1 DEF Complete, Full
        <3>2. CASE v # u BY <1>1, <1>2, <2>4, <3>2 DEF Complete
        <3>3. QED BY <3>1, <3>2
    <2>5. QED BY <2>2, <2>3, <2>4 DEF RowsKept
<1>3. CASE UNCHANGED <<settings, notification>>
    BY <1>1, <1>3 DEF RegInv, RowsKept, Rowless, Complete
<1>4. ASSUME ensureSettings(u), pc[c] \in {"getSettings", "patchSettings"} PROVE RowsKept
    <2>1. u \in Users /\ account[u] # None
        BY <1>0, <1>4 DEF HolderInv, Served, Doors
    <2>2. \A v \in Users \ {u} : settings'[v] = settings[v] /\ notification'[v] = notification[v]
        BY <1>4 DEF ensureSettings, PatchInv
    <2>3. QED BY <1>2, <1>4, <2>1, <2>2, Ensured
<1>5. CASE SaveSettings(c)
    <2>1. /\ pc[c] = "s_commit"
          /\ settings' = [settings EXCEPT ![u] =
                [k \in SettingKeys |-> IF @[k] = None THEN None ELSE draft[c][k]]]
          /\ notification' = [notification EXCEPT ![u] = {Reminders(draft[c]) : row \in @}]
        BY <1>0, <1>5 DEF SaveSettings
    <2>2. /\ ValidPatch(req[c].patch) /\ req[c].op = "patchSettings" /\ Full(u)
          /\ draft[c] = mergeSettings(mapSettings(settings[u]), req[c].patch)
        BY <1>0, <2>1 DEF PatchInv, Patches, PatchLabels
    <2>3. u \in Users /\ account[u] # None
        BY <1>0, <2>1 DEF HolderInv, Served, PatchLabels
    <2>4. \A k \in SettingKeys : draft[c][k] # None
        <3>1. \A k \in SettingKeys : draft[c][k] = IF k \in DOMAIN req[c].patch THEN req[c].patch[k]
                                                   ELSE mapSettings(settings[u])[k]
            BY <2>2 DEF mergeSettings
        <3>2. \A k \in SettingKeys : mapSettings(settings[u])[k] # None BY MapFills
        <3>3. \A k \in DOMAIN req[c].patch : req[c].patch[k] # None BY <2>2, PatchedFields
        <3>4. QED BY <3>1, <3>2, <3>3
    <2>5. /\ DOMAIN settings' = Users /\ DOMAIN notification' = Users
          /\ \A v \in Users \ {u} : settings'[v] = settings[v] /\ notification'[v] = notification[v]
        BY <2>1 DEF PatchInv
    <2>6. settings'[u] = [k \in SettingKeys |-> IF settings[u][k] = None THEN None ELSE draft[c][k]]
        BY <2>1, <2>3 DEF PatchInv
    <2>7. notification'[u] = {Reminders(draft[c]) : row \in notification[u]}
        BY <2>1, <2>3 DEF PatchInv
    <2>8. Full(u)' BY <2>2, <2>4, <2>6, <2>7 DEF Full
    <2>9. QED BY <1>1, <1>2, <2>3, <2>5, <2>8
<1>6. QED
    BY <1>0, <1>1, <1>3, <1>4, <1>5
    DEF InSettings, SettingsStep, GetSettings, ReadSettings, PatchSettings, LockSettings,
        ReadAndApply, settingsVars

LEMMA KeptInVisual ==
    ASSUME CallsOK, HolderInv, PatchInv, RegInv, NEW c \in Calls, InVisual(c)
    PROVE  RowsKept /\ account' = account
<1> DEFINE u == User(c)
<1>1. UNCHANGED <<account, profile, progressed, companions>>
    BY DEF InVisual, accountVars, rowVars
<1>2. CASE UNCHANGED <<settings, notification>>
    BY <1>1, <1>2 DEF RegInv, RowsKept, Rowless, Complete
<1>3. ASSUME pc[c] = "refreshVisual", notification' = notification,
             settings' = [settings EXCEPT ![u][keyDisableRandom] =
                             mapSettings(settings[u])[keyDisableRandom]]
      PROVE  RowsKept
    <2>1. u \in Users /\ account[u] # None
        BY <1>3 DEF HolderInv, Served, Doors
    <2>3. \A v \in Users \ {u} : settings'[v] = settings[v] BY <1>3 DEF PatchInv
    <2>4. \A k \in SettingKeys : settings'[u][k] = settings[u][k]
                                 \/ settings'[u][k] = mapSettings(settings[u])[k]
        <3>1. settings'[u] = [settings[u] EXCEPT ![keyDisableRandom] =
                                 mapSettings(settings[u])[keyDisableRandom]]
            BY <1>3, <2>1 DEF PatchInv
        <3>2. QED BY <3>1
    <2>5. \A k \in SettingKeys : settings[u][k] # None => settings'[u][k] # None
        BY <2>4, MapFills
    <2>6. ASSUME NEW v \in Users, account[v] = None, Rowless(v) PROVE Rowless(v)'
        BY <1>1, <1>3, <2>1, <2>3, <2>6 DEF Rowless
    <2>7. ASSUME NEW v \in Users, Complete(v) PROVE Complete(v)'
        <3>1. CASE v = u BY <1>1, <1>3, <2>5, <2>7, <3>1 DEF Complete
        <3>2. CASE v # u BY <1>1, <1>3, <2>3, <2>7, <3>2 DEF Complete
        <3>3. QED BY <3>1, <3>2
    <2>8. DOMAIN profile' = Users BY <1>1 DEF RegInv
    <2>9. QED BY <2>6, <2>7, <2>8 DEF RowsKept
<1>4. QED
    BY <1>1, <1>2, <1>3
    DEF InVisual, VisualStep, GetVisual, RefreshVisual, ReadFlag, LoadVisual, UpsertSlot,
        DeadlockVictim, CommitVisual, settingsVars

LEMMA RegComesIn ==
    ASSUME CallsOK, EntryInv, RegInv, NEW c \in Calls, ComesIn(c), Untouched
    PROVE  RegInv'
<1>1. PICK r \in mix.requests :
         /\ req' = [req EXCEPT ![c] = r]
         /\ \/ \E status \in Refusals : /\ pc' = [pc EXCEPT ![c] = "done"]
                                        /\ ans' = [ans EXCEPT ![c] = status]
            \/ \E l \in {"malformed", r.op} : pc' = [pc EXCEPT ![c] = l] /\ ans' = ans
    BY DEF ComesIn
<1>2. r.op \notin {"r_commit", "r_note", "issuePair", "done"}
    BY WorkloadAssumption DEF CallsOK, mix, Operations
<1>3. DOMAIN pc = Calls /\ DOMAIN req = Calls /\ DOMAIN ans = Calls /\ pc[c] = "idle"
    BY DEF CallsOK, EntryInv, ComesIn
<1>4. \A d \in Calls \ {c} : pc'[d] = pc[d] /\ req'[d] = req[d] /\ ans'[d] = ans[d]
    BY <1>1, <1>3
<1>5. \/ pc'[c] = "done" /\ ans'[c] \in Refusals
      \/ pc'[c] \in {"malformed", r.op}
    BY <1>1, <1>3
<1>6. ~Registered(c)' /\ ~Answered(c, {"email_taken"})'
    BY <1>2, <1>5 DEF Registered, Answered, Refusals
<1>7. pc'[c] # "r_commit" BY <1>2, <1>5
<1>8. \A u \in Users : ~(account[u] # None /\ account[u].by = c) BY <1>3 DEF RegInv
<1>9. QED BY <1>4, <1>6, <1>7, <1>8, KeptUntouched, RegGoesOn

LEMMA RegGivesUp ==
    ASSUME CallsOK, EntryInv, RegInv, NEW c \in Calls, GivesUp(c), RowsKept, account' = account
    PROVE  RegInv'
<1>1. PICK status : status \notin {"created", "email_taken"} /\ ans' = [ans EXCEPT ![c] = status]
    BY DEF GivesUp
<1>2. DOMAIN pc = Calls /\ DOMAIN ans = Calls /\ req' = req /\ pc' = [pc EXCEPT ![c] = "done"]
    BY DEF CallsOK, EntryInv, GivesUp
<1>3. pc'[c] = "done" /\ ans'[c] = status BY <1>1, <1>2
<1>4. \A d \in Calls \ {c} : pc'[d] = pc[d] /\ req'[d] = req[d] /\ ans'[d] = ans[d]
    BY <1>1, <1>2
<1>5. ~Registered(c)' /\ ~Answered(c, {"email_taken"})'
    BY <1>1, <1>3 DEF Registered, Answered
<1>6. \A u \in Users : account[u] # None /\ account[u].by = c => req'[c].op = "register"
    BY <1>2 DEF RegInv
<1>7. QED BY <1>3, <1>4, <1>5, <1>6, RegGoesOn

\* A call that is no registration goes on.
LEMMA RegPasses ==
    ASSUME CallsOK, EntryInv, RegInv, NEW c \in Calls, RowsKept, account' = account,
           req' = req, req[c].op # "register", pc[c] \notin {"idle", "done"},
           \/ ans' = ans /\ pc' = pc
           \/ ans' = ans /\ \E l : l \notin {"r_commit", "done"} /\ pc' = [pc EXCEPT ![c] = l]
           \/ \E status : /\ status # "email_taken"
                          /\ pc' = [pc EXCEPT ![c] = "done"] /\ ans' = [ans EXCEPT ![c] = status]
    PROVE  RegInv'
<1>1. DOMAIN pc = Calls /\ DOMAIN ans = Calls BY DEF CallsOK, EntryInv
<1>2. \A d \in Calls \ {c} : pc'[d] = pc[d] /\ req'[d] = req[d] /\ ans'[d] = ans[d]
    BY <1>1
<1>3. ~Registered(c)' BY DEF Registered
<1>4. ~Answered(c, {"email_taken"})' BY <1>1 DEF Answered, EntryInv
<1>5. pc'[c] # "r_commit" BY <1>1 DEF EntryInv, RegisterPlaces
<1>6. \A u \in Users : ~(account[u] # None /\ account[u].by = c) BY DEF RegInv
<1>7. QED BY <1>2, <1>3, <1>4, <1>5, <1>6, RegGoesOn

LEMMA RegRegister ==
    ASSUME CallsOK, EntryInv, RegInv, NEW c \in Calls, Register(c)
    PROVE  RegInv'
<1>1. /\ DOMAIN pc = Calls /\ DOMAIN ans = Calls /\ req' = req /\ pc[c] = "register"
      /\ UNCHANGED <<load, now>> /\ req[c].op = "register"
    BY DEF CallsOK, EntryInv, RegisterPlaces, Register, limiterVars
<1>2. RowsKept /\ account' = account BY KeptUntouched DEF Register, Untouched
<1>3. \A u \in Users : ~(account[u] # None /\ account[u].by = c) BY <1>1 DEF RegInv
<1>5. Named(c)' = Named(c) BY <1>1 DEF Named
<1>6. CASE Answer(c, "invalid_credentials")
    BY <1>1, <1>2, <1>6, RegGivesUp DEF Answer, GivesUp
<1>7. CASE account[Named(c)] # None /\ Answer(c, "email_taken")
    <2>1. /\ pc'[c] = "done" /\ ans'[c] = "email_taken"
          /\ \A d \in Calls \ {c} : pc'[d] = pc[d] /\ req'[d] = req[d] /\ ans'[d] = ans[d]
        BY <1>1, <1>7 DEF Answer
    <2>2. ~Registered(c)' BY <2>1 DEF Registered, Answered
    <2>3. Refused(c)' BY <1>1, <1>2, <1>3, <1>5, <1>7, NamedUser DEF Refused
    <2>4. QED BY <1>2, <1>3, <2>1, <2>2, <2>3, RegGoesOn
<1>8. CASE ValidRegistration(req[c]) /\ Go(c, "r_commit")
    <2>1. /\ pc'[c] = "r_commit" /\ ans' = ans
          /\ \A d \in Calls \ {c} : pc'[d] = pc[d] /\ req'[d] = req[d] /\ ans'[d] = ans[d]
        BY <1>1, <1>8 DEF Go
    <2>2. ~Registered(c)' /\ ~Answered(c, {"email_taken"})' BY <2>1 DEF Registered, Answered
    <2>3. QED BY <1>1, <1>2, <1>3, <1>8, <2>1, <2>2, RegGoesOn
<1>9. QED BY <1>6, <1>7, <1>8 DEF Register

\* The commit writes every first row at once, and the mailbox was free until then.
LEMMA RegCommit ==
    ASSUME CallsOK, EntryInv, HolderInv, PatchInv, LimiterInv, RegInv, NEW c \in Calls, CommitUser(c)
    PROVE  RegInv'
<1>1. /\ DOMAIN pc = Calls /\ DOMAIN ans = Calls /\ req' = req /\ pc[c] = "r_commit"
      /\ load' = load /\ req[c].op = "register" /\ now \in Int
    BY DEF CallsOK, EntryInv, RegisterPlaces, CommitUser, limiterVars, LimiterInv
<1>2. PICK u \in Users : u = Named(c) BY <1>1, NamedUser
<1>3. /\ account' = [account EXCEPT ![u] = NewUser(c)]
      /\ profile' = [profile EXCEPT ![u] = req[c].name]
      /\ progressed' = progressed \cup {u} /\ companions' = companions \cup {u}
      /\ settings' = [settings EXCEPT ![u] = defaultSettings]
      /\ notification' = [notification EXCEPT ![u] = {Reminders(defaultSettings)}]
    BY <1>2 DEF CommitUser
<1>4. /\ DOMAIN account = Users /\ DOMAIN profile = Users
      /\ DOMAIN settings = Users /\ DOMAIN notification = Users
    BY DEF PatchInv, RegInv
<1>5. NewUser(c) # None /\ NewUser(c).by = c
    <2>1. NewUser(c) \in [email : {req[c].email}, role : {"user"}, password : {req[c].password},
                          by : Calls, created : Int]
        BY <1>1 DEF NewUser
    <2>2. req[c] \in mix.requests /\ load \in DOMAIN Mixes BY <1>1 DEF CallsOK
    <2>3. NewUser(c) # None BY <1>1, <2>1, <2>2, AbsenceAssumption DEF mix
    <2>4. QED BY <2>3 DEF NewUser
<1>6. ValidRegistration(req[c]) /\ account[u] = None BY <1>1, <1>2 DEF RegInv, HolderInv
<1>7. account'[u] # None /\ account'[u].by = c BY <1>3, <1>4, <1>5
<1>8. \A v \in Users \ {u} : account'[v] = account[v] BY <1>3, <1>4
<1>9. Complete(u)'
    <2>1. profile'[u] # None BY <1>3, <1>4, <1>6 DEF ValidRegistration
    <2>2. notification'[u] # {} BY <1>3, <1>4
    <2>3. settings'[u] = defaultSettings BY <1>3, <1>4
    <2>4. QED BY <1>3, <2>1, <2>2, <2>3, AbsenceAssumption DEF Complete
<1>10. \A v \in Users \ {u} :
          /\ profile'[v] = profile[v] /\ settings'[v] = settings[v]
          /\ notification'[v] = notification[v]
          /\ v \in progressed' <=> v \in progressed
          /\ v \in companions' <=> v \in companions
    BY <1>3, <1>4
<1>11. \A v \in Users \ {u} : Rowless(v)' = Rowless(v) /\ Complete(v)' = Complete(v)
    BY <1>10 DEF Rowless, Complete
<1>12. \A v \in Users : account'[v] = None => Rowless(v)'
    BY <1>7, <1>8, <1>11 DEF RegInv
<1>13. \A v \in Users : account'[v] # None /\ account'[v].by # None => Complete(v)'
    BY <1>8, <1>9, <1>11 DEF RegInv
<1>14. /\ pc' = [pc EXCEPT ![c] = "r_note"] /\ ans' = ans
       \/ \E status : /\ status = "internal"
                      /\ pc' = [pc EXCEPT ![c] = "done"] /\ ans' = [ans EXCEPT ![c] = status]
    BY DEF CommitUser, Go, Answer
<1>15. /\ pc'[c] \in {"r_note", "done"}
       /\ pc'[c] = "done" => ans'[c] = "internal"
       /\ \A d \in Calls \ {c} : pc'[d] = pc[d] /\ ans'[d] = ans[d]
    BY <1>1, <1>14
<1>16. \A d \in Calls : Named(d)' = Named(d) BY <1>1 DEF Named
<1>17. \A v \in Users : \A d \in Calls : account'[v] # None /\ account'[v].by = d =>
          req'[d].op = "register" /\ pc'[d] \in {"r_note", "issuePair", "done"}
    BY <1>1, <1>7, <1>8, <1>15 DEF RegInv
<1>18. \A d \in Calls : pc'[d] = "r_commit" => ValidRegistration(req'[d])
    BY <1>1, <1>15 DEF RegInv
<1>21. \A d \in Calls \ {c} : account[Named(d)] # None => account'[Named(d)] = account[Named(d)]
    BY <1>3, <1>6
<1>22. \A d \in Calls : Registered(d)' => Owns(d)'
    <2>1. SUFFICES ASSUME NEW d \in Calls, Registered(d)' PROVE Owns(d)'
        OBVIOUS
    <2>2. CASE d = c BY <1>2, <1>7, <1>16, <2>2 DEF Owns
    <2>3. CASE d # c
        <3>1. Registered(d) BY <1>1, <1>15, <2>1, <2>3 DEF Registered, Answered
        <3>2. Owns(d) BY <3>1 DEF RegInv
        <3>3. QED BY <1>16, <1>21, <2>3, <3>2 DEF Owns
    <2>4. QED BY <2>2, <2>3
<1>23. \A d \in Calls : Answered(d, {"email_taken"})' => Refused(d)'
    <2>1. SUFFICES ASSUME NEW d \in Calls, Answered(d, {"email_taken"})' PROVE Refused(d)'
        OBVIOUS
    <2>2. d # c BY <1>15, <2>1 DEF Answered
    <2>3. Answered(d, {"email_taken"}) BY <1>15, <2>1, <2>2 DEF Answered
    <2>4. Refused(d) BY <2>3 DEF RegInv
    <2>5. QED BY <1>16, <1>21, <2>2, <2>4 DEF Refused
<1>24. DOMAIN profile' = Users BY <1>3, <1>4
<1>25. QED BY <1>12, <1>13, <1>17, <1>18, <1>22, <1>23, <1>24 DEF RegInv

LEMMA RegNote ==
    ASSUME CallsOK, EntryInv, RegInv, NEW c \in Calls, NoteRegistration(c)
    PROVE  RegInv'
<1>1. /\ DOMAIN pc = Calls /\ DOMAIN ans = Calls /\ req' = req /\ ans' = ans
      /\ pc[c] = "r_note" /\ pc' = [pc EXCEPT ![c] = "issuePair"]
    BY DEF CallsOK, EntryInv, NoteRegistration, limiterVars, Go
<1>2. RowsKept /\ account' = account BY KeptUntouched DEF NoteRegistration, Untouched
<1>3. /\ req[c].op = "register" /\ Owns(c)
    BY <1>1 DEF EntryInv, RegisterPlaces, RegInv, Registered
<1>4. Owns(c)' BY <1>1, <1>2, <1>3 DEF Owns, Named
<1>5. pc'[c] = "issuePair" /\ \A d \in Calls \ {c} : pc'[d] = pc[d] BY <1>1
<1>6. ~Answered(c, {"email_taken"})' BY <1>5 DEF Answered
<1>7. QED BY <1>1, <1>2, <1>3, <1>4, <1>5, <1>6, RegGoesOn

LEMMA RegIssue ==
    ASSUME CallsOK, EntryInv, RegInv, NEW c \in Calls, IssuePair(c)
    PROVE  RegInv'
<1>1. /\ DOMAIN pc = Calls /\ DOMAIN ans = Calls /\ req' = req
      /\ pc[c] = "issuePair" /\ pc' = [pc EXCEPT ![c] = "done"]
      /\ \E status : status # "email_taken" /\ ans' = [ans EXCEPT ![c] = status]
    BY DEF CallsOK, EntryInv, IssuePair, limiterVars, AnswerCommit, Answer
<1>2. RowsKept /\ account' = account BY KeptUntouched DEF IssuePair, Untouched
<1>3. CASE req[c].op # "register" BY <1>1, <1>2, <1>3, RegPasses
<1>4. CASE req[c].op = "register"
    <2>1. Owns(c) BY <1>1, <1>4 DEF RegInv, Registered
    <2>2. Owns(c)' BY <1>1, <1>2, <2>1 DEF Owns, Named
    <2>3. /\ pc'[c] = "done" /\ ans'[c] # "email_taken"
          /\ \A d \in Calls \ {c} : pc'[d] = pc[d] /\ ans'[d] = ans[d]
        BY <1>1
    <2>4. ~Answered(c, {"email_taken"})' BY <2>3 DEF Answered
    <2>5. QED BY <1>1, <1>2, <1>4, <2>2, <2>3, <2>4, RegGoesOn
<1>5. QED BY <1>3, <1>4

\* Logins and the calls to the profile register nobody.
LEMMA RegOthers ==
    ASSUME CallsOK, EntryInv, RegInv, NEW c \in Calls,
           \/ Login(c) \/ RecordFailedLogin(c) \/ LoginSucceeded(c) \/ NoteAdminLogin(c)
           \/ Me(c) \/ UpdateDisplayName(c) \/ Summary(c) \/ Progression(c)
    PROVE  RegInv'
<1>1. /\ req[c].op # "register" /\ req' = req /\ pc[c] \notin {"idle", "done"}
    BY DEF EntryInv, LoginPlaces, RegisterPlaces, Login, RecordFailedLogin, LoginSucceeded,
           NoteAdminLogin, Me, UpdateDisplayName, Summary, Progression, limiterVars
<1>2. \/ ans' = ans /\ \E l : l \notin {"r_commit", "done"} /\ pc' = [pc EXCEPT ![c] = l]
      \/ \E status : /\ status # "email_taken"
                     /\ pc' = [pc EXCEPT ![c] = "done"] /\ ans' = [ans EXCEPT ![c] = status]
    <2> USE DEF Go, Answer
    <2>1. CASE Login(c) BY <2>1 DEF Login
    <2>2. CASE RecordFailedLogin(c) BY <2>2 DEF RecordFailedLogin
    <2>3. CASE LoginSucceeded(c) BY <2>3 DEF LoginSucceeded
    <2>4. CASE NoteAdminLogin(c) BY <2>4 DEF NoteAdminLogin
    <2>5. CASE Me(c) BY <2>5 DEF Me
    <2>6. CASE UpdateDisplayName(c) BY <2>6 DEF UpdateDisplayName
    <2>7. CASE Summary(c) BY <2>7 DEF Summary
    <2>8. CASE Progression(c) BY <2>8 DEF Progression
    <2>9. QED BY <2>1, <2>2, <2>3, <2>4, <2>5, <2>6, <2>7, <2>8
<1>3. account' = account /\ UNCHANGED <<progressed, companions, settings, notification>>
    BY DEF Login, RecordFailedLogin, LoginSucceeded, NoteAdminLogin, Me, UpdateDisplayName,
           Summary, Progression, settingsVars, accountVars, rowVars
<1>4. \/ profile' = profile
      \/ /\ req[c].name # None
         /\ profile' = [profile EXCEPT ![User(c)] = IF @ = None THEN None ELSE req[c].name]
    BY DEF Login, RecordFailedLogin, LoginSucceeded, NoteAdminLogin, Me, UpdateDisplayName,
           Summary, Progression, accountVars, rowVars
<1>5. /\ DOMAIN profile' = Users
      /\ \A u \in Users : profile'[u] = None <=> profile[u] = None
    BY <1>4 DEF RegInv
<1>6. RowsKept BY <1>3, <1>5 DEF RowsKept, Rowless, Complete
<1>7. QED BY <1>1, <1>2, <1>3, <1>6, RegPasses

LEMMA RegStep ==
    ASSUME CallsOK, EntryInv, HolderInv, PatchInv, LimiterInv, RegInv, [Next]_vars
    PROVE  RegInv'
<1>1. CASE UNCHANGED <<load, req, pc, ans>> /\ Untouched
    BY <1>1 DEF Untouched, settingsVars, accountVars, rowVars, RegInv, Rowless, Complete,
                Registered, Owns, Refused, Answered, Named
<1>2. ASSUME NEW c \in Calls, ComesIn(c), Untouched PROVE RegInv'
    BY <1>2, RegComesIn
<1>3. ASSUME NEW c \in Calls, GivesUp(c), Untouched PROVE RegInv'
    BY <1>3, KeptUntouched, RegGivesUp
<1>4. ASSUME NEW c \in Calls, InAccounts(c) PROVE RegInv'
    BY <1>4, RegRegister, RegCommit, RegNote, RegIssue, RegOthers DEF InAccounts, AccountStep
<1>5. ASSUME NEW c \in Calls, Passes(c), RowsKept, account' = account PROVE RegInv'
    <2>1. /\ req[c].op # "register" /\ req' = req /\ pc[c] \notin {"idle", "done"}
        BY <1>5 DEF Passes, EntryInv, EntryPlaces
    <2>2. \/ ans' = ans /\ pc' = pc
          \/ ans' = ans /\ \E l : l \notin {"r_commit", "done"} /\ pc' = [pc EXCEPT ![c] = l]
          \/ \E status : /\ status # "email_taken"
                         /\ pc' = [pc EXCEPT ![c] = "done"] /\ ans' = [ans EXCEPT ![c] = status]
        BY <1>5 DEF Passes, EntryPlaces, RegisterPlaces
    <2>3. QED BY <1>5, <2>1, <2>2, RegPasses
<1>6. ASSUME NEW c \in Calls, UNCHANGED accountVars,
             InSettings(c) \/ InVisual(c) \/ UNCHANGED settingsVars
      PROVE  RowsKept /\ account' = account
    BY <1>6, KeptInSettings, KeptInVisual, KeptUntouched DEF Untouched
<1>7. QED BY <1>1, <1>2, <1>3, <1>4, <1>5, <1>6, EntryCases

\* A registration leaves a user with every first row or none, a mailbox is
\* registered once, and who is told that it is taken is told the truth, whatever
\* fails or races (Register, insertBaselines).
THEOREM RegistrationsAreWhole == Spec => []AccountWhole
<1>1. Init => RegInv BY RegInit
<1>2. CallsOK /\ EntryInv /\ HolderInv /\ PatchInv /\ LimiterInv /\ RegInv /\ [Next]_vars => RegInv'
    BY RegStep
<1>3. RegInv => AccountWhole
    <2>1. ASSUME RegInv, NEW u \in Users
          PROVE  LET rows == [k \in SettingKeys |-> settings[u][k] # None]
                     all == /\ profile[u] # None /\ u \in progressed /\ u \in companions
                            /\ notification[u] # {} /\ \A k \in SettingKeys : rows[k]
                     any == \/ profile[u] # None \/ u \in progressed \/ u \in companions
                            \/ notification[u] # {} \/ \E k \in SettingKeys : rows[k]
                 IN  IF account[u] = None THEN ~any ELSE account[u].by # None => all
        BY <2>1 DEF RegInv, Rowless, Complete
    <2>2. ASSUME RegInv, NEW c \in Calls
          PROVE  /\ Answered(c, {"created"}) /\ req[c].op = "register" =>
                       account[Named(c)].by = c
                 /\ Answered(c, {"email_taken"}) =>
                       account[Named(c)] # None /\ account[Named(c)].by # c
        BY <2>2 DEF RegInv, Registered, Owns, Refused
    <2>3. QED BY <2>1, <2>2 DEF AccountWhole
<1>4. QED BY <1>1, <1>2, <1>3, CallsAlways, EntryAlways, HolderAlways, PatchAlways, LimiterAlways,
             PTL DEF Spec

-----------------------------------------------------------------------------
(* The alarm on failed logins, first for one sequence of decisions. *)

Decision == [call : Calls, kind : {"wrong", "right"}, time : Int]

\* RunOfFails of a sequence, the hit that a decision leaves in the tracker, and
\* AlarmExact of a sequence under the alarms A.
RunOf(s, i) ==
    {j \in 1..i : /\ s[j].time > s[i].time - FailureWindow
                  /\ \A h \in j..i : s[h].kind = "wrong"}
HitOf(s, j) == [call |-> s[j].call, time |-> s[j].time]
HitsOf(s, R) == {HitOf(s, j) : j \in R}
Exact(s, A) ==
    \A i \in 1..Len(s) : s[i].kind = "wrong" =>
        /\ s[i].call \in A => Cardinality(RunOf(s, i)) = Threshold
        /\ Cardinality(RunOf(s, i)) >= Threshold =>
              \E j \in 1..i : s[j].call \in A /\ \A h \in j..i : s[h].kind = "wrong"

\* Every call has decided once, and no later than t.
Orderly(s, t) ==
    /\ s \in Seq(Decision)
    /\ \A i \in 1..Len(s) : s[i].time <= t
    /\ \A i, j \in 1..Len(s) : s[i].call = s[j].call => i = j

LEMMA RunFinite ==
    ASSUME NEW s, NEW i \in Nat
    PROVE  /\ RunOf(s, i) \subseteq 1..i /\ IsFiniteSet(RunOf(s, i))
           /\ Cardinality(RunOf(s, i)) \in Nat
<1>1. RunOf(s, i) \subseteq 1..i BY DEF RunOf
<1>2. IsFiniteSet(1..i) BY FS_Interval
<1>3. QED BY <1>1, <1>2, FS_Subset, FS_CardinalityType

\* A decision that is appended.
LEMMA Decides ==
    ASSUME NEW t \in Int, NEW s, Orderly(s, t), NEW d \in Decision, d.time = t,
           \A i \in 1..Len(s) : s[i].call # d.call
    PROVE  /\ Orderly(Append(s, d), t) /\ Len(s) \in Nat
           /\ Len(Append(s, d)) = Len(s) + 1 /\ Append(s, d)[Len(s) + 1] = d
           /\ \A i \in 1..Len(s) : Append(s, d)[i] = s[i]
<1> DEFINE e == Append(s, d)
<1>1. s \in Seq(Decision) /\ Len(s) \in Nat BY DEF Orderly
<1>2. /\ e \in Seq(Decision) /\ Len(e) = Len(s) + 1 /\ e[Len(s) + 1] = d
      /\ \A i \in 1..Len(s) : e[i] = s[i]
    BY <1>1
<1>3. \A i \in 1..Len(e) : i \in 1..Len(s) \/ i = Len(s) + 1 BY <1>1, <1>2
<1>4. \A i \in 1..Len(e) : e[i].time <= t BY <1>2, <1>3 DEF Orderly
<1>5. \A i, j \in 1..Len(e) : e[i].call = e[j].call => i = j BY <1>2, <1>3 DEF Orderly
<1>6. QED BY <1>1, <1>2, <1>4, <1>5 DEF Orderly

\* What it does to the runs of failures: those that ended before stay, and the new one
\* is what is recent of the last one, or empty after a success.
LEMMA RunGrows ==
    ASSUME NEW t \in Int, NEW s, Orderly(s, t), NEW d \in Decision, d.time = t,
           \A i \in 1..Len(s) : s[i].call # d.call
    PROVE  /\ \A i \in 1..Len(s) : RunOf(Append(s, d), i) = RunOf(s, i)
           /\ d.kind = "right" => RunOf(Append(s, d), Len(s) + 1) = {}
           /\ d.kind = "wrong" => RunOf(Append(s, d), Len(s) + 1) =
                 {j \in RunOf(s, Len(s)) : s[j].time > t - FailureWindow} \cup {Len(s) + 1}
<1>1. PICK n \in Nat : n = Len(s) BY DEF Orderly
<1> DEFINE e == Append(s, d)
<1>2. e[n + 1] = d /\ \A i \in 1..n : e[i] = s[i] BY <1>1, Decides
<1>3. /\ FailureWindow \in Nat \ {0}
      /\ \A i \in 1..n : s[i] \in Decision /\ s[i].time \in Int /\ s[i].time <= t
    <2>1. \A i \in 1..n : s[i] \in Decision /\ s[i].time <= t BY <1>1 DEF Orderly
    <2>2. QED BY <2>1, AccountAssumption DEF Decision
<1>4. ASSUME NEW i \in 1..n PROVE RunOf(e, i) = RunOf(s, i)
    <2>1. \A j \in 1..i : j \in 1..n /\ \A h \in j..i : h \in 1..n BY <1>4
    <2>2. QED BY <1>2, <1>4, <2>1 DEF RunOf
<1>5. ASSUME d.kind = "right" PROVE RunOf(e, n + 1) = {}
    <2>1. \A j \in 1..(n + 1) : n + 1 \in j..(n + 1) OBVIOUS
    <2>2. QED BY <1>2, <1>5, <2>1 DEF RunOf
<1>6. ASSUME d.kind = "wrong"
      PROVE  RunOf(e, n + 1) =
                 {j \in RunOf(s, n) : s[j].time > t - FailureWindow} \cup {n + 1}
    <2> DEFINE recent == {j \in RunOf(s, n) : s[j].time > t - FailureWindow}
    <2>1. \A j \in 1..(n + 1) : j \in 1..n \/ j = n + 1 OBVIOUS
    <2>2. n + 1 \in RunOf(e, n + 1)
        <3>1. \A h \in (n + 1)..(n + 1) : h = n + 1 OBVIOUS
        <3>2. e[n + 1].time > e[n + 1].time - FailureWindow BY <1>2, <1>3
        <3>3. n + 1 \in 1..(n + 1) BY <1>1
        <3>4. \A h \in (n + 1)..(n + 1) : e[h].kind = "wrong" BY <1>2, <1>6, <3>1
        <3>5. QED BY <3>2, <3>3, <3>4 DEF RunOf
    <2>3. ASSUME NEW j \in 1..n
          PROVE  j \in RunOf(e, n + 1) <=> j \in recent
        <3>1. n \in 1..n /\ s[n].time <= t /\ s[n].time \in Int /\ s[j].time \in Int
            BY <1>3
        <3>2. \A h \in j..(n + 1) : h \in j..n \/ h = n + 1 BY <2>3
        <3>3. j \in 1..(n + 1) /\ \A h \in j..n : h \in j..(n + 1) /\ h \in 1..n BY <2>3
        <3>4. (\A h \in j..(n + 1) : e[h].kind = "wrong") <=> (\A h \in j..n : s[h].kind = "wrong")
            BY <1>2, <1>6, <3>2, <3>3
        <3>5. s[j].time > t - FailureWindow => s[j].time > s[n].time - FailureWindow
            BY <1>3, <3>1
        <3>6. e[j] = s[j] /\ e[n + 1].time = t BY <1>2
        <3>7. QED BY <3>3, <3>4, <3>5, <3>6 DEF RunOf
    <2>4. RunOf(e, n + 1) \subseteq 1..(n + 1) /\ recent \subseteq 1..n BY DEF RunOf
    <2>5. QED BY <2>1, <2>2, <2>3, <2>4
<1>7. QED BY <1>1, <1>4, <1>5, <1>6

\* Decisions are as many as their hits.
LEMMA HitsCount ==
    ASSUME NEW t, NEW s, Orderly(s, t), NEW R \in SUBSET (1..Len(s))
    PROVE  IsFiniteSet(HitsOf(s, R)) /\ Cardinality(HitsOf(s, R)) = Cardinality(R)
<1> DEFINE f == [j \in R |-> HitOf(s, j)]
<1>1. IsFiniteSet(R)
    <2>1. Len(s) \in Nat BY DEF Orderly
    <2>2. IsFiniteSet(1..Len(s)) BY <2>1, FS_Interval
    <2>3. QED BY <2>2, FS_Subset
<1>2. \A i, j \in R : f[i] = f[j] => i = j
    <2>1. SUFFICES ASSUME NEW i \in R, NEW j \in R, HitOf(s, i) = HitOf(s, j)
                   PROVE  i = j
        OBVIOUS
    <2>2. s[i].call = s[j].call BY <2>1 DEF HitOf
    <2>3. QED BY <2>2 DEF Orderly
<1>3. f \in [R -> HitsOf(s, R)] BY DEF HitsOf
<1>4. \A x \in HitsOf(s, R) : \E j \in R : f[j] = x BY DEF HitsOf
<1>5. f \in Bijection(R, HitsOf(s, R))
    BY <1>2, <1>3, <1>4 DEF Bijection, Injection, Surjection, IsInjective
<1>6. QED BY <1>1, <1>5, FS_Bijection DEF ExistsBijection

\* An alarm that is raised exactly when the run reaches the threshold keeps the
\* alarms exact.
LEMMA ExactGrows ==
    ASSUME NEW t \in Int, NEW s, Orderly(s, t), NEW d \in Decision, d.time = t,
           \A i \in 1..Len(s) : s[i].call # d.call,
           NEW A, Exact(s, A), d.call \notin A,
           NEW B, B = A \/ B = A \cup {d.call},
           d.kind = "wrong" =>
               (d.call \in B <=> Cardinality(RunOf(Append(s, d), Len(s) + 1)) = Threshold)
    PROVE  Exact(Append(s, d), B)
<1> DEFINE e == Append(s, d)
<1>1. PICK n \in Nat : n = Len(s) BY DEF Orderly
<1>2. /\ Len(e) = n + 1 /\ e[n + 1] = d /\ \A i \in 1..n : e[i] = s[i]
    BY <1>1, Decides
<1>3. /\ \A i \in 1..n : RunOf(e, i) = RunOf(s, i)
      /\ d.kind = "wrong" =>
            RunOf(e, n + 1) =
                {j \in RunOf(s, n) : s[j].time > t - FailureWindow} \cup {n + 1}
    BY <1>1, RunGrows
<1>4. \A i \in 1..n : s[i].call \in B <=> s[i].call \in A BY <1>1
<1>5. ASSUME NEW i \in 1..n, e[i].kind = "wrong"
      PROVE  /\ e[i].call \in B => Cardinality(RunOf(e, i)) = Threshold
             /\ Cardinality(RunOf(e, i)) >= Threshold =>
                  \E j \in 1..i : e[j].call \in B /\ \A h \in j..i : e[h].kind = "wrong"
    <2>1. RunOf(e, i) = RunOf(s, i) /\ e[i] = s[i] BY <1>2, <1>3
    <2>2. s[i].call \in A => Cardinality(RunOf(s, i)) = Threshold
        BY <1>1, <1>5, <2>1 DEF Exact
    <2>3. ASSUME Cardinality(RunOf(s, i)) >= Threshold
          PROVE  \E j \in 1..i : e[j].call \in B /\ \A h \in j..i : e[h].kind = "wrong"
        <3>1. PICK j \in 1..i : s[j].call \in A /\ \A h \in j..i : s[h].kind = "wrong"
            BY <1>1, <1>5, <2>1, <2>3 DEF Exact
        <3>2. j \in 1..n /\ \A h \in j..i : h \in 1..n BY <1>5, <3>1
        <3>3. QED BY <1>2, <1>4, <3>1, <3>2
    <2>4. QED BY <1>4, <2>1, <2>2, <2>3
<1>6. ASSUME d.kind = "wrong", Cardinality(RunOf(e, n + 1)) >= Threshold
      PROVE  \E j \in 1..(n + 1) : e[j].call \in B /\ \A h \in j..(n + 1) : e[h].kind = "wrong"
    <2>1. CASE Cardinality(RunOf(e, n + 1)) = Threshold
        <3>1. e[n + 1].call \in B BY <1>1, <1>2, <1>6, <2>1
        <3>2. n + 1 \in 1..(n + 1) /\ \A h \in (n + 1)..(n + 1) : h = n + 1 BY <1>1
        <3>3. QED BY <1>2, <1>6, <3>1, <3>2
    <2>2. CASE Cardinality(RunOf(e, n + 1)) # Threshold
        <3> DEFINE recent == {j \in RunOf(s, n) : s[j].time > t - FailureWindow}
        <3>1. /\ RunOf(s, n) \subseteq 1..n /\ IsFiniteSet(RunOf(s, n))
              /\ Cardinality(RunOf(s, n)) \in Nat
            BY <1>1, RunFinite
        <3>2. recent \in SUBSET RunOf(s, n) OBVIOUS
        <3>3. IsFiniteSet(recent) /\ Cardinality(recent) <= Cardinality(RunOf(s, n))
            BY <3>1, <3>2, FS_Subset
        <3>4. Cardinality(recent) \in Nat BY <3>3, FS_CardinalityType
        <3>5. n + 1 \notin recent BY <1>1, <3>1
        <3>6. Cardinality(recent \cup {n + 1}) = Cardinality(recent) + 1
            BY <3>3, <3>5, FS_AddElement
        <3>7. Cardinality(RunOf(e, n + 1)) = Cardinality(recent) + 1
            BY <1>3, <1>6, <3>6
        <3>8. Threshold \in Nat \ {0} BY AccountAssumption
        <3>9. Cardinality(recent) >= Threshold BY <1>6, <2>2, <3>4, <3>7, <3>8
        <3>10. Cardinality(RunOf(s, n)) >= Threshold BY <3>1, <3>3, <3>4, <3>8, <3>9
        <3>11. RunOf(s, n) # {} BY <3>1, <3>8, <3>10, FS_EmptySet
        <3>12. n \in 1..n /\ s[n].kind = "wrong"
            <4>1. PICK j \in 1..n : \A h \in j..n : s[h].kind = "wrong"
                BY <3>1, <3>11 DEF RunOf
            <4>2. n \in j..n /\ n \in 1..n BY <1>1, <4>1
            <4>3. QED BY <4>1, <4>2
        <3>13. PICK j \in 1..n : s[j].call \in A /\ \A h \in j..n : s[h].kind = "wrong"
            BY <1>1, <3>10, <3>12 DEF Exact
        <3>14. /\ j \in 1..(n + 1) /\ \A h \in j..n : h \in 1..n
               /\ \A h \in j..(n + 1) : h \in j..n \/ h = n + 1
            BY <1>1, <3>13
        <3>15. QED BY <1>2, <1>4, <1>6, <3>13, <3>14
    <2>3. QED BY <2>1, <2>2
<1>7. \A i \in 1..(n + 1) : i \in 1..n \/ i = n + 1 BY <1>1
<1>8. d.kind = "wrong" => (d.call \in B => Cardinality(RunOf(e, n + 1)) = Threshold)
    BY <1>1
<1>9. QED BY <1>2, <1>5, <1>6, <1>7, <1>8 DEF Exact

\* The alarm for a call that has not decided here changes nothing here.
LEMMA ExactElsewhere ==
    ASSUME NEW s, NEW A, NEW B, NEW c, Exact(s, A), A \subseteq B, B \subseteq A \cup {c},
           Len(s) \in Nat, \A i \in 1..Len(s) : s[i].call # c
    PROVE  Exact(s, B)
<1>1. \A i \in 1..Len(s) : s[i].call \in B <=> s[i].call \in A OBVIOUS
<1>2. \A i \in 1..Len(s) : \A j \in 1..i : j \in 1..Len(s) OBVIOUS
<1>3. QED BY <1>1, <1>2 DEF Exact

\* Where a call may be that has decided a login.
DecidedPlaces == {"l_admin", "issuePair", "done"}

\* The tracker remembers of every key exactly the run of failures that its last
\* decision ended, no call decides twice, and the alarms are exact.
AlarmInv ==
    /\ fails = [k \in FailureKeys |-> fails[k]] /\ trail = [k \in FailureKeys |-> trail[k]]
    /\ \A c \in alarmed : c \in Calls /\ pc[c] = "done"
    /\ \A k \in FailureKeys :
          /\ Orderly(trail[k], now)
          /\ \A i \in 1..Len(trail[k]) : pc[trail[k][i].call] \in DecidedPlaces
          /\ fails[k] = HitsOf(trail[k], RunOf(trail[k], Len(trail[k])))
          /\ Exact(trail[k], alarmed)

LEMMA AlarmInit == ASSUME Init PROVE AlarmInv
<1>1. /\ now = 0 /\ fails = [k \in FailureKeys |-> {}] /\ alarmed = {}
      /\ trail = [k \in FailureKeys |-> <<>>]
    BY DEF Init, RequestsInit, AccountsInit
<1>2. Len(<<>>) = 0 /\ 1..0 = {} /\ <<>> \in Seq(Decision) OBVIOUS
<1>3. Orderly(<<>>, 0) BY <1>2 DEF Orderly
<1>4. RunOf(<<>>, 0) = {} BY <1>2 DEF RunOf
<1>5. HitsOf(<<>>, {}) = {} BY DEF HitsOf
<1>6. Exact(<<>>, {}) BY <1>2 DEF Exact
<1>7. QED BY <1>1, <1>2, <1>3, <1>4, <1>5, <1>6 DEF AlarmInv

\* Time and the calls go on, and nobody decides.
LEMMA AlarmGoesOn ==
    ASSUME AlarmInv, UNCHANGED trackerVars, now \in Int, now' = now \/ now' = now + 1,
           \A c \in Calls : pc[c] \in DecidedPlaces => pc'[c] \in DecidedPlaces,
           \A c \in Calls : pc[c] = "done" => pc'[c] = "done"
    PROVE  AlarmInv'
<1>1. UNCHANGED <<fails, alarmed, trail>> BY DEF trackerVars
<1>2. ASSUME NEW k \in FailureKeys
      PROVE  /\ Orderly(trail[k], now)'
             /\ \A i \in 1..Len(trail'[k]) : pc'[trail'[k][i].call] \in DecidedPlaces
             /\ fails'[k] = HitsOf(trail'[k], RunOf(trail'[k], Len(trail'[k])))
             /\ Exact(trail[k], alarmed)'
    <2>1. /\ Orderly(trail[k], now) /\ Exact(trail[k], alarmed)
          /\ \A i \in 1..Len(trail[k]) : pc[trail[k][i].call] \in DecidedPlaces
          /\ fails[k] = HitsOf(trail[k], RunOf(trail[k], Len(trail[k])))
        BY DEF AlarmInv
    <2>2. \A i \in 1..Len(trail[k]) :
             trail[k][i] \in Decision /\ trail[k][i].call \in Calls /\ trail[k][i].time \in Int
        <3>1. trail[k] \in Seq(Decision) BY <2>1 DEF Orderly
        <3>2. \A i \in 1..Len(trail[k]) : trail[k][i] \in Decision BY <3>1
        <3>3. QED BY <3>2 DEF Decision
    <2>3. Orderly(trail[k], now')
        BY <2>1, <2>2 DEF Orderly
    <2>4. trail'[k] = trail[k] BY <1>1
    <2>5. QED BY <1>1, <2>1, <2>2, <2>3, <2>4
<1>3. QED BY <1>1, <1>2 DEF AlarmInv

\* What the tracker remembers when call c has decided now.
LEMMA Remembers ==
    ASSUME NEW t \in Int, NEW s, Orderly(s, t), NEW d \in Decision, d.time = t,
           \A i \in 1..Len(s) : s[i].call # d.call, d.kind = "wrong"
    PROVE  LET e == Append(s, d)
               old == {hit \in HitsOf(s, RunOf(s, Len(s))) : hit.time > t - FailureWindow}
               kept == old \cup {[call |-> d.call, time |-> t]}
           IN  /\ kept = HitsOf(e, RunOf(e, Len(e)))
               /\ Cardinality(kept) = Cardinality(RunOf(e, Len(e)))
<1> DEFINE e == Append(s, d)
           old == {hit \in HitsOf(s, RunOf(s, Len(s))) : hit.time > t - FailureWindow}
           kept == old \cup {[call |-> d.call, time |-> t]}
<1>1. PICK n \in Nat : n = Len(s) BY DEF Orderly
<1>2. /\ Orderly(e, t) /\ Len(e) = n + 1 /\ e[n + 1] = d
      /\ \A i \in 1..n : e[i] = s[i]
    BY <1>1, Decides
<1>3. RunOf(e, n + 1) =
         {j \in RunOf(s, n) : s[j].time > t - FailureWindow} \cup {n + 1}
    BY <1>1, RunGrows
<1>4. RunOf(s, n) \subseteq 1..n /\ RunOf(e, n + 1) \subseteq 1..(n + 1) BY DEF RunOf
<1>5. HitOf(e, n + 1) = [call |-> d.call, time |-> t] BY <1>2 DEF HitOf
<1>6. \A j \in RunOf(s, n) : HitOf(e, j) = HitOf(s, j) /\ HitOf(s, j).time = s[j].time
    BY <1>2, <1>4 DEF HitOf
<1>7. old = {HitOf(e, j) : j \in {i \in RunOf(s, n) : s[i].time > t - FailureWindow}}
    BY <1>1, <1>6 DEF HitsOf
<1>8. kept = HitsOf(e, RunOf(e, n + 1)) BY <1>3, <1>5, <1>7 DEF HitsOf
<1>9. RunOf(e, n + 1) \in SUBSET (1..Len(e)) BY <1>2, <1>4
<1>10. Cardinality(HitsOf(e, RunOf(e, n + 1))) = Cardinality(RunOf(e, n + 1))
    BY <1>2, <1>9, HitsCount
<1>11. QED BY <1>2, <1>8, <1>10

\* Call c's attempt is decided: the decision d ends the trail e of key k, the tracker keeps
\* the run of failures e ends with, and the alarm rings for c at the threshold only.
DecidesAt(c, k, d, s, e) ==
    /\ now \in Int /\ now' = now
    /\ d.call = c /\ d.time = now /\ pc[c] \notin DecidedPlaces
    /\ s = trail[k] /\ e = Append(s, d)
    /\ trail' = [trail EXCEPT ![k] = e]
    /\ fails' = [fails EXCEPT ![k] = HitsOf(e, RunOf(e, Len(e)))]
    /\ (alarmed' = alarmed \/ (alarmed' = alarmed \cup {c} /\ pc'[c] = "done"))
    /\ (d.kind = "wrong" => (c \in alarmed' <=> Cardinality(RunOf(e, Len(e))) = Threshold))
    /\ pc'[c] \in DecidedPlaces
    /\ \A b \in Calls \ {c} : pc'[b] = pc[b]

\* A call decides about a key for the first time.
LEMMA AlarmDecides ==
    ASSUME CallsOK, AlarmInv, NEW c \in Calls, NEW k \in FailureKeys, NEW d \in Decision,
           NEW s, NEW e, DecidesAt(c, k, d, s, e)
    PROVE  AlarmInv'
<1> USE DEF DecidesAt
<1>1. /\ DOMAIN fails = FailureKeys /\ DOMAIN trail = FailureKeys
      /\ fails' = [l \in FailureKeys |-> fails'[l]] /\ trail' = [l \in FailureKeys |-> trail'[l]]
    BY DEF AlarmInv
<1>2. ASSUME NEW l \in FailureKeys
      PROVE  /\ Orderly(trail[l], now) /\ Exact(trail[l], alarmed)
             /\ Len(trail[l]) \in Nat
             /\ \A i \in 1..Len(trail[l]) :
                   /\ pc[trail[l][i].call] \in DecidedPlaces
                   /\ trail[l][i].call \in Calls \ {c}
             /\ fails[l] = HitsOf(trail[l], RunOf(trail[l], Len(trail[l])))
    <2>1. /\ Orderly(trail[l], now) /\ Exact(trail[l], alarmed)
          /\ \A i \in 1..Len(trail[l]) : pc[trail[l][i].call] \in DecidedPlaces
          /\ fails[l] = HitsOf(trail[l], RunOf(trail[l], Len(trail[l])))
        BY DEF AlarmInv
    <2>2. trail[l] \in Seq(Decision) BY <2>1 DEF Orderly
    <2>3. \A i \in 1..Len(trail[l]) : trail[l][i].call \in Calls
        <3>1. \A i \in 1..Len(trail[l]) : trail[l][i] \in Decision BY <2>2
        <3>2. QED BY <3>1 DEF Decision
    <2>4. QED BY <2>1, <2>2, <2>3
<1>3. PICK t \in Int : t = now OBVIOUS
<1>4. c \notin alarmed BY DEF AlarmInv, DecidedPlaces
<1>5. Orderly(s, t) /\ \A i \in 1..Len(s) : s[i].call # d.call BY <1>2, <1>3
<1>6. /\ Orderly(e, t) /\ Len(s) \in Nat /\ Len(e) = Len(s) + 1 /\ e[Len(s) + 1] = d
      /\ \A i \in 1..Len(s) : e[i] = s[i]
    BY <1>3, <1>5, Decides
<1>7. PICK A, B : A = alarmed /\ B = alarmed' OBVIOUS
<1>8. Exact(e, B)
    <2>1. Exact(s, A) /\ d.call \notin A BY <1>2, <1>4, <1>7
    <2>2. B = A \/ B = A \cup {d.call} BY <1>7
    <2>3. d.kind = "wrong" =>
             (d.call \in B <=> Cardinality(RunOf(Append(s, d), Len(s) + 1)) = Threshold)
        BY <1>6, <1>7
    <2>4. QED BY <1>3, <1>5, <2>1, <2>2, <2>3, ExactGrows
<1>9. \A b \in alarmed' : b \in Calls /\ pc'[b] = "done"
    BY DEF AlarmInv, DecidedPlaces
<1>10. ASSUME NEW l \in FailureKeys
       PROVE  /\ Orderly(trail[l], now)'
              /\ \A i \in 1..Len(trail'[l]) : pc'[trail'[l][i].call] \in DecidedPlaces
              /\ fails'[l] = HitsOf(trail'[l], RunOf(trail'[l], Len(trail'[l])))
              /\ Exact(trail[l], alarmed)'
    <2>1. CASE l = k
        <3>1. trail'[l] = e /\ fails'[l] = HitsOf(e, RunOf(e, Len(e))) BY <1>1, <2>1
        <3>2. \A i \in 1..Len(e) : i \in 1..Len(s) \/ i = Len(s) + 1 BY <1>6
        <3>3. \A i \in 1..Len(e) : pc'[e[i].call] \in DecidedPlaces
            BY <1>2, <1>6, <3>2
        <3>4. Orderly(trail[l], now)' BY <1>3, <1>6, <3>1
        <3>5. Exact(trail[l], alarmed)' BY <1>7, <1>8, <3>1
        <3>6. QED BY <3>1, <3>3, <3>4, <3>5
    <2>2. CASE l # k
        <3>1. trail'[l] = trail[l] /\ fails'[l] = fails[l] BY <1>1, <2>2
        <3>2. \A i \in 1..Len(trail[l]) : pc'[trail[l][i].call] \in DecidedPlaces
            BY <1>2
        <3>3. PICK q : q = trail[l] OBVIOUS
        <3>4. Exact(q, A) /\ Len(q) \in Nat /\ \A i \in 1..Len(q) : q[i].call # c
            BY <1>2, <1>7, <3>3
        <3>5. A \subseteq B /\ B \subseteq A \cup {c} BY <1>7
        <3>6. Exact(q, B) BY <3>4, <3>5, ExactElsewhere
        <3>7. Orderly(trail[l], now)' BY <1>2, <3>1
        <3>8. Exact(trail[l], alarmed)' BY <1>7, <3>1, <3>3, <3>6
        <3>9. QED BY <1>2, <3>1, <3>2, <3>7, <3>8
    <2>3. QED BY <2>1, <2>2
<1>11. QED BY <1>1, <1>9, <1>10 DEF AlarmInv

LEMMA AlarmWrong ==
    ASSUME CallsOK, EntryInv, LimiterInv, AlarmInv, NEW c \in Calls, RecordFailedLogin(c)
    PROVE  AlarmInv'
<1>1. /\ DOMAIN pc = Calls /\ now \in Int /\ now' = now /\ pc[c] = "l_wrong"
      /\ pc' = [pc EXCEPT ![c] = "done"]
    BY DEF CallsOK, LimiterInv, RecordFailedLogin, limiterVars, Answer
<1>2. pc'[c] = "done" /\ \A b \in Calls \ {c} : pc'[b] = pc[b] BY <1>1
<1>3. CASE KeyOf(c) = None
    <2>1. UNCHANGED trackerVars BY <1>3 DEF RecordFailedLogin
    <2>2. QED BY <1>1, <1>2, <2>1, AlarmGoesOn DEF DecidedPlaces
<1>4. CASE KeyOf(c) # None
    <2>1. PICK k \in FailureKeys : k = KeyOf(c)
        <3>1. req[c].op = "login" BY <1>1 DEF EntryInv, LoginPlaces
        <3>2. req[c] \in mix.requests /\ load \in DOMAIN Mixes BY <1>1 DEF CallsOK
        <3>3. req[c].email \in Emails BY <3>1, <3>2, WorkloadAssumption DEF mix
        <3>4. QED BY <1>4, <3>3 DEF FailureKeys, KeyOf
    <2>2. PICK t \in Int : t = now BY <1>1
    <2>3. PICK s : s = trail[k] OBVIOUS
    <2>4. PICK d \in Decision : d = [call |-> c, kind |-> "wrong", time |-> t]
        BY <2>2 DEF Decision
    <2>5. PICK e : e = Append(s, d) OBVIOUS
    <2>6. Orderly(s, t) /\ \A i \in 1..Len(s) : s[i].call # d.call
        <3>1. Orderly(s, t) /\ \A i \in 1..Len(s) : pc[s[i].call] \in DecidedPlaces
            BY <2>2, <2>3 DEF AlarmInv
        <3>2. QED BY <1>1, <2>4, <3>1 DEF DecidedPlaces
    <2>7. PICK kept : kept = {hit \in HitsOf(s, RunOf(s, Len(s))) : hit.time > t - FailureWindow}
                             \cup {[call |-> c, time |-> t]}
        OBVIOUS
    <2>8. /\ kept = HitsOf(e, RunOf(e, Len(e)))
          /\ Cardinality(kept) = Cardinality(RunOf(e, Len(e)))
        <3>1. d.call = c /\ d.time = t /\ d.kind = "wrong" /\ d \in Decision BY <2>4
        <3>2. QED BY <2>2, <2>5, <2>6, <2>7, <3>1, Remembers
    <2>9. RecentFails(k) \cup {[call |-> c, time |-> now]} = kept
        <3>1. fails[k] = HitsOf(s, RunOf(s, Len(s))) BY <2>3 DEF AlarmInv
        <3>2. QED BY <2>2, <2>7, <3>1 DEF RecentFails
    <2>10. /\ fails' = [fails EXCEPT ![k] = kept]
           /\ trail' = [trail EXCEPT ![k] = Append(@, d)]
           /\ IF Cardinality(kept) = Threshold THEN alarmed' = alarmed \cup {c}
              ELSE alarmed' = alarmed
        BY <1>4, <2>1, <2>2, <2>4, <2>9 DEF RecordFailedLogin, Decided, trackerVars
    <2>11. trail' = [trail EXCEPT ![k] = e]
        BY <2>3, <2>5, <2>10 DEF AlarmInv
    <2>12. c \notin alarmed BY <1>1 DEF AlarmInv
    <2>13. c \in alarmed' <=> Cardinality(RunOf(e, Len(e))) = Threshold
        BY <2>8, <2>10, <2>12
    <2>14. d.call = c /\ d.time = now /\ pc[c] \notin DecidedPlaces /\ pc'[c] \in DecidedPlaces
        BY <1>1, <1>2, <2>2, <2>4 DEF DecidedPlaces
    <2>15. fails' = [fails EXCEPT ![k] = HitsOf(e, RunOf(e, Len(e)))] BY <2>8, <2>10
    <2>16. DecidesAt(c, k, d, s, e)
        BY <1>1, <1>2, <2>3, <2>4, <2>5, <2>10, <2>11, <2>13, <2>14, <2>15 DEF DecidesAt
    <2>17. QED BY <2>16, AlarmDecides
<1>5. QED BY <1>3, <1>4

LEMMA AlarmRight ==
    ASSUME CallsOK, EntryInv, LimiterInv, AlarmInv, NEW c \in Calls, LoginSucceeded(c)
    PROVE  AlarmInv'
<1>1. /\ DOMAIN pc = Calls /\ now \in Int /\ now' = now /\ pc[c] = "l_right"
      /\ \E l \in {"l_admin", "issuePair"} : pc' = [pc EXCEPT ![c] = l]
      /\ alarmed' = alarmed
    BY DEF CallsOK, LimiterInv, LoginSucceeded, limiterVars, Go
<1>2. pc'[c] \in {"l_admin", "issuePair"} /\ \A b \in Calls \ {c} : pc'[b] = pc[b] BY <1>1
<1>3. fails = [k \in FailureKeys |-> fails[k]] /\ trail = [k \in FailureKeys |-> trail[k]]
    BY DEF AlarmInv
<1>4. CASE KeyOf(c) \notin FailureKeys
    <2>1. fails' = fails /\ trail' = trail BY <1>3, <1>4 DEF LoginSucceeded, Decided
    <2>2. UNCHANGED trackerVars BY <1>1, <2>1 DEF trackerVars
    <2>3. QED BY <1>1, <1>2, <2>2, AlarmGoesOn DEF DecidedPlaces
<1>5. CASE KeyOf(c) \in FailureKeys
    <2>1. PICK k \in FailureKeys : k = KeyOf(c) BY <1>5
    <2>2. PICK t \in Int : t = now BY <1>1
    <2>3. PICK s : s = trail[k] OBVIOUS
    <2>4. PICK d \in Decision : d = [call |-> c, kind |-> "right", time |-> t]
        BY <2>2 DEF Decision
    <2>5. PICK e : e = Append(s, d) OBVIOUS
    <2>6. Orderly(s, t) /\ \A i \in 1..Len(s) : s[i].call # d.call
        <3>1. Orderly(s, t) /\ \A i \in 1..Len(s) : pc[s[i].call] \in DecidedPlaces
            BY <2>2, <2>3 DEF AlarmInv
        <3>2. QED BY <1>1, <2>4, <3>1 DEF DecidedPlaces
    <2>7. Len(e) = Len(s) + 1 /\ RunOf(e, Len(s) + 1) = {}
        BY <2>2, <2>4, <2>5, <2>6, Decides, RunGrows
    <2>8. HitsOf(e, RunOf(e, Len(e))) = {} BY <2>7 DEF HitsOf
    <2>9. /\ fails' = [fails EXCEPT ![k] = HitsOf(e, RunOf(e, Len(e)))]
          /\ trail' = [trail EXCEPT ![k] = Append(@, d)]
        BY <2>1, <2>2, <2>4, <2>8 DEF LoginSucceeded, Decided
    <2>10. trail' = [trail EXCEPT ![k] = e] BY <1>3, <2>3, <2>5, <2>9
    <2>11. /\ d.call = c /\ d.time = now /\ pc[c] \notin DecidedPlaces
           /\ pc'[c] \in DecidedPlaces /\ d.kind # "wrong"
        BY <1>1, <1>2, <2>2, <2>4 DEF DecidedPlaces
    <2>12. DecidesAt(c, k, d, s, e)
        BY <1>1, <1>2, <2>3, <2>4, <2>5, <2>9, <2>10, <2>11 DEF DecidesAt
    <2>13. QED BY <2>12, AlarmDecides
<1>6. QED BY <1>4, <1>5

LEMMA AlarmStep ==
    ASSUME CallsOK, EntryInv, LimiterInv, AlarmInv, [Next]_vars
    PROVE  AlarmInv'
<1> USE DEF DecidedPlaces
<1>1. now \in Int /\ DOMAIN pc = Calls BY DEF LimiterInv, CallsOK
<1>2. CASE UNCHANGED <<load, req, pc, ans>> /\ Untouched /\ (now' = now \/ now' = now + 1)
    BY <1>1, <1>2, AlarmGoesOn DEF Untouched, accountVars
<1>3. ASSUME NEW c \in Calls, ComesIn(c), Untouched PROVE AlarmInv'
    <2>1. \A b \in Calls \ {c} : pc'[b] = pc[b] BY <1>1, <1>3 DEF ComesIn
    <2>2. QED BY <1>1, <1>3, <2>1, AlarmGoesOn DEF ComesIn, Untouched, accountVars
<1>4. ASSUME NEW c \in Calls, GivesUp(c), Untouched PROVE AlarmInv'
    BY <1>1, <1>4, AlarmGoesOn DEF GivesUp, Untouched, accountVars
<1>5. ASSUME NEW c \in Calls, Passes(c), UNCHANGED accountVars PROVE AlarmInv'
    <2>1. pc[c] \notin DecidedPlaces /\ \A b \in Calls \ {c} : pc'[b] = pc[b]
        BY <1>1, <1>5 DEF Passes, EntryPlaces, LoginPlaces
    <2>2. QED BY <1>1, <1>5, <2>1, AlarmGoesOn DEF Passes, accountVars
<1>6. ASSUME NEW c \in Calls, InAccounts(c) PROVE AlarmInv'
    <2>1. CASE RecordFailedLogin(c) BY <2>1, AlarmWrong
    <2>2. CASE LoginSucceeded(c) BY <2>2, AlarmRight
    <2>3. ASSUME UNCHANGED trackerVars, now' = now,
                 \/ pc[c] \notin DecidedPlaces /\ \E l : pc' = [pc EXCEPT ![c] = l]
                 \/ pc[c] # "done" /\ \E l \in DecidedPlaces : pc' = [pc EXCEPT ![c] = l]
          PROVE  AlarmInv'
        <3>1. \A b \in Calls \ {c} : pc'[b] = pc[b] BY <1>1, <2>3
        <3>2. pc[c] \in DecidedPlaces => pc'[c] \in DecidedPlaces BY <1>1, <2>3
        <3>3. pc[c] # "done" BY <2>3
        <3>4. QED BY <1>1, <2>3, <3>1, <3>2, <3>3, AlarmGoesOn
    <2> USE DEF Go, Answer, AnswerCommit, limiterVars, accountVars
    <2>4. CASE Register(c) BY <2>3, <2>4 DEF Register
    <2>5. CASE CommitUser(c) BY <2>3, <2>5 DEF CommitUser
    <2>6. CASE NoteRegistration(c) BY <2>3, <2>6 DEF NoteRegistration
    <2>7. CASE IssuePair(c) BY <2>3, <2>7 DEF IssuePair
    <2>8. CASE Login(c) BY <2>3, <2>8 DEF Login
    <2>9. CASE NoteAdminLogin(c) BY <2>3, <2>9 DEF NoteAdminLogin
    <2>10. CASE Me(c) BY <2>3, <2>10 DEF Me
    <2>11. CASE UpdateDisplayName(c) BY <2>3, <2>11 DEF UpdateDisplayName
    <2>12. CASE Summary(c) BY <2>3, <2>12 DEF Summary
    <2>13. CASE Progression(c) BY <2>3, <2>13 DEF Progression
    <2>14. QED
        BY <1>6, <2>1, <2>2, <2>4, <2>5, <2>6, <2>7, <2>8, <2>9, <2>10, <2>11, <2>12, <2>13
        DEF InAccounts, AccountStep
<1>7. QED BY <1>2, <1>3, <1>4, <1>5, <1>6, EntryCases

\* An alarm is raised by the failure that fills a window of a key, and no burst of
\* failures is silent, whoever logs in at the same time (FailureTracker).
THEOREM AlarmsAreExact == Spec => []AlarmExact
<1>1. Init => AlarmInv BY AlarmInit
<1>2. CallsOK /\ EntryInv /\ LimiterInv /\ AlarmInv /\ [Next]_vars => AlarmInv' BY AlarmStep
<1>3. AlarmInv => AlarmExact
    <2>1. SUFFICES ASSUME AlarmInv, NEW k \in FailureKeys, NEW i \in DOMAIN trail[k],
                          trail[k][i].kind = "wrong"
                   PROVE  /\ trail[k][i].call \in alarmed =>
                                Cardinality(RunOfFails(k, i)) = Threshold
                          /\ Cardinality(RunOfFails(k, i)) >= Threshold =>
                                \E j \in 1..i : /\ trail[k][j].call \in alarmed
                                                /\ \A h \in j..i : trail[k][h].kind = "wrong"
        BY DEF AlarmExact
    <2>2. Exact(trail[k], alarmed) /\ trail[k] \in Seq(Decision) BY <2>1 DEF AlarmInv, Orderly
    <2>3. i \in 1..Len(trail[k]) BY <2>1, <2>2
    <2>4. RunOfFails(k, i) = RunOf(trail[k], i) BY DEF RunOfFails, RunOf
    <2>5. QED BY <2>1, <2>2, <2>3, <2>4 DEF Exact
<1>4. QED BY <1>1, <1>2, <1>3, CallsAlways, EntryAlways, LimiterAlways, PTL DEF Spec

-----------------------------------------------------------------------------
(* Sorting. *)

\* The rows can be compared: their keys are numbers, equally many for each row.
Comparable(key) == \E n \in {1, 2, 4} : key \in [DOMAIN key -> [1..n -> Int]]

\* One key is the smaller one.
LEMMA BeforeTotal ==
    ASSUME NEW n \in {1, 2, 4}, NEW a \in [1..n -> Int], NEW b \in [1..n -> Int], a # b
    PROVE  Before(a, b) \/ Before(b, a)
<1>1. CASE n = 1
    <2>1. a[1] # b[1] BY <1>1
    <2>2. \A j \in 1..(1 - 1) : FALSE OBVIOUS
    <2>3. QED BY <1>1, <2>1, <2>2 DEF Before
<1>2. ASSUME NEW i \in 1..n, a[i] # b[i], \A j \in 1..(i - 1) : a[j] = b[j]
      PROVE  Before(a, b) \/ Before(b, a)
    <2>1. a[i] \in Int /\ b[i] \in Int /\ DOMAIN a = 1..n /\ DOMAIN b = 1..n OBVIOUS
    <2>2. CASE a[i] < b[i] BY <1>2, <2>1, <2>2 DEF Before
    <2>3. CASE b[i] < a[i] BY <1>2, <2>1, <2>3 DEF Before
    <2>4. QED BY <1>2, <2>1, <2>2, <2>3
<1>3. \A j \in 1..(1 - 1) : FALSE OBVIOUS
<1>4. CASE n = 2 BY <1>2, <1>3, <1>4
<1>5. CASE n = 4
    <2>1. \A j \in 1..(2 - 1) : j = 1 OBVIOUS
    <2>2. \A j \in 1..(3 - 1) : j = 1 \/ j = 2 OBVIOUS
    <2>3. \A j \in 1..(4 - 1) : j = 1 \/ j = 2 \/ j = 3 OBVIOUS
    <2>4. \A j \in 1..4 : j = 1 \/ j = 2 \/ j = 3 \/ j = 4 OBVIOUS
    <2>5. 1 \in 1..n /\ 2 \in 1..n /\ 3 \in 1..n /\ 4 \in 1..n BY <1>5
    <2>6. \E i \in 1..4 : a[i] # b[i] BY <1>5
    <2>7. CASE a[1] # b[1] BY <1>2, <1>3, <2>5, <2>7
    <2>8. CASE a[1] = b[1] /\ a[2] # b[2] BY <1>2, <2>1, <2>5, <2>8
    <2>9. CASE a[1] = b[1] /\ a[2] = b[2] /\ a[3] # b[3] BY <1>2, <2>2, <2>5, <2>9
    <2>10. CASE a[1] = b[1] /\ a[2] = b[2] /\ a[3] = b[3] /\ a[4] # b[4]
        BY <1>2, <2>3, <2>5, <2>10
    <2>11. a[1] # b[1] \/ a[2] # b[2] \/ a[3] # b[3] \/ a[4] # b[4] BY <2>4, <2>6
    <2>12. QED BY <2>7, <2>8, <2>9, <2>10, <2>11
<1>6. QED BY <1>1, <1>4, <1>5

\* A sort has every row once.
LEMMA SortedBijective ==
    ASSUME NEW key, IsFiniteSet(DOMAIN key), NEW s \in Sorted(key)
    PROVE  /\ Cardinality(DOMAIN key) \in Nat
           /\ s \in [1..Cardinality(DOMAIN key) -> DOMAIN key]
           /\ \A i, j \in 1..Cardinality(DOMAIN key) :
                 i < j => s[i] # s[j] /\ ~Before(key[s[j]], key[s[i]])
           /\ \A x \in DOMAIN key : \E i \in 1..Cardinality(DOMAIN key) : s[i] = x
<1> DEFINE n == Cardinality(DOMAIN key)
<1>1. n \in Nat BY FS_CardinalityType
<1>2. s \in [1..n -> DOMAIN key] /\ DOMAIN s = 1..n BY DEF Sorted
<1>3. \A i, j \in 1..n : i < j => s[i] # s[j] /\ ~Before(key[s[j]], key[s[i]])
    BY <1>2 DEF Sorted
<1>4. \A i, j \in 1..n : s[i] = s[j] => i = j
    <2> SUFFICES ASSUME NEW i \in 1..n, NEW j \in 1..n, s[i] = s[j], i # j PROVE FALSE
        OBVIOUS
    <2>1. i < j \/ j < i BY <1>1
    <2>2. QED BY <1>3, <2>1
<1>5. s \in Injection(1..n, DOMAIN key) BY <1>2, <1>4 DEF Injection, IsInjective
<1>6. IsFiniteSet(1..n) /\ Cardinality(1..n) = n BY <1>1, FS_Interval
<1>7. s \in Surjection(1..n, DOMAIN key) BY <1>5, <1>6, FS_Injection
<1>8. \A x \in DOMAIN key : \E i \in 1..n : s[i] = x BY <1>7 DEF Surjection
<1>9. QED BY <1>1, <1>2, <1>3, <1>8

\* Where the keys tell the rows apart, the place of a row is the number of rows
\* before it.
LEMMA PlaceOfRow ==
    ASSUME NEW key, IsFiniteSet(DOMAIN key), Comparable(key), Unambiguous(key),
           NEW s \in Sorted(key), NEW i \in 1..Cardinality(DOMAIN key)
    PROVE  i = Cardinality({y \in DOMAIN key : Before(key[y], key[s[i]])}) + 1
<1> DEFINE n == Cardinality(DOMAIN key)
           Earlier == {y \in DOMAIN key : Before(key[y], key[s[i]])}
           head == [j \in 1..(i - 1) |-> s[j]]
<1>1. /\ n \in Nat /\ s \in [1..n -> DOMAIN key]
      /\ \A j, k \in 1..n : j < k => s[j] # s[k] /\ ~Before(key[s[k]], key[s[j]])
      /\ \A x \in DOMAIN key : \E j \in 1..n : s[j] = x
    BY SortedBijective
<1>2. i \in Int /\ 1 <= i /\ i <= n /\ s[i] \in DOMAIN key BY <1>1
<1>3. \A j \in 1..(i - 1) : j \in 1..n /\ j < i BY <1>1, <1>2
<1>4. \A j \in 1..(i - 1) : s[j] \in Earlier
    <2> SUFFICES ASSUME NEW j \in 1..(i - 1) PROVE Before(key[s[j]], key[s[i]])
        BY <1>1, <1>3
    <2>1. s[j] \in DOMAIN key /\ s[j] # s[i] /\ ~Before(key[s[i]], key[s[j]])
        BY <1>1, <1>2, <1>3
    <2>2. key[s[j]] # key[s[i]] BY <1>2, <2>1 DEF Unambiguous
    <2>3. PICK m \in {1, 2, 4} : key \in [DOMAIN key -> [1..m -> Int]] BY DEF Comparable
    <2>4. key[s[j]] \in [1..m -> Int] /\ key[s[i]] \in [1..m -> Int] BY <1>2, <2>1, <2>3
    <2>5. QED BY <2>1, <2>2, <2>4, BeforeTotal
<1>5. \A y \in Earlier : \E j \in 1..(i - 1) : s[j] = y
    <2> SUFFICES ASSUME NEW y \in Earlier PROVE \E j \in 1..(i - 1) : s[j] = y
        OBVIOUS
    <2>1. PICK j \in 1..n : s[j] = y BY <1>1
    <2>2. ~(i < j) BY <1>1, <1>2, <2>1
    <2>3. j # i
        <3>1. SUFFICES ASSUME Before(key[s[i]], key[s[i]]) PROVE FALSE BY <2>1
        <3>2. PICK k \in DOMAIN key[s[i]] : key[s[i]][k] < key[s[i]][k] BY <3>1 DEF Before
        <3>3. PICK m \in {1, 2, 4} : key \in [DOMAIN key -> [1..m -> Int]] BY DEF Comparable
        <3>4. key[s[i]] \in [1..m -> Int] BY <1>2, <3>3
        <3>5. key[s[i]][k] \in Int BY <3>4
        <3>6. QED BY <3>2, <3>5
    <2>4. j \in 1..(i - 1) BY <1>2, <2>2, <2>3
    <2>5. QED BY <2>1, <2>4
<1>6. head \in [1..(i - 1) -> Earlier] BY <1>4
<1>7. head \in Surjection(1..(i - 1), Earlier) BY <1>5, <1>6 DEF Surjection
<1>8. \A j, k \in 1..(i - 1) : head[j] = head[k] => j = k
    <2> SUFFICES ASSUME NEW j \in 1..(i - 1), NEW k \in 1..(i - 1), s[j] = s[k], j # k
                 PROVE  FALSE
        OBVIOUS
    <2>1. j < k \/ k < j OBVIOUS
    <2>2. QED BY <1>1, <1>3, <2>1
<1>9. head \in Injection(1..(i - 1), Earlier) BY <1>6, <1>8 DEF Injection, IsInjective
<1>10. IsFiniteSet(Earlier) BY FS_Subset
<1>11. Cardinality(1..(i - 1)) = i - 1 BY <1>2, FS_Interval
<1>12. Cardinality(Earlier) = i - 1 BY <1>7, <1>9, <1>10, <1>11, FS_Injection
<1>13. QED BY <1>2, <1>12

\* So all sorts are the same, and the same row is at the same place.
LEMMA SamePlace ==
    ASSUME NEW key, IsFiniteSet(DOMAIN key), Comparable(key), Unambiguous(key),
           NEW s \in Sorted(key), NEW t \in Sorted(key),
           NEW i \in 1..Cardinality(DOMAIN key), NEW j \in 1..Cardinality(DOMAIN key)
    PROVE  s[i] = t[j] <=> i = j
<1> DEFINE place(x) == Cardinality({y \in DOMAIN key : Before(key[y], key[x])}) + 1
<1>1. i = place(s[i]) BY PlaceOfRow
<1>2. \A k \in 1..Cardinality(DOMAIN key) : k = place(t[k]) BY PlaceOfRow
<1>3. s[i] \in DOMAIN key BY SortedBijective
<1>4. PICK k \in 1..Cardinality(DOMAIN key) : t[k] = s[i] BY <1>3, SortedBijective
<1>5. k = i BY <1>1, <1>2, <1>4
<1> HIDE DEF place
<1>6. QED BY <1>1, <1>2, <1>4, <1>5

\* A page is a piece of a sort.
LEMMA PageIsPiece ==
    ASSUME NEW key, IsFiniteSet(DOMAIN key), NEW limit \in Int, NEW start \in Nat,
           NEW p \in Pages(key, limit, start)
    PROVE  \E s \in Sorted(key) : \A i \in DOMAIN p :
               i \in Int /\ start + i \in 1..Cardinality(DOMAIN key) /\ p[i] = s[start + i]
<1> DEFINE n == Cardinality(DOMAIN key)
<1>1. PICK s \in Sorted(key) : p = SubSeq(s, start + 1, Least(start + limit, Len(s)))
    BY DEF Pages
<1>2. n \in Nat /\ s \in [1..n -> DOMAIN key] BY SortedBijective
<1>3. s \in Seq(DOMAIN key) /\ Len(s) = n BY <1>2
<1> DEFINE last == Least(start + limit, n)
<1>4. last \in Int /\ last <= n BY <1>2 DEF Least
<1>5. CASE start + 1 > last
    <2>1. p = <<>> BY <1>1, <1>2, <1>3, <1>4, <1>5, SubSeqEmpty
    <2>2. QED BY <2>1
<1>6. CASE start + 1 <= last
    <2>1. start + 1 \in 1..Len(s) + 1 /\ last \in start + 1 - 1..Len(s) BY <1>2, <1>3, <1>4, <1>6
    <2>2. /\ p \in Seq(DOMAIN key) /\ Len(p) = last - start
          /\ \A i \in 1..last - (start + 1) + 1 : p[i] = s[start + 1 + i - 1]
        BY <1>1, <1>3, <1>4, <1>6, <2>1, SubSeqProperties
    <2>3. DOMAIN p = 1..(last - start) BY <2>2
    <2>4. ASSUME NEW i \in DOMAIN p
          PROVE  i \in Int /\ start + i \in 1..n /\ p[i] = s[start + i]
        <3>1. i \in Int /\ 1 <= i /\ i <= last - start BY <1>4, <2>3
        <3>2. start + i \in 1..n BY <1>2, <1>4, <3>1
        <3>3. i \in 1..last - (start + 1) + 1 /\ start + 1 + i - 1 = start + i BY <1>4, <3>1
        <3>4. QED BY <2>2, <3>1, <3>2, <3>3
    <2>5. QED BY <2>4
<1>7. QED BY <1>4, <1>5, <1>6

-----------------------------------------------------------------------------
(* Where the calls are that list rows, or write tasks. *)

ListOps == {"listTasks", "listUsers", "listItems", "listLogs"}
Lanes ==
    [createTask |-> {"createTask", "t_category", "t_insert"},
     patchTask |-> {"patchTask", "t_update"}, listTasks |-> {"listTasks", "t_page"},
     listUsers |-> {"listUsers", "count"}, listItems |-> {"listItems", "count"},
     listLogs |-> {"listLogs", "count"}]
LanePlaces == {"createTask", "t_category", "t_insert", "patchTask", "t_update", "listTasks",
               "t_page", "listUsers", "listItems", "listLogs", "count"}

\* Such a call stays among the statements of its operation until it is over, and
\* nobody else gets to them.
LaneInv ==
    \A c \in Calls :
        \/ pc[c] \in LanePlaces
        \/ pc[c] \notin {"idle", "done", "malformed"} /\ req[c].op \in DOMAIN Lanes
        => req[c].op \in DOMAIN Lanes /\ pc[c] \in Lanes[req[c].op]

LEMMA LaneNames ==
    /\ DOMAIN Lanes = ListOps \cup {"createTask", "patchTask"}
    /\ Lanes["createTask"] = {"createTask", "t_category", "t_insert"}
    /\ Lanes["patchTask"] = {"patchTask", "t_update"}
    /\ Lanes["listTasks"] = {"listTasks", "t_page"}
    /\ Lanes["listUsers"] = {"listUsers", "count"}
    /\ Lanes["listItems"] = {"listItems", "count"}
    /\ Lanes["listLogs"] = {"listLogs", "count"}
    /\ \A op \in DOMAIN Lanes : op \in Lanes[op] /\ Lanes[op] \subseteq LanePlaces
BY DEF Lanes, ListOps, LanePlaces

\* The services that neither list rows nor write tasks.
LEMMA OffLane ==
    ASSUME NEW c \in Calls,
           SettingsStep(c) \/ AccountStep(c) \/ VisualStep(c) \/ CatalogStep(c)
    PROVE  pc[c] \notin LanePlaces \cup {"malformed"}
<1> USE DEF LanePlaces
<1>1. CASE SettingsStep(c)
    BY <1>1 DEF SettingsStep, GetSettings, ReadSettings, PatchSettings, LockSettings,
                ReadAndApply, SaveSettings
<1>2. CASE VisualStep(c)
    BY <1>2 DEF VisualStep, GetVisual, RefreshVisual, ReadFlag, LoadVisual, UpsertSlot,
                DeadlockVictim, CommitVisual
<1>3. CASE AccountStep(c)
    <2>1. CASE Register(c) BY <2>1 DEF Register
    <2>2. CASE CommitUser(c) BY <2>2 DEF CommitUser
    <2>3. CASE NoteRegistration(c) BY <2>3 DEF NoteRegistration
    <2>4. CASE IssuePair(c) BY <2>4 DEF IssuePair
    <2>5. CASE Login(c) BY <2>5 DEF Login
    <2>6. CASE RecordFailedLogin(c) BY <2>6 DEF RecordFailedLogin
    <2>7. CASE LoginSucceeded(c) BY <2>7 DEF LoginSucceeded
    <2>8. CASE NoteAdminLogin(c) BY <2>8 DEF NoteAdminLogin
    <2>9. CASE Me(c) BY <2>9 DEF Me
    <2>10. CASE UpdateDisplayName(c) BY <2>10 DEF UpdateDisplayName
    <2>11. CASE Summary(c) BY <2>11 DEF Summary
    <2>12. CASE Progression(c) BY <2>12 DEF Progression
    <2>13. QED BY <1>3, <2>1, <2>2, <2>3, <2>4, <2>5, <2>6, <2>7, <2>8, <2>9, <2>10,
                  <2>11, <2>12 DEF AccountStep
<1>4. CASE CatalogStep(c)
    <2>1. CASE CreateItem(c) BY <2>1 DEF CreateItem
    <2>2. CASE UpdateItem(c) BY <2>2 DEF UpdateItem
    <2>3. CASE WriteName(c) BY <2>3 DEF WriteName
    <2>4. CASE NameDeadlock(c) BY <2>4 DEF NameDeadlock
    <2>5. CASE DisableItem(c) BY <2>5 DEF DisableItem
    <2>6. CASE CommitItem(c) BY <2>6 DEF CommitItem
    <2>7. CASE GetItem(c) BY <2>7 DEF GetItem
    <2>8. CASE UploadAsset(c) BY <2>8 DEF UploadAsset
    <2>9. CASE CreateFile(c) BY <2>9 DEF CreateFile
    <2>10. CASE WriteFile(c) BY <2>10 DEF WriteFile
    <2>11. CASE SetItemAsset(c) BY <2>11 DEF SetItemAsset
    <2>12. QED BY <1>4, <2>1, <2>2, <2>3, <2>4, <2>5, <2>6, <2>7, <2>8, <2>9, <2>10,
                  <2>11 DEF CatalogStep
<1>5. QED BY <1>1, <1>2, <1>3, <1>4

\* From where to where the others go.
Turns == {<<"createTask", "t_category">>, <<"t_category", "t_insert">>,
          <<"patchTask", "t_update">>, <<"getCategories", "t_categories">>,
          <<"listTasks", "t_page">>, <<"listUsers", "count">>, <<"listItems", "count">>,
          <<"listLogs", "count">>}
Turn(c) ==
    \/ \E status : pc' = [pc EXCEPT ![c] = "done"] /\ ans' = [ans EXCEPT ![c] = status]
    \/ \E l : <<pc[c], l>> \in Turns /\ pc' = [pc EXCEPT ![c] = l] /\ ans' = ans
    \/ pc[c] = "stats" /\ UNCHANGED <<pc, ans>>

LEMMA OnLane ==
    ASSUME NEW c \in Calls, BoardStep(c) \/ AdminReadStep(c)
    PROVE  Turn(c) /\ UNCHANGED limiterVars /\ pc[c] \notin {"idle", "done", "malformed"}
<1> USE DEF Turn, Turns, Go, Answer, AnswerCommit
<1>1. CASE BoardStep(c)
    <2>1. CASE CreateTask(c) BY <2>1 DEF CreateTask
    <2>2. CASE ResolveCategory(c) BY <2>2 DEF ResolveCategory
    <2>3. CASE InsertTask(c) BY <2>3 DEF InsertTask
    <2>4. CASE PatchTask(c) BY <2>4 DEF PatchTask
    <2>5. CASE UpdateTask(c) BY <2>5 DEF UpdateTask
    <2>6. CASE ArchiveTask(c) BY <2>6 DEF ArchiveTask
    <2>7. CASE GetTask(c) BY <2>7 DEF GetTask
    <2>8. CASE GetCategories(c) BY <2>8 DEF GetCategories
    <2>9. CASE ReadCategories(c) BY <2>9 DEF ReadCategories
    <2>10. CASE CountTasks(c) BY <2>10 DEF CountTasks
    <2>11. CASE ListTasks(c) BY <2>11 DEF ListTasks
    <2>12. QED BY <1>1, <2>1, <2>2, <2>3, <2>4, <2>5, <2>6, <2>7, <2>8, <2>9, <2>10,
                  <2>11 DEF BoardStep
<1>2. CASE AdminReadStep(c)
    <2>1. CASE ListUsers(c) BY <2>1 DEF ListUsers, ReadList
    <2>2. CASE ListItems(c) BY <2>2 DEF ListItems, ReadList
    <2>3. CASE ListAuditLogs(c) BY <2>3 DEF ListAuditLogs, ReadList
    <2>4. CASE CountListed(c) BY <2>4 DEF CountListed
    <2>5. CASE Stats(c) BY <2>5 DEF Stats
    <2>6. QED BY <1>2, <2>1, <2>2, <2>3, <2>4, <2>5 DEF AdminReadStep
<1>3. QED BY <1>1, <1>2

LEMMA LaneInit == ASSUME Init PROVE LaneInv
BY DEF Init, RequestsInit, LaneInv, LanePlaces

\* A call goes on off the lanes, or along its own.
LEMMA LaneGoesOn ==
    ASSUME LaneInv, NEW c \in Calls, NEW l, DOMAIN pc = Calls,
           pc' = [pc EXCEPT ![c] = l], req' = req, pc[c] \notin {"idle", "done", "malformed"},
           \/ l = "done"
           \/ pc[c] \notin LanePlaces /\ l \notin LanePlaces
           \/ <<pc[c], l>> \in Turns
    PROVE  LaneInv'
<1>1. ASSUME NEW d \in Calls, d # c PROVE pc'[d] = pc[d] BY <1>1
<1>2. pc'[c] = l OBVIOUS
<1>3. req[c].op \in DOMAIN Lanes => pc[c] \in LanePlaces BY LaneNames DEF LaneInv
<1>4. CASE l = "done" BY <1>1, <1>2, <1>4 DEF LaneInv, LanePlaces
<1>5. CASE pc[c] \notin LanePlaces /\ l \notin LanePlaces
    BY <1>1, <1>2, <1>3, <1>5 DEF LaneInv
<1>6. CASE pc[c] \in LanePlaces /\ <<pc[c], l>> \in Turns
    <2>1. req[c].op \in DOMAIN Lanes /\ pc[c] \in Lanes[req[c].op] BY <1>6 DEF LaneInv
    <2>2. l \in Lanes[req[c].op] BY <1>6, <2>1, LaneNames DEF Turns, ListOps
    <2>3. QED BY <1>1, <1>2, <2>1, <2>2 DEF LaneInv
<1>7. CASE pc[c] \notin LanePlaces /\ <<pc[c], l>> \in Turns
    <2>1. l = "t_categories" BY <1>7 DEF Turns, LanePlaces
    <2>2. QED BY <1>5, <1>7, <2>1 DEF LanePlaces
<1>8. QED BY <1>4, <1>5, <1>6, <1>7

LEMMA LaneOthers ==
    ASSUME CallsOK, LaneInv, NEW c \in Calls, NEW labels, Moves(c, labels),
           pc[c] \notin LanePlaces \cup {"malformed"}, labels \cap LanePlaces = {}
    PROVE  LaneInv'
<1>1. req' = req /\ pc[c] \notin {"idle", "done", "malformed"} BY DEF Moves
<1>2. CASE pc' = pc BY <1>1, <1>2 DEF LaneInv
<1>3. ASSUME NEW l \in labels \cup {"done"}, pc' = [pc EXCEPT ![c] = l] PROVE LaneInv'
    BY <1>1, <1>3, LaneGoesOn DEF CallsOK
<1>4. QED BY <1>2, <1>3 DEF Moves

LEMMA LaneStep == ASSUME CallsOK, LaneInv, [Next]_vars PROVE LaneInv'
<1> USE DEF SettingsLabels, AccountLabels, VisualLabels, CatalogLabels
<1>1. CASE UNCHANGED vars \/ Idles
    BY <1>1 DEF vars, requestVars, Idles, Tick, LaneInv
<1>2. ASSUME NEW c \in Calls, Receives(c) PROVE LaneInv'
    <2>1. Arrives(c) BY <1>2, ReceiveArrives DEF Receives
    <2>2. PICK r \in mix.requests :
             /\ req' = [req EXCEPT ![c] = r]
             /\ \E l \in {"done", "malformed", r.op} : pc' = [pc EXCEPT ![c] = l]
        BY <2>1 DEF Arrives
    <2>3. r.op \in Operations BY <2>2, WorkloadAssumption DEF CallsOK, mix
    <2>4. \A d \in Calls : d # c => pc'[d] = pc[d] /\ req'[d] = req[d]
        BY <2>2 DEF CallsOK
    <2>5. req'[c] = r /\ pc'[c] \in {"done", "malformed", r.op} BY <2>2 DEF CallsOK
    <2>6. r.op \in LanePlaces => r.op \in DOMAIN Lanes
        BY <2>3, LaneNames DEF LanePlaces, ListOps, Operations
    <2>7. QED BY <2>4, <2>5, <2>6, LaneNames DEF LaneInv, LanePlaces
<1>3. ASSUME NEW c \in Calls, Ends(c) PROVE LaneInv'
    <2>1. req' = req /\ pc' = [pc EXCEPT ![c] = "done"]
        BY <1>3 DEF Ends, Refuse, Fail, Answer, limiterVars
    <2>2. QED BY <2>1 DEF LaneInv, CallsOK, LanePlaces
<1>4. ASSUME NEW c \in Calls, InSettings(c) PROVE LaneInv'
    BY <1>4, OffLane, SettingsMoves, LaneOthers DEF InSettings, LanePlaces
<1>5. ASSUME NEW c \in Calls, InAccounts(c) PROVE LaneInv'
    BY <1>5, OffLane, AccountMoves, LaneOthers DEF InAccounts, LanePlaces
<1>6. ASSUME NEW c \in Calls, InVisual(c) PROVE LaneInv'
    BY <1>6, OffLane, VisualMoves, LaneOthers DEF InVisual, LanePlaces
<1>7. ASSUME NEW c \in Calls, InCatalog(c) PROVE LaneInv'
    BY <1>7, OffLane, CatalogMoves, LaneOthers DEF InCatalog, LanePlaces
<1>8. ASSUME NEW c \in Calls, InBoard(c) \/ InReads(c) PROVE LaneInv'
    <2>1. Turn(c) /\ req' = req /\ pc[c] \notin {"idle", "done", "malformed"}
        BY <1>8, OnLane DEF InBoard, InReads, limiterVars
    <2>2. DOMAIN pc = Calls BY DEF CallsOK
    <2>3. CASE pc' = pc BY <2>1, <2>3 DEF LaneInv
    <2>4. QED BY <2>1, <2>2, <2>3, LaneGoesOn DEF Turn
<1>9. QED BY <1>1, <1>2, <1>3, <1>4, <1>5, <1>6, <1>7, <1>8, NextCases

LEMMA LaneAlways == Spec => []LaneInv
<1>1. Init => LaneInv BY LaneInit
<1>2. CallsOK /\ LaneInv /\ [Next]_vars => LaneInv' BY LaneStep
<1>3. QED BY <1>1, <1>2, CallsAlways, PTL DEF Spec

-----------------------------------------------------------------------------
(* The rows that are sorted. *)

\* Every row has the numbers it is sorted by; a call that is about to write an item
\* has been validated.
SortInv ==
    /\ DOMAIN account = Users
    /\ \A u \in Users : account[u] # None => {account[u].email, account[u].created} \subseteq Int
    /\ IsFiniteSet(DOMAIN items) /\ \A i \in DOMAIN items : ItemSorts(items[i])
    /\ IsFiniteSet(DOMAIN task) /\ \A t \in DOMAIN task : TaskSorts(task[t])
    /\ \A c \in Calls : pc[c] \in {"i_name", "i_commit"} =>
          /\ req[c].op = "createItem" => validItemInput(req[c].fields)
          /\ req[c].op = "updateItem" => validItemPatch(req[c].fields)

LEMMA SortInit == ASSUME Init PROVE SortInv
<1>1. /\ load \in DOMAIN Mixes /\ \A c \in Calls : pc[c] = "idle"
      /\ items = Mixes[load].items /\ task = Mixes[load].tasks
      /\ account = [u \in Users |-> IF u \in DOMAIN Mixes[load].known
                                    THEN SeededRow(Mixes[load].known[u], u) ELSE None]
    BY DEF Init, RequestsInit, CatalogInit, BoardInit, AccountsInit, mix, SeededUser
<1>2. ASSUME NEW u \in Users, account[u] # None
      PROVE  {account[u].email, account[u].created} \subseteq Int
    <2>1. u \in DOMAIN Mixes[load].known /\ account[u] = SeededRow(Mixes[load].known[u], u)
        BY <1>1, <1>2
    <2>2. \E e \in Emails : Mailbox[e] = u BY <1>1, <2>1, SortAssumption
    <2>3. (CHOOSE e \in Emails : Mailbox[e] = u) \in Int BY <2>2, SortAssumption
    <2>4. QED BY <2>1, <2>3 DEF SeededRow
<1>3. QED BY <1>1, <1>2, SortAssumption DEF SortInv

\* The rows stay, and no call begins to write an item.
LEMMA SortCalm ==
    ASSUME SortInv, UNCHANGED <<account, items, task>>, Aloof({"i_name", "i_commit"})
    PROVE  SortInv'
BY DEF SortInv, Aloof

LEMMA SortInAccounts ==
    ASSUME CallsOK, EntryInv, LimiterInv, SortInv, NEW c \in Calls, InAccounts(c)
    PROVE  SortInv'
<1>1. Moves(c, AccountLabels) BY AccountMoves DEF InAccounts
<1>2. Aloof({"i_name", "i_commit"}) BY <1>1, MovesAloof DEF AccountLabels
<1>3. UNCHANGED <<items, task>> BY DEF InAccounts, catalogVars, boardVars
<1>4. ASSUME account' = account PROVE SortInv' BY <1>2, <1>3, <1>4, SortCalm
<1>5. CASE CommitUser(c)
    <2>1. account' = [account EXCEPT ![Named(c)] = NewUser(c)] /\ pc[c] = "r_commit"
        BY <1>5 DEF CommitUser
    <2>2. NewUser(c).email = req[c].email /\ NewUser(c).created = now BY DEF NewUser
    <2>3. req[c].email \in Int
        <3>1. req[c].op = "register" BY <2>1 DEF EntryInv, RegisterPlaces
        <3>2. load \in DOMAIN Mixes /\ req[c] \in Mixes[load].requests
            BY <2>1 DEF CallsOK, mix
        <3>3. QED BY <3>1, <3>2, WorkloadAssumption, SortAssumption
    <2>4. /\ DOMAIN account' = Users
          /\ \A u \in Users : account'[u] # None =>
                {account'[u].email, account'[u].created} \subseteq Int
        BY <2>1, <2>2, <2>3 DEF SortInv, LimiterInv
    <2>5. UNCHANGED <<items, task>> /\ Aloof({"i_name", "i_commit"}) BY <1>2, <1>3
    <2>6. QED BY <2>4, <2>5 DEF SortInv, Aloof
<1>6. account' = account \/ CommitUser(c)
    <2> USE DEF accountVars, rowVars
    <2>1. CASE Register(c) BY <2>1 DEF Register
    <2>2. CASE NoteRegistration(c) BY <2>2 DEF NoteRegistration
    <2>3. CASE IssuePair(c) BY <2>3 DEF IssuePair
    <2>4. CASE Login(c) BY <2>4 DEF Login
    <2>5. CASE RecordFailedLogin(c) BY <2>5 DEF RecordFailedLogin
    <2>6. CASE LoginSucceeded(c) BY <2>6 DEF LoginSucceeded
    <2>7. CASE NoteAdminLogin(c) BY <2>7 DEF NoteAdminLogin
    <2>8. CASE Me(c) BY <2>8 DEF Me
    <2>9. CASE UpdateDisplayName(c) BY <2>9 DEF UpdateDisplayName
    <2>10. CASE Summary(c) BY <2>10 DEF Summary
    <2>11. CASE Progression(c) BY <2>11 DEF Progression
    <2>12. QED BY <2>1, <2>2, <2>3, <2>4, <2>5, <2>6, <2>7, <2>8, <2>9, <2>10, <2>11
           DEF InAccounts, AccountStep
<1>7. QED BY <1>4, <1>5, <1>6

\* The tasks that a step leaves have been created by it, patched or archived.
LEMMA TasksChange ==
    ASSUME NEW c \in Calls, BoardStep(c)
    PROVE  task' = task \/ InsertTask(c) \/ UpdateTask(c) \/ ArchiveTask(c)
<1>1. CASE CreateTask(c) BY <1>1 DEF CreateTask
<1>2. CASE ResolveCategory(c) BY <1>2 DEF ResolveCategory, boardVars
<1>3. CASE PatchTask(c) BY <1>3 DEF PatchTask, boardVars
<1>4. CASE GetTask(c) BY <1>4 DEF GetTask, boardVars
<1>5. CASE GetCategories(c) BY <1>5 DEF GetCategories
<1>6. CASE ReadCategories(c) BY <1>6 DEF ReadCategories, boardVars
<1>7. CASE CountTasks(c) BY <1>7 DEF CountTasks
<1>8. CASE ListTasks(c) BY <1>8 DEF ListTasks
<1>9. QED BY <1>1, <1>2, <1>3, <1>4, <1>5, <1>6, <1>7, <1>8 DEF BoardStep

LEMMA SortInBoard ==
    ASSUME CallsOK, LaneInv, LimiterInv, SortInv, NEW c \in Calls, InBoard(c)
    PROVE  SortInv'
<1>1. Aloof({"i_name", "i_commit"}) BY BoardMoves, MovesAloof DEF InBoard, BoardLabels
<1>2. UNCHANGED <<account, items>> BY DEF InBoard, catalogVars, accountVars, rowVars
<1>3. SUFFICES IsFiniteSet(DOMAIN task') /\ \A t \in DOMAIN task' : TaskSorts(task'[t])
    BY <1>1, <1>2 DEF SortInv, Aloof
<1>4. IsFiniteSet(DOMAIN task) /\ \A t \in DOMAIN task : TaskSorts(task[t]) BY DEF SortInv
<1>5. load \in DOMAIN Mixes /\ (pc[c] # "idle" => req[c] \in Mixes[load].requests)
    BY DEF CallsOK, mix
<1>6. CASE InsertTask(c)
    <2> DEFINE new == [owner |-> User(c), status |-> "active", category |-> CategoryOf(c),
                       priority |-> normalizePriority(req[c].priority),
                       complexity |-> normalizeComplexity(req[c].complexity),
                       deadline |-> req[c].deadline, created |-> now]
    <2>1. pc[c] = "t_insert" /\ task' = Put(task, c, new) BY <1>6 DEF InsertTask
    <2>2. req[c].op = "createTask"
        BY <2>1, LaneNames DEF LaneInv, LanePlaces, ListOps
    <2>3. req[c].deadline \in Int \cup {None} BY <1>5, <2>1, <2>2, SortAssumption
    <2>4. TaskSorts(new) BY <2>3 DEF TaskSorts, LimiterInv
    <2> HIDE DEF new
    <2>5. /\ DOMAIN task' = DOMAIN task \cup {c}
          /\ \A t \in DOMAIN task' : task'[t] = IF t = c THEN new ELSE task[t]
        BY <2>1 DEF Put
    <2>6. IsFiniteSet(DOMAIN task') BY <1>4, <2>5, FS_AddElement
    <2>7. QED BY <1>4, <2>4, <2>5, <2>6
<1>7. CASE UpdateTask(c) /\ task' # task
    <2> DEFINE t == req[c].task
               given == req[c].fields
               new == [f \in DOMAIN task[t] |-> IF f \in DOMAIN given THEN given[f] ELSE task[t][f]]
    <2>1. pc[c] = "t_update" /\ t \in DOMAIN task /\ task' = [task EXCEPT ![t] = new]
        BY <1>7 DEF UpdateTask, Mine
    <2>2. req[c].op = "patchTask" BY <2>1, LaneNames DEF LaneInv, LanePlaces, ListOps
    <2>3. /\ "created" \notin DOMAIN given
          /\ "deadline" \in DOMAIN given => given.deadline \in Int \cup {None}
        BY <1>5, <2>1, <2>2, SortAssumption
    <2>4. TaskSorts(task[t]) BY <1>4, <2>1
    <2>5. TaskSorts(new) BY <2>3, <2>4 DEF TaskSorts
    <2> HIDE DEF new, t
    <2>6. /\ DOMAIN task' = DOMAIN task
          /\ \A u \in DOMAIN task : task'[u] = IF u = t THEN new ELSE task[u]
        BY <2>1
    <2>7. QED BY <1>4, <2>5, <2>6
<1>8. CASE ArchiveTask(c) /\ task' # task
    <2> DEFINE t == req[c].task
    <2>1. t \in DOMAIN task /\ task' = [task EXCEPT ![t].status = "archived"]
        BY <1>8 DEF ArchiveTask, Mine
    <2> HIDE DEF t
    <2>2. /\ DOMAIN task' = DOMAIN task /\ \A u \in DOMAIN task : u # t => task'[u] = task[u]
          /\ task'[t] = [task[t] EXCEPT !.status = "archived"]
        BY <2>1
    <2>3. TaskSorts(task[t]) BY <1>4, <2>1
    <2>4. TaskSorts(task'[t]) BY <2>2, <2>3 DEF TaskSorts
    <2>5. QED BY <1>4, <2>2, <2>4
<1>9. QED BY <1>4, <1>6, <1>7, <1>8, TasksChange DEF InBoard

\* A call begins to write an item only if what it was given is valid.
LEMMA BeginsValid ==
    ASSUME CallsOK, NEW c \in Calls, CatalogStep(c), pc'[c] \in {"i_name", "i_commit"}
    PROVE  \/ pc[c] \in {"i_name", "i_commit"}
           \/ pc[c] = "createItem" /\ validItemInput(req[c].fields)
           \/ pc[c] = "updateItem" /\ validItemPatch(req[c].fields)
           \/ pc[c] \in {"disableItem", "a_update"}
<1> USE DEF CallsOK, Go, Answer, AnswerCommit
<1>1. CASE CreateItem(c) BY <1>1 DEF CreateItem, BeginItem
<1>2. CASE UpdateItem(c) BY <1>2 DEF UpdateItem, BeginItem
<1>3. CASE WriteName(c) BY <1>3 DEF WriteName
<1>4. CASE NameDeadlock(c) BY <1>4 DEF NameDeadlock
<1>5. CASE DisableItem(c) BY <1>5 DEF DisableItem
<1>6. CASE CommitItem(c) BY <1>6 DEF CommitItem
<1>7. CASE GetItem(c) BY <1>7 DEF GetItem
<1>8. CASE UploadAsset(c) BY <1>8 DEF UploadAsset
<1>9. CASE CreateFile(c) BY <1>9 DEF CreateFile
<1>10. CASE WriteFile(c) BY <1>10 DEF WriteFile
<1>11. CASE SetItemAsset(c) BY <1>11 DEF SetItemAsset
<1>12. QED BY <1>1, <1>2, <1>3, <1>4, <1>5, <1>6, <1>7, <1>8, <1>9, <1>10, <1>11
           DEF CatalogStep

\* A committed item has what it is sorted by.
LEMMA WrittenSorts ==
    ASSUME CallsOK, LimiterInv, AssetInv, PlaceInv, SortInv, NEW c \in Calls, CommitItem(c)
    PROVE  ItemSorts(Written(c))
<1> USE DEF ItemSorts
<1>1. pc[c] = "i_commit" BY DEF CommitItem
<1>2. /\ load \in DOMAIN Mixes /\ req[c] \in Mixes[load].requests /\ req[c] # None
      /\ req[c].op \in Changes
    BY <1>1, AbsenceAssumption DEF CallsOK, mix, PlaceInv, CatalogLabels
<1>3. at[c] \in Int BY <1>2 DEF LimiterInv
<1> DEFINE given == req[c].fields
<1>4. req[c].op \in {"createItem", "updateItem"} =>
          \A f \in {"name", "slot_key"} \cap DOMAIN given : given[f] \in Int \cup {None}
    BY <1>2, SortAssumption
<1>5. CASE req[c].op = "createItem"
    <2>1. /\ {"name", "slot_key", "rarity"} \subseteq DOMAIN given
          /\ given.rarity \in rarityAllowlist /\ given.name # None /\ given.slot_key # None
        BY <1>1, <1>5 DEF SortInv, validItemInput, Filled
    <2>2. given.name \in Int /\ given.slot_key \in Int BY <1>4, <1>5, <2>1
    <2>3. Written(c) = NewItem(c) BY <1>5 DEF Written
    <2>4. /\ {"name", "slot_key", "rarity", "created"} \subseteq DOMAIN NewItem(c)
          /\ NewItem(c).name = given.name /\ NewItem(c).slot_key = given.slot_key
          /\ NewItem(c).rarity = given.rarity /\ NewItem(c).created = at[c]
        BY DEF NewItem
    <2>5. QED BY <1>3, <2>1, <2>2, <2>3, <2>4
<1>6. CASE req[c].op # "createItem"
    <2> DEFINE i == Item(c)
               edits == IF req[c].op = "updateItem" THEN given ELSE <<>>
    <2>1. i = req[c].item /\ i \in DOMAIN items BY <1>1, <1>6 DEF Item, AssetInv
    <2>2. ItemSorts(items[i]) BY <2>1 DEF SortInv
    <2>3. Written(c) = [f \in DOMAIN items[i] |->
                 CASE f = "active" /\ req[c].op = "disableItem" -> FALSE
                   [] f = "asset" /\ req[c].op = "uploadAsset" -> c
                   [] f \in DOMAIN edits -> edits[f]
                   [] OTHER -> items[i][f]]
        BY <1>6 DEF Written
    <2>4. \A f \in {"name", "slot_key"} \cap DOMAIN edits : edits[f] \in Int
        <3>1. CASE req[c].op = "updateItem"
            <4>1. validItemPatch(given) BY <1>1, <3>1 DEF SortInv
            <4>2. QED BY <1>4, <3>1, <4>1 DEF validItemPatch, Filled
        <3>2. CASE req[c].op # "updateItem" BY <3>2
        <3>3. QED BY <3>1, <3>2
    <2>5. {"rarity", "created"} \cap DOMAIN edits = {}
        <3>1. CASE req[c].op = "updateItem" BY <1>2, <3>1, WorkloadAssumption
        <3>2. CASE req[c].op # "updateItem" BY <3>2
        <3>3. QED BY <3>1, <3>2
    <2> HIDE DEF i, edits
    <2>6. \A f \in {"name", "slot_key", "rarity", "created"} :
             /\ f \in DOMAIN Written(c)
             /\ Written(c)[f] = IF f \in DOMAIN edits THEN edits[f] ELSE items[i][f]
        BY <2>2, <2>3
    <2>7. QED BY <2>2, <2>4, <2>5, <2>6
<1>7. QED BY <1>5, <1>6

LEMMA SortInCatalog ==
    ASSUME CallsOK, LimiterInv, AssetInv, PlaceInv, SortInv, NEW c \in Calls, InCatalog(c)
    PROVE  SortInv'
<1>1. Moves(c, CatalogLabels) BY CatalogMoves DEF InCatalog
<1>2. /\ req' = req /\ UNCHANGED <<account, task>>
      /\ \A d \in Calls : d # c => pc'[d] = pc[d]
    BY <1>1 DEF Moves, CallsOK, InCatalog, accountVars, rowVars, boardVars
<1>3. ASSUME pc'[c] \in {"i_name", "i_commit"}
      PROVE  /\ req[c].op = "createItem" => validItemInput(req[c].fields)
             /\ req[c].op = "updateItem" => validItemPatch(req[c].fields)
    <2>1. CASE pc[c] \in {"i_name", "i_commit"} BY <2>1 DEF SortInv
    <2>2. CASE pc[c] = "createItem" /\ validItemInput(req[c].fields)
        BY <2>2 DEF CallsOK, Entries
    <2>3. CASE pc[c] = "updateItem" /\ validItemPatch(req[c].fields)
        BY <2>3 DEF CallsOK, Entries
    <2>4. CASE pc[c] \in {"disableItem", "a_update"}
        BY <2>4 DEF CallsOK, Entries, AssetInv, Uploads
    <2>5. QED BY <1>3, <2>1, <2>2, <2>3, <2>4, BeginsValid DEF InCatalog
<1>4. IsFiniteSet(DOMAIN items') /\ \A i \in DOMAIN items' : ItemSorts(items'[i])
    <2>1. CASE items' = items BY <2>1 DEF SortInv
    <2>2. CASE CommitItem(c)
        <3>1. ItemSorts(Written(c)) BY <2>2, WrittenSorts
        <3>2. /\ DOMAIN items' = DOMAIN items \cup {Item(c)}
              /\ \A i \in DOMAIN items' : items'[i] = IF i = Item(c) THEN Written(c) ELSE items[i]
            BY <2>2 DEF CommitItem
        <3>3. IsFiniteSet(DOMAIN items') BY <3>2, FS_AddElement DEF SortInv
        <3>4. QED BY <3>1, <3>2, <3>3 DEF SortInv
    <2>3. QED BY <2>1, <2>2, CatalogQuiet DEF InCatalog, Quiet, GetItem, catalogVars
<1>5. QED BY <1>2, <1>3, <1>4 DEF SortInv

LEMMA SortStep ==
    ASSUME CallsOK, EntryInv, LimiterInv, AssetInv, PlaceInv, LaneInv, SortInv, [Next]_vars
    PROVE  SortInv'
<1> USE DEF SettingsLabels, AccountLabels, VisualLabels, BoardLabels, catalogVars, boardVars,
            accountVars, rowVars
<1>1. CASE UNCHANGED vars \/ Idles
    BY <1>1 DEF vars, requestVars, Idles, Tick, serviceVars, SortInv
<1>2. ASSUME NEW c \in Calls, Receives(c) PROVE SortInv'
    <2>1. UNCHANGED <<account, items, task>> BY <1>2 DEF Receives, serviceVars
    <2>2. Aloof({"i_name", "i_commit"})
        BY <1>2, ReceiveArrives, ArrivalAloof DEF Receives, Operations
    <2>3. QED BY <2>1, <2>2, SortCalm
<1>3. ASSUME NEW c \in Calls, Ends(c) PROVE SortInv'
    <2>1. UNCHANGED <<account, items, task>> BY <1>3 DEF Ends, serviceVars
    <2>2. Aloof({"i_name", "i_commit"}) BY <1>3, EndMoves, MovesAloof DEF Ends
    <2>3. QED BY <2>1, <2>2, SortCalm
<1>4. ASSUME NEW c \in Calls, InSettings(c) PROVE SortInv'
    <2>1. UNCHANGED <<account, items, task>> BY <1>4 DEF InSettings
    <2>2. Aloof({"i_name", "i_commit"}) BY <1>4, SettingsMoves, MovesAloof DEF InSettings
    <2>3. QED BY <2>1, <2>2, SortCalm
<1>5. ASSUME NEW c \in Calls, InVisual(c) PROVE SortInv'
    <2>1. UNCHANGED <<account, items, task>> BY <1>5 DEF InVisual
    <2>2. Aloof({"i_name", "i_commit"}) BY <1>5, VisualMoves, MovesAloof DEF InVisual
    <2>3. QED BY <2>1, <2>2, SortCalm
<1>6. ASSUME NEW c \in Calls, InReads(c) PROVE SortInv'
    <2>1. UNCHANGED <<account, items, task>> BY <1>6 DEF InReads, AdminReadStep
    <2>2. Aloof({"i_name", "i_commit"}) BY <1>6, AdminReadMoves, MovesAloof DEF InReads
    <2>3. QED BY <2>1, <2>2, SortCalm
<1>7. QED
    BY <1>1, <1>2, <1>3, <1>4, <1>5, <1>6, NextCases, SortInAccounts, SortInBoard, SortInCatalog

LEMMA SortAlways == Spec => [](SortInv /\ LaneInv /\ AuditInv)
<1>1. Init => SortInv /\ AuditInv BY SortInit, AuditInit
<1>2. CallsOK /\ LimiterInv /\ AssetInv /\ AuditInv /\ [Next]_vars => AuditInv' BY AuditStep
<1>3. CallsOK /\ EntryInv /\ LimiterInv /\ AssetInv /\ AuditInv /\ LaneInv /\ SortInv /\ [Next]_vars
      => SortInv'
    BY SortStep DEF AuditInv
<1>4. QED BY <1>1, <1>2, <1>3, CallsAlways, EntryAlways, LimiterAlways, AssetAlways, LaneAlways, PTL
          DEF Spec

-----------------------------------------------------------------------------
(* What a list counted and read. *)

\* The entries a request asks for; from says who asked what.
EntriesIn(r, log, from) ==
    {n \in DOMAIN log : /\ r.actor \in {None, from[log[n].call].user}
                        /\ r.action \in {None, log[n].action}
                        /\ r.from # None => log[n].created >= r.from
                        /\ r.to # None => log[n].created <= r.to}

\* The rows a request asks for, of a table as a statement found it.
RowsOf(r, table, from) ==
    CASE r.op = "listTasks" ->
           {t \in DOMAIN table : /\ table[t].owner = r.user
                                 /\ r.status \in {"all", table[t].status}
                                 /\ r.category \in {None, table[t].category}
                                 /\ r.priority \in {None, table[t].priority}}
      [] r.op = "listUsers" ->
           {u \in Users : /\ table[1][u] # None
                          /\ r.role \in {"user", "admin"} => table[1][u].role = r.role
                          /\ r.q # None => \/ table[1][u].email \in r.q.emails
                                           \/ table[2][u] \in r.q.names}
      [] r.op = "listItems" ->
           {i \in DOMAIN table : /\ r.rarity \in {None, table[i].rarity}
                                 /\ r.active \in {None, table[i].active}
                                 /\ r.slot \in {None, table[i].slot_key}
                                 /\ r.q # None => table[i].name \in r.q.names}
      [] r.op = "listLogs" -> EntriesIn(r, table, from)

\* The calls that entries are about have come in.
Told(r, table) ==
    r.op = "listLogs" => \A n \in DOMAIN table : table[n].call \in Calls /\ pc[table[n].call] # "idle"

CountsRows(c) ==
    /\ found[c].total = Cardinality(RowsOf(req[c], found[c].counted, req))
    /\ Told(req[c], found[c].counted)

Piece(key, page, start) ==
    /\ start \in Nat
    /\ \E s \in Sorted(key) : \A i \in DOMAIN page :
          i \in Int /\ start + i \in 1..Cardinality(DOMAIN key) /\ page[i] = s[start + i]

ShowsRows(c) ==
    /\ DOMAIN found[c].key = RowsOf(req[c], found[c].listed, req)
    /\ Told(req[c], found[c].listed)
    /\ IsFiniteSet(DOMAIN found[c].key) /\ Comparable(found[c].key)
    /\ Piece(found[c].key, found[c].page, found[c].start)

\* What the statements of a list that have run say of the tables they found.
PageOK(c) ==
    /\ pc[c] = "t_page" => CountsRows(c)
    /\ pc[c] = "count" => ShowsRows(c)
    /\ Answered(c, {"ok"}) /\ req[c].op \in ListOps => CountsRows(c) /\ ShowsRows(c)

FoundOK ==
    DOMAIN found = Calls /\ \A c \in Calls : DOMAIN found[c] = DOMAIN Nothing
PageInv == FoundOK /\ \A c \in Calls : PageOK(c)

LEMMA FoundFields ==
    DOMAIN Nothing = {"total", "page", "start", "key", "counted", "listed"}
BY DEF Nothing

LEMMA PageInit == ASSUME Init PROVE PageInv
BY DEF Init, RequestsInit, PagingInit, PageInv, FoundOK, PageOK, Answered

\* A call that has come in stays in, with its request.
ComesAndStays ==
    \A d \in Calls : pc[d] # "idle" => pc'[d] # "idle" /\ req'[d] = req[d]

LEMMA ToldRows ==
    ASSUME ComesAndStays, NEW r, NEW table, Told(r, table), r.op \in ListOps
    PROVE  RowsOf(r, table, req') = RowsOf(r, table, req)
<1>1. CASE r.op = "listLogs"
    <2>1. \A n \in DOMAIN table : req'[table[n].call] = req[table[n].call]
        BY <1>1 DEF Told, ComesAndStays
    <2>2. EntriesIn(r, table, req') = EntriesIn(r, table, req) BY <2>1 DEF EntriesIn
    <2>3. QED BY <1>1, <2>2 DEF RowsOf
<1>2. CASE r.op # "listLogs" BY <1>2 DEF RowsOf, ListOps
<1>3. QED BY <1>1, <1>2

LEMMA CountsStay ==
    ASSUME ComesAndStays, NEW c \in Calls, pc[c] # "idle", req[c].op \in ListOps, CountsRows(c),
           found'[c].total = found[c].total, found'[c].counted = found[c].counted
    PROVE  CountsRows(c)'
<1>1. req'[c] = req[c] BY DEF ComesAndStays
<1>2. RowsOf(req[c], found[c].counted, req') = RowsOf(req[c], found[c].counted, req)
    BY ToldRows DEF CountsRows
<1>3. Told(req[c], found[c].counted)' BY <1>1 DEF CountsRows, Told, ComesAndStays
<1>4. QED BY <1>1, <1>2, <1>3 DEF CountsRows

LEMMA ShowsStay ==
    ASSUME ComesAndStays, NEW c \in Calls, pc[c] # "idle", req[c].op \in ListOps, ShowsRows(c),
           \A f \in {"page", "start", "key", "listed"} : found'[c][f] = found[c][f]
    PROVE  ShowsRows(c)'
<1>1. req'[c] = req[c] BY DEF ComesAndStays
<1>2. /\ found'[c].page = found[c].page /\ found'[c].start = found[c].start
      /\ found'[c].key = found[c].key /\ found'[c].listed = found[c].listed
    OBVIOUS
<1>3. RowsOf(req[c], found[c].listed, req') = RowsOf(req[c], found[c].listed, req)
    BY ToldRows DEF ShowsRows
<1>4. Told(req[c], found[c].listed)' BY <1>1, <1>2 DEF ShowsRows, Told, ComesAndStays
<1>5. QED BY <1>1, <1>2, <1>3, <1>4 DEF ShowsRows

\* A call is between the same statements, or is not a list that ends well.
Still(d) ==
    pc'[d] \in {"t_page", "count"} \/ (Answered(d, {"ok"})' /\ req'[d].op \in ListOps) =>
        /\ pc'[d] = pc[d] /\ ans'[d] = ans[d] /\ req'[d] = req[d] /\ found'[d] = found[d]

LEMMA PageStays ==
    ASSUME LaneInv, ComesAndStays, NEW d \in Calls, PageOK(d), Still(d)
    PROVE  PageOK(d)'
<1>1. pc[d] = "t_page" => req[d].op \in ListOps
    BY LaneNames DEF LaneInv, LanePlaces
<1>2. pc[d] = "count" => req[d].op \in ListOps
    BY LaneNames DEF LaneInv, LanePlaces
<1>3. CASE pc'[d] = "t_page"
    <2>1. pc[d] = "t_page" /\ found'[d] = found[d] BY <1>3 DEF Still
    <2>2. CountsRows(d)' BY <1>1, <2>1, CountsStay DEF PageOK
    <2>3. QED BY <1>3, <2>2 DEF PageOK, Answered
<1>4. CASE pc'[d] = "count"
    <2>1. pc[d] = "count" /\ found'[d] = found[d] BY <1>4 DEF Still
    <2>2. ShowsRows(d)' BY <1>2, <2>1, ShowsStay DEF PageOK
    <2>3. QED BY <1>4, <2>2 DEF PageOK, Answered
<1>5. CASE Answered(d, {"ok"})' /\ req'[d].op \in ListOps
    <2>1. /\ pc[d] = "done" /\ Answered(d, {"ok"}) /\ req[d].op \in ListOps
          /\ found'[d] = found[d]
        BY <1>5 DEF Still, Answered
    <2>2. CountsRows(d)' /\ ShowsRows(d)' BY <2>1, CountsStay, ShowsStay DEF PageOK
    <2>3. QED BY <1>5, <2>2 DEF PageOK, Answered
<1>6. CASE ~(pc'[d] \in {"t_page", "count"} \/ (Answered(d, {"ok"})' /\ req'[d].op \in ListOps))
    BY <1>6 DEF PageOK
<1>7. QED BY <1>3, <1>4, <1>5, <1>6

-----------------------------------------------------------------------------
(* The statements of a list. *)

\* Only the answer of c changes.
OnlyFound(c) == FoundOK' /\ \A d \in Calls : d # c => found'[d] = found[d]

LEMMA CountMakes ==
    ASSUME FoundOK, NEW c \in Calls, NEW rows, NEW table, Count(c, rows, table)
    PROVE  /\ OnlyFound(c)
           /\ found'[c].total = Cardinality(rows) /\ found'[c].counted = table
           /\ \A f \in {"page", "start", "key", "listed"} : found'[c][f] = found[c][f]
<1>1. found' = [found EXCEPT ![c] = [found[c] EXCEPT !.total = Cardinality(rows), !.counted = table]]
    BY DEF Count, FoundOK
<1>2. DOMAIN found = Calls /\ \A d \in Calls : DOMAIN found[d] = DOMAIN Nothing BY DEF FoundOK
<1>3. found'[c] = [found[c] EXCEPT !.total = Cardinality(rows), !.counted = table]
    BY <1>1, <1>2
<1>4. DOMAIN found'[c] = DOMAIN Nothing BY <1>2, <1>3
<1>5. OnlyFound(c) BY <1>1, <1>2, <1>4 DEF OnlyFound, FoundOK
<1>6. QED BY <1>2, <1>3, <1>5, FoundFields

LEMMA ReadMakes ==
    ASSUME FoundOK, NEW c \in Calls, NEW key, NEW limit \in Int, NEW table,
           ReadPage(c, key, limit, table), IsFiniteSet(DOMAIN key), req[c].offset \in Int
    PROVE  /\ OnlyFound(c)
           /\ found'[c].total = found[c].total /\ found'[c].counted = found[c].counted
           /\ found'[c].key = key /\ found'[c].listed = table
           /\ Piece(key, found'[c].page, found'[c].start)
<1> DEFINE start == Offset(req[c].offset)
<1>1. start \in Nat BY DEF Offset
<1>2. PICK p \in Pages(key, limit, start) :
         found' = [found EXCEPT ![c].page = p, ![c].start = start,
                                ![c].key = key, ![c].listed = table]
    BY DEF ReadPage
<1>3. Piece(key, p, start) BY <1>1, PageIsPiece DEF Piece
<1> HIDE DEF start
<1>4. DOMAIN found = Calls /\ \A d \in Calls : DOMAIN found[d] = DOMAIN Nothing BY DEF FoundOK
<1>5. found'[c] = [found[c] EXCEPT !.page = p, !.start = start, !.key = key, !.listed = table]
    BY <1>2, <1>4
<1>6. DOMAIN found'[c] = DOMAIN Nothing BY <1>4, <1>5
<1>7. DOMAIN found' = Calls /\ \A d \in Calls : d # c => found'[d] = found[d] BY <1>2, <1>4
<1>8. OnlyFound(c) BY <1>4, <1>6, <1>7 DEF OnlyFound, FoundOK
<1>9. QED BY <1>3, <1>4, <1>5, <1>8, FoundFields

\* The keys of the lists.
LEMMA UsersCompare ==
    ASSUME SortInv, NEW r
    PROVE  /\ IsFiniteSet(ListedUsers(r))
           /\ Comparable([u \in ListedUsers(r) |-> UserKey(r, u)])
<1>1. IsFiniteSet(ListedUsers(r)) BY SortAssumption, FS_Subset DEF ListedUsers
<1>2. ASSUME NEW u \in ListedUsers(r) PROVE UserKey(r, u) \in [1..1 -> Int]
    <2>1. account[u].email \in Int /\ account[u].created \in Int BY DEF ListedUsers, SortInv
    <2> DEFINE value == CASE r.sort = "email" -> account[u].email
                          [] r.sort = "role" -> IF account[u].role = "admin" THEN 1 ELSE 2
                          [] OTHER -> account[u].created
    <2>2. value \in Int BY <2>1
    <2>3. UserKey(r, u) = <<IF r.dir = "asc" THEN value ELSE -value>> BY DEF UserKey, Directed
    <2> HIDE DEF value
    <2>4. QED BY <2>2, <2>3
<1>3. [u \in ListedUsers(r) |-> UserKey(r, u)] \in [ListedUsers(r) -> [1..1 -> Int]] BY <1>2
<1>4. QED BY <1>1, <1>3 DEF Comparable

LEMMA ItemsCompare ==
    ASSUME SortInv, NEW r
    PROVE  /\ IsFiniteSet(ListedItems(r))
           /\ Comparable([i \in ListedItems(r) |-> ItemKey(r, i)])
<1>1. IsFiniteSet(ListedItems(r)) BY FS_Subset DEF ListedItems, SortInv
<1>2. ASSUME NEW i \in ListedItems(r) PROVE ItemKey(r, i) \in [1..1 -> Int]
    <2>1. ItemSorts(items[i]) BY DEF ListedItems, SortInv
    <2>2. /\ items[i].name \in Int /\ items[i].slot_key \in Int /\ items[i].created \in Int
          /\ RarityRank[items[i].rarity] \in Int
        BY <2>1 DEF ItemSorts, RarityRank, rarityAllowlist
    <2> DEFINE value == CASE r.sort = "name" -> items[i].name
                          [] r.sort = "rarity" -> RarityRank[items[i].rarity]
                          [] r.sort = "slot_key" -> items[i].slot_key
                          [] OTHER -> items[i].created
    <2>3. value \in Int BY <2>2
    <2>4. ItemKey(r, i) = <<IF r.dir = "asc" THEN value ELSE -value>> BY DEF ItemKey, Directed
    <2> HIDE DEF value
    <2>5. QED BY <2>3, <2>4
<1>3. [i \in ListedItems(r) |-> ItemKey(r, i)] \in [ListedItems(r) -> [1..1 -> Int]] BY <1>2
<1>4. QED BY <1>1, <1>3 DEF Comparable

LEMMA EntriesCompare ==
    ASSUME LogInv, NEW r
    PROVE  /\ IsFiniteSet(ListedEntries(r))
           /\ Comparable([n \in ListedEntries(r) |-> EntryKey(n)])
<1>1. audit \in Seq(LogEntry) /\ DOMAIN audit = 1..Len(audit) /\ Len(audit) \in Nat BY DEF LogInv
<1>2. IsFiniteSet(DOMAIN audit) BY <1>1, FS_Interval
<1>3. IsFiniteSet(ListedEntries(r)) BY <1>2, FS_Subset DEF ListedEntries
<1>4. ASSUME NEW n \in ListedEntries(r) PROVE EntryKey(n) \in [1..1 -> Int]
    <2>1. n \in 1..Len(audit) BY <1>1 DEF ListedEntries
    <2>2. audit[n] \in LogEntry BY <1>1, <2>1
    <2>3. audit[n].created \in Int BY <2>2 DEF LogEntry
    <2>4. QED BY <2>3 DEF EntryKey
<1>5. [n \in ListedEntries(r) |-> EntryKey(n)] \in [ListedEntries(r) -> [1..1 -> Int]] BY <1>4
<1>6. QED BY <1>3, <1>5 DEF Comparable

LEMMA Joined ==
    ASSUME NEW a \in Seq(Int), NEW b \in Seq(Int)
    PROVE  a \o b \in Seq(Int) /\ Len(a \o b) = Len(a) + Len(b)
OBVIOUS

LEMMA ManyNumbers ==
    ASSUME NEW n \in Nat, NEW a \in Seq(Int), Len(a) = n
    PROVE  a \in [1..n -> Int]
OBVIOUS

LEMMA FourNumbers ==
    ASSUME NEW a \in Seq(Int), NEW b \in Seq(Int), NEW d \in Seq(Int),
           Len(a) = 1, Len(b) = 2, Len(d) = 1
    PROVE  a \o b \o d \in [1..4 -> Int]
<1>1. a \o b \in Seq(Int) /\ Len(a \o b) = 3
    <2>1. a \o b \in Seq(Int) BY Joined, Zenon
    <2>2. Len(a \o b) = Len(a) + Len(b) BY Joined, Zenon
    <2>3. QED BY <2>1, <2>2
<1>2. a \o b \o d \in Seq(Int) /\ Len(a \o b \o d) = Len(a \o b) + Len(d) BY <1>1, Joined
<1>3. Len(a \o b \o d) = 4 BY <1>1, <1>2
<1>4. QED BY <1>2, <1>3, ManyNumbers

LEMMA TasksCompare ==
    ASSUME SortInv, NEW r
    PROVE  /\ IsFiniteSet(MatchingTasks(r))
           /\ Comparable([t \in MatchingTasks(r) |-> TaskKey(t, r)])
<1>1. IsFiniteSet(MatchingTasks(r)) BY FS_Subset DEF MatchingTasks, SortInv
<1>2. ASSUME NEW t \in MatchingTasks(r)
      PROVE  /\ r.sort = "created_at" => TaskKey(t, r) \in [1..2 -> Int]
             /\ r.sort # "created_at" => TaskKey(t, r) \in [1..4 -> Int]
    <2>1. TaskSorts(task[t]) BY DEF MatchingTasks, SortInv
    <2>2. task[t].created \in Int /\ (task[t].deadline # None => task[t].deadline \in Int)
        BY <2>1 DEF TaskSorts
    <2> DEFINE late == IF Overdue(t) THEN 0 ELSE 1
               due == IF task[t].deadline = None THEN <<1, 0>> ELSE <<0, task[t].deadline>>
    <2>3. late \in Int BY SMT
    <2>4. due \in Seq(Int) /\ Len(due) = 2 BY <2>2
    <2>5. <<late>> \in Seq(Int) /\ Len(<<late>>) = 1 BY <2>3
    <2>6. <<-task[t].created>> \in Seq(Int) /\ Len(<<-task[t].created>>) = 1 BY <2>2
    <2>7. <<late, -task[t].created>> \in [1..2 -> Int] BY <2>2, <2>3
    <2>8. TaskKey(t, r) = IF r.sort = "created_at" THEN <<late, -task[t].created>>
                          ELSE <<late>> \o due \o <<-task[t].created>>
        BY DEF TaskKey
    <2> HIDE DEF late, due
    <2>9. <<late>> \o due \o <<-task[t].created>> \in [1..4 -> Int]
        BY <2>4, <2>5, <2>6, FourNumbers
    <2>10. QED BY <2>7, <2>8, <2>9
<1>3. CASE r.sort = "created_at"
    <2>1. [t \in MatchingTasks(r) |-> TaskKey(t, r)] \in [MatchingTasks(r) -> [1..2 -> Int]]
        BY <1>2, <1>3
    <2>2. QED BY <1>1, <2>1 DEF Comparable
<1>4. CASE r.sort # "created_at"
    <2>1. [t \in MatchingTasks(r) |-> TaskKey(t, r)] \in [MatchingTasks(r) -> [1..4 -> Int]]
        BY <1>2, <1>4
    <2>2. QED BY <1>1, <2>1 DEF Comparable
<1>5. QED BY <1>3, <1>4

\* The rows of a statement are those that the request asks for.
LEMMA RowsNow ==
    ASSUME NEW r
    PROVE  /\ r.op = "listTasks" => MatchingTasks(r) = RowsOf(r, task, req)
           /\ r.op = "listUsers" => ListedUsers(r) = RowsOf(r, <<account, profile>>, req)
           /\ r.op = "listItems" => ListedItems(r) = RowsOf(r, items, req)
           /\ r.op = "listLogs" => ListedEntries(r) = RowsOf(r, audit, req)
<1>1. r.op = "listTasks" => MatchingTasks(r) = RowsOf(r, task, req)
    BY DEF RowsOf, MatchingTasks, Matches
<1>2. ASSUME r.op = "listUsers" PROVE ListedUsers(r) = RowsOf(r, <<account, profile>>, req)
    BY <1>2 DEF RowsOf, ListedUsers
<1>3. r.op = "listItems" => ListedItems(r) = RowsOf(r, items, req)
    BY DEF RowsOf, ListedItems
<1>4. r.op = "listLogs" => ListedEntries(r) = RowsOf(r, audit, req)
    BY DEF RowsOf, EntriesIn, ListedEntries
<1>5. QED BY <1>1, <1>2, <1>3, <1>4

\* A list is numbers and a place of its own.
LEMMA ListAsked ==
    ASSUME CallsOK, LaneInv, NEW c \in Calls,
           pc[c] \in {"listTasks", "t_page", "listUsers", "listItems", "listLogs", "count"}
    PROVE  /\ req[c].op \in ListOps /\ pc[c] \in Lanes[req[c].op]
           /\ req[c].limit \in Int /\ req[c].offset \in Int
<1>1. req[c].op \in ListOps /\ pc[c] \in Lanes[req[c].op]
    BY LaneNames DEF LaneInv, LanePlaces
<1>2. load \in DOMAIN Mixes /\ req[c] \in Mixes[load].requests BY DEF CallsOK, mix
<1>3. QED BY <1>1, <1>2, SortAssumption DEF ListOps

LEMMA LimitNumbers ==
    ASSUME NEW n \in Int
    PROVE  TaskLimit(n) \in Int /\ clampLimit(n) \in Int
BY PagingAssumption DEF TaskLimit, clampLimit, Least

\* What a call at work says of the entries is said of calls that have come in.
LEMMA ToldNow ==
    ASSUME LogInv, NEW r, NEW table, r.op = "listLogs" => table = audit
    PROVE  Told(r, table)
<1>1. \A n \in DOMAIN audit : audit[n] \in LogEntry /\ pc[audit[n].call] # "idle"
    BY DEF LogInv
<1>2. QED BY <1>1 DEF Told, LogEntry

LEMMA CountedNow ==
    ASSUME FoundOK, LogInv, ComesAndStays, NEW c \in Calls, pc[c] # "idle", req' = req,
           NEW rows, NEW table, Count(c, rows, table),
           rows = RowsOf(req[c], table, req), req[c].op = "listLogs" => table = audit
    PROVE  OnlyFound(c) /\ CountsRows(c)'
<1>1. /\ OnlyFound(c) /\ found'[c].total = Cardinality(rows) /\ found'[c].counted = table
    BY CountMakes
<1>2. Told(req[c], table) BY ToldNow
<1>3. Told(req[c], found[c].counted)' BY <1>1, <1>2 DEF Told, ComesAndStays
<1>4. QED BY <1>1, <1>3 DEF CountsRows

LEMMA ShownNow ==
    ASSUME FoundOK, LogInv, ComesAndStays, NEW c \in Calls, pc[c] # "idle", req' = req,
           NEW key, NEW limit \in Int, NEW table, ReadPage(c, key, limit, table),
           IsFiniteSet(DOMAIN key), Comparable(key), req[c].offset \in Int,
           DOMAIN key = RowsOf(req[c], table, req), req[c].op = "listLogs" => table = audit
    PROVE  /\ OnlyFound(c) /\ ShowsRows(c)'
           /\ found'[c].total = found[c].total /\ found'[c].counted = found[c].counted
<1>1. /\ OnlyFound(c)
      /\ found'[c].total = found[c].total /\ found'[c].counted = found[c].counted
      /\ found'[c].key = key /\ found'[c].listed = table
      /\ Piece(key, found'[c].page, found'[c].start)
    BY ReadMakes
<1>2. Told(req[c], table) BY ToldNow
<1>3. Told(req[c], found[c].listed)' BY <1>1, <1>2 DEF Told, ComesAndStays
<1>4. QED BY <1>1, <1>3 DEF ShowsRows

\* Its statements leave a list where it says what it did.
LEMMA ListMoves ==
    ASSUME CallsOK, LimiterInv, LaneInv, SortInv, LogInv, PageInv, ComesAndStays, NEW c \in Calls,
           req' = req,
           \/ CountTasks(c) \/ ListTasks(c) \/ ListUsers(c) \/ ListItems(c)
           \/ ListAuditLogs(c) \/ CountListed(c)
    PROVE  OnlyFound(c) /\ PageOK(c)'
<1> USE DEF Go, Answer
<1>1. DOMAIN pc = Calls /\ DOMAIN ans = Calls BY DEF CallsOK, LimiterInv
<1>2. FoundOK /\ PageOK(c) BY DEF PageInv
<1>3. CASE CountTasks(c)
    <2>1. pc[c] = "listTasks" /\ pc'[c] = "t_page" /\ Count(c, MatchingTasks(req[c]), task)
        BY <1>1, <1>3 DEF CountTasks
    <2>2. req[c].op = "listTasks" BY <2>1, ListAsked, LaneNames DEF ListOps
    <2>3. OnlyFound(c) /\ CountsRows(c)' BY <1>2, <2>1, <2>2, RowsNow, CountedNow
    <2>4. QED BY <2>1, <2>3 DEF PageOK, Answered
<1>4. CASE ListTasks(c)
    <2> DEFINE key == [t \in MatchingTasks(req[c]) |-> TaskKey(t, req[c])]
    <2>1. /\ pc[c] = "t_page" /\ pc'[c] = "done"
          /\ ReadPage(c, key, TaskLimit(req[c].limit), task)
        BY <1>1, <1>4 DEF ListTasks
    <2>2. req[c].op = "listTasks" BY <2>1, ListAsked, LaneNames DEF ListOps
    <2>3. req[c].offset \in Int /\ TaskLimit(req[c].limit) \in Int
        BY <2>1, ListAsked, LimitNumbers
    <2>4. DOMAIN key = RowsOf(req[c], task, req) BY <2>2, RowsNow
    <2>5. IsFiniteSet(DOMAIN key) /\ Comparable(key) BY TasksCompare
    <2> HIDE DEF key
    <2>6. /\ OnlyFound(c) /\ ShowsRows(c)'
          /\ found'[c].total = found[c].total /\ found'[c].counted = found[c].counted
        BY <1>2, <2>1, <2>2, <2>3, <2>4, <2>5, ShownNow
    <2>7. CountsRows(c) /\ req[c].op \in ListOps BY <1>2, <2>1, <2>2 DEF PageOK, ListOps
    <2>8. CountsRows(c)' BY <2>1, <2>6, <2>7, CountsStay
    <2>9. QED BY <2>1, <2>6, <2>8 DEF PageOK, Answered
<1>5. CASE ListUsers(c)
    <2> DEFINE key == [u \in ListedUsers(req[c]) |-> UserKey(req[c], u)]
    <2>1. /\ pc[c] = "listUsers" /\ pc'[c] = "count"
          /\ ReadPage(c, key, clampLimit(req[c].limit), <<account, profile>>)
        BY <1>1, <1>5 DEF ListUsers, ReadList
    <2>2. req[c].op = "listUsers" BY <2>1, ListAsked, LaneNames DEF ListOps
    <2>3. req[c].offset \in Int /\ clampLimit(req[c].limit) \in Int
        BY <2>1, ListAsked, LimitNumbers
    <2>4. DOMAIN key = RowsOf(req[c], <<account, profile>>, req) BY <2>2, RowsNow
    <2>5. IsFiniteSet(DOMAIN key) /\ Comparable(key) BY UsersCompare
    <2> HIDE DEF key
    <2>6. OnlyFound(c) /\ ShowsRows(c)' BY <1>2, <2>1, <2>2, <2>3, <2>4, <2>5, ShownNow
    <2>7. QED BY <2>1, <2>6 DEF PageOK, Answered
<1>6. CASE ListItems(c)
    <2> DEFINE key == [i \in ListedItems(req[c]) |-> ItemKey(req[c], i)]
    <2>1. /\ pc[c] = "listItems" /\ pc'[c] = "count"
          /\ ReadPage(c, key, clampLimit(req[c].limit), items)
        BY <1>1, <1>6 DEF ListItems, ReadList
    <2>2. req[c].op = "listItems" BY <2>1, ListAsked, LaneNames DEF ListOps
    <2>3. req[c].offset \in Int /\ clampLimit(req[c].limit) \in Int
        BY <2>1, ListAsked, LimitNumbers
    <2>4. DOMAIN key = RowsOf(req[c], items, req) BY <2>2, RowsNow
    <2>5. IsFiniteSet(DOMAIN key) /\ Comparable(key) BY ItemsCompare
    <2> HIDE DEF key
    <2>6. OnlyFound(c) /\ ShowsRows(c)' BY <1>2, <2>1, <2>2, <2>3, <2>4, <2>5, ShownNow
    <2>7. QED BY <2>1, <2>6 DEF PageOK, Answered
<1>7. CASE ListAuditLogs(c)
    <2> DEFINE key == [n \in ListedEntries(req[c]) |-> EntryKey(n)]
    <2>1. /\ pc[c] = "listLogs" /\ pc'[c] = "count"
          /\ ReadPage(c, key, clampLimit(req[c].limit), audit)
        BY <1>1, <1>7 DEF ListAuditLogs, ReadList
    <2>2. req[c].op = "listLogs" BY <2>1, ListAsked, LaneNames DEF ListOps
    <2>3. req[c].offset \in Int /\ clampLimit(req[c].limit) \in Int
        BY <2>1, ListAsked, LimitNumbers
    <2>4. DOMAIN key = RowsOf(req[c], audit, req) BY <2>2, RowsNow
    <2>5. IsFiniteSet(DOMAIN key) /\ Comparable(key) BY EntriesCompare
    <2> HIDE DEF key
    <2>6. OnlyFound(c) /\ ShowsRows(c)' BY <1>2, <2>1, <2>2, <2>3, <2>4, <2>5, ShownNow
    <2>7. QED BY <2>1, <2>6 DEF PageOK, Answered
<1>8. CASE CountListed(c)
    <2>1. pc[c] = "count" /\ pc'[c] = "done" BY <1>1, <1>8 DEF CountListed
    <2>2. req[c].op \in {"listUsers", "listItems", "listLogs"}
        BY <2>1, ListAsked, LaneNames DEF ListOps
    <2>3. \E rows, table : /\ Count(c, rows, table) /\ rows = RowsOf(req[c], table, req)
                           /\ req[c].op = "listLogs" => table = audit
        <3>1. CASE req[c].op = "listUsers" BY <1>8, <3>1, RowsNow DEF CountListed
        <3>2. CASE req[c].op = "listItems" BY <1>8, <3>2, RowsNow DEF CountListed
        <3>3. CASE req[c].op = "listLogs" BY <1>8, <3>3, RowsNow DEF CountListed
        <3>4. QED BY <2>2, <3>1, <3>2, <3>3
    <2>4. PICK rows, table : /\ Count(c, rows, table) /\ rows = RowsOf(req[c], table, req)
                             /\ req[c].op = "listLogs" => table = audit
        BY <2>3
    <2>5. OnlyFound(c) /\ CountsRows(c)' BY <1>2, <2>1, <2>4, CountedNow
    <2>6. \A f \in {"page", "start", "key", "listed"} : found'[c][f] = found[c][f]
        BY <1>2, <2>4, CountMakes
    <2>7. ShowsRows(c)' BY <1>2, <2>1, <2>2, <2>6, ShowsStay DEF PageOK, ListOps
    <2>8. QED BY <2>1, <2>5, <2>7 DEF PageOK, Answered
<1>9. QED BY <1>3, <1>4, <1>5, <1>6, <1>7, <1>8

ListPlaces == {"listTasks", "t_page", "listUsers", "listItems", "listLogs", "count"}

\* Where one call moves on and gets its answer, the others stand still.
LEMMA OthersStill ==
    ASSUME CallsOK, LimiterInv, NEW c \in Calls, NEW l, l # "idle", pc[c] # "idle",
           pc' = pc \/ pc' = [pc EXCEPT ![c] = l], req' = req,
           ans' = ans \/ \E status : ans' = [ans EXCEPT ![c] = status], OnlyFound(c)
    PROVE  ComesAndStays /\ \A d \in Calls : d # c => Still(d)
<1>1. DOMAIN pc = Calls /\ DOMAIN ans = Calls BY DEF CallsOK, LimiterInv
<1>2. \A d \in Calls : d # c => pc'[d] = pc[d] /\ ans'[d] = ans[d] /\ found'[d] = found[d]
    BY <1>1 DEF OnlyFound
<1>3. pc'[c] \in {pc[c], l} BY <1>1
<1>4. QED BY <1>2, <1>3 DEF ComesAndStays, Still

\* A call elsewhere is no list, and does not become one.
LEMMA OffStill ==
    ASSUME LaneInv, NEW c \in Calls, req' = req,
           pc[c] \notin {"idle", "done", "malformed"} \cup ListPlaces,
           pc'[c] \notin {"t_page", "count"}
    PROVE  Still(c)
<1>1. req[c].op \notin ListOps BY LaneNames DEF LaneInv, ListOps, ListPlaces
<1>2. QED BY <1>1 DEF Still

LEMMA PageMoves ==
    ASSUME CallsOK, LimiterInv, LaneInv, PageInv, NEW c \in Calls, NEW labels, Moves(c, labels),
           pc[c] \notin LanePlaces \cup {"malformed"}, labels \cap {"t_page", "count", "idle"} = {},
           found' = found
    PROVE  PageInv'
<1>1. req' = req /\ pc[c] \notin {"idle", "done", "malformed"} \cup ListPlaces
    BY DEF Moves, ListPlaces, LanePlaces
<1>2. OnlyFound(c) BY DEF OnlyFound, PageInv, FoundOK
<1>3. PICK l \in labels \cup {"done"} : pc' = pc \/ pc' = [pc EXCEPT ![c] = l]
    BY DEF Moves
<1>4. ans' = ans \/ \E status : ans' = [ans EXCEPT ![c] = status] BY DEF Moves
<1>5. ComesAndStays /\ \A d \in Calls : d # c => Still(d)
    BY <1>1, <1>2, <1>3, <1>4, OthersStill
<1>6. pc'[c] \notin {"t_page", "count"} BY <1>1, <1>3 DEF CallsOK, ListPlaces
<1>7. Still(c) BY <1>1, <1>6, OffStill
<1>8. \A d \in Calls : PageOK(d)' BY <1>5, <1>7, PageStays DEF PageInv
<1>9. QED BY <1>2, <1>8 DEF PageInv, OnlyFound

LEMMA PageReceives ==
    ASSUME CallsOK, LimiterInv, LaneInv, PageInv, NEW c \in Calls, Receives(c)
    PROVE  PageInv'
<1>1. found' = found /\ pc[c] = "idle" BY DEF Receives, Receive, serviceVars, boardVars
<1>2. PICK r \in mix.requests :
         /\ req' = [req EXCEPT ![c] = r]
         /\ \/ \E status \in Refusals : /\ pc' = [pc EXCEPT ![c] = "done"]
                                        /\ ans' = [ans EXCEPT ![c] = status]
            \/ \E l \in {"malformed", r.op} : pc' = [pc EXCEPT ![c] = l] /\ ans' = ans
    BY ReceivesComeIn DEF ComesIn
<1>3. r.op \in Operations BY <1>2, WorkloadAssumption DEF CallsOK, mix
<1>4. r.op \notin {"idle", "done", "t_page", "count"} BY <1>3 DEF Operations
<1>5. DOMAIN pc = Calls /\ DOMAIN ans = Calls /\ DOMAIN req = Calls BY DEF CallsOK, LimiterInv
<1>6. \A d \in Calls : d # c => pc'[d] = pc[d] /\ ans'[d] = ans[d] /\ req'[d] = req[d]
    BY <1>2, <1>5
<1>7. \/ pc'[c] = "done" /\ ans'[c] \in Refusals
      \/ pc'[c] \in {"malformed", r.op}
    BY <1>2, <1>5
<1>8. ComesAndStays BY <1>1, <1>6 DEF ComesAndStays
<1>9. Still(c) BY <1>4, <1>7 DEF Still, Answered, Refusals
<1>10. \A d \in Calls : Still(d) BY <1>1, <1>6, <1>9 DEF Still
<1>11. \A d \in Calls : PageOK(d)' BY <1>8, <1>10, PageStays DEF PageInv
<1>12. QED BY <1>1, <1>11 DEF PageInv, FoundOK

\* The step of a list, or of a call that writes tasks or counts the tables.
LEMMA PageTurns ==
    ASSUME CallsOK, LimiterInv, LaneInv, SortInv, LogInv, PageInv, NEW c \in Calls,
           BoardStep(c) \/ AdminReadStep(c)
    PROVE  PageInv'
<1>1. /\ Turn(c) /\ req' = req /\ pc[c] \notin {"idle", "done", "malformed"}
    BY OnLane DEF limiterVars
<1>2. PICK l : /\ pc' = pc \/ pc' = [pc EXCEPT ![c] = l]
               /\ l = "done" \/ <<pc[c], l>> \in Turns
    <2>1. \/ pc' = pc \/ pc' = [pc EXCEPT ![c] = "done"]
          \/ \E l : <<pc[c], l>> \in Turns /\ pc' = [pc EXCEPT ![c] = l]
        BY <1>1, Zenon DEF Turn
    <2>2. QED BY <2>1, Zenon
<1>3. l # "idle" BY <1>2 DEF Turns
<1>4. ans' = ans \/ \E status : ans' = [ans EXCEPT ![c] = status] BY <1>1 DEF Turn
<1>5. ASSUME OnlyFound(c)
      PROVE  ComesAndStays /\ \A d \in Calls : d # c => Still(d)
    BY <1>1, <1>2, <1>3, <1>4, <1>5, OthersStill
<1>6. ASSUME OnlyFound(c), pc[c] \notin ListPlaces PROVE PageInv'
    <2>1. pc'[c] \notin {"t_page", "count"} BY <1>2, <1>6 DEF CallsOK, ListPlaces, Turns
    <2>2. Still(c) BY <1>1, <1>6, <2>1, OffStill
    <2>3. \A d \in Calls : PageOK(d)' BY <1>5, <1>6, <2>2, PageStays DEF PageInv
    <2>4. QED BY <1>6, <2>3 DEF PageInv, OnlyFound
<1>7. ASSUME found' = found PROVE OnlyFound(c) BY <1>7 DEF OnlyFound, PageInv, FoundOK
<1>8. ASSUME \/ CountTasks(c) \/ ListTasks(c) \/ ListUsers(c) \/ ListItems(c)
             \/ ListAuditLogs(c) \/ CountListed(c)
      PROVE  PageInv'
    <2>1. ComesAndStays
        <3>1. \A d \in Calls : d # c => pc'[d] = pc[d] BY <1>2 DEF CallsOK
        <3>2. pc'[c] \in {pc[c], l} BY <1>2 DEF CallsOK
        <3>3. QED BY <1>1, <1>3, <3>1, <3>2 DEF ComesAndStays
    <2>2. OnlyFound(c) /\ PageOK(c)' BY <1>1, <1>8, <2>1, ListMoves
    <2>3. \A d \in Calls : d # c => PageOK(d)' BY <1>5, <2>2, PageStays DEF PageInv
    <2>4. QED BY <2>2, <2>3 DEF PageInv, OnlyFound
<1> USE DEF boardVars, ListPlaces
<1>9. CASE CreateTask(c) BY <1>6, <1>7, <1>9 DEF CreateTask
<1>10. CASE ResolveCategory(c) BY <1>6, <1>7, <1>10 DEF ResolveCategory
<1>11. CASE InsertTask(c) BY <1>6, <1>7, <1>11 DEF InsertTask
<1>12. CASE PatchTask(c) BY <1>6, <1>7, <1>12 DEF PatchTask
<1>13. CASE UpdateTask(c) BY <1>6, <1>7, <1>13 DEF UpdateTask
<1>14. CASE ArchiveTask(c) BY <1>6, <1>7, <1>14 DEF ArchiveTask
<1>15. CASE GetTask(c) BY <1>6, <1>7, <1>15 DEF GetTask
<1>16. CASE GetCategories(c) BY <1>6, <1>7, <1>16 DEF GetCategories
<1>17. CASE ReadCategories(c) BY <1>6, <1>7, <1>17 DEF ReadCategories
<1>18. CASE Stats(c)
    <2>1. pc[c] = "stats" BY <1>18 DEF Stats
    <2>2. \/ found' = found
          \/ \E page : found' = [found EXCEPT ![c].page = page]
        BY <1>18 DEF Stats
    <2>3. ASSUME NEW page, found' = [found EXCEPT ![c].page = page] PROVE OnlyFound(c)
        <3>1. DOMAIN found = Calls /\ \A d \in Calls : DOMAIN found[d] = DOMAIN Nothing
            BY DEF PageInv, FoundOK
        <3>2. found'[c] = [found[c] EXCEPT !.page = page] BY <2>3, <3>1
        <3>3. DOMAIN found'[c] = DOMAIN Nothing BY <3>1, <3>2
        <3>4. QED BY <2>3, <3>1, <3>3 DEF OnlyFound, FoundOK
    <2>4. QED BY <1>6, <1>7, <2>1, <2>2, <2>3
<1>19. CASE BoardStep(c)
    BY <1>8, <1>9, <1>10, <1>11, <1>12, <1>13, <1>14, <1>15, <1>16, <1>17, <1>19 DEF BoardStep
<1>20. CASE AdminReadStep(c) BY <1>8, <1>18, <1>20 DEF AdminReadStep
<1>21. QED BY <1>19, <1>20

LEMMA PageStep ==
    ASSUME CallsOK, LimiterInv, LaneInv, SortInv, LogInv, PageInv, [Next]_vars
    PROVE  PageInv'
<1> USE DEF SettingsLabels, AccountLabels, VisualLabels, CatalogLabels, boardVars
<1>1. CASE UNCHANGED vars \/ Idles
    <2>1. UNCHANGED <<pc, req, ans, found>>
        BY <1>1 DEF vars, requestVars, Idles, Tick, serviceVars
    <2>2. ComesAndStays /\ \A d \in Calls : Still(d) BY <2>1 DEF ComesAndStays, Still
    <2>3. FoundOK' /\ \A d \in Calls : PageOK(d)'
        BY <2>1, <2>2, PageStays DEF PageInv, FoundOK
    <2>4. QED BY <2>3 DEF PageInv
<1>2. ASSUME NEW c \in Calls, Receives(c) PROVE PageInv' BY <1>2, PageReceives
<1>3. ASSUME NEW c \in Calls, Ends(c) PROVE PageInv'
    <2>1. /\ pc[c] # "idle" /\ UNCHANGED <<req, found>>
          /\ pc' = [pc EXCEPT ![c] = "done"]
          /\ \E status \in {"bad_request", "internal"} : ans' = [ans EXCEPT ![c] = status]
        BY <1>3 DEF Ends, Refuse, Fail, Active, Answer, limiterVars, serviceVars
    <2>2. OnlyFound(c) BY <2>1 DEF OnlyFound, PageInv, FoundOK
    <2>3. ComesAndStays /\ \A d \in Calls : d # c => Still(d) BY <2>1, <2>2, OthersStill
    <2>4. Still(c) BY <2>1 DEF Still, Answered, CallsOK, LimiterInv
    <2>5. \A d \in Calls : PageOK(d)' BY <2>3, <2>4, PageStays DEF PageInv
    <2>6. QED BY <2>2, <2>5 DEF PageInv, OnlyFound
<1>4. ASSUME NEW c \in Calls, InSettings(c) PROVE PageInv'
    BY <1>4, OffLane, SettingsMoves, PageMoves DEF InSettings
<1>5. ASSUME NEW c \in Calls, InAccounts(c) PROVE PageInv'
    BY <1>5, OffLane, AccountMoves, PageMoves DEF InAccounts
<1>6. ASSUME NEW c \in Calls, InVisual(c) PROVE PageInv'
    BY <1>6, OffLane, VisualMoves, PageMoves DEF InVisual
<1>7. ASSUME NEW c \in Calls, InCatalog(c) PROVE PageInv'
    BY <1>7, OffLane, CatalogMoves, PageMoves DEF InCatalog
<1>8. ASSUME NEW c \in Calls, InBoard(c) \/ InReads(c) PROVE PageInv'
    BY <1>8, PageTurns DEF InBoard, InReads
<1>9. QED BY <1>1, <1>2, <1>3, <1>4, <1>5, <1>6, <1>7, <1>8, NextCases

\* A list that met no change has the right total, and two pages of the same rows show
\* a row at one place (the LIMIT and OFFSET of ListTasks, ListUsers, ListItems and
\* ListAuditLogs with their counts).
THEOREM PagesFit == Spec => []PagesAgree
<1>1. Init => PageInv BY PageInit
<1>2. CallsOK /\ LimiterInv /\ LaneInv /\ SortInv /\ AuditInv /\ PageInv /\ [Next]_vars => PageInv'
    BY PageStep DEF AuditInv
<1>3. PageInv => PagesAgree
    <2> SUFFICES ASSUME PageInv PROVE PagesAgree OBVIOUS
    <2>1. \A c \in Listed : CountsRows(c) /\ ShowsRows(c)
        BY SortAssumption DEF PageInv, PageOK, Listed, ListOps
    <2>2. ASSUME NEW c \in Listed, found[c].counted = found[c].listed
          PROVE  found[c].total = Cardinality(DOMAIN found[c].key)
        BY <2>1, <2>2 DEF CountsRows, ShowsRows
    <2>3. ASSUME NEW c \in Listed, NEW d \in Listed, found[c].key = found[d].key,
                 Unambiguous(found[c].key),
                 NEW i \in DOMAIN found[c].page, NEW j \in DOMAIN found[d].page
          PROVE  found[c].page[i] = found[d].page[j] <=> found[c].start + i = found[d].start + j
        <3> DEFINE key == found[c].key
        <3>1. IsFiniteSet(DOMAIN key) /\ Comparable(key) BY <2>1 DEF ShowsRows
        <3>2. PICK s \in Sorted(key) : /\ found[c].start + i \in 1..Cardinality(DOMAIN key)
                                       /\ found[c].page[i] = s[found[c].start + i]
            BY <2>1 DEF ShowsRows, Piece
        <3>3. PICK t \in Sorted(key) : /\ found[d].start + j \in 1..Cardinality(DOMAIN key)
                                       /\ found[d].page[j] = t[found[d].start + j]
            BY <2>1, <2>3 DEF ShowsRows, Piece
        <3> HIDE DEF key
        <3>4. Unambiguous(key) BY <2>3 DEF key
        <3>5. QED BY <3>1, <3>2, <3>3, <3>4, SamePlace
    <2>4. QED BY <2>2, <2>3 DEF PagesAgree
<1>4. QED
    BY <1>1, <1>2, <1>3, CallsAlways, LimiterAlways, SortAlways, PTL DEF Spec
=============================================================================
