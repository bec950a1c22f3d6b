------------------------------ MODULE Accounts ------------------------------
(***************************************************************************)
(* Registration with the first rows of a user, login with the tracker of   *)
(* failed attempts, and the profile.  What follows a successful login, the *)
(* session and its refresh tokens, is the module Sessions; here it is one  *)
(* step that may fail.                                                     *)
(***************************************************************************)
EXTENDS Settings

CONSTANTS
    Emails,         \* e-mails as typed, numbered in alphabetical order
    Mailbox,        \* lower(btrim(email)) of the database
    FailureKey,     \* normalize(email) of the service, None if it is blank
    Threshold,
    FailureWindow

ASSUME AccountAssumption ==
    /\ Mailbox \in [Emails -> Users]
    /\ Threshold \in Nat \ {0}
    /\ FailureWindow \in Nat \ {0}

\* The service trims and folds more than the database does.
ASSUME KeyAssumption ==
    \A e, f \in Emails : Mailbox[e] = Mailbox[f] => FailureKey[e] = FailureKey[f]

VARIABLES
    account,        \* users: e-mail, role, password, the call that registered it
    profile,        \* the display name, None if there is no row
    progressed,     \* the users with a row of progressions
    companions,     \* the users with an active mascot
    fails,          \* FailureTracker.hits: the failed logins remembered, with times
    alarmed,        \* the failed logins for which Add returned true
    trail           \* history: the logins decided per key, in order

rowVars == <<account, profile, progressed, companions>>
trackerVars == <<fails, alarmed, trail>>
accountVars == <<rowVars, trackerVars>>

FailureKeys == {FailureKey[e] : e \in Emails} \ {None}
\* An account as the seed made it, and as a registration makes it.
SeededRow(role, u) ==
    [email |-> CHOOSE e \in Emails : Mailbox[e] = u, role |-> role,
     password |-> "secret", by |-> None, created |-> 0]
SeededUser(u) == SeededRow(mix.known[u], u)
NewUser(c) ==
    [email |-> req[c].email, role |-> "user", password |-> req[c].password,
     by |-> c, created |-> now]

AccountsInit ==
    /\ account = [u \in Users |-> IF u \in DOMAIN mix.known THEN SeededUser(u) ELSE None]
    /\ profile = [u \in Users |-> IF u \in DOMAIN mix.known THEN "seeded" ELSE None]
    /\ progressed = DOMAIN mix.known
    /\ companions = DOMAIN mix.known
    /\ fails = [k \in FailureKeys |-> {}]
    /\ alarmed = {}
    /\ trail = [k \in FailureKeys |-> <<>>]

Named(c) == Mailbox[req[c].email]
KeyOf(c) == FailureKey[req[c].email]

-----------------------------------------------------------------------------
(* Registration. *)

\* An e-mail, a name (None: blank), eight bytes of password ("short": fewer).
ValidRegistration(r) ==
    FailureKey[r.email] # None /\ r.password # "short" /\ r.name # None

Inserting(d, u) == pc[d] = "r_commit" /\ Named(d) = u

\* Mutant: the user is inserted outside the transaction of its first rows.
RegisterAtOnce(c) ==
    /\ pc[c] = "register"
    /\ IF ~ValidRegistration(req[c])
       THEN Answer(c, "invalid_credentials") /\ UNCHANGED account
       ELSE IF account[Named(c)] # None
       THEN Answer(c, "email_taken") /\ UNCHANGED account
       ELSE /\ account' = [account EXCEPT ![Named(c)] = NewUser(c)]
            /\ Go(c, "r_commit")
    /\ UNCHANGED <<limiterVars, audit, settingsVars, profile, progressed,
                   companions, trackerVars>>

\* The INSERT of users.  The unique index on the mailbox makes it wait for
\* another uncommitted insert, and fail if there is a row.
Register(c) ==
    /\ pc[c] = "register"
    /\ IF ~ValidRegistration(req[c]) THEN Answer(c, "invalid_credentials")
       ELSE /\ \A d \in Calls : ~Inserting(d, Named(c))
            /\ IF account[Named(c)] # None THEN Answer(c, "email_taken")
                                           ELSE Go(c, "r_commit")
    /\ UNCHANGED <<limiterVars, audit, settingsVars, accountVars>>

\* insertBaselines and the commit.  The companion is the default mascot,
\* which a migration puts there and nothing in the server takes away.
CommitUser(c) ==
    LET u == Named(c)
    IN  /\ pc[c] = "r_commit"
        /\ account' = [account EXCEPT ![u] = NewUser(c)]
        /\ profile' = [profile EXCEPT ![u] = req[c].name]
        /\ progressed' = progressed \cup {u}
        /\ companions' = companions \cup {u}
        /\ settings' = [settings EXCEPT ![u] = defaultSettings]
        /\ notification' = [notification EXCEPT ![u] = {Reminders(defaultSettings)}]
        /\ Go(c, "r_note") \/ (mix.faults /\ Answer(c, "internal"))
        /\ UNCHANGED <<limiterVars, audit, draft, wanted, trackerVars>>

\* The entry of the log stands on its own, before the session is made.
NoteRegistration(c) ==
    /\ pc[c] = "r_note"
    /\ BestEffortAudit(c, "auth.register")
    /\ Go(c, "issuePair")
    /\ UNCHANGED <<limiterVars, settingsVars, accountVars>>

IssuePair(c) ==
    /\ pc[c] = "issuePair"
    /\ AnswerCommit(c, IF req[c].op = "register" THEN "created" ELSE "ok")
    /\ UNCHANGED <<limiterVars, audit, settingsVars, accountVars>>

-----------------------------------------------------------------------------
(* Login. *)

RightPassword(c) ==
    /\ account[Named(c)] # None /\ profile[Named(c)] # None
    /\ account[Named(c)].password = req[c].password

\* UserByEmail and CheckPassword.  An error of the database counts as a wrong
\* password.
Login(c) ==
    /\ pc[c] = "login"
    /\ \/ RightPassword(c) /\ Go(c, "l_right")
       \/ Go(c, "l_wrong")
    /\ UNCHANGED <<limiterVars, audit, settingsVars, accountVars>>

\* The failures inside the window, which is open at its old end.
RecentFails(k) == {hit \in fails[k] : hit.time > now - FailureWindow}

Decided(c, kind) ==
    trail' = [trail EXCEPT ![KeyOf(c)] =
                 Append(@, [call |-> c, kind |-> kind, time |-> now])]

\* FailureTracker.Add, which reports reaching the threshold, not being above it.
RecordFailedLogin(c) ==
    LET k == KeyOf(c)
        kept == RecentFails(k) \cup {[call |-> c, time |-> now]}
    IN  /\ pc[c] = "l_wrong"
        /\ IF k = None THEN UNCHANGED <<trackerVars, audit>>
           ELSE /\ fails' = [fails EXCEPT ![k] = kept]
                /\ Decided(c, "wrong")
                /\ IF Cardinality(kept) = Threshold
                   THEN /\ alarmed' = alarmed \cup {c}
                        /\ BestEffortAudit(c, "auth.login_failure_threshold")
                   ELSE UNCHANGED <<alarmed, audit>>
        /\ Answer(c, "invalid_credentials")
        /\ UNCHANGED <<limiterVars, settingsVars, rowVars>>

\* Mutant: a success does not clear the failures before it.
LoginSucceededKeeps(c) ==
    /\ pc[c] = "l_right"
    /\ Decided(c, "right")
    /\ BestEffortAudit(c, "auth.login_success")
    /\ Go(c, IF account[Named(c)].role = "admin" THEN "l_admin" ELSE "issuePair")
    /\ UNCHANGED <<limiterVars, settingsVars, rowVars, fails, alarmed>>

\* FailureTracker.Reset.
LoginSucceeded(c) ==
    /\ pc[c] = "l_right"
    /\ fails' = [fails EXCEPT ![KeyOf(c)] = {}]
    /\ Decided(c, "right")
    /\ BestEffortAudit(c, "auth.login_success")
    /\ Go(c, IF account[Named(c)].role = "admin" THEN "l_admin" ELSE "issuePair")
    /\ UNCHANGED <<limiterVars, settingsVars, rowVars, alarmed>>

NoteAdminLogin(c) ==
    /\ pc[c] = "l_admin"
    /\ BestEffortAudit(c, "auth.admin_login")
    /\ Go(c, "issuePair")
    /\ UNCHANGED <<limiterVars, settingsVars, accountVars>>

-----------------------------------------------------------------------------
(* The profile; a token outlives nothing here, users are never deleted. *)

Me(c) ==
    /\ pc[c] = "me"
    /\ Answer(c, IF account[User(c)] # None /\ profile[User(c)] # None THEN "ok" ELSE "internal")
    /\ UNCHANGED <<limiterVars, audit, settingsVars, accountVars>>

UpdateDisplayName(c) ==
    /\ pc[c] = "patchProfile"
    /\ IF req[c].name = None THEN Answer(c, "validation_error") /\ UNCHANGED profile
       ELSE /\ profile' = [profile EXCEPT ![User(c)] = IF @ = None THEN None ELSE req[c].name]
            /\ Go(c, "getProfile")
    /\ UNCHANGED <<limiterVars, audit, settingsVars, account, progressed, companions,
                   trackerVars>>

Summary(c) ==
    /\ pc[c] = "getProfile"
    /\ Answer(c, IF profile[User(c)] # None /\ User(c) \in progressed THEN "ok" ELSE "internal")
    /\ UNCHANGED <<limiterVars, audit, settingsVars, accountVars>>

Progression(c) ==
    /\ pc[c] = "getProgression"
    /\ Answer(c, IF User(c) \in progressed THEN "ok" ELSE "internal")
    /\ UNCHANGED <<limiterVars, audit, settingsVars, accountVars>>

AccountStep(c) ==
    \/ Register(c) \/ CommitUser(c) \/ NoteRegistration(c) \/ IssuePair(c)
    \/ Login(c) \/ RecordFailedLogin(c) \/ LoginSucceeded(c) \/ NoteAdminLogin(c)
    \/ Me(c) \/ UpdateDisplayName(c) \/ Summary(c) \/ Progression(c)

-----------------------------------------------------------------------------
\* Whatever fails or races, a registration leaves a user with every first row
\* or no row at all; a mailbox is registered once, however it is spelled; and
\* who is told that it is taken is told the truth.
AccountWhole ==
    /\ \A u \in Users :
          LET rows == [k \in SettingKeys |-> settings[u][k] # None]
              all == /\ profile[u] # None /\ u \in progressed /\ u \in companions
                     /\ notification[u] # {} /\ \A k \in SettingKeys : rows[k]
              any == \/ profile[u] # None \/ u \in progressed \/ u \in companions
                     \/ notification[u] # {} \/ \E k \in SettingKeys : rows[k]
          IN  IF account[u] = None THEN ~any ELSE account[u].by # None => all
    /\ \A c \in Calls :
          /\ Answered(c, {"created"}) /\ req[c].op = "register" => account[Named(c)].by = c
          /\ Answered(c, {"email_taken"}) =>
                account[Named(c)] # None /\ account[Named(c)].by # c

\* The failures of a key up to the i-th decision about it, in the window that
\* ends there and since the last success.
RunOfFails(k, i) ==
    {j \in 1..i :
        /\ trail[k][j].time > trail[k][i].time - FailureWindow
        /\ \A h \in j..i : trail[k][h].kind = "wrong"}

\* An alarm is raised by the failure that fills a window, and a window with as
\* many failures as the threshold or more has been preceded by an alarm that no
\* success has come after: a burst is never silent, and a success starts anew.
AlarmExact ==
    \A k \in FailureKeys : \A i \in DOMAIN trail[k] :
        trail[k][i].kind = "wrong" =>
            /\ trail[k][i].call \in alarmed => Cardinality(RunOfFails(k, i)) = Threshold
            /\ Cardinality(RunOfFails(k, i)) >= Threshold =>
                  \E j \in 1..i : /\ trail[k][j].call \in alarmed
                                  /\ \A h \in j..i : trail[k][h].kind = "wrong"

=============================================================================
