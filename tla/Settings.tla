------------------------------ MODULE Settings ------------------------------
(***************************************************************************)
(* GET and PATCH /settings.  A user's four settings are rows of one table, *)
(* two of them repeated in notification_settings.  A patch first makes the *)
(* missing rows in a transaction of its own, then locks the rows, reads    *)
(* them, merges the patch into what it read and writes everything back.    *)
(***************************************************************************)
EXTENDS Requests

CONSTANT Users      \* the accounts, by their normalised e-mail address

VARIABLES
    settings,       \* per user and key the stored value, None if no row
    notification,   \* per user the rows of notification_settings, one or none
    draft,          \* what a patch is about to write
    wanted          \* history: the last value a committed patch gave each field

settingsVars == <<settings, notification, draft, wanted>>

keyDefaultReminder == "default_reminder_minutes_before_deadline"
keyDisableRandom == "disable_visual_randomness"

defaultSettings ==
    [reduced_motion |-> FALSE, disable_visual_randomness |-> FALSE,
     notifications_enabled |-> TRUE,
     default_reminder_minutes_before_deadline |-> 60]

SettingKeys == DOMAIN defaultSettings
NoRows == [k \in SettingKeys |-> None]

\* A missing or unreadable row counts as the default.
mapSettings(rows) ==
    [k \in SettingKeys |-> IF rows[k] = None THEN defaultSettings[k] ELSE rows[k]]

mergeSettings(current, patch) ==
    [k \in SettingKeys |-> IF k \in DOMAIN patch THEN patch[k] ELSE current[k]]

Reminders(s) == [enabled |-> s.notifications_enabled,
                 minutes |-> s.default_reminder_minutes_before_deadline]

\* Only known fields, none of them null or of another type (None).
decodeSettingsPatch(body) ==
    DOMAIN body \subseteq SettingKeys /\ \A k \in DOMAIN body : body[k] # None

ValidPatch(body) ==
    /\ decodeSettingsPatch(body)
    /\ keyDefaultReminder \in DOMAIN body => body[keyDefaultReminder] \in 0..10080

SettingsInit ==
    /\ settings \in {f \in [Users -> mix.rows \cup {NoRows}] :
                        \A u \in Users : u \notin DOMAIN mix.known => f[u] = NoRows}
    /\ notification = [u \in Users |-> IF settings[u] = NoRows THEN {}
                                       ELSE {Reminders(mapSettings(settings[u]))}]
    /\ draft = [c \in Calls |-> None]
    /\ wanted = [u \in Users |-> mapSettings(settings[u])]

\* INSERT ... ON CONFLICT DO NOTHING of every row, in one transaction.
ensureSettings(u) ==
    /\ settings' = [settings EXCEPT ![u] = mapSettings(@)]
    /\ notification' = [notification EXCEPT ![u] =
                           IF @ = {} THEN {Reminders(defaultSettings)} ELSE @]

GetSettings(c) ==
    /\ pc[c] = "getSettings"
    /\ ensureSettings(User(c))
    /\ Go(c, "s_read")
    /\ UNCHANGED <<limiterVars, audit, draft, wanted>>

ReadSettings(c) ==
    /\ pc[c] = "s_read"
    /\ draft' = [draft EXCEPT ![c] = mapSettings(settings[User(c)])]
    /\ Answer(c, "ok")
    /\ UNCHANGED <<limiterVars, audit, settings, notification, wanted>>

\* Decoding and validation come before the first statement.
PatchSettings(c) ==
    /\ pc[c] = "patchSettings"
    /\ IF ValidPatch(req[c].patch)
       THEN ensureSettings(User(c)) /\ Go(c, "s_lock")
       ELSE Answer(c, "validation_error") /\ UNCHANGED <<settings, notification>>
    /\ UNCHANGED <<limiterVars, audit, draft, wanted>>

LocksSettings(d, u) == pc[d] \in {"s_apply", "s_commit"} /\ User(d) = u

\* Mutant: the rows are read without being locked.
LockSettingsNot(c) ==
    /\ pc[c] = "s_lock"
    /\ Go(c, "s_apply")
    /\ UNCHANGED <<limiterVars, audit, settingsVars>>

\* SELECT ... FOR UPDATE waits for the patch that holds the rows.
LockSettings(c) ==
    /\ pc[c] = "s_lock"
    /\ \A d \in Calls : ~LocksSettings(d, User(c))
    /\ Go(c, "s_apply")
    /\ UNCHANGED <<limiterVars, audit, settingsVars>>

\* Mutant: the rows are read by SELECT ... FOR UPDATE over another connection,
\* which waits for the lock that this call itself holds.
ReadAndApplyElsewhere(c) ==
    /\ pc[c] = "s_apply"
    /\ \A d \in Calls : ~LocksSettings(d, User(c))
    /\ draft' = [draft EXCEPT ![c] =
                    mergeSettings(mapSettings(settings[User(c)]), req[c].patch)]
    /\ Go(c, "s_commit")
    /\ UNCHANGED <<limiterVars, audit, settings, notification, wanted>>

\* A new statement sees what committed while this one waited for the lock.
ReadAndApply(c) ==
    /\ pc[c] = "s_apply"
    /\ draft' = [draft EXCEPT ![c] =
                    mergeSettings(mapSettings(settings[User(c)]), req[c].patch)]
    /\ Go(c, "s_commit")
    /\ UNCHANGED <<limiterVars, audit, settings, notification, wanted>>

\* The updates reach rows that exist and nothing else.
SaveSettings(c) ==
    LET u == User(c)
    IN  /\ pc[c] = "s_commit"
        /\ settings' = [settings EXCEPT ![u] =
               [k \in SettingKeys |-> IF @[k] = None THEN None ELSE draft[c][k]]]
        /\ notification' = [notification EXCEPT ![u] = {Reminders(draft[c]) : row \in @}]
        /\ wanted' = [wanted EXCEPT ![u] = mergeSettings(@, req[c].patch)]
        /\ AnswerCommit(c, "ok")
        /\ UNCHANGED <<limiterVars, audit, draft>>

SettingsStep(c) ==
    \/ GetSettings(c) \/ ReadSettings(c)
    \/ PatchSettings(c) \/ LockSettings(c) \/ ReadAndApply(c) \/ SaveSettings(c)

-----------------------------------------------------------------------------
\* Patches of different fields that overlap do not undo each other: what the
\* settings show is, field by field, what the last committed patch naming the
\* field asked for, and the reminder row agrees with it.
PatchesKept ==
    \A u \in Users :
        /\ mapSettings(settings[u]) = wanted[u]
        /\ notification[u] \subseteq {Reminders(wanted[u])}

=============================================================================
