------------------------------- MODULE Visual -------------------------------
(***************************************************************************)
(* The look of the mobile application: a value for each slot, stored as    *)
(* one row per slot.  A refresh reads whether randomness is disabled, and  *)
(* then either keeps the stored look or rolls a new one and upserts its    *)
(* rows, in the random order of a Go map, in one transaction.              *)
(***************************************************************************)
EXTENDS Settings

CONSTANT Slots      \* visual_state.key

VARIABLES
    visual,         \* per user and slot the stored value, None if no row
    look,           \* the look a request has rolled, loaded or fallen back to
    todo            \* the slots a save has still to write, in its order

visualVars == <<visual, look, todo>>

\* A value is the name of the look it was part of: the call that rolled it,
\* the fallback, or a look of an earlier catalog whose values are not allowed.
fallback == [s \in Slots |-> <<"fallback">>]
roll(c) == [s \in Slots |-> <<"rolled", c>>]
NoLook == [s \in Slots |-> None]
Outdated == [s \in Slots |-> <<"outdated">>]
\* The demo seed writes the rows of some slots only.
PartialLook(S) == [s \in Slots |-> IF s \in S THEN <<"fallback">> ELSE None]

AllowedEvents ==
    {"app-enter", "page-enter", "task-created", "task-completed", "level-up",
     "manual-refresh"}

Valid(state) == \A s \in Slots : state[s] \notin {None, <<"outdated">>}

Orders == {f \in [1..Cardinality(Slots) -> Slots] :
              \A i, j \in 1..Cardinality(Slots) : f[i] = f[j] => i = j}

VisualInit ==
    /\ visual \in {f \in [Users -> mix.looks \cup {NoLook}] :
                      \A u \in Users : u \notin DOMAIN mix.known => f[u] = NoLook}
    /\ look = [c \in Calls |-> None]
    /\ todo = [c \in Calls |-> <<>>]

\* GET /visual-state: the stored look if it is complete and allowed.
GetVisual(c) ==
    /\ pc[c] = "getVisual"
    /\ look' = [look EXCEPT ![c] = IF Valid(visual[User(c)]) THEN visual[User(c)]
                                   ELSE fallback]
    /\ Answer(c, "ok")
    /\ UNCHANGED <<limiterVars, audit, settingsVars, visual, todo>>

BeginSave(c, state) ==
    /\ look' = [look EXCEPT ![c] = state]
    /\ \E order \in Orders : todo' = [todo EXCEPT ![c] = order]
    /\ Go(c, "v_save")

VisualRandomDisabled(u) == mapSettings(settings[u])[keyDisableRandom]

\* The row of the setting is made if it is missing, by a statement of its own.
RefreshVisual(c) ==
    /\ pc[c] = "refreshVisual"
    /\ IF req[c].event \in AllowedEvents
       THEN /\ settings' = [settings EXCEPT ![User(c)][keyDisableRandom] =
                               mapSettings(settings[User(c)])[keyDisableRandom]]
            /\ Go(c, "v_flag")
       ELSE Answer(c, "validation_error") /\ UNCHANGED settings
    /\ UNCHANGED <<limiterVars, audit, notification, draft, wanted, visualVars>>

ReadFlag(c) ==
    /\ pc[c] = "v_flag"
    /\ IF VisualRandomDisabled(User(c))
       THEN Go(c, "v_load") /\ UNCHANGED <<look, todo>>
       ELSE BeginSave(c, roll(c))
    /\ UNCHANGED <<limiterVars, audit, settingsVars, visual>>

\* Mutant: the fallback is saved without a look at what is stored.
LoadVisualUnread(c) ==
    /\ pc[c] = "v_load"
    /\ BeginSave(c, fallback)
    /\ UNCHANGED <<limiterVars, audit, settingsVars, visual>>

\* Randomness is disabled: a valid look stays, anything else becomes the fallback.
LoadVisual(c) ==
    /\ pc[c] = "v_load"
    /\ IF Valid(visual[User(c)])
       THEN /\ look' = [look EXCEPT ![c] = visual[User(c)]]
            /\ Answer(c, "ok")
            /\ UNCHANGED todo
       ELSE BeginSave(c, fallback)
    /\ UNCHANGED <<limiterVars, audit, settingsVars, visual>>

\* The rows an open save has upserted are locked until it ends.
HoldsSlot(d, u, s) ==
    pc[d] = "v_save" /\ User(d) = u /\ s \in Slots
    /\ \A i \in 1..Len(todo[d]) : todo[d][i] # s

WaitsForSave(c, d) ==
    /\ c # d
    /\ pc[c] = "v_save" /\ todo[c] # <<>>
    /\ HoldsSlot(d, User(c), Head(todo[c]))

\* Mutant: every upsert is a transaction of its own.
UpsertSlotCommitted(c) ==
    /\ pc[c] = "v_save" /\ todo[c] # <<>>
    /\ visual' = [visual EXCEPT ![User(c)][Head(todo[c])] = look[c][Head(todo[c])]]
    /\ todo' = [todo EXCEPT ![c] = Tail(@)]
    /\ UNCHANGED <<limiterVars, pc, ans, audit, settingsVars, look>>

UpsertSlot(c) ==
    /\ pc[c] = "v_save" /\ todo[c] # <<>>
    /\ \A d \in Calls : ~WaitsForSave(c, d)
    /\ todo' = [todo EXCEPT ![c] = Tail(@)]
    /\ UNCHANGED <<limiterVars, pc, ans, audit, settingsVars, visual, look>>

\* The database aborts one of the saves that wait for each other in a circle.
DeadlockVictim(c) ==
    /\ pc[c] = "v_save"
    /\ InCircle(c, {p \in Calls \X Calls : WaitsForSave(p[1], p[2])})
    /\ Answer(c, "internal")
    /\ UNCHANGED <<limiterVars, audit, settingsVars, visualVars>>

CommitVisual(c) ==
    /\ pc[c] = "v_save" /\ todo[c] = <<>>
    /\ visual' = [visual EXCEPT ![User(c)] = look[c]]
    /\ AnswerCommit(c, "ok")
    /\ UNCHANGED <<limiterVars, audit, settingsVars, look, todo>>

VisualStep(c) ==
    \/ GetVisual(c) \/ RefreshVisual(c) \/ ReadFlag(c) \/ LoadVisual(c)
    \/ UpsertSlot(c) \/ DeadlockVictim(c) \/ CommitVisual(c)

-----------------------------------------------------------------------------
\* Concurrent refreshes never leave a mixture of their looks: what is stored is
\* what was stored at first, or all of it comes from one save.
VisualWhole ==
    \A u \in Users :
        \/ visual[u] \in mix.looks \cup {NoLook}
        \/ \A s, t \in Slots : visual[u][s] = visual[u][t]

=============================================================================
