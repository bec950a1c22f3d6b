---------------------------- MODULE RewardLedger ----------------------------
(***************************************************************************)
(* What completing tasks promises, without requests, statements or locks:  *)
(* a task is paid at most once and never again changes its amount; paying  *)
(* it adds the amount to its owner's total and hands out, in the same      *)
(* step, every milestone the new total reaches; and whoever is told that   *)
(* a task was rewarded is told the amount it was really paid.              *)
(***************************************************************************)
EXTENDS Integers

CONSTANTS
    Users, Tasks, Requests,
    Owner,          \* the user a task belongs to
    StartXP,        \* the total a user begins with
    Amounts,        \* what a task may pay
    XPPerLevel,
    MilestoneEvery  \* every so many levels there is a milestone

VARIABLES
    paid,           \* the amounts of the tasks paid so far
    total,          \* XP per user
    milestones,     \* milestones handed out, per user
    told            \* per request, the amount of the task it was told

ledgerVars == <<paid, total, milestones, told>>

\* The milestones on the levels a total of xp has reached.
Reached(xp) == {l \in 1..(xp \div XPPerLevel + 1) : l % MilestoneEvery = 0}

LedgerInit ==
    /\ paid = [t \in {} |-> 0]
    /\ total = StartXP
    /\ milestones = [u \in Users |-> Reached(StartXP[u])]
    /\ told = [r \in {} |-> 0]

\* Task t is paid the amount the new ledger holds for it.
Pay(t) ==
    /\ t \notin DOMAIN paid
    /\ DOMAIN paid' = DOMAIN paid \cup {t}
    /\ paid'[t] \in Amounts
    /\ \A s \in DOMAIN paid : paid'[s] = paid[s]
    /\ total' = [total EXCEPT ![Owner[t]] = @ + paid'[t]]
    /\ milestones' = [milestones EXCEPT ![Owner[t]] = Reached(total'[Owner[t]])]
    /\ UNCHANGED told

Tell(r, t) ==
    /\ r \notin DOMAIN told
    /\ t \in DOMAIN paid
    /\ told' = [q \in DOMAIN told \cup {r} |-> IF q = r THEN paid[t] ELSE told[q]]
    /\ UNCHANGED <<paid, total, milestones>>

LedgerNext ==
    \/ \E t \in Tasks : Pay(t)
    \/ \E r \in Requests, t \in Tasks : Tell(r, t)

LedgerSpec == LedgerInit /\ [][LedgerNext]_ledgerVars

=============================================================================
