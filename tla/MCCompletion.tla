---------------------------- MODULE MCCompletion ----------------------------
(***************************************************************************)
(* Instances of Completion for TLC.  Rolls are representatives of the      *)
(* outcomes they lead to; users start just below a milestone.              *)
(***************************************************************************)
EXTENDS Completion, TLC

CONSTANTS u1, u2, t1, t2, r1, r2, r3

OneUser == {u1}
TwoUsers == {u1, u2}
OneTask == {t1}
TwoTasks == {t1, t2}
TwoRequests == {r1, r2}
ThreeRequests == {r1, r2, r3}

AllOwnedByU1 == [t \in Tasks |-> u1]

\* 3700 XP: level 4, and one or two completions short of level 5.  The other
\* user, who owns no task, has just registered.
BelowMilestone == [u \in Users |-> IF u = u1 THEN 3700 ELSE 0]

\* One legendary item, or two of them in one slot.
OneItem == {1}
OneRarity == <<"legendary">>
OneSlot == <<"hand">>
PairOfItems == 1..2
PairRarities == <<"legendary", "legendary">>
PairSlots == <<"hand", "hand">>

LargeOnly == {<<"large", "normal">>}
SmallAndLarge == {<<"small", "normal">>, <<"large", "high">>}

LowRoll == {0}                           \* multiplier 1.00
LowAndHighRoll == {0, 980000000}         \* multipliers 1.00 and 2.00
NoDropRoll == {500000000}
DropOrNot == {0, 500000000}              \* legendary, nothing
LastRoll == {999999999}                  \* the largest roll the RNG yields
MiddleItemRoll == {500000}

Symmetry == Permutations(Requests)

=============================================================================
