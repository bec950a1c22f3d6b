------------------------- MODULE RewardMathSamples -------------------------
(***************************************************************************)
(* Walks through sampled inputs of RewardMath and compares its operators   *)
(* with what the balance rules are meant to guarantee.                     *)
(***************************************************************************)
EXTENDS RewardMath, TLC

CONSTANTS EquipSamples, RollSamples, ItemRollSamples, XPSamples

ASSUME SamplesAssumption ==
    /\ EquipSamples \subseteq EquipmentMultipliers
    /\ RollSamples \subseteq 0..(Billion - 1)
    /\ ItemRollSamples \subseteq 0..(Million - 1)
    /\ XPSamples \subseteq Nat

VARIABLES base, taskMult, equipMult, roll, itemRoll, xp

vars == <<base, taskMult, equipMult, roll, itemRoll, xp>>

Init ==
    /\ base = 50 /\ taskMult = Unit /\ equipMult = Unit
    /\ roll = 0 /\ itemRoll = 0 /\ xp = 0

NewTask == base' \in BaseXPs /\ UNCHANGED <<taskMult, equipMult, roll, itemRoll, xp>>
NewRoll ==
    /\ roll' \in RollSamples
    /\ taskMult' \in TaskMultipliers
    /\ UNCHANGED <<base, equipMult, itemRoll, xp>>
NewEquipment ==
    /\ equipMult' \in EquipSamples
    /\ UNCHANGED <<base, taskMult, roll, itemRoll, xp>>
NewItemRoll ==
    /\ itemRoll' \in ItemRollSamples
    /\ UNCHANGED <<base, taskMult, equipMult, roll, xp>>
NewProgress ==
    /\ xp' \in XPSamples
    /\ UNCHANGED <<base, taskMult, equipMult, roll, itemRoll>>

Next == NewTask \/ NewRoll \/ NewEquipment \/ NewItemRoll \/ NewProgress

Spec == Init /\ [][Next]_vars

Finals == FinalXP(base, taskMult, equipMult)

-----------------------------------------------------------------------------
\* A completion pays at least the base XP of the task and at most four times
\* it, whatever the rolls and the rounding of the float product.
PaysBetweenBaseAndFourTimes ==
    \A f \in Finals : base <= f /\ f <= 4 * base /\ f <= MaxFinalXP

\* Rewarding milestones step by step gives each of them exactly once, as many
\* as one jump over the same XP, and one completion never reaches two.
MilestonesSplit ==
    \A f \in Finals :
        LET after == xp + f
            there == after + 5000
            first == LevelsForReward(LevelForXP(xp), LevelForXP(after))
            second == LevelsForReward(LevelForXP(after), LevelForXP(there))
        IN  /\ first \cap second = {}
            /\ first \cup second = LevelsForReward(LevelForXP(xp), LevelForXP(there))
            /\ Cardinality(second) = 1
            /\ Cardinality(first) <= 1
            /\ \A l \in first : xp < (l - 1) * XPPerLevel /\ (l - 1) * XPPerLevel <= after

\* Whatever the XP granted, every rarity and "no drop" stay possible: the
\* thresholds grow from the rarest to the commonest rarity, stay below the caps
\* of the table (the clamped multiplier never reaches them), and grow with XP; a
\* roll below its threshold is sure of a rarity, whatever doubles do at equality.
EveryRarityReachable ==
    \A f \in Finals :
        LET Threshold(i, x) == EffectiveThreshold(dropOrder[i], DropMultiplier(x))
        IN  /\ \A i \in 1..3 : Threshold(i, f) < Threshold(i + 1, f)
            /\ \A i \in 1..4 : Threshold(i, f) < dropCap[dropOrder[i]]
            /\ \A i \in 1..4 :
                  DropRarity(Threshold(i, f) - 1, DropMultiplier(f)) = {dropOrder[i]}
            /\ \A i \in 1..4 : Threshold(i, f) <= Threshold(i, f + 100)
            /\ NoDrop \in DropRarity(roll, DropMultiplier(f)) =>
                  roll >= Threshold(4, f)

\* The multiplier of a granted item satisfies the CHECK constraint of its
\* rarity, at both ends of the roll, and rarer items are never weaker.
ItemMultiplierInRange ==
    /\ \A rarity \in Rarities :
        LET m == RollRarityMultiplier(itemRoll, rarity)
        IN  RarityMultiplierRange[rarity][1] <= m /\ m <= RarityMultiplierRange[rarity][2]
    /\ \A i \in 1..3 : RollRarityMultiplier(itemRoll, dropOrder[i]) >=
                       RollRarityMultiplier(itemRoll, dropOrder[i + 1])

-----------------------------------------------------------------------------
(* Samples: ends of ranges, and the rolls next to every bound of the tables. *)

Equipments == {1000, 1020, 1080, 1140, 1280, 1450, 1999, 2000}
Rolls == {0, 4800000, 15000000, 15000001, 88000000, 440000000, 440000001,
          699999999, 700000000, 899999999, 900000000, 979999999, 980000000,
          999999999}
ItemRolls == {0, 8333, 500000, 991667, 999999}
XPs == {0, 999, 3900, 3999, 4000, 8400, 1000000}

=============================================================================
