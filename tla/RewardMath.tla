----------------------------- MODULE RewardMath -----------------------------
(***************************************************************************)
(* The pure balance rules of task completion: base XP, the rolled task     *)
(* multiplier, the equipment multiplier, the XP finally granted, levels    *)
(* and their milestones, and the rarity of a drop.                         *)
(*                                                                         *)
(* Multipliers are whole thousandths (Unit = 1.000), as the numeric(6,3)   *)
(* columns store them.  A roll of the completion is a whole number of      *)
(* billionths, exactly what cryptoRNG.Float64 draws; the roll behind an    *)
(* item multiplier only matters to the third decimal and is a whole number *)
(* of millionths.                                                          *)
(***************************************************************************)
EXTENDS Integers, FiniteSets, FiniteSetsExt

Unit == 1000
Billion == 1000000000
Million == 1000000

XPPerLevel == 1000
MilestoneEvery == 5

Complexities == {"tiny", "small", "medium", "large"}
Priorities == {"low", "normal", "high"}
Rarities == {"common", "rare", "epic", "legendary"}
NoDrop == "none"

-----------------------------------------------------------------------------
(* Experience and levels. *)

complexityXP == [tiny |-> 50, small |-> 100, medium |-> 200, large |-> 350]

BaseXP(complexity, priority) ==
    complexityXP[complexity] + (IF priority = "high" THEN 50 ELSE 0)

BaseXPs == {BaseXP(c, p) : c \in Complexities, p \in Priorities}

\* Mutant: levels counted from zero.
LevelFromZero(xp) == xp \div XPPerLevel

LevelForXP(xp) == xp \div XPPerLevel + 1

\* Mutant: the level just reached is left out.
LevelsBelow(oldLevel, newLevel) ==
    {l \in (oldLevel + 1)..(newLevel - 1) : l % MilestoneEvery = 0}

\* The milestone levels reached on the way from oldLevel to newLevel.
LevelsForReward(oldLevel, newLevel) ==
    {l \in (oldLevel + 1)..newLevel : l % MilestoneEvery = 0}

-----------------------------------------------------------------------------
(* Multipliers. *)

taskMultTable ==
    {[lo |-> 0,         hi |-> 700000000, mult |-> 1000],
     [lo |-> 700000000, hi |-> 900000000, mult |-> 1250],
     [lo |-> 900000000, hi |-> 980000000, mult |-> 1500],
     [lo |-> 980000000, hi |-> Billion,   mult |-> 2000]}

TaskMultipliers == {1000, 1250, 1500, 2000}

TaskMultiplier(roll) ==
    (CHOOSE e \in taskMultTable : e.lo <= roll /\ roll < e.hi).mult

EquipmentMultipliers == Unit..(2 * Unit)

\* The product of the multipliers of the worn items, clamped.  The float product
\* has more decimals than thousandths: the model keeps every thousandth between
\* the product rounded down and the product rounded up after each factor.
EquipmentMultiplier(items) ==
    LET Down(item, product) == (product * item.mult) \div Unit
        Up(item, product) == (product * item.mult + Unit - 1) \div Unit
        Clamp(product) == IF product < Unit THEN Unit
                          ELSE IF product > 2 * Unit THEN 2 * Unit ELSE product
    IN  (Clamp(FoldSet(Down, Unit, items))..Clamp(FoldSet(Up, Unit, items)))
            \cap EquipmentMultipliers

\* Mutant: the equipment multiplier taken for a bonus on top of 1.000.
FinalXPBonus(base, taskMult, equipMult) ==
    {(base * taskMult * (Unit + equipMult)) \div Million}

\* base * taskMult * equipMult truncated to an integer.  The product is taken
\* in float64: base * taskMult is exact, and when the exact result is whole
\* while equipMult is not a multiple of 1/8, the double may lie just below it
\* and lose one XP.
FinalXP(base, taskMult, equipMult) ==
    LET exact == base * taskMult * equipMult
        xp == exact \div Million
    IN  IF exact % Million = 0 /\ equipMult % 125 # 0
        THEN {xp - 1, xp}
        ELSE {xp}

\* No grant exceeds (350 + 50) * 2.000 * 2.000.
MaxFinalXP == 1600

-----------------------------------------------------------------------------
(* Drops. *)

\* Mutant: the commonest rarity is tried first.
CommonestFirst == <<"common", "rare", "epic", "legendary">>

dropOrder == <<"legendary", "epic", "rare", "common">>

\* Cumulative thresholds in millionths, caps in billionths.
baseThreshold ==
    [common |-> 220000, rare |-> 70000, epic |-> 20000, legendary |-> 4000]
dropCap ==
    [common |-> 450000000, rare |-> 180000000,
     epic |-> 60000000, legendary |-> 15000000]

\* DropMultiplier in units of 1/300: final_xp / 300 clamped to [0.5, 2.5].
DropMultiplier(finalXP) ==
    IF finalXP < 150 THEN 150 ELSE IF finalXP > 750 THEN 750 ELSE finalXP

\* base * (m / 300) / 1.25 in billionths, capped.
EffectiveThreshold(rarity, dropMult) ==
    LET eff == (baseThreshold[rarity] * dropMult * 8) \div 3
    IN  IF eff > dropCap[rarity] THEN dropCap[rarity] ELSE eff

\* The rarest of the rarities a roll is good for.
Rarest(hits) ==
    IF hits = {} THEN NoDrop
    ELSE dropOrder[CHOOSE i \in hits : \A j \in hits : i <= j]

\* The code compares doubles.  Roll and threshold are more than a quarter of a
\* billionth apart unless the threshold is whole, which it is when dropMult is a
\* multiple of 3; its double may then lie just below the roll that equals it.
DropRarity(roll, dropMult) ==
    LET hits == {i \in 1..4 : roll <= EffectiveThreshold(dropOrder[i], dropMult)}
        ties == {i \in hits : /\ dropMult % 3 = 0
                              /\ roll = EffectiveThreshold(dropOrder[i], dropMult)}
    IN  {Rarest(hits), Rarest(hits \ ties)}

\* [min, max] of a granted item's multiplier.
RarityMultiplierRange ==
    [common |-> <<1020, 1080>>, rare |-> <<1080, 1160>>,
     epic |-> <<1160, 1280>>, legendary |-> <<1280, 1450>>]

\* Mutant: the range taken as a number of values instead of a width.
RollOneTooWide(roll, rarity) ==
    LET lo == RarityMultiplierRange[rarity][1]
        hi == RarityMultiplierRange[rarity][2]
    IN  lo + (roll * (hi - lo + 1) + Million \div 2) \div Million

\* The multiplier rolled for a granted item, rounded to thousandths.
RollRarityMultiplier(roll, rarity) ==
    LET lo == RarityMultiplierRange[rarity][1]
        hi == RarityMultiplierRange[rarity][2]
    IN  lo + (roll * (hi - lo) + Million \div 2) \div Million

-----------------------------------------------------------------------------
(* task_reward_rolls.roll_value is numeric(8,7) with CHECK (roll_value < 1): *)
(* the roll is rounded half up to ten-millionths before the check.           *)

RollStorable(roll) == (roll + 50) \div 100 < 10000000

=============================================================================
