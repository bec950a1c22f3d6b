--------------------------- MODULE RewardMathProofs ---------------------------
(***************************************************************************)
(* The properties of RewardMathSamples for every sample: since the sample  *)
(* sets are arbitrary subsets of the legal inputs, these are statements    *)
(* about all multipliers and rolls, not only about those TLC walks.        *)
(***************************************************************************)
EXTENDS RewardMathSamples, RewardMathLemmas, FiniteSetTheorems

\* The inputs are legal ones.
Legal ==
    /\ base \in {50, 100, 150, 200, 250, 350, 400}
    /\ taskMult \in TaskMultipliers
    /\ equipMult \in EquipmentMultipliers
    /\ itemRoll \in 0..(Million - 1)
    /\ roll \in 0..(Billion - 1)
    /\ xp \in Nat

\* Every input the walk can reach is legal.
LEMMA LegalInputs == Spec => []Legal
  <1>1. Init => Legal
    <2>1. Unit \in TaskMultipliers /\ Unit \in EquipmentMultipliers
      BY SMT DEF Unit, TaskMultipliers, EquipmentMultipliers
    <2>2. 0 \in 0..(Million - 1) /\ 0 \in 0..(Billion - 1) /\ 0 \in Nat
      BY MillionType, BillionType, SMT
    <2> QED
      BY <2>1, <2>2 DEF Init, Legal
  <1>2. Legal /\ [Next]_vars => Legal'
    <2> SUFFICES ASSUME Legal, [Next]_vars
                 PROVE  Legal'
      OBVIOUS
    <2>1. CASE NewTask
      <3>1. base' \in {50, 100, 150, 200, 250, 350, 400}
        BY <2>1, BaseType DEF NewTask, BaseXPs
      <3> QED
        BY <2>1, <3>1 DEF NewTask, Legal
    <2>2. CASE NewRoll
      BY <2>2, SamplesAssumption DEF NewRoll, Legal
    <2>3. CASE NewEquipment
      BY <2>3, SamplesAssumption DEF NewEquipment, Legal
    <2>4. CASE NewItemRoll
      BY <2>4, SamplesAssumption DEF NewItemRoll, Legal
    <2>5. CASE NewProgress
      BY <2>5, SamplesAssumption DEF NewProgress, Legal
    <2>6. CASE UNCHANGED vars
      BY <2>6 DEF vars, Legal
    <2> QED
      BY <2>1, <2>2, <2>3, <2>4, <2>5, <2>6 DEF Next
  <1> QED
    BY <1>1, <1>2, PTL DEF Spec

\* A completion pays between the base XP and four times it, for every task,
\* roll and equipment (reward/math.go FinalXP).
THEOREM PaysBetween == Spec => []PaysBetweenBaseAndFourTimes
  <1>1. Legal => PaysBetweenBaseAndFourTimes
    <2> SUFFICES ASSUME Legal, NEW f \in Finals
                 PROVE  base <= f /\ f <= 4 * base /\ f <= MaxFinalXP
      BY DEF PaysBetweenBaseAndFourTimes
    <2>1. f \in 0..MaxFinalXP /\ base <= f /\ f <= 4 * base
      BY FinalBounds DEF Legal, Finals
    <2>2. f <= MaxFinalXP
      BY <2>1, SMT DEF MaxFinalXP
    <2> QED
      BY <2>1, <2>2
  <1> QED
    BY <1>1, LegalInputs, PTL

\* Every rolled item multiplier satisfies the CHECK constraint of its rarity,
\* and the ranges of two rarities at most touch (RollRarityMultiplier).
THEOREM ItemMultipliers == Spec => []ItemMultiplierInRange
  <1>1. Legal => ItemMultiplierInRange
    <2> SUFFICES ASSUME Legal
                 PROVE  ItemMultiplierInRange
      OBVIOUS
    <2>1. itemRoll \in Int /\ 0 <= itemRoll /\ itemRoll < Million
      BY MillionType, SMT DEF Legal
    <2>2. /\ RollRarityMultiplier(itemRoll, "common") \in Int
          /\ 1020 <= RollRarityMultiplier(itemRoll, "common")
          /\ RollRarityMultiplier(itemRoll, "common") <= 1080
      BY <2>1, SMT DEF RollRarityMultiplier, RarityMultiplierRange, Million
    <2>3. /\ RollRarityMultiplier(itemRoll, "rare") \in Int
          /\ 1080 <= RollRarityMultiplier(itemRoll, "rare")
          /\ RollRarityMultiplier(itemRoll, "rare") <= 1160
      BY <2>1, SMT DEF RollRarityMultiplier, RarityMultiplierRange, Million
    <2>4. /\ RollRarityMultiplier(itemRoll, "epic") \in Int
          /\ 1160 <= RollRarityMultiplier(itemRoll, "epic")
          /\ RollRarityMultiplier(itemRoll, "epic") <= 1280
      BY <2>1, SMT DEF RollRarityMultiplier, RarityMultiplierRange, Million
    <2>5. /\ RollRarityMultiplier(itemRoll, "legendary") \in Int
          /\ 1280 <= RollRarityMultiplier(itemRoll, "legendary")
          /\ RollRarityMultiplier(itemRoll, "legendary") <= 1450
      BY <2>1, SMT DEF RollRarityMultiplier, RarityMultiplierRange, Million
    <2>6. \A rarity \in Rarities :
             LET m == RollRarityMultiplier(itemRoll, rarity)
             IN  /\ RarityMultiplierRange[rarity][1] <= m
                 /\ m <= RarityMultiplierRange[rarity][2]
      BY <2>2, <2>3, <2>4, <2>5, SMT DEF Rarities, RarityMultiplierRange
    <2>7. \A i \in 1..3 : RollRarityMultiplier(itemRoll, dropOrder[i]) >=
                          RollRarityMultiplier(itemRoll, dropOrder[i + 1])
      <3>1. /\ RollRarityMultiplier(itemRoll, "legendary") >=
                 RollRarityMultiplier(itemRoll, "epic")
            /\ RollRarityMultiplier(itemRoll, "epic") >=
                 RollRarityMultiplier(itemRoll, "rare")
            /\ RollRarityMultiplier(itemRoll, "rare") >=
                 RollRarityMultiplier(itemRoll, "common")
        BY <2>2, <2>3, <2>4, <2>5, SMT
      <3>2. /\ dropOrder[1] = "legendary" /\ dropOrder[2] = "epic"
            /\ dropOrder[3] = "rare" /\ dropOrder[4] = "common"
        BY SMT DEF dropOrder
      <3>3. \A i \in 1..3 : i = 1 \/ i = 2 \/ i = 3
        BY SMT
      <3>4. 1 + 1 = 2 /\ 2 + 1 = 3 /\ 3 + 1 = 4
        BY SMT
      <3> QED
        BY <3>1, <3>2, <3>3, <3>4, Zenon
    <2> QED
      BY <2>6, <2>7 DEF ItemMultiplierInRange
  <1> QED
    BY <1>1, LegalInputs, PTL
-----------------------------------------------------------------------------
(* Milestones. *)

\* Among five levels in a row exactly one is a milestone.
LEMMA OneInFive ==
    ASSUME NEW a \in Nat
    PROVE  \E l \in (a + 1)..(a + 5) :
              {n \in (a + 1)..(a + 5) : n % 5 = 0} = {l}
  <1> DEFINE l == 5 * ((a + 5) \div 5)
  <1>1. l \in Int /\ a + 1 <= l /\ l <= a + 5 /\ l % 5 = 0
    BY SMT
  <1>2. \A n \in Int : a + 1 <= n /\ n <= a + 5 /\ n % 5 = 0 => n = l
    BY SMT
  <1> HIDE DEF l
  <1>3. l \in (a + 1)..(a + 5)
    BY <1>1, SMT
  <1>4. {n \in (a + 1)..(a + 5) : n % 5 = 0} = {l}
    BY <1>1, <1>2, <1>3, SMT
  <1> QED
    BY <1>3, <1>4

\* Two levels in a row hold at most one milestone.
LEMMA AtMostOneInTwo ==
    ASSUME NEW a \in Nat, NEW b \in Nat, b <= a + 2,
           NEW l \in LevelsForReward(a, b)
    PROVE  LevelsForReward(a, b) = {l}
  <1>1. l \in Int /\ a + 1 <= l /\ l <= b /\ l % 5 = 0
    BY SMT DEF LevelsForReward, MilestoneEvery
  <1>2. \A n \in Int : a + 1 <= n /\ n <= b /\ n % 5 = 0 => n = l
    BY <1>1, SMT
  <1> QED
    BY <1>1, <1>2, SMT DEF LevelsForReward, MilestoneEvery

\* Rewarding milestones step by step gives each of them exactly once, as many
\* as one jump over the same XP, and one completion never reaches two
\* (reward/math.go LevelsForReward), for every amount of XP and every grant.
THEOREM MilestonesAddUp == Spec => []MilestonesSplit
  <1>1. Legal => MilestonesSplit
    <2> SUFFICES ASSUME Legal, NEW f \in Finals
                 PROVE  LET after == xp + f
                            there == after + 5000
                            first == LevelsForReward(LevelForXP(xp), LevelForXP(after))
                            second == LevelsForReward(LevelForXP(after), LevelForXP(there))
                        IN  /\ first \cap second = {}
                            /\ first \cup second =
                                 LevelsForReward(LevelForXP(xp), LevelForXP(there))
                            /\ Cardinality(second) = 1
                            /\ Cardinality(first) <= 1
                            /\ \A l \in first : /\ xp < (l - 1) * XPPerLevel
                                                /\ (l - 1) * XPPerLevel <= after
      BY DEF MilestonesSplit
    <2> DEFINE after == xp + f
               there == after + 5000
               a == LevelForXP(xp)
               b == LevelForXP(after)
               c == LevelForXP(there)
               first == LevelsForReward(a, b)
               second == LevelsForReward(b, c)
    <2>0. f \in 0..MaxFinalXP
      BY FinalBounds DEF Legal, Finals
    <2>1. f \in Nat /\ f <= 1600 /\ xp \in Nat
      BY <2>0, SMT DEF Legal, MaxFinalXP
    <2>2. /\ a \in Nat /\ b \in Nat /\ a <= b /\ b <= a + 2 /\ c = b + 5
          /\ a = xp \div 1000 + 1 /\ b = after \div 1000 + 1 /\ after \in Nat
      BY <2>1, SMT DEF LevelForXP, XPPerLevel
    <2>3. first \cap second = {}
      <3> HIDE DEF a, b, c
      <3> QED BY <2>2, SMT DEF LevelsForReward, MilestoneEvery
    <2>4. first \cup second = LevelsForReward(a, c)
      <3> HIDE DEF a, b, c
      <3> QED BY <2>2, SMT DEF LevelsForReward, MilestoneEvery
    <2>5. Cardinality(second) = 1
      <3> HIDE DEF a, b, c
      <3>1. PICK l \in (b + 1)..(b + 5) :
                    {n \in (b + 1)..(b + 5) : n % 5 = 0} = {l}
        BY <2>2, OneInFive
      <3>2. second = {l}
        BY <2>2, <3>1 DEF LevelsForReward, MilestoneEvery
      <3> QED
        BY <3>2, FS_Singleton
    <2>6. Cardinality(first) <= 1
      <3> HIDE DEF a, b, c
      <3>1. CASE first = {}
        BY <3>1, FS_EmptySet, SMT
      <3>2. CASE first # {}
        <4>1. PICK l : l \in first
          BY <3>2
        <4>2. first = {l}
          BY <2>2, <4>1, AtMostOneInTwo
        <4>3. Cardinality(first) = 1
          BY <4>2, FS_Singleton
        <4> QED
          BY <4>3, SMT
      <3> QED
        BY <3>1, <3>2
    <2>7. \A l \in first : xp < (l - 1) * XPPerLevel /\ (l - 1) * XPPerLevel <= after
      <3> SUFFICES ASSUME NEW l \in first
                   PROVE  xp < (l - 1) * XPPerLevel /\ (l - 1) * XPPerLevel <= after
        OBVIOUS
      <3>1. l \in Int /\ a + 1 <= l /\ l <= b
        <4> HIDE DEF a, b, c
        <4> QED BY <2>2, SMT DEF LevelsForReward
      <3> HIDE DEF a, b, c, first, after
      <3> QED
        BY <2>1, <2>2, <3>1, SMT DEF XPPerLevel
    <2> QED
      BY <2>3, <2>4, <2>5, <2>6, <2>7
  <1> QED
    BY <1>1, LegalInputs, PTL

-----------------------------------------------------------------------------
(* Drops. *)

\* The thresholds of the four rarities: below their caps, and apart.
LEMMA Thresholds ==
    ASSUME NEW x \in Nat
    PROVE  LET m == DropMultiplier(x)
               T(i) == EffectiveThreshold(dropOrder[i], m)
           IN  /\ m \in Int /\ 150 <= m /\ m <= 750
               /\ T(1) = (32000 * m) \div 3
               /\ T(2) = (160000 * m) \div 3
               /\ T(3) = (560000 * m) \div 3
               /\ T(4) = (1760000 * m) \div 3
               /\ \A i \in 1..4 : T(i) \in Nat
               /\ T(1) < T(2) /\ T(2) < T(3) /\ T(3) < T(4)
               /\ T(1) + 1 < T(2) /\ T(2) + 1 < T(3) /\ T(3) + 1 < T(4)
               /\ T(1) < 15000000 /\ T(2) < 60000000
               /\ T(3) < 180000000 /\ T(4) < 450000000
  <1> DEFINE m == DropMultiplier(x)
             T(i) == EffectiveThreshold(dropOrder[i], m)
  <1>1. m \in Int /\ 150 <= m /\ m <= 750
    BY SMT DEF DropMultiplier
  <1> HIDE DEF m
  <1>2. /\ dropOrder[1] = "legendary" /\ dropOrder[2] = "epic"
        /\ dropOrder[3] = "rare" /\ dropOrder[4] = "common"
    BY SMT DEF dropOrder
  <1>3. T(1) = (32000 * m) \div 3 /\ T(1) \in Int /\ T(1) < 15000000
    BY <1>1, <1>2, SMT DEF EffectiveThreshold, baseThreshold, dropCap
  <1>4. T(2) = (160000 * m) \div 3 /\ T(2) \in Int /\ T(2) < 60000000
    BY <1>1, <1>2, SMT DEF EffectiveThreshold, baseThreshold, dropCap
  <1>5. T(3) = (560000 * m) \div 3 /\ T(3) \in Int /\ T(3) < 180000000
    BY <1>1, <1>2, SMT DEF EffectiveThreshold, baseThreshold, dropCap
  <1>6. T(4) = (1760000 * m) \div 3 /\ T(4) \in Int /\ T(4) < 450000000
    BY <1>1, <1>2, SMT DEF EffectiveThreshold, baseThreshold, dropCap
  <1> HIDE DEF T
  <1>7. /\ 0 <= T(1) /\ T(1) < T(2) /\ T(2) < T(3) /\ T(3) < T(4)
        /\ T(1) + 1 < T(2) /\ T(2) + 1 < T(3) /\ T(3) + 1 < T(4)
    BY <1>1, <1>3, <1>4, <1>5, <1>6, SMT
  <1>8. \A i \in 1..4 : T(i) \in Nat
    <2>1. \A i \in 1..4 : i = 1 \/ i = 2 \/ i = 3 \/ i = 4
      BY SMT
    <2>2. T(1) \in Nat /\ T(2) \in Nat /\ T(3) \in Nat /\ T(4) \in Nat
      BY <1>3, <1>4, <1>5, <1>6, <1>7, SMT
    <2> QED
      BY <2>1, <2>2
  <1> QED
    BY <1>1, <1>3, <1>4, <1>5, <1>6, <1>7, <1>8, SMT DEF T, m
\* A larger multiplier never lowers a threshold.
LEMMA ThresholdsGrow ==
    ASSUME NEW rarity \in Rarities, NEW m \in Nat, NEW n \in Nat, m <= n
    PROVE  EffectiveThreshold(rarity, m) <= EffectiveThreshold(rarity, n)
  <1> DEFINE t == baseThreshold[rarity]
             cap == dropCap[rarity]
  <1>1. /\ m \in Int /\ n \in Int /\ m <= n
        /\ \/ t = 220000 \/ t = 70000 \/ t = 20000 \/ t = 4000
    BY SMT DEF Rarities, baseThreshold
  <1>2. cap \in Int
    BY SMT DEF Rarities, dropCap
  <1> HIDE DEF t, cap
  <1>3. (t * m * 8) \div 3 <= (t * n * 8) \div 3
    BY <1>1, SMT
  <1>4. (t * m * 8) \div 3 \in Int /\ (t * n * 8) \div 3 \in Int
    BY <1>1, SMT
  <1> QED
    BY <1>2, <1>3, <1>4, SMT DEF EffectiveThreshold, t, cap

\* The rarest of some rarities is the one tried first (dropOrder).
LEMMA FirstHit ==
    ASSUME NEW hits, hits \subseteq 1..4,
           NEW i \in hits, \A j \in hits : i <= j
    PROVE  Rarest(hits) = dropOrder[i]
  <1> DEFINE Least(k) == \A j \in hits : k <= j
  <1>1. \A k \in hits : Least(k) => k = i
    BY SMT
  <1>2. (CHOOSE k \in hits : Least(k)) = i
    <2>1. Least(i)
      OBVIOUS
    <2> HIDE DEF Least
    <2> QED BY <1>1, <2>1
  <1>3. hits # {}
    OBVIOUS
  <1> QED
    BY <1>2, <1>3 DEF Rarest

\* Whatever the XP granted, every rarity and "no drop" stay possible: the
\* thresholds grow from the rarest to the commonest rarity, stay below the
\* caps of the table and grow with XP, a roll just below a threshold is good
\* for exactly its rarity and a roll below the last one for some rarity
\* (reward/math.go DropRarity), for every grant and every roll.
THEOREM RaritiesAreReachable == Spec => []EveryRarityReachable
  <1>1. Legal => EveryRarityReachable
    <2> SUFFICES ASSUME Legal, NEW f \in Finals
                 PROVE  LET Threshold(i, x) ==
                              EffectiveThreshold(dropOrder[i], DropMultiplier(x))
                        IN  /\ \A i \in 1..3 : Threshold(i, f) < Threshold(i + 1, f)
                            /\ \A i \in 1..4 : Threshold(i, f) < dropCap[dropOrder[i]]
                            /\ \A i \in 1..4 :
                                  DropRarity(Threshold(i, f) - 1, DropMultiplier(f))
                                    = {dropOrder[i]}
                            /\ \A i \in 1..4 : Threshold(i, f) <= Threshold(i, f + 100)
                            /\ NoDrop \in DropRarity(roll, DropMultiplier(f)) =>
                                  roll >= Threshold(4, f)
      BY DEF EveryRarityReachable
    <2> DEFINE Threshold(i, x) == EffectiveThreshold(dropOrder[i], DropMultiplier(x))
               T(i) == Threshold(i, f)
               U(i) == Threshold(i, f + 100)
               m == DropMultiplier(f)
               n == DropMultiplier(f + 100)
    <2>0. f \in 0..MaxFinalXP
      BY FinalBounds DEF Legal, Finals
    <2>1. f \in Nat /\ f + 100 \in Nat
      BY <2>0, SMT DEF MaxFinalXP
    <2>2. /\ T(1) < T(2) /\ T(2) < T(3) /\ T(3) < T(4)
          /\ \A i \in 1..4 : T(i) \in Nat
      BY <2>1, Thresholds, SMT
    <2>3. /\ T(1) < 15000000 /\ T(2) < 60000000
          /\ T(3) < 180000000 /\ T(4) < 450000000
      BY <2>1, Thresholds, SMT
    <2>4. m <= n
      BY <2>1, SMT DEF DropMultiplier
    <2>5. /\ \A i \in 1..4 : i = 1 \/ i = 2 \/ i = 3 \/ i = 4
          /\ \A i \in 1..3 : i = 1 \/ i = 2 \/ i = 3
          /\ 1 + 1 = 2 /\ 2 + 1 = 3 /\ 3 + 1 = 4
          /\ 1 \in 1..4 /\ 2 \in 1..4 /\ 3 \in 1..4 /\ 4 \in 1..4
      BY SMT
    <2>6. /\ dropOrder[1] = "legendary" /\ dropOrder[2] = "epic"
          /\ dropOrder[3] = "rare" /\ dropOrder[4] = "common"
      BY SMT DEF dropOrder
    <2>7. \A i \in 1..3 : T(i) < T(i + 1)
      <3> HIDE DEF T
      <3> QED BY <2>2, <2>5, Zenon
    <2>8. \A i \in 1..4 : T(i) < dropCap[dropOrder[i]]
      <3> HIDE DEF T
      <3>1. /\ T(1) < dropCap[dropOrder[1]] /\ T(2) < dropCap[dropOrder[2]]
            /\ T(3) < dropCap[dropOrder[3]] /\ T(4) < dropCap[dropOrder[4]]
        BY <2>3, <2>6, SMT DEF dropCap
      <3> QED BY <2>5, <3>1, Zenon
    <2>9. \A i \in 1..4 : T(i) <= U(i)
      <3> SUFFICES ASSUME NEW i \in 1..4
                   PROVE  T(i) <= U(i)
        OBVIOUS
      <3>1. m \in Nat /\ n \in Nat
        BY <2>1, SMT DEF DropMultiplier
      <3>2. dropOrder[i] \in Rarities
        BY <2>5, <2>6 DEF Rarities
      <3>3. EffectiveThreshold(dropOrder[i], m) <= EffectiveThreshold(dropOrder[i], n)
        <4> HIDE DEF m, n
        <4> QED
          BY <2>4, <3>1, <3>2, ThresholdsGrow
      <3> QED
        BY <3>3
    <2>10. T(1) + 1 < T(2) /\ T(2) + 1 < T(3) /\ T(3) + 1 < T(4)
      BY <2>1, Thresholds, SMT
    <2>11. ASSUME NEW i \in 1..4
           PROVE  DropRarity(T(i) - 1, m) = {dropOrder[i]}
      <3> DEFINE Hits == {j \in 1..4 : T(i) - 1 <= T(j)}
                 Ties == {j \in Hits : m % 3 = 0 /\ T(i) - 1 = T(j)}
      <3>1. /\ i \in Hits /\ \A j \in Hits : i <= j
            /\ \A j \in Hits : T(i) - 1 # T(j)
        <4> HIDE DEF T, m
        <4>1. T(1) \in Nat /\ T(2) \in Nat /\ T(3) \in Nat /\ T(4) \in Nat
          BY <2>2, <2>5
        <4>2. T(1) + 1 < T(2) /\ T(2) + 1 < T(3) /\ T(3) + 1 < T(4)
          BY <2>10
        <4>3. CASE i = 1
          <5>1. \A j \in 1..4 : T(1) <= T(j)
            BY <2>2, <2>5, <4>1, SMT
          <5> QED BY <4>1, <4>3, <5>1, SMT
        <4>4. CASE i = 2
          <5>1. \A j \in 1..4 : j = 1 \/ (2 <= j /\ T(2) <= T(j))
            <6>1. T(2) <= T(2) /\ T(2) <= T(3) /\ T(2) <= T(4)
              BY <2>2, <4>1, SMT
            <6>2. 2 <= 2 /\ 2 <= 3 /\ 2 <= 4
              BY SMT
            <6> QED BY <2>5, <6>1, <6>2, Zenon
          <5>2. ~(T(2) - 1 <= T(1))
            BY <4>1, <4>2, SMT
          <5> QED BY <4>1, <4>4, <5>1, <5>2, SMT
        <4>5. CASE i = 3
          <5>1. \A j \in 1..4 : j = 1 \/ j = 2 \/ (3 <= j /\ T(3) <= T(j))
            <6>1. T(3) <= T(3) /\ T(3) <= T(4)
              BY <2>2, <4>1, SMT
            <6>2. 3 <= 3 /\ 3 <= 4
              BY SMT
            <6> QED BY <2>5, <6>1, <6>2, Zenon
          <5>2. ~(T(3) - 1 <= T(1)) /\ ~(T(3) - 1 <= T(2))
            BY <4>1, <4>2, SMT
          <5> QED BY <4>1, <4>5, <5>1, <5>2, SMT
        <4>6. CASE i = 4
          <5>1. \A j \in 1..4 : j = 1 \/ j = 2 \/ j = 3 \/ j = 4
            BY <2>5
          <5>2. ~(T(4) - 1 <= T(1)) /\ ~(T(4) - 1 <= T(2)) /\ ~(T(4) - 1 <= T(3))
            BY <4>1, <4>2, SMT
          <5> QED BY <4>1, <4>6, <5>1, <5>2, SMT
        <4> QED
          BY <2>5, <4>3, <4>4, <4>5, <4>6
      <3>2. Ties = {}
        <4> HIDE DEF T, m
        <4> QED BY <3>1
      <3>3. DropRarity(T(i) - 1, m) = {Rarest(Hits), Rarest(Hits \ Ties)}
        BY Zenon DEF DropRarity
      <3>4. Hits \subseteq 1..4
        OBVIOUS
      <3> HIDE DEF Hits, Ties, T, m
      <3>5. Rarest(Hits) = dropOrder[i]
        BY <3>1, <3>4, FirstHit
      <3>6. Hits \ Ties = Hits
        BY <3>2
      <3> QED
        BY <3>3, <3>5, <3>6
    <2>12. NoDrop \in DropRarity(roll, m) => roll >= T(4)
      <3> SUFFICES ASSUME ~(roll >= T(4))
                   PROVE  NoDrop \notin DropRarity(roll, m)
        OBVIOUS
      <3> DEFINE Hits == {j \in 1..4 : roll <= T(j)}
                 Ties == {j \in Hits : m % 3 = 0 /\ roll = T(j)}
      <3>1. 4 \in Hits /\ 4 \notin Ties
        <4>1. T(4) \in Nat /\ roll \in Int
          BY <2>2, <2>5, BillionType, SMT DEF Legal
        <4> HIDE DEF T, m
        <4> QED BY <2>5, <4>1, SMT
      <3>2. DropRarity(roll, m) = {Rarest(Hits), Rarest(Hits \ Ties)}
        BY Zenon DEF DropRarity
      <3>3. Hits \subseteq 1..4 /\ Hits \ Ties \subseteq 1..4
        OBVIOUS
      <3> HIDE DEF Hits, Ties, T, m
      <3>4. ASSUME NEW hits, hits \subseteq 1..4, 4 \in hits
            PROVE  Rarest(hits) # NoDrop
        <4>1. hits # {}
          BY <3>4
        <4>2. PICK i \in hits : \A j \in hits : i <= j
          BY <3>4, <4>1, LeastHit
        <4>3. Rarest(hits) = dropOrder[i]
          BY <3>4, <4>2, FirstHit
        <4>4. i \in 1..4
          BY <3>4
        <4> QED
          BY <2>5, <2>6, <4>3, <4>4 DEF NoDrop
      <3> QED
        BY <3>1, <3>2, <3>3, <3>4
    <2> QED
      BY <2>7, <2>8, <2>9, <2>11, <2>12
  <1> QED
    BY <1>1, LegalInputs, PTL

=============================================================================
