--------------------------- MODULE RewardMathLemmas ---------------------------
(***************************************************************************)
(* What the balance rules return, for every input: the facts proofs about  *)
(* completions rest on.  Numerals of this size are beyond Zenon, and SMT   *)
(* multiplies only numbers it sees bounded by inequalities; the steps are  *)
(* laid out accordingly.                                                   *)
(***************************************************************************)
EXTENDS RewardMath, TLAPS

\* The scales of the rolls (reward/rng.go Float64).
LEMMA BillionType == Billion \in Int /\ 980000000 < Billion
  BY SMT DEF Billion

\* The scale of the rolls behind item multipliers.
LEMMA MillionType == Million \in Int /\ 0 < Million
  BY SMT DEF Million

\* Levels start at 1 (reward/math.go LevelForXP, CHECK (level >= 1)).
LEMMA LevelType ==
    ASSUME NEW xp \in Nat
    PROVE  LevelForXP(xp) \in Nat \ {0}
  BY SMT DEF LevelForXP, XPPerLevel

\* The multiplier table covers every roll (reward/math.go TaskMultiplier).
LEMMA TaskMultiplierType ==
    ASSUME NEW roll \in 0..(Billion - 1)
    PROVE  TaskMultiplier(roll) \in TaskMultipliers
  <1>1. \A e \in taskMultTable : e.mult \in TaskMultipliers
    BY SMT DEF taskMultTable, TaskMultipliers
  <1> roll \in Int /\ 0 <= roll /\ roll < Billion
    BY BillionType, SMT
  <1>2. \E e \in taskMultTable : e.lo <= roll /\ roll < e.hi
    <2>1. CASE roll < 700000000
      <3> DEFINE row == [lo |-> 0, hi |-> 700000000, mult |-> 1000]
      <3>1. row \in taskMultTable
        BY SMT DEF taskMultTable
      <3>2. row.lo <= roll /\ roll < row.hi
        BY <2>1, SMT
      <3> QED BY <3>1, <3>2, SMT
    <2>2. CASE 700000000 <= roll /\ roll < 900000000
      <3> DEFINE row == [lo |-> 700000000, hi |-> 900000000, mult |-> 1250]
      <3>1. row \in taskMultTable
        BY SMT DEF taskMultTable
      <3>2. row.lo <= roll /\ roll < row.hi
        BY <2>2, SMT
      <3> QED BY <3>1, <3>2, SMT
    <2>3. CASE 900000000 <= roll /\ roll < 980000000
      <3> DEFINE row == [lo |-> 900000000, hi |-> 980000000, mult |-> 1500]
      <3>1. row \in taskMultTable
        BY SMT DEF taskMultTable
      <3>2. row.lo <= roll /\ roll < row.hi
        BY <2>3, SMT
      <3> QED BY <3>1, <3>2, SMT
    <2>4. CASE 980000000 <= roll
      <3> DEFINE row == [lo |-> 980000000, hi |-> Billion, mult |-> 2000]
      <3>1. row \in taskMultTable
        BY SMT DEF taskMultTable
      <3>2. row.lo <= roll /\ roll < row.hi
        BY <2>4, SMT
      <3> QED BY <3>1, <3>2, SMT
    <2> QED
      BY <2>1, <2>2, <2>3, <2>4, BillionType, SMT
  <1> QED
    BY <1>1, <1>2, SMT DEF TaskMultiplier

\* Base XP is one of seven small amounts (task/xp.go BaseXP).
LEMMA BaseType ==
    ASSUME NEW c \in Complexities, NEW p \in Priorities
    PROVE  BaseXP(c, p) \in {50, 100, 150, 200, 250, 350, 400}
  BY DEF BaseXP, complexityXP, Complexities, Priorities

\* A completion pays at least the base XP and at most four times it, whatever
\* is rolled and worn and however the product is truncated (reward/math.go
\* FinalXP, CHECK (final_xp >= 0)).
LEMMA FinalBounds ==
    ASSUME NEW base \in {50, 100, 150, 200, 250, 350, 400},
           NEW taskMult \in TaskMultipliers,
           NEW equipMult \in EquipmentMultipliers,
           NEW final \in FinalXP(base, taskMult, equipMult)
    PROVE  /\ final \in 0..MaxFinalXP
           /\ base <= final /\ final <= 4 * base
  <1> DEFINE rate == base * taskMult
             exact == rate * equipMult
             xp == exact \div Million
             whole == exact % Million = 0
  <1>1. base \in Int /\ 50 <= base /\ base <= 400
    BY SMT
  <1>2. taskMult \in Int /\ 1000 <= taskMult /\ taskMult <= 2000
    BY SMT DEF TaskMultipliers
  <1>3. equipMult \in Int /\ 1000 <= equipMult /\ equipMult <= 2000
    BY SMT DEF EquipmentMultipliers, Unit
  <1>4. rate \in Int /\ 1000 * base <= rate /\ rate <= 2000 * base
    BY <1>1, <1>2, SMT
  <1> HIDE DEF rate
  <1>5. /\ exact \in Int /\ 1000 * rate <= exact /\ exact <= 2000 * rate
        /\ 1001 <= equipMult => 1001 * rate <= exact
    BY <1>1, <1>3, <1>4, SMT
  <1> HIDE DEF exact
  <1>6. /\ xp \in Int /\ base <= xp /\ xp <= 4 * base
        /\ 1001 <= equipMult /\ whole => base + 1 <= xp
    BY <1>1, <1>4, <1>5, SMT DEF Million
  <1>7. \/ final = xp
        \/ final = xp - 1 /\ whole /\ equipMult % 125 # 0
    BY SMT DEF FinalXP, exact, rate
  <1>8. equipMult % 125 # 0 => 1001 <= equipMult
    BY <1>3, SMT
  <1> HIDE DEF xp, whole
  <1>9. final \in Int /\ base <= final /\ final <= 4 * base
    BY <1>1, <1>6, <1>7, <1>8, SMT
  <1> QED
    BY <1>1, <1>9, SMT DEF MaxFinalXP

\* Among the rarities a roll is good for there is one tried before the others.
LEMMA LeastHit ==
    ASSUME NEW hits, hits \subseteq 1..4, hits # {}
    PROVE  \E i \in hits : \A j \in hits : i <= j
  <1>1. \A j \in hits : j \in 1..4
    OBVIOUS
  <1>2. CASE 1 \in hits
    BY <1>1, <1>2, SMT
  <1>3. CASE 1 \notin hits /\ 2 \in hits
    BY <1>1, <1>3, SMT
  <1>4. CASE 1 \notin hits /\ 2 \notin hits /\ 3 \in hits
    BY <1>1, <1>4, SMT
  <1>5. CASE 1 \notin hits /\ 2 \notin hits /\ 3 \notin hits
    <2>1. \A j \in hits : j = 4
      BY <1>1, <1>5, SMT
    <2>2. PICK i : i \in hits
      OBVIOUS
    <2>3. \A j \in hits : i <= j
      BY <2>1, <2>2, SMT
    <2> QED
      BY <2>2, <2>3
  <1> QED
    BY <1>2, <1>3, <1>4, <1>5

\* The rarest of some rarities is one of them (math.go DropRarity).
LEMMA RarestType ==
    ASSUME NEW hits, hits \subseteq 1..4
    PROVE  Rarest(hits) \in Rarities \cup {NoDrop}
  <1>1. CASE hits = {}
    BY <1>1 DEF Rarest
  <1>2. CASE hits # {}
    <2> DEFINE first == CHOOSE i \in hits : \A j \in hits : i <= j
    <2>1. first \in hits
      BY <1>2, LeastHit
    <2>2. \A i \in 1..4 : dropOrder[i] \in Rarities
      BY DEF dropOrder, Rarities
    <2>3. Rarest(hits) = dropOrder[first]
      BY <1>2 DEF Rarest
    <2> QED
      BY <2>1, <2>2, <2>3
  <1> QED
    BY <1>1, <1>2

\* A drop has one of the four rarities, or there is none (DropRarity).
LEMMA DropRarityType ==
    ASSUME NEW roll, NEW dropMult, NEW rarity \in DropRarity(roll, dropMult)
    PROVE  rarity \in Rarities \cup {NoDrop}
  <1> DEFINE hits == {i \in 1..4 : roll <= EffectiveThreshold(dropOrder[i], dropMult)}
             ties == {i \in hits : /\ dropMult % 3 = 0
                                   /\ roll = EffectiveThreshold(dropOrder[i], dropMult)}
  <1>1. hits \subseteq 1..4 /\ hits \ ties \subseteq 1..4
    OBVIOUS
  <1>2. rarity = Rarest(hits) \/ rarity = Rarest(hits \ ties)
    BY DEF DropRarity
  <1> HIDE DEF hits, ties
  <1> QED
    BY <1>1, <1>2, RarestType

\* Rounding to millionths.
LEMMA RoundingType == \A n \in Nat : (n + Million \div 2) \div Million \in Nat
  BY SMT DEF Million

\* The multiplier of a granted item is a number (RollRarityMultiplier).
LEMMA ItemMultiplierType ==
    ASSUME NEW roll \in 0..(Million - 1), NEW rarity \in Rarities
    PROVE  RollRarityMultiplier(roll, rarity) \in Nat
  <1> DEFINE lo == RarityMultiplierRange[rarity][1]
             hi == RarityMultiplierRange[rarity][2]
  <1>1. lo \in Nat /\ hi - lo \in Nat
    BY SMT DEF RarityMultiplierRange, Rarities
  <1>2. roll * (hi - lo) \in Nat
    <2> DEFINE width == hi - lo
    <2>1. roll \in Nat
      BY MillionType, SMT
    <2>2. width \in Nat
      BY <1>1
    <2> HIDE DEF width
    <2>3. roll * width \in Nat
      BY <2>1, <2>2, SMT
    <2> QED
      BY <2>3 DEF width
  <1>3. RollRarityMultiplier(roll, rarity) =
          lo + (roll * (hi - lo) + Million \div 2) \div Million
    BY SMT DEF RollRarityMultiplier
  <1> HIDE DEF lo, hi
  <1>4. (roll * (hi - lo) + Million \div 2) \div Million \in Nat
    BY <1>2, RoundingType
  <1> QED
    BY <1>1, <1>3, <1>4, SMT

=============================================================================
