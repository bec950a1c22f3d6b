CONSTANTS
    EquipSamples <- Equipments
    RollSamples <- Rolls
    ItemRollSamples <- ItemRolls
    XPSamples <- XPs
SPECIFICATION Spec
INVARIANTS
    PaysBetweenBaseAndFourTimes
    MilestonesSplit
    EveryRarityReachable
    ItemMultiplierInRange
