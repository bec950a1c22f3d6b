CONSTANTS
    u1 = u1  u2 = u2  t1 = t1  t2 = t2  r1 = r1  r2 = r2  r3 = r3
    None = None
    Users <- OneUser
    Tasks <- TwoTasks
    Requests <- TwoRequests
    Catalog <- PairOfItems
    Owner <- AllOwnedByU1
    StartXP <- BelowMilestone
    ItemRarity <- PairRarities
    ItemSlot <- PairSlots
    TaskKinds <- LargeOnly
    TaskRolls <- LowAndHighRoll
    DropRolls <- NoDropRoll
    ItemRolls <- MiddleItemRoll
SPECIFICATION FairSpec
INVARIANTS
    MilestonesGivenOnce
    AnswerContainsGrant
    LocksProtect
PROPERTIES
    XPMovesWithGrants
    EveryCallAnswered
