CONSTANTS
    u1 = u1  u2 = u2  t1 = t1  t2 = t2  r1 = r1  r2 = r2  r3 = r3
    None = None
    Users <- OneUser
    Tasks <- OneTask
    Requests <- TwoRequests
    Catalog <- OneItem
    Owner <- AllOwnedByU1
    StartXP <- BelowMilestone
    ItemRarity <- OneRarity
    ItemSlot <- OneSlot
    TaskKinds <- LargeOnly
    TaskRolls <- LowRoll
    DropRolls <- DropOrNot
    ItemRolls <- MiddleItemRoll
SPECIFICATION Spec
SYMMETRY Symmetry
PROPERTIES
    RepeatHasNoSideEffect
