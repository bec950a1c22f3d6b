CONSTANTS
    u1 = u1  u2 = u2  t1 = t1  t2 = t2  r1 = r1  r2 = r2  r3 = r3
    None = None
    Users <- TwoUsers
    Tasks <- OneTask
    Requests <- ThreeRequests
    Catalog <- OneItem
    Owner <- AllOwnedByU1
    StartXP <- BelowMilestone
    ItemRarity <- OneRarity
    ItemSlot <- OneSlot
    TaskKinds <- SmallAndLarge
    TaskRolls <- LowRoll
    DropRolls <- DropOrNot
    ItemRolls <- MiddleItemRoll
SPECIFICATION Spec
SYMMETRY Symmetry
INVARIANTS
    CompletedIsGranted
    DropNeverBoostsOwnTask
    AnswersAgree
    RollMatchesDrop
    TypeOK
PROPERTIES
    GrantsAreFinal
    ImplementsLedger
