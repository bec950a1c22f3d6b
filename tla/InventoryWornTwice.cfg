CONSTANTS
    u1 = u1  u2 = u2  i1 = i1  i2 = i2  i3 = i3  c1 = c1  c2 = c2
    None = None
    Users <- TwoUsers
    Items <- ThreeItems
    Catalog <- TwoEntries
    Requests = {r1, r2}
    ItemUser <- By
    ItemOf <- Of
    Slots <- HandAndHead
    MascotSlots <- HandAndHead
    EditSlots = TRUE
SPECIFICATION Spec
INVARIANT EachItemCountsOnce
