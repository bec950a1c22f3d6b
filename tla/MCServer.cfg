CONSTANTS
    None = None
    Calls <- MCCalls
    Mixes <- MCMixes
    Scopes <- MCScopes
    Addresses <- MCAddresses
    LimitOf <- MCLimits
    Window = 2
    AdminOps <- MCAdminOps
    PublicOps <- MCPublicOps
    Users <- MCUsers
    Emails <- MCEmails
    Mailbox <- MCMailbox
    FailureKey <- MCKeys
    Threshold = 2
    FailureWindow = 2
    Slots <- MCSlots
    DefaultLimit = 1
    MaxLimit = 2
    Lists <- MCLists
SPECIFICATION Spec
INVARIANTS
    PatchesKept
    VisualWhole
    AccountWhole
    LimiterExact
    AlarmExact
    AuditTrail
    AssetServed
    PagesAgree
PROPERTIES
    DisabledKeepsLook
    EveryRequestAnswered
CHECK_DEADLOCK FALSE
