CONSTANTS
    u1 = u1  u2 = u2  r1 = r1  r2 = r2  r3 = r3  r4 = r4
    None = None
    Users <- TwoUsers
    Requests <- FourRequests
SPECIFICATION FairSpec
INVARIANTS
    TypeOK
    OneLivePerFamily
    TokenSpentOnce
    NoFalseAlarm
PROPERTIES
    ReuseHolds
    LogoutHolds
    ImplementsFamilies
    EveryCallAnswered
CHECK_DEADLOCK FALSE
