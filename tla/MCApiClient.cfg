CONSTANTS
    None = None
    Users <- TwoUsers
    Requests <- EightCalls
    Ops <- ThreeOps
    Admins <- AdminOnly
    MaxFaults = 2
SPECIFICATION ClientSpec
INVARIANT QuietLogoutEnds
PROPERTIES
    StaysSignedIn
    EveryOperationEnds
CHECK_DEADLOCK FALSE
