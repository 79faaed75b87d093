CONSTANTS
    HeartbeatInterval = 4
    HeartbeatTimeout = 8
    SetupBound = 2
    RpcLatency = 1
SPECIFICATION HeartbeatSpec
INVARIANTS NoFalseExpiry OrphanBounded HeartbeatInv
PROPERTY OrphanStops
CHECK_DEADLOCK FALSE
