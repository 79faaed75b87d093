CONSTANTS
    Machines = {m1, m2}
    FaultSets = {{"crash"}}
SPECIFICATION Spec
PROPERTY DeadPluginEndsClient
CHECK_DEADLOCK FALSE
