SPECIFICATION Spec
CONSTANTS
    NumProcs = 2
    Commands = {"create", "start", "stop", "restart", "rm"}
    MaxCommands = 3
    MaxPid = 3
    MaxAttempts = 2
    Ranges <- MCRanges
    Networks = {"user", "tap"}
    FaultSets = {{}, {"kill", "pid", "disk"}, {"pause", "off"}, {"ports"}, {"race"}}
INVARIANTS QemuInv
PROPERTIES StoppedIsOff RemovedEnds CommandsEnd
CHECK_DEADLOCK FALSE
