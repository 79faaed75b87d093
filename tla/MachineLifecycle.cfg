SPECIFICATION FairSpec
CONSTANTS
    Machines = {m1, m2}
    Procs = {p1, p2}
    Commands = {"create", "start", "stop", "restart", "kill", "upgrade", "rm", "rmforce"}
    Racing = {"start", "stop", "restart", "kill", "rm"}
    MaxCommands = 4
    MaxMeddled = 3
    MaxRacing = 3
    Ports = {1, 2}
    FaultSets = {{"crash", "vbm", "boot", "net"}, {"crash", "boot", "net", "gui"}, {"boot", "net"},
                 {"crash", "vbm", "boot", "net", "gui", "race"}}
INVARIANTS LifecycleInv PortNeverStale
PROPERTIES SuccessIsReal RmWorks CommandsEnd
CHECK_DEADLOCK FALSE
