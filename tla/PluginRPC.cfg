CONSTANTS
    Machines = {m1, m2}
    FaultSets = {
        {"nobinary", "exec", "listen", "slowaddr", "oldserver", "driver"},
        {"nobinary", "exec", "listen", "slowaddr", "slowsetup", "oldserver", "version", "config", "driver", "crash"}}
SPECIFICATION Spec
INVARIANTS RpcInv CloseCanFinish CleanExitClosesServers NoHeartbeatAfterClose
PROPERTIES ClientEnds ServersFollowClient
CHECK_DEADLOCK FALSE
