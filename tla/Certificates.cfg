SPECIFICATION Spec
CONSTANTS
    NumProcs = 2
    NumMachines = 2
    OSes = {"boot2podman", "fedora", "debian"}
    MaxPairs = 5
    MaxCalls = 3
    FaultSets = {{"expire", "crash", "user"}, {"create", "full", "ssh"}, {"race"}}
INVARIANTS CertInv BootstrapWorks
PROPERTIES ServerTrusted ClientTrusted
CHECK_DEADLOCK FALSE
