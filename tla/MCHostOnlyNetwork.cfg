SPECIFICATION Spec
CONSTANTS
    Procs = {p1, p2}
    m1 = m1
    m2 = m2
    Machines = {m1, m2}
    CIDRFunctions <- MCCIDRFunctions
    Taken <- MCTaken
    MaxAdapters = 3
    MaxStarts = 3
    Randoms = {5, 6}
    FaultSets = {{"crash", "corrupt", "default"}, {"vbm"}, {"hidden"}, {"user"}}
INVARIANTS NetInv ServersStay NoAddressClash
PROPERTIES GoodNetwork AloneWorks
SYMMETRY Symmetry
CHECK_DEADLOCK FALSE
