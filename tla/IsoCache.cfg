SPECIFICATION Spec
CONSTANTS
    Procs = {p1, p2}
    Machines = {m1, m2}
    Urls = {"default", "github"}
    MaxRelease = 2
    MaxRuns = 3
    FaultSets = {{"net", "page", "crash"}, {"disk"}}
INVARIANTS IsoInv AloneSucceeds
PROPERTIES FreshIso
SYMMETRY Symmetry
CHECK_DEADLOCK FALSE
