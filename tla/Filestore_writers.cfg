SPECIFICATION Spec
CONSTANTS
    Machines = {m1}
    Writers = {p1, p2}
    Readers = {p3}
    Removers = {}
    MaxOps = 5
    Faults = {}
    Initial = {"current"}
INVARIANTS QuietStoreIsWhole
PROPERTIES LoadErrorsAreTransient
CHECK_DEADLOCK FALSE
