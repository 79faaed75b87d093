SPECIFICATION Spec
CONSTANTS
    Machines = {m1}
    Writers = {p1}
    Readers = {p1}
    Removers = {}
    MaxOps = 5
    Faults = {"crash", "rename"}
    Initial = {"absent", "current", "future", "old"}
INVARIANTS NeverLost OriginalKept
CHECK_DEADLOCK FALSE
