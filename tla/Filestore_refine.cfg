SPECIFICATION Spec
CONSTANTS
    Machines = {m1}
    Writers = {p1}
    Readers = {p1, p3}
    Removers = {p2}
    MaxOps = 6
    Faults = {}
    Initial = {"absent", "current"}
INVARIANTS StoreInv
PROPERTIES ImplementsStore
CHECK_DEADLOCK FALSE
