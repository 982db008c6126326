SPECIFICATION Spec
CONSTANTS
    alice = alice
    bob = bob
    Users = {alice, bob}
    Writers = {w1}
    Loggers = {"log", "log_event"}
    Maintenance = {"erase", "retain"}
    MaxTime = 5
    None = None
SYMMETRY Interchangeable
CHECK_DEADLOCK FALSE
INVARIANT IInv
INVARIANT LinksSurvive
