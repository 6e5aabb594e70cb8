SPECIFICATION Spec
CONSTANTS
    Conns = {c1}
    Rpcs = {r1}
    Requests <- Unbounded
    Stops = {k1}
    Blockers = {}
    Listener = listener
    MaxRpcs = 1
    Deliveries = {"message", "empty", "bad"}
    MaxItems = 0
    None = None
CHECK_DEADLOCK FALSE
PROPERTIES
    DrainedBeforeClose
