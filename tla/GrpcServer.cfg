SPECIFICATION Spec
CONSTANTS
    Conns = {c1}
    Rpcs = {r1, r2}
    Requests <- AllPaths
    Stops = {k1}
    Blockers = {b1}
    Listener = listener
    MaxRpcs = 1
    Deliveries = {"message", "empty", "bad"}
    MaxItems = 1
    None = None
CHECK_DEADLOCK FALSE
SYMMETRY RpcSymmetry
INVARIANTS
    TypeOK
    ReleasedOnlyWhenCancelled
    PermitAccounting
    ResponseWellFormed
    ReportedErrorIsSent
    DeniedNeverServed
PROPERTIES
    LateWaiterNeverParks
    RecordedOnce
