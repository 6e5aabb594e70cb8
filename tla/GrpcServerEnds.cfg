SPECIFICATION FairSpec
CONSTANTS
    Conns = {c1}
    Rpcs = {r1, r2}
    Requests <- Bounded
    Stops = {k1}
    Blockers = {}
    Listener = listener
    MaxRpcs = 1
    Deliveries = {"message"}
    MaxItems = 0
    None = None
CHECK_DEADLOCK FALSE
PROPERTIES
    ParkedListenerReturns
    BoundedCallsEnd
