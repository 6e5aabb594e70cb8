SPECIFICATION FairSpec
CONSTANTS
    Calls = {c1}
    c1 = c1
    Endpoints = 2
    MaxRetries = 1
    Retryable = {"UNAVAILABLE", "RESOURCE_EXHAUSTED"}
    Sizes = {1, 2, 17}
    MaxMessageSize = 16
    MaxResponses = 2
    MaxRequests = 1
    MaxOthers = 1
    HeaderLen = 5
CHECK_DEADLOCK FALSE
INVARIANTS
    TypeOK
    SettledIsNotRepeated
    CutRequestsShow
    RepliesAreFinal
PROPERTIES
    KeepsPromise
    CallsEnd
