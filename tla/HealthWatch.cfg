SPECIFICATION FairSpec
CONSTANTS
    a = a
    b = b
    t1 = t1
    t2 = t2
    Services = {a, b}
    Overall = overall
    Setters = {t1, t2}
    MaySet <- Owners
    Watchers = {w1}
    Capacity = 2
    MaxSets = 4
    None = None
CHECK_DEADLOCK FALSE
INVARIANTS
    TypeOK
    ServiceWatcherIsCurrent
PROPERTIES
    EventuallyCurrent
