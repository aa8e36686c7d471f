CONSTANTS
    Requests = {r1, r2}
    Keys = {k1}
    LoadIds = {l1, l2}
    NoLoad = NoLoad
    StatsTTL = 1
    StaleStatsMaxAge = 2
    RequestTimeout = 1
    MaxTime = 4
SPECIFICATION Spec
SYMMETRY Symmetry
INVARIANTS
    TypeOK
    SingleFlight
    NoStrandedWaiter
    SamplesCoherent
PROPERTIES
    CacheNeverRegresses
    MonotonicReads
    LabelsTellTheAge
    OnlyARefreshOvertakes
    ImplementsFeed
\* The clock of the model ends at MaxTime.
CHECK_DEADLOCK FALSE
