CONSTANTS
    Requests = {r1}
    Keys = {k1}
    LoadIds = {l1, l2}
    NoLoad = NoLoad
    StatsTTL = 1
    StaleStatsMaxAge = 2
    RequestTimeout = 1
    MaxTime = 3
SPECIFICATION Spec
PROPERTIES
    ErrorOnlyWithoutUsableCache
\* The clock of the model ends at MaxTime.
CHECK_DEADLOCK FALSE
