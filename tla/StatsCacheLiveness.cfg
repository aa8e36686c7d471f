CONSTANTS
    Requests = {r1, r2}
    Keys = {k1}
    LoadIds = {l1}
    NoLoad = NoLoad
    SessionKeys = {s1}
    NoKey = NoKey
    StatsTTL = 1
    StaleStatsMaxAge = 2
    RequestTimeout = 1
    MaxTime = 2
SPECIFICATION RpcSpec
INVARIANTS
    RpcTypeOK
    DeadSessionNeverAttracts
    NoCallAfterRelease
    NoKeyIsDropped
PROPERTIES
    RequestsReturn
    RefreshesEnd
    EveryKeyIsReturned
\* The clock of the model ends at MaxTime.
CHECK_DEADLOCK FALSE
