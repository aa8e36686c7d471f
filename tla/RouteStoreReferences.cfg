CONSTANTS
    Requests = {q1}
    Editors = {e1}
    RouteIds = {1, 2}
    Surveys = {1, 2}
    Slugs = {"a", "b"}
    Inputs <- MCTwoInputs
    Null = Null
    MayFail = FALSE
SPECIFICATION Spec
INVARIANTS
    ReferencesHold
\* Every handler ends.
CHECK_DEADLOCK FALSE
