CONSTANTS
    Requests = {q1}
    Editors = {e1, e2}
    RouteIds = {1, 2}
    Surveys = {1, 2}
    Slugs = {"a", "b"}
    Inputs <- MCInputs
    Null = Null
    MayFail = TRUE
SPECIFICATION FairSpec
INVARIANTS
    TypeOK
    SlugsUnique
    TargetsAsSaved
    IdsNameTheirSurvey
    RowAndTargetsAgree
PROPERTIES
    EnforcedReferencesHold
    DeletedRoutesStayDeleted
    RequestsAnswered
\* Every handler ends.
CHECK_DEADLOCK FALSE
