CONSTANTS
    Tabs = {t1, t2}
    Editor = t1
    Surveys = {1, 2}
    Weights = {1, 2}
    Blank = Blank
    Bad = Bad
    SurveyTexts = {1, 2, Blank}
    WeightTexts = {1, 2, Blank, Bad}
    NoCookie = NoCookie
    NoRoute = NoRoute
    NoForm = NoForm
    MaxRows = 2
    MaxTokens = 2
    MaxSecrets = 2
SPECIFICATION FormsSpec
INVARIANTS
    FormsTypeOK
    OpenPagesAreAccepted
PROPERTIES
    SavedAsTyped
    ShownIsSaved
    DraftMeansTheSame
\* Once the tokens are used up no page can be asked for.
CHECK_DEADLOCK FALSE
