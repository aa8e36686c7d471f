CONSTANTS
    Surveys = {1, 2}
    Routes <- MCRoutes
    Weights = {1, 2}
    MaxArrivals = 4
SPECIFICATION Spec
INVARIANTS
    TypeOK
    Balanced
