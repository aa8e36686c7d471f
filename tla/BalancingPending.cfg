CONSTANTS
    Surveys = {1, 2}
    Routes <- MCPendingRoutes
    Weights = {1}
    MaxArrivals = 3
SPECIFICATION Spec
PROPERTIES
    PendingBufferCounts
