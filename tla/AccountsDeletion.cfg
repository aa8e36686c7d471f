CONSTANTS
    Clients = {c1}
    Tabs = {a1}
    UserIds = {1}
    Names = {"ann"}
    Null = Null
    MaxPasswords = 1
    MaxRoutes = 1
SPECIFICATION Spec
SYMMETRY Symmetry
PROPERTIES
    OwnersAreNotDeleted
\* Nothing is left to do once every bound is reached and every user deleted.
CHECK_DEADLOCK FALSE
