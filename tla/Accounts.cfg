CONSTANTS
    Clients = {c1, c2}
    Tabs = {a1, a2}
    UserIds = {1, 2}
    Names = {"ann"}
    Null = Null
    MaxPasswords = 3
    MaxRoutes = 1
SPECIFICATION Spec
SYMMETRY Symmetry
INVARIANTS
    TypeOK
    ResetEndsSessions
PROPERTIES
    CountedRoutesBlockDeletion
\* Nothing is left to do once every bound is reached and every user deleted.
CHECK_DEADLOCK FALSE
