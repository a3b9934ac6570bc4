SPECIFICATION Spec
CONSTANTS
    cust = cust
    org = org
    NoOne = NoOne
    User <- MCUser
    Role <- MCRole
    MaxSubmits = 2
    Opened <- MCOpened
    MaxLoads = 2
INVARIANTS
    UserIsTokens
    FormsAreAccepted
    BooksOnce
    ListIsTrue
PROPERTIES
    RestoreEnds
