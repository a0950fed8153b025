SPECIFICATION AccountSpec
CONSTANTS
    SafeDigits = 2
    Letters = {"a"}
    Hosts = 3
    MaxFlows = 2
    None = None
    RoleDocs <- MCRoleDocs
INVARIANTS
    AccountTypeOK
    NullMeansAllTried
    NoFalseFailure
    RoleExact
