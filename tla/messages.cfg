CONSTANTS
    MaxCsn = 4
    MaxInitial = 1
    Cookie = {server, c1, c2}
    ServerCookie = server
    PathKey = path
    SessionKey = {session}
    LastSlot = 2
    None = None
SPECIFICATION Spec
CHECK_DEADLOCK FALSE
INVARIANTS
    TypeOK
    NoncesFresh
    AcceptedInOrder
    CookiesDiffer
    RoleProven
    ServerAuthFirst
