\* Two clients; writes to open sockets may fail, or not; Close at any moment.
SPECIFICATION FairSpec
CONSTANTS
    Clients = {p1, p2}
    MaxSessions = 3
    NoClient = NoClient
INVARIANTS
    Inv
    ClosedIsQuiet
PROPERTIES
    CloseReturns
    SessionsExpire
    NoForeignDrop
CHECK_DEADLOCK FALSE
