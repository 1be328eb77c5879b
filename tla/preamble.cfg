\* Players, pings and foreign protocols under every forward mode.
SPECIFICATION FairSpec
CONSTANTS
    Clients <- AllClients
    Modes = {"raw", "ppv2", "bungee"}
    Source <- V4
    Dest <- V4Dest
    IpText <- Ten
    OfflineUUID <- FakeUUID
INVARIANTS
    Inv
    IdentityReaches
    HeaderTells
PROPERTIES
    KeepsPromise
    Delivered
    
CHECK_DEADLOCK FALSE
