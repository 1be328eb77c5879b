\* One backend, two connections of one address, restarts and shutdowns.
SPECIFICATION FairSpec
CONSTANTS
    c1 = c1
    c2 = c2
    c3 = c3
    ip1 = ip1
    ip2 = ip2
    Backends = {b1}
    Conns = {c1, c2}
    IPs = {ip1}
    Ip <- OneIp
    MaxPerIP = 2
    Stoppable = {b1}
    NoConn = NoConn
    NoBackend = NoBackend
INVARIANTS
    Inv
    QuietAfterWait
    AtMostOneEscapes
    NoSocketLeak
PROPERTIES
    IsService
    HangUpReleases
    ShutdownReturnsOrEscape
CHECK_DEADLOCK FALSE
