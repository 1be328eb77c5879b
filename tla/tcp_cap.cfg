\* Two backends contend for the slots of one address.
SPECIFICATION Spec
CONSTANTS
    c1 = c1
    c2 = c2
    c3 = c3
    ip1 = ip1
    ip2 = ip2
    Backends = {b1, b2}
    Conns = {c1, c2, c3}
    IPs = {ip1}
    Ip <- OneIp
    MaxPerIP = 1
    Stoppable = {}
    NoConn = NoConn
    NoBackend = NoBackend
SYMMETRY Symmetry
INVARIANTS
    CapBound
CHECK_DEADLOCK FALSE
