SPECIFICATION BansSpec
CONSTANTS
    Keys = {admin}
    admin = admin
    Capacity = 2
    Refill = 2
    ip1 = ip1
    ip2 = ip2
    Ips = {ip1, ip2}
    MaxCommands = 3
    MaxBoots = 2
SYMMETRY Symmetry
INVARIANTS
    BansInv
    LimiterInv
    AuditExplains
