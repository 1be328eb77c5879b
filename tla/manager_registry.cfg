\* Two names, two rows, two boots; failing binds and writes, crashes.
SPECIFICATION Spec
CONSTANTS
    Names = {"a", "b"}
    Key <- Distinct
    Ports = {1, 2}
    Modes = {"raw", "bungee"}
    Raw = "raw"
    NoPort = 0
    MaxId = 2
    MaxBoots = 2
    Commands = {"add", "remove", "remove unknown", "restart", "add-udp", "remove-udp",
                "forward"}
    StoreMayFail = TRUE
    BindMayFail = TRUE
INVARIANTS
    Inv
    NoOrphans
    PortsDistinct
PROPERTIES
    IsCatalog
CHECK_DEADLOCK FALSE
