\* /remove of a name that does not exist, then a signal.
SPECIFICATION FairSpec
CONSTANTS
    Names = {"a"}
    Key <- Distinct
    Ports = {1, 2}
    Modes = {"raw"}
    Raw = "raw"
    NoPort = 0
    MaxId = 1
    MaxBoots = 1
    Commands = {"add", "remove", "remove unknown"}
    StoreMayFail = FALSE
    BindMayFail = FALSE
PROPERTIES
    ShutdownReturns
CHECK_DEADLOCK FALSE
