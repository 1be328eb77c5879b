\* A signal at any moment of any command, with the forward modes; removals that
\* are held and ones that forget the lock.
SPECIFICATION FairSpec
CONSTANTS
    Names = {"a", "b"}
    Key <- Distinct
    Ports = {1}
    Modes = {"raw", "bungee"}
    Raw = "raw"
    NoPort = 0
    MaxId = 2
    MaxBoots = 2
    Commands = {"add", "remove", "remove id", "remove unknown", "restart",
                "forward"}
    StoreMayFail = TRUE
    BindMayFail = TRUE
INVARIANTS
    ModeAgrees
PROPERTIES
    SignalExits
CHECK_DEADLOCK FALSE
