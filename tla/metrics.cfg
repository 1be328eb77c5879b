\* Two goroutines count for one address while the janitor prunes.
SPECIFICATION FairSpec
CONSTANTS
    Procs = {p1, p2}
    IPs = {i1}
    Window = 2
    Keep = 3
    MaxPerSecond = 2
    Free = Free
    Janitor = Janitor
    NoIP = NoIP
INVARIANTS
    Inv
    WindowSandwich
PROPERTIES
    Forgets
CHECK_DEADLOCK FALSE
