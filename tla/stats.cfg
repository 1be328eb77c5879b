SPECIFICATION Spec
CONSTANTS
    Openers = {daemon, cli}
    Daemon = daemon
    daemon = daemon
    cli = cli
    None = None
    Statements <- MCStatements
    Alters <- MCAlters
    Pragma <- MCPragma
    Hours <- MCHours
    MaxCrashes = 1
    MaxId = 2
    MaxTraffic = 2
    MaxAgain = 1
INVARIANTS
    Inv
    SchemaComplete
PROPERTIES
    NewIsUncharged
    ComesUp
