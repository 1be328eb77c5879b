\* One backend, with and without a bot; more alerts than the queue holds.
SPECIFICATION Spec
CONSTANTS
    Backends = {b1}
    QueueSize = 2
    MaxAlerts = 4
INVARIANTS
    Inv
    OneAlertPerOutage
    ServesUntilSignal
PROPERTIES
    QueuedIsHandedOver
    SignalExits
CHECK_DEADLOCK FALSE
