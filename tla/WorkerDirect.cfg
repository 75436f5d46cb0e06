SPECIFICATION FairSpec
CONSTANTS
    SwitchType = "DIRECT_CONTROL_SWITCH"
    CloseAfter <- MCCloseAfter
    MaxQueue = 2
    Events = {"link", "stop"}
INVARIANTS
    TypeOK
    FlagTracksDoor
    ServedDoorOpen
    IdleDoorClosed
PROPERTIES
    OpenIsTemporary
    CloseReturns
\* The worker has exited and the main thread has joined it.
CHECK_DEADLOCK FALSE
