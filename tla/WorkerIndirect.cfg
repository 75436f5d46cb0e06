SPECIFICATION FairSpec
CONSTANTS
    SwitchType = "INDIRECT_CONTROL_SWITCH"
    CloseAfter <- MCCloseAfter
    MaxQueue = 3
    Events = {}
PROPERTIES
    DoorPromise
