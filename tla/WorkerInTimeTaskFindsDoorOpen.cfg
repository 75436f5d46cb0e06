SPECIFICATION Spec
CONSTANTS
    SwitchType = "DIRECT_CONTROL_SWITCH"
    CloseAfter <- MCPositive
    MaxQueue = 2
    Events = {}
INVARIANT InTimeTaskFindsDoorOpen
