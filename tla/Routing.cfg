SPECIFICATION MCSpec
CONSTANTS
    Switches <- MCSwitches
    NbChannels <- MCNbChannels
    SwitchType <- MCTypes
    BadIp = {}
    MaxQueue = 1
INVARIANTS
    TypeOK
    ControllersInOrder
    HandlersInOrder
    DoorsFollowWorkers
PROPERTIES
    OrphanForEver
