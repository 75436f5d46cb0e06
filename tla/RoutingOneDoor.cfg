SPECIFICATION MCSpec
CONSTANTS
    Switches <- MCSwitches
    NbChannels <- MCNbChannels
    SwitchType <- MCTypes
    BadIp = {}
    MaxQueue = 1
INVARIANT OneDoorPerController
