SPECIFICATION MCFairSpec
CONSTANTS
    Switches <- MCTwoSwitches
    NbChannels <- MCThreeDoors
    SwitchType <- MCTwoTypes
    BadIp <- MCBadIp
    MaxQueue = 1
PROPERTIES
    StrandedForEver
    AcceptedIsTaken
\* An exception may end the program.
CHECK_DEADLOCK FALSE
