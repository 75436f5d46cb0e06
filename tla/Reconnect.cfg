SPECIFICATION FairSpec
CONSTANTS
    Reporters = {"io", "worker"}
    IoThread = "io"
    Network = "net"
    StartPeriod = 2
    MaxPeriod = 5
INVARIANTS
    TypeOK
    OneTimerThread
    StartAsserted
    FlagIsHonest
    SomebodyRetries
    TimerStaysOff
PROPERTIES
    ConnectionComesBack
    StopReturns
    CloseReturns
CHECK_DEADLOCK FALSE
