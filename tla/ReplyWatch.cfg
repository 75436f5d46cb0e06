SPECIFICATION FairSpec
CONSTANTS
    Controllers = {"door1", "door2"}
    Deadline = 1
    MaxDue = 2
INVARIANTS
    TypeOK
    DeadlineHasRead
    ReadHasDeadline
    AlarmMeansUnread
    InfiniteMeansAnswered
PROPERTIES
    ReadEnds
