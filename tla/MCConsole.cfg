SPECIFICATION ConsoleSpec
CONSTANTS
    NoData = NoData
    Admin = TRUE
    MaxFaults = 1
    MaxTroubles = 2
    MaxInbox = 1
INVARIANTS
    OwnActionIsShown
    AnnouncedIsShown
    LiveIsFed
    ErrorIsOfThisAttempt
PROPERTIES
    EndIsSeen
    WaitingIsServed
    WaitingEnds
CHECK_DEADLOCK FALSE
