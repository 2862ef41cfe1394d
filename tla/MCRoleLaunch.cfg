SPECIFICATION Spec
CONSTANTS
    Cfg = {"net"}
    StaTypes = {"STA", "SCAN", "DELIF"}
    ApTypes = {"AP"}
    Reports <- MCReports
INVARIANTS
    TypeOK
    SocketHasTimer
    FollowingHasTimer
    NoOvertaking
    CancelHasSuccessor
PROPERTIES
    ImplementsQueue
