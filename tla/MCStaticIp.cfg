SPECIFICATION WSpec
CHECK_DEADLOCK FALSE
CONSTANTS
    Cfg = {"net"}
    StaTypes = {"STA"}
    ApTypes = {}
    Reports <- MCReports
    MaxRequests = 2
    MaxTrouble = 0
    EmptyScans = FALSE
    Dhcp = FALSE
PROPERTIES
    WaitingIsLaunched
