SPECIFICATION WSpec
CHECK_DEADLOCK FALSE
CONSTANTS
    Cfg = {"net"}
    StaTypes = {"STA", "DELIF"}
    ApTypes = {}
    Reports <- MCReports
    MaxRequests = 4
    MaxTrouble = 2
    EmptyScans = FALSE
    Dhcp = TRUE
PROPERTIES
    WaitingIsLaunched
    AbandonedIsReplaced
