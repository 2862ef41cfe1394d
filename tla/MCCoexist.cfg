SPECIFICATION WSpec
CHECK_DEADLOCK FALSE
CONSTANTS
    Cfg = {"net"}
    StaTypes = {"STA", "SCAN", "DELIF"}
    ApTypes = {"AP", "DELIF"}
    Reports <- MCReports
    MaxRequests = 4
    MaxTrouble = 0
    EmptyScans = FALSE
    Dhcp = TRUE
PROPERTIES
    LaunchedOrSwitched
