SPECIFICATION FairSpec
CONSTANTS
    Client = {c1, c2, c3}
    Size = 8
    MyIp = 1
    OutIp = OutIp
    NoIp = NoIp
    Wanted = {3, OutIp}
    CacheSize = 1
    MaxMessages = 3
    MaxFaults = 1
INVARIANTS DTypeOK OfferIsHonoured LeasesAreUnique SearchEnds StopIsClean ServedWhenUp HaltIsSeen
PROPERTY CallsReturn
CHECK_DEADLOCK FALSE
