SPECIFICATION LiveSpec
CONSTANTS
    s1 = s1
    s2 = s2
    Sender = {s1, s2}
    Ind = Ind
    ReqOf <- MCReqOf
    MaxSends = 3
    MaxTimeouts = 1
    MaxFails = 1
    MaxInds = 1
INVARIANT RTypeOK
INVARIANT NodesLiveUntilFailure
INVARIANT OwnConfirmation
INVARIANT AnswerIsComing
INVARIANT GiveSucceeds
PROPERTY ConfirmArrives
CHECK_DEADLOCK FALSE
