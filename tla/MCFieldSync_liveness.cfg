\* One drain, two events, losses that may recur for ever, any number of deaths, a request
\* that arrives when the handset has given it up.
SPECIFICATION FairFieldSpec
CONSTANTS
    MaxSeq = 2
    MaxAttempts = 0
    QueueTimes = {1}
    BatchLimit = 2
    Drains = {d1}
    Answers = {"accepted", "permanent"}
    MaxLate = 1
    WireForm = "name"
    Malformed = {1}
PROPERTY
    EveryEventSettles
    LastEventIsStored
