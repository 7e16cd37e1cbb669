\* The JSON batch as the handset encodes it.
SPECIFICATION FieldSpec
CONSTANTS
    MaxSeq = 2
    MaxAttempts = 0
    QueueTimes = {1}
    BatchLimit = 2
    Drains = {d1}
    Answers = {"accepted", "permanent"}
    MaxLate = 1
    WireForm = "code"
    Malformed = {}
INVARIANT
    WireFormIsUnderstood
