\* One drain, two events: what the order rule does to a CRITICAL-first drain.
SPECIFICATION FieldSpec
CONSTANTS
    MaxSeq = 2
    MaxAttempts = 0
    QueueTimes = {1}
    BatchLimit = 2
    Drains = {d1}
    Answers = {"accepted", "permanent"}
    MaxLate = 1
    WireForm = "name"
    Malformed = {}
INVARIANT
    NeverDropsAnEvent
