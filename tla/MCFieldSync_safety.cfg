\* Two drains that may hold the same rows, three events of which the second does not
\* parse, requests that overtake each other.
SPECIFICATION FieldSpec
CONSTANTS
    MaxSeq = 3
    MaxAttempts = 0
    QueueTimes = {1}
    BatchLimit = 2
    Drains = {d1, d2}
    Answers = {"accepted", "permanent"}
    MaxLate = 0
    WireForm = "name"
    Malformed = {2}
SYMMETRY DrainSymmetry
INVARIANT
    FieldTypeOK
    StoredWasAuthored
    RejectedIsOvertaken
    InFlightIsOwned
    AckedIsStored
PROPERTY
    Spec
