\* Two drains that may hold the same rows, every answer, a clock that may step back.
SPECIFICATION Spec
CONSTANTS
    MaxSeq = 2
    MaxAttempts = 1
    QueueTimes = {1, 2}
    BatchLimit = 1
    Drains = {d1, d2}
    Answers = {"accepted", "retry", "permanent", "unflagged"}
SYMMETRY DrainSymmetry
INVARIANT
    TypeOK
    
PROPERTY
    CriticalFirst
    LegalTransitions
    OnlyAVerdictSettles
