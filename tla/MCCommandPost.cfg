\* Two requests at once, of commanders and of devices that enrol.
SPECIFICATION EnrolmentSpec
CONSTANTS
    Devices = {0}
    Server = 0
    MaxSeq = 3
    MaxServerSeq = 3
    Txns = {t1, t2}
    NoTxn = NoTxn
    NoEvent = NoEvent
    MaxIncident = 2
    Teams = {x, y}
    NoTeam = NoTeam
    Cells = {1}
    Codes = {c1}
    NoCode = NoCode
    MaxUses = 1
    MaxDevice = 3
    MaxResponder = 2
    Wishes <- AllWishes
VIEW View
SYMMETRY Symmetry
INVARIANT
    EnrolmentTypeOK
    AnsweredAloneIsRecorded
    DeclaredIncidentHasItsEvent
    LogHasOneReading
    
    ServerSeqsFollowTheLog
    
    UsesAreCounted
