\* One device enrols, on a deployment that was just bootstrapped.
SPECIFICATION EnrolmentSpec
CONSTANTS
    Devices = {0}
    Server = 0
    MaxSeq = 3
    MaxServerSeq = 3
    Txns = {t1}
    NoTxn = NoTxn
    NoEvent = NoEvent
    MaxIncident = 2
    Teams = {x, y}
    NoTeam = NoTeam
    Cells = {1}
    Codes = {c1}
    NoCode = NoCode
    MaxUses = 1
    MaxDevice = 3
    MaxResponder = 2
    Wishes = {}
INVARIANT
    EveryDeviceHasAnEpoch
