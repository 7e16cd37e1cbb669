\* Two requests at once: the later number may commit first.
SPECIFICATION DeltaSpec
CONSTANTS
    Devices = {1, 2}
    MaxSeq = 2
    MaxServerSeq = 3
    Txns = {t1, t2}
    NoTxn = NoTxn
    Gateway = Gateway
    Requests <- SingleRequests
    Malformed = {}
    Self = 2
    Pulls = {p1}
    PageLimit = 2
    TypeForm = "code"
INVARIANT
    NoEventIsSkipped
