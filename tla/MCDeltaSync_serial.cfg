\* One request at a time, two overlapping pulls of one-event pages, repeated for ever.
SPECIFICATION FairDeltaSpec
CONSTANTS
    Devices = {1, 2}
    MaxSeq = 2
    MaxServerSeq = 4
    Txns = {t1}
    NoTxn = NoTxn
    Gateway = Gateway
    Requests <- BatchRequests
    Malformed = {}
    Self = 2
    Pulls = {p1, p2}
    PageLimit = 1
    TypeForm = "code"
INVARIANT
    DeltaTypeOK
    NoEventIsSkipped
    SeqOrderIsServerOrder
PROPERTY
    EveryEventIsPulled
