\* Two devices and a gateway, two requests at once that may wait for each other, an event
\* that does not parse, responses before or after the commit, fair threads.
SPECIFICATION FairIngestionSpec
CONSTANTS
    Devices = {1, 2}
    MaxSeq = 2
    MaxServerSeq = 4
    Txns = {t1, t2}
    NoTxn = NoTxn
    Gateway = Gateway
    Requests <- RelayRequests
    Malformed <- BadEvent
INVARIANT
    IngestionTypeOK
    ToldIsStored
    RefusedForCause
PROPERTY
    LogSpec
    EveryRequestEnds
