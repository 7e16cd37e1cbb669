\* Two writers and a reader at once, over seven kinds of traffic.
SPECIFICATION ReadModelsSpec
CONSTANTS
    Devices = {0, 1, 2}
    MaxSeq = 3
    MaxServerSeq = 3
    Txns = {t1, t2}
    NoTxn = NoTxn
    NoTeam = NoTeam
    Incident = 1
    NoUpload = NoUpload
    NoEvent = NoEvent
    Traffics <- AllTraffics
SYMMETRY Symmetry
INVARIANT
    ReadModelsTypeOK
    CalmCursorsAreComplete
    DiagnosticsAddUp
    FoldsFollowTheRules
    CoverageAddsUp
    CommittedEventsAreReadable
    ExportNamesItsCells
    HonestRelayIsVerified
    PackedBatchesFit
PROPERTY
    DuplicatesAreKept
