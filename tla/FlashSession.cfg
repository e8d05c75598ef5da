\* Both protocols, every kind of archive and entry, flashing and check-only.
CONSTANTS
    DeviceTypes = {1}
    Protocols = {"Thor", "OdinLegacy"}
    PitBlocks = 2
    ProgressReplies = FALSE
    SeqParts = 2
    Configs <- AllRuns
SPECIFICATION Spec
CHECK_DEADLOCK FALSE
INVARIANTS
    SessionInv
    SuccessMeansFlashed
    DeviceInOrder
    DryRunTouchesNothing
    VerdictExact
    CleanExitReleases
PROPERTIES
    AcceptsOwnReply
    KeepsPromise
    Terminates
