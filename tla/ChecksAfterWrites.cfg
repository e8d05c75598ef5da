\* Archives are checked one by one, between writes.
CONSTANTS
    DeviceTypes = {1}
    Protocols = {"Thor"}
    PitBlocks = 2
    ProgressReplies = FALSE
    SeqParts = 2
    Configs <- FlashRuns
SPECIFICATION Spec
CHECK_DEADLOCK FALSE
INVARIANTS
    ChecksBeforeAnyWrite
