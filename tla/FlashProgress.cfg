\* A legacy device that reports progress before its verdict on a sequence.
CONSTANTS
    DeviceTypes = {1}
    Protocols = {"OdinLegacy"}
    PitBlocks = 1
    ProgressReplies = TRUE
    SeqParts = 1
    Configs <- SingleImages
SPECIFICATION Spec
CHECK_DEADLOCK FALSE
INVARIANTS
    FinalisedComplete
