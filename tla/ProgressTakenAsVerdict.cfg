\* A progress reply is taken for the verdict on the sequence.
CONSTANTS
    DeviceTypes = {1}
    Protocols = {"OdinLegacy"}
    PitBlocks = 1
    ProgressReplies = TRUE
    SeqParts = 1
    Configs <- SingleImages
SPECIFICATION Spec
CHECK_DEADLOCK FALSE
INVARIANTS
    SuccessMeansFlashed
