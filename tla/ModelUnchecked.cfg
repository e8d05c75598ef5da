\* Devices that report no type are flashed unchecked.
CONSTANTS
    DeviceTypes = {1}
    Protocols = {"OdinLegacy"}
    PitBlocks = 2
    ProgressReplies = FALSE
    SeqParts = 2
    Configs <- FlashRuns
SPECIFICATION Spec
CHECK_DEADLOCK FALSE
INVARIANTS
    ModelChecked
