\* Replies that come late, in part or not at all; PITs of every size and kind.
CONSTANTS
    Reads <- AllReads
    MaxPacket = 2
    Retries = 3
    Devices <- SomeDevices
    HeaderLen = 2
    EntryLen = 3
    BlockLen = 4
    MaxSize = 12
    MaxEntries = 3
SPECIFICATION AnySpec
CHECK_DEADLOCK FALSE
INVARIANTS
    TrueMeansReply
    PitInUse
PROPERTIES
    ReadReturns
    Judged
