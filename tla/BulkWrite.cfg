\* Two messages of any size, every outcome of every transfer; images of every size.
CONSTANTS
    Sizes <- AllSizes
    Messages = 2
    MaxPacket = 2
    FirstChunk = 6
    Fallback = 4
    Retries = 3
    Images <- AllImages
    Packet = 4
    Count = 2
    ImageChunk = 5
    MaxSequences = 3
SPECIFICATION AnySpec
CHECK_DEADLOCK FALSE
INVARIANTS
    InOrderOnce
    TrueMeansDelivered
    OneTransferPerMessage
PROPERTIES
    WriteReturns
    ImageArrives
