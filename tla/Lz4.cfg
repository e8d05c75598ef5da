\* LZ4 images: the loop of odin4, frames, blocks and checksums.
SPECIFICATION Spec
CHECK_DEADLOCK FALSE
CONSTANTS
    Images <- TheImages
    InBuf = 3
    OutBuf = 2
    HeaderMax = 2
    Frames <- TheFrames
    SrcSizes = {1, 3, 9}
    DstSizes = {1, 3, 8}
    Window = 3
    MaxBlock = 3
    MinFH = 2
    MaxFH = 4
    SizeField = 1
    IdField = 1
    BHSize = 2
    CrcSize = 2
    SFrameHead = 3
    SFrameMagic = 1
    Inputs <- TheInputs
    MaxDistance = 75
    Lengths = {0, 1, 3, 4, 7, 15, 16, 17, 33}
    MaxGiven = 50
    Modulus = 32
INVARIANTS
    StreamExact
    FrameContent
    InsideTmp
    BlockInside
    BlockContent
    DigestIsTheHash
PROPERTIES
    StreamEnds
    CallsReturn
