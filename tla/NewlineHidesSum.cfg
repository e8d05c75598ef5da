\* A newline in the tail of the content.
CONSTANTS
    Archives <- SoundArchives
    Pit <- MCPit
    Lower <- MCLower
    Block = 2
    NameLimit = 3
    SignedFiles <- AllFiles
    SumLen = 2
    TailLen = 7
    BufSize = 2
    Fields <- AllFields
    Top = 128
    Headers <- AllHeaders
    FieldLen = 8
SPECIFICATION Spec
CHECK_DEADLOCK FALSE
INVARIANTS
    IntactIsAccepted
