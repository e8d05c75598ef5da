\* Every list of up to three members, whole or cut off; every signed file,
\* number field and header of MCArchive.
CONSTANTS
    Archives <- SoundArchives
    Pit <- MCPit
    Lower <- MCLower
    Block = 2
    NameLimit = 3
    SignedFiles <- AllFiles
    SumLen = 2
    TailLen = 7
    BufSize = 2
    Fields <- AllFields
    Top = 128
    Headers <- AllHeaders
    FieldLen = 8
SPECIFICATION Spec
CHECK_DEADLOCK FALSE
INVARIANTS
    ImagesOfTheList
    FirstFaultDecides
    InsideContent
    AcceptedIsSigned
    GoodIsAccepted
    HeaderExact
PROPERTIES
    BothEnd
