\* Devices that come and go, every command line, every device type.
CONSTANTS
    Paths = {"001/002", "001/003"}
    Devices <- MCDevices
    Criteria <- MCCriteria
    NoDevice = NoDevice
    NoInterface = NoInterface
    Replugs = 2
    Opens = 2
    CommandLines <- AllLines
    HexOf <- Hex
    IntOf <- Ints
    Dashed = {"--bad"}
    Buses <- AllBuses
    Reported <- AllReported
    ArchiveNames <- AllNames
SPECIFICATION AnySpec
CHECK_DEADLOCK FALSE
INVARIANTS
    DriversGivenBack
    NothingOutlivesLibusb
    OpenedIsWanted
    ListedIsFound
    RunIsTheArguments
    ModelCompared
