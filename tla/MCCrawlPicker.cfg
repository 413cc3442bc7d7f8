CONSTANTS
    hub = hub
    app = app
    lib = lib
    test = test
    gen = gen
    doc = doc
    Tracked <- MCTracked
    Neighbors <- MCNeighbors
    Size <- MCSize
    Class <- MCClass
    Impl <- MCImpl
    Ignored = {}
    Relevances <- MCRelevances
    Configs <- MCConfigs
    Changes <- MCChanges
    Analyzers = 2
    Horizon = 3
    Window = 3
    MaxHub = 1
    MaxFiles = 3
    MaxBytes = 6
    Oversize = 8
    NoImpl = NoImpl
    CommitLimit = 1
    FaultLimit = 1
SPECIFICATION PickerSpec

    
PROPERTIES
    SeedsRotate
CHECK_DEADLOCK FALSE
