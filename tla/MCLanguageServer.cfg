SPECIFICATION EditorSpec
CONSTANTS
    Files <- MCFiles
    Main <- MCMain
    Beside <- MCBeside
    Text <- MCText
    NoText = NoText
    Pkg = Pkg
    Nobody = Nobody
    MaxQueue = 2
    MaxSent = 5
    MaxOutside = 1
    Parsed <- Parse
VIEW MCView
INVARIANTS TypeOK OwnerCanClear FixesPublished FixFits DirtyIsMarked NothingLost
PROPERTY FixesSettle
CHECK_DEADLOCK FALSE
