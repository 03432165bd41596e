SPECIFICATION MCSpec
CONSTANTS
    Files <- MCFiles
    Main <- MCMain
    Beside <- MCBeside
    Text <- MCText
    NoText = NoText
    Pkg = Pkg
    Nobody = Nobody
    MaxQueue = 2
    MaxSent = 5
    MaxOutside = 1
    Parsed <- Parse
CHECK_DEADLOCK FALSE
INVARIANT FixFitsEditor
