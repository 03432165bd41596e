SPECIFICATION SpecBuild
CONSTANTS
    Builds = {b1, b2}
    Programs = {P, Q}
    P = P
    Q = Q
    main = main
    util = util
    net = net
    tp = tp
    tq = tq
    te = te
    lk = lk
    Files <- MCFiles
    Nested = {net}
    Text <- MCText
    Lock <- MCLock
    Absent = Absent
    None = None
    NoTable <- MCNoTable
    Compiler <- MCCompiler
    Versions <- MCVersions
    NoLine <- MCNoLine
    Odd <- MCOdd
    MaxNodes = 4
    Ways <- MCWays
    ModuleNames <- MCModuleNames
    CargoNames = {"main"}
    RootOnly = {"bin"}
    Reserved = {"Task"}
    Locals <- MCLocals
    Nil = Nil
    Fns <- MCFns
    Passed <- PassedOver
    Compiled <- MCCompiled
INVARIANTS TreeIsBuilt RunsItsProgram GivesUpForCause FreshWritesNothing
           GraphVerdict PublishedIsUsable PublishedStdIsOwn AcceptedBorrows
PROPERTY OthersKept
CHECK_DEADLOCK FALSE
