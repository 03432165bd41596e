SPECIFICATION RunsSpec
CONSTANTS
    Locals <- MCLocals
    Nil = Nil
    Functions <- MCChained
INVARIANT StaleIsReported
CHECK_DEADLOCK FALSE
