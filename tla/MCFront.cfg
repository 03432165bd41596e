SPECIFICATION SpecFront
CONSTANTS
    Namespaces = {"type"}
    Rounds = 1
    Depth = 3
INVARIANTS TypesAreNameable ReexportsComplete RecursionReported
           DerivesHold MatchIsExact RefersToItsRoots CyclesReported PrintedParsesBack
PROPERTY RoundsJudge
CHECK_DEADLOCK FALSE
