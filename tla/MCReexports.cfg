SPECIFICATION SpecResolve
CONSTANT Namespaces = {"fn", "type"}
INVARIANTS ReexportsComplete
CHECK_DEADLOCK FALSE
