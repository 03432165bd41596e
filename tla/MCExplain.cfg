SPECIFICATION SpecDerives
INVARIANTS ExplanationEnds
CHECK_DEADLOCK FALSE
