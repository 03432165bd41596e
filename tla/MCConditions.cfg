SPECIFICATION SpecText
INVARIANTS ConditionsParseBack
CHECK_DEADLOCK FALSE
