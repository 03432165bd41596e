SPECIFICATION SpecEnded
CONSTANTS
    Structs <- TheStructs
    Enums <- TheEnums
    Fns <- TheFns
    Members <- TheMembers
    Underived <- TheUnderived
    Checks <- Function
INVARIANT AcceptedCompiles
CHECK_DEADLOCK FALSE
