SPECIFICATION SpecBodies
CONSTANTS
    Structs <- TheStructs
    Enums <- TheEnums
    Fns <- TheFns
    Members <- TheMembers
    Underived <- TheUnderived
    Checks <- Function
    Locals <- MCLocals
    Nil = Nil
    Functions <- MCFunctions
INVARIANTS WalkIsExact AcceptedCompiles ReportsAreExact TasksAreKept
CHECK_DEADLOCK FALSE
