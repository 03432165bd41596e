------------------------------ MODULE MCBodies ------------------------------
(***************************************************************************)
(* The passes over the body of a function, one subject to a behaviour: the *)
(* type checker, and the walk of the borrow checker with the runs it is    *)
(* judged by.  The other pass stays at its first function.                 *)
(***************************************************************************)
EXTENDS MCTypeCheck, MCFlow

VARIABLE subject

InitBodies ==
    \/ subject = "walk" /\ RunsInit /\ BodyStart(Empty)
    \/ subject = "types" /\ RunsInit /\ fn = Moving /\ InitTypes

NextBodies ==
    \/ subject = "walk" /\ RunsNext /\ UNCHANGED <<subject, bodyvars>>
    \/ subject = "types" /\ CheckBody /\ UNCHANGED <<subject, vars, runVars>>

SpecBodies == InitBodies /\ [][NextBodies]_<<subject, bodyvars, vars, runVars>>
=============================================================================
