--------------------------- MODULE TraitJudgement ---------------------------
(***************************************************************************)
(* What the derives promise (types/derives.rs, `compute`): each trait is   *)
(* judged once, and given to exactly those types that can have it          *)
(* together, however they hold each other: the largest set in which a Rust *)
(* type lists the trait and a Varyk type holds only types of the set.      *)
(***************************************************************************)
EXTENDS Sequences

CONSTANT JudgedTraits

VARIABLES
  program,   \* the declared types
  verdict    \* per trait, <<the types that have it>>, or <<>> before it is judged

CanShare(S, tr) == \A n \in S :
  IF program[n].from = "rust" THEN tr \in program[n].derives
  ELSE \A p \in DOMAIN program[n].parts :
         \A i \in DOMAIN program[n].parts[p].type.holds : program[n].parts[p].type.holds[i] \in S

LargestShare(S, tr) ==
  CanShare(S, tr) /\ \A T \in SUBSET DOMAIN program : CanShare(T, tr) => T \subseteq S

Judge(tr) ==
  /\ verdict[tr] = <<>>
  /\ \E S \in SUBSET DOMAIN program :
       LargestShare(S, tr) /\ verdict' = [verdict EXCEPT ![tr] = <<S>>]
  /\ UNCHANGED program

Init == verdict = [tr \in JudgedTraits |-> <<>>]
Spec == Init /\ [][\E tr \in JudgedTraits : Judge(tr)]_<<program, verdict>>
=============================================================================
