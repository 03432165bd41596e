---------------------------- MODULE InlineTypes ----------------------------
(***************************************************************************)
(* The types a type lays out inline (resolve/mod.rs).  A field's type is   *)
(* [of, args], of being one of "user", "option", "result" and "elsewhere"  *)
(* (a `Vec` or a `HashMap`).                                               *)
(***************************************************************************)
EXTENDS Integers, Sequences
LOCAL INSTANCE SequencesExt

RECURSIVE Inline(_)
(* `inline`: the types a field lays out inside itself. *)
Inline(ty) ==
  CASE ty.of = "user" -> <<ty.args>>
    [] ty.of = "option" -> Inline(ty.args[1])
    [] ty.of = "result" -> Inline(ty.args[1]) \o Inline(ty.args[2])
    [] OTHER -> <<>>

(* Consecutive equal targets of one field count once. *)
Dedup(s) == LET kept == SelectSeq([i \in 1 .. Len(s) |-> i], LAMBDA i : i = 1 \/ s[i] # s[i - 1])
            IN [i \in 1 .. Len(kept) |-> s[kept[i]]]
(* What a type with these fields or payloads lays out, in order.           *)
Targets(fields) == FlattenSeq([i \in 1 .. Len(fields) |-> Dedup(Inline(fields[i]))])
=============================================================================
