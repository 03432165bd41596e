--------------------------- MODULE RecursiveTypes ---------------------------
(***************************************************************************)
(* Structs and enums that contain themselves (resolve/mod.rs): a walk,     *)
(* depth first, over the types each type lays out inline, in the order of  *)
(* its fields or payloads (InlineTypes).  A declared type is a number.     *)
(***************************************************************************)
EXTENDS Integers, Sequences

VARIABLES
  lays,      \* per type, the types it lays out inline, in order
  state,     \* per type: "unvisited", "onstack" or "done"
  stack,     \* <<type, the targets it has still to look at>>, innermost last
  cycles     \* the cycles reported, each the types on it in turn

tvars == <<lays, state, stack, cycles>>
Types == DOMAIN lays

Visit(node) ==
  /\ state' = [state EXCEPT ![node] = "onstack"]
  /\ stack' = Append(stack, <<node, lays[node]>>)

Top == stack[Len(stack)]
Below == SubSeq(stack, 1, Len(stack) - 1)

(* The walk starts at each type nothing has led to yet. *)
Start ==
  /\ stack = <<>>
  /\ \E node \in Types :
       /\ state[node] = "unvisited"
       /\ \A n \in 1 .. node - 1 : state[n] # "unvisited"
       /\ Visit(node)
  /\ UNCHANGED <<lays, cycles>>

(* The next target: walked into, reported, or already done. *)
Target ==
  /\ stack # <<>> /\ Top[2] # <<>>
  /\ LET target == Head(Top[2])
         rest == [stack EXCEPT ![Len(stack)][2] = Tail(@)]
     IN \/ /\ state[target] = "unvisited"
           /\ state' = [state EXCEPT ![target] = "onstack"]
           /\ stack' = Append(rest, <<target, lays[target]>>)
           /\ UNCHANGED cycles
        \/ /\ state[target] = "onstack"
           /\ LET on == [i \in 1 .. Len(stack) |-> stack[i][1]]
                  start == CHOOSE i \in DOMAIN on : on[i] = target
              IN cycles' = cycles \cup {SubSeq(on, start, Len(on))}
           /\ stack' = rest /\ UNCHANGED state
        \/ state[target] = "done" /\ stack' = rest /\ UNCHANGED <<state, cycles>>
  /\ UNCHANGED lays

(* Mutant: the first type without more targets ends the whole walk. *)
LeaveLast ==
  /\ stack # <<>> /\ Top[2] = <<>>
  /\ stack' = <<>> /\ state' = [t \in Types |-> IF \E i \in DOMAIN stack : stack[i][1] = t THEN "done" ELSE state[t]]
  /\ UNCHANGED <<lays, cycles>>

Leave ==
  /\ stack # <<>> /\ Top[2] = <<>>
  /\ stack' = Below /\ state' = [state EXCEPT ![Top[1]] = "done"]
  /\ UNCHANGED <<lays, cycles>>

TypesNext == Start \/ Target \/ Leave
TypesStart(p) ==
  /\ \A t \in DOMAIN p : p[t] \in Seq(DOMAIN p)
  /\ lays = p /\ state = [t \in DOMAIN p |-> "unvisited"] /\ stack = <<>> /\ cycles = {}

(* Any types. *)
TypesSpec == (\E p : TypesStart(p)) /\ [][TypesNext]_tvars
-----------------------------------------------------------------------------
(* The types a type lays out, and those they lay out in turn.              *)
Lays(t) == {lays[t][i] : i \in DOMAIN lays[t]}
InsideOf(t) == {n \in Types : \A W \in SUBSET Types :
  Lays(t) \subseteq W /\ (\A m \in W : Lays(m) \subseteq W) => n \in W}

(* V0109 for every type that would have no size: the cycles reported are   *)
(* cycles, and each type that contains itself, however deep, is in a       *)
(* tangle of types one of the reported cycles runs through.                *)
RecursionReported == (stack = <<>> /\ \A t \in Types : state[t] = "done") =>
  /\ \A c \in cycles : \A i \in DOMAIN c : c[IF i = Len(c) THEN 1 ELSE i + 1] \in Lays(c[i])
  /\ \A t \in Types : t \in InsideOf(t) =>
       \E c \in cycles : c[1] \in InsideOf(t) /\ t \in InsideOf(c[1])
=============================================================================
