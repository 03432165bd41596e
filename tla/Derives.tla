------------------------------- MODULE Derives -------------------------------
(***************************************************************************)
(* Which structs and enums can be copied, compared, and turned into or     *)
(* read from JSON or the environment (types/derives.rs).  `Clone` and      *)
(* `PartialEq` are judged for all types at once: every Varyk type starts   *)
(* with the trait and loses it when a part of it has, round after round;   *)
(* a Rust type has what its `#[derive(..)]` lists.  Serde's traits go to   *)
(* what the calls of the program reach.                                    *)
(*                                                                         *)
(* A type of a part or of a value is                                       *)
(*   [holds, bad, single]: the declared types inside it, left to right;    *)
(*   whether JSON can hold none of its kind (an `Error`, a `Result`, a     *)
(*   `HashMap` with other keys); whether it is one value, or an `Option`   *)
(*   of one.                                                               *)
(* A declared type is                                                      *)
(*   [from, derives, enum, data, parts]: "varyk", "rust" or "package"; a   *)
(*   Rust type's list; whether a variant carries data; and its fields or   *)
(*   payloads, each [type, skip, filled, key], filled by a `#[default]` or *)
(*   as an `Option`, a variant without data being its key alone.           *)
(***************************************************************************)
EXTENDS Integers, Sequences, FiniteSets

Traits == {"Clone", "PartialEq"}
Media == {"json", "env"}
Ways == {"write", "read"}

VARIABLES
  decl,      \* the declared types
  has,       \* per trait, the types that (still) have it
  by,        \* per trait and type, the part that took it away; 0 for none
  judging,   \* the trait judged, then "calls", then "done"
  calls,     \* the calls still to check: [asks, type], asking for
             \* <<"trait", trait>> or <<medium, way>>
  trail,     \* the types an explanation has gone through
  reached,   \* per medium and way, the types the calls reach
  refused    \* what was reported

dvars == <<decl, has, by, judging, calls, trail, reached, refused>>

Named == DOMAIN decl
Parts(n) == decl[n].parts
Held(t) == {t.holds[i] : i \in DOMAIN t.holds}

(* `blocking`: the first type inside t that lacks the trait.               *)
Blocking(S, t) ==
  LET lacking == {i \in DOMAIN t.holds : t.holds[i] \notin S}
  IN IF lacking = {} THEN {} ELSE {t.holds[CHOOSE i \in lacking : \A j \in lacking : i <= j]}

(* Mutant: a type that holds itself is taken not to have the trait.        *)
BlockedOnItself(S, n) == {p \in DOMAIN Parts(n) : Blocking(S \ {n}, Parts(n)[p].type) # {}}

(* The parts of n in the way.                                              *)
Blocked(S, n) == {p \in DOMAIN Parts(n) : Blocking(S, Parts(n)[p].type) # {}}

Losers(tr) == {n \in has[tr] : decl[n].from # "rust" /\ Blocked(has[tr], n) # {}}
First(S) == CHOOSE i \in S : \A j \in S : i <= j

(* One round of `solve`, on what had the trait before it. *)
Round(tr) ==
  /\ judging = tr /\ Losers(tr) # {}
  /\ has' = [has EXCEPT ![tr] = @ \ Losers(tr)]
  /\ by' = [by EXCEPT ![tr] = [n \in Named |-> IF n \in Losers(tr) THEN First(Blocked(has[tr], n)) ELSE @[n]]]
  /\ UNCHANGED <<decl, judging, calls, trail, reached, refused>>

(* Mutant: a trait is judged in one round.                                 *)
SolvedAtOnce(tr) ==
  /\ judging = tr
  /\ judging' = IF tr = "Clone" THEN "PartialEq" ELSE "calls"
  /\ has' = [has EXCEPT ![tr] = @ \ Losers(tr)]
  /\ UNCHANGED <<decl, by, calls, trail, reached, refused>>

(* A round that changes nothing ends it. *)
Solved(tr) ==
  /\ judging = tr /\ Losers(tr) = {}
  /\ judging' = IF tr = "Clone" THEN "PartialEq" ELSE "calls"
  /\ UNCHANGED <<decl, has, by, calls, trail, reached, refused>>
-----------------------------------------------------------------------------
Fields(n) == {p \in DOMAIN Parts(n) : ~Parts(n)[p].skip}
Inside(n) == UNION {Held(Parts(n)[p].type) : p \in Fields(n)}

(* What a walk that enters a type once goes through, from the types in S   *)
(* and not beyond those in T: the least set it does not lead out of.       *)
Through(S, T) == {n \in Named : \A W \in SUBSET Named :
  S \subseteq W /\ (\A m \in W : decl[m].enum \/ m \in T \/ Inside(m) \subseteq W) => n \in W}

(* `convertible`, at one type: Varyk's own, and what it holds JSON can.    *)
Plain(n) ==
  /\ decl[n].from = "varyk"
  /\ IF decl[n].enum THEN ~decl[n].data ELSE \A p \in Fields(n) : ~Parts(n)[p].type.bad

Convertible(t) == ~t.bad /\ \A n \in Through(Held(t), {}) : Plain(n)

(* `env_readable`: a Varyk struct of single values and plain enums.  What  *)
(* the call asks for is the struct itself here, never an `Option` of it.   *)
EnvReadable(t) ==
  /\ t.single /\ Len(t.holds) = 1
  /\ \A n \in Held(t) :
       /\ decl[n].from = "varyk" /\ ~decl[n].enum
       /\ \A p \in Fields(n) :
            /\ Parts(n)[p].type.single /\ ~Parts(n)[p].type.bad
            /\ \A m \in Held(Parts(n)[p].type) : decl[m].enum /\ Plain(m)

(* `Reached::add`, which stops at a struct reached before.                 *)
Added(S, t) == S \cup Through(Held(t), S)

Calling == judging = "calls" /\ calls # <<>> /\ trail = <<>>

(* `converted`: a call that reads or writes a value. *)
Convert ==
  /\ Calling /\ Head(calls).asks[1] # "trait"
  /\ LET medium == Head(calls).asks[1]
         way == Head(calls).asks[2]
         t == Head(calls).type
     IN IF (IF medium = "env" THEN EnvReadable(t) ELSE Convertible(t))
        THEN reached' = [reached EXCEPT ![medium][way] = Added(@, t)] /\ UNCHANGED refused
        ELSE refused' = refused \cup {<<"call", Len(calls)>>} /\ UNCHANGED reached
  /\ calls' = Tail(calls)
  /\ UNCHANGED <<decl, has, by, judging, trail>>

(* `can_clone`, `can_compare`: refused with an explanation, which begins   *)
(* at the first type in the way.                                           *)
CopyOrCompare ==
  /\ Calling /\ Head(calls).asks[1] = "trait"
  /\ LET blocking == Blocking(has[Head(calls).asks[2]], Head(calls).type)
     IN IF blocking = {} THEN calls' = Tail(calls) /\ UNCHANGED <<trail, refused>>
        ELSE /\ trail' = <<CHOOSE n \in blocking : TRUE>>
             /\ refused' = refused \cup {<<"call", Len(calls)>>} /\ UNCHANGED calls
  /\ UNCHANGED <<decl, has, by, judging, reached>>

(* The explanation goes on through the part recorded for a type, to the    *)
(* first type now in the way there, until a Rust type.                     *)
Explain ==
  /\ trail # <<>> /\ Len(trail) <= Cardinality(Named)
  /\ LET tr == Head(calls).asks[2]
         at == trail[Len(trail)]
         next == Blocking(has[tr], Parts(at)[by[tr][at]].type)
     IN IF decl[at].from = "rust" \/ by[tr][at] = 0
        THEN trail' = <<>> /\ calls' = Tail(calls)
        ELSE trail' = Append(trail, CHOOSE n \in next : TRUE) /\ UNCHANGED calls
  /\ UNCHANGED <<decl, has, by, judging, reached, refused>>

(* A variable is named in upper case.                                      *)
Key(medium, k) == IF medium = "env" /\ k = "a" THEN "A" ELSE k

(* `reached_checks`: a field skipped and not filled of a type that is      *)
(* read, and two fields, or variants, with one key.                        *)
Unfilled(n) == ~decl[n].enum /\ \E p \in DOMAIN Parts(n) : Parts(n)[p].skip /\ ~Parts(n)[p].filled
SameKey(medium, n) == \E p, q \in Fields(n) :
  p # q /\ Key(IF decl[n].enum THEN "json" ELSE medium, Parts(n)[p].key)
           = Key(IF decl[n].enum THEN "json" ELSE medium, Parts(n)[q].key)

Check ==
  /\ judging = "calls" /\ calls = <<>> /\ judging' = "done"
  /\ refused' = refused \cup
       UNION {{<<m, n>> : n \in {k \in reached[m]["read"] : Unfilled(k)}
                               \cup {k \in reached[m]["read"] \cup reached[m]["write"] : SameKey(m, k)}}
              : m \in Media}
  /\ UNCHANGED <<decl, has, by, calls, trail, reached>>

DerivesNext ==
  \/ \E tr \in Traits : Round(tr) \/ Solved(tr)
  \/ Convert \/ CopyOrCompare \/ Explain \/ Check

(* A program's types hold declared types, and an enum without data is the  *)
(* keys of its variants alone.                                             *)
TypeIn(d) == [holds : Seq(DOMAIN d), bad : BOOLEAN, single : BOOLEAN]
Program(d, c) ==
  /\ \A n \in DOMAIN d : \A p \in DOMAIN d[n].parts :
       /\ d[n].parts[p].type \in TypeIn(d)
       /\ d[n].enum /\ ~d[n].data =>
            LET k == d[n].parts[p] IN ~k.skip /\ ~k.type.bad /\ k.type.holds = <<>>
  /\ c \in Seq([asks : ({"trait"} \X Traits) \cup (Media \X Ways), type : TypeIn(d)])

DerivesStart(d, c) ==
  /\ Program(d, c) /\ decl = d /\ calls = c
  /\ has = [tr \in Traits |-> {n \in DOMAIN d : d[n].from = "rust" => tr \in d[n].derives}]
  /\ by = [tr \in Traits |-> [n \in DOMAIN d |-> 0]]
  /\ judging = "Clone" /\ trail = <<>> /\ refused = {}
  /\ reached = [m \in Media |-> [w \in Ways |-> {}]]

(* Any program: any list of declared types, and any of calls. *)
DerivesSpec == (\E d, c : DerivesStart(d, c)) /\ [][DerivesNext]_dvars
-----------------------------------------------------------------------------
Serde(w) == reached["json"][w] \cup reached["env"][w]

(* The derives written for an accepted program compile: what a type is     *)
(* given, each of its parts has, for `Clone` and `PartialEq` and for each  *)
(* way of serde's; and a field serde skips has a value when it is read.    *)
DerivesHold == (judging = "done" /\ refused = {}) =>
  /\ \A tr \in Traits : \A n \in has[tr] :
       decl[n].from # "rust" => \A p \in DOMAIN Parts(n) : Held(Parts(n)[p].type) \subseteq has[tr]
  /\ \A w \in Ways : \A n \in Serde(w) :
       /\ decl[n].from = "varyk" /\ ~(decl[n].enum /\ decl[n].data)
       /\ \A p \in DOMAIN Parts(n) :
            IF Parts(n)[p].skip THEN w = "read" => Parts(n)[p].filled
            ELSE ~Parts(n)[p].type.bad /\ Held(Parts(n)[p].type) \subseteq Serde(w)

(* What is known of each trait: nothing while it, or one before it, is     *)
(* judged.                                                                 *)
Verdict == [tr \in Traits |->
  IF judging = tr \/ (tr = "PartialEq" /\ judging = "Clone") THEN <<>> ELSE <<has[tr]>>]
Judgement == INSTANCE TraitJudgement WITH JudgedTraits <- Traits, program <- decl, verdict <- Verdict

(* The rounds come to what a single judgement of each trait would: the     *)
(* largest set of types that can have it together, so that no type loses a *)
(* trait in vain and none keeps one its parts do not have, however types   *)
(* hold each other.                                                        *)
RoundsJudge == Judgement!Spec

(* Why a type cannot be copied or compared is told part by part, and       *)
(* following the recorded parts always ends at a Rust type: it never comes *)
(* back to a type it has been through.                                     *)
ExplanationEnds == \A i, j \in DOMAIN trail : i # j => trail[i] # trail[j]
=============================================================================
