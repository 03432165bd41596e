--------------------------- MODULE DerivesProofs ---------------------------
(***************************************************************************)
(* The rounds in which `Clone` and `PartialEq` are judged implement        *)
(* TraitJudgement, and what an accepted program derives compiles, for any  *)
(* program.                                                                *)
(***************************************************************************)
EXTENDS Derives, TLAPS

(* The types of S can have the trait together, by the rule of the code. *)
Together(S, tr) == \A n \in S :
  IF decl[n].from = "rust" THEN tr \in decl[n].derives
  ELSE \A p \in DOMAIN Parts(n) : \A i \in DOMAIN Parts(n)[p].type.holds : Parts(n)[p].type.holds[i] \in S

(* The trait is judged: its rounds are over. *)
Judged(tr) == judging # tr /\ (tr = "PartialEq" => judging # "Clone")

JudgingOK == judging \in Traits \cup {"calls", "done"}
HasOK == has = [tr \in Traits |-> has[tr]] /\ \A tr \in Traits : has[tr] \subseteq DOMAIN decl

(* What Rust types list, they have, and only that.                         *)
ListedOnly == \A tr \in Traits : \A n \in has[tr] : decl[n].from = "rust" => tr \in decl[n].derives

(* No type that can share the trait has lost it. *)
NoneLost == \A tr \in Traits : \A S \in SUBSET DOMAIN decl : Together(S, tr) => S \subseteq has[tr]

(* Those that are left when the rounds are over do share it. *)
ShareWhenJudged == \A tr \in Traits : Judged(tr) => Together(has[tr], tr)

DerivesInv == JudgingOK /\ HasOK /\ ListedOnly /\ NoneLost /\ ShareWhenJudged

(* A type of a part is in the way exactly when a type inside it lacks the  *)
(* trait (`blocking`).                                                     *)
LEMMA BlockingNone ==
  ASSUME NEW S, NEW t
  PROVE  Blocking(S, t) = {} <=> \A i \in DOMAIN t.holds : t.holds[i] \in S
<1> DEFINE lacking == {i \in DOMAIN t.holds : t.holds[i] \notin S}
           first == CHOOSE i \in lacking : \A j \in lacking : i <= j
<1>1. Blocking(S, t) = IF lacking = {} THEN {} ELSE {t.holds[first]}
  BY DEF Blocking
<1>2. lacking = {} <=> \A i \in DOMAIN t.holds : t.holds[i] \in S
  OBVIOUS
<1>3. {t.holds[first]} # {}
  OBVIOUS
<1> QED BY <1>1, <1>2, <1>3

(* A type that loses a trait in a round is Varyk's or a package's, and one *)
(* of its parts holds a type without it (`solve`).                         *)
LEMMA LosersLack ==
  ASSUME NEW tr, NEW n \in has[tr]
  PROVE  n \in Losers(tr) <=>
           /\ decl[n].from # "rust"
           /\ ~(\A p \in DOMAIN Parts(n) : \A i \in DOMAIN Parts(n)[p].type.holds :
                  Parts(n)[p].type.holds[i] \in has[tr])
<1>1. n \in Losers(tr) <=>
        decl[n].from # "rust" /\ ~(\A p \in DOMAIN Parts(n) : Blocking(has[tr], Parts(n)[p].type) = {})
  BY DEF Losers, Blocked
<1>2. \A p \in DOMAIN Parts(n) : Blocking(has[tr], Parts(n)[p].type) = {} <=>
        \A i \in DOMAIN Parts(n)[p].type.holds : Parts(n)[p].type.holds[i] \in has[tr]
  BY BlockingNone
<1> QED BY <1>1, <1>2

(* A set that can share the trait loses none of its types in a round.      *)
LEMMA SharersStay ==
  ASSUME NEW tr, NEW S, Together(S, tr), S \subseteq has[tr]
  PROVE  S \subseteq has[tr] \ Losers(tr)
<1> SUFFICES ASSUME NEW n \in S PROVE n \notin Losers(tr)
  OBVIOUS
<1>1. CASE decl[n].from = "rust"
  BY <1>1, LosersLack
<1>2. CASE decl[n].from # "rust"
  <2>1. \A p \in DOMAIN Parts(n) : \A i \in DOMAIN Parts(n)[p].type.holds : Parts(n)[p].type.holds[i] \in S
    BY <1>2 DEF Together
  <2> QED BY <2>1, LosersLack
<1> QED BY <1>1, <1>2

(* When a round has nobody left to take the trait from, those who have it  *)
(* can share it.                                                           *)
LEMMA SolvedIsShared ==
  ASSUME NEW tr \in Traits, ListedOnly, Losers(tr) = {}
  PROVE  Together(has[tr], tr)
<1> SUFFICES ASSUME NEW n \in has[tr]
             PROVE  IF decl[n].from = "rust" THEN tr \in decl[n].derives
                    ELSE \A p \in DOMAIN Parts(n) : \A i \in DOMAIN Parts(n)[p].type.holds :
                           Parts(n)[p].type.holds[i] \in has[tr]
  BY DEF Together
<1>1. CASE decl[n].from = "rust"
  BY <1>1 DEF ListedOnly
<1>2. CASE decl[n].from # "rust"
  <2>1. n \notin Losers(tr)
    OBVIOUS
  <2> QED BY <1>2, <2>1, LosersLack
<1> QED BY <1>1, <1>2
-----------------------------------------------------------------------------
(* Every type begins with the trait, but for Rust's that do not list it.   *)
LEMMA StartsShared == ASSUME NEW d, NEW c, DerivesStart(d, c) PROVE DerivesInv
<1> USE DEF DerivesStart
<1>1. JudgingOK
  BY DEF JudgingOK, Traits
<1>2. has = [tr \in Traits |-> {n \in DOMAIN decl : decl[n].from = "rust" => tr \in decl[n].derives}]
  OBVIOUS
<1> HIDE DEF DerivesStart
<1>3. HasOK
  BY <1>2 DEF HasOK
<1>4. ListedOnly
  BY <1>2 DEF ListedOnly
<1>5. NoneLost
  <2> SUFFICES ASSUME NEW tr \in Traits, NEW S \in SUBSET DOMAIN decl, Together(S, tr), NEW n \in S
               PROVE  n \in has[tr]
    BY DEF NoneLost
  <2>1. decl[n].from = "rust" => tr \in decl[n].derives
    BY DEF Together
  <2> QED BY <1>2, <2>1
<1>6. ShareWhenJudged
  <2>1. judging = "Clone"
    BY DEF DerivesStart
  <2> QED BY <2>1 DEF ShareWhenJudged, Judged, Traits
<1> QED BY <1>1, <1>3, <1>4, <1>5, <1>6 DEF DerivesInv

(* A round leaves what its trait's sharers have.                           *)
LEMMA RoundKeeps ==
  ASSUME DerivesInv, NEW tr \in Traits, Round(tr) PROVE DerivesInv'
<1>1. decl' = decl /\ judging' = judging /\ judging = tr
  BY DEF Round
<1>2. has' = [has EXCEPT ![tr] = @ \ Losers(tr)]
  BY DEF Round
<1>3. has = [t \in Traits |-> has[t]] /\ \A t \in Traits : has[t] \subseteq DOMAIN decl
  BY DEF DerivesInv, HasOK
<1>4. \A t \in Traits : has'[t] = IF t = tr THEN has[t] \ Losers(t) ELSE has[t]
  BY <1>2, <1>3
<1>5. has' = [t \in Traits |-> has'[t]]
  BY <1>2, <1>3
<1>6. JudgingOK'
  BY <1>1 DEF DerivesInv, JudgingOK
<1>7. HasOK'
  BY <1>1, <1>3, <1>4, <1>5 DEF HasOK
<1>8. ListedOnly'
  BY <1>1, <1>4 DEF DerivesInv, ListedOnly
<1>9. \A S, t : Together(S, t)' <=> Together(S, t)
  BY <1>1 DEF Together, Parts
<1>10. NoneLost'
  <2> SUFFICES ASSUME NEW t \in Traits, NEW S \in SUBSET DOMAIN decl, Together(S, t)
               PROVE  S \subseteq has'[t]
    BY <1>1, <1>9 DEF NoneLost
  <2>1. S \subseteq has[t]
    BY DEF DerivesInv, NoneLost
  <2>2. CASE t = tr
    BY <2>1, <2>2, <1>4, SharersStay
  <2>3. CASE t # tr
    BY <2>1, <2>3, <1>4
  <2> QED BY <2>2, <2>3
<1>11. ShareWhenJudged'
  <2> SUFFICES ASSUME NEW t \in Traits, Judged(t) PROVE Together(has'[t], t)
    BY <1>1, <1>9 DEF ShareWhenJudged, Judged
  <2>1. t # tr
    BY <1>1 DEF Judged
  <2>2. Together(has[t], t)
    BY DEF DerivesInv, ShareWhenJudged
  <2> QED BY <2>1, <2>2, <1>4
<1> QED BY <1>6, <1>7, <1>8, <1>10, <1>11 DEF DerivesInv

(* The end of the rounds of a trait changes who is next, and what is left  *)
(* is shared.                                                              *)
LEMMA SolvedKeeps ==
  ASSUME DerivesInv, NEW tr \in Traits, Solved(tr) PROVE DerivesInv'
<1>1. decl' = decl /\ has' = has /\ judging = tr /\ Losers(tr) = {}
  BY DEF Solved
<1>2. judging' = IF tr = "Clone" THEN "PartialEq" ELSE "calls"
  BY DEF Solved
<1>3. \A S, t : Together(S, t)' <=> Together(S, t)
  BY <1>1 DEF Together, Parts
<1>4. JudgingOK'
  BY <1>2 DEF JudgingOK, Traits
<1>5. HasOK' /\ ListedOnly' /\ NoneLost'
  BY <1>1, <1>3 DEF DerivesInv, HasOK, ListedOnly, NoneLost
<1>6. ShareWhenJudged'
  <2> SUFFICES ASSUME NEW t \in Traits, Judged(t)' PROVE Together(has[t], t)
    BY <1>1, <1>3 DEF ShareWhenJudged
  <2>1. CASE t = tr
    BY <2>1, <1>1, SolvedIsShared DEF DerivesInv
  <2>2. CASE t # tr
    <3>1. Judged(t)
      BY <2>2, <1>1, <1>2 DEF Judged, Traits
    <3> QED BY <3>1 DEF DerivesInv, ShareWhenJudged
  <2> QED BY <2>1, <2>2
<1> QED BY <1>4, <1>5, <1>6 DEF DerivesInv

(* The calls are checked after the rounds: no step of theirs gives or      *)
(* takes a trait.                                                          *)
CallStep == Convert \/ CopyOrCompare \/ Explain \/ Check

LEMMA CallStepLeaves ==
  ASSUME CallStep
  PROVE  /\ decl' = decl /\ has' = has
         /\ judging' = judging \/ (judging = "calls" /\ judging' = "done")
<1>1. CASE Convert
  BY <1>1 DEF Convert
<1>2. CASE CopyOrCompare
  BY <1>2 DEF CopyOrCompare
<1>3. CASE Explain
  BY <1>3 DEF Explain
<1>4. CASE Check
  BY <1>4 DEF Check
<1> QED BY <1>1, <1>2, <1>3, <1>4 DEF CallStep

LEMMA CallStepKeeps ==
  ASSUME DerivesInv,
         decl' = decl, has' = has,
         judging' = judging \/ (judging = "calls" /\ judging' = "done")
  PROVE  DerivesInv'
<1>1. \A S, t : Together(S, t)' <=> Together(S, t)
  BY DEF Together, Parts
<1>2. \A t \in Traits : Judged(t)' <=> Judged(t)
  BY DEF Judged, Traits
<1>3. JudgingOK'
  BY DEF DerivesInv, JudgingOK
<1>4. HasOK' /\ ListedOnly' /\ NoneLost'
  BY <1>1 DEF DerivesInv, HasOK, ListedOnly, NoneLost
<1>5. ShareWhenJudged'
  BY <1>1, <1>2 DEF DerivesInv, ShareWhenJudged
<1> QED BY <1>3, <1>4, <1>5 DEF DerivesInv

LEMMA StepKeeps == DerivesInv /\ [DerivesNext]_dvars => DerivesInv'
<1> SUFFICES ASSUME DerivesInv, [DerivesNext]_dvars PROVE DerivesInv'
  OBVIOUS
<1>1. CASE \E tr \in Traits : Round(tr) \/ Solved(tr)
  BY <1>1, RoundKeeps, SolvedKeeps
<1>2. CASE CallStep
  BY <1>2, CallStepLeaves, CallStepKeeps
<1>3. CASE UNCHANGED dvars
  <2>1. decl' = decl /\ has' = has /\ judging' = judging
    BY <1>3 DEF dvars
  <2> QED BY <2>1, CallStepKeeps
<1> QED BY <1>1, <1>2, <1>3 DEF DerivesNext, CallStep

(* What every state of the rounds keeps: no type that can share a trait    *)
(* has lost it, and once the trait is judged those left do share it.       *)
THEOREM TraitsShared == DerivesSpec => []DerivesInv
<1>1. (\E d, c : DerivesStart(d, c)) => DerivesInv
  BY StartsShared
<1> QED BY <1>1, StepKeeps, PTL DEF DerivesSpec
-----------------------------------------------------------------------------
(* What the rounds leave is the judgement: the largest set that shares it. *)
LEMMA LeftIsLargest ==
  ASSUME DerivesInv, NEW tr \in Traits, Together(has[tr], tr)
  PROVE  has[tr] \in SUBSET DOMAIN decl /\ Judgement!LargestShare(has[tr], tr)
<1>1. \A S : Judgement!CanShare(S, tr) <=> Together(S, tr)
  BY DEF Judgement!CanShare, Together, Parts
<1>2. has[tr] \in SUBSET DOMAIN decl
  BY DEF DerivesInv, HasOK
<1>3. \A T \in SUBSET DOMAIN decl : Together(T, tr) => T \subseteq has[tr]
  BY DEF DerivesInv, NoneLost
<1> QED BY <1>1, <1>2, <1>3 DEF Judgement!LargestShare

(* A round is a stutter of the judgement, whose verdict is still out.      *)
LEMMA RoundStutters ==
  ASSUME DerivesInv, NEW tr \in Traits, Round(tr) PROVE UNCHANGED <<decl, Verdict>>
<1>1. decl' = decl /\ judging' = judging /\ judging = tr
  BY DEF Round
<1>2. has' = [has EXCEPT ![tr] = @ \ Losers(tr)]
  BY DEF Round
<1>3. has = [t \in Traits |-> has[t]]
  BY DEF DerivesInv, HasOK
<1>4. \A t \in Traits : t # tr => has'[t] = has[t]
  BY <1>2, <1>3
<1> QED BY <1>1, <1>4 DEF Verdict

(* The end of a trait's rounds is its judgement. *)
LEMMA SolvedJudges ==
  ASSUME DerivesInv, NEW tr \in Traits, Solved(tr) PROVE Judgement!Judge(tr)
<1>1. decl' = decl /\ has' = has /\ judging = tr /\ Losers(tr) = {}
  BY DEF Solved
<1>2. judging' = IF tr = "Clone" THEN "PartialEq" ELSE "calls"
  BY DEF Solved
<1>3. Together(has[tr], tr)
  BY <1>1, SolvedIsShared DEF DerivesInv
<1>4. has[tr] \in SUBSET DOMAIN decl /\ Judgement!LargestShare(has[tr], tr)
  BY <1>3, LeftIsLargest
<1>5. Verdict[tr] = <<>>
  BY <1>1 DEF Verdict
<1>6. Verdict' = [Verdict EXCEPT ![tr] = <<has[tr]>>]
  BY <1>1, <1>2 DEF Verdict, Traits
<1> QED BY <1>1, <1>4, <1>5, <1>6 DEF Judgement!Judge

(* The rounds implement the judgement: each trait is decided once, for     *)
(* exactly the largest set of types that can have it together, whatever    *)
(* the program (types/derives.rs, `compute` and `solve`).                  *)
THEOREM RoundsImplementJudgement == DerivesSpec => RoundsJudge
<1>1. (\E d, c : DerivesStart(d, c)) => Judgement!Init
  BY DEF DerivesStart, Judgement!Init, Verdict, Traits
<1>2. DerivesInv /\ [DerivesNext]_dvars
        => [\E tr \in Traits : Judgement!Judge(tr)]_<<decl, Verdict>>
  <2> SUFFICES ASSUME DerivesInv, [DerivesNext]_dvars
               PROVE  [\E tr \in Traits : Judgement!Judge(tr)]_<<decl, Verdict>>
    OBVIOUS
  <2>1. CASE \E tr \in Traits : Round(tr)
    BY <2>1, RoundStutters
  <2>2. CASE \E tr \in Traits : Solved(tr)
    BY <2>2, SolvedJudges
  <2>3. ASSUME decl' = decl, has' = has,
               judging' = judging \/ (judging = "calls" /\ judging' = "done")
        PROVE  UNCHANGED <<decl, Verdict>>
    BY <2>3 DEF Verdict, Traits
  <2>4. CASE CallStep
    BY <2>3, <2>4, CallStepLeaves
  <2>5. CASE UNCHANGED dvars
    <3>1. decl' = decl /\ has' = has /\ judging' = judging
      BY <2>5 DEF dvars
    <3> QED BY <2>3, <3>1
  <2> QED BY <2>1, <2>2, <2>4, <2>5 DEF DerivesNext, CallStep
<1> QED BY <1>1, <1>2, TraitsShared, PTL DEF DerivesSpec, RoundsJudge, Judgement!Spec
-----------------------------------------------------------------------------
(* What the calls reach can be given serde's traits.                       *)

(* A type that can have a trait of serde's when those in R have it.        *)
Good(n, R) ==
  /\ decl[n].from = "varyk" /\ ~(decl[n].enum /\ decl[n].data)
  /\ \A p \in Fields(n) : ~Parts(n)[p].type.bad /\ Held(Parts(n)[p].type) \subseteq R
GoodSet(R) == R \subseteq Named /\ \A n \in R : Good(n, R)

(* The types of a program hold declared types. *)
LEMMA HeldDeclared ==
  ASSUME NEW t \in TypeIn(decl) PROVE Held(t) \subseteq Named
<1>1. t.holds \in Seq(Named)
  BY DEF TypeIn, Named
<1>2. \A i \in DOMAIN t.holds : t.holds[i] \in Named
  BY <1>1
<1> QED BY <1>2 DEF Held

(* What a type leads to is declared.                                       *)
LEMMA InsideDeclared ==
  ASSUME NEW c, Program(decl, c), NEW n \in Named PROVE Inside(n) \subseteq Named
<1>1. ASSUME NEW p \in Fields(n) PROVE Held(Parts(n)[p].type) \subseteq Named
  <2>1. Parts(n)[p].type \in TypeIn(decl)
    BY DEF Program, Named, Fields, Parts
  <2> QED BY <2>1, HeldDeclared
<1> QED BY <1>1 DEF Inside

(* `walk` goes through what it starts at and what that leads to, and no    *)
(* set that holds both leaves out a type it goes through.                  *)
LEMMA ThroughLeast ==
  ASSUME NEW c, Program(decl, c), NEW S \in SUBSET Named, NEW T
  PROVE  /\ S \subseteq Through(S, T) /\ Through(S, T) \subseteq Named
         /\ \A m \in Through(S, T) : decl[m].enum \/ m \in T \/ Inside(m) \subseteq Through(S, T)
         /\ \A W \in SUBSET Named :
              S \subseteq W /\ (\A m \in W : decl[m].enum \/ m \in T \/ Inside(m) \subseteq W)
                => Through(S, T) \subseteq W
<1>1. S \subseteq Through(S, T) /\ Through(S, T) \subseteq Named
  BY DEF Through
<1>2. \A W \in SUBSET Named :
        S \subseteq W /\ (\A m \in W : decl[m].enum \/ m \in T \/ Inside(m) \subseteq W)
          => Through(S, T) \subseteq W
  BY DEF Through
<1>3. ASSUME NEW m \in Through(S, T), ~decl[m].enum, m \notin T
      PROVE  Inside(m) \subseteq Through(S, T)
  <2>1. ASSUME NEW W \in SUBSET Named, S \subseteq W,
               \A n \in W : decl[n].enum \/ n \in T \/ Inside(n) \subseteq W
        PROVE  Inside(m) \subseteq W
    <3>1. m \in W
      BY <1>2, <2>1
    <3> QED BY <1>3, <2>1, <3>1
  <2>2. Inside(m) \subseteq Named
    BY <1>1, InsideDeclared
  <2>3. \A x \in Inside(m) : x \in Named /\ \A W \in SUBSET Named :
          S \subseteq W /\ (\A n \in W : decl[n].enum \/ n \in T \/ Inside(n) \subseteq W) => x \in W
    BY <2>1, <2>2
  <2> QED BY <2>3 DEF Through
<1> QED BY <1>1, <1>2, <1>3

(* A type JSON can hold, by itself, can have serde's traits when what is   *)
(* inside it has them.                                                     *)
LEMMA PlainIsGood ==
  ASSUME NEW c, Program(decl, c), NEW n \in Named, Plain(n), NEW R,
         ~decl[n].enum => Inside(n) \subseteq R
  PROVE  Good(n, R)
<1>1. ASSUME NEW p \in Fields(n)
      PROVE  ~Parts(n)[p].type.bad /\ Held(Parts(n)[p].type) \subseteq R
  <2>1. CASE decl[n].enum
    <3>1. ~decl[n].data
      BY <2>1 DEF Plain
    <3>2. p \in DOMAIN decl[n].parts /\ n \in DOMAIN decl /\ Parts(n) = decl[n].parts
      BY DEF Fields, Parts, Named
    <3>3. ~decl[n].parts[p].type.bad /\ decl[n].parts[p].type.holds = <<>>
      BY <2>1, <3>1, <3>2 DEF Program
    <3>4. Held(decl[n].parts[p].type) = {}
      BY <3>3 DEF Held
    <3> QED BY <3>2, <3>3, <3>4
  <2>2. CASE ~decl[n].enum
    <3>1. ~Parts(n)[p].type.bad
      BY <2>2 DEF Plain
    <3>2. Held(Parts(n)[p].type) \subseteq Inside(n)
      BY DEF Inside
    <3> QED BY <2>2, <3>1, <3>2
  <2> QED BY <2>1, <2>2
<1> QED BY <1>1 DEF Good, Plain

(* What is good in a set is good in a larger one.                          *)
LEMMA GoodInMore ==
  ASSUME NEW n, NEW R, NEW Q, R \subseteq Q, Good(n, R) PROVE Good(n, Q)
BY DEF Good

(* `add` after `convertible`: all that a JSON call reaches is good.        *)
LEMMA JsonAdds ==
  ASSUME NEW c, Program(decl, c), NEW t \in TypeIn(decl), Convertible(t),
         NEW R, GoodSet(R)
  PROVE  GoodSet(Added(R, t))
<1> DEFINE A == Through(Held(t), R)
           W == Through(Held(t), {})
<1>1. Held(t) \subseteq Named
  BY HeldDeclared
<1>2. A \subseteq Named /\ \A m \in A : decl[m].enum \/ m \in R \/ Inside(m) \subseteq A
  BY <1>1, ThroughLeast
<1>3. W \subseteq Named /\ Held(t) \subseteq W /\ \A m \in W : decl[m].enum \/ Inside(m) \subseteq W
  BY <1>1, ThroughLeast
<1>4. A \subseteq W
  BY <1>1, <1>3, ThroughLeast
<1>5. \A n \in W : Plain(n)
  BY DEF Convertible
<1> HIDE DEF A, W
<1>6. ASSUME NEW n \in R \cup A PROVE Good(n, R \cup A)
  <2>1. CASE n \in R
    BY <2>1, GoodInMore DEF GoodSet
  <2>2. CASE n \notin R
    BY <1>2, <1>4, <1>5, <2>2, PlainIsGood
  <2> QED BY <2>1, <2>2
<1>7. R \cup A \subseteq Named
  BY <1>2 DEF GoodSet
<1>8. GoodSet(R \cup A)
  BY <1>6, <1>7 DEF GoodSet
<1> QED BY <1>8 DEF Added, A

(* So is what a call that reads the environment does.                      *)
LEMMA EnvAdds ==
  ASSUME NEW c, Program(decl, c), NEW t \in TypeIn(decl), EnvReadable(t),
         NEW R, GoodSet(R)
  PROVE  GoodSet(Added(R, t))
<1> DEFINE A == Through(Held(t), R)
           W == Held(t) \cup UNION {Inside(n) : n \in Held(t)}
<1>1. Held(t) \subseteq Named
  BY HeldDeclared
<1>2. A \subseteq Named /\ \A m \in A : decl[m].enum \/ m \in R \/ Inside(m) \subseteq A
  BY <1>1, ThroughLeast
<1>3. \A n \in Held(t) :
        /\ decl[n].from = "varyk" /\ ~decl[n].enum
        /\ \A p \in Fields(n) :
             /\ ~Parts(n)[p].type.bad
             /\ \A m \in Held(Parts(n)[p].type) : decl[m].enum /\ Plain(m)
  BY DEF EnvReadable
<1>4. \A n \in Held(t) : \A m \in Inside(n) : decl[m].enum /\ Plain(m)
  BY <1>3 DEF Inside
<1>5. A \subseteq W
  <2>1. W \in SUBSET Named
    BY <1>1, InsideDeclared
  <2>2. \A m \in W : decl[m].enum \/ m \in R \/ Inside(m) \subseteq W
    BY <1>4
  <2>3. Held(t) \subseteq W
    OBVIOUS
  <2> HIDE DEF W
  <2>4. Through(Held(t), R) \subseteq W
    BY <1>1, <2>1, <2>2, <2>3, ThroughLeast
  <2> QED BY <2>4
<1> HIDE DEF A
<1>6. ASSUME NEW n \in R \cup A PROVE Good(n, R \cup A)
  <2>1. CASE n \in R
    BY <2>1, GoodInMore DEF GoodSet
  <2>2. CASE n \notin R /\ n \in Held(t)
    <3>1. Inside(n) \subseteq A
      BY <1>2, <1>3, <2>2
    <3>2. \A p \in Fields(n) : Held(Parts(n)[p].type) \subseteq A
      BY <3>1 DEF Inside
    <3> QED BY <1>3, <2>2, <3>2 DEF Good
  <2>3. CASE n \notin R /\ n \notin Held(t)
    <3>1. n \in Named /\ decl[n].enum /\ Plain(n)
      BY <1>2, <1>4, <1>5, <2>3
    <3> QED BY <3>1, PlainIsGood
  <2> QED BY <2>1, <2>2, <2>3
<1>7. R \cup A \subseteq Named
  BY <1>2 DEF GoodSet
<1>8. GoodSet(R \cup A)
  BY <1>6, <1>7 DEF GoodSet
<1> QED BY <1>8 DEF Added, A

(* The first of a sequence, and the rest of it.                            *)
LEMMA HeadAndTail ==
  ASSUME NEW S, NEW q \in Seq(S), q # <<>> PROVE Head(q) \in S /\ Tail(q) \in Seq(S)
OBVIOUS

(* The induction over the calls: what they reach is good, and a type that  *)
(* is read fills what it skips once the checks have passed.                *)
CallsInv ==
  /\ \E c : c = calls /\ Program(decl, c)
  /\ trail # <<>> => calls # <<>>
  /\ \E r : /\ r = reached /\ r \in [Media -> [Ways -> SUBSET Named]]
           /\ \A m \in Media, w \in Ways : GoodSet(r[m][w])
  /\ judging = "done" /\ refused = {} => \A m \in Media : \A n \in reached[m]["read"] : ~Unfilled(n)

(* Nothing is reached at the start.                                        *)
LEMMA CallsStart == ASSUME NEW d, NEW c, DerivesStart(d, c) PROVE CallsInv
<1>1. /\ Program(decl, c) /\ calls = c /\ judging = "Clone" /\ trail = <<>>
      /\ reached = [m \in Media |-> [w \in Ways |-> {}]]
  BY DEF DerivesStart
<1>2. reached \in [Media -> [Ways -> SUBSET Named]]
  BY <1>1
<1>3. \A m \in Media, w \in Ways : reached[m][w] = {}
  BY <1>1
<1>4. GoodSet({})
  BY DEF GoodSet
<1> QED BY <1>1, <1>2, <1>3, <1>4 DEF CallsInv

(* A state with the same types, and as good a reach, is as good.           *)
LEMMA SameTypes ==
  ASSUME decl' = decl
  PROVE  /\ Named' = Named /\ \A c : Program(decl, c)' <=> Program(decl, c)
         /\ \A R : GoodSet(R)' <=> GoodSet(R)
         /\ \A n : Unfilled(n)' <=> Unfilled(n)
<1>1. Named' = Named /\ \A n : Parts(n)' = Parts(n)
  BY DEF Named, Parts
<1>2. \A n : Fields(n)' = Fields(n)
  BY <1>1 DEF Fields
<1>3. \A n, R : Good(n, R)' <=> Good(n, R)
  BY <1>1, <1>2 DEF Good
<1>4. \A R : GoodSet(R)' <=> GoodSet(R)
  BY <1>1, <1>3 DEF GoodSet
<1>5. \A n : Unfilled(n)' <=> Unfilled(n)
  BY <1>1 DEF Unfilled
<1> QED BY <1>1, <1>4, <1>5

(* A call takes itself off the list, and what it reaches is added to what  *)
(* was reached, or it is refused.                                          *)
LEMMA ConvertKeeps == ASSUME CallsInv, Convert PROVE CallsInv'
<1>1. PICK c : c = calls /\ Program(decl, c)
  BY DEF CallsInv
<1>2. /\ decl' = decl /\ judging' = judging /\ judging = "calls"
      /\ c # <<>> /\ calls' = Tail(c) /\ Head(c).asks[1] # "trait"
      /\ trail' = <<>>
  BY <1>1 DEF Convert, Calling
<1>3. PICK m \in Media : \E w \in Ways, t \in TypeIn(decl) :
        m = Head(c).asks[1] /\ w = Head(c).asks[2] /\ t = Head(c).type
  <2>1. c \in Seq([asks : ({"trait"} \X Traits) \cup (Media \X Ways), type : TypeIn(decl)])
    BY <1>1 DEF Program
  <2>2. Head(c) \in [asks : ({"trait"} \X Traits) \cup (Media \X Ways), type : TypeIn(decl)]
    BY <1>2, <2>1, HeadAndTail
  <2>3. Head(c).asks \in Media \X Ways /\ Head(c).type \in TypeIn(decl)
    BY <1>2, <2>2
  <2> QED BY <2>3
<1>4. PICK w \in Ways, t \in TypeIn(decl) :
        m = Head(c).asks[1] /\ w = Head(c).asks[2] /\ t = Head(c).type
  BY <1>3
<1>5. Program(decl, Tail(c))
  <2>1. c \in Seq([asks : ({"trait"} \X Traits) \cup (Media \X Ways), type : TypeIn(decl)])
    BY <1>1 DEF Program
  <2>2. Tail(c) \in Seq([asks : ({"trait"} \X Traits) \cup (Media \X Ways), type : TypeIn(decl)])
    BY <1>2, <2>1, HeadAndTail
  <2> QED BY <1>1, <2>2 DEF Program
<1>6. PICK S : S = reached[m][w]
  OBVIOUS
<1>7. GoodSet(S) /\ S \subseteq Named
  BY <1>6 DEF CallsInv, GoodSet
<1>8. PICK A : A = Added(S, t)
  OBVIOUS
<1>9. \/ /\ IF m = "env" THEN EnvReadable(t) ELSE Convertible(t)
         /\ reached' = [reached EXCEPT ![m][w] = A]
      \/ reached' = reached
  BY <1>1, <1>3, <1>4, <1>6, <1>8 DEF Convert
<1>10. PICK r : r = reached'
  OBVIOUS
<1>11. /\ r \in [Media -> [Ways -> SUBSET Named]]
       /\ \A a \in Media, b \in Ways : GoodSet(r[a][b])
  <2>1. CASE reached' = reached
    BY <1>10, <2>1 DEF CallsInv
  <2>2. CASE /\ IF m = "env" THEN EnvReadable(t) ELSE Convertible(t)
             /\ reached' = [reached EXCEPT ![m][w] = A]
    <3>1. GoodSet(A) /\ A \subseteq Named
      <4>1. GoodSet(A)
        BY <1>1, <1>7, <1>8, <2>2, EnvAdds, JsonAdds
      <4> QED BY <4>1 DEF GoodSet
    <3>2. reached \in [Media -> [Ways -> SUBSET Named]]
      BY DEF CallsInv
    <3>3. r \in [Media -> [Ways -> SUBSET Named]]
      BY <1>10, <2>2, <3>1, <3>2
    <3>4. \A a \in Media, b \in Ways :
            r[a][b] = IF a = m /\ b = w THEN A ELSE reached[a][b]
      BY <1>10, <2>2, <3>2
    <3> QED BY <3>1, <3>3, <3>4 DEF CallsInv
  <2> QED BY <1>9, <2>1, <2>2
<1>12. Program(decl, Tail(c))'
  BY <1>2, <1>5, SameTypes
<1>13. /\ r \in [Media -> [Ways -> SUBSET Named']]
       /\ \A a \in Media, b \in Ways : GoodSet(r[a][b])'
  BY <1>2, <1>11, SameTypes
<1> QED BY <1>2, <1>10, <1>12, <1>13 DEF CallsInv

(* The other steps reach nothing; the last looks at what was reached.      *)
LEMMA RestKeeps ==
  ASSUME CallsInv, decl' = decl, reached' = reached,
         \E c : c = calls' /\ Program(decl, c), trail' # <<>> => calls' # <<>>,
         judging' = "done" /\ refused' = {} =>
           \/ judging = "done" /\ refused = {}
           \/ \A m \in Media : \A n \in reached[m]["read"] : ~Unfilled(n)
  PROVE  CallsInv'
<1>1. PICK c : c = calls' /\ Program(decl, c)
  OBVIOUS
<1>2. Program(decl, c)'
  BY <1>1, SameTypes
<1>3. PICK r : /\ r = reached /\ r \in [Media -> [Ways -> SUBSET Named]]
               /\ \A m \in Media, w \in Ways : GoodSet(r[m][w])
  BY DEF CallsInv
<1>5. /\ r \in [Media -> [Ways -> SUBSET Named']]
      /\ \A m \in Media, w \in Ways : GoodSet(r[m][w])'
  BY <1>3, SameTypes
<1>4. judging' = "done" /\ refused' = {} =>
        \A m \in Media : \A n \in reached[m]["read"] : ~Unfilled(n)'
  BY SameTypes DEF CallsInv
<1> QED BY <1>1, <1>2, <1>3, <1>4, <1>5 DEF CallsInv

(* Every step keeps it.                                                    *)
LEMMA CallsKept == CallsInv /\ [DerivesNext]_dvars => CallsInv'
<1> SUFFICES ASSUME CallsInv, [DerivesNext]_dvars PROVE CallsInv'
  OBVIOUS
<1>1. PICK c : c = calls /\ Program(decl, c)
  BY DEF CallsInv
<1>2. c # <<>> => Program(decl, Tail(c))
  <2>1. c \in Seq([asks : ({"trait"} \X Traits) \cup (Media \X Ways), type : TypeIn(decl)])
    BY <1>1 DEF Program
  <2>2. c # <<>> => Tail(c) \in Seq([asks : ({"trait"} \X Traits) \cup (Media \X Ways), type : TypeIn(decl)])
    BY <2>1, HeadAndTail
  <2> QED BY <1>1, <2>2 DEF Program
<1>3. CASE \E tr \in Traits : Round(tr) \/ Solved(tr)
  <2>1. decl' = decl /\ reached' = reached /\ calls' = c /\ judging' # "done" /\ trail' = trail
    BY <1>1, <1>3 DEF Round, Solved, Traits
  <2> QED BY <1>1, <2>1, RestKeeps DEF CallsInv
<1>4. CASE Convert
  BY <1>4, ConvertKeeps
<1>5. CASE CopyOrCompare
  <2>1. /\ decl' = decl /\ reached' = reached /\ judging' = judging /\ judging = "calls"
        /\ \/ calls' = c /\ c # <<>>
           \/ c # <<>> /\ calls' = Tail(c) /\ trail' = <<>>
    BY <1>1, <1>5 DEF CopyOrCompare, Calling
  <2> QED BY <1>1, <1>2, <2>1, RestKeeps
<1>6. CASE Explain
  <2>1. /\ decl' = decl /\ reached' = reached /\ judging' = judging /\ refused' = refused
        /\ c # <<>>
        /\ calls' = c \/ (calls' = Tail(c) /\ trail' = <<>>)
    BY <1>1, <1>6 DEF Explain, CallsInv
  <2> QED BY <1>1, <1>2, <2>1, RestKeeps
<1>7. CASE Check
  <2>1. decl' = decl /\ reached' = reached /\ calls' = c /\ trail' = trail
    BY <1>1, <1>7 DEF Check
  <2>2. ASSUME refused' = {}, NEW m \in Media, NEW n \in reached[m]["read"] PROVE ~Unfilled(n)
    <3> DEFINE found(k) == {<<k, a>> : a \in {a \in reached[k]["read"] : Unfilled(a)}
                 \cup {a \in reached[k]["read"] \cup reached[k]["write"] : SameKey(k, a)}}
    <3>1. refused' = refused \cup UNION {found(k) : k \in Media}
      BY <1>7 DEF Check
    <3>2. found(m) = {}
      BY <2>2, <3>1
    <3>3. Unfilled(n) => <<m, n>> \in found(m)
      BY <2>2
    <3> QED BY <3>2, <3>3
  <2> QED BY <1>1, <2>1, <2>2, RestKeeps DEF CallsInv
<1>8. CASE UNCHANGED dvars
  <2>1. /\ decl' = decl /\ reached' = reached /\ judging' = judging /\ refused' = refused
        /\ calls' = c /\ trail' = trail
    BY <1>1, <1>8 DEF dvars
  <2> QED BY <1>1, <2>1, RestKeeps DEF CallsInv
<1> QED BY <1>3, <1>4, <1>5, <1>6, <1>7, <1>8 DEF DerivesNext

(* The derives written for an accepted program compile, whatever the       *)
(* program (types/derives.rs): each part of a type that is given a trait   *)
(* has it, for `Clone`, `PartialEq` and both of serde's, and a field that  *)
(* is skipped has a value when it is read.                                 *)
THEOREM DerivesCompile == DerivesSpec => []DerivesHold
<1>1. (\E d, c : DerivesStart(d, c)) => CallsInv
  BY CallsStart
<1>2. CallsInv /\ [DerivesNext]_dvars => CallsInv'
  BY CallsKept
<1>3. DerivesInv /\ CallsInv => DerivesHold
  <2> SUFFICES ASSUME DerivesInv, CallsInv, judging = "done", refused = {} PROVE DerivesHold
    BY DEF DerivesHold
  <2>1. ASSUME NEW tr \in Traits, NEW n \in has[tr], decl[n].from # "rust",
               NEW p \in DOMAIN Parts(n)
        PROVE  Held(Parts(n)[p].type) \subseteq has[tr]
    <3>1. Together(has[tr], tr)
      BY DEF DerivesInv, ShareWhenJudged, Judged, Traits
    <3> QED BY <2>1, <3>1 DEF Together, Held
  <2>2. ASSUME NEW w \in Ways, NEW n \in Serde(w)
        PROVE  /\ decl[n].from = "varyk" /\ ~(decl[n].enum /\ decl[n].data)
               /\ \A p \in DOMAIN Parts(n) :
                    IF Parts(n)[p].skip THEN w = "read" => Parts(n)[p].filled
                    ELSE ~Parts(n)[p].type.bad /\ Held(Parts(n)[p].type) \subseteq Serde(w)
    <3>1. PICK m \in Media : n \in reached[m][w]
      BY <2>2 DEF Serde, Media
    <3>2. Good(n, reached[m][w]) /\ n \in Named
      BY <3>1 DEF CallsInv, GoodSet
    <3>3. reached[m][w] \subseteq Serde(w)
      BY DEF Serde, Media
    <3>4. ASSUME NEW p \in DOMAIN Parts(n), Parts(n)[p].skip, w = "read" PROVE Parts(n)[p].filled
      <4>1. ~Unfilled(n)
        BY <3>1, <3>4 DEF CallsInv
      <4>2. ~decl[n].enum
        <5>1. ASSUME decl[n].enum PROVE FALSE
          <6>1. ~decl[n].data
            BY <3>2, <5>1 DEF Good
          <6>2. PICK c : Program(decl, c)
            BY DEF CallsInv
          <6>3. p \in DOMAIN decl[n].parts /\ n \in DOMAIN decl /\ Parts(n) = decl[n].parts
            BY <3>2 DEF Parts, Named
          <6> QED BY <3>4, <5>1, <6>1, <6>2, <6>3 DEF Program
        <5> QED BY <5>1
      <4> QED BY <3>4, <4>1, <4>2 DEF Unfilled
    <3>5. ASSUME NEW p \in DOMAIN Parts(n), ~Parts(n)[p].skip
          PROVE  ~Parts(n)[p].type.bad /\ Held(Parts(n)[p].type) \subseteq Serde(w)
      BY <3>2, <3>3, <3>5 DEF Good, Fields
    <3> QED BY <3>2, <3>4, <3>5 DEF Good
  <2> QED BY <2>1, <2>2 DEF DerivesHold
<1> QED BY <1>1, <1>2, <1>3, TraitsShared, PTL DEF DerivesSpec
=============================================================================
