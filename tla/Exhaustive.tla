----------------------------- MODULE Exhaustive -----------------------------
(***************************************************************************)
(* Whether a `match` handles every value, and whether each arm can run     *)
(* (types/check/exhaustive.rs): a usefulness check, arm by arm, and then   *)
(* of a catch-all after every arm.                                         *)
(*                                                                         *)
(* A constructor is an interval <<lo, hi>> of numbers: a variant or a      *)
(* `bool` by its index, a literal by itself, a range as it is.  A type is  *)
(* [ctors, fields]: the constructors of one with finitely many and the     *)
(* types each of them holds, and <<>> for numbers, text and the rest.      *)
(* A pattern is [ctor, fields]; a catch-all has the constructor <<>>.      *)
(***************************************************************************)
EXTENDS Integers, Sequences, FiniteSets
LOCAL INSTANCE SequencesExt

VARIABLES
  matched,   \* the type looked at, and the patterns of the arms
  arm,       \* the arm checked next; 0 when the check is over
  dead,      \* the arms reported: <<arm, whether as a catch-all>>
  missing    \* the shapes no arm handles

evars == <<matched, arm, dead, missing>>

Wild == [ctor |-> <<>>, fields |-> <<>>]
Covers(row, ctor) == row[1] <= ctor[1] /\ ctor[2] <= row[2]
Wilds(n) == [i \in 1 .. n |-> Wild]
HeldBy(ty, ctor) == IF ty.ctors = <<>> THEN <<>> ELSE ty.fields[ctor[1]]

(* The rows whose first pattern fits ctor, with its own patterns first.    *)
Specialize(rows, ctor, arity) ==
  LET fit == SelectSeq(rows, LAMBDA r : r[1].ctor = <<>> \/ Covers(r[1].ctor, ctor))
  IN [i \in 1 .. Len(fit) |->
        (IF fit[i][1].ctor = <<>> THEN Wilds(arity) ELSE fit[i][1].fields) \o Tail(fit[i])]

DefaultRows(rows) ==
  LET wild == SelectSeq(rows, LAMBDA r : r[1].ctor = <<>>)
  IN [i \in 1 .. Len(wild) |-> Tail(wild[i])]

Heads(rows) == {rows[i][1].ctor : i \in DOMAIN rows} \ {<<>>}

(* Mutant: a range is tried as a whole.                                    *)
Uncut(ctor, rows) == <<ctor>>

(* A range cut at every end a row's range has inside it, in order. *)
Split(ctor, rows) ==
  LET ends == UNION {{h[1], h[2] + 1} : h \in Heads(rows)}
      cuts == {ctor[1]} \cup {c \in ends : ctor[1] < c /\ c <= ctor[2]}
      at == SetToSortSeq(cuts, LAMBDA a, b : a < b)
  IN [i \in 1 .. Len(at) |-> <<at[i], IF i = Len(at) THEN ctor[2] ELSE at[i + 1] - 1>>]

(* A witness whose first values are those ctor holds, put back inside it.  *)
Rebuild(ctor, arity, w) ==
  <<[ctor |-> ctor, fields |-> SubSeq(w, 1, arity)]>> \o SubSeq(w, arity + 1, Len(w))

RECURSIVE Useful(_, _, _)
RECURSIVE UsefulIn(_, _, _, _, _)

(* The witnesses of the first of the constructors that has any; what the   *)
(* pattern holds in it is own, or catch-alls.                              *)
UsefulIn(ctors, own, rows, rest, tys) ==
  IF ctors = <<>> THEN {}
  ELSE LET ctor == Head(ctors)
           held == HeldBy(tys[1], ctor)
           inner == IF own = <<>> THEN Wilds(Len(held)) ELSE own
           found == Useful(Specialize(rows, ctor, Len(inner)), inner \o rest, held \o Tail(tys))
       IN IF found # {} THEN {Rebuild(ctor, Len(inner), w) : w \in found}
          ELSE UsefulIn(Tail(ctors), own, rows, rest, tys)

(* The witnesses that v is useful after the rows; none when it is not.     *)
Useful(rows, v, tys) ==
  IF v = <<>> THEN IF rows = <<>> THEN {<<>>} ELSE {}
  ELSE LET ty == tys[1]
           finite == ty.ctors # <<>>
           missed == IF finite THEN SelectSeq(ty.ctors, LAMBDA c : c \notin Heads(rows)) ELSE <<>>
       IN IF v[1].ctor # <<>> THEN UsefulIn(Split(v[1].ctor, rows), v[1].fields, rows, Tail(v), tys)
          ELSE IF finite /\ missed = <<>> THEN UsefulIn(ty.ctors, <<>>, rows, Tail(v), tys)
          ELSE LET heads == IF finite /\ Heads(rows) # {}
                            THEN {[ctor |-> c, fields |-> Wilds(Len(HeldBy(ty, c)))] : c \in Range(missed)}
                            ELSE {Wild}
               IN {<<h>> \o w : h \in heads, w \in Useful(DefaultRows(rows), Tail(v), Tail(tys))}

Rows(n) == [i \in 1 .. n |-> <<matched.arms[i]>>]
CatchAlls(n) == {i \in 1 .. n : matched.arms[i].ctor = <<>>}

(* One arm: when no value can reach it, the first catch-all above is       *)
(* blamed, once, or else the arm itself.                                   *)
CheckArm ==
  /\ arm \in DOMAIN matched.arms
  /\ arm' = arm + 1
  /\ dead' = IF Useful(Rows(arm - 1), <<matched.arms[arm]>>, <<matched.type>>) # {} THEN dead
             ELSE IF CatchAlls(arm - 1) = {} THEN dead \cup {<<arm, FALSE>>}
             ELSE dead \cup {<<CHOOSE i \in CatchAlls(arm - 1) : \A j \in CatchAlls(arm - 1) : i <= j, TRUE>>}
  /\ UNCHANGED <<matched, missing>>

(* After the last: what a catch-all would still be useful for. *)
CheckRest ==
  /\ arm = Len(matched.arms) + 1
  /\ arm' = 0
  /\ missing' = IF dead # {} THEN {}
                ELSE IF matched.arms = <<>> THEN {<<Wild>>}
                ELSE Useful(Rows(Len(matched.arms)), <<Wild>>, <<matched.type>>)
  /\ UNCHANGED <<matched, dead>>

MatchNext == CheckArm \/ CheckRest
MatchStart(ty, arms) ==
  matched = [type |-> ty, arms |-> arms] /\ arm = 1 /\ dead = {} /\ missing = {}
-----------------------------------------------------------------------------
RECURSIVE Values(_)
RECURSIVE Products(_)
RECURSIVE Fits(_, _)

(* The values of a type: those of an open one are a few numbers and one    *)
(* that no literal or range is written for.                                *)
Products(tys) ==
  IF tys = <<>> THEN {<<>>} ELSE {<<v>> \o r : v \in Values(tys[1]), r \in Products(Tail(tys))}
Values(ty) ==
  IF ty.ctors = <<>> THEN {[ctor |-> <<n, n>>, fields |-> <<>>] : n \in -1 .. 5}
  ELSE UNION {{[ctor |-> ty.ctors[i], fields |-> f] : f \in Products(HeldBy(ty, ty.ctors[i]))}
              : i \in DOMAIN ty.ctors}
Fits(pattern, value) ==
  pattern.ctor = <<>> \/ (Covers(pattern.ctor, value.ctor)
                          /\ \A i \in DOMAIN pattern.fields : Fits(pattern.fields[i], value.fields[i]))

(* The check is exact: an arm is reported when, and only when, no value    *)
(* gets past the arms above it and fits it, at the arm or at a catch-all   *)
(* above it; and a `match` whose arms are all used is reported when, and   *)
(* only when, some value fits none of them, each shape named having one.   *)
MatchIsExact == arm = 0 =>
  LET values == Values(matched.type)
      arms == matched.arms
      reaches(i) == {v \in values : Fits(arms[i], v) /\ \A j \in 1 .. i - 1 : ~Fits(arms[j], v)}
      unused == {i \in DOMAIN arms : reaches(i) = {}}
      left == {v \in values : \A i \in DOMAIN arms : ~Fits(arms[i], v)}
  IN /\ \A d \in dead : IF d[2] THEN \E i \in unused : d[1] < i /\ arms[d[1]].ctor = <<>>
                                ELSE d[1] \in unused
     /\ \A i \in unused : \E d \in dead : d = <<i, FALSE>> \/ (d[2] /\ d[1] < i)
     /\ missing # {} <=> (unused = {} /\ left # {})
     /\ \A w \in missing : \E v \in left : Fits(w[1], v)
=============================================================================
