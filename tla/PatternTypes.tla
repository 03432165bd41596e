---------------------------- MODULE PatternTypes ----------------------------
(***************************************************************************)
(* What the typing of a body rests on: types, the names in scope, how a    *)
(* check succeeds or fails (types/check.rs), and the typing of patterns    *)
(* (types/check/patterns.rs).                                              *)
(*                                                                         *)
(* A type is a tuple: <<"i8">>, <<"bool">>, <<"enum", "E">>,               *)
(* <<"Option", t>>, <<"Result", t, e>>, <<"Vec", t>>, <<"chain", t>>.      *)
(* Names in scope map to <<type>>, or to <<>> for one whose binding        *)
(* failed.  A check gives [t, bad]: t is <<>> when it failed, else <<the   *)
(* checked thing>>; bad the codes reported, the first as <<"V0100", name>> *)
(* where it says that there is no such name.                               *)
(***************************************************************************)
EXTENDS Integers, Sequences, FiniteSets
LOCAL INSTANCE SequencesExt

CONSTANTS
  Structs,    \* per struct, its fields <<name, type, visible>>
  Enums       \* per enum, [opaque, variants]: per variant <<"tuple", types>> or <<"named", <<<<field, type>>, ..>>>>

Unit == <<"()">>
Bool == <<"bool">>
String == <<"string">>
Float == <<"f64">>
OptionOf(t) == <<"Option", t>>
ResultOf(t, e) == <<"Result", t, e>>

(* The integer types, their widths but for i8 and u8 cut in order, and the *)
(* largest literal there is, which is the largest usize.                   *)
Width == [i8 |-> <<-128, 127>>, u8 |-> <<0, 255>>, i32 |-> <<-999, 998>>, usize |-> <<0, 1998>>]
MaxLiteral == 1998
IsInt(t) == t[1] \in DOMAIN Width
IsNumber(t) == IsInt(t) \/ t = Float
IsSigned(t) == IsNumber(t) /\ t \notin {<<"u8">>, <<"usize">>}

Good(x) == [t |-> <<x>>, bad |-> <<>>]
Bad(code) == [t |-> <<>>, bad |-> <<<<code>>>>]
Unknown(name) == [t |-> <<>>, bad |-> <<<<"V0100", name>>>>]
Fails(r) == r.t = <<>>
(* f of a, which is evaluated before f: TLC would else evaluate what comes *)
(* before from within what comes after.                                    *)
Given(a, f(_)) == CHOOSE r \in {f(b) : b \in {a}} : TRUE

Checked(ok, x, code) == IF ok THEN Good(x) ELSE Bad(code)

(* Next, once r has succeeded, as after a `?`. *)
Then(r, Next(_)) ==
  IF Fails(r) THEN r ELSE LET n == Next(r.t[1]) IN [n EXCEPT !.bad = r.bad \o @]

(* All of them, whatever the others give. *)
All(rs) ==
  [t |-> IF \E i \in DOMAIN rs : Fails(rs[i]) THEN <<>> ELSE <<[i \in DOMAIN rs |-> rs[i].t[1]]>>,
   bad |-> FlattenSeq([i \in DOMAIN rs |-> rs[i].bad])]
-----------------------------------------------------------------------------
Constructors == {"Some", "None", "Ok", "Err"}

(* `bind`: what the name becomes, and the report on one that Rust would    *)
(* read as a variant.  `_` names nothing, but is entered by                *)
(* `bind_poisoned`, as any name is.                                        *)
BindReports(x, ty) ==
  IF ty[1] = "enum" /\ x \in DOMAIN Enums[ty[2]].variants /\ Enums[ty[2]].variants[x] = <<"tuple", <<>>>>
  THEN <<<<"V0103">>>> ELSE <<>>
Bind(names, x, local) ==
  IF x = "_" /\ local # <<>> THEN names
  ELSE [y \in DOMAIN names \cup {x} |-> IF y = x THEN local ELSE names[y]]
BindAll(names, binds) == FoldLeft(LAMBDA n, b : Bind(n, b[1], b[2]), names, binds)

(* `variants_of`. *)
VariantsOf(ty) ==
  CASE ty[1] = "enum" -> Enums[ty[2]].variants
    [] ty[1] = "Option" -> [v \in {"Some", "None"} |-> <<"tuple", IF v = "Some" THEN <<ty[2]>> ELSE <<>>>>]
    [] ty[1] = "Result" -> [v \in {"Ok", "Err"} |-> <<"tuple", <<IF v = "Ok" THEN ty[2] ELSE ty[3]>>>>]
    [] OTHER -> <<>>

(* `variant_index`, `builtin_pattern` and `user_pattern`: what is reported *)
(* of the variant v of the type at path ("" for none), "" when it is one   *)
(* of ty's.                                                                *)
VariantReport(path, v, ty) ==
  CASE path = "" /\ v \in Constructors ->
         IF ty[1] \in {"Option", "Result"} /\ v \in DOMAIN VariantsOf(ty) THEN "" ELSE "V0205"
    [] path = "" /\ v \notin Constructors -> "V0205"
    [] path \in DOMAIN Structs -> "V0205"
    [] path \in DOMAIN Enums ->
         IF v \notin DOMAIN Enums[path].variants THEN "V0100"
         ELSE IF ty # <<"enum", path>> THEN "V0205"
         ELSE IF Enums[path].opaque THEN "V0100" ELSE ""
    [] OTHER -> "V0100"

(* Patterns: <<"_">>, <<"name", x>>, <<"int", n, negative>>, <<"float">>,  *)
(* <<"str">>, <<"bool", b>>, <<"range", lo, hi>>, <<"variant", path, v,    *)
(* written with parentheses, patterns>>, <<"struct", path, v, fields>>.    *)
RECURSIVE BoundNames(_)
BoundNames(p) ==
  CASE p[1] = "name" -> IF p[2] \in Constructors THEN <<>> ELSE <<p[2]>>
    [] p[1] = "variant" -> FlattenSeq([i \in DOMAIN p[5] |-> BoundNames(p[5][i])])
    [] p[1] = "struct" -> FlattenSeq([i \in DOMAIN p[4] |-> BoundNames(p[4][i][2])])
    [] OTHER -> <<>>

(* The names of p, bound as failed. *)
Poisoned(p) == LET names == BoundNames(p) IN [i \in DOMAIN names |-> <<names[i], <<>>>>]

(* `pattern_int`: no `-` before an unsigned number, not even before 0. *)
FitsPattern(literal, ty) ==
  LET value == IF literal[3] THEN -literal[2] ELSE literal[2]
      bounds == Width[ty[1]]
  IN /\ literal[2] <= MaxLiteral
     /\ bounds[1] <= value /\ value <= bounds[2]
     /\ ~(literal[3] /\ bounds[1] = 0)
ValueOf(literal) == IF literal[3] THEN -literal[2] ELSE literal[2]

(* `literal_pattern` and `range_pattern`; a string only as the whole       *)
(* pattern.                                                                *)
LiteralFits(p, ty, top) ==
  \/ p[1] = "int" /\ IsInt(ty) /\ FitsPattern(p, ty)
  \/ p[1] = "str" /\ ty = String /\ top
  \/ p[1] = "bool" /\ ty = Bool
  \/ /\ p[1] = "range" /\ p[2][1] = "int" /\ p[3][1] = "int" /\ IsInt(ty)
     /\ FitsPattern(p[2], ty) /\ FitsPattern(p[3], ty) /\ ValueOf(p[2]) <= ValueOf(p[3])

(* The typing of a pattern gives with [t, bad] the bindings it makes, and  *)
(* the names seen so far in the whole pattern.                             *)
Pat(r, binds, seen) == [t |-> r.t, bad |-> r.bad, binds |-> binds, seen |-> seen]

RECURSIVE SubPattern(_, _, _, _)

(* Patterns in turn, each with its type. *)
SubPatterns(ps, tys, seen) ==
  FoldLeft(LAMBDA sofar, i :
             LET r == SubPattern(ps[i], tys[i], FALSE, sofar.seen)
             IN [t |-> IF Fails(r) THEN <<>> ELSE sofar.t,
                 bad |-> sofar.bad \o r.bad, binds |-> sofar.binds \o r.binds, seen |-> r.seen],
           Pat(Good("fields"), <<>>, seen), [i \in DOMAIN ps |-> i])

(* `positional`. *)
Positional(fields, ps, parens, seen) ==
  LET n == Len(fields[2])
  IN IF \/ fields[1] = "named" \/ (n = 0) = parens \/ Len(ps) # n
     THEN Pat(Bad("V0205"), <<>>, seen)
     ELSE SubPatterns(ps, fields[2], seen)

(* `named`: every field once. *)
FieldStep(declared, written, sofar, i) ==
  LET f == written[i][1]
      index == {k \in DOMAIN declared : declared[k][1] = f}
      refuse(code) == [sofar EXCEPT !.t = <<>>, !.bad = Append(@, <<code>>),
                                    !.binds = @ \o Poisoned(written[i][2])]
  IN IF index = {} THEN refuse("V0102")
     ELSE IF \E j \in 1 .. i - 1 : written[j][1] = f THEN refuse("V0103")
     ELSE LET r == SubPattern(written[i][2], declared[CHOOSE k \in index : TRUE][2], FALSE, sofar.seen)
          IN [t |-> IF Fails(r) THEN <<>> ELSE sofar.t,
              bad |-> sofar.bad \o r.bad, binds |-> sofar.binds \o r.binds, seen |-> r.seen]
Named(fields, written, seen) ==
  IF fields[1] = "tuple" THEN Pat(Bad("V0205"), <<>>, seen)
  ELSE LET r == FoldLeft(LAMBDA s, i : FieldStep(fields[2], written, s, i),
                         Pat(Good("fields"), <<>>, seen), [i \in DOMAIN written |-> i])
           all == \A k \in DOMAIN fields[2] : \E i \in DOMAIN written : written[i][1] = fields[2][k][1]
       IN IF Fails(r) \/ all THEN r ELSE [r EXCEPT !.t = <<>>, !.bad = Append(@, <<"V0205">>)]

(* `sub_pattern_unbound`. *)
Unbound(p, ty, top, seen) ==
  CASE p[1] = "_" -> Pat(Good(p), <<>>, seen)
    [] p[1] = "name" /\ p[2] \notin Constructors ->
         IF p[2] \in seen THEN Pat(Bad("V0103"), <<>>, seen)
         ELSE [t |-> <<p>>, bad |-> BindReports(p[2], ty), binds |-> <<<<p[2], <<ty>>>>>>,
               seen |-> seen \cup {p[2]}]
    [] p[1] = "name" /\ p[2] \in Constructors ->
         IF VariantReport("", p[2], ty) # "" THEN Pat(Bad(VariantReport("", p[2], ty)), <<>>, seen)
         ELSE Positional(VariantsOf(ty)[p[2]], <<>>, FALSE, seen)
    [] p[1] = "variant" ->
         IF VariantReport(p[2], p[3], ty) # "" THEN Pat(Bad(VariantReport(p[2], p[3], ty)), <<>>, seen)
         ELSE Positional(VariantsOf(ty)[p[3]], p[5], p[4], seen)
    [] p[1] = "struct" ->
         IF p[2] = "" /\ p[3] \in DOMAIN Structs THEN Pat(Bad("V0001"), <<>>, seen)
         ELSE IF VariantReport(p[2], p[3], ty) # ""
         THEN Pat(Bad(VariantReport(p[2], p[3], ty)), <<>>, seen)
         ELSE Named(VariantsOf(ty)[p[3]], p[4], seen)
    [] OTHER -> Pat(Checked(LiteralFits(p, ty, top), p, "V0205"), <<>>, seen)

(* `sub_pattern`: of a pattern that fails every name is bound as failed. *)
SubPattern(p, ty, top, seen) ==
  LET r == Unbound(p, ty, top, seen)
  IN IF Fails(r) THEN [r EXCEPT !.binds = @ \o Poisoned(p)] ELSE [r EXCEPT !.t = <<p>>]

(* `lower_pattern`. *)
LowerPattern(p, ty) == SubPattern(p, ty, TRUE, {})
=============================================================================
