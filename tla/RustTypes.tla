----------------------------- MODULE RustTypes -----------------------------
(***************************************************************************)
(* What rustc says of the Rust a typed body is printed as, as far as types *)
(* go: rustc's own rules, in no way the checker's.  A type is found from   *)
(* the parts up: <<"!">> of what never gives a value, which fits anywhere; *)
(* <<"_">> for a part that only the context can fill, which must be filled *)
(* before the value is looked into.                                        *)
(*                                                                         *)
(* Printed are (backend/rust.rs, rust_expr.rs): a number with its type, a  *)
(* `let` of an Option, Result, Vec or HashMap with its type and any other  *)
(* without, a constructor under `?` with its full type.                    *)
(***************************************************************************)
EXTENDS TypeCheck
LOCAL INSTANCE SequencesExt

Never == <<"!">>
Hole == <<"_">>
RECURSIVE HasHole(_)
HasHole(t) == t = Hole \/ \E i \in 2 .. Len(t) : t[1] \notin {"struct", "enum"} /\ HasHole(t[i])

(* Two types made one, <<>> when they cannot be.  *)
RECURSIVE Unify(_, _)
Unify(a, b) ==
  CASE a \in {Never, Hole} -> <<b>>
    [] b \in {Never, Hole} -> <<a>>
    [] a[1] # b[1] \/ Len(a) # Len(b) -> <<>>
    [] a[1] \in {"struct", "enum"} -> IF a = b THEN <<a>> ELSE <<>>
    [] OTHER -> LET parts == [i \in 2 .. Len(a) |-> Unify(a[i], b[i])]
                IN IF \E i \in DOMAIN parts : parts[i] = <<>> THEN <<>>
                   ELSE <<[i \in DOMAIN a |-> IF i = 1 THEN a[1] ELSE parts[i][1]]>>
Fits(r, ty) == r # <<>> /\ Unify(r[1], ty) # <<>>
Join(a, b) == IF a = <<>> \/ b = <<>> THEN <<>> ELSE Unify(a[1], b[1])
If(ok, ty) == IF ok THEN <<ty>> ELSE <<>>
(* A value that is looked into: its type is known.  *)
Known(r) == r # <<>> /\ r[1] # Never /\ ~HasHole(r[1])

(* A name that binds where a unit variant of its type could be meant is an *)
(* error of rustc (E0170).                                                 *)
CanBind(x, ty) ==
  ~(ty[1] = "enum" /\ x \in DOMAIN Enums[ty[2]].variants /\ Enums[ty[2]].variants[x] = <<"tuple", <<>>>>)
With(env, x, ty) == [env EXCEPT !.names = Bind(@, x, ty)]

(* Whether rustc takes the pattern for a value of the type, and what the   *)
(* names in it are.                                                        *)
RECURSIVE PatternFits(_, _), PatternNames(_, _)
FieldTypes(fields) == [i \in DOMAIN fields[2] |-> IF fields[1] = "named" THEN fields[2][i][2] ELSE fields[2][i]]
FieldAt(fields, f) == CHOOSE k \in DOMAIN fields[2] : fields[2][k][1] = f
PatternFits(p, ty) ==
  CASE p[1] = "_" -> TRUE
    [] p[1] = "name" -> IF p[2] \in Constructors THEN p[2] = "None" /\ ty[1] = "Option" ELSE CanBind(p[2], ty)
    [] p[1] = "int" -> IsInt(ty) /\ Width[ty[1]][1] <= ValueOf(p) /\ ValueOf(p) <= Width[ty[1]][2]
                       /\ (p[3] => IsSigned(ty))
    [] p[1] = "range" -> PatternFits(p[2], ty) /\ PatternFits(p[3], ty) /\ ValueOf(p[2]) <= ValueOf(p[3])
    [] p[1] = "bool" -> ty = Bool
    [] p[1] = "str" -> ty = String
    [] p[1] = "float" -> ty = Float
    [] p[1] = "variant" ->
         /\ ty[1] \in {"enum", "Option", "Result"} /\ p[3] \in DOMAIN VariantsOf(ty)
         /\ p[2] = (IF ty[1] = "enum" THEN ty[2] ELSE "")
         /\ VariantsOf(ty)[p[3]][1] = "tuple" /\ Len(p[5]) = Len(VariantsOf(ty)[p[3]][2])
         /\ \A i \in DOMAIN p[5] : PatternFits(p[5][i], VariantsOf(ty)[p[3]][2][i])
    [] p[1] = "struct" ->
         /\ ty = <<"enum", p[2]>> /\ p[3] \in DOMAIN VariantsOf(ty) /\ VariantsOf(ty)[p[3]][1] = "named"
         /\ {p[4][i][1] : i \in DOMAIN p[4]} = {f[1] : f \in ToSet(VariantsOf(ty)[p[3]][2])}
         /\ Len(p[4]) = Len(VariantsOf(ty)[p[3]][2])
         /\ \A i \in DOMAIN p[4] :
              PatternFits(p[4][i][2], VariantsOf(ty)[p[3]][2][FieldAt(VariantsOf(ty)[p[3]], p[4][i][1])][2])
PatternNames(p, ty) ==
  CASE p[1] = "name" -> IF p[2] \in Constructors THEN <<>> ELSE <<<<p[2], ty>>>>
    [] p[1] = "variant" ->
         FlattenSeq([i \in DOMAIN p[5] |-> PatternNames(p[5][i], VariantsOf(ty)[p[3]][2][i])])
    [] p[1] = "struct" ->
         FlattenSeq([i \in DOMAIN p[4] |->
           PatternNames(p[4][i][2], VariantsOf(ty)[p[3]][2][FieldAt(VariantsOf(ty)[p[3]], p[4][i][1])][2])])
    [] OTHER -> <<>>
Distinct(names) == \A i, j \in DOMAIN names : names[i][1] = names[j][1] => i = j
TakesPattern(p, r) ==
  Known(r) /\ PatternFits(p, r[1]) /\ Distinct(PatternNames(p, r[1]))
WithPattern(env, p, ty) == FoldLeft(LAMBDA e, b : With(e, b[1], b[2]), env, PatternNames(p, ty))
Exhaustive(ty, ps) == Uncovered(ty, ps, Len(ps)) = {}
-----------------------------------------------------------------------------
RECURSIVE Rust(_, _)

Args(ns, tys, env) == Len(ns) = Len(tys) /\ \A i \in DOMAIN ns : Fits(Rust(ns[i], env), tys[i])
AllFit(ns, ty, env) == \A i \in DOMAIN ns : Fits(Rust(ns[i], env), ty)

RustOperator(op, l, r) ==
  CASE op \in {"&&", "||"} -> If(Fits(l, Bool) /\ Fits(r, Bool), Bool)
    [] op = "==" -> If(Known(Join(l, r)) /\ Derived(l[1]), Bool)
    [] op \in Arithmetic -> IF Known(Join(l, r)) /\ IsNumber(l[1]) THEN l ELSE <<>>
    [] OTHER -> If(Known(Join(l, r)) /\ IsNumber(l[1]), Bool)

(* A struct's or variant's fields, each once. *)
RustFields(declared, names, ns, env) ==
  /\ Len(names) = Len(declared)
  /\ \A k \in DOMAIN declared : \E i \in DOMAIN names : names[i] = declared[k][1]
  /\ \A i \in DOMAIN names :
       \E k \in FieldNamed(declared, names[i]) :
         Fits(Rust(ns[i], env), declared[k][2]) /\ (Len(declared[k]) = 3 => declared[k][3])

RustVariant(P, v, ns, env) ==
  LET value == Rust(ns[1], env)
      held == IF value # <<>> /\ value[1] = Never THEN Hole ELSE value[1]
  IN CASE P # "" -> If(Args(ns, Enums[P].variants[v][2], env), <<"enum", P>>)
       [] v = "None" -> <<OptionOf(Hole)>>
       [] OTHER -> IF value = <<>> THEN <<>>
                   ELSE <<CASE v = "Some" -> OptionOf(held) [] v = "Ok" -> ResultOf(held, Hole)
                            [] v = "Err" -> ResultOf(Hole, held)>>

(* A called function of the program: started as a task, or a future when   *)
(* async, or its value.                                                    *)
Called(sig, d, ns, env) ==
  If(Args(ns, sig.params, env),
     IF d.started THEN TaskOf(sig.ret) ELSE IF sig.async THEN <<"future", sig.ret>> ELSE sig.ret)

(* A method: of a user type, `clone`, or of the standard library.          *)
RustMethod(n, env) ==
  LET recv == Rust(n.parts[1], env)
      rest == Tail(n.parts)
      f == n.d.f
      row == Table[f[1]][f[2]]
      s == [SubstOf(recv[1]) EXCEPT !.Expected = IF f[2] = "parse" THEN n.ty[2] ELSE @]
      closure == rest[1]
      body == Rust(closure.parts[1], [With(env, closure.d[1], s[row.params[1][2]]) EXCEPT !.closure = TRUE, !.loops = 0])
      owned == IF f[2] = "ok_or" THEN [s EXCEPT !.E = Rust(rest[1], env)[1]] ELSE s
  IN CASE ~Known(recv) -> <<>>
       [] Known(recv) /\ f[2] = "clone" /\ f[1] = "any" -> If(rest = <<>> /\ Derived(recv[1]), recv[1])
       [] Known(recv) /\ f[1] \in DOMAIN Members -> Called(Members[f[1]][f[2]], n.d, rest, env)
       [] OTHER ->
            IF OwnerOf(recv[1]) # f[1] \/ ~ElementFits(row.element, s.T) THEN <<>>
            ELSE IF row.params # <<>> /\ IsClosure(row.params[1])
            THEN IF closure.k # "closure" \/ ~CanBind(closure.d[1], s[row.params[1][2]]) \/ body = <<>> THEN <<>>
                 ELSE If(row.params[1][3] = "bool" => Fits(body, Bool), ShapeTy(row.result, [s EXCEPT !.R = body[1]]))
            ELSE IF f[2] = "ok_or" /\ Rust(rest[1], env) = <<>> THEN <<>>
            ELSE If(Args(rest, [i \in DOMAIN row.params |-> ShapeTy(row.params[i][1], owned)], env),
                    ShapeTy(row.result, owned))

RustTry(n, env) ==
  LET operand == n.parts[1]
      full == operand.k = "variant" /\ operand.d[1] = "" /\ operand.d[2] # "Some"
      r == IF full THEN (IF Fits(Rust(operand, env), operand.ty) THEN <<operand.ty>> ELSE <<>>) ELSE Rust(operand, env)
  IN IF env.closure \/ r = <<>> \/ r[1][1] # env.ret[1] \/ r[1][1] \notin {"Option", "Result"} THEN <<>>
     ELSE If(r[1][1] = "Result" => r[1][3] = env.ret[3], r[1][2])

RustAwait(n, env) ==
  LET r == Rust(n.parts[1], env)
  IN IF r = <<>> \/ ~env.async \/ env.closure \/ r[1][1] \notin {"future", "Task"} THEN <<>> ELSE <<r[1][2]>>
-----------------------------------------------------------------------------
(* Whether control never gets past it, as rustc's flow has it. *)
RECURSIVE Stops(_)
Stops(n) ==
  LET from(i) == \E j \in i .. Len(n.parts) : Stops(n.parts[j])
      each(i) == \A j \in i .. Len(n.parts) : Stops(n.parts[j])
  IN CASE n.k \in {"return", "break", "continue"} -> TRUE
       [] n.k \in {"closure", "int", "float", "bool", "str", "local"} -> FALSE
       [] n.k = "if" \/ n.k = "iflet" -> Stops(n.parts[1]) \/ (Len(n.parts) = 3 /\ each(2))
       [] n.k = "match" -> Stops(n.parts[1]) \/ (Len(n.parts) > 1 /\ each(2))
       [] n.k \in {"while", "whilelet"} \/ (n.k = "bin" /\ n.d \in {"&&", "||"}) -> Stops(n.parts[1])
       [] n.k = "for" -> \E j \in 1 .. Len(n.parts) - 1 : Stops(n.parts[j])
       [] OTHER -> from(1)

Looping(env) == [env EXCEPT !.loops = @ + 1]
Written(ty) == ty[1] \in {"Option", "Result", "Vec", "HashMap"}

(* A statement: whether it is right, and what a `let` leaves in scope.     *)
RightStmt(n, env) ==
  LET value == n.parts[1]
      r == Rust(value, env)
      body == n.parts[Len(n.parts)]
      item == IF Len(n.parts) = 3 THEN Join(r, Rust(n.parts[2], env))
              ELSE IF r # <<>> /\ r[1][1] \in {"Vec", "chain"} THEN <<r[1][2]>> ELSE <<>>
  IN CASE n.k = "let" -> /\ IF Written(value.ty) THEN Fits(r, value.ty) ELSE r # <<>> /\ ~HasHole(r[1])
                         /\ CanBind(n.d[1], value.ty)
       [] n.k = "assign" -> IsPlace(value) /\ Known(r) /\ Fits(Rust(n.parts[2], env), r[1])
       [] n.k = "do" -> IF n.d THEN r # <<>> /\ ~HasHole(r[1]) ELSE Fits(r, Unit)
       [] n.k = "return" -> ~env.closure /\ IF n.parts = <<>> THEN env.ret = Unit ELSE Fits(r, env.ret)
       [] n.k = "while" -> Fits(r, Bool) /\ Fits(Rust(body, Looping(env)), Unit)
       [] n.k = "whilelet" -> TakesPattern(n.d, r) /\ Fits(Rust(body, Looping(WithPattern(env, n.d, r[1]))), Unit)
       [] n.k = "for" -> /\ Known(item) /\ CanBind(n.d[1], item[1]) /\ (Len(n.parts) = 3 => IsInt(item[1]))
                         /\ Fits(Rust(body, Looping(With(env, n.d[1], item[1]))), Unit)
       [] n.k \in {"break", "continue"} -> env.loops > 0
Scoped(n, env) ==
  LET value == n.parts[1]
      r == Rust(value, env)
  IN IF n.k # "let" THEN env
     ELSE With(env, n.d[1], IF Written(value.ty) \/ r = <<>> \/ r[1] = Never THEN value.ty ELSE r[1])

RustBlock(n, env) ==
  LET last == Len(n.parts)
      count == IF n.d THEN last - 1 ELSE last
      envs[i \in 0 .. count] == IF i = 0 THEN env ELSE Scoped(n.parts[i], envs[i - 1])
  IN IF \E i \in 1 .. count : ~RightStmt(n.parts[i], envs[i - 1]) THEN <<>>
     ELSE IF n.d THEN Rust(n.parts[last], envs[count])
     ELSE <<IF \E i \in 1 .. count : Stops(n.parts[i]) THEN Never ELSE Unit>>

JoinAll(rs) == FoldLeft(Join, <<Never>>, rs)

Rust(n, env) ==
  LET part(i) == Rust(n.parts[i], env)
  IN CASE n.k = "int" -> If(n.d <= Width[n.ty[1]][2], n.ty)
       [] n.k \in {"float", "bool", "str"} -> <<n.ty>>
       [] n.k = "local" -> If(n.d[1] \in DOMAIN env.names, env.names[n.d[1]])
       [] n.k = "un" -> IF n.d = "!" THEN If(Fits(part(1), Bool), Bool)
                        ELSE IF n.parts[1].k = "int"
                        THEN If(IsSigned(n.ty) /\ n.parts[1].d <= -Width[n.ty[1]][1], n.ty)
                        ELSE IF Known(part(1)) /\ IsSigned(part(1)[1]) THEN part(1) ELSE <<>>
       [] n.k = "bin" -> RustOperator(n.d, part(1), part(2))
       [] n.k = "field" -> IF ~Known(part(1)) THEN <<>>
                           ELSE LET found == {i \in FieldNamed(FieldsOf(part(1)[1]), n.d) : FieldsOf(part(1)[1])[i][3]}
                                IN If(found # {}, FieldsOf(part(1)[1])[CHOOSE i \in found : TRUE][2])
       [] n.k = "index" -> If(Known(part(1)) /\ part(1)[1][1] = "Vec" /\ Fits(part(2), <<"usize">>), part(1)[1][2])
       [] n.k = "lit" -> If(RustFields(Structs[n.d[1]], n.d[2], n.parts, env), <<"struct", n.d[1]>>)
       [] n.k = "named" -> If(RustFields(Enums[n.d[1]].variants[n.d[2]][2], n.d[3], n.parts, env), <<"enum", n.d[1]>>)
       [] n.k = "variant" -> RustVariant(n.d[1], n.d[2], n.parts, env)
       [] n.k = "vec" -> LET item == JoinAll([i \in DOMAIN n.parts |-> part(i)])
                         IN IF item = <<>> THEN <<>> ELSE <<VecOf(IF item[1] = Never THEN Hole ELSE item[1])>>
       [] n.k = "new" -> IF n.d = "Error" THEN If(Args(n.parts, <<String>>, env), Error)
                         ELSE <<IF n.d = "Vec" THEN VecOf(Hole) ELSE <<"HashMap", Hole, Hole>>>>
       [] n.k = "call" -> IF n.d.f[1] = "Task"
                          THEN If(Known(part(1)) /\ IsTaskList(part(1)[1]), <<"future", n.ty>>)
                          ELSE Called(IF n.d.f[1] = "" THEN Fns[n.d.f[2]] ELSE Members[n.d.f[1]][n.d.f[2]], n.d, n.parts, env)
       [] n.k = "method" -> RustMethod(n, env)
       [] n.k = "try" -> RustTry(n, env)
       [] n.k = "await" -> RustAwait(n, env)
       [] n.k = "cast" -> If(Known(part(1)) /\ IsNumber(part(1)[1]), n.d)
       [] n.k = "print" -> If(\A i \in DOMAIN n.parts : Known(part(i)) /\ PrintReport(part(i)[1]) = "", n.ty)
       [] n.k = "assert" -> If(Fits(part(1), Bool), Unit)
       [] n.k = "if" -> LET join == IF Len(n.parts) = 3 THEN Join(part(2), part(3)) ELSE If(Fits(part(2), Unit), Unit)
                        IN IF Fits(part(1), Bool) THEN join ELSE <<>>
       [] n.k = "iflet" -> LET then == Rust(n.parts[2], WithPattern(env, n.d, part(1)[1]))
                               join == IF Len(n.parts) = 3 THEN Join(then, part(3)) ELSE If(Fits(then, Unit), Unit)
                           IN IF TakesPattern(n.d, part(1)) THEN join ELSE <<>>
       [] n.k = "match" -> LET arm(i) == Rust(n.parts[i + 1], WithPattern(env, n.d[i], part(1)[1]))
                           IN IF /\ \A i \in DOMAIN n.d : TakesPattern(n.d[i], part(1))
                                 /\ Known(part(1)) /\ Exhaustive(part(1)[1], n.d)
                              THEN JoinAll([i \in DOMAIN n.d |-> arm(i)]) ELSE <<>>
       [] n.k = "block" -> RustBlock(n, env)
       [] n.k = "closure" -> <<>>

(* The printed function as rustc has it. *)
RustTakes(fn, body) ==
  LET env == [names |-> [x \in {} |-> Unit], ret |-> fn.ret, loops |-> 0, closure |-> FALSE, async |-> fn.async]
      params == FoldLeft(LAMBDA e, p : With(e, p[1], p[2][1]), env, fn.params)
  IN (\A i \in DOMAIN fn.params : CanBind(fn.params[i][1], fn.params[i][2][1])) /\ Fits(Rust(body, params), fn.ret)
=============================================================================
