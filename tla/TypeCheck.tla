----------------------------- MODULE TypeCheck -----------------------------
(***************************************************************************)
(* The typing of one function (types/check.rs and its modules): `block`,   *)
(* `stmt` and `expr` hand the type wanted down and give a typed node up.   *)
(*                                                                         *)
(* Expressions and statements are tuples headed by their kind; a block is  *)
(* [stmts, tail], tail <<>> or <<expression>>.  A node is [k, d, parts,    *)
(* ty]: the kind, what it names, the nodes it is made of, its type.  Want  *)
(* is <<>> or <<type>>.  Struct and enum types do not contain themselves.  *)
(***************************************************************************)
EXTENDS MethodRows
LOCAL INSTANCE SequencesExt

CONSTANTS
  Fns,        \* per function of the program, [params, ret, async, test, wrapped]
  Members,    \* per type, per function of its impl, [self, params, ret, async, visible]
  Underived   \* the types of a `.rs` file that do not derive Clone and PartialEq

(* What surrounds an expression: the names in scope, how deep they are     *)
(* nested, and place, where a task made by this very expression would      *)
(* stand (`task_places`, `await_operand`, `option_try_operand`).           *)
Surroundings(fn) ==
  [names |-> <<>>, depth |-> 0, ret |-> fn.ret, loops |-> 0, closure |-> FALSE,
   async |-> fn.async, test |-> fn.test, place |-> ""]
TaskPlaces == {"Let", "Detach", "VecElement", "MapValue", "All"}

Node(k, d, parts, ty) == [k |-> k, d |-> d, parts |-> parts, ty |-> ty]
TaskOf(t) == <<"Task", t>>
HasChain(t) ==
  \/ t[1] = "chain"
  \/ t[1] \in {"Option", "Vec", "Result", "HashMap"} /\ \E i \in 2 .. Len(t) : t[i][1] = "chain"
IsTaskList(t) == t[1] = "Vec" /\ t[2][1] = "Task"
IsTasks(t) == t[1] = "Task" \/ IsTaskList(t)
IsCopy(t) == t = Bool \/ IsNumber(t)
Silent == [t |-> <<>>, bad |-> <<>>]
Reporting(r, reports) == [r EXCEPT !.bad = @ \o reports]

(* `mismatch`, `expect`. *)
Mismatch(found) == IF HasChain(found) THEN "V0208" ELSE "V0200"
Expect(r, ty) == Then(r, LAMBDA n : Checked(n.ty = ty, n, Mismatch(n.ty)))

(* `bind` and `bind_poisoned`, for the names of a pattern too. *)
BindIn(env, binds) ==
  FoldLeft(LAMBDA e, b :
             [e EXCEPT !.names = Bind(@, b[1], IF b[2] = <<>> THEN <<>> ELSE <<b[2][1], e.depth>>),
                       !.depth = @ + 1],
           env, binds)

(* `is_place`, `is_block_like`, `is_literal`. *)
RECURSIVE IsPlace(_)
IsPlace(n) == n.k = "local" \/ (n.k \in {"field", "index"} /\ IsPlace(n.parts[1]))
IsBlockLike(n) == n.k \in {"if", "iflet", "block", "match"}
RECURSIVE IsLiteral(_)
IsLiteral(e) == e[1] \in {"int", "float"} \/ (e[1] = "un" /\ e[2] = "-" /\ IsLiteral(e[3]))

(* `stmt_diverges`, `expr_diverges`, `block_diverges`. *)
RECURSIVE Diverges(_)
Diverges(n) ==
  \/ n.k \in {"return", "break", "continue"}
  \/ n.k \in {"do", "block"} /\ \E i \in DOMAIN n.parts : Diverges(n.parts[i])
  \/ n.k \in {"if", "iflet"} /\ Len(n.parts) = 3 /\ Diverges(n.parts[2]) /\ Diverges(n.parts[3])
  \/ n.k = "match" /\ Len(n.parts) > 1 /\ \A i \in 2 .. Len(n.parts) : Diverges(n.parts[i])

(* `leaves_closure`, `type_hole`, `check_head`, `check_matchable`. *)
LeavesClosure(env, r) == IF env.closure THEN Bad("V0001") ELSE r
TypeHole(want) == Bad(IF want # <<>> THEN "V0200" ELSE "V0207")
CheckHead(n) == Checked(~IsBlockLike(n) /\ (n.k \in {"field", "index"} => IsPlace(n)), n, "V0001")
CheckMatchable(n) ==
  IF HasChain(n.ty) THEN Bad("V0208")
  ELSE Checked(n.ty[1] \in {"enum", "Option", "Result"} \/ IsNumber(n.ty) \/ n.ty \in {Bool, String},
               n, "V0205")

(* `async_call`: whether the call is started rather than awaited. *)
AsyncCall(sig, env) ==
  IF ~sig.async THEN Good(FALSE)
  ELSE IF ~env.async THEN Bad("V0211")
  ELSE IF env.place = "Await" THEN Good(FALSE)
  ELSE Checked(env.place \in TaskPlaces, TRUE, "V0213")
StartedTy(started, ret) == IF started THEN TaskOf(ret) ELSE ret

(* `tasks_made`, `task_local`. *)
TasksMade(n, env) ==
  IF ~IsTaskList(n.ty) \/ env.place \in {"Let", "All"} THEN Good(n)
  ELSE Bad(IF env.place = "Await" THEN "V0215" ELSE "V0213")
TaskLocal(ty, env) ==
  CASE ~IsTasks(ty) -> TRUE
    [] ty[1] = "Task" -> env.place \in {"Await", "Detach"}
    [] OTHER -> env.place = "All"

(* `can_compare` and `can_clone`: no part is a type without it. *)
RECURSIVE Derived(_)
Derived(t) ==
  CASE t[1] \in {"struct", "enum"} /\ t[2] \in Underived -> FALSE
    [] t[1] = "struct" -> \A i \in DOMAIN Structs[t[2]] : Derived(Structs[t[2]][i][2])
    [] t[1] = "enum" ->
         \A v \in DOMAIN Enums[t[2]].variants :
           LET fields == Enums[t[2]].variants[v]
           IN \A i \in DOMAIN fields[2] :
                Derived(IF fields[1] = "named" THEN fields[2][i][2] ELSE fields[2][i])
    [] t[1] \in {"Option", "Result", "Vec", "HashMap"} -> \A i \in 2 .. Len(t) : Derived(t[i])
    [] OTHER -> TRUE
-----------------------------------------------------------------------------
(* Literals, and the parts of expressions whose rule needs no other.       *)

(* `integer`; negated is whether a `-` stands directly before it. *)
IntTy(want) == IF want # <<>> /\ IsInt(want[1]) THEN want[1] ELSE <<"i32">>
Integer(n, want, negated) ==
  LET bounds == Width[IntTy(want)[1]]
      limit == IF negated /\ bounds[1] < 0 THEN -bounds[1] ELSE bounds[2]
  IN Checked(n <= MaxLiteral /\ n <= limit, Node("int", n, <<>>, IntTy(want)), "V0200")

(* `lookup_local`, then `task_local`. *)
LocalValue(x, env) ==
  CASE x \notin DOMAIN env.names -> Unknown(x)
    [] x \in DOMAIN env.names /\ env.names[x] = <<>> -> Silent
    [] OTHER -> LET local == env.names[x]
                IN Checked(TaskLocal(local[1], env), Node("local", <<x, local[2]>>, <<>>, local[1]), "V0215")

(* `field`, once the base is known. *)
FieldsOf(ty) == IF ty[1] = "struct" THEN Structs[ty[2]] ELSE <<>>
FieldNamed(fields, f) == {i \in DOMAIN fields : fields[i][1] = f}
FieldOf(base, f) ==
  LET found == FieldNamed(FieldsOf(base.ty), f)
  IN IF found = {} THEN Bad("V0102")
     ELSE LET field == FieldsOf(base.ty)[CHOOSE i \in found : TRUE]
          IN Checked(field[3], Node("field", f, <<base>>, field[2]), "V0105")

(* What `binary` makes of two operands of one type. *)
Arithmetic == {"+", "-", "*"}
BinaryOf(op, lhs, rhs) ==
  LET ty == lhs.ty
      both(result) == Node("bin", op, <<lhs, rhs>>, result)
  IN IF op = "=="
     THEN IF ~Derived(ty) THEN Bad("V0203") ELSE Checked(ty # Unit, both(Bool), "V0200")
     ELSE Checked(IsNumber(ty), both(IF op \in Arithmetic THEN ty ELSE Bool), "V0200")

(* What `format_args` says of each argument. *)
PrintReport(ty) ==
  CASE ty[1] \in {"struct", "enum", "Option", "Result", "Vec", "HashMap"} -> "V0203"
    [] ty = Unit -> "V0200"
    [] OTHER -> ""

(* The type `?` leaves of a function's return type for its operand, and    *)
(* what it says of an operand of the type found.                           *)
TryWanted(ret, want) ==
  IF want = <<>> THEN <<>>
  ELSE IF ret[1] = "Option" THEN <<OptionOf(want[1])>>
  ELSE IF ret[1] = "Result" THEN <<ResultOf(want[1], ret[3])>> ELSE <<>>
(* Mutant: the error types are not compared. *)
TryOfAnyError(n, ret) ==
  Checked(ret[1] \in {"Result", "Option"} /\ n.ty[1] = ret[1], Node("try", ret[1], <<n>>, n.ty[2]), "V0206")
TryOf(n, ret) ==
  Checked(\/ ret[1] = "Result" /\ n.ty[1] = "Result" /\ n.ty[3] = ret[3]
          \/ ret[1] = "Option" /\ n.ty[1] = "Option",
          Node("try", ret[1], <<n>>, n.ty[2]), "V0206")
ConstructorFamily(e) ==
  CASE e[1] = "call" /\ e[2] = "" /\ e[3] \in {"Ok", "Err"} -> "Result"
    [] e[1] = "call" /\ e[2] = "" /\ e[3] = "Some" -> "Option"
    [] e[1] = "path" /\ e[2] = "" /\ e[3] \in {"Ok", "Err"} -> "Result"
    [] e[1] = "path" /\ e[2] = "" /\ e[3] = "None" -> "Option"
    [] OTHER -> ""

(* `parsed_type`. *)
ParsedType(want, env) ==
  IF want # <<>> /\ want[1][1] = "Result"
  THEN Checked(IsCopy(want[1][2]), want[1][2], "V0200")
  ELSE IF want # <<>> /\ want[1][1] = "Option" /\ env.place = "Question" THEN Bad("V0206")
  ELSE TypeHole(want)

(* `derived_clone`. *)
DerivedClone(ty) ==
  \/ IsCopy(ty) \/ ty[1] \in {"Option", "Result", "Vec", "HashMap", "Error"}
  \/ ty[1] \in {"struct", "enum"} /\ (ty[2] \notin DOMAIN Members \/ "clone" \notin DOMAIN Members[ty[2]])

(* The type of what `Task::all` and `all_settled` give for tasks of result. *)
AllResult(name, result) ==
  IF result[1] = "Result" /\ name = "all" THEN Good(ResultOf(VecOf(result[2]), result[3]))
  ELSE Checked(name = "all" \/ result[1] = "Result", VecOf(result), "V0200")
-----------------------------------------------------------------------------
(* The values a `match` has to handle, as many of each type as its patterns *)
(* can tell apart, and the patterns that take them: what exhaustive.rs      *)
(* decides, as Exhaustive.tla has it.                                       *)
Samples == {-999, -129, -128, -1, 0, 1, 2, 3, 127, 128, 255, 256, 998, 1998}
RECURSIVE ValuesOf(_)
ValuesOf(ty) ==
  CASE IsInt(ty) -> {<<"n", n>> : n \in {n \in Samples : Width[ty[1]][1] <= n /\ n <= Width[ty[1]][2]}}
    [] ty = Bool -> {<<"b", b>> : b \in BOOLEAN}
    [] ty = String -> {<<"s", "that">>, <<"s", "other">>}
    [] ty[1] \in {"enum", "Option", "Result"} ->
         UNION {LET fields == VariantsOf(ty)[v]
                    tys == [i \in DOMAIN fields[2] |-> IF fields[1] = "named" THEN fields[2][i][2] ELSE fields[2][i]]
                    each == UNION {ValuesOf(tys[i]) : i \in DOMAIN tys}
                IN {<<"v", v, parts>> : parts \in {p \in [DOMAIN tys -> each] :
                                                     \A i \in DOMAIN tys : p[i] \in ValuesOf(tys[i])}}
                : v \in DOMAIN VariantsOf(ty)}
    [] OTHER -> {<<"x">>}

RECURSIVE Takes(_, _, _)
Takes(p, v, ty) ==
  CASE p[1] = "_" \/ (p[1] = "name" /\ p[2] \notin Constructors) -> TRUE
    [] p[1] = "name" /\ p[2] \in Constructors -> v[2] = p[2]
    [] p[1] = "int" -> v[2] = ValueOf(p)
    [] p[1] = "range" -> ValueOf(p[2]) <= v[2] /\ v[2] <= ValueOf(p[3])
    [] p[1] = "bool" -> v[2] = p[2]
    [] p[1] = "str" -> v[2] = "that"
    [] p[1] = "variant" ->
         v[2] = p[3] /\ \A i \in DOMAIN p[5] : Takes(p[5][i], v[3][i], VariantsOf(ty)[p[3]][2][i])
    [] p[1] = "struct" ->
         /\ v[2] = p[3]
         /\ \A i \in DOMAIN p[4] :
              LET fields == VariantsOf(ty)[p[3]][2]
                  at == CHOOSE k \in DOMAIN fields : fields[k][1] = p[4][i][1]
              IN Takes(p[4][i][2], v[3][at], fields[at][2])

Uncovered(ty, ps, n) == {v \in ValuesOf(ty) : \A i \in 1 .. n : ~Takes(ps[i], v, ty)}
Exhausts(ty, ps) ==
  /\ Uncovered(ty, ps, Len(ps)) = {}
  /\ \A n \in DOMAIN ps : \E v \in Uncovered(ty, ps, n - 1) : Takes(ps[n], v, ty)
-----------------------------------------------------------------------------
RECURSIVE Expr(_, _, _), Block(_, _, _), UnaryExpr(_, _, _, _)

(* Mutant: a place for a task reaches the parts of what stands there. *)
InSamePlace(e, want, env) == Expr(e, want, env)
In(e, want, env) == Expr(e, want, [env EXCEPT !.place = ""])
Standing(e, want, env, place) == Expr(e, want, [env EXCEPT !.place = place])
Typed(e, ty, env) == Expect(In(e, <<ty>>, env), ty)

(* `arguments` of a Varyk function, `payload` of a variant.                *)
Arguments(params, args, env) ==
  IF Len(args) # Len(params) THEN Bad("V0201")
  ELSE All([i \in DOMAIN args |-> Typed(args[i], params[i], env)])
Payload(tys, args, env) ==
  IF args = <<>> /\ tys = <<>> THEN Good(<<>>)
  ELSE IF args = <<>> \/ tys = <<>> THEN Bad("V0201") ELSE Arguments(tys, args[1], env)

(* The fields of `struct_lit` and `named_variant`: each named once.        *)
FieldValue(declared, written, i, env) ==
  LET found == FieldNamed(declared, written[i][1])
      field == declared[CHOOSE k \in found : TRUE]
  IN IF found = {} THEN Bad("V0102")
     ELSE IF \E j \in 1 .. i - 1 : written[j][1] = written[i][1] THEN Bad("V0103")
     ELSE IF Len(field) = 3 /\ ~field[3] THEN Bad("V0105")
     ELSE Typed(written[i][2], field[2], env)
FieldValues(declared, written, missing, env) ==
  LET all == \A k \in DOMAIN declared : \E i \in DOMAIN written : written[i][1] = declared[k][1]
      values == All([i \in DOMAIN written |-> FieldValue(declared, written, i, env)])
  IN IF all THEN values ELSE Reporting([values EXCEPT !.t = <<>>], <<<<missing>>>>)

NamedVariant(P, v, written, env) ==
  LET fields == Enums[P].variants[v]
  IN IF Enums[P].opaque THEN Bad("V0100")
     ELSE IF fields[1] = "tuple" THEN Bad("V0201")
     ELSE Then(FieldValues(fields[2], written, "V0201", env),
               LAMBDA ns : Good(Node("named", <<P, v, [i \in DOMAIN written |-> written[i][1]]>>, ns, <<"enum", P>>)))
StructLit(P, S, written, env) ==
  CASE P = "" /\ S \in DOMAIN Structs ->
         Then(FieldValues(Structs[S], written, "V0200", env),
              LAMBDA ns : Good(Node("lit", <<S, [i \in DOMAIN written |-> written[i][1]]>>, ns, <<"struct", S>>)))
    [] P \in DOMAIN Enums /\ S \in DOMAIN Enums[P].variants -> NamedVariant(P, S, written, env)
    [] OTHER -> Bad("V0101")

(* `builtin_variant`, args <<>> without parentheses. *)
KnownPayload(name, want) ==
  CASE want = <<>> -> <<>>
    [] name = "Some" /\ want # <<>> /\ want[1][1] = "Option" -> <<want[1][2]>>
    [] name = "Ok" /\ want # <<>> /\ want[1][1] = "Result" -> <<want[1][2]>>
    [] name = "Err" /\ want # <<>> /\ want[1][1] = "Result" -> <<want[1][3]>>
    [] OTHER -> <<>>
BuiltinVariant(name, args, want, env) ==
  LET known == KnownPayload(name, want)
      values == IF name = "None" THEN Payload(<<>>, args, env)
                ELSE IF known # <<>> THEN Payload(known, args, env)
                ELSE IF args # <<>> /\ Len(args[1]) = 1
                THEN Then(In(args[1][1], <<>>, env), LAMBDA n : Good(<<n>>))
                ELSE Bad("V0201")
      expected(head) == want # <<>> /\ want[1][1] = head
      node(ns, ty) == Node("variant", <<"", name>>, ns, ty)
  IN Then(values,
          LAMBDA ns : IF name = "Some" THEN Good(node(ns, OptionOf(ns[1].ty)))
                      ELSE IF expected(IF name = "None" THEN "Option" ELSE "Result") THEN Good(node(ns, want[1]))
                      ELSE TypeHole(want))

(* `vec_lit`. *)
VecStep(sofar, e, env) ==
  IF sofar.failed /\ sofar.element = <<>> THEN sofar
  ELSE LET value == Standing(e, sofar.element, env, "VecElement")
           r == IF sofar.element = <<>> THEN value ELSE Expect(value, sofar.element[1])
       IN [element |-> IF sofar.element = <<>> /\ ~Fails(r) THEN <<r.t[1].ty>> ELSE sofar.element,
           failed |-> sofar.failed \/ Fails(r), rs |-> Append(sofar.rs, r)]
VecLit(es, want, env) ==
  LET wanted == IF want # <<>> /\ want[1][1] = "Vec" THEN <<want[1][2]>> ELSE <<>>
      all == FoldLeft(LAMBDA s, e : VecStep(s, e, env), [element |-> wanted, failed |-> FALSE, rs |-> <<>>], es)
  IN Then(All(all.rs),
          LAMBDA ns : IF all.element = <<>> THEN TypeHole(want)
                      ELSE TasksMade(Node("vec", <<>>, ns, VecOf(all.element[1])), env))

(* `task_all`. *)
TaskAll(name, args, env) ==
  IF Len(args) # 1 THEN Bad("V0201")
  ELSE LET tasks == Standing(args[1], <<>>, env, "All")
       IN IF env.place # "Await" THEN Reporting(Silent, tasks.bad \o <<<<"V0212">>>>)
          ELSE Then(tasks,
                    LAMBDA n : IF ~IsTaskList(n.ty) THEN Bad("V0200")
                               ELSE Then(AllResult(name, n.ty[2][2]),
                                         LAMBDA ty : Good(Node("call", [f |-> <<"Task", name>>, async |-> TRUE, started |-> FALSE],
                                                               <<n>>, ty))))

(* `builtin_function`: `new` of a built-in type, and `Task`. *)
BuiltinFunction(owner, name, args, want, env) ==
  IF owner = "Task" /\ name \in {"all", "all_settled"}
  THEN IF args = <<>> THEN Bad("V0100") ELSE TaskAll(name, args[1], env)
  ELSE IF owner = "Task" \/ name # "new" \/ args = <<>> THEN Bad("V0100")
  ELSE IF owner # "Error" /\ ~(want # <<>> /\ want[1][1] = owner)
  THEN IF args[1] # <<>> THEN Bad("V0201") ELSE TypeHole(want)
  ELSE Then(Arguments(IF owner = "Error" THEN <<String>> ELSE <<>>, args[1], env),
            LAMBDA ns : Good(Node("new", owner, ns, IF owner = "Error" THEN Error ELSE want[1])))

(* A call once its function is known: `async_call`, then the arguments. *)
CallOf(k, f, sig, first, args, env) ==
  Then(AsyncCall(sig, env),
       LAMBDA started : Then(Arguments(sig.params, args, env),
         LAMBDA ns : Good(Node(k, [f |-> f, async |-> sig.async, started |-> started],
                               first \o ns, StartedTy(started, sig.ret)))))

(* `path_owner` and `type_member`. *)
BuiltinOwners == {"Vec", "HashMap", "Error", "Task"}
TypeMember(P, name, args, want, env) ==
  LET members == IF P \in DOMAIN Members THEN Members[P] ELSE <<>>
  IN IF P \in BuiltinOwners THEN BuiltinFunction(P, name, args, want, env)
     ELSE IF P \in DOMAIN Enums /\ name \in DOMAIN Enums[P].variants
     THEN LET fields == Enums[P].variants[name]
          IN IF Enums[P].opaque THEN Bad("V0100")
             ELSE IF fields[1] = "named" THEN Bad("V0201")
             ELSE Then(Payload(fields[2], args, env),
                       LAMBDA ns : Good(Node("variant", <<P, name>>, ns, <<"enum", P>>)))
     ELSE IF name \notin DOMAIN members THEN Bad("V0100")
     ELSE IF ~members[name].visible THEN Bad("V0105")
     ELSE IF members[name].self \/ args = <<>> THEN Bad("V0100")
     ELSE CallOf("call", <<P, name>>, members[name], <<>>, args[1], env)
IsOwner(P) == P \in BuiltinOwners \cup DOMAIN Structs \cup DOMAIN Enums

(* `path_value`. *)
PathValue(P, x, want, env) ==
  CASE P # "" /\ IsOwner(P) -> TypeMember(P, x, <<>>, want, env)
    [] P # "" /\ ~IsOwner(P) -> Bad("V0100")
    [] P = "" /\ x \in Constructors -> BuiltinVariant(x, <<>>, want, env)
    [] P = "" /\ x \notin Constructors -> LocalValue(x, env)

(* `assert_call`. *)
AssertCall(f, args, env) ==
  IF ~env.test THEN Bad("V0114")
  ELSE IF Len(args) # (IF f = "assert" THEN 1 ELSE 2) THEN Bad("V0201")
  ELSE Then(IF f = "assert" THEN Typed(args[1], Bool, env) ELSE In(<<"bin", "==", args[1], args[2]>>, <<>>, env),
            LAMBDA n : Good(Node("assert", f, <<n>>, Unit)))

(* `call`. *)
CallExpr(P, f, args, want, env) ==
  CASE P # "" /\ IsOwner(P) -> TypeMember(P, f, <<args>>, want, env)
    [] P = "" /\ f \in Constructors -> BuiltinVariant(f, <<args>>, want, env)
    [] P = "" /\ f \in DOMAIN env.names -> Bad("V0100")
    [] P = "" /\ f \in {"assert", "assert_eq"} \ DOMAIN env.names -> AssertCall(f, args, env)
    [] OTHER -> IF P # "" \/ f \notin DOMAIN Fns THEN Bad("V0100")
                ELSE IF Fns[f].wrapped THEN Bad("V0106")
                ELSE IF Fns[f].test THEN Bad("V0114")
                ELSE CallOf("call", <<"", f>>, Fns[f], <<>>, args, env)
-----------------------------------------------------------------------------
(* Methods (check/methods.rs) and closures (check/closures.rs).            *)

(* `closures::check`: in the closure of the `map` that is collected, the   *)
(* value stands where a task may be made.                                  *)
ClosureBody(body, want, env, mapped) ==
  IF ~mapped \/ (body[1] = "block" /\ (body[2].stmts # <<>> \/ body[2].tail = <<>>))
  THEN IF body[1] = "block" THEN Block(body[2], want, env) ELSE In(body, want, env)
  ELSE Standing(IF body[1] = "block" THEN body[2].tail[1] ELSE body, want, env, "MapValue")
Closure(e, ty, want, env) ==
  IF e[1] # "closure" THEN Bad("V0200")
  ELSE IF Len(e[2]) # 1 THEN Bad("V0201")
  ELSE LET inner == BindIn([env EXCEPT !.closure = TRUE, !.loops = 0], <<<<e[2][1], <<ty>>>>>>)
           body == ClosureBody(e[3], want, inner, env.place = "Mapped")
       IN Then(Reporting(body, BindReports(e[2][1], ty)),
               LAMBDA n : Good(Node("closure", <<e[2][1], env.depth, ty>>, <<n>>, n.ty)))

Sync(owner, m) == [f |-> <<owner, m>>, async |-> FALSE, started |-> FALSE]

(* `closure_arguments`, then the call. *)
ClosureCall(n, m, row, s, args, want, env) ==
  LET shape == row.params[1]
      wanted == CASE shape[3] = "bool" -> <<Bool>>
                  [] row.result = "OptionOfR" /\ want # <<>> /\ want[1][1] = "Option" -> <<want[1][2]>>
                  [] row.result = "ResultOfTAndR" /\ want # <<>> /\ want[1][1] = "Result" -> <<want[1][3]>>
                  [] OTHER -> <<>>
  IN IF Len(args) # 1 THEN Bad("V0201")
     ELSE Then(Closure(args[1], s[shape[2]], wanted, env),
               LAMBDA c : IF shape[3] = "bool" /\ c.ty # Bool THEN Bad(Mismatch(c.ty))
                          ELSE TasksMade(Node("method", Sync(OwnerOf(n.ty), m), <<n, c>>,
                                              ShapeTy(row.result, [s EXCEPT !.R = c.ty])), env))

(* A row without a closure. *)
RowCall(n, m, row, s, args, env) ==
  Then(Arguments([i \in DOMAIN row.params |-> ShapeTy(row.params[i][1], s)], args, env),
       LAMBDA ns : TasksMade(Node("method", Sync(OwnerOf(n.ty), m), <<n>> \o ns, ShapeTy(row.result, s)), env))
RowMethod(n, m, args, want, env) ==
  LET owner == OwnerOf(n.ty)
      row == Table[owner][m]
      s == SubstOf(n.ty)
  IN IF owner = "none" THEN Bad("V0100")
     ELSE IF m \notin DOMAIN Table[owner] THEN Bad("V0100")
     ELSE IF ~ElementFits(row.element, s.T) THEN Bad("V0200")
     ELSE IF row.result = "ResultOfExpected"
     THEN Then(ParsedType(want, env), LAMBDA ty : RowCall(n, m, row, [s EXCEPT !.Expected = ty], args, env))
     ELSE IF row.result = "ResultOfTAndE" /\ want # <<>> /\ want[1][1] = "Result"
     THEN RowCall(n, m, row, [s EXCEPT !.E = want[1][3]], args, env)
     ELSE IF row.result = "ResultOfTAndE" /\ Len(args) = 1
     THEN Then(In(args[1], <<>>, env),
               LAMBDA a : Good(Node("method", Sync(owner, m), <<n, a>>, ResultOf(s.T, a.ty))))
     ELSE IF \E i \in DOMAIN row.params : IsClosure(row.params[i])
     THEN ClosureCall(n, m, row, s, args, want, env)
     ELSE RowCall(n, m, row, s, args, env)

(* `method_on`. *)
MethodOn(n, m, args, want, env) ==
  IF m = "clone" /\ DerivedClone(n.ty)
  THEN IF IsCopy(n.ty) THEN Bad("V0100")
       ELSE IF ~Derived(n.ty) THEN Bad("V0203")
       ELSE Then(Arguments(<<>>, args, env), LAMBDA ns : Good(Node("method", Sync("any", "clone"), <<n>>, n.ty)))
  ELSE IF n.ty[1] \in {"struct", "enum"}
  THEN LET members == IF n.ty[2] \in DOMAIN Members THEN Members[n.ty[2]] ELSE <<>>
       IN IF m \notin DOMAIN members THEN Bad("V0100")
          ELSE IF ~members[m].visible THEN Bad("V0105")
          ELSE IF ~members[m].self THEN Bad("V0100")
          ELSE CallOf("method", <<n.ty[2], m>>, members[m], <<n>>, args, env)
  ELSE RowMethod(n, m, args, want, env)

(* `method_call`. *)
MethodCall(recv, m, args, want, env) ==
  LET place == CASE m = "detach" /\ args = <<>> -> "Detach"
                 [] m = "collect" /\ args = <<>> /\ recv[1] = "method" /\ recv[3] = "map" -> "Mapped"
                 [] OTHER -> ""
  IN Then(Standing(recv, <<>>, env, place), LAMBDA n : MethodOn(n, m, args, want, env))

(* `index`. *)
IndexExpr(base, i, env) ==
  LET vec == Then(In(base, <<>>, env), LAMBDA n : Checked(n.ty[1] = "Vec", n, "V0200"))
  IN Then(All(<<vec, Typed(i, <<"usize">>, env)>>),
          LAMBDA ns : Good(Node("index", <<>>, ns, ns[1].ty[2])))

(* `try_`. *)
TryExpr(e, want, env) ==
  LET ret == env.ret
      family == ConstructorFamily(e)
      misplaced == family # "" /\ family # ret[1]
      wanted == TryWanted(ret, want)
      alone == wanted = <<>> /\ ret[1] = "Result" /\ e[1] = "call" /\ e[3] = "Ok" /\ family # "" /\ Len(e[4]) = 1
  IN LeavesClosure(env,
       IF misplaced THEN Bad("V0206")
       ELSE IF alone
       THEN Then(In(e[4][1], <<>>, env),
                 LAMBDA a : TryOf(Node("variant", <<"", "Ok">>, <<a>>, ResultOf(a.ty, ret[3])), ret))
       ELSE Then(Standing(e, wanted, env, IF ret[1] = "Option" THEN "Question" ELSE ""), LAMBDA n : TryOf(n, ret)))

(* `await_expr`. *)
AwaitExpr(e, want, env) ==
  IF env.closure THEN Bad("V0211")
  ELSE Then(Standing(e, want, env, "Await"),
            LAMBDA n : IF ~env.async THEN Bad("V0211")
                       ELSE IF n.k \in {"call", "method"} /\ n.d.async
                       THEN Good(Node("await", "call", <<n>>, n.ty))
                       ELSE IF n.k = "local" /\ n.ty[1] = "Task"
                       THEN Good(Node("await", "task", <<n>>, n.ty[2]))
                       ELSE Bad("V0212"))
-----------------------------------------------------------------------------
(* Operators, branches and patterns.                                       *)

(* The operand, or end, that is not a literal first; it types the other.   *)
Operands(l, r, want, env) ==
  LET leftFirst == ~IsLiteral(l) \/ IsLiteral(r)
  IN Then(In(IF leftFirst THEN l ELSE r, want, env),
          LAMBDA f : Then(In(IF leftFirst THEN r ELSE l, <<f.ty>>, env),
            LAMBDA s : Checked(s.ty = f.ty, IF leftFirst THEN <<f, s>> ELSE <<s, f>>, "V0200")))

(* `binary`. *)
BinaryExpr(op, l, r, want, env) ==
  IF op \in {"&&", "||"}
  THEN Then(All(<<Typed(l, Bool, env), Typed(r, Bool, env)>>), LAMBDA ns : Good(Node("bin", op, ns, Bool)))
  ELSE Then(Operands(l, r, IF op \in Arithmetic THEN want ELSE <<>>, env),
            LAMBDA ns : BinaryOf(op, ns[1], ns[2]))

(* `unary`; allowMin lets a literal right under this `-` reach the least. *)
UnaryExpr(op, want, env, allowMin) ==
  LET e == op[3]
      operand == IF op[2] = "!" THEN Typed(e, Bool, env)
                 ELSE IF e[1] = "int" THEN Integer(e[2], want, allowMin)
                 ELSE IF e[1] = "un" /\ e[2] = "-" THEN UnaryExpr(e, want, env, FALSE)
                 ELSE In(e, want, env)
  IN Then(operand,
          LAMBDA n : Checked(op[2] = "-" => IsSigned(n.ty), Node("un", op[2], <<n>>, n.ty), "V0200"))

(* `cast`. *)
CastExpr(e, T, env) ==
  LET operand == In(e, <<>>, env)
  IN IF T = <<"Nope">> THEN Reporting([operand EXCEPT !.t = <<>>], <<<<"V0101">>>>)
     ELSE Then(operand, LAMBDA n : Checked(IsNumber(n.ty) /\ IsNumber(T), Node("cast", T, <<n>>, T), "V0200"))

(* The intrinsics; holes is how many `{}` the text has, -1 for a bad text. *)
PrintExpr(name, holes, args, env) ==
  LET argument(e) == Then(In(e, <<>>, env), LAMBDA n : IF PrintReport(n.ty) = "" THEN Good(n) ELSE Bad(PrintReport(n.ty)))
      values == All([i \in DOMAIN args |-> argument(args[i])])
      all == IF holes = Len(args) THEN values ELSE Reporting([values EXCEPT !.t = <<>>], <<<<"V0202">>>>)
  IN IF holes = -1 THEN Bad("V0202")
     ELSE Then(all, LAMBDA ns : Good(Node("print", name, ns, IF name = "format" THEN String ELSE Unit)))

(* `branches`: ThenBlock gives the first block for the type it should have. *)
Branches(ThenBlock(_), other, want, env) ==
  IF other = <<>>
  THEN Then(ThenBlock(<<Unit>>), LAMBDA n : Checked(n.ty = Unit, [blocks |-> <<n>>, ty |-> Unit], "V0200"))
  ELSE LET then == ThenBlock(want)
           says == ~Fails(then) /\ ~Diverges(then.t[1]) /\ want = <<>>
           else == Block(other[1], IF says THEN <<then.t[1].ty>> ELSE want, env)
           typed(a, b) == Checked(Diverges(a) \/ Diverges(b) \/ a.ty = b.ty,
                                  [blocks |-> <<a, b>>, ty |-> IF Diverges(a) THEN b.ty ELSE a.ty], "V0200")
       IN Then(All(<<then, else>>), LAMBDA ns : typed(ns[1], ns[2]))

IfExpr(c, then, other, want, env) ==
  LET branches == Branches(LAMBDA w : Block(then, w, env), other, want, env)
  IN Then(All(<<Typed(c, Bool, env), branches>>),
          LAMBDA ps : Good(Node("if", <<>>, <<ps[1]>> \o ps[2].blocks, ps[2].ty)))

(* `let_head`, and the pattern of it, its names bound as failed when the   *)
(* head failed.                                                            *)
LetHead(e, env) == Then(Then(In(e, <<>>, env), CheckHead), CheckMatchable)
LetPattern(p, head) ==
  IF Fails(head) THEN Pat(Silent, Poisoned(p), {}) ELSE LowerPattern(p, head.t[1].ty)
Alone(r) == [t |-> r.t, bad |-> r.bad]

(* `if_let`. *)
IfLetExpr(p, e, then, other, want, env) ==
  LET head == LetHead(e, env)
      pattern == LetPattern(p, head)
      inner == BindIn(env, pattern.binds)
      branches == Branches(LAMBDA w : Block(then, w, inner), other, want, env)
  IN Then(All(<<head, Alone(pattern), branches>>),
          LAMBDA ps : Good(Node("iflet", p, <<ps[1]>> \o ps[3].blocks, ps[3].ty)))

(* `match_expr`: one arm, then all of them. *)
ArmStep(sofar, arm, ty, want, env) ==
  LET pattern == LowerPattern(arm[1], ty)
      body == In(arm[2], IF want # <<>> THEN want ELSE sofar.value, BindIn(env, pattern.binds))
      both == All(<<Alone(pattern), body>>)
      says == ~Fails(both) /\ ~Diverges(body.t[1])
      r == IF says /\ sofar.value # <<>> /\ sofar.value # <<body.t[1].ty>>
           THEN Reporting([both EXCEPT !.t = <<>>], <<<<"V0200">>>>) ELSE both
  IN [value |-> IF says /\ sofar.value = <<>> THEN <<body.t[1].ty>> ELSE sofar.value,
      rs |-> Append(sofar.rs, r)]
MatchExpr(e, arms, want, env) ==
  LET head == LetHead(e, env)
      of(n) == FoldLeft(LAMBDA s, arm : ArmStep(s, arm, n.ty, want, env), [value |-> <<>>, rs |-> <<>>], arms)
      patterns == [i \in DOMAIN arms |-> arms[i][1]]
      typed(n, value, bodies) ==
        Node("match", patterns, <<n>> \o bodies, IF value # <<>> THEN value[1] ELSE bodies[1].ty)
  IN Then(head,
          LAMBDA n : LET all == of(n)
                     IN Then(All(all.rs),
                             LAMBDA ps : Checked(Exhausts(n.ty, patterns),
                                                 typed(n, all.value, [i \in DOMAIN ps |-> ps[i][2]]), "V0205")))

(* `expr_of_any_package`. *)
Expr(e, want, env) ==
  CASE e[1] = "int" -> Integer(e[2], want, FALSE)
    [] e[1] = "float" -> Good(Node("float", <<>>, <<>>, Float))
    [] e[1] = "bool" -> Good(Node("bool", <<>>, <<>>, Bool))
    [] e[1] = "str" -> Good(Node("str", <<>>, <<>>, String))
    [] e[1] = "path" -> PathValue(e[2], e[3], want, env)
    [] e[1] = "un" -> UnaryExpr(e, want, env, TRUE)
    [] e[1] = "bin" -> BinaryExpr(e[2], e[3], e[4], want, env)
    [] e[1] = "call" -> CallExpr(e[2], e[3], e[4], want, env)
    [] e[1] = "field" -> Then(In(e[2], <<>>, env), LAMBDA n : FieldOf(n, e[3]))
    [] e[1] = "lit" -> StructLit(e[2], e[3], e[4], env)
    [] e[1] = "block" -> Block(e[2], want, env)
    [] e[1] = "if" -> IfExpr(e[2], e[3], e[4], want, env)
    [] e[1] = "iflet" -> IfLetExpr(e[2], e[3], e[4], e[5], want, env)
    [] e[1] = "match" -> MatchExpr(e[2], e[3], want, env)
    [] e[1] = "vec" -> VecLit(e[2], want, env)
    [] e[1] = "index" -> IndexExpr(e[2], e[3], env)
    [] e[1] = "method" -> MethodCall(e[2], e[3], e[4], want, env)
    [] e[1] = "try" -> TryExpr(e[2], want, env)
    [] e[1] = "await" -> AwaitExpr(e[2], want, env)
    [] e[1] = "cast" -> CastExpr(e[2], e[3], env)
    [] e[1] = "print" -> PrintExpr(e[2], e[3], e[4], env)
    [] e[1] = "closure" -> Bad("V0001")
-----------------------------------------------------------------------------
(* Statements and blocks.                                                  *)

(* `let`: what is bound, <<>> when the value failed.                       *)
LetStmt(x, T, e, env) ==
  LET value == IF x = "_" THEN In(e, T, env) ELSE Standing(e, T, env, "Let")
      r == IF T = <<>> THEN value ELSE Expect(value, T[1])
  IN IF T = <<<<"Nope">>>> THEN Bad("V0101")
     ELSE Then(r, LAMBDA n : Reporting(Good(Node("let", <<x, env.depth>>, <<n>>, Unit)), BindReports(x, n.ty)))
(* Mutant: a `let` whose value fails binds nothing. *)
LetBindsGood(x, r) == IF Fails(r) THEN <<>> ELSE <<<<x, <<r.t[1].parts[1].ty>>>>>>
LetBinds(x, r) == <<<<x, IF Fails(r) THEN <<>> ELSE <<r.t[1].parts[1].ty>>>>>>

AssignStmt(target, e, env) ==
  Then(Then(In(target, <<>>, env), LAMBDA n : Checked(IsPlace(n), n, "V0002")),
       LAMBDA n : Then(Typed(e, n.ty, env), LAMBDA v : Good(Node("assign", <<>>, <<n, v>>, Unit))))

ReturnStmt(e, env) ==
  LeavesClosure(env,
    IF e = <<>> THEN Checked(env.ret = Unit, Node("return", <<>>, <<>>, Unit), "V0200")
    ELSE Then(Typed(e[1], env.ret, env), LAMBDA n : Good(Node("return", <<>>, <<n>>, Unit))))

(* A loop: the parts of its head, then its body, checked whatever they     *)
(* gave; once all are good, the body is of type `()`.                      *)
LoopStmt(heads, b, env, LoopOf(_)) ==
  LET body == Block(b, <<Unit>>, [env EXCEPT !.loops = @ + 1])
  IN Then(All(Append(heads, body)),
          LAMBDA ps : Checked(body.t[1].ty = Unit, LoopOf(ps), Mismatch(body.t[1].ty)))

WhileStmt(c, b, env) ==
  LoopStmt(<<Typed(c, Bool, env)>>, b, env, LAMBDA ps : Node("while", <<>>, ps, Unit))

WhileLetStmt(p, e, b, env) ==
  LET head == LetHead(e, env)
      pattern == LetPattern(p, head)
  IN LoopStmt(<<head, Alone(pattern)>>, b, BindIn(env, pattern.binds),
              LAMBDA ps : Node("whilelet", p, <<ps[1], ps[3]>>, Unit))

(* `for_head` and `range`: the parts of the head and its item. *)
ForHead(head, env) ==
  IF head[1] = "range"
  THEN Then(Operands(head[2], head[3], <<>>, env),
            LAMBDA ns : Checked(IsInt(ns[1].ty), [parts |-> ns, item |-> ns[1].ty], "V0200"))
  ELSE Then(In(head[2], <<>>, env),
            LAMBDA n : IF n.ty[1] = "HashMap" THEN Bad("V0001")
                       ELSE IF n.ty[1] = "chain" THEN Good([parts |-> <<n>>, item |-> n.ty[2]])
                       ELSE Then(CheckHead(n),
                                 LAMBDA c : Checked(c.ty[1] = "Vec", [parts |-> <<c>>, item |-> c.ty[2]], "V0200")))
ForStmt(x, head, b, env) ==
  LET over == ForHead(head, env)
      local == IF Fails(over) THEN <<>> ELSE <<over.t[1].item>>
      bound == [t |-> local, bad |-> IF Fails(over) THEN <<>> ELSE BindReports(x, local[1])]
  IN LoopStmt(<<over, bound>>, b, BindIn(env, <<<<x, local>>>>),
              LAMBDA ps : Node("for", <<x, env.depth>>, Append(ps[1].parts, ps[3]), Unit))

Stmt(s, env) ==
  CASE s[1] = "let" -> LetStmt(s[2], s[3], s[4], env)
    [] s[1] = "assign" -> AssignStmt(s[2], s[3], env)
    [] s[1] = "do" -> Then(IF s[3] THEN In(s[2], <<>>, env) ELSE Expect(In(s[2], <<>>, env), Unit),
                           LAMBDA n : Good(Node("do", s[3], <<n>>, Unit)))
    [] s[1] = "return" -> ReturnStmt(s[2], env)
    [] s[1] = "while" -> WhileStmt(s[2], s[3], env)
    [] s[1] = "whilelet" -> WhileLetStmt(s[2], s[3], s[4], env)
    [] s[1] = "for" -> ForStmt(s[2], s[3], s[4], env)
    [] s[1] \in {"break", "continue"} ->
         IF env.loops > 0 THEN Good(Node(s[1], <<>>, <<>>, Unit)) ELSE Bad(IF env.closure THEN "V0001" ELSE "V0002")

(* `block`: every statement is checked, whatever the ones before it gave.  *)
(* Mutant: the name of a `let` is in scope in its own value. *)
StmtStepEarly(sofar, s) ==
  LET r == Stmt(s, IF s[1] = "let" THEN BindIn(sofar.env, <<<<s[2], <<>>>>>>) ELSE sofar.env)
  IN [env |-> IF s[1] = "let" THEN BindIn(sofar.env, LetBinds(s[2], r)) ELSE sofar.env,
      rs |-> Append(sofar.rs, r)]
StmtStep(sofar, s) ==
  Given(sofar, LAMBDA before :
    LET r == Stmt(s, before.env)
    IN [env |-> IF s[1] = "let" THEN BindIn(before.env, LetBinds(s[2], r)) ELSE before.env,
        rs |-> Append(before.rs, r)])
Block(b, want, env) ==
  LET all == FoldLeft(StmtStep, [env |-> env, rs |-> <<>>], b.stmts)
      tail == IF b.tail = <<>> THEN Good(<<>>) ELSE Then(In(b.tail[1], want, all.env), LAMBDA n : Good(<<n>>))
      ty(stmts, value) == IF value # <<>> THEN value[1].ty
                          ELSE IF want # <<>> /\ \E i \in DOMAIN stmts : Diverges(stmts[i]) THEN want[1] ELSE Unit
  IN Then(All(<<All(all.rs), tail>>),
          LAMBDA ps : Good(Node("block", b.tail # <<>>, ps[1] \o ps[2], ty(ps[1], ps[2]))))
-----------------------------------------------------------------------------
(* What is left to say of a typed body: `unfinished_chains`, next when the *)
(* expression is the receiver of a call of a chain or a `for` head; and    *)
(* `unused_tasks`, for each local that holds one and is never mentioned.   *)
RECURSIVE Unfinished(_, _), Mentions(_, _), UnusedTasks(_)
Unfinished(n, next) ==
  LET goesOn(i) == \/ n.k = "method" /\ n.d.f[1] = "chain" /\ i = 1
                   \/ n.k = "for" /\ Len(n.parts) = 2 /\ i = 1
  IN IF n.ty[1] = "chain" /\ ~(next /\ n.k = "method") /\ n.k # "closure" THEN <<<<"V0208">>>>
     ELSE FlattenSeq([i \in DOMAIN n.parts |-> Unfinished(n.parts[i], goesOn(i))])
Mentions(n, local) ==
  (n.k = "local" /\ n.d = local) \/ \E i \in DOMAIN n.parts : Mentions(n.parts[i], local)
UnusedTasks(n) ==
  LET forgotten(i) == /\ n.k = "block" /\ n.parts[i].k = "let" /\ IsTasks(n.parts[i].parts[1].ty)
                      /\ \A j \in i + 1 .. Len(n.parts) : ~Mentions(n.parts[j], n.parts[i].d)
  IN FlattenSeq([i \in DOMAIN n.parts |->
       (IF n.k = "block" /\ n.parts[i].k = "let" /\ forgotten(i) THEN <<<<"V0213">>>> ELSE <<>>)
       \o UnusedTasks(n.parts[i])])

(* `function`: it is accepted when nothing was reported. *)
Function(fn) ==
  LET body == Block(fn.body, <<fn.ret>>, BindIn(Surroundings(fn), fn.params))
      later == Unfinished(body.t[1], FALSE) \o UnusedTasks(body.t[1])
  IN IF Fails(body) THEN body
     ELSE IF later # <<>> THEN Reporting(Silent, body.bad \o later)
     ELSE Then(body, LAMBDA n : Checked(n.ty = fn.ret, n, Mismatch(n.ty)))
=============================================================================
