---------------------------- MODULE MCTypeCheck ----------------------------
(***************************************************************************)
(* Functions for the type checker, one after another: each theme crosses a *)
(* few expressions with the places that hand a wanted type down to them.   *)
(***************************************************************************)
EXTENDS TypedBodies

I32 == <<"i32">>
I8 == <<"i8">>
U8 == <<"u8">>
Usize == <<"usize">>
Shop == <<"struct", "Shop">>
Sign == <<"enum", "Sign">>
Fallible == ResultOf(I32, Error)

TheStructs == [Shop |-> <<<<"size", I8, TRUE>>, <<"name", String, TRUE>>, <<"till", I32, FALSE>>>>,
               Open |-> <<<<"of", <<"struct", "Handle">>, TRUE>>>>, Handle |-> <<>>]
TheEnums == [Sign |-> [opaque |-> FALSE,
                       variants |-> [Off |-> <<"tuple", <<>>>>, On |-> <<"tuple", <<U8>>>>,
                                     At |-> <<"named", <<<<"x", Bool>>>>>>]],
             Lock |-> [opaque |-> TRUE, variants |-> [Shut |-> <<"tuple", <<>>>>]]]
Sig(params, ret, async) == [params |-> params, ret |-> ret, async |-> async, test |-> FALSE, wrapped |-> FALSE]
TheFns == [half |-> Sig(<<I32>>, I32, FALSE), tell |-> Sig(<<>>, Unit, FALSE),
           fetch |-> Sig(<<I32>>, Fallible, TRUE), wait |-> Sig(<<>>, I32, TRUE),
           proof |-> [Sig(<<>>, Unit, FALSE) EXCEPT !.test = TRUE],
           raw |-> [Sig(<<>>, Unit, FALSE) EXCEPT !.wrapped = TRUE]]
Member(self, params, ret, async, visible) ==
  [self |-> self, params |-> params, ret |-> ret, async |-> async, visible |-> visible]
TheMembers == [Shop |-> [open |-> Member(FALSE, <<I8>>, OptionOf(Shop), FALSE, TRUE),
                         size |-> Member(TRUE, <<>>, I8, FALSE, TRUE),
                         sell |-> Member(TRUE, <<I32>>, Fallible, TRUE, TRUE),
                         audit |-> Member(TRUE, <<>>, Unit, FALSE, FALSE)]]
TheUnderived == {"Handle"}

Params == <<<<"a", <<I32>>>>, <<"u", <<U8>>>>, <<"b", <<Bool>>>>, <<"s", <<String>>>>,
            <<"o", <<OptionOf(I32)>>>>, <<"r", <<Fallible>>>>, <<"v", <<VecOf(I32)>>>>,
            <<"shop", <<Shop>>>>, <<"sign", <<Sign>>>>, <<"m", <<<<"HashMap", String, I32>>>>>>,
            <<"h", <<<<"struct", "Handle">>>>>>>>
Fn(ret, async, body) == [ret |-> ret, async |-> async, test |-> FALSE, params |-> Params, body |-> body]

N(x) == <<"path", "", x>>
I(n) == <<"int", n>>
F == <<"float">>
B(b) == <<"bool">>
S == <<"str">>
Neg(e) == <<"un", "-", e>>
Bin(op, l, r) == <<"bin", op, l, r>>
Call(f, args) == <<"call", "", f, args>>
Of(P, f, args) == <<"call", P, f, args>>
Some(e) == Call("Some", <<e>>)
Ok(e) == Call("Ok", <<e>>)
Err(e) == Call("Err", <<e>>)
Method(e, m, args) == <<"method", e, m, args>>
Body(stmts, tail) == [stmts |-> stmts, tail |-> tail]
Val(e) == Body(<<>>, <<e>>)
LetIn(x, T, e) == <<"let", x, T, e>>
Run(e) == <<"do", e, TRUE>>
Either(c, e, f) == <<"if", c, Val(e), <<Val(f)>>>>
QuitWith(e) == <<"return", <<e>>>>
Quit == <<"return", <<>>>>

(* Values of each type, some wrong, some that only the context types. *)
Leaves == {I(1), I(128), I(200), I(1998), F, B(0), S, N("a"), N("u"), N("o"), N("nope"), N("None"),
           N("v"), N("sign"), N("shop"), N("m"), <<"path", "Sign", "Off">>, N("h")}
Numbers == {I(1), I(128), I(129), Neg(I(128)), F, N("a"), N("u"), N("nope")}
Wanted == {<<>>, <<I32>>, <<I8>>, <<OptionOf(I32)>>}

Operated ==
  {Bin(op, l, r) : op \in {"+", "<", "==", "&&"}, l \in Leaves, r \in Leaves}
  \cup {Bin("-", l, Bin("*", r, m)) : l \in Numbers, r \in Numbers, m \in Numbers}
  \cup {<<"un", op, e>> : op \in {"-", "!"}, e \in Leaves}
  \cup {Neg(Neg(e)) : e \in Numbers}
  \cup {<<"cast", e, T>> : e \in Leaves, T \in {U8, Float, Bool, <<"Nope">>}}

(* The places of an expression: a `let`, with its type or without, before  *)
(* a use of the name; the value of a function; an argument; a statement.   *)
Declared(T, e, used) ==
  Fn(Unit, FALSE, Body(<<LetIn("x", T, e)>> \o IF used THEN <<LetIn("y", <<I32>>, Bin("+", N("x"), N("a")))>> ELSE <<>>, <<>>))
Returned(ret, e) == Fn(ret, FALSE, Val(e))
Stated(e, semi) == Fn(Unit, FALSE, Body(<<<<"do", e, semi>>>> \o IF semi THEN <<>> ELSE <<Run(Call("half", <<e>>))>>, <<>>))
Placed(f, es) ==
  \/ \E T \in Wanted, e \in es, used \in BOOLEAN : f = Declared(T, e, used)
  \/ \E ret \in {I32, OptionOf(I32), Unit}, e \in es : f = Returned(ret, e)
  \/ \E e \in es, semi \in BOOLEAN : f = Stated(e, semi)

(* Branches: what one says of the type, and what the others must be.       *)
Arms == {Val(I(1)), Val(I(200)), Val(N("u")), Val(S), Val(N("None")), Val(Some(I(1))), Val(N("o")),
         Body(<<>>, <<>>), Body(<<Quit>>, <<>>), Body(<<QuitWith(N("a"))>>, <<>>), Body(<<Run(I(1))>>, <<>>),
         Body(<<LetIn("x", <<>>, I(7))>>, <<N("x")>>), Body(<<LetIn("a", <<>>, N("u"))>>, <<N("a")>>),
         Body(<<Run(<<"if", N("b"), Body(<<Quit>>, <<>>), <<Body(<<Quit>>, <<>>)>>>>)>>, <<>>)}
Branched ==
  {<<"if", c, then, <<else>>>> : c \in {N("b"), N("a")}, then \in Arms, else \in Arms}
  \cup {<<"if", N("b"), then, <<>>>> : then \in Arms}
  \cup {<<"iflet", p, e, then, <<else>>>> :
          p \in {<<"name", "None">>, <<"variant", "", "Some", TRUE, <<<<"name", "x">>>>>>},
          e \in {N("o"), N("v")}, then \in Arms \cup {Val(N("x"))}, else \in Arms}
  \cup {<<"match", N("o"), <<<<<<"variant", "", "Some", TRUE, <<<<"name", "x">>>>>>, <<"block", then>>>>,
                            <<<<"name", "None">>, <<"block", else>>>>>>>> :
          then \in Arms \cup {Val(N("x"))}, else \in Arms}

(* Patterns: of each kind, for values of each type.                        *)
Atoms == {<<"_">>, <<"name", "x">>, <<"name", "Off">>, <<"name", "None">>, <<"int", 1, FALSE>>, <<"int", 0, TRUE>>,
          <<"int", 128, TRUE>>, <<"int", 300, FALSE>>, <<"str">>, <<"float">>, <<"bool", TRUE>>,
          <<"range", <<"int", 0, FALSE>>, <<"int", 255, FALSE>>>>,
          <<"range", <<"int", 3, FALSE>>, <<"int", 1, FALSE>>>>}
Variant(P, v, ps) == <<"variant", P, v, TRUE, ps>>
Patterns ==
  Atoms
  \cup {Variant(P, v, <<p>>) : P \in {"", "Sign", "Nope"}, v \in {"Some", "Ok", "On", "Off"}, p \in Atoms}
  \cup {<<"variant", "Sign", v, FALSE, <<>>>> : v \in {"Off", "On"}}
  \cup {<<"struct", P, "At", <<<<f, p>>>>>> : P \in {"", "Sign"}, f \in {"x", "z"}, p \in Atoms}
  \cup {<<"variant", "Lock", "Shut", FALSE, <<>>>>, <<"struct", "", "Shop", <<>>>>, <<"struct", "Sign", "At", <<>>>>}
PatternsMatched(f) ==
  \/ \E e \in {N("a"), N("u"), N("b"), N("s"), N("o"), N("r"), N("sign"), N("v"), <<"field", N("shop"), "name">>},
        p \in Patterns, arm \in {N("x"), I(1)}, last \in BOOLEAN :
       f = Fn(Unit, FALSE, Body(<<LetIn("y", <<>>, <<"match", e, <<<<p, arm>>>> \o IF last THEN <<<<<<"_">>, arm>>>> ELSE <<>>>>)>>, <<>>))
  \/ \E p \in Atoms, r \in Atoms,
        q \in Atoms \cup {Variant("Sign", "On", <<<<"_">>>>), <<"variant", "Sign", "Off", FALSE, <<>>>>} :
       f = Fn(I32, FALSE, Val(<<"match", N("sign"),
                 <<<<Variant("Sign", "On", <<p>>), I(1)>>, <<q, I(2)>>, <<<<"struct", "Sign", "At", <<<<"x", r>>>>>>, I(3)>>>>>>))

(* Constructors, and `?` in functions that give an Option, a Result, none. *)
Inside == {N("o"), N("r"), N("a"), I(1), I(128), N("None"), N("nope"), Some(I(1)), Ok(I(1)), Err(S), Ok(N("r")),
           Err(Of("Error", "new", <<S>>)), Some(N("None")), Ok(N("None")), Some(N("o")), Call("None", <<>>),
           N("Some"), Ok(Err(I(1))), Method(S, "parse", <<>>), Some(Method(S, "parse", <<>>)), N("s"),
           Some(Ok(I(1))), Of("Vec", "new", <<>>), Some(Of("Vec", "new", <<>>))}
Built == Inside \cup UNION {{<<"try", e>>, Some(e), Ok(e), Err(e), Ok(<<"try", e>>), Some(<<"try", e>>)} : e \in Inside}
Tried(f) ==
  \/ \E ret \in {Fallible, ResultOf(I32, String), OptionOf(I32), Unit}, T \in Wanted \cup {<<U8>>}, e \in Inside :
       f = Fn(ret, FALSE, Body(<<LetIn("x", T, <<"try", e>>)>>, <<Ok(N("x"))>>))
  \/ \E ret \in {Fallible, OptionOf(I32), OptionOf(OptionOf(I32)), I32, OptionOf(Fallible)}, e \in Built :
       f = Returned(ret, e)
  \/ \E T \in Wanted \cup {<<Fallible>>, <<VecOf(I32)>>, <<OptionOf(VecOf(I32))>>}, e \in Inside :
       f = Fn(Fallible, FALSE, Body(<<LetIn("x", T, e), QuitWith(N("x"))>>, <<>>))

(* Methods, with closures and chains; fields, elements and literals.       *)
Lambda(e) == <<"closure", <<"x">>, e>>
Bodies == {N("x"), Bin("<", N("x"), I(3)), Bin("==", N("x"), N("s")), I(1), Some(N("x")), N("nope"), Err(N("x")),
           <<"block", Body(<<Quit>>, <<>>)>>, <<"try", N("o")>>, <<"block", Body(<<<<"break">>>>, <<>>)>>,
           <<"block", Body(<<LetIn("z", <<>>, N("x"))>>, <<N("z")>>)>>, <<"field", N("x"), "name">>}
Receivers == {N("v"), N("s"), N("o"), N("r"), N("m"), N("a"), N("shop"), N("sign"), Method(N("v"), "iter", <<>>),
              Method(N("m"), "keys", <<>>), Method(N("s"), "split", <<S>>), Of("Error", "new", <<S>>), N("None"), N("h")}
Plainly == {<<>>, <<I(1)>>, <<S>>, <<I(1), I(2)>>, <<S, I(2)>>, <<S, S>>}
Chains == UNION {{Method(Method(N("v"), "iter", <<>>), m, <<Lambda(e)>>),
                  Method(Method(Method(N("v"), "iter", <<>>), m, <<Lambda(e)>>), "collect", <<>>),
                  Method(Method(Method(N("v"), "iter", <<>>), "filter", <<Lambda(e)>>), m, <<Lambda(Bin("<", N("x"), I(1)))>>)}
                 : m \in {"map", "filter", "find", "any"}, e \in Bodies}
Calls ==
  {Method(e, m, args) : e \in Receivers, args \in Plainly,
     m \in {"len", "push", "get", "contains", "sort", "join", "insert", "sum", "clone", "size", "audit", "unwrap_or", "ok_or",
            "parse", "ok", "is_ok", "count", "collect", "message", "pop", "nope"}}
  \cup {Method(e, m, <<Lambda(x)>>) : e \in Receivers, m \in {"map", "map_err", "any", "len"}, x \in Bodies}
  \cup Chains \cup {Method(e, "sum", <<>>) : e \in Chains} \cup {Method(N("v"), "map", <<N("x")>>)}

Vec3 == {<<"vec", es>> : es \in {<<>>} \cup ({I(1), I(300), S, N("u"), N("None"), N("o"), N("nope")} \X {I(2), N("u"), N("o")})}
Held ==
  {<<"field", e, f>> : e \in Receivers \cup {<<"path", "Shop", "open">>}, f \in {"size", "name", "till", "nope"}}
  \cup {<<"index", e, i>> : e \in Receivers \cup Vec3, i \in {I(0), N("a"), N("u"), Method(N("v"), "len", <<>>), N("nope")}}
  \cup Vec3
  \cup {<<"lit", P, T, fields>> : P \in {"", "Sign", "Nope"}, T \in {"Shop", "Sign", "At", "On"},
          fields \in {<<>>, <<<<"x", N("b")>>>>, <<<<"x", N("b")>>, <<"x", N("b")>>>>, <<<<"size", I(1)>>, <<"name", S>>>>,
                      <<<<"size", I(1)>>, <<"name", S>>, <<"till", I(1)>>>>}}
  \cup {Of(P, f, args) : P \in {"Shop", "Sign", "Lock", "Vec", "HashMap", "Error", "Nope"}, args \in Plainly,
          f \in {"open", "size", "audit", "On", "Off", "At", "Shut", "new"}}
  \cup {<<"path", P, f>> : P \in {"Sign", "Shop", "Lock", "Vec"}, f \in {"On", "Off", "At", "open", "Shut", "new"}}
  \cup {Call(f, args) : f \in {"half", "tell", "proof", "raw", "nope", "a", "assert", "assert_eq", "wait"}, args \in Plainly}
  \cup {<<"print", name, holes, args>> : name \in {"println", "format"}, holes \in {-1, 0, 1},
          args \in {<<>>, <<N("a")>>, <<N("o")>>, <<S>>, <<Call("tell", <<>>)>>, <<I(1998)>>, <<N("nope")>>}}

(* Statements in a row: loops, assignments, names that failed, shadowing.  *)
Over == {<<"range", I(0), N("a")>>, <<"range", N("u"), I(300)>>, <<"range", N("u"), I(3)>>, <<"range", F, F>>,
         <<"range", I(0), Method(N("v"), "len", <<>>)>>, <<"over", N("v")>>, <<"over", N("m")>>, <<"over", N("nope")>>,
         <<"over", Method(N("v"), "iter", <<>>)>>, <<"over", <<"vec", <<I(1)>>>>>>, <<"over", N("a")>>,
         <<"over", Method(N("s"), "split", <<S>>)>>, <<"over", <<"if", N("b"), Val(N("v")), <<Val(N("v"))>>>>>>}
Simple(x) ==
  {LetIn(x, <<>>, N("nope")), LetIn(x, <<>>, I(1)), LetIn(x, <<U8>>, N("x")), LetIn(x, <<<<"Nope">>>>, I(1)), LetIn(x, <<>>, S),
   LetIn("Off", <<>>, N("sign")), LetIn("_", <<>>, N("x")), Run(N("_")), LetIn(x, <<>>, Method(N("v"), "iter", <<>>)),
   <<"assign", N("x"), I(200)>>, <<"assign", N("x"), N("y")>>, <<"assign", <<"field", N("shop"), "size">>, N("x")>>,
   <<"assign", <<"index", N("v"), I(0)>>, N("x")>>, <<"assign", Call("half", <<I(1)>>), I(1)>>,
   <<"assign", <<"field", N("shop"), "till">>, I(1)>>, Run(N("x")), Run(Bin("+", N("x"), N("y"))), <<"break">>, <<"continue">>,
   Quit, <<"do", N("x"), FALSE>>, <<"do", <<"if", N("x"), Body(<<>>, <<>>), <<>>>>, FALSE>>}
Rounded(body) ==
  {<<"for", x, head, body>> : x \in {"x", "_", "Off"}, head \in Over}
  \cup {<<"while", c, body>> : c \in {N("b"), N("x"), I(1)}}
  \cup {<<"whilelet", p, e, body>> :
          p \in {Variant("", "Some", <<<<"name", "x">>>>), Variant("", "Nope", <<<<"name", "x">>>>), <<"name", "x">>},
          e \in {N("o"), N("nope"), Method(N("v"), "pop", <<>>), <<"field", Call("half", <<>>), "o">>, N("shop")}}
InARow(f) ==
  \/ \E s1 \in Simple("x"), s2 \in Simple("y"), s3 \in Simple("x") : f = Fn(Unit, FALSE, Body(<<s1, s2, s3>>, <<>>))
  \/ \E body \in {Body(<<s>>, <<>>) : s \in Simple("y")} \cup {Val(N("u"))}, before \in {LetIn("x", <<>>, I(1)), LetIn("x", <<>>, N("nope")), Run(N("a"))},
        after \in {Run(N("y")), Run(N("x"))} :
       \E loop \in Rounded(body) : f = Fn(Unit, FALSE, Body(<<before, loop, after>>, <<>>))

(* Tasks: made, kept, awaited, let run, forgotten.                         *)
Fetch == Call("fetch", <<I(1)>>)
Sell == Method(N("shop"), "sell", <<N("a")>>)
Await(e) == <<"await", e>>
Each(e, semi) == <<"closure", <<"i">>, IF semi THEN <<"block", Body(<<Run(N("i"))>>, <<e>>)>> ELSE e>>
Made == {Fetch, Sell, Call("wait", <<>>), N("t"), Await(Fetch), Await(N("t")), Await(I(1)), <<"try", Fetch>>,
         <<"try", Await(Sell)>>, <<"block", Val(Fetch)>>, Either(N("b"), Fetch, Fetch), <<"vec", <<Fetch, Sell>>>>,
         <<"vec", <<Fetch, N("t")>>>>, Some(Fetch), Await(Of("Task", "all", <<N("t")>>)),
         Of("Task", "all", <<N("t")>>), Await(Of("Task", "all_settled", <<<<"vec", <<Fetch, Fetch>>>>>>)),
         Await(Of("Task", "all", <<<<"vec", <<Call("wait", <<>>)>>>>>>)), Await(<<"vec", <<Fetch>>>>), Bin("==", N("t"), N("t")),
         Method(Fetch, "detach", <<>>), Method(N("t"), "detach", <<>>), Method(Fetch, "detach", <<I(1)>>),
         <<"match", N("t"), <<<<<<"name", "z">>, N("z")>>>>>>, Method(N("t"), "push", <<Fetch>>), Method(N("t"), "len", <<>>),
         Method(<<"vec", <<Fetch>>>>, "len", <<>>), Method(<<"vec", <<Fetch>>>>, "pop", <<>>), <<"index", N("t"), I(0)>>}
  \cup UNION {{Method(Method(Method(N("v"), "iter", <<>>), m, <<Each(e, semi)>>), "collect", <<>>),
               Method(Method(N("v"), "iter", <<>>), m, <<Each(e, semi)>>),
               Await(Of("Task", "all", <<Method(Method(Method(N("v"), "iter", <<>>), m, <<Each(e, semi)>>), "collect", <<>>)>>))}
              : m \in {"map", "filter"}, semi \in BOOLEAN,
                e \in {Fetch, Await(Fetch), <<"block", Val(Fetch)>>, Either(N("b"), Fetch, Fetch), Call("half", <<N("i")>>)}}
Tasked(f) ==
  \/ \E e1 \in Made, e2 \in Made, async \in BOOLEAN, T \in {<<>>, <<Fallible>>} :
       f = Fn(Fallible, async, Body(<<LetIn("t", <<>>, e1), LetIn("z", T, e2), Run(N("z"))>>, <<Ok(I(1))>>))
  \/ \E e1 \in Made, e2 \in Made : f = Fn(Fallible, TRUE, Body(<<LetIn("t", <<>>, e1), Run(Method(e2, "detach", <<>>))>>, <<e2>>))
  \/ \E e \in Made, x \in {"t", "_"}, use \in {Await(N("t")), N("t"), I(1)} :
       f = Fn(Unit, TRUE, Body(<<LetIn(x, <<>>, e),
             Run(<<"if", N("b"), Body(<<LetIn("t", <<>>, use), Run(use)>>, <<>>), <<Body(<<Run(N("t"))>>, <<>>)>>>>)>>, <<>>))

(* Branches that leave before the value they end with.                     *)
DeadArms == {Body(<<Quit>>, <<I(5)>>), Body(<<Quit>>, <<B(0)>>), Body(<<QuitWith(I(1))>>, <<S>>)}
Ended ==
  {<<"if", N("b"), then, <<else>>>> : then \in Arms, else \in DeadArms}
  \cup {<<"if", N("b"), then, <<else>>>> : then \in DeadArms, else \in Arms}
  \cup {<<"match", N("o"), <<<<Variant("", "Some", <<<<"name", "x">>>>), <<"block", then>>>>,
                            <<<<"name", "None">>, <<"block", else>>>>>>>> : then \in DeadArms, else \in Arms}
-----------------------------------------------------------------------------
Empty == Fn(Unit, FALSE, Body(<<>>, <<>>))
Operating(f) == Placed(f, Operated) \/ Placed(f, Branched) \/ PatternsMatched(f) \/ Tried(f)
Calling(f) == Placed(f, Calls) \/ Placed(f, Held) \/ InARow(f) \/ Tasked(f)
InitTypes == (Operating(source) \/ Calling(source)) /\ typed = <<>>
SpecEnded == Placed(source, Ended) /\ typed = <<>> /\ [][CheckBody]_bodyvars
=============================================================================
