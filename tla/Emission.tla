------------------------------ MODULE Emission ------------------------------
(***************************************************************************)
(* What the Rust backend writes for a body the borrow checker has judged   *)
(* (backend/rust_expr.rs, `FnEmitter`; backend/rust.rs, `stmt_text`): the  *)
(* Rust tree of each expression, in the form its context needs.  A Rust    *)
(* expression is a record with its kind r; names, types, literals and      *)
(* punctuation are left out, and so is what Places leaves out.  `a` is the *)
(* judgement of Places, whose locals say what each name is in Rust.        *)
(***************************************************************************)
EXTENDS Places

Lit == [r |-> "lit"]
NoRust == [r |-> "none"]
Path(x) == [r |-> "path", x |-> x]
Deref(e) == [r |-> "deref", e |-> e]
Ref(mut, e) == [r |-> "ref", mut |-> mut, e |-> e]

\* `repr`: a `mut` parameter is a `&mut T`, a Copy value otherwise owned,
\* and a borrowed place a reference.
Repr(a, x) ==
    LET info == a.loc[x]
    IN  CASE info.param /\ info.declared -> "mut"
          [] ~IsCopy(info.ty) /\ info.borrowed -> IF info.mutable THEN "mut" ELSE "ref"
          [] OTHER -> "own"

\* What a `let` of x, or an assignment to it, must produce.
BindingNeed(a, x) ==
    CASE Repr(a, x) = "own" -> "value"
      [] Repr(a, x) = "ref" -> "shared_binding"
      [] Repr(a, x) = "mut" -> "mut_binding"

\* What an expression is as written.
Have(a, e) ==
    CASE e.k = "local" -> IF Repr(a, e.x) = "own" THEN "place" ELSE Repr(a, e.x)
      [] e.k \in {"field", "index"} -> "place"
      [] HasRooted(e) /\ ~LooksInto(e) -> "ref"
      [] OTHER -> "temp"

ReturnNeed(a) ==
    IF a.ret = "unit" THEN "as_is" ELSE IF a.class = "Part" THEN "shared" ELSE "value"

\* Mutant: a field of a name declared inside is taken for lasting.
IsNewWhole(a, leaf, whole) ==
    /\ ~HasRooted(leaf)
    /\ IF leaf.k = "local" THEN leaf.x \in DeclaredIn(whole) /\ Repr(a, leaf.x) = "own"
       ELSE leaf.k \notin {"field", "index"} /\ ~BlockLike(leaf)

\* Made while `whole` runs and gone after it.
IsNew(a, leaf, whole) ==
    LET base == FieldRoot(leaf)
    IN  /\ ~HasRooted(leaf)
        /\ IF base.k = "local" THEN base.x \in DeclaredIn(whole) /\ Repr(a, base.x) = "own"
           ELSE ~BlockLike(base)

\* A block-like value read by reference whose branches are all new is
\* borrowed as a whole: its branches die with it.
BorrowsNewValue(a, e, need) ==
    /\ BlockLike(e)
    /\ \/ need = "shared" /\ IsCopy(e.ty)
       \/ /\ need \in {"shared", "mut"} /\ Leaves(e) # {}
          /\ \A leaf \in Leaves(e) : IsNew(a, leaf, e)

\* What each branch must give, so that all have one Rust type.
BranchNeed(a, e, need) ==
    IF need # "as_is" THEN need
    ELSE IF IsCompound(e.ty) /\ \E leaf \in Leaves(e) : ~IsNew(a, leaf, e)
         THEN "shared_binding" ELSE "value"

\* `bridge`: text, as written for e, brought to what is needed.
Bridge(a, e, text, need) ==
    LET have == Have(a, e)
    IN  CASE need = "value" -> IF have \in {"ref", "mut"} /\ IsCopy(e.ty) THEN Deref(text) ELSE text
          [] need \in {"shared", "shared_binding"} /\ have \in {"temp", "place"} -> Ref(FALSE, text)
          [] need = "shared_binding" /\ have = "mut" -> Ref(FALSE, Deref(text))
          [] need \in {"mut", "mut_binding"} /\ have \in {"temp", "place"} -> Ref(TRUE, text)
          [] need \in {"mut", "mut_binding"} /\ have = "ref" -> Ref(TRUE, Deref(text))
          [] need = "mut_binding" /\ have = "mut" -> Ref(TRUE, Deref(text))
          [] OTHER -> text

ArgNeed(mode) == CASE mode = "ref" -> "shared" [] mode = "mut" -> "mut" [] mode = "own" -> "value"

RECURSIVE Emit(_, _, _), PlaceText(_, _, _), FieldBase(_, _, _), EmitBlock(_, _, _)

EmitAll(a, es, need) == [i \in DOMAIN es |-> Emit(a, es[i], need)]

\* Both operands of a comparison are borrowed when either already is, or is
\* block-like; else Rust compares them in place.
BinaryOperands(a, e) ==
    LET byRef(i) == BlockLike(e.args[i]) \/ Have(a, e.args[i]) \in {"ref", "mut"}
        shared == IsCompound(e.args[1].ty) /\ \E i \in DOMAIN e.args : byRef(i)
    IN  EmitAll(a, e.args, IF shared THEN "shared" ELSE "value")

\* A Varyk or imported function or method is called by its path, a built-in
\* on its receiver, which Rust borrows as it needs.
CallText(a, e) ==
    LET sig == Fns[e.f]
        args == [i \in DOMAIN e.args |->
                    IF sig.builtin /\ i = 1
                    THEN IF sig.modes[1] = "own" /\ BlockLike(e.args[1]) THEN Emit(a, e.args[1], "value")
                         ELSE FieldBase(a, e.args[1], sig.modes[1] = "mut")
                    ELSE Emit(a, e.args[i], ArgNeed(sig.modes[i]))]
    IN  [r |-> "call", f |-> e.f, args |-> args]

\* A started call's task owns every argument.
Raw(a, e) ==
    CASE e.k = "int" -> Lit
      [] e.k = "local" -> Path(e.x)
      [] e.k \in {"field", "index"} -> PlaceText(a, e, FALSE)
      [] e.k = "new" \/ (e.k = "call" /\ e.started) ->
            [r |-> "new", args |-> EmitAll(a, e.args, "value")]
      [] e.k = "call" /\ ~e.started -> CallText(a, e)
      [] e.k = "op" -> [r |-> "op", args |-> BinaryOperands(a, e)]
      [] e.k = "fmt" -> [r |-> "fmt", args |-> EmitAll(a, e.args, "as_is")]

PlaceText(a, e, mutable) ==
    LET base == FieldBase(a, e.base, mutable)
        copy == IsCopy(e.ty)
    IN  IF e.k = "field"
        THEN [r |-> "field", base |-> base, f |-> e.f, arc |-> e.base.ty = "S", copy |-> copy]
        ELSE [r |-> "index", base |-> base, ix |-> Emit(a, e.ix, "value"), copy |-> copy]

\* The base of a field, an element or a method call, never moved.
FieldBase(a, e, mutable) ==
    LET lent == IF mutable THEN "mut" ELSE "shared"
    IN  CASE e.k \in {"field", "index"} -> PlaceText(a, e, mutable)
          [] e.k \in {"local", "call"} -> Raw(a, e)
          [] BlockLike(e) -> Emit(a, e, IF BorrowsNewValue(a, e, lent) THEN lent ELSE lent \o "_binding")
          [] OTHER -> Emit(a, e, "value")

\* A place is looked at through a shared reference; a looked-into result
\* already holds one.
HeadText(a, e) ==
    Emit(a, e, IF ~LooksInto(e) /\ IsPlaceOrRooted(e) THEN "shared_binding" ELSE "value")

\* The Copy values bound through the reference a head is.
Copies(a, head, arm) ==
    IF ~IsPlaceOrRooted(head) THEN {} ELSE {b.x : b \in {c \in Bindings(arm) : IsCopy(a.loc[c.x].ty)}}

MatchText(a, e, need) ==
    [r |-> "match", let |-> e.let, head |-> HeadText(a, e.head),
     arms |-> [i \in DOMAIN e.arms |->
                  [binds |-> {b.x : b \in Bindings(e.arms[i])}, copies |-> Copies(a, e.head, e.arms[i]),
                   body |-> Emit(a, e.arms[i].body, need)]]]

StmtText(a, s) ==
    CASE s.k = "let" -> [r |-> "let", x |-> s.x, e |-> Emit(a, s.e, BindingNeed(a, s.x))]
      [] s.k = "assign" ->
            [r |-> "set",
             t |-> IF s.t.k # "local" THEN PlaceText(a, s.t, FALSE)
                   ELSE IF Repr(a, s.t.x) = "own" THEN Path(s.t.x) ELSE Deref(Path(s.t.x)),
             e |-> Emit(a, s.e, "value")]
      [] s.k = "expr" ->
            [r |-> "expr",
             e |-> Emit(a, s.e, IF s.e.k \in {"local", "field", "index"} THEN "shared_binding" ELSE "as_is")]
      [] s.k = "return" ->
            [r |-> "return", e |-> IF s.e.k = "none" THEN NoRust ELSE Emit(a, s.e, ReturnNeed(a))]
      [] s.k = "while" ->
            [r |-> "while", c |-> Emit(a, s.c, "value"), body |-> EmitBlock(a, s.body, "as_is")]
      [] s.k = "for" ->
            LET place == s.head.k # "range" /\ IsPlaceOrRooted(s.head)
            IN  [r |-> "for", x |-> s.x, copied |-> place /\ IsCopy(a.loc[s.x].ty),
                 head |-> CASE s.head.k = "range" -> [r |-> "op", args |-> EmitAll(a, s.head.args, "value")]
                            [] place -> Emit(a, s.head, "shared_binding")
                            [] OTHER -> Emit(a, s.head, "value"),
                 body |-> EmitBlock(a, s.body, "as_is")]

EmitBlock(a, b, need) ==
    [r |-> "block", stmts |-> [i \in DOMAIN b.stmts |-> StmtText(a, b.stmts[i])],
     tail |-> IF b.tail.k = "none" THEN NoRust ELSE Emit(a, b.tail, need)]

Emit(a, e, need) ==
    LET inner == BranchNeed(a, e, need)
    IN  CASE BorrowsNewValue(a, e, need) -> Bridge(a, e, Emit(a, e, "value"), need)
          [] ~BorrowsNewValue(a, e, need) /\ e.k = "if" ->
                [r |-> "if", c |-> Emit(a, e.c, "value"), then |-> EmitBlock(a, e.then, inner),
                 else |-> EmitBlock(a, e.else, inner)]
          [] ~BorrowsNewValue(a, e, need) /\ e.k = "match" -> MatchText(a, e, inner)
          [] ~BorrowsNewValue(a, e, need) /\ e.k = "block" -> EmitBlock(a, e.b, inner)
          [] e.k \in {"field", "index"} /\ need \in {"mut", "mut_binding"} ->
                Bridge(a, e, PlaceText(a, e, TRUE), need)
          [] OTHER -> Bridge(a, e, Raw(a, e), need)

\* The body in Rust, its tail what the function returns.
BodyText(a, fn) == EmitBlock(a, fn.body, ReturnNeed(a))
=============================================================================
