------------------------------- MODULE Places -------------------------------
(***************************************************************************)
(* The borrow checker's judgement of a whole function body: the pass that  *)
(* finds what every local is a name for (borrow.rs, borrow/patterns.rs,    *)
(* borrow/slots.rs), the classification of what the function returns       *)
(* (borrow/returns.rs), and the walk that feeds the rules of FlowRules     *)
(* (borrow/moves.rs, `Walker`) over the body's tree.                       *)
(*                                                                         *)
(* The body is the typed tree of hir.rs, an expression a record with its   *)
(* kind k and its type ty.  Text, closures and chains, `?`, `.await`,      *)
(* captures, enums with a destructor, recursive functions, `break` and     *)
(* `continue` (FlowWalk has them) are left out, and so are the wording of  *)
(* a report and who it blames: `faults` is the set of the rules that       *)
(* report.  The code reports no follow-up of a report already made; here   *)
(* follow-ups join the set, which is empty in the same cases.              *)
(***************************************************************************)
EXTENDS FlowRules

CONSTANT Fns    \* what a call may name, each with what its signature says

NoLocal == 0    \* locals are the positive numbers, the parameters first
NoTail == [k |-> "none", ty |-> "unit"]

IsCopy(ty) == ty = "int"
IsCompound(ty) == ty \notin {"int", "unit"}
-----------------------------------------------------------------------------
(* The shape of expressions. *)

BlockLike(e) == e.k \in {"if", "match", "block"}

\* The argument a call's result is part of, its receiver or another; a
\* started call's result is a task's.
HasRooted(e) == e.k = "call" /\ ~e.started /\ Fns[e.f].rooted > 0
RootedArgument(e) == e.args[Fns[e.f].rooted]

LooksInto(e) == HasRooted(e) /\ Fns[e.f].looked

Bindings(arm) == Range(arm.binds)

RECURSIVE Leaves(_), FieldRoot(_), IsPlaceOrRooted(_), PlaceRoot(_), RootsOf(_), ThroughIndex(_)

TailLeaves(b) == IF b.tail.k = "none" THEN {} ELSE Leaves(b.tail)

\* The values e may evaluate to.
Leaves(e) ==
    CASE e.k = "block" -> TailLeaves(e.b)
      [] e.k = "if" -> TailLeaves(e.then) \cup TailLeaves(e.else)
      [] e.k = "match" -> UNION {Leaves(arm.body) : arm \in Range(e.arms)}
      [] OTHER -> {e}

FieldRoot(e) ==
    IF e.k \in {"field", "index"} THEN FieldRoot(e.base)
    ELSE IF HasRooted(e) THEN FieldRoot(RootedArgument(e)) ELSE e

IsPlaceOrRooted(e) ==
    CASE e.k = "local" -> TRUE
      [] e.k \in {"field", "index"} -> IsPlaceOrRooted(e.base)
      [] OTHER -> HasRooted(e) /\ IsPlaceOrRooted(RootedArgument(e))

PlaceRoot(e) ==
    CASE e.k = "local" -> e.x
      [] e.k \in {"field", "index"} -> PlaceRoot(e.base)
      [] OTHER -> IF HasRooted(e) THEN PlaceRoot(RootedArgument(e)) ELSE NoLocal

\* Every local e may borrow from.
RootsOf(e) ==
    LET base == FieldRoot(e)
    IN  IF base.k = "local" THEN {base.x}
        ELSE IF BlockLike(base) THEN UNION {RootsOf(leaf) : leaf \in Leaves(base)} ELSE {}

ThroughIndex(e) == e.k = "index" \/ (e.k = "field" /\ ThroughIndex(e.base))

RECURSIVE BaseOf(_), Stored(_)
BaseOf(e) == IF e.k \in {"field", "index"} THEN BaseOf(e.base) ELSE e

\* `borrowed_receiver`: what e is part of is stored, not made here.
Stored(e) == IF HasRooted(e) THEN Stored(RootedArgument(e)) ELSE BaseOf(e).k = "local"

RECURSIVE DeclaredIn(_), DeclaredInBlock(_)
DeclaredByStmt(s) ==
    CASE s.k = "let" -> {s.x} \cup DeclaredIn(s.e)
      [] s.k = "assign" -> DeclaredIn(s.t) \cup DeclaredIn(s.e)
      [] s.k = "while" -> DeclaredIn(s.c) \cup DeclaredInBlock(s.body)
      [] s.k = "for" -> {s.x} \cup DeclaredIn(s.head) \cup DeclaredInBlock(s.body)
      [] OTHER -> DeclaredIn(s.e)
DeclaredInBlock(b) == UNION {DeclaredByStmt(s) : s \in Range(b.stmts)} \cup DeclaredIn(b.tail)
DeclaredIn(e) ==
    CASE e.k \in {"none", "int", "local"} -> {}
      [] e.k = "field" -> DeclaredIn(e.base)
      [] e.k = "index" -> DeclaredIn(e.base) \cup DeclaredIn(e.ix)
      [] e.k = "block" -> DeclaredInBlock(e.b)
      [] e.k = "if" -> DeclaredIn(e.c) \cup DeclaredInBlock(e.then) \cup DeclaredInBlock(e.else)
      [] e.k = "match" ->
            DeclaredIn(e.head) \cup UNION {{b.x : b \in Bindings(arm)} \cup DeclaredIn(arm.body) :
                                           arm \in Range(e.arms)}
      [] OTHER -> UNION {DeclaredIn(arg) : arg \in Range(e.args)}
-----------------------------------------------------------------------------
(***************************************************************************)
(* What the pass knows of each local: its type, whether it was declared    *)
(* `mut` and is a parameter; its place (borrowed, mutable); what it may    *)
(* refer to (temp, roots); whether a `for` holds through it (held) and     *)
(* whether it names something behind a `Shared` (shared).                  *)
(***************************************************************************)
Temporary == [borrowed |-> FALSE, mutable |-> TRUE]

Unbound(ty, mut) ==
    [ty |-> ty, declared |-> mut, param |-> FALSE, borrowed |-> FALSE, mutable |-> FALSE,
     temp |-> FALSE, roots |-> {}, held |-> FALSE, shared |-> FALSE]

\* `places` begins: each parameter is a place of its caller's, unless Copy.
Entered(fn) ==
    [loc |-> [x \in DOMAIN fn.locals |->
         LET d == fn.locals[x]
         IN  IF d.param
             THEN [Unbound(d.ty, d.mut) EXCEPT !.param = TRUE, !.borrowed = ~IsCopy(d.ty),
                                               !.mutable = d.mut]
             ELSE Unbound(d.ty, d.mut)],
     ret |-> fn.ret, returned |-> {}, buffered |-> {}, faults |-> {}]

Fault(a, rule) == [a EXCEPT !.faults = @ \cup {rule}]
FaultIf(a, bad, rule) == IF bad THEN Fault(a, rule) ELSE a

RECURSIVE PlaceInfo(_, _), ReachesShared(_, _), Dangling(_, _, _), LeafKind(_, _, _)

\* A field or an element is changeable exactly when all its base may be is,
\* never through a `Shared` or a call's result.
PlaceInfo(a, e) ==
    CASE e.k = "local" -> [borrowed |-> a.loc[e.x].borrowed, mutable |-> a.loc[e.x].mutable]
      [] e.k \in {"field", "index"} ->
            [borrowed |-> ~IsCopy(e.ty),
             mutable |-> /\ e.base.ty # "S"
                         /\ \A leaf \in Leaves(e.base) : PlaceInfo(a, leaf).mutable]
      [] HasRooted(e) -> [borrowed |-> ~IsCopy(e.ty), mutable |-> FALSE]
      [] OTHER -> Temporary

ReachesShared(a, e) ==
    CASE e.k = "local" -> a.loc[e.x].shared
      [] e.k \in {"field", "index"} -> e.base.ty = "S" \/ ReachesShared(a, e.base)
      [] OTHER -> HasRooted(e) /\ ReachesShared(a, RootedArgument(e))

\* A reference declared in `inside` to what is gone when that ends.
Dangling(a, x, inside) ==
    \/ a.loc[x].temp
    \/ \E root \in a.loc[x].roots \cap inside :
          ~a.loc[root].borrowed \/ Dangling(a, root, inside)

\* How a value that `whole` may evaluate to relates to it.
LeafKindOf(a, leaf, whole) ==
    LET kind == LeafKind(a, leaf, whole)
    IN  IF kind = "New" /\ ~IsCopy(leaf.ty) /\ (ThroughIndex(leaf) \/ HasRooted(leaf))
        THEN "Dangling" ELSE kind

LeafKind(a, leaf, whole) ==
    LET base == FieldRoot(leaf)
        inside == DeclaredIn(whole)
        kinds == {LeafKindOf(a, inner, whole) : inner \in Leaves(base)}
    IN  CASE base.k = "local" ->
                IF base.x \notin inside THEN "Lasting"
                ELSE IF ~a.loc[base.x].borrowed THEN "New"
                ELSE IF Dangling(a, base.x, inside) THEN "Dangling" ELSE "Lasting"
          [] BlockLike(base) ->
                IF "Dangling" \in kinds \/ kinds = {"New"} THEN "Dangling" ELSE "Lasting"
          [] OTHER -> "New"

\* Mutant: an `if` or block read in place may mix values of any kind.
MixedNever(a, e, mutable) == FALSE

\* A value read in place must be all new or all lasting.
Mixed(a, e, mutable) ==
    LET kinds == {LeafKindOf(a, leaf, e) : leaf \in Leaves(e)}
    IN  /\ IsCompound(e.ty) \/ (mutable /\ e.ty # "unit")
        /\ BlockLike(e)
        /\ "Dangling" \in kinds \/ {"New", "Lasting"} \subseteq kinds
-----------------------------------------------------------------------------
(***************************************************************************)
(* What an expression uses on the way to its value: pairs of a local and   *)
(* whether the use changes it or gives it away.                            *)
(***************************************************************************)
RECURSIVE Uses(_, _, _, _), BlockUses(_, _, _, _), PathUses(_, _)

Keeps(e) == e.started \/ Fns[e.f].keeps
ModesOf(e) == IF e.started THEN [i \in DOMAIN e.args |-> "own"] ELSE Fns[e.f].modes

\* The indices along a path of fields and elements.
PathUses(a, e) ==
    CASE e.k = "index" -> Uses(a, e.ix, FALSE, FALSE) \cup PathUses(a, e.base)
      [] e.k = "field" -> PathUses(a, e.base)
      [] OTHER -> {}

UsesOfStmt(a, s) ==
    CASE s.k = "let" ->
            Uses(a, s.e, FALSE,
                 ~IsCopy(s.e.ty) /\ (~a.loc[s.x].borrowed \/ a.loc[s.x].mutable))
      [] s.k = "assign" -> Uses(a, s.t, FALSE, TRUE) \cup Uses(a, s.e, FALSE, ~IsCopy(s.e.ty))
      [] s.k = "expr" -> Uses(a, s.e, FALSE, FALSE)
      [] s.k = "return" -> Uses(a, s.e, FALSE, ~IsCopy(s.e.ty))
      [] s.k = "while" -> Uses(a, s.c, FALSE, FALSE) \cup BlockUses(a, s.body, FALSE, FALSE)
      [] s.k = "for" -> Uses(a, s.head, FALSE, FALSE) \cup BlockUses(a, s.body, FALSE, FALSE)

BlockUses(a, b, atLeaf, exclusive) ==
    UNION {UsesOfStmt(a, s) : s \in Range(b.stmts)} \cup Uses(a, b.tail, atLeaf, exclusive)

CallUses(a, e) ==
    UNION {LET mode == ModesOf(e)[i]
           IN  Uses(a, e.args[i], FALSE,
                    mode = "mut" \/ (mode = "own" /\ Keeps(e) /\ ~IsCopy(e.args[i].ty))) :
           i \in DOMAIN e.args}

Uses(a, e, atLeaf, exclusive) ==
    CASE e.k \in {"none", "int"} -> {}
      [] e.k = "local" -> IF atLeaf THEN {} ELSE {<<e.x, exclusive>>}
      [] e.k \in {"field", "index"} -> PathUses(a, e) \cup Uses(a, BaseOf(e), atLeaf, exclusive)
      [] e.k = "call" -> CallUses(a, e)
      [] e.k = "new" -> UNION {Uses(a, arg, FALSE, ~IsCopy(arg.ty)) : arg \in Range(e.args)}
      [] e.k \in {"op", "fmt", "range"} -> UNION {Uses(a, arg, FALSE, FALSE) : arg \in Range(e.args)}
      [] e.k = "block" -> BlockUses(a, e.b, atLeaf, exclusive)
      [] e.k = "if" ->
            Uses(a, e.c, FALSE, FALSE) \cup BlockUses(a, e.then, atLeaf, exclusive)
                \cup BlockUses(a, e.else, atLeaf, exclusive)
      [] e.k = "match" ->
            Uses(a, e.head, FALSE, FALSE)
                \cup UNION {Uses(a, arm.body, atLeaf, exclusive) : arm \in Range(e.arms)}

\* A later value changes or gives away, while it is evaluated, what an
\* earlier one has lent.
UsedWhileLent(a, args, modes, includeCopy) ==
    \E i, j \in DOMAIN args :
        /\ i < j /\ modes[i] # "own" /\ (includeCopy \/ ~IsCopy(args[i].ty))
        /\ \E use \in Uses(a, args[j], TRUE, FALSE) :
              use[1] \in RootsOf(args[i]) /\ (use[2] \/ modes[i] = "mut")

\* One local lent twice to the same call, once to a `mut` parameter.
Overlapping(args, modes) ==
    LET mutable(i) == modes[i] = "mut" \/ (modes[i] = "own" /\ ~IsCopy(args[i].ty))
    IN  \E i, j \in DOMAIN args :
            i < j /\ RootsOf(args[i]) \cap RootsOf(args[j]) # {} /\ (mutable(i) \/ mutable(j))

\* An index along a place reached mutably uses the place's root.
IndexUsesRoot(a, place) ==
    /\ PlaceRoot(place) # NoLocal
    /\ \E use \in PathUses(a, place) : use[1] = PlaceRoot(place)

\* An index of a place that is read changes the place's root.
IndexChangesRoot(a, e) ==
    PlaceRoot(e) # NoLocal /\ <<PlaceRoot(e), TRUE>> \in Uses(a, e.ix, FALSE, FALSE)
-----------------------------------------------------------------------------
(***************************************************************************)
(* The checks of the pass, and what it records at a binding.               *)
(***************************************************************************)
\* A borrowed place flows into a slot that keeps it.
BadSlot(a, e) ==
    \E leaf \in Leaves(e) :
        PlaceInfo(a, leaf).borrowed /\ ~IsCopy(leaf.ty) /\ ~LooksInto(leaf)

\* A value lent to a `mut` parameter is not changeable.
RECURSIVE Unchangeable(_, _)
Unchangeable(a, e) ==
    \E leaf \in Leaves(e) :
        LET base == FieldRoot(leaf)
        IN  /\ ~PlaceInfo(a, leaf).mutable
            /\ \/ ReachesShared(a, leaf)
               \/ IF BlockLike(base) THEN Unchangeable(a, base) ELSE PlaceRoot(leaf) # NoLocal

\* `let x = e` keeps a reference to what is gone once e ends.  Rust extends
\* the life of a temporary borrowed there.
KeptByReference(a, e) ==
    /\ BlockLike(e)
    /\ \E leaf \in Leaves(e) :
          LET kind == LeafKind(a, leaf, e)
          IN  \/ kind = "Dangling"
              \/ /\ kind = "New"
                 /\ \/ leaf.k = "local" \/ HasRooted(leaf)
                    \/ leaf.k \in {"field", "index"} /\ PlaceRoot(leaf) # NoLocal

\* `bind`.
Bound(a, x, e) ==
    LET infos == {PlaceInfo(a, leaf) : leaf \in Leaves(e)}
        borrowed == \E info \in infos : info.borrowed
        declared == a.loc[x].declared
        mutable == declared /\ (borrowed => \A info \in infos : info.mutable)
        named == [a EXCEPT !.loc[x].borrowed = borrowed, !.loc[x].mutable = mutable,
                           !.loc[x].temp = \E leaf \in Leaves(e) : PlaceRoot(leaf) = NoLocal,
                           !.loc[x].roots = RootsOf(e),
                           !.loc[x].shared = borrowed /\ \E leaf \in Leaves(e) : ReachesShared(a, leaf)]
        indexed == borrowed /\ mutable /\ \E leaf \in Leaves(e) : IndexUsesRoot(named, leaf)
    IN  FaultIf(FaultIf(named, indexed, "index"), borrowed /\ KeptByReference(named, e), "gone")

\* `pattern`: on a place a binding that is not Copy is a read-only alias.
Matched(a, head, arm) ==
    LET place == IsPlaceOrRooted(head)
        xs == {b.x : b \in Bindings(arm)}
    IN  [a EXCEPT !.loc = [x \in DOMAIN @ |->
            IF x \notin xs THEN @[x]
            ELSE LET alias == place /\ ~IsCopy(@[x].ty)
                 IN  [@[x] EXCEPT !.borrowed = alias, !.mutable = FALSE, !.temp = FALSE,
                                  !.roots = IF alias THEN RootsOf(head) ELSE {}]]]

\* `for_variable`: over a place the loop holds it until it ends.
Looped(a, x, head) ==
    LET place == head.k # "range" /\ IsPlaceOrRooted(head)
    IN  [a EXCEPT !.loc[x].borrowed = place /\ ~IsCopy(a.loc[x].ty), !.loc[x].mutable = FALSE,
                  !.loc[x].held = place, !.loc[x].roots = IF place THEN RootsOf(head) ELSE {}]

\* `assign`.
Assigned(a, t, e) ==
    LET info == PlaceInfo(a, t)
    IN  IF IndexUsesRoot(a, t) THEN Fault(a, "index")
        ELSE IF ~info.mutable THEN Fault(a, IF ReachesShared(a, t) THEN "shared" ELSE "immutable")
        ELSE FaultIf(a, (info.borrowed \/ (t.k = "local" /\ IsCompound(t.ty))) /\ BadSlot(a, e), "kept")

\* `call` and `started_call`.
Argument(a, e, i) ==
    LET arg == e.args[i]
        mode == Fns[e.f].modes[i]
    IN  CASE e.started ->
                IF mode = "mut" THEN Fault(a, "started") ELSE FaultIf(a, BadSlot(a, arg), "kept")
          [] ~e.started /\ mode = "mut" ->
                IF \E leaf \in Leaves(arg) : IndexUsesRoot(a, leaf) THEN Fault(a, "index")
                ELSE IF Mixed(a, arg, TRUE) THEN Fault(a, "mixed")
                ELSE FaultIf(a, Unchangeable(a, arg), "immutable")
          [] ~e.started /\ mode = "ref" -> FaultIf(a, Mixed(a, arg, FALSE), "mixed")
          [] ~e.started /\ mode = "own" -> FaultIf(a, Fns[e.f].keeps /\ BadSlot(a, arg), "kept")

Called(a, e) ==
    LET sig == Fns[e.f]
        args == FoldLeftDomain(LAMBDA got, i : Argument(got, e, i), a, e.args)
        overlap == FaultIf(args, Overlapping(e.args, sig.modes), "overlap")
    IN  IF sig.method /\ e.args[1].ty = "S" /\ sig.modes[1] = "mut" THEN Fault(a, "shared")
        ELSE IF e.started THEN args
        ELSE FaultIf(overlap, UsedWhileLent(a, e.args, sig.modes, FALSE), "lent")

\* `return_leaf`, and `returned`: what a return gives, and whether it would
\* have to be kept.
ReturnLeaf(a, leaf) ==
    LET part == PlaceInfo(a, leaf).borrowed /\ ~IsCopy(leaf.ty) /\ ~LooksInto(leaf)
    IN  [new |-> ~part, roots |-> IF part THEN RootsOf(leaf) ELSE {}]

Returned(a, e) ==
    [a EXCEPT !.returned = @ \cup {ReturnLeaf(a, leaf) : leaf \in Leaves(e)},
              !.buffered = IF BadSlot(a, e) THEN @ \cup {"kept"} ELSE @]
-----------------------------------------------------------------------------
(***************************************************************************)
(* The pass over a body, in evaluation order.                              *)
(***************************************************************************)
\* f of a, which is evaluated before f: TLC would else evaluate the pass over
\* what comes before from within the pass over what comes after.
Given(a, f(_)) == CHOOSE r \in {f(b) : b \in {a}} : TRUE

RECURSIVE PassExpr(_, _), PassBlock(_, _)

PassAll(a, es) == FoldLeft(PassExpr, a, es)

Slots(a, es) ==
    FoldLeft(LAMBDA got, e : FaultIf(PassExpr(got, e), BadSlot(got, e), "kept"), a, es)

\* A value read in place.
ReadInPlace(a, e) == FaultIf(a, Mixed(a, e, FALSE), "mixed")

\* The head of a `match`: the one place a looked-into result may be, its
\* receiver stored and no pattern naming it whole.
PassHead(a, e, arms) ==
    IF ~LooksInto(e) THEN PassExpr(a, e)
    ELSE FaultIf(FaultIf(Called(PassAll(a, e.args), e), ~Stored(RootedArgument(e)), "stored"),
                 \E arm \in Range(arms) : \E b \in Bindings(arm) : b.whole, "looked")

PassCall(a, e) ==
    LET called == Called(PassAll(a, e.args), e)
    IN  IF LooksInto(e) THEN Fault(called, "looked")
        ELSE FaultIf(called, HasRooted(e) /\ ~Stored(RootedArgument(e)), "stored")

PassStmt(from, s) == Given(from, LAMBDA a :
    CASE s.k = "let" -> Bound(PassExpr(a, s.e), s.x, s.e)
      [] s.k = "assign" -> Assigned(PassExpr(a, s.e), s.t, s.e)
      [] s.k = "expr" -> ReadInPlace(PassExpr(a, s.e), s.e)
      [] s.k = "return" ->
            LET passed == PassExpr(a, s.e)
            IN  IF a.ret = "unit" THEN passed ELSE Returned(passed, s.e)
      [] s.k = "while" -> PassBlock(PassExpr(a, s.c), s.body)
      [] s.k = "for" -> PassBlock(Looped(PassExpr(a, s.head), s.x, s.head), s.body))

PassBlock(a, b) == PassExpr(FoldLeft(PassStmt, a, b.stmts), b.tail)

PassArm(a, head, arm) == PassExpr(Matched(a, head, arm), arm.body)

PassExpr(from, e) == Given(from, LAMBDA a :
    CASE e.k \in {"none", "int", "local"} -> a
      [] e.k = "field" -> ReadInPlace(PassExpr(a, e.base), e.base)
      [] e.k = "index" ->
            LET read == PassExpr(ReadInPlace(PassExpr(a, e.base), e.base), e.ix)
            IN  FaultIf(read, IndexChangesRoot(read, e), "index")
      [] e.k = "call" -> PassCall(a, e)
      [] e.k = "new" -> Slots(a, e.args)
      [] e.k = "op" -> FoldLeft(ReadInPlace, PassAll(a, e.args), e.args)
      [] e.k = "range" -> PassAll(a, e.args)
      [] e.k = "fmt" ->
            LET read == FoldLeft(LAMBDA got, arg : ReadInPlace(PassExpr(got, arg), arg), a, e.args)
            IN  FaultIf(read, UsedWhileLent(read, e.args, [i \in DOMAIN e.args |-> "ref"], TRUE), "lent")
      [] e.k = "block" -> PassBlock(a, e.b)
      [] e.k = "if" -> PassBlock(PassBlock(PassExpr(a, e.c), e.then), e.else)
      [] e.k = "match" ->
            FoldLeft(LAMBDA got, arm : PassArm(got, e.head, arm), PassHead(a, e.head, e.arms), e.arms))
-----------------------------------------------------------------------------
(***************************************************************************)
(* The roots of the aliases, and what the function returns.                *)
(***************************************************************************)
DirectRoots(a, holds) ==
    [x \in DOMAIN a.loc |->
        IF ~a.loc[x].param /\ (a.loc[x].borrowed \/ (holds /\ a.loc[x].held))
        THEN a.loc[x].roots ELSE {}]

RECURSIVE RootsFrom(_)
RootsFrom(roots) ==
    LET more == [x \in DOMAIN roots |-> (roots[x] \cup UNION {roots[r] : r \in roots[x]}) \ {x}]
    IN  IF more = roots THEN roots ELSE RootsFrom(more)

AliasRoots(a, holds) == RootsFrom(DirectRoots(a, holds))

\* Mutant: a part may be returned whatever it is part of.
ClassOfAny(a) ==
    IF \E leaf \in a.returned : ~leaf.new THEN "Part" ELSE "New"

\* `classify_body`: new values, part of one parameter that may not change,
\* or an error.
ClassOf(a) ==
    LET alias == AliasRoots(a, FALSE)
        allowed == {x \in DOMAIN a.loc : a.loc[x].param /\ ~IsCopy(a.loc[x].ty)}
        rootless(x) == a.loc[x].borrowed /\ x \notin allowed
        terminal(leaf) ==
            {x \in UNION {IF alias[r] = {} THEN IF leaf.new THEN {} ELSE {r} ELSE alias[r] :
                          r \in leaf.roots} : alias[x] = {} /\ ~rootless(x)}
        parts == UNION {terminal(leaf) : leaf \in a.returned}
    IN  CASE \E leaf \in a.returned : ~leaf.new /\ terminal(leaf) = {} -> "Rootless"
          [] \E x \in parts : a.loc[x].param /\ a.loc[x].mutable -> "OfMutParam"
          [] ~(parts \subseteq allowed) -> "OfLocal"
          [] parts = {} -> "New"
          [] \E leaf \in a.returned : leaf.new -> "Mixed"
          [] OTHER -> IF Cardinality(parts) > 1 THEN "TwoRoots" ELSE "Part"
-----------------------------------------------------------------------------
(***************************************************************************)
(* The walk of the move rule and the alias rule over the tree.  w holds    *)
(* the marks, Nil where the code cannot be reached, what the function     *)
(* returns, and whether either rule reported.                              *)
(***************************************************************************)
FlowFacts(a) ==
    LET alias == AliasRoots(a, TRUE)
    IN  [x \in Locals |->
            [owns |-> IsCompound(a.loc[x].ty), borrowed |-> a.loc[x].borrowed,
             mutable |-> a.loc[x].mutable, held |-> a.loc[x].held, looked |-> FALSE,
             roots |-> SetToSeq(alias[x]), reads |-> {}]]

Hear(L, w, x, kind) ==
    IF w.marks = Nil THEN w
    ELSE LET told == TellAll(L, w.marks, <<Event(x, kind, 0)>>)
         IN  [w EXCEPT !.marks = [moved |-> told.moved, broken |-> told.broken],
                       !.bad = @ \/ told.badUses # {} \/ told.badAliases # {}]

HearEach(L, w, xs, kind) == FoldLeft(LAMBDA got, x : Hear(L, got, x, kind), w, SetToSeq(xs))

Join(w, other) == [w EXCEPT !.marks = Union(@, other.marks), !.bad = @ \/ other.bad]

RECURSIVE WalkExpr(_, _, _, _), WalkBlock(_, _, _, _)

\* What is done to the base when a field or an element is accessed.
OfBase(access) == IF access \in {"Change", "Replace"} THEN "Change" ELSE "Read"

WalkAll(L, w, es, access) == FoldLeft(LAMBDA got, e : WalkExpr(L, got, e, access), w, es)

\* The arguments where `at` stay lent until the call is made.
Lend(L, w, es, at) == HearEach(L, w, UNION {RootsOf(es[i]) : i \in at}, "Lent")

WalkCall(L, w, e) ==
    LET modes == ModesOf(e)
        access(i) == CASE modes[i] = "mut" -> "Change"
                       [] modes[i] = "own" -> IF Keeps(e) THEN "Move" ELSE "Read"
                       [] OTHER -> "Read"
        walked == FoldLeftDomain(LAMBDA got, i : WalkExpr(L, got, e.args[i], access(i)), w, e.args)
    IN  Lend(L, walked, e.args, {i \in DOMAIN e.args : modes[i] # "own"})

\* `while_` and `for_`: the body is walked twice, the second time from every
\* state that can reach the head.
WalkWhile(L, w, s) ==
    LET head == WalkExpr(L, w, s.c, "Read")
        again == WalkExpr(L, Join(w, WalkBlock(L, head, s.body, "Read")), s.c, "Read")
        last == WalkBlock(L, again, s.body, "Read")
    IN  [Join(head, again) EXCEPT !.bad = last.bad]

Round(L, w, s) ==
    LET round == WalkBlock(L, Hear(L, w, s.x, "Fresh"), s.body, "Read")
    IN  IF s.head.k # "range" /\ IsPlaceOrRooted(s.head) THEN Hear(L, round, s.x, "Held") ELSE round

WalkFor(L, w, s) ==
    LET place == s.head.k = "range" \/ IsPlaceOrRooted(s.head)
        head == IF s.head.k = "range" THEN WalkAll(L, w, s.head.args, "Read")
                ELSE WalkExpr(L, w, s.head, IF place THEN "Read" ELSE "Move")
        again == Join(head, Round(L, head, s))
    IN  Join(again, Round(L, again, s))

WalkStmt(L, from, s) == Given(from, LAMBDA w :
    CASE s.k = "let" -> Hear(L, WalkExpr(L, w, s.e, "Move"), s.x, "Bind")
      [] s.k = "assign" ->
            LET valued == WalkExpr(L, w, s.e, "Move")
            IN  IF s.t.k = "local" THEN Hear(L, valued, s.t.x, "Replace")
                ELSE WalkExpr(L, valued, s.t, "Change")
      [] s.k = "expr" -> WalkExpr(L, w, s.e, "Read")
      [] s.k = "return" ->
            [WalkExpr(L, w, s.e, IF w.ret = "unit" THEN "Read" ELSE "Move") EXCEPT !.marks = Nil]
      [] s.k = "while" -> WalkWhile(L, w, s)
      [] s.k = "for" -> WalkFor(L, w, s))

WalkBlock(L, w, b, access) ==
    WalkExpr(L, FoldLeft(LAMBDA got, s : WalkStmt(L, got, s), w, b.stmts), b.tail, access)

\* Each arm starts where the head left off.
WalkMatch(L, w, e, access) ==
    LET head == WalkExpr(L, w, e.head, IF IsPlaceOrRooted(e.head) THEN "Read" ELSE "Move")
        bound(arm) == FoldLeft(LAMBDA got, b : Hear(L, got, b.x, "Bind"), head, arm.binds)
    IN  FoldLeft(LAMBDA got, arm : Join(got, WalkExpr(L, bound(arm), arm.body, access)),
                 [head EXCEPT !.marks = Nil], e.arms)

WalkExpr(L, from, e, access) == Given(from, LAMBDA w :
    CASE e.k \in {"none", "int"} -> w
      [] e.k = "local" -> Hear(L, w, e.x, access)
      [] e.k = "field" -> WalkExpr(L, w, e.base, OfBase(access))
      [] e.k = "index" -> WalkExpr(L, WalkExpr(L, w, e.base, OfBase(access)), e.ix, "Read")
      [] e.k = "call" -> WalkCall(L, w, e)
      [] e.k = "new" -> WalkAll(L, w, e.args, "Move")
      [] e.k = "op" -> WalkAll(L, w, e.args, "Read")
      [] e.k = "fmt" -> Lend(L, WalkAll(L, w, e.args, "Read"), e.args, DOMAIN e.args)
      [] e.k = "block" -> WalkBlock(L, w, e.b, access)
      [] e.k = "if" ->
            LET cond == WalkExpr(L, w, e.c, "Read")
            IN  Join(WalkBlock(L, cond, e.then, access), WalkBlock(L, cond, e.else, access))
      [] e.k = "match" -> WalkMatch(L, w, e, access))
-----------------------------------------------------------------------------
\* Everything the pass finds of a function, and what the flow rules need.
PassedOver(fn) ==
    LET passed == PassBlock(Entered(fn), fn.body)
        done == IF fn.ret = "unit" \/ fn.body.tail.k = "none" THEN passed
                ELSE Returned(passed, fn.body.tail)
    IN  [loc |-> done.loc, ret |-> fn.ret, class |-> ClassOf(done), faults |-> done.faults,
         buffered |-> done.buffered, flow |-> FlowFacts(done)]

\* The rules that report: a value to be kept is one only if what is returned
\* is new.
Faults(fn, p) ==
    LET walked == WalkBlock(p.flow, [marks |-> Clean, ret |-> fn.ret, bad |-> FALSE],
                            fn.body, IF fn.ret = "unit" THEN "Read" ELSE "Move")
    IN  p.faults
        \cup (CASE p.class = "New" -> p.buffered
                [] p.class = "Part" -> {}
                [] OTHER -> {"return"})
        \cup (IF walked.bad THEN {"flow"} ELSE {})
=============================================================================
