---------------------------- MODULE RustBorrows ----------------------------
(***************************************************************************)
(* External: Rust's borrow rules (edition 2024), as far as the emitted     *)
(* bodies of Emission can break them, told of one run through the body at  *)
(* a time.  A run is the set of its outcomes, each a machine and a value.  *)
(*                                                                         *)
(* A path is a local followed by fields and dereferences.  A loan is a     *)
(* path and whether it is `&mut`; an access that conflicts with a loan     *)
(* ends it, and using a reference of an ended loan is the error.  So is    *)
(* using a moved local, moving out of a reference, changing what may not   *)
(* change, and giving a value of another form than is wanted.  rustc joins *)
(* the runs where this tells them apart, so it may reject more; loops run  *)
(* none, once or twice.                                                    *)
(*                                                                         *)
(* The machine: what each local and temporary holds (vals), the paths      *)
(* moved, the loans and the ended ones, the temporaries that die with the  *)
(* statement (temps) or with the block (kept), the next fresh number, and  *)
(* whether the run is in error or has returned (gone).                     *)
(***************************************************************************)
EXTENDS Emission

Star == "*"         \* a dereference in a path
Fresh == 100        \* temporaries and loans are numbered from here

OwnValue == [rk |-> "own", loans |-> {}]
Out(m, v) == [m |-> m, v |-> v]
One(m, v) == {Out(m, v)}
Failed(m) == One([m EXCEPT !.err = TRUE], OwnValue)

\* The outcomes of f after those of `outs` that go on.
After(outs, f(_, _)) ==
    UNION {IF o.m.err \/ o.m.gone THEN {o} ELSE f(o.m, o.v) : o \in outs}

Alive(m, loans) == loans \cap m.ended = {}

\* A value taken out of a local is used: its references must be.
Check(m, v) == IF Alive(m, v.loans) THEN One(m, v) ELSE Failed(m)

(***************************************************************************)
(* Accesses, loans and the end of storage.                                 *)
(***************************************************************************)
Conflict(p, q) == p.root = q.root /\ (IsPrefix(p.steps, q.steps) \/ IsPrefix(q.steps, p.steps))

End(m, these) ==
    [m EXCEPT !.loans = {l \in @ : l.id \notin these}, !.ended = @ \cup these]

\* A read ends the `&mut` loans it meets, a write every loan.
Access(m, path, write) ==
    End(m, {l.id : l \in {k \in m.loans : Conflict(k.path, path) /\ (write \/ k.mut)}})

\* What borrows the storage itself ends with it, not what it refers to.
Dead(m, xs) ==
    LET ended == {l \in m.loans : l.path.root \in xs /\ Star \notin Range(l.path.steps)}
    IN  [End(m, {l.id : l \in ended}) EXCEPT
            !.vals = [x \in DOMAIN @ \ xs |-> @[x]], !.moved = {p \in @ : p.root \notin xs}]

Hold(m, x, v, copy, mut) ==
    [m EXCEPT !.vals = (x :> [rk |-> v.rk, loans |-> v.loans, copy |-> copy, mut |-> mut]) @@ @,
              !.moved = {p \in @ : p.root # x}]

\* A place: its path, the references it is reached through, what is there,
\* whether it may be changed, and whether no new loan is kept of it.
LocalPlace(m, x) ==
    LET held == m.vals[x]
    IN  [path |-> [root |-> x, steps |-> <<>>], via |-> {}, rk |-> held.rk, loans |-> held.loans,
         copy |-> held.copy /\ held.rk = "own", wr |-> held.mut, frozen |-> FALSE]

Through(pl) ==
    [path |-> [pl.path EXCEPT !.steps = Append(@, Star)], via |-> pl.via \cup pl.loans,
     rk |-> "own", loans |-> {}, copy |-> TRUE, wr |-> pl.rk = "mut", frozen |-> pl.frozen \/ pl.rk = "ref"]

AutoDeref(pl) == IF pl.rk = "own" THEN pl ELSE [Through(pl) EXCEPT !.copy = FALSE]

Usable(m, pl) == (\A p \in m.moved : ~Conflict(p, pl.path)) /\ Alive(m, pl.via)

\* `&pl` or `&mut pl`.  A two-phase loan is shared until its call is made.
Borrow(m, pl, mut, twoPhase) ==
    IF ~Usable(m, pl) \/ (mut /\ ~pl.wr) THEN Failed(m)
    ELSE LET met == Access(m, pl.path, mut /\ ~twoPhase)
             loan == [id |-> m.n, path |-> pl.path, mut |-> mut /\ ~twoPhase]
             kind == IF mut THEN "mut" ELSE "ref"
         IN  IF pl.frozen THEN One(met, [rk |-> kind, loans |-> pl.via])
             ELSE One([met EXCEPT !.loans = @ \cup {loan}, !.n = @ + 1],
                      [rk |-> kind, loans |-> pl.via \cup {m.n}])

\* The two-phase loans of a call's arguments, in order, become `&mut`.
Activate(m, ids) ==
    FoldLeft(LAMBDA got, id :
                 IF id \notin {l.id : l \in got.loans} THEN got
                 ELSE LET loan == CHOOSE l \in got.loans : l.id = id
                          rest == Access([got EXCEPT !.loans = @ \ {loan}], loan.path, TRUE)
                      IN  [rest EXCEPT !.loans = @ \cup {[loan EXCEPT !.mut = TRUE]}],
             m, ids)

\* A temporary for v, until the statement ends or, extended, the block.
Spill(m, v, extended) ==
    LET t == m.n
        held == Hold([m EXCEPT !.n = @ + 1], t, v, FALSE, TRUE)
    IN  IF extended THEN [held EXCEPT !.kept = @ \cup {t}] ELSE [held EXCEPT !.temps = @ \cup {t}]

\* The value at a place, as what is wanted: a reference is copied, a `&mut`
\* is reborrowed or moved, and nothing moves out of one.
ValueAt(m, pl, want, twoPhase) ==
    LET read == Access(m, pl.path, FALSE)
    IN  CASE ~Usable(m, pl) -> Failed(m)
          [] Usable(m, pl) /\ pl.copy -> IF want \in {"own", "any"} THEN One(read, OwnValue) ELSE Failed(m)
          [] Usable(m, pl) /\ ~pl.copy /\ pl.rk = "own" ->
                IF want \notin {"own", "any"} \/ Star \in Range(pl.path.steps) THEN Failed(m)
                ELSE One([Access(m, pl.path, TRUE) EXCEPT !.moved = @ \cup {pl.path}],
                         [rk |-> "own", loans |-> pl.loans])
          [] Usable(m, pl) /\ ~pl.copy /\ pl.rk = "ref" ->
                IF want \notin {"ref", "any"} THEN Failed(m)
                ELSE Check(read, [rk |-> "ref", loans |-> pl.loans])
          [] Usable(m, pl) /\ ~pl.copy /\ pl.rk = "mut" ->
                CASE want = "own" -> Failed(m)
                  [] want = "any" ->
                        Check([Access(m, pl.path, TRUE) EXCEPT !.moved = @ \cup {pl.path}],
                              [rk |-> "mut", loans |-> pl.loans])
                  [] OTHER -> Borrow(m, Through(pl), want = "mut", twoPhase)

\* A value where another form is wanted: a `&mut` serves as a `&`.
Coerce(m, v, want) ==
    IF want \in {"any", v.rk} THEN One(m, v)
    ELSE IF want = "ref" /\ v.rk = "mut" THEN One(m, [v EXCEPT !.rk = "ref"]) ELSE Failed(m)
-----------------------------------------------------------------------------
(***************************************************************************)
(* Evaluation.  d is what the body declares of its locals; `ext` says that *)
(* the temporaries borrowed here live as long as the `let` around them.    *)
(***************************************************************************)
RECURSIVE Run(_, _, _, _, _), PlaceOf(_, _, _, _, _), RunBlock(_, _, _, _, _, _)

IsPlaceText(e) == e.r \in {"path", "deref", "field", "index"}

\* A place as an operand: its own, or a temporary's.
Operand(d, m, e, mut, ext) ==
    IF IsPlaceText(e) THEN PlaceOf(d, m, e, mut, ext)
    ELSE After(Run(d, m, e, "any", ext),
               LAMBDA n, v : LET s == Spill(n, v, ext) IN One(s, LocalPlace(s, n.n)))

\* The outcomes' value is the place.  An element is reached by a call that
\* borrows its list; the target of an `Arc` by a call that borrows it.
PlaceOf(d, m, e, mut, ext) ==
    LET reached(n, v, copy) ==
            LET s == Spill(n, v, ext)
            IN  IF ~Alive(n, v.loans) THEN Failed(n)
                ELSE One(s, [Through(LocalPlace(s, n.n)) EXCEPT !.copy = copy])
    IN  CASE e.r = "path" -> One(m, LocalPlace(m, e.x))
          [] e.r = "deref" ->
                After(Operand(d, m, e.e, mut, ext),
                      LAMBDA n, pl : IF pl.rk = "own" THEN Failed(n) ELSE One(n, Through(pl)))
          [] e.r = "field" /\ ~e.arc ->
                After(Operand(d, m, e.base, mut, ext),
                      LAMBDA n, pl : One(n, [AutoDeref(pl) EXCEPT !.path.steps = Append(@, e.f), !.copy = e.copy]))
          [] e.r = "field" /\ e.arc ->
                After(After(Operand(d, m, e.base, mut, ext),
                            LAMBDA n, pl : Borrow(n, AutoDeref(pl), FALSE, FALSE)),
                      LAMBDA n, v : reached(n, v, e.copy))
          [] e.r = "index" ->
                After(After(Operand(d, m, e.base, mut, ext),
                            LAMBDA n, pl : Borrow(n, AutoDeref(pl), mut, FALSE)),
                      LAMBDA n, v : After(Run(d, n, e.ix, "own", FALSE),
                                          LAMBDA o, ix : reached(o, v, e.copy)))

\* The arguments of a call, each as f gives it; the outcomes' value is all of
\* theirs.  What they lend must last until all are there and the two-phase
\* loans, the newest of a `&mut` argument's, are the call's.
RunArgs(m, args, f(_, _), mutable(_)) ==
    LET evaluated ==
            FoldLeftDomain(LAMBDA outs, i :
                After(outs, LAMBDA n, vs :
                    After(f(n, i), LAMBDA o, v : One(o, [all |-> Append(vs.all, v)]))),
                One(m, [all |-> <<>>]), args)
    IN  After(evaluated, LAMBDA n, vs :
            LET lent == SelectSeq(vs.all, mutable)
                called == Activate(n, [k \in DOMAIN lent |-> Max(lent[k].loans)])
            IN  IF \A v \in Range(vs.all) : Alive(called, v.loans) THEN One(called, vs) ELSE Failed(n))

Never(v) == FALSE

\* A built-in's receiver is borrowed as it needs.
RunCall(d, m, e) ==
    LET sig == Fns[e.f]
        arg(n, i) ==
            IF sig.builtin /\ i = 1 /\ sig.modes[1] # "own"
            THEN After(Operand(d, n, e.args[1], sig.modes[1] = "mut", FALSE),
                       LAMBDA o, pl : Borrow(o, AutoDeref(pl), sig.modes[1] = "mut", TRUE))
            ELSE IF sig.modes[i] = "mut" /\ e.args[i].r = "path"
            THEN ValueAt(n, LocalPlace(n, e.args[i].x), "mut", TRUE)
            ELSE Run(d, n, e.args[i], sig.modes[i], FALSE)
    IN  After(RunArgs(m, e.args, arg, LAMBDA v : v.rk = "mut"),
              LAMBDA n, vs :
                  IF sig.rooted = 0 THEN One(n, OwnValue)
                  ELSE One(n, [rk |-> IF sig.looked THEN "own" ELSE "ref", loans |-> vs.all[sig.rooted].loans]))

\* Operands compared in place are borrowed, and so is what is printed.
RunOperands(d, m, e) ==
    LET lent(n, pl) ==
            After(Borrow(n, pl, FALSE, FALSE), LAMBDA o, v : One(o, [v EXCEPT !.loans = @ \cup pl.loans]))
        arg(n, i) ==
            IF e.r = "fmt" \/ IsPlaceText(e.args[i])
            THEN After(Operand(d, n, e.args[i], FALSE, FALSE),
                       LAMBDA o, pl : IF e.r = "op" /\ pl.copy THEN ValueAt(o, pl, "any", FALSE)
                                      ELSE lent(o, pl))
            ELSE Run(d, n, e.args[i], "any", FALSE)
    IN  After(RunArgs(m, e.args, arg, Never), LAMBDA n, vs : One(n, OwnValue))

\* f in a scope of its own for temporaries.
Scoped(m, f(_)) ==
    {[o EXCEPT !.m = [Dead(@, @.temps) EXCEPT !.temps = m.temps]] : o \in f([m EXCEPT !.temps = {}])}

\* All the ways a value is made give it one form.
SameForm(outs) ==
    LET live == {o \in outs : ~o.m.err /\ ~o.m.gone}
    IN  IF Cardinality({o.v.rk : o \in live}) <= 1 THEN outs
        ELSE {[o EXCEPT !.m.err = TRUE] : o \in outs}

(***************************************************************************)
(* A `match`.  What is bound through a reference, or in a looked-into      *)
(* result, is a reference; a Copy value so bound is copied first.  An      *)
(* `if let` drops its head's temporaries before its `else`.                *)
(***************************************************************************)
BindArm(d, m, arm, v) ==
    LET bound == FoldLeft(LAMBDA got, x :
                     LET ref == v.rk # "own" \/ v.loans # {}
                         copied == x \in arm.copies \/ (~ref /\ IsCopy(d[x].ty))
                     IN  Hold(got, x, IF copied \/ ~ref THEN OwnValue
                                      ELSE [rk |-> IF v.rk = "mut" THEN "mut" ELSE "ref", loans |-> v.loans],
                              copied, FALSE),
                     m, SetToSeq(arm.binds))
    IN  IF arm.copies # {} /\ ~Alive(m, v.loans) THEN [bound EXCEPT !.err = TRUE] ELSE bound

RunArm(d, m, arm, v, want, ext) ==
    LET bound == BindArm(d, m, arm, v)
    IN  {[o EXCEPT !.m = Dead(@, arm.binds)] :
         o \in IF bound.err THEN Failed(bound)
               ELSE Scoped(bound, LAMBDA n : Run(d, n, arm.body, want, ext))}

RunMatch(d, m, e, want, ext) ==
    LET looked(n) == After(Run(d, n, e.head, "any", FALSE), Check)
        way(n, i) == After(looked(n), LAMBDA o, v : RunArm(d, o, e.arms[i], v, want, ext))
        other(i) == After(Scoped(m, looked), LAMBDA n, v : RunArm(d, n, e.arms[i], OwnValue, want, ext))
    IN  IF e.let
        THEN Scoped(m, LAMBDA n : way(n, 1)) \cup UNION {other(i) : i \in DOMAIN e.arms \ {1}}
        ELSE UNION {way(m, i) : i \in DOMAIN e.arms}

\* At the end of a block its locals die, and the temporaries its `let`s
\* kept; those of its tail die before them, or live on with the tail.
RunTail(d, m, tail, want, ext) ==
    IF tail.r = "none" THEN One(m, OwnValue)
    ELSE Scoped(m, LAMBDA n : Run(d, n, tail, want, ext))

Run(d, m, e, want, ext) ==
    CASE e.r = "lit" -> Coerce(m, OwnValue, want)
      [] IsPlaceText(e) ->
            After(PlaceOf(d, m, e, FALSE, ext), LAMBDA n, pl : ValueAt(n, pl, want, FALSE))
      [] e.r = "ref" ->
            After(After(Operand(d, m, e.e, e.mut, ext), LAMBDA n, pl : Borrow(n, pl, e.mut, FALSE)),
                  LAMBDA n, v : Coerce(n, v, want))
      [] e.r = "new" ->
            After(RunArgs(m, e.args, LAMBDA n, i : Run(d, n, e.args[i], "own", FALSE), Never),
                  LAMBDA n, vs : Coerce(n, OwnValue, want))
      [] e.r = "call" -> After(RunCall(d, m, e), LAMBDA n, v : Coerce(n, v, want))
      [] e.r \in {"op", "fmt"} -> After(RunOperands(d, m, e), LAMBDA n, v : Coerce(n, v, want))
      [] e.r = "if" ->
            SameForm(After(Scoped(m, LAMBDA n : Run(d, n, e.c, "own", FALSE)),
                           LAMBDA n, c : RunBlock(d, n, e.then, want, ext, {})
                                            \cup RunBlock(d, n, e.else, want, ext, {})))
      [] e.r = "match" -> SameForm(RunMatch(d, m, e, want, ext))
      [] e.r = "block" -> RunBlock(d, m, e, want, ext, {})
-----------------------------------------------------------------------------
(* Statements. *)

StoreAt(m, pl) ==
    LET met == Access(m, pl.path, TRUE)
        partOfMoved == \E p \in m.moved : p # pl.path /\ Conflict(p, pl.path) /\ IsPrefix(p.steps, pl.path.steps)
    IN  IF ~Alive(m, pl.via) \/ ~pl.wr \/ partOfMoved THEN Failed(m)
        ELSE One([met EXCEPT !.moved = {p \in @ : ~Conflict(p, pl.path)}], OwnValue)

\* A reference may leave the function only if all it needs comes from its
\* caller, whose loans are the numbers of the parameters.
Leave(m, v) ==
    LET left == Dead(m, DOMAIN m.vals)
    IN  After(Check(left, v), LAMBDA n, w : One([n EXCEPT !.gone = TRUE], w))

Iteration(d, m, s, head) ==
    LET item == [rk |-> IF head.loans = {} THEN "own" ELSE "ref", loans |-> head.loans]
        x == IF s.copied THEN OwnValue ELSE item
    IN  After(Check(m, head),
              LAMBDA n, v : RunBlock(d, Hold(n, s.x, x, IsCopy(d[s.x].ty), FALSE), s.body, "own", FALSE, {s.x}))

RunStmt(d, m, s) ==
    CASE s.r = "let" ->
            After(Run(d, m, s.e, "any", TRUE),
                  LAMBDA n, v : One(Hold(n, s.x, v, IsCopy(d[s.x].ty), d[s.x].declared), OwnValue))
      [] s.r = "set" ->
            After(After(Run(d, m, s.e, "own", FALSE), LAMBDA n, v : PlaceOf(d, n, s.t, TRUE, FALSE)),
                  StoreAt)
      [] s.r = "expr" -> Run(d, m, s.e, "any", FALSE)
      [] s.r = "return" ->
            IF s.e.r = "none" THEN Leave(m, OwnValue) ELSE After(Run(d, m, s.e, "any", FALSE), Leave)
      [] s.r = "while" ->
            LET cond(outs) == After(outs, LAMBDA n, v : Scoped(n, LAMBDA o : Run(d, o, s.c, "own", FALSE)))
                turn(outs) == After(outs, LAMBDA n, c : RunBlock(d, n, s.body, "own", FALSE, {}))
                none == cond(One(m, OwnValue))
                once == cond(turn(none))
            IN  none \cup once \cup cond(turn(once))
      [] s.r = "for" ->
            After(Run(d, m, s.head, "any", FALSE),
                  LAMBDA n, head :
                      LET turn(outs) == After(outs, LAMBDA o, v : Iteration(d, o, s, head))
                          last(outs) == After(outs, LAMBDA o, v : Check(o, head))
                          once == turn(One(n, OwnValue))
                      IN  One(n, OwnValue) \cup last(once) \cup last(turn(once)))

RunBlock(d, m, b, want, ext, bound) ==
    LET ran == FoldLeft(LAMBDA outs, s :
                            After(outs, LAMBDA n, v : Scoped(n, LAMBDA o : RunStmt(d, o, s))),
                        One([m EXCEPT !.kept = {}], OwnValue), b.stmts)
        lets == {s.x : s \in {t \in Range(b.stmts) : t.r = "let"}} \cup bound
    IN  After(ran, LAMBDA n, v :
            {[o EXCEPT !.m = Dead(@, (lets \cap DOMAIN @.vals) \cup n.kept)] :
             o \in RunTail(d, [n EXCEPT !.kept = m.kept], b.tail, want, ext)})
-----------------------------------------------------------------------------
\* Where the body starts: the parameters hold what the caller lends.
Entrance(a) ==
    LET params == {x \in DOMAIN a.loc : a.loc[x].param}
    IN  [vals |-> [x \in params |->
             [rk |-> Repr(a, x), loans |-> IF Repr(a, x) = "own" THEN {} ELSE {x},
              copy |-> IsCopy(a.loc[x].ty) /\ Repr(a, x) = "own", mut |-> FALSE]],
         moved |-> {}, loans |-> {}, ended |-> {}, temps |-> {}, kept |-> {}, n |-> Fresh,
         err |-> FALSE, gone |-> FALSE]

\* Every run through the body ends well, and all that return a reference
\* return one that needs the same parameter.
Compiles(a, body) ==
    LET want == IF a.class = "Part" /\ a.ret # "unit" THEN "ref" ELSE "any"
        ends == After(RunBlock(a.loc, Entrance(a), body, want, FALSE, {}), Leave)
    IN  /\ \A o \in ends : ~o.m.err
        /\ a.class = "Part" => \E x \in DOMAIN a.loc : \A o \in ends : o.v.loans \subseteq {x}
        /\ a.class # "Part" /\ a.ret # "unit" => \A o \in ends : o.v.rk = "own"
=============================================================================
