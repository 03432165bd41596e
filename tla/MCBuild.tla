------------------------------ MODULE MCBuild ------------------------------
(* The way to a build: function bodies are checked and written in Rust,    *)
(* packages are read and published, and the directory of a build is        *)
(* written; one subject to a behaviour, the variables of the others at an  *)
(* idle input.                                                             *)
EXTENDS GeneratedTree, PublishedPackage, RustBorrows, TLC

CONSTANTS Passed(_), Compiled(_, _)

(* Function bodies for the borrow checker and the Rust backend: each is    *)
(* passed over, and what is accepted is written in Rust, which must keep   *)
(* Rust's borrow rules.  Comparisons of structs are left out: see README.  *)
VARIABLES fn, passed, compiled

plvars == <<fn, passed, compiled>>
-----------------------------------------------------------------------------
\* a: mut Q, b: Q and n: mut int are the parameters; x, y and z are of the body.
\* A Q has a P in its field p, a list of P in v, a shared P in s.
ia == 1
ib == 2
in == 3
ix == 4
iy == 5
iz == 6
MCLocals == 1..6

User(modes) ==
    [modes |-> modes, keeps |-> FALSE, rooted |-> 0, looked |-> FALSE,
     method |-> FALSE, builtin |-> FALSE]
Builtin(modes) == [User(modes) EXCEPT !.method = TRUE, !.builtin = TRUE]

MCFns ==
    [look |-> User(<<"ref">>), change |-> User(<<"mut">>), count |-> User(<<"ref", "ref">>),
     mix |-> User(<<"ref", "mut">>), mend |-> User(<<"mut", "ref">>),
     part |-> [User(<<"ref">>) EXCEPT !.rooted = 1],
     len |-> Builtin(<<"ref">>),
     push |-> [Builtin(<<"mut", "own">>) EXCEPT !.keeps = TRUE],
     first |-> [Builtin(<<"ref">>) EXCEPT !.rooted = 1, !.looked = TRUE]]

Num == [k |-> "int", ty |-> "int"]
Var(x, ty) == [k |-> "local", x |-> x, ty |-> ty]
Field(base, f, ty) == [k |-> "field", base |-> base, f |-> f, ty |-> ty]
Elem(base, e) == [k |-> "index", base |-> base, ix |-> e, ty |-> "P"]
New(ty) == [k |-> "new", args |-> <<>>, ty |-> ty]
CallOf(f, args, ty) == [k |-> "call", f |-> f, args |-> args, started |-> FALSE, ty |-> ty]
Printed(args) == [k |-> "fmt", args |-> args, ty |-> "unit"]
Body(stmts, tail) == [stmts |-> stmts, tail |-> tail]
Braced(stmts, tail) == [k |-> "block", b |-> Body(stmts, tail), ty |-> tail.ty]
IfElse(b1, b2) == [k |-> "if", c |-> Num, then |-> b1, else |-> b2, ty |-> b1.tail.ty]
Arm(binds, body) == [binds |-> binds, body |-> body]
MatchOn(head, arms, isLet) ==
    [k |-> "match", head |-> head, arms |-> arms, let |-> isLet, ty |-> arms[1].body.ty]

Let(x, e) == [k |-> "let", x |-> x, e |-> e]
Set(t, e) == [k |-> "assign", t |-> t, e |-> e]
Do(e) == [k |-> "expr", e |-> e]
Give(e) == [k |-> "return", e |-> e]
Loop(body) == [k |-> "while", c |-> Num, body |-> body]
Each(x, head, body) == [k |-> "for", x |-> x, head |-> head, body |-> body]

A == Var(ia, "Q")
B == Var(ib, "Q")
N == Var(in, "int")
X == Var(ix, "P")
Ap == Field(A, "p", "P")
Av == Field(A, "v", "V")
K(e) == Field(e, "k", "int")
Part(e) == CallOf("part", <<e>>, "P")
LookAt(e) == CallOf("look", <<e>>, "int")
Change(e) == CallOf("change", <<e>>, "unit")
Push(e) == CallOf("push", <<Av, e>>, "unit")
FirstOf(e) == CallOf("first", <<e>>, "O")

\* Values of type P that need no block.
Simple ==
    {Ap, Field(B, "p", "P"), Elem(Av, Num), Elem(Av, N), Field(Field(A, "s", "S"), "p", "P"),
     New("P"), Part(A), Part(B)}
\* ... and with one, which may name y.
Made(y, e) ==
    LET named == Var(y, "P")
        found == <<[x |-> y, whole |-> FALSE]>>
    IN  {Braced(<<Let(y, e)>>, named), IfElse(Body(<<>>, e), Body(<<Let(y, New("P"))>>, named)),
         IfElse(Body(<<>>, Ap), Body(<<>>, e)), Braced(<<Do(Change(A))>>, e),
         Braced(<<Let(y, e)>>, Field(named, "q", "P")),
         MatchOn(FirstOf(Av), <<Arm(found, named), Arm(<<>>, e)>>, TRUE),
         MatchOn(e, <<Arm(<<[x |-> y, whole |-> TRUE]>>, named)>>, FALSE)}
Values == Simple \cup UNION {Made(iy, e) : e \in {Ap, New("P"), Part(A)}}
Later == Simple \cup {X} \cup Made(iz, X)

\* What may be done with x and a value of type P, and with them alone.
With(e) ==
    {Do(LookAt(e)), Do(Change(e)), Set(Ap, e), Set(X, e), Do(Push(e)), Do(e),
     Do(CallOf("count", <<X, e>>, "int")),
     Do(CallOf("mix", <<X, e>>, "unit")), Do(CallOf("mend", <<X, e>>, "unit")),
     Do(Printed(<<K(X), K(e)>>)), Do(LookAt(Field(e, "q", "P"))),
     Do([CallOf("count", <<e, New("P")>>, "int") EXCEPT !.started = TRUE])}
Fixed ==
    {Set(A, New("Q")), Set(K(X), Num), Set(N, K(X)),
     Do(Change(A)), Do(Push(New("P"))), Do(LookAt(X)), Do(Change(X)),
     Do(LookAt(Elem(Av, LookAt(A)))), Do(Change(Elem(Av, K(X)))), Do(Change(Elem(Av, LookAt(A)))),
     Set(Elem(Av, K(Ap)), X), Set(K(Elem(Av, N)), Num),
     Set(K(Elem(Av, CallOf("len", <<Av>>, "int"))), Num),
     Do(CallOf("len", <<Av>>, "int")), Do(CallOf("len", <<Field(B, "v", "V")>>, "int")),
     Do(Printed(<<N, Braced(<<Set(N, Num)>>, Num)>>)),
     Do([k |-> "op", args |-> <<N, Braced(<<Set(N, Num)>>, Num)>>, ty |-> "int"]),
     Set(K(Field(Field(A, "s", "S"), "p", "P")), Num), Do(Change(Field(Field(B, "s", "S"), "p", "P"))),
     Do(LookAt(Elem(Av, Braced(<<Do(Push(New("P")))>>, Num)))),
     Do(CallOf("mend", <<Braced(<<Let(iy, K(X))>>, N), N>>, "unit"))}

\* Loops and ways out around one statement.
Turned(s) ==
    {Loop(Body(<<s>>, NoTail)), Each(iz, Av, Body(<<s>>, NoTail)),
     Each(iz, Av, Body(<<s, Do(LookAt(Var(iz, "P")))>>, NoTail)),
     Do(IfElse(Body(<<s>>, NoTail), Body(<<>>, NoTail))),
     Do(IfElse(Body(<<s, Give(NoTail)>>, NoTail), Body(<<>>, NoTail))),
     Do(MatchOn(FirstOf(Av),
                <<Arm(<<[x |-> iz, whole |-> FALSE]>>, Braced(<<s, Do(LookAt(Var(iz, "P")))>>, NoTail)),
                  Arm(<<>>, Braced(<<>>, NoTail))>>, FALSE))}
Inner == {Do(Change(A)), Do(Push(X)), Set(X, New("P")), Set(Ap, X), Do(LookAt(X)), Do(Change(X)), Let(iy, X)}

Fun(mut, ret, body) ==
    [locals |-> [l \in MCLocals |->
         [ty |-> CASE l \in {ia, ib} -> "Q" [] l = in -> "int" [] OTHER -> "P",
          mut |-> l \in {ia, in} \/ l \in mut, param |-> l <= 3]],
     ret |-> ret, body |-> body]

\* A `let` of x, one thing done with a value, and one thing that tells
\* whether x and a are still as they were.
InitStraight(values, later, last) ==
    \E mut \in {{}, {ix}}, e \in values, l \in later, t \in last :
        \E s \in With(l) : fn = Fun(mut, "unit", Body(<<Let(ix, e), s, t>>, NoTail))
InitPlain(last) ==
    \E mut \in {{}, {ix}}, e \in Values, s \in Fixed, t \in last :
        fn = Fun(mut, "unit", Body(<<Let(ix, e), s, t>>, NoTail))

\* The thing done in a loop or an arm, or before a way out.
InitTurning(values) ==
    \E mut \in {{}, {ix}}, e \in values, inner \in Inner :
        \E s \in Turned(inner) : fn = Fun(mut, "unit", Body(<<Let(ix, e), s, Do(LookAt(X))>>, NoTail))

\* One value returned early, another at the end.
InitReturning ==
    \E e \in Values, early \in {Ap, New("P"), Part(B), X}, tail \in Simple \cup {X} \cup Made(iz, X) :
        LET out == Do(IfElse(Body(<<Give(early)>>, NoTail), Body(<<>>, NoTail)))
        IN  fn = Fun({}, "P", Body(<<Let(ix, e), out>>, tail))
-----------------------------------------------------------------------------
Unread == [faults |-> {"unread"}]
Unpassed == passed = Unread /\ compiled = "untried"
MCCompiled(f, p) ==
    LET refused == Faults(f, p) # {}
    IN  IF refused THEN "refused" ELSE IF Compiles(p, BodyText(p, f)) THEN "compiles" ELSE "fails"

InitPlaces ==
    /\ \/ InitStraight(Simple, Later, {Do(LookAt(X)), Do(Change(A))})
       \/ InitStraight(Values \ Simple, Simple \cup {X}, {Do(LookAt(X))})
       \/ InitPlain({Do(LookAt(X))})
       \/ InitTurning(Values)
       \/ InitReturning
    /\ Unpassed

\* The body is passed over, then walked by the flow rules, then written in
\* Rust; the last is tried.
Pass ==
    /\ passed = Unread
    /\ passed' = Passed(fn)
    /\ UNCHANGED <<fn, compiled>>

Compile ==
    /\ passed # Unread /\ compiled = "untried"
    /\ compiled' = Compiled(fn, passed)
    /\ UNCHANGED <<fn, passed>>

PlacesNext == Pass \/ Compile

SpecPlaces == InitPlaces /\ [][PlacesNext]_plvars

\* A body the borrow checker accepts is written as Rust that keeps Rust's
\* borrow rules (tests/soundness.rs:1): what the pass finds a name to be, the
\* flow rules allow, and the backend writes, fit one another.
AcceptedBorrows == compiled # "fails"
-----------------------------------------------------------------------------
CONSTANTS P, Q, main, util, net, tp, tq, te, lk

(* Two programs, one with a file below src/net and a lock, one without:    *)
(* both have their own root file and share nothing else.                   *)
MCFiles == <<main, util, net>>
MCText == (P :> (main :> tp @@ util :> te @@ net :> Absent)) @@
          (Q :> (main :> tq @@ util :> Absent @@ net :> te))
MCLock == P :> Absent @@ Q :> lk

(* Packages that differ from a plain one in one part: the manifest, the    *)
(* packages it depends on, the lines of varyk-std, or the module tree.     *)
MCNoTable == {"none"}
AtMostOne(S) == {{}} \cup {{x} : x \in S}
AtMostTwo(S) == {{}} \cup {{x, y} : x \in S, y \in S}

(* Manifests.                                                              *)
Plain1(k) ==
  [read |-> "ok", top |-> {}, deps |-> {}, pkg |-> {}, name |-> "plain",
   version |-> "ok", edition |-> "ok",
   bin |-> IF k = "bin" THEN {"name", "vr"} ELSE NoTable,
   lib |-> IF k = "lib" THEN {"crate", "vr"} ELSE NoTable,
   files |-> {IF k = "bin" THEN "main.vr" ELSE "lib.vr"}, around |-> "none"]

Pkg == {"missing", "unknown", "autofalse", "autotrue", "shape", "inherited", "badrust",
        "links", "script", "nobuild", "filter", "root", "resolver"}
Tops == {"unknown", "test", "nottable", "lints", "override", "workspace", "profile"}
Around == {"none", "plain", "override", "nottable", "nomanifest"}
Tables == {NoTable, {}, {"list"}, {"vr"}, {"rs"}} \cup
  {{n, v} : n \in {"name", "crate", "other"}, v \in {"vr", "rs", "elsewhere", "extra"}}

(* Start(m): the package whose manifest is m, plain in the other parts.   *)
SomeManifest(Starts(_)) == \E k \in {"bin", "lib"} :
  \/ \E p \in AtMostTwo(Pkg), t \in AtMostOne(Tops), a \in Around :
       Starts([Plain1(k) EXCEPT !.pkg = p, !.top = t, !.around = a])
  \/ \E n \in {"plain", "dashed", "bad", "deps"}, t \in Tables,
        f \in AtMostOne({"main.vr", "lib.vr", "main.rs", "lib.rs", "tests", "examples", "src/bin"}) :
       \/ Starts([Plain1(k) EXCEPT !.name = n, !.bin = t, !.files = @ \cup f])
       \/ Starts([Plain1(k) EXCEPT !.name = n, !.lib = t, !.files = @ \cup f])
  \/ \E r \in {"ok", "unreadable", "malformed"}, v \in {"ok", "bad", "none"},
        e \in {"ok", "bad", "none"}, d \in SUBSET {"inherited", "std", "platform", "relative"},
        p \in {{}, {"filter"}} :
       Starts([Plain1(k) EXCEPT !.read = r, !.version = v, !.edition = e, !.deps = d, !.pkg = p])

(* Lines of varyk-std, and the versions there are.                         *)
MCVersions == {<<0, 1>>, <<1, 0>>, <<1, 1>>, <<1, 2>>, <<2, 0>>}
MCLines == MCVersions \cup {NoLine, Odd}
MCLocked == {L \in SUBSET MCVersions : \A v, w \in L : v[1] = w[1] => v = w}
MCPackagesUse == {[uses |-> u, logs |-> l, line |-> x] : u \in BOOLEAN, l \in BOOLEAN, x \in MCLines}
MCStd == {[uses |-> u, line |-> x, packages |-> ps, locked |-> L, binary |-> b] :
  u \in BOOLEAN, x \in MCLines, L \in MCLocked, b \in BOOLEAN,
  ps \in AtMostOne({p \in MCPackagesUse : p.logs => p.uses})}
NoStd == [uses |-> FALSE, line |-> NoLine, packages |-> {}, locked |-> {}, binary |-> FALSE]
MCCompiler == <<1, 1>>
MCNoLine == <<>>
MCOdd == <<0>>

(* Graphs; with `back`, the last package leads back to the program, and a  *)
(* twin has the name and version of the one before it or of the program.   *)
Edge(e) == [to |-> e[1], ways |-> e[2]]
EdgesOf(w, n, down) ==
  LET tos == SelectSeq([i \in 1 .. MaxNodes - n |-> n + i], LAMBDA t : w[<<n, t>>] # {})
      turned == [i \in 1 .. Len(tos) |-> IF down THEN tos[Len(tos) + 1 - i] ELSE tos[i]]
  IN [i \in 1 .. Len(tos) |-> Edge(<<turned[i], w[<<n, turned[i]>>]>>)]
Pairs == {p \in (1 .. MaxNodes) \X (1 .. MaxNodes) : p[1] < p[2]}
Reachable(w) == \A t \in 2 .. MaxNodes : \E n \in 1 .. t - 1 : w[<<n, t>>] # {}
GraphOf(w, v, twin, down, back) ==
  [n \in 1 .. MaxNodes |->
     [varyk |-> n \in v,
      name |-> IF n # MaxNodes \/ twin = "no" THEN n ELSE IF twin = "own" THEN Root ELSE n - 1,
      path |-> twin = "folder" \/ n = Root,
      edges |-> EdgesOf(w, n, down) \o
                IF back /\ n = MaxNodes THEN <<Edge(<<Root, {"plain"}>>)>> ELSE <<>>]]
NoGraph == <<[varyk |-> FALSE, name |-> 1, path |-> TRUE, edges |-> <<>>]>>
MCWays == {{"plain"}, {"other"}, {"plain", "optional"}}

(* Module trees of two levels.                                             *)
MCModuleNames == {"a", "b", "main", "bin", "Task"}
Vr(d) == [kind |-> "varyk", decls |-> d]
Leaf(k) == [kind |-> k, decls |-> <<>>]
Top == {<<>>, <<"a">>, <<"a", "b">>, <<"a", "a">>, <<"main", "a">>, <<"bin", "b">>, <<"Task">>}
Below == {<<>>, <<"b">>, <<"bin", "b">>, <<"b", "b">>}
VrFile == {Vr(d) : d \in Below} \cup {Leaf("syntax"), Leaf("unreadable")}
RustFiles == {Leaf("absent"), Leaf("rust"), Leaf("odd")}
FilesOf(a, mod, rs, b, below, belowRs) ==
  LET all == (<<<<>>, "a", "vr">> :> a) @@ (<<<<>>, "a", "mod">> :> mod) @@
             (<<<<>>, "a", "rs">> :> rs) @@ (<<<<>>, "b", "vr">> :> b) @@
             (<<<<"a">>, "b", "vr">> :> below) @@ (<<<<"a">>, "b", "rs">> :> belowRs) @@
             (<<<<"a">>, "bin", "mod">> :> Vr(<<>>)) @@ (<<<<>>, "bin", "vr">> :> Vr(<<>>))
  IN [p \in {q \in DOMAIN all : all[q].kind # "absent"} |-> all[p]]

Start(m, s, g, f, d) ==
  /\ manifest = m /\ std = s /\ graph = g /\ files = f /\ modules = <<Entry(d)>>
  /\ PackagesStart

StartsManifest(m) == Start(m, NoStd, NoGraph, <<>>, <<>>)

InitPackages ==
  \/ SomeManifest(StartsManifest)
  \/ \E s \in MCStd : Start(Plain1(IF s.binary THEN "bin" ELSE "lib"), s, NoGraph, <<>>, <<>>)
  \/ \E w \in {x \in [Pairs -> Ways \cup {{}}] : Reachable(x)}, v \in SUBSET (2 .. MaxNodes),
        t \in {<<"no", FALSE, FALSE>>, <<"no", TRUE, TRUE>>, <<"folder", FALSE, FALSE>>,
               <<"registry", TRUE, FALSE>>, <<"own", TRUE, FALSE>>} :
       Start(Plain1("lib"), NoStd, GraphOf(w, v, t[1], t[2], t[3]), <<>>, <<>>)
  \/ \E a \in VrFile \cup {Leaf("absent")}, mod \in {Leaf("absent"), Vr(<<"b">>), Leaf("syntax")},
        rs \in RustFiles, b \in {Leaf("absent"), Vr(<<>>)},
        below \in {Leaf("absent"), Vr(<<>>), Leaf("syntax")}, belowRs \in RustFiles, d \in Top :
       Start(Plain1("lib"), NoStd, NoGraph, FilesOf(a, mod, rs, b, below, belowRs), d)

VARIABLE subject

IdlePackages == Start(Plain1("lib"), NoStd, NoGraph, <<>>, <<>>)
IdleTree ==
  /\ place = "build" /\ linked = FALSE /\ theirs = FALSE /\ made = FALSE
  /\ Untouched /\ Unstarted /\ prog = [b \in Builds |-> P]
IdleBody == fn = Fun({}, "unit", Body(<<>>, NoTail)) /\ Unpassed

InitBuild ==
  \/ subject = "tree" /\ InitTree /\ IdlePackages /\ IdleBody
  \/ subject = "packages" /\ InitPackages /\ IdleTree /\ IdleBody
  \/ subject = "body" /\ InitPlaces /\ IdlePackages /\ IdleTree

BuildNext ==
  \/ subject = "tree" /\ TreeNext /\ UNCHANGED <<subject, pvars, plvars>>
  \/ subject = "packages" /\ PackagesNext /\ UNCHANGED <<subject, treevars, plvars>>
  \/ subject = "body" /\ PlacesNext /\ UNCHANGED <<subject, treevars, pvars>>

SpecBuild == InitBuild /\ [][BuildNext]_<<subject, treevars, pvars, plvars>>
=============================================================================
