------------------------------ MODULE MCNames ------------------------------
(* Trees of three modules with one name X and the use lines that reach it, *)
(* trees of four modules with neither, and programs of four types.         *)
EXTENDS Uses, RecursiveTypes, InlineTypes

CONSTANT Namespaces   \* those X is declared in

MCNames == <<"root", "m2", "m3", "m4">>
Line(l, p, b) == [lead |-> l, path |-> p, local |-> p[Len(p)], pub |-> b]

Lists(S) == {<<>>} \cup {<<Line(u[1], u[2], b)>> : u \in S, b \in BOOLEAN}
RootLists == Lists({<<"crate", <<"m2", "X">>>>, <<"none", <<"m3", "X">>>>}) \cup
  {<<Line("none", <<"m2">>, FALSE), Line("none", <<"m2", "X">>, TRUE)>>}
SecondLists == Lists({<<"crate", <<"X">>>>, <<"crate", <<"m3", "X">>>>, <<"none", <<"m3", "X">>>>}) \cup
  {<<Line("crate", <<"m3">>, FALSE), Line("none", <<"m3", "X">>, TRUE)>>,
   <<Line("crate", <<"m3", "X">>, TRUE), Line("super", <<"X">>, FALSE)>>}
ThirdLists == Lists({<<"crate", <<"m2", "X">>>>, <<"crate", <<"m2">>>>})

(* What a module declares as X.                                            *)
Xs(m) == {{}} \cup
  {{[module |-> m, name |-> "X", ns |-> n, pub |-> b]} : n \in Namespaces, b \in BOOLEAN} \cup
  {{[module |-> m, name |-> "X", ns |-> n, pub |-> IF n = "fn" THEN b ELSE c] : n \in Namespaces}
     : b \in BOOLEAN, c \in BOOLEAN}

Scope(p, b) == [parent |-> p, pub |-> b]

User(t) == [of |-> "user", args |-> t]
Holding(o, a) == [of |-> o, args |-> a]
Users == {User(t) : t \in 1 .. 3}
Payloads == {<<>>} \cup {<<t>> : t \in Users} \cup
  {<<Holding("elsewhere", <<t>>), User(4 - t.args)>> : t \in Users} \cup
  {<<Holding("result", <<Holding("option", <<t>>), u>>)>> : t \in Users, u \in Users} \cup
  {<<Holding("elsewhere", <<Holding("option", <<t>>)>>), User(1)>> : t \in Users} \cup
  {<<User(1), User(2)>>, <<User(3), User(2)>>}

InitNames ==
  /\ \E b2 \in BOOLEAN, b3 \in BOOLEAN, p \in {1, 2} :
       scopes = <<Scope(0, TRUE), Scope(1, b2), Scope(p, b3)>>
  /\ library = TRUE /\ names = SubSeq(MCNames, 1, 3)
  /\ \E x1 \in {{}, {[module |-> 1, name |-> "X", ns |-> "type", pub |-> FALSE]}}, x2 \in Xs(2), x3 \in Xs(3) : items = x1 \cup x2 \cup x3
  /\ \E r \in RootLists, s \in SecondLists, t \in ThirdLists : uses = <<r, s, t>>
  /\ UsesStart /\ TypesStart(<<>>)

InitTrees ==
  /\ \E b \in [2 .. 4 -> BOOLEAN], p3 \in 1 .. 2, p4 \in 1 .. 3 :
       scopes = <<Scope(0, TRUE), Scope(1, b[2]), Scope(p3, b[3]), Scope(p4, b[4])>>
  /\ library \in BOOLEAN /\ names = MCNames /\ items = {} /\ uses = <<<<>>, <<>>, <<>>, <<>>>>
  /\ UsesStart /\ TypesStart(<<>>)

InitTypes ==
  /\ scopes = <<Scope(0, TRUE)>> /\ library = FALSE /\ names = <<"root">> /\ items = {}
  /\ uses = <<<<>>>> /\ UsesStart
  /\ \E p1 \in Payloads, p2 \in Payloads, p3 \in Payloads :
       TypesStart(<<Targets(p1), Targets(p2), Targets(p3)>>)

InitResolve == InitTrees \/ InitNames \/ InitTypes
ResolveNext ==
  \/ UsesNext /\ UNCHANGED tvars
  \/ Done /\ TypesNext /\ UNCHANGED uvars
SpecResolve == InitResolve /\ [][ResolveNext]_<<uvars, tvars>>
=============================================================================
