------------------------------- MODULE MCFlow -------------------------------
(***************************************************************************)
(* Small functions for TLC: in each, a few locals that stand in one of the *)
(* relations the rules tell apart, and the statements that matter to it.   *)
(***************************************************************************)
EXTENDS FlowRuns

MCLocals == {"o", "a", "b"}

Owned == [owns |-> TRUE, borrowed |-> FALSE, mutable |-> TRUE, held |-> FALSE, looked |-> FALSE,
          roots |-> <<>>, reads |-> {}]
Alias(roots) == [Owned EXCEPT !.borrowed = TRUE, !.mutable = FALSE, !.roots = roots]
MutableAlias(roots) == [Alias(roots) EXCEPT !.mutable = TRUE]
Text(roots) == [Owned EXCEPT !.owns = FALSE, !.roots = roots]
ForVar(roots) == [Alias(roots) EXCEPT !.held = TRUE]
ForCopy(roots) == [Text(roots) EXCEPT !.held = TRUE]

Mention(x, how) == [x |-> x, how |-> how]
Whole(x) == <<Mention(x, "whole")>>
Part(x) == <<Mention(x, "part")>>
Look(x) == <<Mention(x, "look")>>
Change(x) == <<Mention(x, "change")>>
Give(x) == <<Mention(x, "give")>>

Line(op, x, e) == [op |-> op, x |-> x, e |-> e, hold |-> FALSE]
Let(x, e) == Line("let", x, e)
Do(e) == Line("expr", Nil, e)
Open0(op) == Line(op, Nil, <<>>)
ForOver(x, e) == [Line("for", x, e) EXCEPT !.hold = TRUE]
Flow == {Open0(op) : op \in {"else", "end", "break", "continue", "return"}}

MCFunction(lines, o, a, b, params, stmts) ==
    [locals |-> [x \in MCLocals |-> IF x = "o" THEN o ELSE IF x = "a" THEN a ELSE b],
     lines |-> lines, scope |-> params, stmts |-> stmts \cup Flow]

\* A value given away, given a new value, given away by a let in a loop.
Moving == MCFunction(5, Owned, Owned, Owned, {"o"},
    {Let("a", Whole("o")), Line("assign", "o", <<>>), Do(Look("o")), Do(Give("a")),
     Open0("if"), Line("while", Nil, Look("o"))})

\* The same with the loops and jumps alone, and room for a use on each side.
MovingFar == [Moving EXCEPT !.lines = 7,
    !.stmts = {Let("a", Whole("o")), Do(Look("o")), Open0("if"), Line("while", Nil, <<>>)}
              \cup (Flow \ {Open0("else")})]

\* An alias of a part of o, and one that each round of a `while let` makes.
Aliased == MCFunction(6, Owned, Alias(<<"o">>), Alias(<<"o">>), {"o"},
    {Let("a", Part("o")), Do(Look("a")), Do(Change("o")), Do(Give("o")),
     Open0("if"), Line("while", "b", Part("o")), Do(Look("b"))})

\* A mutable alias of o, and an alias made through it.
Through == MCFunction(6, Owned, MutableAlias(<<"o">>), Alias(<<"a", "o">>), {"o"},
    {Let("a", Part("o")), Let("b", Part("a")), Do(Look("b")), Do(Look("o")),
     Do(<<Mention("b", "look"), Mention("a", "change")>>), Open0("while")})

\* A loop over o, its variable a reference or a copy, and text made to name
\* a part of o by an assignment.
Looped(var) == MCFunction(6, Owned, var, Text(<<"o">>), {"o"},
    {ForOver("a", Whole("o")), Do(Look("a")), Do(Change("o")), Let("b", <<>>),
     Line("assign", "b", Part("o")), Do(Look("b")), Open0("if")})

\* A `match` on a part of o, each of its arms with a name for it.
Matched == MCFunction(6, Owned, Alias(<<"o">>), Alias(<<"o">>), {"o"},
    {Line("match", "a", Part("o")), Line("arm", "b", <<>>), Line("arm", Nil, <<>>),
     Do(Look("a")), Do(Look("b")), Do(Change("o")), Do(Give("o")),
     Line("while", Nil, <<>>)})

\* A closure over owned items, its parameter kept or only looked at.
Closed(param) == MCFunction(6, Owned, param, Owned, {"o"},
    {Line("closure", "a", Look("o")), Let("b", Whole("a")), Do(Look("a")),
     Do(Look("b")), Do(Give("o")), Do(Give("b")), Do(Give("a")), Open0("if")})

MCFunctions == {Moving, MovingFar, Aliased, Through, Matched,
                Closed(Owned), Closed([Owned EXCEPT !.looked = TRUE]),
                Looped(ForVar(<<"o">>)), Looped(ForCopy(<<"o">>))}

\* A loop over a chain on o whose head also reads b.
Chained == MCFunction(6, Owned, [ForVar(<<"o">>) EXCEPT !.reads = {"b"}], Owned, {"o", "b"},
    {ForOver("a", Look("o")), Do(Look("a")), Do(Change("o")), Do(Change("b"))})

MCChained == {Chained}
=============================================================================
