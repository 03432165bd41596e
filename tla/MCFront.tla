------------------------------ MODULE MCFront ------------------------------
(* The passes between the parser and cargo, one subject to a behaviour:    *)
(* the variables of the other passes stay at an empty input.               *)
EXTENDS MCNames, MCDerives, Exhaustive, BorrowedText, CallGroups, MCExpressionText

VARIABLE subject

(* Arms over an open type, over Option of bool and over an enum with      *)
(* payloads inside one another.                                            *)
Open == [ctors |-> <<>>, fields |-> <<>>]
Finite(fs) == [ctors |-> [i \in 1 .. Len(fs) |-> <<i, i>>], fields |-> fs]
BoolTy == Finite(<<<<>>, <<>>>>)
OptOf(t) == Finite(<<<<t>>, <<>>>>)
DeepTy == Finite(<<<<BoolTy, OptOf(BoolTy)>>, <<Open>>, <<>>>>)
P(c, f) == [ctor |-> c, fields |-> f]
Lits == {P(<<a, b>>, <<>>) : a \in 0 .. 3, b \in 0 .. 4}
Ranges == {Wild} \cup {p \in Lits : p.ctor[1] <= p.ctor[2]}
Bools == {Wild, P(<<1, 1>>, <<>>), P(<<2, 2>>, <<>>)}
Opts == {Wild, P(<<2, 2>>, <<>>)} \cup {P(<<1, 1>>, <<b>>) : b \in Bools}
DeepPats == {Wild, P(<<3, 3>>, <<>>), P(<<2, 2>>, <<Wild>>), P(<<2, 2>>, <<P(<<1, 2>>, <<>>)>>)} \cup
  {P(<<1, 1>>, <<b, o>>) : b \in Bools, o \in Opts}
ArmLists(S, n) == UNION {[1 .. k -> S] : k \in 0 .. n}
InitMatch ==
  \/ \E l \in ArmLists(Ranges, 3) : MatchStart(Open, l)
  \/ \E l \in ArmLists(DeepPats, 3) : MatchStart(DeepTy, l)
  \/ \E l \in ArmLists(Opts, 4) : MatchStart(OptOf(BoolTy), l)

(* Two functions: the first has two parameters, two texts before its loop  *)
(* and one more local inside it; the second has one statement.             *)
L(l) == [kind |-> "local", of |-> l, args |-> <<>>]
Lit == [kind |-> "lit", of |-> 0, args |-> <<>>]
New == [kind |-> "new", of |-> 0, args |-> <<>>]
C(g, a) == [kind |-> "call", of |-> g, args |-> a]
Stm(o, l, v) == [op |-> o, local |-> l, value |-> v]

Seconds == {Lit, L(3), C(2, <<3, 1>>)}
Inners == {Stm("own", 5, <<Lit>>)} \cup {Stm("let", 5, <<v>>) : v \in {L(4), C(2, <<4, 1>>)}}
Sets == {Stm("set", 3, <<v>>) : v \in {L(1), L(4), L(5), C(2, <<5, 2>>)}} \cup
        {Stm("set", 4, <<v>>) : v \in {L(3), L(1)}}
Rets == {<<L(3)>>, <<L(4), Lit>>, <<C(2, <<3, 4>>)>>}
Other(m, v, r) == [params |-> 2, muts |-> m, pre |-> <<Stm("let", 3, <<v>>)>>, loop |-> <<>>, ret |-> r]
Others == {Other({}, L(1), <<L(1), L(3)>>), Other({2}, L(2), <<L(3)>>),
           Other({}, C(1, <<2, 1>>), <<L(3)>>), Other({}, New, <<L(3)>>), Other({}, L(1), <<L(2), L(3)>>)}

Deep == {<<Stm("own", 5, <<Lit>>), Stm("let", 6, <<Lit>>), Stm("set", 6, <<w>>), Stm("let", 7, <<v>>), Stm("set", 3, <<u>>)>> :
          v \in {L(6), L(1), C(2, <<6, 1>>)}, w \in {L(5), L(2), L(4)}, u \in {L(7), L(6)}}
Loops == {<<i, s, t>> : i \in Inners, s \in Sets, t \in Sets} \cup Deep

InitBorrow == \E b \in Seconds, l \in Loops, r \in Rets, o \in Others :
  BorrowStart(<<[params |-> 2, muts |-> {}, pre |-> <<Stm("let", 3, <<Lit>>), Stm("let", 4, <<b>>)>>,
                 loop |-> l, ret |-> r], o>>) /\ WellFormed

(* Three functions with any calls in any order, and four, two of which     *)
(* make up to two calls and two up to one.                                 *)
Orders(S) == {p \in [1 .. Cardinality(S) -> S] : \A i, j \in DOMAIN p : i # j => p[i] # p[j]}
CallsOf(n, k) == UNION {Orders(S) : S \in {T \in SUBSET (1 .. n) : Cardinality(T) <= k}}
Ascending(k) == {SeqExt!SetToSortSeq(S, <) : S \in {T \in SUBSET (1 .. 4) : Cardinality(T) <= k}}

InitCalls ==
  \/ \E g \in [1 .. 3 -> CallsOf(3, 3)] : CallsStart(g)
  \/ \E a \in Ascending(2), b \in Ascending(2), c \in Ascending(1), d \in Ascending(1) :
       CallsStart(<<a, b, c, d>>) \/ CallsStart(<<d, a, c, b>>)

IdleNames ==
  /\ scopes = <<Scope(0, TRUE)>> /\ library = FALSE /\ names = <<"root">> /\ items = {}
  /\ uses = <<<<>>>> /\ UsesStart /\ TypesStart(<<>>)
IdleDerives == DerivesStart(<<>>, <<>>)
IdleMatch == MatchStart(Open, <<>>)
IdleBorrow == BorrowStart(<<>>)
IdleCalls == CallsStart(<<>>)
IdleText == TextStart(FALSE, <<>>)

nvars == <<uvars, tvars>>

InitFront ==
  \/ subject = "names" /\ InitResolve /\ IdleDerives /\ IdleMatch /\ IdleBorrow /\ IdleCalls /\ IdleText
  \/ subject = "derives" /\ InitDerives /\ IdleNames /\ IdleMatch /\ IdleBorrow /\ IdleCalls /\ IdleText
  \/ subject = "match" /\ InitMatch /\ IdleNames /\ IdleDerives /\ IdleBorrow /\ IdleCalls /\ IdleText
  \/ subject = "borrow" /\ InitBorrow /\ IdleNames /\ IdleDerives /\ IdleMatch /\ IdleCalls /\ IdleText
  \/ subject = "calls" /\ InitCalls /\ IdleNames /\ IdleDerives /\ IdleMatch /\ IdleBorrow /\ IdleText
  \/ subject = "text" /\ InitText /\ IdleNames /\ IdleDerives /\ IdleMatch /\ IdleBorrow /\ IdleCalls

FrontNext ==
  \/ subject = "names" /\ ResolveNext /\ UNCHANGED <<subject, dvars, evars, bvars, cvars, xvars>>
  \/ subject = "derives" /\ DerivesNext /\ UNCHANGED <<subject, nvars, evars, bvars, cvars, xvars>>
  \/ subject = "match" /\ MatchNext /\ UNCHANGED <<subject, nvars, dvars, bvars, cvars, xvars>>
  \/ subject = "borrow" /\ BorrowNext /\ UNCHANGED <<subject, nvars, dvars, evars, cvars, xvars>>
  \/ subject = "calls" /\ CallsNext /\ UNCHANGED <<subject, nvars, dvars, evars, bvars, xvars>>
  \/ subject = "text" /\ TextNext /\ UNCHANGED <<subject, nvars, dvars, evars, bvars, cvars>>

SpecFront == InitFront /\ [][FrontNext]_<<subject, nvars, dvars, evars, bvars, cvars, xvars>>
=============================================================================
