-------------------------- MODULE MCExpressionText --------------------------
(* Any text of up to four tokens; two long terms with an operator between, *)
(* three short ones; and conditions that compare structs.                  *)
EXTENDS ExpressionText

Tokens == (BinaryOps \ {"==", "+"}) \cup {"!", "(", ")", "as", "?", "a", "if", "P{}"}
Operators == BinaryOps \ {"||", "=="}
Short == {<<"a">>, <<"-", "a">>, <<"a", "as">>, <<"if">>, <<"P{}">>} \cup
         {<<"(", "a", op, "a", ")">> : op \in Operators}
Cores == {<<"(", "-", "a", ")">>, <<"(", "a", "as", ")">>, <<"(", "P{}", ")">>, <<"if">>, <<"a">>} \cup
         {<<"(", "a", op, "a", ")">> : op \in {"<", "-"}}
Long == {p \o c \o q : p \in {<<>>, <<"-">>, <<"!">>}, c \in Cores,
         q \in {<<>>, <<"?">>, <<"as">>, <<".f">>, <<"[", "a", "+", "a", "]">>, <<".f", "?">>}}
Structs == {<<"a">>, <<"(", "P{}", ")">>, <<"(", "P{}", ")", ".f">>, <<"a", "[", "P{}", ".f", "]">>, <<"P{}">>}

InitText ==
  \/ \E n \in 1 .. 4 : \E ts \in [1 .. n -> Tokens] : TextStart(FALSE, ts)
  \/ \E l \in Long, r \in Long, op \in {"*", "<"} : TextStart(FALSE, l \o <<op>> \o r)
  \/ \E l \in Short, m \in Short, r \in Short, op \in Operators, o2 \in Operators :
       TextStart(FALSE, l \o <<op>> \o m \o <<o2>> \o r)
  \/ \E l \in Structs, r \in Structs : TextStart(TRUE, l \o <<"==">> \o r)
SpecText == InitText /\ [][TextNext]_xvars
=============================================================================
