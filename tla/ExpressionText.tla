--------------------------- MODULE ExpressionText ---------------------------
(***************************************************************************)
(* An expression from its Varyk text to the Rust written for it: the       *)
(* parser's tree (parser/expr.rs), which keeps no parentheses, and the     *)
(* text the backend writes from it (backend/rust_expr.rs), which puts back *)
(* those Rust needs.                                                       *)
(*                                                                         *)
(* A text is a sequence of tokens: "a" a local or a literal; "P{}" a       *)
(* struct literal; "if" a whole `if`, `match` or block; the operators, of  *)
(* which one or two stand for each precedence; "as" with its type; "?",    *)
(* ".f" and the brackets.  A tree is <<kind, ..>>: <<"a">>, <<"P{}">>,     *)
(* <<"if">>, <<"unary", op, e>>, <<"binary", op, l, r>>, <<"as", e>>,      *)
(* <<"?", e>>, <<".f", e>>, <<"[]", e, i>>.                                *)
(***************************************************************************)
EXTENDS Integers, Sequences, FiniteSets

VARIABLES
  head,      \* it is a condition, or what a `match` or a `for` is over
  source,    \* the Varyk text
  parsed,    \* the tree; <<>> when the text is refused or not read yet
  printed    \* the Rust text; <<>> when there is none

xvars == <<head, source, parsed, printed>>

(* `binary_op` and `precedence`, by level. *)
Levels == <<{"||"}, {"&&"}, {"<", "=="}, {"+", "-"}, {"*"}>>
BinaryOps == UNION {Levels[k] : k \in DOMAIN Levels}
LevelOf(op) == CHOOSE k \in DOMAIN Levels : op \in Levels[k]
Comparison == 3
PrefixOps == {"-", "!"}

(* A parser's result is <<>>, or <<the tree, the tokens left>>; inHead     *)
(* says that a struct literal is not to be read here.                      *)
NextIs(ts, S) == ts # <<>> /\ ts[1] \in S

RECURSIVE ParseBinary(_, _, _)
RECURSIVE ParseOperators(_, _, _, _)
RECURSIVE ParsePostfix(_, _)
RECURSIVE ParseUnary(_, _)

(* The text up to the bracket that closes it, in which a struct literal    *)
(* can be read again.                                                      *)
ParseUpTo(close, ts) ==
  LET inner == ParseBinary(ts, 1, FALSE)
  IN IF inner # <<>> /\ NextIs(inner[2], {close}) THEN <<inner[1], Tail(inner[2])>> ELSE <<>>

ParsePrimary(ts, inHead) ==
  IF NextIs(ts, {"a", "if"} \cup (IF inHead THEN {} ELSE {"P{}"})) THEN <<<<ts[1]>>, Tail(ts)>>
  ELSE IF NextIs(ts, {"("}) THEN ParseUpTo(")", Tail(ts)) ELSE <<>>

ParsePostfix(e, ts) ==
  IF NextIs(ts, {"?", ".f"}) THEN ParsePostfix(<<ts[1], e>>, Tail(ts))
  ELSE IF NextIs(ts, {"["})
       THEN LET index == ParseUpTo("]", Tail(ts))
            IN IF index = <<>> THEN <<>> ELSE ParsePostfix(<<"[]", e, index[1]>>, index[2])
       ELSE <<e, ts>>

ParseUnary(ts, inHead) ==
  IF NextIs(ts, PrefixOps)
  THEN LET operand == ParseUnary(Tail(ts), inHead)
       IN IF operand = <<>> THEN <<>> ELSE <<<<"unary", ts[1], operand[1]>>, operand[2]>>
  ELSE LET primary == ParsePrimary(ts, inHead)
       IN IF primary = <<>> THEN <<>> ELSE ParsePostfix(primary[1], primary[2])

(* The loop of `parse_binary`, with what has been read so far: an operator *)
(* of the level asked for, or tighter, goes on; a comparison right after a *)
(* comparison is refused.                                                  *)
ParseOperators(sofar, level, compared, inHead) ==
  LET lhs == sofar[1]
      ts == sofar[2]
  IN IF NextIs(ts, {"as"}) THEN ParseOperators(<<<<"as", lhs>>, Tail(ts)>>, level, compared, inHead)
     ELSE IF ~NextIs(ts, BinaryOps) \/ (NextIs(ts, BinaryOps) /\ LevelOf(ts[1]) < level) THEN sofar
     ELSE IF compared /\ LevelOf(ts[1]) = Comparison THEN <<>>
     ELSE LET rhs == ParseBinary(Tail(ts), LevelOf(ts[1]) + 1, inHead)
          IN IF rhs = <<>> THEN <<>>
             ELSE ParseOperators(<<<<"binary", ts[1], lhs, rhs[1]>>, rhs[2]>>, level,
                                 LevelOf(ts[1]) = Comparison, inHead)

ParseBinary(ts, level, inHead) ==
  LET lhs == ParseUnary(ts, inHead)
  IN IF lhs = <<>> THEN <<>> ELSE ParseOperators(lhs, level, FALSE, inHead)

(* `parse_expr`, of all of the text. *)
Parse ==
  /\ parsed = <<>> /\ source # <<>>
  /\ LET whole == ParseBinary(source, 1, head)
     IN parsed' = IF whole # <<>> /\ whole[2] = <<>> THEN whole[1] ELSE <<>>
  /\ source' = IF parsed' = <<>> THEN <<>> ELSE source
  /\ UNCHANGED <<head, printed>>
-----------------------------------------------------------------------------
Paren(text) == <<"(">> \o text \o <<")">>
BlockLike(e) == e[1] = "if"

(* Mutant: the right operand is grouped as the left one is. *)
WrapsAsLeft(e, parent, right) ==
  \/ BlockLike(e)
  \/ e[1] = "binary" /\ (IF parent = "none" THEN TRUE
       ELSE \/ LevelOf(e[2]) < LevelOf(parent)
            \/ LevelOf(e[2]) = LevelOf(parent) /\ LevelOf(e[2]) = Comparison)

(* `operand`: whether e, under the binary operator parent or, for "none",  *)
(* a unary one, is put in parentheses.                                     *)
Wraps(e, parent, right) ==
  \/ BlockLike(e)
  \/ e[1] = "binary" /\ (IF parent = "none" THEN TRUE
       ELSE \/ LevelOf(e[2]) < LevelOf(parent)
            \/ LevelOf(e[2]) = LevelOf(parent) /\ (right \/ LevelOf(e[2]) = Comparison))

RECURSIVE Raw(_)
Operand(e, parent, right) == IF Wraps(e, parent, right) THEN Paren(Raw(e)) ELSE Raw(e)

(* `field_base`, and `postfix`, which `?` is written after. *)
Base(e) == IF e[1] \in {"a", ".f", "[]", "?"} THEN Raw(e) ELSE Paren(Raw(e))
Tried(e) == IF e[1] \in {"binary", "unary"} \/ BlockLike(e) THEN Paren(Raw(e)) ELSE Raw(e)

(* `raw`. *)
Raw(e) ==
  CASE e[1] \in {"a", "P{}", "if"} -> e
    [] e[1] = "unary" -> <<e[2]>> \o Operand(e[3], "none", FALSE)
    [] e[1] = "binary" -> Operand(e[3], e[2], FALSE) \o <<e[2]>> \o Operand(e[4], e[2], TRUE)
    [] e[1] = "as" -> Paren(Operand(e[2], "none", FALSE) \o <<"as">>)
    [] e[1] = "?" -> Tried(e[2]) \o <<"?">>
    [] e[1] = ".f" -> Base(e[2]) \o <<".f">>
    [] e[1] = "[]" -> Base(e[2]) \o <<"[">> \o Raw(e[3]) \o <<"]">>

Emit ==
  /\ parsed # <<>> /\ printed = <<>>
  /\ printed' = Raw(parsed)
  /\ UNCHANGED <<head, source, parsed>>

TextNext == Parse \/ Emit
TextStart(h, ts) == head = h /\ source = ts /\ parsed = <<>> /\ printed = <<>>
-----------------------------------------------------------------------------
(* Rust's grammar, as the set of trees a whole text has at a level: 1 to 5 *)
(* the binary operators, 6 `as`, 7 the prefixes, 8 the rest.               *)
Nested(ts, i) ==
  Cardinality({j \in 1 .. i - 1 : ts[j] \in {"(", "["}}) # Cardinality({j \in 1 .. i - 1 : ts[j] \in {")", "]"}})

RECURSIVE RustTrees(_, _, _)
RustTrees(ts, level, inHead) ==
  LET n == Len(ts)
      front == SubSeq(ts, 1, n - 1)
      (* A `<` after a type is not a comparison, and comparisons do not chain. *)
      splits == {i \in 2 .. n - 1 : /\ ts[i] \in BinaryOps /\ LevelOf(ts[i]) >= level /\ ~Nested(ts, i)
                                    /\ ~(ts[i] = "<" /\ ts[i - 1] = "as")}
      left(op) == IF LevelOf(op) = Comparison THEN Comparison + 1 ELSE LevelOf(op)
      binary == UNION {{<<"binary", ts[i], l, r>> :
                          l \in RustTrees(SubSeq(ts, 1, i - 1), left(ts[i]), inHead),
                          r \in RustTrees(SubSeq(ts, i + 1, n), LevelOf(ts[i]) + 1, inHead)} : i \in splits}
      cast == IF level <= 6 /\ n > 1 /\ ts[n] = "as" THEN {<<"as", e>> : e \in RustTrees(front, 6, inHead)} ELSE {}
      unary == IF level <= 7 /\ n > 1 /\ ts[1] \in PrefixOps
               THEN {<<"unary", ts[1], e>> : e \in RustTrees(Tail(ts), 7, inHead)} ELSE {}
      after == IF n > 1 /\ ts[n] \in {"?", ".f"} THEN {<<ts[n], e>> : e \in RustTrees(front, 8, inHead)} ELSE {}
      opens == {i \in 2 .. n - 1 : ts[i] = "[" /\ ~Nested(ts, i)}
      index == IF n > 1 /\ ts[n] = "]"
               THEN UNION {{<<"[]", e, x>> : e \in RustTrees(SubSeq(ts, 1, i - 1), 8, inHead),
                                             x \in RustTrees(SubSeq(ts, i + 1, n - 1), 1, FALSE)} : i \in opens}
               ELSE {}
      group == IF n > 2 /\ ts[1] = "(" /\ ts[n] = ")" THEN RustTrees(SubSeq(ts, 2, n - 1), 1, FALSE) ELSE {}
      one == IF n = 1 /\ (ts[1] \in {"a", "if"} \/ (ts[1] = "P{}" /\ ~inHead)) THEN {ts} ELSE {}
  IN IF n = 0 THEN {} ELSE binary \cup cast \cup unary \cup after \cup index \cup group \cup one

(* As a statement, a text that begins with a block ends there. *)
BlockFirst(ts) == ts[1] = "if" /\ Len(ts) > 1

(* The Rust written for an expression means the expression: read by Rust's *)
(* own precedences it has the tree the Varyk text has, wherever it stands  *)
(* that a struct literal may, and no other.                                *)
PrintedParsesBack ==
  printed # <<>> => RustTrees(printed, 1, FALSE) = {parsed} /\ ~BlockFirst(printed)

(* So does the text written as a condition, in which the parentheses the   *)
(* author put around a struct literal "disambiguate".                      *)
ConditionsParseBack == (printed # <<>> /\ head) => RustTrees(printed, 1, TRUE) = {parsed}
=============================================================================
