----------------------------- MODULE SourceText -----------------------------
(***************************************************************************)
(* A source file from its tokens to its items (parser/item.rs, stmt.rs,    *)
(* pattern.rs, ty.rs, mod.rs and, but for the operators, expr.rs), with    *)
(* the reports the parser makes on the way and the fix-its an editor       *)
(* offers for them.                                                        *)
(*                                                                         *)
(* A file is a sequence of tokens.  The tree is kept as the tokens it      *)
(* stands for, in the order a file would have them.  A report is           *)
(* [code, fix], fix being <<>> or <<from, to, new>>: the tokens from `from`*)
(* up to `to` are to become `new`.  A parser is a record: the file, the    *)
(* token it is `at`, what it has `kept`, its `reports`, whether it is      *)
(* still `ok`, whether it is in the `head` of an `if`, a `while`, a `for`  *)
(* or a `match`, and the `kind` of the expression read last.  Once it is   *)
(* not ok nothing below changes it, as `?` does.                           *)
(***************************************************************************)
EXTENDS Integers, Sequences, FiniteSets

CONSTANT Parsed(_)   \* what the parser makes of a file: `Parse`, below

VARIABLES
  file,      \* the tokens
  reading    \* the parser at its end; <<>> before the file is parsed

svars == <<file, reading>>

PathStarts == {"crate", "self", "super"}
Reserved == {"trait", "ref", "move"}
Identifiers == {"x", "y", "T", "str", "string", "_", "vec", "println"}
Literals == {"1", "text", "true"}
Lifetimes == {"'a"}
Closers == {")", "}", "]", ">", "|"}

(* `parse_binary`'s left binding powers; `as` is tighter than all of them. *)
Power == [op \in {"||", "&&", "==", "<", "-", "*"} |->
  CASE op = "||" -> 1 [] op = "&&" -> 3 [] op \in {"==", "<"} -> 5 [] op = "-" -> 7 [] OTHER -> 9]
Compares == 5
Arithmetic == {"-", "*"}

Parser(ts) ==
  [text |-> ts, at |-> 1, kept |-> <<>>, reports |-> <<>>, ok |-> TRUE, head |-> FALSE, kind |-> ""]

(* `peek_at`, `peek`; `bump`; a token of the tree, `bump`ed.               *)
Peek(p, k) == IF p.at + k <= Len(p.text) THEN p.text[p.at + k] ELSE "eof"
At(p, S) == p.ok /\ Peek(p, 0) \in S
Skip(p) == IF p.ok /\ p.at <= Len(p.text) THEN [p EXCEPT !.at = @ + 1] ELSE p
Keep(p, ts) == IF p.ok THEN [p EXCEPT !.kept = @ \o ts] ELSE p
Take(p) == Keep(Skip(p), <<Peek(p, 0)>>)
SkipIf(p, S) == IF At(p, S) THEN Skip(p) ELSE p
TakeIf(p, S) == IF At(p, S) THEN Take(p) ELSE p
OfKind(p, k) == [p EXCEPT !.kind = k]

(* `push_error`, `push_error_with_fix_it`: the parser goes on; and an      *)
(* error it does not go on from.                                           *)
Report(p, code, fix) == IF p.ok THEN [p EXCEPT !.reports = Append(@, [code |-> code, fix |-> fix])] ELSE p
Refuse(p, code) == [Report(p, code, <<>>) EXCEPT !.ok = FALSE]

Expect(p, t) == IF At(p, {t}) THEN Take(p) ELSE Refuse(p, "V0002")

(* `expect_identifier`, and `expect_name_identifier`, which `_` is not.    *)
Ident(p) ==
  IF At(p, Identifiers) THEN Take(p)
  ELSE IF At(p, Reserved \cup PathStarts \cup {"as", "async", "await", "use"})
       THEN Refuse(Skip(p), "V0001") ELSE Refuse(p, "V0002")
Name(p) == IF At(p, {"_"}) THEN Refuse(Skip(p), "V0002") ELSE Ident(p)

(* A bracketed group read over without a look inside: up to the bracket    *)
(* that closes it, or to the end of the file.                              *)
SkipGroup(p, open, close) ==
  LET count(t, j) == Cardinality({i \in p.at .. j : p.text[i] = t})
      ends == {j \in p.at .. Len(p.text) : count(open, j) = count(close, j)}
  IN IF ~p.ok THEN p
     ELSE [p EXCEPT !.at = 1 + (IF ends = {} THEN Len(p.text) ELSE CHOOSE j \in ends : \A k \in ends : j <= k)]
SkipParens(p) == SkipGroup(p, "(", ")")
SkipBraces(p) == SkipGroup(p, "{", "}")
SkipGenerics(p) == SkipGroup(p, "<", ">")

(* `take_path_start`.                                                      *)
PathStart(p) == IF At(p, PathStarts) /\ Peek(p, 1) = "::" THEN Take(Take(p)) ELSE p

(* What p has kept since `from`.                                           *)
Since(from, p) == SubSeq(p.kept, Len(from.kept) + 1, Len(p.kept))

RECURSIVE Type(_), Pattern(_), Block(_), Statements(_), AfterExpr(_), Let(_), Return(_), While(_), For(_)
RECURSIVE Expr(_), Binary(_, _), Operators(_, _, _), Unary(_), Postfix(_), Primary(_)
RECURSIVE CallArgs(_), If(_), Match(_), Arms(_), NextArm(_), Closure(_), Macro(_)

(* `one, one, ...` up to `close`, which is left; a comma before it is      *)
(* allowed and is not of the tree.                                         *)
ListFrom(one(_), p, close) ==
  LET RECURSIVE From(_)
      From(q) ==
        LET read == one(q)
        IN IF ~At(read, {","}) THEN read ELSE IF Peek(read, 1) = close THEN Skip(read) ELSE From(Take(read))
  IN From(p)
List(one(_), p, close) == IF At(p, {close}) THEN p ELSE ListFrom(one, p, close)
Bracketed(one(_), p, close) == Expect(List(one, Take(p), close), close)

(* `parse_dotted_path`.                                                    *)
RECURSIVE Segments(_)
Segments(p) == IF At(p, {"::"}) THEN Segments(Ident(Take(p))) ELSE p
DottedPath(p) == Segments(Ident(PathStart(p)))

(* `parse_type`: its list of arguments is not empty.                       *)
GenericArgs(p) == IF At(p, {"<"}) THEN Expect(ListFrom(Type, Take(p), ">"), ">") ELSE p
Type(p) == GenericArgs(DottedPath(p))
-----------------------------------------------------------------------------
(* Patterns.  `parse_pattern_literal`, `parse_literal_pattern`.            *)
Literal(p) ==
  IF At(p, {"-"}) THEN (IF Peek(p, 1) = "1" THEN Take(Take(p)) ELSE Refuse(p, "V0002"))
  ELSE IF At(p, Literals) THEN Take(p) ELSE Refuse(p, "V0002")

LiteralPattern(p) ==
  LET start == Literal(p)
  IN IF At(start, {"..="}) THEN Literal(Take(start))
     ELSE IF At(start, {".."}) THEN Refuse(Skip(start), "V0001") ELSE start

(* `reject_alternatives`.                                                  *)
NoMore(p) == IF At(p, {"|"}) THEN Refuse(p, "V0001") ELSE p
Alternative(p) == NoMore(Pattern(p))

(* A field of a variant's pattern.                                         *)
FieldPattern(p) ==
  LET named == Ident(p)
  IN IF At(p, {".."}) THEN Refuse(p, "V0001")
     ELSE NoMore(IF At(named, {":"}) THEN Pattern(Take(named)) ELSE named)

Payload(p) ==
  IF At(p, {"{"}) THEN Bracketed(FieldPattern, p, "}")
  ELSE IF At(p, {"("}) THEN Bracketed(Alternative, p, ")") ELSE p
PathPattern(p) == Payload(DottedPath(p))

Pattern(p) ==
  IF At(p, {"_"}) THEN Take(p)
  ELSE IF At(p, Identifiers) \/ (At(p, PathStarts) /\ Peek(p, 1) = "::") THEN PathPattern(p)
  ELSE IF At(p, Literals \cup {"-"}) THEN LiteralPattern(p)
  ELSE Refuse(IF At(p, {"#"}) THEN p ELSE Skip(p), IF At(p, {"#"}) THEN "V0002" ELSE "V0001")
-----------------------------------------------------------------------------
(* Expressions.  A range is for the head of a `for` only.                  *)
NoRange(e) == IF At(e, {"..", "..="}) THEN Refuse(Skip(e), "V0001") ELSE e
Expr(p) == NoRange(Binary(p, 0))

(* `without_condition`, and its opposite: f, out of a head or in one.      *)
Within(p, head, f(_)) == [f([p EXCEPT !.head = head]) EXCEPT !.head = p.head]
Condition(p) == Within(p, TRUE, Expr)

(* `parse_call_args`.                                                      *)
CallArgs(p) == Within(p, FALSE, LAMBDA q : Bracketed(Expr, q, ")"))

(* `parse_postfix`, after what it starts with.                             *)
Postfix(p) ==
  IF At(p, {"."}) /\ Peek(p, 1) = "await" THEN Postfix(OfKind(Take(Take(p)), "await"))
  ELSE IF At(p, {"."})
       THEN LET named == Ident(Take(p))
            IN Postfix(IF At(named, {"("}) THEN OfKind(CallArgs(named), "call") ELSE OfKind(named, "field"))
  ELSE IF At(p, {"("})
       THEN Postfix(OfKind(CallArgs(IF p.kind = "path" THEN p ELSE Report(p, "V0002", <<>>)), "call"))
  ELSE IF At(p, {"["})
       THEN Postfix(OfKind(Expect(Within(Take(p), FALSE, Expr), "]"), "index"))
  ELSE IF At(p, {"?"}) THEN Postfix(OfKind(Take(p), "try")) ELSE p

(* `name!`: the arguments of `println!` and `format!` are read as the head *)
(* they may be in, the elements of `vec!` are not.                         *)
RECURSIVE MacroArgs(_)
MacroArgs(p) ==
  IF ~At(p, {","}) THEN p ELSE IF Peek(p, 1) = ")" THEN Skip(p) ELSE MacroArgs(Expr(Take(p)))
Macro(p) ==
  LET named == Take(Take(p))
  IN IF At(p, {"vec"})
     THEN IF At(named, {"["}) THEN Within(named, FALSE, LAMBDA q : Bracketed(Expr, q, "]")) ELSE Refuse(named, "V0002")
     ELSE IF At(p, {"println"}) THEN Expect(MacroArgs(Expect(Expect(named, "("), "text")), ")")
     ELSE Refuse(Skip(Skip(p)), "V0001")

(* A field of a struct literal.                                            *)
FieldValue(p) == Expr(Expect(Ident(p), ":"))

StructLit(p) ==
  IF At(p, {"{"}) /\ ~p.head THEN OfKind(Bracketed(FieldValue, p, "}"), "struct") ELSE OfKind(p, "path")
PathOrStruct(p) == StructLit(DottedPath(p))

(* A closure's parameters: a type is refused with a fix-it dropping it.    *)
NoType(p, named) ==
  LET typed == [Type(Skip(named)) EXCEPT !.kept = named.kept]
  IN IF At(named, {":"}) THEN Report(typed, "V0001", <<p.at, typed.at, Since(p, named)>>) ELSE named
ClosureParam(p) == NoType(p, Ident(p))
NoMove(p) == IF At(p, {"move"}) THEN Report(Skip(p), "V0001", <<>>) ELSE p
Closure(p) ==
  LET params == IF At(p, {"|"}) THEN Bracketed(ClosureParam, p, "|") ELSE Take(p)
  IN OfKind(Expr(params), "closure")

(* `if let`, `while let`: the pattern, when there is one.                  *)
LetPattern(p) == IF At(p, {"let"}) THEN Expect(NoMore(Pattern(Take(p))), "=") ELSE p

Else(p) == IF At(p, {"{"}) THEN Block(p) ELSE IF At(p, {"if"}) THEN If(p) ELSE Refuse(p, "V0002")
ElseOf(then) == IF At(then, {"else"}) THEN Else(Take(then)) ELSE then
If(p) == OfKind(ElseOf(Block(Condition(LetPattern(Take(p))))), "if")

(* `match`: an arm is followed by a comma, unless it is the last or its    *)
(* body is a block.                                                        *)
NoAssign(body) == IF At(body, {"="}) THEN Refuse(body, "V0001") ELSE body
ArmBody(p) ==
  IF At(p, {"return", "break", "continue"}) THEN Refuse(p, "V0001")
  ELSE NoAssign(IF At(p, {"{"}) THEN Postfix(OfKind(Block(p), "block")) ELSE Expr(p))
ArmOf(pattern) ==
  IF At(pattern, {"..", "..=", "if"}) THEN Refuse(pattern, "V0001") ELSE ArmBody(Expect(pattern, "=>"))
Arm(p) == ArmOf(Alternative(p))
NextArm(arm) ==
  IF Peek(arm, IF At(arm, {","}) THEN 1 ELSE 0) \in {"}", "eof"} THEN SkipIf(arm, {","})
  ELSE IF At(arm, {","}) THEN Arms(Take(arm))
  ELSE IF arm.kind = "block" THEN Arms(arm) ELSE Refuse(arm, "V0002")
Arms(p) == IF ~p.ok \/ At(p, {"}", "eof"}) THEN p ELSE NextArm(Within(p, FALSE, Arm))
Match(p) == OfKind(Expect(Arms(Expect(Condition(Take(p)), "{")), "}"), "match")

(* `parse_literal`; `parse_self`.                                          *)
Constant(p) == OfKind(Take(p), "literal")
SelfValue(p) == OfKind(Take(p), "path")

(* `parse_primary`.  The group has the kind of what is in it.              *)
Primary(p) ==
  IF At(p, Literals) THEN Constant(p)
  ELSE IF At(p, {"("}) THEN Expect(Within(Take(p), FALSE, Expr), ")")
  ELSE IF At(p, Identifiers) /\ Peek(p, 1) = "!" THEN OfKind(Macro(p), "macro")
  ELSE IF At(p, Identifiers \cup {"crate", "super"}) THEN PathOrStruct(p)
  ELSE IF At(p, {"self"}) THEN (IF Peek(p, 1) = "::" THEN PathOrStruct(p) ELSE SelfValue(p))
  ELSE IF At(p, {"if"}) THEN If(p)
  ELSE IF At(NoMove(p), {"|", "||"}) THEN Closure(NoMove(p))
  ELSE IF At(p, {"match"}) THEN Match(p)
  ELSE IF At(p, {"{"}) THEN OfKind(Block(p), "block")
  ELSE IF At(p, Reserved \cup {"[", "in", "..", "..=", "await", "async"}) THEN Refuse(Skip(p), "V0001")
  ELSE Refuse(p, "V0002")

(* `parse_unary`: `&` and `&mut` are read over, with a fix-it.             *)
Unary(p) ==
  LET sigil == SkipIf(Skip(p), {"mut"})
  IN IF At(p, {"-", "!"}) THEN OfKind(Unary(Take(p)), "unary")
     ELSE IF At(p, {"&"}) THEN Unary(Report(sigil, "V0010", <<p.at, sigil.at, <<>>>>))
     ELSE Postfix(Primary(p))

(* `parse_cast`; the loop of `parse_binary`.                               *)
Cast(p) == OfKind(Ident(Take(p)), "cast")
Operators(p, min, compared) ==
  IF At(p, {"as"}) THEN Operators(Cast(p), min, compared)
  ELSE IF ~At(p, DOMAIN Power) THEN p
  ELSE LET op == Peek(p, 0) IN
       IF Power[op] < min THEN p
       ELSE IF compared /\ Power[op] = Compares THEN Refuse(p, "V0002")
       ELSE IF op \in Arithmetic /\ Peek(p, 1) = "=" THEN Refuse(p, "V0001")
       ELSE Operators(OfKind(Binary(Take(p), Power[op] + 1), "binary"), min, Power[op] = Compares)
Binary(p, min) == Operators(Unary(p), min, FALSE)
-----------------------------------------------------------------------------
(* Statements.                                                             *)
Let(p) ==
  LET named == Ident(TakeIf(Take(p), {"mut"}))
      typed == IF At(named, {":"}) THEN Type(Take(named)) ELSE named
  IN IF named.ok /\ Peek(p, 1) = "mut" /\ Peek(p, 2) = "_" THEN Refuse(named, "V0002")
     ELSE Expect(Expr(Expect(typed, "=")), ";")
Return(p) == Expect(IF Peek(p, 1) = ";" THEN Take(p) ELSE Expr(Take(p)), ";")
Jump(p) == Expect(Take(p), ";")
While(p) == Block(Condition(LetPattern(Take(p))))
RangeEnd(start) == IF At(start, {"..", "..="}) THEN Binary(Take(start), 0) ELSE start
ForHead(p) == RangeEnd(Binary(p, 0))
For(p) == Block(Within(Expect(Ident(Take(p)), "in"), TRUE, ForHead))
Assign(p) ==
  IF p.kind \in {"path", "field", "index"} THEN Expect(Expr(Take(p)), ";") ELSE Refuse(p, "V0002")

(* `parse_block_body`: the statements, and the tail when there is one.     *)
AfterExpr(e) ==
  IF At(e, {"="}) THEN Statements(Assign(e))
  ELSE IF At(e, {";"}) THEN Statements(Take(e))
  ELSE IF At(e, {"}", "eof"}) THEN e
  ELSE IF e.kind \in {"if", "block", "match"} THEN Statements(e) ELSE Refuse(e, "V0002")
Statements(p) ==
  IF ~p.ok \/ At(p, {"}", "eof"}) THEN p
  ELSE IF At(p, {"let"}) THEN Statements(Let(p))
  ELSE IF At(p, {"return"}) THEN Statements(Return(p))
  ELSE IF At(p, {"while"}) THEN Statements(While(p))
  ELSE IF At(p, {"for"}) THEN Statements(For(p))
  ELSE IF At(p, {"break", "continue"}) THEN Statements(Jump(p))
  ELSE AfterExpr(Expr(p))
Block(p) == Expect(Within(Expect(p, "{"), FALSE, Statements), "}")
-----------------------------------------------------------------------------
(* Items.  An attribute's argument that is not one literal is left to the  *)
(* resolver, which reports it: its tokens are kept as they are.            *)
OneLiteral(p) ==
  LET size == IF Peek(p, 1) = "-" THEN 2 ELSE IF Peek(p, 1) \in Literals THEN 1 ELSE 0
  IN \/ size = 2 /\ Peek(p, 2) # "1"
     \/ size > 0 /\ Peek(p, 1 + size) = ")"
AttributeArg(p) ==
  IF ~At(p, {"("}) THEN p
  ELSE IF OneLiteral(p) THEN Expect(Literal(Take(p)), ")")
  ELSE Keep(SkipParens(p), SubSeq(p.text, p.at, SkipParens(p).at - 1))
RECURSIVE Attributes(_)
Attributes(p) ==
  IF At(p, {"#"}) THEN Attributes(Expect(AttributeArg(Ident(Expect(Take(p), "["))), "]")) ELSE p

(* Mutant: the group after `pub` is read over without a report.            *)
SilentPub(p) ==
  LET public == Take(p)
  IN IF ~At(p, {"pub"}) THEN p ELSE IF At(public, {"("}) THEN SkipParens(public) ELSE public

(* `pub`, and `reject_pub_paren`.                                          *)
Pub(p) ==
  LET public == Take(p)
  IN IF ~At(p, {"pub"}) THEN p
     ELSE IF At(public, {"("}) THEN Report(SkipParens(public), "V0001", <<>>) ELSE public

(* `parse_async`.                                                          *)
Async(p) == IF ~At(p, {"async"}) THEN p ELSE IF Peek(p, 1) = "fn" THEN Take(p) ELSE Refuse(Skip(p), "V0002")

(* Mutant: the fix-it stops before the bracket.                            *)
GenericsToBracket(p) ==
  LET group == SkipGenerics(p)
  IN IF ~At(p, {"<"}) THEN p
     ELSE IF Peek(p, 1) \in Lifetimes THEN Report(group, "V0012", <<p.at, group.at - 1, <<>>>>)
     ELSE Report(group, "V0001", <<>>)

(* `skip_fn_generics_if_present`.                                          *)
Generics(p) ==
  LET group == SkipGenerics(p)
  IN IF ~At(p, {"<"}) THEN p
     ELSE IF Peek(p, 1) \in Lifetimes THEN Report(group, "V0012", <<p.at, group.at, <<>>>>)
     ELSE Report(group, "V0001", <<>>)

(* `parse_self_receiver`.  The comma after it is not asked for: it is of   *)
(* the tree when a parameter follows, written or not.                      *)
Receiver(p) ==
  LET amp == IF At(p, {"&"}) THEN 1 ELSE 0
      mut == IF Peek(p, amp) = "mut" THEN 1 ELSE 0
      mode == IF mut = 1 THEN <<"mut", "self">> ELSE <<"self">>
      self == Keep([p EXCEPT !.at = @ + amp + mut + 1], mode)
      typed == [Type(Skip(self)) EXCEPT !.kept = self.kept]
      read == IF amp = 1 THEN Report(self, "V0011", <<p.at, self.at, mode>>)
              ELSE IF mut = 0 /\ At(self, {":"}) THEN Report(typed, "V0001", <<p.at, typed.at, mode>>)
              ELSE self
      next == SkipIf(read, {","})
  IN IF ~p.ok \/ Peek(p, amp + mut) # "self" THEN p
     ELSE IF At(next, {")"}) THEN next ELSE Keep(next, <<",">>)

(* `parse_param`: the Rust spellings are read as the Varyk ones, each with *)
(* a fix-it, the lifetime's inside the parameter's.                        *)
Param(p) ==
  LET named == Expect(Name(TakeIf(p, {"mut"})), ":")
      amp == Skip(named)
      life == IF At(amp, Lifetimes) THEN Report(Skip(amp), "V0012", <<amp.at, amp.at + 1, <<>>>>) ELSE amp
      typed == Type(SkipIf(life, {"mut"}))
      mut == IF At(life, {"mut"}) /\ ~At(p, {"mut"}) THEN <<"mut">> ELSE <<>>
      whole == mut \o Since(p, typed)
  IN IF ~At(named, {"&"}) THEN Type(named)
     ELSE Report([typed EXCEPT !.kept = p.kept \o whole], "V0011", <<p.at, typed.at, whole>>)

(* `parse_return_type`.                                                    *)
ReturnType(p) ==
  LET arrow == Take(p)
      typed == Type(SkipIf(SkipIf(Skip(arrow), Lifetimes), {"mut"}))
      written == Since(arrow, typed)
      owned == IF written = <<"str">> THEN <<"string">> ELSE written
  IN IF ~At(p, {"->"}) THEN p
     ELSE IF At(arrow, {"&"}) THEN Report(typed, "V0011", <<p.at, typed.at, <<"->">> \o owned>>)
     ELSE Type(arrow)

Function(p, inImpl) ==
  LET open == Expect(Generics(Name(Take(p))), "(")
      params == List(Param, IF inImpl THEN Receiver(open) ELSE open, ")")
  IN Block(ReturnType(Expect(params, ")")))

(* `parse_field`; `parse_variant_field`, which no `pub` goes before.       *)
Field(p) == Type(Expect(Name(Pub(Attributes(p))), ":"))
NoPub(p) ==
  LET public == IF Peek(p, 1) = "(" THEN SkipParens(Skip(p)) ELSE Skip(p)
  IN IF At(p, {"pub"}) THEN Report(public, "V0001", <<p.at, public.at, <<>>>>) ELSE p
VariantField(p) == Type(Expect(Name(NoPub(Attributes(p))), ":"))
Fields(p) ==
  IF At(p, {"("}) THEN Bracketed(Type, p, ")")
  ELSE IF At(p, {"{"}) THEN Bracketed(VariantField, p, "}") ELSE p
Variant(p) == Fields(Name(Attributes(p)))

Struct(p) == Expect(List(Field, Expect(Name(Take(p)), "{"), "}"), "}")
Enum(p) ==
  LET open == Expect(Name(Take(p)), "{")
  IN IF At(open, {"}"}) THEN Refuse(open, "V0002") ELSE Expect(List(Variant, open, "}"), "}")

(* `parse_use`.                                                            *)
UseSegment(p) ==
  IF At(p, {"{"}) THEN Refuse(SkipBraces(p), "V0001")
  ELSE IF At(p, {"*"}) THEN Refuse(Skip(p), "V0001") ELSE Ident(p)
RECURSIVE UseSegments(_)
UseSegments(p) == IF At(p, {"::"}) THEN UseSegments(UseSegment(Take(p))) ELSE p
NoAlias(p, isPub) == IF isPub THEN Report(p, "V0001", <<>>) ELSE p
Alias(p, isPub) == IF At(p, {"as"}) THEN NoAlias(Name(Take(p)), isPub) ELSE p
Use(p, isPub) == Expect(Alias(UseSegments(UseSegment(PathStart(Take(p)))), isPub), ";")

(* `parse_impl`: of `impl Trait for Type`, the Type.                       *)
RECURSIVE Methods(_)
Methods(p) ==
  LET start == Async(TakeIf(Attributes(p), {"pub"}))
  IN IF ~p.ok \/ At(p, {"}", "eof"}) THEN p
     ELSE IF At(start, {"fn"}) THEN Methods(Function(start, TRUE)) ELSE Refuse(start, "V0002")
Impl(p) ==
  LET open == Take(p)
      first == Name(open)
      actual == Name([Skip(first) EXCEPT !.kept = open.kept])
      of == IF ~At(first, {"for"}) THEN first
            ELSE Report(actual, "V0001", <<open.at, first.at + 1, <<>>>>)
  IN Expect(Methods(Expect(of, "{")), "}")

Mod(p) == Expect(Name(Take(p)), ";")

ItemAfter(p, isPub) ==
  IF At(p, {"fn"}) THEN Function(p, FALSE)
  ELSE IF At(p, {"struct"}) THEN Struct(p)
  ELSE IF At(p, {"enum"}) THEN Enum(p)
  ELSE IF At(p, {"impl"}) /\ ~isPub THEN Impl(p)
  ELSE IF At(p, {"mod"}) THEN Mod(p)
  ELSE IF At(p, {"use"}) THEN Use(p, isPub)
  ELSE IF At(p, Reserved) THEN Refuse(Skip(p), "V0001") ELSE Refuse(p, "V0002")
Item(p) == LET start == Attributes(p) IN ItemAfter(Async(Pub(start)), At(start, {"pub"}))

(* `parse_program`.                                                        *)
RECURSIVE Program(_)
Program(p) == IF ~p.ok \/ At(p, {"eof"}) THEN p ELSE Program(Item(p))

(* `parse`.                                                                *)
Parse(ts) == Program(Parser(ts))
-----------------------------------------------------------------------------
FileStart(ts) == file = ts /\ reading = <<>>

(* All of the file is parsed.                                              *)
Read ==
  /\ reading = <<>> /\ file # <<>>
  /\ reading' = Parsed(file)
  /\ UNCHANGED file

(* An editor makes the edit of a report's fix-it, and the file is checked  *)
(* again.                                                                  *)
ApplyFix ==
  /\ reading # <<>>
  /\ \E i \in DOMAIN reading.reports :
       LET fix == reading.reports[i].fix
       IN /\ fix # <<>>
          /\ file' = SubSeq(file, 1, fix[1] - 1) \o fix[3] \o SubSeq(file, fix[2], Len(file))
  /\ reading' = Parsed(file')

SourceNext == Read \/ ApplyFix
-----------------------------------------------------------------------------
(* A token is a comma nobody asks for.                                     *)
SpareComma(ts, i) == ts[i] = "," /\ i < Len(ts) /\ (ts[i + 1] \in Closers \/ ts[i - 1] = "self")
Plain(ts) ==
  LET asked == {i \in DOMAIN ts : ~SpareComma(ts, i)}
      nth == [k \in 1 .. Cardinality(asked) |-> CHOOSE i \in asked : Cardinality({j \in asked : j <= i}) = k]
  IN [k \in DOMAIN nth |-> ts[nth[k]]]

(* Nothing that is written is lost without a word: a file the parser       *)
(* reports nothing of is read to its end, and its tree has every token of  *)
(* it and no other, but for commas.                                        *)
NothingLost ==
  (reading # <<>> /\ reading.reports = <<>>) => reading.ok /\ Plain(reading.kept) = Plain(file)

(* A fix-it that takes the `&` from the front of a statement right after a *)
(* block may make the statement go on with the block.                      *)
Continues == {"(", "[", ".", "?", "as"} \cup DOMAIN Power
Glues(fix) == fix[1] > 1 /\ fix[2] <= Len(file) /\ file[fix[1] - 1] \in {"}", ")"} /\ file[fix[2]] \in Continues

(* `-> &str` is read as `-> str` and its fix-it writes `-> string`.        *)
Owned(ts) == [i \in DOMAIN ts |-> IF ts[i] = "str" /\ i > 1 /\ ts[i - 1] = "->" THEN "string" ELSE ts[i]]

(* A fix-it settles its report: when the parser could go on, the file the  *)
(* edit leaves is read as the parser had read the file with the mistake,   *)
(* with fewer reports, so an author who takes them one by one in any order *)
(* comes to the file the parser understood.                                *)
FixesSettle ==
  [][(/\ reading # <<>> /\ reading.ok
      /\ ~ \E i \in DOMAIN reading.reports : reading.reports[i].fix # <<>> /\ Glues(reading.reports[i].fix)) =>
       /\ Len(reading'.reports) < Len(reading.reports)
       /\ reading'.ok /\ Owned(reading'.kept) = Owned(reading.kept)]_svars
=============================================================================
