----------------------------- MODULE MethodRows -----------------------------
(***************************************************************************)
(* The table of built-in methods (builtins.rs): per row what it is handed  *)
(* and what it gives, as shapes that the receiver's type fills.            *)
(***************************************************************************)
EXTENDS PatternTypes

Error == <<"Error">>
VecOf(t) == <<"Vec", t>>
ChainOf(t) == <<"chain", t>>

(* `Owner::of`: the owner of t's methods and what its shapes stand for; R  *)
(* and Expected are known at the call.                                     *)
NoSubst == [T |-> Unit, E |-> Unit, K |-> Unit, V |-> Unit, R |-> Unit, Expected |-> Unit]
OwnerOf(t) == IF t[1] \in {"Vec", "string", "Option", "Result", "HashMap", "chain", "Error", "Task"} THEN t[1] ELSE "none"
SubstOf(t) ==
  CASE t = String -> [NoSubst EXCEPT !.T = String]
    [] t[1] \in {"Vec", "Option", "chain", "Task"} -> [NoSubst EXCEPT !.T = t[2]]
    [] t[1] = "Result" -> [NoSubst EXCEPT !.T = t[2], !.E = t[3]]
    [] t[1] = "HashMap" -> [NoSubst EXCEPT !.T = t[2], !.K = t[2], !.V = t[3]]
    [] OTHER -> NoSubst

(* `Shape::ty`. *)
ShapeTy(shape, s) ==
  CASE shape = "VecOfT" -> VecOf(s.T)
    [] shape = "OptionOfT" -> OptionOf(s.T)
    [] shape = "OptionOfV" -> OptionOf(s.V)
    [] shape = "OptionOfR" -> OptionOf(s.R)
    [] shape = "ResultOfTAndE" -> ResultOf(s.T, s.E)
    [] shape = "ResultOfTAndR" -> ResultOf(s.T, s.R)
    [] shape = "ResultOfExpected" -> ResultOf(s.Expected, Error)
    [] shape = "ChainOfT" -> ChainOf(s.T)
    [] shape = "ChainOfK" -> ChainOf(s.K)
    [] shape = "ChainOfV" -> ChainOf(s.V)
    [] shape = "ChainOfR" -> ChainOf(s.R)
    [] shape = "ChainOfString" -> ChainOf(String)
    [] shape \in {"T", "E", "K", "V", "R"} -> s[shape]
    [] OTHER -> <<shape>>

(* A closure parameter <<"closure", handed, gives>>: handed is T or E,     *)
(* gives "bool" or "any".                                                  *)
IsClosure(shape) == Len(shape) = 3
Plain(shapes) == [i \in DOMAIN shapes |-> <<shapes[i]>>]
Row(params, result) == [params |-> Plain(params), result |-> result, element |-> "Any"]
OverElements(rule, row) == [row EXCEPT !.element = rule]
WithClosure(handed, gives, result) ==
  [params |-> <<<<"closure", handed, gives>>>>, result |-> result, element |-> "Any"]

Table ==
  [Vec |-> [push |-> Row(<<"T">>, "()"), pop |-> Row(<<>>, "OptionOfT"), len |-> Row(<<>>, "usize"),
            is_empty |-> Row(<<>>, "bool"), insert |-> Row(<<"usize", "T">>, "()"),
            remove |-> Row(<<"usize">>, "T"), get |-> Row(<<"usize">>, "OptionOfT"),
            contains |-> OverElements("Comparable", Row(<<"T">>, "bool")),
            sort |-> OverElements("Ordered", Row(<<>>, "()")),
            join |-> OverElements("StringOnly", Row(<<"string">>, "string")),
            iter |-> Row(<<>>, "ChainOfT")],
   string |-> [len |-> Row(<<>>, "usize"), clone |-> Row(<<>>, "string"), is_empty |-> Row(<<>>, "bool"),
               contains |-> Row(<<"string">>, "bool"), starts_with |-> Row(<<"string">>, "bool"),
               to_uppercase |-> Row(<<>>, "string"), replace |-> Row(<<"string", "string">>, "string"),
               trim |-> Row(<<>>, "string"), push_str |-> Row(<<"string">>, "()"),
               parse |-> Row(<<>>, "ResultOfExpected"), split |-> Row(<<"string">>, "ChainOfString")],
   Option |-> [is_some |-> Row(<<>>, "bool"), unwrap_or |-> Row(<<"T">>, "T"),
               ok_or |-> Row(<<"E">>, "ResultOfTAndE"), map |-> WithClosure("T", "any", "OptionOfR")],
   Result |-> [is_ok |-> Row(<<>>, "bool"), is_err |-> Row(<<>>, "bool"), ok |-> Row(<<>>, "OptionOfT"),
               unwrap_or |-> Row(<<"T">>, "T"), map_err |-> WithClosure("E", "any", "ResultOfTAndR")],
   HashMap |-> [insert |-> Row(<<"K", "V">>, "OptionOfV"), contains_key |-> Row(<<"T">>, "bool"),
                len |-> Row(<<>>, "usize"), get |-> Row(<<"T">>, "OptionOfV"),
                keys |-> Row(<<>>, "ChainOfK"), values |-> Row(<<>>, "ChainOfV")],
   chain |-> [map |-> WithClosure("T", "any", "ChainOfR"), filter |-> WithClosure("T", "bool", "ChainOfT"),
              collect |-> Row(<<>>, "VecOfT"), count |-> Row(<<>>, "usize"),
              sum |-> OverElements("Number", Row(<<>>, "T")), any |-> WithClosure("T", "bool", "bool"),
              all |-> WithClosure("T", "bool", "bool"), find |-> WithClosure("T", "bool", "OptionOfT")],
   Error |-> [message |-> Row(<<>>, "string")],
   Task |-> [detach |-> Row(<<>>, "()")]]

(* `ElementRule::accepts`. *)
ElementFits(rule, t) ==
  CASE rule = "Any" -> TRUE
    [] rule = "Number" -> IsNumber(t)
    [] rule = "Ordered" -> IsInt(t) \/ t \in {Bool, String}
    [] rule = "Comparable" -> IsNumber(t) \/ t \in {Bool, String}
    [] rule = "StringOnly" -> t = String
=============================================================================
