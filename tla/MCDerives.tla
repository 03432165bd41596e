----------------------------- MODULE MCDerives -----------------------------
(* Three declared types, the first two Varyk's own, and one or two calls.  *)
EXTENDS Derives

Ty(h, b, s) == [holds |-> h, bad |-> b, single |-> s]
Number == Ty(<<>>, FALSE, TRUE)
Err == Ty(<<>>, TRUE, TRUE)
(* The type n itself; as a field, an `Option` of it too. *)
One(n) == Ty(<<n>>, FALSE, TRUE)
Vec(n) == Ty(<<n>>, FALSE, FALSE)
Res(n, m) == Ty(<<n, m>>, TRUE, FALSE)

Field(t, s, f, k) == [type |-> t, skip |-> s, filled |-> f, key |-> k]
Keep(t) == Field(t, FALSE, FALSE, "b")
Struct(ps) == [from |-> "varyk", derives |-> {}, enum |-> FALSE, data |-> FALSE, parts |-> ps]
Enum(ps, d) == [Struct(ps) EXCEPT !.enum = TRUE, !.data = d]

FirstTypes ==
  {Struct(<<Keep(t)>>) : t \in {Vec(1), One(2), One(3), Vec(3), Res(2, 3), Res(3, 2), Err}} \cup
  {Struct(<<Keep(Number), Field(t, s, f, k)>>) :
     t \in {Number, One(3), Vec(2)}, s \in BOOLEAN, f \in BOOLEAN, k \in {"a", "b", "A", "B"}} \cup
  {Enum(<<Keep(t)>>, TRUE) : t \in {Vec(1), Vec(2), One(3)}}
SecondTypes ==
  {Struct(<<Keep(t)>>) : t \in {Number, Vec(1), Vec(2), One(3), Res(1, 3)}} \cup
  {Struct(<<Field(Vec(1), TRUE, f, "b"), Field(One(3), FALSE, FALSE, "a")>>) : f \in BOOLEAN} \cup
  {Enum(<<Field(Number, FALSE, FALSE, "a"), Field(Number, FALSE, FALSE, k)>>, FALSE) : k \in {"a", "A"}}
ThirdTypes ==
  {[Struct(<<>>) EXCEPT !.from = "rust", !.derives = d] : d \in SUBSET Traits} \cup
  {[Struct(<<Keep(Number)>>) EXCEPT !.from = f] : f \in {"varyk", "package"}} \cup
  {Enum(<<Keep(Number)>>, TRUE), Enum(<<Keep(Number)>>, FALSE)}

Ask(a, t) == [asks |-> a, type |-> t]
CallLists ==
  {<<Ask(<<"trait", tr>>, t)>> : tr \in Traits, t \in {One(1), Vec(2)}} \cup
  {<<Ask(<<m, w>>, One(1))>> : m \in Media, w \in Ways} \cup
  {<<Ask(<<"json", w>>, Vec(2)), Ask(<<m, "read">>, One(1))>> : m \in Media, w \in Ways}

InitDerives == \E a \in FirstTypes, b \in SecondTypes, c \in ThirdTypes, l \in CallLists :
  DerivesStart(<<a, b, c>>, l)
SpecDerives == InitDerives /\ [][DerivesNext]_dvars
=============================================================================
