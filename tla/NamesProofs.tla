---------------------------- MODULE NamesProofs ----------------------------
(***************************************************************************)
(* Who can use an item can name what is written for it, in any tree of     *)
(* modules with any items and any `use` lines; and no type without a size  *)
(* is missed, whatever the types and however they hold each other.         *)
(***************************************************************************)
EXTENDS Uses, RecursiveTypes, TLAPS, WellFoundedInduction

(* A set of numbers has a least one, and a bounded one a greatest.         *)
LEMMA LeastOf ==
  ASSUME NEW S \in SUBSET Nat, S # {} PROVE \E n \in S : \A m \in S : n <= m
<1>1. PICK R : R = {ss \in Nat \X Nat : ss[1] < ss[2]}
  OBVIOUS
<1>2. IsWellFoundedOn(R, Nat)
  <2>1. IsWellFoundedOn({ss \in Nat \X Nat : ss[1] < ss[2]}, Nat)
    BY NatLessThanWellFounded DEF OpToRel
  <2> QED BY <1>1, <2>1
<1>3. PICK x \in S : \A y \in S : <<y, x>> \notin R
  BY <1>2, WFMin
<1>4. \A y \in S : ~(y < x)
  BY <1>1, <1>3
<1>5. \A y \in S : x <= y
  BY <1>4
<1> QED BY <1>5

LEMMA GreatestOf ==
  ASSUME NEW N \in Nat, NEW S \in SUBSET (1 .. N), S # {}
  PROVE  \E n \in S : \A m \in S : m <= n
<1> DEFINE FromN == {N - k : k \in S}
<1>1. FromN \in SUBSET Nat
  OBVIOUS
<1>2. FromN # {}
  OBVIOUS
<1>3. PICK x \in FromN : \A y \in FromN : x <= y
  <2> HIDE DEF FromN
  <2> QED BY <1>1, <1>2, LeastOf
<1>4. PICK n \in S : x = N - n
  BY <1>3
<1>5. ASSUME NEW m \in S PROVE m <= n
  <2>1. N - m \in FromN
    OBVIOUS
  <2>2. N - n <= N - m
    BY <1>3, <1>4, <2>1
  <2> QED BY <2>2
<1> QED BY <1>5
-----------------------------------------------------------------------------
(* A tree: the number of modules, and the parent of each, none for the     *)
(* root and an earlier one for the others.                                 *)
LEMMA TreeParents ==
  ASSUME Tree(scopes)
  PROVE  /\ Len(scopes) \in Nat /\ 1 \in Modules /\ Modules \subseteq Nat
         /\ \A m \in Modules :
              \/ m = 1 /\ scopes[m].parent = 0
              \/ m # 1 /\ scopes[m].parent \in Modules /\ scopes[m].parent < m
<1>1. Len(scopes) \in Nat /\ Modules = DOMAIN scopes /\ Len(scopes) # 0
  BY DEF Tree, Modules
<1>2. 1 \in Modules /\ Modules \subseteq Nat
  BY <1>1 DEF Modules
<1>3. ASSUME NEW m \in Modules
      PROVE  \/ m = 1 /\ scopes[m].parent = 0
             \/ m # 1 /\ scopes[m].parent \in Modules /\ scopes[m].parent < m
  <2>1. IF m = 1 THEN scopes[m].parent = 0 ELSE scopes[m].parent \in 1 .. m - 1
    BY <1>1 DEF Tree
  <2>2. m = 1 => scopes[m].parent = 0
    BY <2>1
  <2>3. m # 1 => scopes[m].parent \in Modules /\ scopes[m].parent < m
    BY <1>1, <2>1 DEF Modules
  <2> QED BY <2>2, <2>3
<1> QED BY <1>1, <1>2, <1>3

(* A set of modules that leads nowhere else. *)
Up(W) == W \in SUBSET Modules /\ \A k \in W : scopes[k].parent \in W \cup {0}

(* The ancestors of a module are the least such set with it.               *)
LEMMA AncestorsLeast ==
  ASSUME Tree(scopes), NEW m \in Modules
  PROVE  /\ m \in Ancestors(m) /\ Up(Ancestors(m))
         /\ \A W : Up(W) /\ m \in W => Ancestors(m) \subseteq W
<1>1. m \in Ancestors(m) /\ Ancestors(m) \subseteq Modules
  BY DEF Ancestors
<1>2. \A W : Up(W) /\ m \in W => Ancestors(m) \subseteq W
  BY DEF Ancestors, Up
<1>3. ASSUME NEW k \in Ancestors(m) PROVE scopes[k].parent \in Ancestors(m) \cup {0}
  <2>1. CASE scopes[k].parent = 0
    BY <2>1
  <2>2. CASE scopes[k].parent # 0
    <3>1. scopes[k].parent \in Modules
      BY <1>1, <2>2, TreeParents
    <3>2. ASSUME NEW W \in SUBSET Modules, m \in W, \A j \in W : scopes[j].parent \in W \cup {0}
          PROVE  scopes[k].parent \in W
      <4>1. k \in W
        BY <1>2, <3>2 DEF Up
      <4> QED BY <2>2, <3>2, <4>1
    <3> QED BY <3>1, <3>2 DEF Ancestors
  <2> QED BY <2>1, <2>2
<1> QED BY <1>1, <1>2, <1>3 DEF Up

(* What a module is inside of, those inside the module are.                *)
LEMMA AncestorsInside ==
  ASSUME Tree(scopes), NEW m \in Modules, NEW n \in Ancestors(m)
  PROVE  n \in Modules /\ Ancestors(n) \subseteq Ancestors(m)
<1>1. Up(Ancestors(m))
  BY AncestorsLeast
<1>2. n \in Modules
  BY <1>1 DEF Up
<1> QED BY <1>1, <1>2, AncestorsLeast

(* Nothing is inside a later module.                                       *)
LEMMA AncestorsBefore ==
  ASSUME Tree(scopes), NEW m \in Modules, NEW n \in Ancestors(m) PROVE n <= m
<1>1. Up({k \in Modules : k <= m})
  BY TreeParents DEF Up
<1>2. m \in {k \in Modules : k <= m}
  BY TreeParents
<1> QED BY <1>1, <1>2, AncestorsLeast

(* Every module is inside the root.                                        *)
LEMMA RootIsAncestor ==
  ASSUME Tree(scopes), NEW m \in Modules PROVE 1 \in Ancestors(m)
<1>1. Up(Ancestors(m)) /\ m \in Ancestors(m)
  BY AncestorsLeast
<1>2. Ancestors(m) \in SUBSET Nat /\ Ancestors(m) # {}
  BY <1>1, TreeParents DEF Up
<1>3. PICK n \in Ancestors(m) : \A k \in Ancestors(m) : n <= k
  BY <1>2, LeastOf
<1>4. n \in Modules /\ scopes[n].parent \in Ancestors(m) \cup {0}
  BY <1>1 DEF Up
<1>5. CASE n = 1
  BY <1>5
<1>6. CASE n # 1
  <2>1. scopes[n].parent \in Modules /\ scopes[n].parent < n /\ scopes[n].parent # 0
    BY <1>4, <1>6, TreeParents DEF Modules
  <2>2. n <= scopes[n].parent
    BY <1>3, <1>4, <2>1
  <2> QED BY <1>4, <2>1, <2>2, TreeParents
<1> QED BY <1>5, <1>6

(* The modules one is inside of are inside one another.                    *)
LEMMA AncestorsChain ==
  ASSUME Tree(scopes), NEW m \in Modules, NEW n \in Ancestors(m), NEW l \in Ancestors(m), n <= l
  PROVE  n \in Ancestors(l)
<1> DEFINE W == {k \in Modules : l \in Ancestors(k) \/ k \in Ancestors(l)}
<1>1. l \in Modules /\ n \in Modules
  BY AncestorsInside
<1>2. ASSUME NEW k \in W PROVE scopes[k].parent \in W \cup {0}
  <2>1. CASE k \in Ancestors(l)
    <3>1. scopes[k].parent \in Ancestors(l) \cup {0} /\ Ancestors(l) \subseteq Modules
      BY <1>1, <2>1, AncestorsLeast DEF Up
    <3> QED BY <3>1
  <2>2. CASE k \notin Ancestors(l) /\ scopes[k].parent # 0
    <3>1. scopes[k].parent \in Modules /\ l \in Ancestors(k) /\ l # k
      <4>1. l \in Ancestors(l)
        BY <1>1, AncestorsLeast
      <4> QED BY <2>2, <4>1, TreeParents
    <3>2. Up({k} \cup Ancestors(scopes[k].parent))
      BY <3>1, AncestorsLeast DEF Up
    <3>3. l \in {k} \cup Ancestors(scopes[k].parent)
      BY <3>1, <3>2, AncestorsLeast
    <3> QED BY <3>1, <3>3
  <2> QED BY <2>1, <2>2
<1>3. Up(W) /\ m \in W
  BY <1>2 DEF Up
<1>4. n \in W
  BY <1>3, AncestorsLeast
<1>5. CASE l \in Ancestors(n)
  <2>1. l <= n
    BY <1>1, <1>5, AncestorsBefore
  <2>2. l = n
    BY <1>1, <2>1, TreeParents
  <2> QED BY <1>1, <2>2, AncestorsLeast
<1> QED BY <1>4, <1>5
-----------------------------------------------------------------------------
(* The modules not `pub` on the way to one that another must be inside of  *)
(* the parents of, to see it.                                              *)
LEMMA SeenPastClosed ==
  ASSUME NEW from, NEW m
  PROVE  PathVisible(from, m) <=> \A n \in Closed(m) : Contains(scopes[n].parent, from)
BY DEF PathVisible, Closed, IsVisible

(* `reach` is exact: an item can be named in the module it says, in those  *)
(* inside that one, and nowhere else.                                      *)
LEMMA ReachExact ==
  ASSUME Tree(scopes), NEW m \in Modules, NEW p \in BOOLEAN, NEW from \in Modules
  PROVE  /\ Reach(m, p) \in Modules
         /\ CanName(from, m, p) <=> Contains(Reach(m, p), from)
<1>1. CASE ~p
  <2>1. Reach(m, p) = m
    BY <1>1 DEF Reach
  <2>2. ASSUME Contains(m, from) PROVE PathVisible(from, m)
    <3>1. ASSUME NEW n \in Closed(m) PROVE Contains(scopes[n].parent, from)
      <4>1. n \in Ancestors(m) /\ scopes[n].parent # 0
        BY DEF Closed
      <4>2. scopes[n].parent \in Ancestors(m)
        BY <4>1, AncestorsLeast DEF Up
      <4>3. Ancestors(m) \subseteq Ancestors(from)
        BY <2>2, AncestorsInside DEF Contains
      <4> QED BY <4>2, <4>3 DEF Contains
    <3> QED BY <3>1, SeenPastClosed
  <2> QED BY <1>1, <2>1, <2>2 DEF CanName, IsVisible
<1>2. CASE p /\ Closed(m) = {}
  <2>1. Reach(m, p) = 1 /\ 1 \in Modules
    BY <1>2, TreeParents DEF Reach
  <2>2. Contains(1, from)
    BY RootIsAncestor DEF Contains
  <2>3. CanName(from, m, p)
    BY <1>2, SeenPastClosed DEF CanName, IsVisible
  <2> QED BY <2>1, <2>2, <2>3
<1>3. CASE p /\ Closed(m) # {}
  <2>1. PICK l : l = Lowest(Closed(m))
    OBVIOUS
  <2>2. Closed(m) \in SUBSET (1 .. Len(scopes))
    BY AncestorsLeast DEF Closed, Up, Modules
  <2>3. l \in Closed(m) /\ \A n \in Closed(m) : n <= l
    BY <1>3, <2>1, <2>2, TreeParents, GreatestOf DEF Lowest
  <2>4. Reach(m, p) = scopes[l].parent
    BY <1>3, <2>1 DEF Reach
  <2>5. l \in Ancestors(m) /\ l \in Modules /\ scopes[l].parent # 0 /\ scopes[l].parent \in Modules
    <3>1. l \in Ancestors(m) /\ scopes[l].parent # 0
      BY <2>3 DEF Closed
    <3>2. l \in Modules
      BY <3>1, AncestorsInside
    <3> QED BY <3>1, <3>2, TreeParents
  <2>6. ASSUME Contains(scopes[l].parent, from), NEW n \in Closed(m)
        PROVE  Contains(scopes[n].parent, from)
    <3>1. n \in Ancestors(m) /\ scopes[n].parent # 0 /\ n <= l
      BY <2>3 DEF Closed
    <3>2. n \in Ancestors(l)
      BY <2>5, <3>1, AncestorsChain
    <3>3. Ancestors(scopes[l].parent) \subseteq Ancestors(from)
      BY <2>6, AncestorsInside DEF Contains
    <3>4. CASE n = l
      BY <2>6, <3>4
    <3>5. CASE n # l
      <4>1. Up({l} \cup Ancestors(scopes[l].parent))
        BY <2>5, AncestorsLeast DEF Up
      <4>2. n \in Ancestors(scopes[l].parent)
        BY <2>5, <3>2, <3>5, <4>1, AncestorsLeast
      <4>3. scopes[n].parent \in Ancestors(scopes[l].parent)
        BY <2>5, <3>1, <4>2, AncestorsLeast DEF Up
      <4> QED BY <3>3, <4>3 DEF Contains
    <3> QED BY <3>4, <3>5
  <2>7. PathVisible(from, m) <=> Contains(scopes[l].parent, from)
    BY <2>3, <2>6, SeenPastClosed
  <2> QED BY <1>3, <2>4, <2>5, <2>7 DEF CanName, IsVisible
<1> QED BY <1>1, <1>2, <1>3

(* Being inside carries over. *)
LEMMA ContainsMore ==
  ASSUME Tree(scopes), NEW a, NEW b, NEW c \in Modules, Contains(a, b), Contains(b, c)
  PROVE  Contains(a, c)
BY AncestorsInside DEF Contains
-----------------------------------------------------------------------------
(* Whoever may call a function can name its types: in the module that      *)
(* names the type and those inside it, and past them when the function is  *)
(* not refused (`private_in_public`, `hide_if_unreachable`).               *)
LEMMA UsersCanName ==
  ASSUME Tree(scopes), NEW t \in Items, NEW from \in Modules, NEW f \in Functions,
         CanName(f.module, t.module, t.pub), f.pub => ~PrivateInPublic(f, t), CanCall(from, f)
  PROVE  CanName(from, t.module, t.pub)
<1> DEFINE own == Reach(f.module, f.pub)
           owner == IF f.owner = {} THEN own ELSE Reach(f.module, f.ownerPub)
           types == Reach(t.module, t.pub)
<1>1. /\ t.module \in Modules /\ t.pub \in BOOLEAN
      /\ f.module \in Modules /\ f.pub \in BOOLEAN /\ f.ownerPub \in BOOLEAN
  BY DEF Items, Functions
<1>2. Contains(own, from) /\ Contains(owner, from)
  BY <1>1, ReachExact DEF CanCall
<1>3. CASE ~f.pub
  <2>1. Contains(f.module, from)
    BY <1>2, <1>3 DEF Reach
  <2>2. Contains(types, f.module)
    BY <1>1, ReachExact
  <2> QED BY <1>1, <2>1, <2>2, ContainsMore, ReachExact
<1>4. CASE f.pub
  <2>1. Contains(types, FnReach(f))
    BY <1>4 DEF PrivateInPublic
  <2>2. Contains(FnReach(f), from)
    BY <1>2 DEF FnReach
  <2> QED BY <1>1, <2>1, <2>2, ContainsMore, ReachExact
<1> QED BY <1>1, <1>3, <1>4

LEMMA RustUsersCanName ==
  ASSUME Tree(scopes), NEW t \in Items, NEW m \in Modules, NEW from \in Modules,
         NEW f, f.module = m, CanName(from, m, TRUE), UsableFrom(Within(f, t), from)
  PROVE  CanName(from, t.module, t.pub)
<1>1. t.module \in Modules /\ t.pub \in BOOLEAN
  BY DEF Items
<1>2. CASE Contains(Reach(t.module, t.pub), Reach(m, TRUE))
  <2>1. Contains(Reach(m, TRUE), from)
    BY ReachExact
  <2> QED BY <1>1, <1>2, <2>1, ContainsMore, ReachExact
<1>3. CASE ~Contains(Reach(t.module, t.pub), Reach(m, TRUE))
  <2>1. Contains(Reach(t.module, t.pub), from)
    BY <1>3 DEF UsableFrom, Within
  <2> QED BY <1>1, <2>1, ReachExact
<1> QED BY <1>2, <1>3

LEMMA TreesAreNameable == ASSUME Tree(scopes) PROVE UsersCanNameTypes
<1> SUFFICES ASSUME NEW t \in Items
    PROVE  /\ \A f \in Functions :
                CanName(f.module, t.module, t.pub) /\ (f.pub => ~PrivateInPublic(f, t)) =>
                  /\ \A from \in Modules : CanCall(from, f) => CanName(from, t.module, t.pub)
                  /\ FnExported(f) => Exported(t.module, t.pub)
           /\ \A m \in Modules, from \in Modules :
                CanName(from, m, TRUE) /\ UsableFrom(Within([module |-> m], t), from) =>
                  CanName(from, t.module, t.pub)
  BY DEF UsersCanNameTypes
<1>1. ASSUME NEW f \in Functions, CanName(f.module, t.module, t.pub), f.pub => ~PrivateInPublic(f, t)
      PROVE  /\ \A from \in Modules : CanCall(from, f) => CanName(from, t.module, t.pub)
             /\ FnExported(f) => Exported(t.module, t.pub)
  <2>1. \A from \in Modules : CanCall(from, f) => CanName(from, t.module, t.pub)
    BY <1>1, UsersCanName
  <2>2. FnExported(f) => f.pub
    BY DEF FnExported, Exported
  <2>3. FnExported(f) => Exported(t.module, t.pub)
    BY <1>1, <2>2 DEF PrivateInPublic
  <2> QED BY <2>1, <2>3
<1>2. ASSUME NEW m \in Modules, NEW from \in Modules, CanName(from, m, TRUE),
             UsableFrom(Within([module |-> m], t), from)
      PROVE  CanName(from, t.module, t.pub)
  <2>1. [module |-> m].module = m
    OBVIOUS
  <2> QED BY <1>2, <2>1, RustUsersCanName
<1> QED BY <1>1, <1>2
-----------------------------------------------------------------------------
(* An item that another package can name. *)
OpenItem(t) == t \in items /\ t.ns # "module" /\ t.pub /\ Closed(t.module) = {}

(* What a line of `from` may mean: a module it sees, or an item it can     *)
(* name.                                                                   *)
TargetOf(from, t) ==
  IF t.ns = "module" THEN PathVisible(from, t.module)
  ELSE t \in items /\ CanName(from, t.module, t.pub)

ReexportsOpen == \A r \in reexports : OpenItem(r[3])
AliasesMean == \A a \in aliases : TargetOf(a[1], a[3]) /\ (uses[a[1]][a[4]].pub => OpenItem(a[3]))

(* Each line that `register` is past is reported, or has made an alias.    *)
LinesDone == \A m \in Modules : \A k \in 1 .. Len(uses[m]) :
  m < at[1] \/ (m = at[1] /\ k < at[2]) =>
    <<m, k>> \in reported \/ \E a \in aliases : a[1] = m /\ a[4] = k

ImportsOpen == \A i \in imported :
  /\ Closed(i[3].module) = {}
  /\ \E j \in items : j.module = i[3].module /\ j.name = i[3].name /\ j.pub

ProgramOK ==
  /\ Tree(scopes)
  /\ \A i \in items : i.module \in Modules /\ i.ns \in {"fn", "type"}
  /\ \A m \in Modules : uses[m] \in Seq(Use)
  /\ at \in Nat \X Nat

UsesInv == ProgramOK /\ ReexportsOpen /\ AliasesMean /\ LinesDone /\ ImportsOpen

(* Every module sees one that is `pub` all the way, and can name what is   *)
(* `pub` in it.                                                            *)
LEMMA OpenToAll == ASSUME NEW t, OpenItem(t), NEW from PROVE CanName(from, t.module, t.pub)
BY SeenPastClosed DEF OpenItem, CanName, IsVisible

(* What a path means its module can name, by the item's own path.          *)
LEMMA LookupIsTarget ==
  ASSUME UsesInv, NEW from, NEW u, NEW ns \in {"fn", "type"}, NEW t \in Lookup(from, u, ns)
  PROVE  TargetOf(from, t) /\ t.ns = ns
<1> DEFINE name == Last(u.path)
           alias == {a \in AliasesOf(from, name) : a.ns = ns}
           target == IF Bare(u) THEN {from} ELSE ModuleAt(from, u.lead, Prefix(u.path))
           own(m) == {i \in items : i.module = m /\ i.name = name /\ i.ns = ns}
           entered(m) == {r[3] : r \in {e \in reexports : e[1] = m /\ e[2] = name /\ e[3].ns = ns}}
           found(m) == IF own(m) # {} THEN {i \in own(m) : CanName(from, m, i.pub)}
                       ELSE {i \in entered(m) : PathVisible(from, m)}
<1>1. t \in alias \/ t \in UNION {found(m) : m \in target}
  BY DEF Lookup
<1>2. CASE t \in alias
  <2>1. PICK a \in aliases : a[1] = from /\ a[3] = t /\ t.ns = ns
    BY <1>2 DEF AliasesOf
  <2> QED BY <2>1 DEF UsesInv, AliasesMean
<1>3. CASE t \in UNION {found(m) : m \in target}
  <2> HIDE DEF target
  <2>1. PICK m \in target : t \in found(m)
    BY <1>3
  <2>2. CASE t \in {i \in own(m) : CanName(from, m, i.pub)}
    BY <2>2 DEF TargetOf
  <2>3. CASE t \in entered(m)
    <3>1. PICK r \in reexports : t = r[3] /\ t.ns = ns
      BY <2>3
    <3>2. OpenItem(t)
      BY <3>1 DEF UsesInv, ReexportsOpen
    <3> QED BY <3>1, <3>2, OpenToAll DEF TargetOf, OpenItem
  <2> QED BY <2>1, <2>2, <2>3
<1> QED BY <1>1, <1>2, <1>3

LEMMA ResolveIsTarget ==
  ASSUME UsesInv, NEW from, NEW u, NEW t \in Resolve(from, u) PROVE TargetOf(from, t)
<1> DEFINE m == ModuleAt(from, u.lead, u.path)
<1>1. \/ t = ModuleTarget(The(m)) /\ PathVisible(from, The(m))
      \/ t \in Lookup(from, u, "fn") \/ t \in Lookup(from, u, "type")
  BY DEF Resolve
<1>2. CASE t \in Lookup(from, u, "fn") \/ t \in Lookup(from, u, "type")
  BY <1>2, LookupIsTarget
<1>3. CASE t = ModuleTarget(The(m)) /\ PathVisible(from, The(m))
  <2>1. PICK o : o = The(m)
    OBVIOUS
  <2>2. t.ns = "module" /\ t.module = o
    BY <1>3, <2>1 DEF ModuleTarget
  <2> QED BY <1>3, <2>1, <2>2 DEF TargetOf
<1> QED BY <1>1, <1>2, <1>3

(* What is re-exported with nothing to report is open. *)
LEMMA NoProblemIsOpen ==
  ASSUME NEW from, NEW T, NEW t \in T, ~ReexportProblem(T), TargetOf(from, t) PROVE OpenItem(t)
BY DEF ReexportProblem, TargetOf, OpenItem

(* A tree that stays, stays as visible. *)
LEMMA SameProgram ==
  ASSUME scopes' = scopes, items' = items
  PROVE  /\ Modules' = Modules /\ Tree(scopes)' = Tree(scopes)
         /\ \A m : Closed(m)' = Closed(m)
         /\ \A t : OpenItem(t)' <=> OpenItem(t)
         /\ \A from, t : TargetOf(from, t)' <=> TargetOf(from, t)
<1>1. Modules' = Modules /\ Tree(scopes)' = Tree(scopes)
  BY DEF Modules, Tree
<1>2. \A m : Ancestors(m)' = Ancestors(m)
  BY <1>1 DEF Ancestors
<1>3. \A m : Closed(m)' = Closed(m)
  BY <1>2 DEF Closed
<1>4. \A a, b : Contains(a, b)' <=> Contains(a, b)
  BY <1>2 DEF Contains
<1>5. \A from, d, p : IsVisible(from, d, p)' <=> IsVisible(from, d, p)
  BY <1>4 DEF IsVisible
<1>6. \A from, m : PathVisible(from, m)' <=> PathVisible(from, m)
  <2> SUFFICES ASSUME NEW from, NEW m PROVE PathVisible(from, m)' <=> PathVisible(from, m)
    OBVIOUS
  <2> QED BY <1>2, <1>4 DEF PathVisible, IsVisible
<1>7. \A from, m, p : CanName(from, m, p)' <=> CanName(from, m, p)
  BY <1>5, <1>6 DEF CanName
<1>8. \A t : OpenItem(t)' <=> OpenItem(t)
  BY <1>3 DEF OpenItem
<1>9. \A from, t : TargetOf(from, t)' <=> TargetOf(from, t)
  BY <1>6, <1>7 DEF TargetOf
<1> QED BY <1>1, <1>3, <1>8, <1>9
-----------------------------------------------------------------------------
LEMMA UsesStarts == UsesStart => UsesInv
<1> SUFFICES ASSUME UsesStart PROVE UsesInv
  OBVIOUS
<1>1. /\ reexports = {} /\ aliases = {} /\ imported = {} /\ at = <<1, 1>>
  BY DEF UsesStart
<1>2. ProgramOK
  BY <1>1 DEF UsesStart, ProgramOK
<1>3. LinesDone
  <2>1. \A m \in Modules : m \in Nat /\ ~(m < 1)
    BY <1>2, TreeParents DEF ProgramOK, Modules
  <2>2. \A m \in Modules : \A k \in 1 .. Len(uses[m]) : ~(m < at[1] \/ (m = at[1] /\ k < at[2]))
    BY <1>1, <2>1
  <2> QED BY <2>2 DEF LinesDone
<1> QED BY <1>1, <1>2, <1>3 DEF UsesInv, ReexportsOpen, AliasesMean, ImportsOpen

(* A step that leaves the program and what `register` has done.            *)
LEMMA ProgramStays ==
  ASSUME ProgramOK, scopes' = scopes, items' = items, uses' = uses, at' \in Nat \X Nat
  PROVE  ProgramOK'
BY SameProgram DEF ProgramOK

LEMMA SeedKeeps == ASSUME UsesInv, Seed PROVE UsesInv'
<1>1. /\ scopes' = scopes /\ items' = items /\ uses' = uses /\ aliases' = aliases
      /\ at' = at /\ reported' = reported /\ imported' = imported
  BY DEF Seed
<1>2. ASSUME NEW r \in reexports' PROVE OpenItem(r[3])
  <2> DEFINE from == pending[turn[1]][1]
             k == pending[turn[1]][2]
             u == uses[from][k]
             targets == Resolve(from, u)
  <2>1. \/ r \in reexports
        \/ ~ReexportProblem(targets) /\ \E t \in targets : r = <<from, u.local, t>>
    BY <1>2 DEF Seed
  <2>2. CASE r \in reexports
    BY <2>2 DEF UsesInv, ReexportsOpen
  <2>3. CASE ~ReexportProblem(targets) /\ \E t \in targets : r = <<from, u.local, t>>
    <3> HIDE DEF targets
    <3>1. PICK t \in targets : r = <<from, u.local, t>>
      BY <2>3
    <3>2. TargetOf(from, t)
      BY ResolveIsTarget DEF targets
    <3>3. OpenItem(t)
      BY <2>3, <3>2, NoProblemIsOpen
    <3>4. r[3] = t
      BY <3>1
    <3> QED BY <3>3, <3>4
  <2> QED BY <2>1, <2>2, <2>3
<1>3. ReexportsOpen'
  BY <1>1, <1>2, SameProgram DEF ReexportsOpen
<1>4. ProgramOK'
  BY <1>1, ProgramStays DEF UsesInv, ProgramOK
<1>5. AliasesMean' /\ LinesDone' /\ ImportsOpen'
  BY <1>1, SameProgram DEF UsesInv, AliasesMean, LinesDone, ImportsOpen
<1> QED BY <1>3, <1>4, <1>5 DEF UsesInv

LEMMA RegisterKeeps == ASSUME UsesInv, Register PROVE UsesInv'
<1>1. /\ scopes' = scopes /\ items' = items /\ uses' = uses /\ reexports' = reexports
      /\ imported' = imported /\ at[1] <= Len(scopes)
  BY DEF Register, Registering
<1>2. PICK from \in Nat, k \in Nat : at = <<from, k>> /\ at[1] = from /\ at[2] = k
  BY DEF UsesInv, ProgramOK
<1> DEFINE u == uses[from][k]
           targets == Resolve(from, u)
           refused == \/ ThroughAlias(from, k)
                      \/ targets = {}
                      \/ u.pub /\ ReexportProblem(targets)
                      \/ Clash(from, u.local, targets)
           done == k > Len(uses[from])
<1>3. /\ at' = IF done THEN <<from + 1, 1>> ELSE <<from, k + 1>>
      /\ reported' = IF ~done /\ refused THEN reported \cup {<<from, k>>} ELSE reported
      /\ aliases' = IF done \/ refused THEN aliases
                    ELSE aliases \cup {<<from, u.local, t, k>> : t \in targets}
  BY <1>2 DEF Register
<1>4. \A t \in targets : TargetOf(from, t)
  BY ResolveIsTarget
<1>5. ~refused => targets # {} /\ (u.pub => ~ReexportProblem(targets))
  OBVIOUS
<1> HIDE DEF targets, refused
<1>6. ASSUME NEW a \in aliases'
      PROVE  TargetOf(a[1], a[3]) /\ (uses[a[1]][a[4]].pub => OpenItem(a[3]))
  <2>1. a \in aliases \/ (~refused /\ \E t \in targets : a = <<from, u.local, t, k>>)
    BY <1>3, <1>6
  <2>2. CASE a \in aliases
    BY <2>2 DEF UsesInv, AliasesMean
  <2>3. CASE ~refused /\ \E t \in targets : a = <<from, u.local, t, k>>
    <3>1. PICK t \in targets : a = <<from, u.local, t, k>>
      BY <2>3
    <3>2. a[1] = from /\ a[3] = t /\ a[4] = k
      BY <3>1
    <3>3. u.pub => OpenItem(t)
      BY <1>4, <1>5, <2>3, NoProblemIsOpen
    <3> QED BY <1>4, <3>2, <3>3
  <2> QED BY <2>1, <2>2, <2>3
<1>7. AliasesMean'
  BY <1>1, <1>6, SameProgram DEF AliasesMean
<1>8. ReexportsOpen' /\ ImportsOpen'
  BY <1>1, SameProgram DEF UsesInv, ReexportsOpen, ImportsOpen
<1>9. ProgramOK'
  <2>1. at' \in Nat \X Nat
    BY <1>3
  <2> QED BY <1>1, <2>1, ProgramStays DEF UsesInv
<1>10. LinesDone'
  <2> SUFFICES ASSUME NEW m \in Modules, NEW j \in 1 .. Len(uses[m]),
                      m < at'[1] \/ (m = at'[1] /\ j < at'[2])
               PROVE  <<m, j>> \in reported' \/ \E a \in aliases' : a[1] = m /\ a[4] = j
    BY <1>1, SameProgram DEF LinesDone
  <2>1. m \in Nat /\ Len(uses[m]) \in Nat /\ j \in Nat
    BY DEF UsesInv, ProgramOK, Modules
  <2>2. CASE m < from \/ (m = from /\ j < k)
    <3>1. <<m, j>> \in reported \/ \E a \in aliases : a[1] = m /\ a[4] = j
      BY <1>2, <2>2 DEF UsesInv, LinesDone
    <3>2. reported \subseteq reported' /\ aliases \subseteq aliases'
      BY <1>3
    <3> QED BY <3>1, <3>2
  <2>3. CASE ~(m < from \/ (m = from /\ j < k))
    <3>1. m = from /\ j = k /\ ~done
      <4>1. CASE done
        <5>1. at'[1] = from + 1 /\ at'[2] = 1
          BY <1>3, <4>1
        <5>2. m = from
          BY <2>1, <2>3, <5>1
        <5> QED BY <2>1, <2>3, <4>1, <5>2
      <4>2. CASE ~done
        <5>1. at'[1] = from /\ at'[2] = k + 1
          BY <1>3, <4>2
        <5> QED BY <2>1, <2>3, <4>2, <5>1
      <4> QED BY <4>1, <4>2
    <3>2. CASE refused
      BY <1>3, <3>1, <3>2
    <3>3. CASE ~refused
      <4>1. PICK t : t \in targets
        BY <1>5, <3>3
      <4>2. <<from, u.local, t, k>> \in aliases'
        BY <1>3, <3>1, <3>3, <4>1
      <4>3. \E a \in aliases' : a[1] = from /\ a[4] = k
        BY <4>2
      <4> QED BY <3>1, <4>3
    <3> QED BY <3>2, <3>3
  <2> QED BY <2>2, <2>3
<1> QED BY <1>7, <1>8, <1>9, <1>10 DEF UsesInv

LEMMA ImportKeeps == ASSUME UsesInv, Import PROVE UsesInv'
<1>1. /\ scopes' = scopes /\ items' = items /\ uses' = uses /\ reexports' = reexports
      /\ aliases' = aliases /\ at' = at /\ reported' = reported
      /\ reported = {} /\ at[1] > Len(scopes)
  BY DEF Import, Accepted, Done
<1>2. ASSUME NEW l \in PubUses PROVE Canonical(TargetsOf(l)) \in TargetsOf(l)
                                     /\ \A t \in TargetsOf(l) : OpenItem(t)
  <2>1. PICK m \in Modules : \E k \in DOMAIN uses[m] : uses[m][k].pub /\ l = <<m, k>>
    BY <1>2 DEF PubUses
  <2>2. PICK k \in DOMAIN uses[m] : uses[m][k].pub /\ l = <<m, k>>
    BY <2>1
  <2>3. k \in 1 .. Len(uses[m]) /\ m < at[1]
    <3>1. uses[m] \in Seq(Use)
      BY DEF UsesInv, ProgramOK
    <3>2. m \in 1 .. Len(scopes) /\ Len(scopes) \in Nat /\ at[1] \in Nat
      BY TreeParents DEF UsesInv, ProgramOK, Modules
    <3> QED BY <1>1, <3>1, <3>2
  <2>4. PICK a \in aliases : a[1] = m /\ a[4] = k
    BY <1>1, <2>3 DEF UsesInv, LinesDone
  <2>5. a[3] \in TargetsOf(l)
    BY <2>2, <2>4 DEF TargetsOf
  <2>6. ASSUME NEW t \in TargetsOf(l) PROVE OpenItem(t)
    <3>1. PICK b \in aliases : b[1] = m /\ b[4] = k /\ b[3] = t
      BY <2>2, <2>6 DEF TargetsOf
    <3> QED BY <2>2, <3>1 DEF UsesInv, AliasesMean
  <2>7. Canonical(TargetsOf(l)) \in TargetsOf(l)
    BY <2>5 DEF Canonical, The
  <2> QED BY <2>6, <2>7
<1>3. ASSUME NEW i \in imported'
      PROVE  /\ Closed(i[3].module) = {}
             /\ \E j \in items : j.module = i[3].module /\ j.name = i[3].name /\ j.pub
  <2>1. PICK l \in PubUses : \E x \in items :
          /\ i = <<l[1], Canonical(TargetsOf(l)).name, x>>
          /\ x.module = Canonical(TargetsOf(l)).module /\ x.name = Canonical(TargetsOf(l)).name
    BY <1>3 DEF Import
  <2>2. PICK c : c = Canonical(TargetsOf(l))
    OBVIOUS
  <2>3. OpenItem(c)
    BY <1>2, <2>2
  <2>4. PICK x \in items : i[3] = x /\ x.module = c.module /\ x.name = c.name
    BY <2>1, <2>2
  <2> QED BY <2>3, <2>4 DEF OpenItem
<1>4. ImportsOpen'
  BY <1>1, <1>3, SameProgram DEF ImportsOpen
<1>5. ProgramOK'
  BY <1>1, ProgramStays DEF UsesInv, ProgramOK
<1>6. ReexportsOpen' /\ AliasesMean' /\ LinesDone'
  BY <1>1, SameProgram DEF UsesInv, ReexportsOpen, AliasesMean, LinesDone
<1> QED BY <1>4, <1>5, <1>6 DEF UsesInv

LEMMA UsesKept == UsesInv /\ [UsesNext]_uvars => UsesInv'
<1> SUFFICES ASSUME UsesInv, [UsesNext]_uvars PROVE UsesInv'
  OBVIOUS
<1>1. ASSUME scopes' = scopes, items' = items, uses' = uses, reexports' = reexports,
             aliases' = aliases, at' = at, reported' = reported, imported' = imported
      PROVE  UsesInv'
  <2>1. ProgramOK'
    BY <1>1, ProgramStays DEF UsesInv, ProgramOK
  <2>2. ReexportsOpen' /\ AliasesMean' /\ LinesDone' /\ ImportsOpen'
    BY <1>1, SameProgram DEF UsesInv, ReexportsOpen, AliasesMean, LinesDone, ImportsOpen
  <2> QED BY <2>1, <2>2 DEF UsesInv
<1>2. CASE NextRound
  BY <1>1, <1>2 DEF NextRound
<1>3. CASE UNCHANGED uvars
  BY <1>1, <1>3 DEF uvars
<1> QED BY <1>2, <1>3, SeedKeeps, RegisterKeeps, ImportKeeps DEF UsesNext

(* The inductive invariant: what is re-exported is open to all, an alias   *)
(* means what its module can name, and every line passed is accounted for  *)
(* (resolve/uses.rs).                                                      *)
THEOREM NamesKept == UsesSpec => []UsesInv
BY UsesStarts, UsesKept, PTL DEF UsesSpec

(* Whoever can use an item can name what the generated Rust writes for it, *)
(* in any tree of modules, with any items, `use` and `pub use` lines       *)
(* (resolve/visibility.rs, resolve/uses.rs).                               *)
THEOREM UsersNameIt == UsesSpec => []TypesAreNameable
<1>1. UsesInv => TypesAreNameable
  <2> SUFFICES ASSUME UsesInv PROVE TypesAreNameable
    OBVIOUS
  <2>1. UsersCanNameTypes
    BY TreesAreNameable DEF UsesInv, ProgramOK
  <2>2. ASSUME NEW a \in aliases
        PROVE  IF a[3].ns = "module" THEN PathVisible(a[1], a[3].module)
                                     ELSE CanName(a[1], a[3].module, a[3].pub)
    BY DEF UsesInv, AliasesMean, TargetOf
  <2>3. ASSUME NEW r \in reexports, NEW from \in Modules
        PROVE  CanName(from, r[3].module, r[3].pub)
    BY OpenToAll DEF UsesInv, ReexportsOpen
  <2>4. AliasesAreNameable
    BY <2>2, <2>3 DEF UsesInv, ImportsOpen, AliasesAreNameable
  <2> QED BY <2>1, <2>4 DEF TypesAreNameable
<1> QED BY <1>1, NamesKept, PTL
-----------------------------------------------------------------------------

(* The program: every type lays out declared types. *)
TypesOK == \A t \in Types : lays[t] \in Seq(Types)

(* A set of types that holds what its types lay out. *)
Whole(W) == W \in SUBSET Types /\ \A m \in W : Lays(m) \subseteq W

(* What is inside a type is the least such set with what it lays out.      *)
LEMMA InsideLeast ==
  ASSUME TypesOK, NEW t \in Types
  PROVE  /\ Lays(t) \subseteq InsideOf(t) /\ Whole(InsideOf(t))
         /\ \A W : Whole(W) /\ Lays(t) \subseteq W => InsideOf(t) \subseteq W
<1>1. \A m \in Types : Lays(m) \subseteq Types
  <2> SUFFICES ASSUME NEW m \in Types PROVE Lays(m) \subseteq Types
    OBVIOUS
  <2>1. lays[m] \in Seq(Types)
    BY DEF TypesOK
  <2>2. \A i \in DOMAIN lays[m] : lays[m][i] \in Types
    BY <2>1
  <2> QED BY <2>2 DEF Lays
<1>2. Lays(t) \subseteq InsideOf(t) /\ InsideOf(t) \subseteq Types
  BY <1>1 DEF InsideOf
<1>3. \A W : Whole(W) /\ Lays(t) \subseteq W => InsideOf(t) \subseteq W
  BY DEF InsideOf, Whole
<1>4. ASSUME NEW m \in InsideOf(t) PROVE Lays(m) \subseteq InsideOf(t)
  <2>1. ASSUME NEW W \in SUBSET Types, Lays(t) \subseteq W, \A k \in W : Lays(k) \subseteq W
        PROVE  Lays(m) \subseteq W
    <3>1. m \in W
      BY <1>3, <2>1 DEF Whole
    <3> QED BY <2>1, <3>1
  <2>2. Lays(m) \subseteq Types
    BY <1>1, <1>2
  <2>3. \A x \in Lays(m) : x \in Types /\ \A W \in SUBSET Types :
          Lays(t) \subseteq W /\ (\A k \in W : Lays(k) \subseteq W) => x \in W
    BY <2>1, <2>2
  <2> QED BY <2>3 DEF InsideOf
<1> QED BY <1>2, <1>3, <1>4 DEF Whole

LEMMA InsideCarries ==
  ASSUME TypesOK, NEW a \in Types, NEW b \in InsideOf(a)
  PROVE  b \in Types /\ InsideOf(b) \subseteq InsideOf(a)
<1>1. Whole(InsideOf(a))
  BY InsideLeast
<1>2. b \in Types /\ Lays(b) \subseteq InsideOf(a)
  BY <1>1 DEF Whole
<1> QED BY <1>1, <1>2, InsideLeast

(* A type inside another is laid out by it, or inside one that is.         *)
LEMMA InsideBegins ==
  ASSUME TypesOK, NEW t \in Types, NEW n \in InsideOf(t)
  PROVE  \E v \in Lays(t) : n = v \/ n \in InsideOf(v)
<1> DEFINE W == Lays(t) \cup UNION {InsideOf(v) : v \in Lays(t)}
<1>1. Lays(t) \subseteq Types
  BY InsideLeast DEF Whole
<1>2. \A v \in Lays(t) : Lays(v) \subseteq InsideOf(v) /\ Whole(InsideOf(v))
  BY <1>1, InsideLeast
<1>3. Whole(W)
  BY <1>1, <1>2 DEF Whole
<1>4. n \in W
  BY <1>3, InsideLeast
<1> QED BY <1>4
-----------------------------------------------------------------------------
(* One of the reported cycles runs through the tangle t is in. *)
Told(C, t) == \E c \in C : c[1] \in InsideOf(t) /\ t \in InsideOf(c[1])

IsCycle(c) ==
  /\ c \in Seq(Types) /\ Len(c) > 0
  /\ \A i \in DOMAIN c : c[IF i = Len(c) THEN 1 ELSE i + 1] \in Lays(c[i])

(* The types on the stack are those entered and not left, each once, each  *)
(* laid out by the one below and inside all below.                         *)
StackOK(s, st) ==
  /\ s \in Seq(Types \X Seq(Types)) /\ st \in [Types -> {"unvisited", "onstack", "done"}]
  /\ \A t \in Types : st[t] = "onstack" <=> \E i \in DOMAIN s : s[i][1] = t
  /\ \A i, j \in DOMAIN s : s[i][1] = s[j][1] => i = j
  /\ \A i \in DOMAIN s : \A j \in DOMAIN s : j = i + 1 => s[j][1] \in Lays(s[i][1])
  /\ \A i, j \in DOMAIN s : i < j => s[j][1] \in InsideOf(s[i][1])
  /\ \A i \in DOMAIN s : \A k \in DOMAIN s[i][2] : s[i][2][k] \in Lays(s[i][1])

(* What a type on the stack has looked at is done, looked at right now, or *)
(* was found on the stack and reported.                                    *)
Settled(s, st, C, i, v) ==
  \/ st[v] = "done"
  \/ \E j \in DOMAIN s : j = i + 1 /\ s[j][1] = v
  \/ \E c \in C : c[1] = v /\ (s[i][1] = v \/ s[i][1] \in InsideOf(v))
Looked(s, st, C) == \A i \in DOMAIN s : \A v \in Lays(s[i][1]) :
  (\E k \in DOMAIN s[i][2] : s[i][2][k] = v) \/ Settled(s, st, C, i, v)

DoneTold(st, C) == \A t \in Types : st[t] = "done" /\ t \in InsideOf(t) => Told(C, t)

WalkOK(s, st, C) ==
  StackOK(s, st) /\ Looked(s, st, C) /\ DoneTold(st, C) /\ \A c \in C : IsCycle(c)

WalkInv ==
  /\ TypesOK
  /\ \E s, st, C : s = stack /\ st = state /\ C = cycles /\ WalkOK(s, st, C)
-----------------------------------------------------------------------------
(* The last of a sequence is taken off, or one is put after it. *)
LEMMA Pushed ==
  ASSUME NEW S, NEW s \in Seq(S), NEW e \in S, NEW z, z = Append(s, e)
  PROVE  /\ z \in Seq(S) /\ Len(z) = Len(s) + 1 /\ z[Len(z)] = e
         /\ DOMAIN z = 1 .. Len(s) + 1 /\ DOMAIN s = 1 .. Len(s) /\ Len(s) \in Nat
         /\ \A i \in DOMAIN s : z[i] = s[i]
OBVIOUS

LEMMA Popped ==
  ASSUME NEW S, NEW s \in Seq(S), s # <<>>, NEW z, z = SubSeq(s, 1, Len(s) - 1)
  PROVE  /\ z \in Seq(S) /\ DOMAIN z = 1 .. Len(s) - 1
         /\ DOMAIN s = 1 .. Len(s) /\ Len(s) \in Nat /\ Len(s) \in DOMAIN s
         /\ \A i \in DOMAIN z : z[i] = s[i]
<1>1. Len(s) \in Nat /\ Len(s) > 0 /\ DOMAIN s = 1 .. Len(s)
  OBVIOUS
<1> QED BY <1>1

(* Sequences: their elements, and how one is made or cut. *)
LEMMA ElementOf ==
  ASSUME NEW S, NEW s, s \in Seq(S), NEW i, i \in DOMAIN s PROVE s[i] \in S
OBVIOUS

LEMMA FromElements ==
  ASSUME NEW S, NEW N \in Nat, NEW z, z \in [1 .. N -> S]
  PROVE  z \in Seq(S) /\ Len(z) = N
OBVIOUS

(* One type is entered: it is unvisited, and the last on the stack lays it *)
(* out.                                                                    *)
LEMMA EnterKeeps ==
  ASSUME TypesOK, NEW s, NEW st, StackOK(s, st), NEW n \in Types, st[n] = "unvisited",
         s # <<>> => n \in Lays(s[Len(s)][1]),
         NEW z, z = Append(s, <<n, lays[n]>>), NEW zt, zt = [st EXCEPT ![n] = "onstack"]
  PROVE  StackOK(z, zt)
<1>1. lays[n] \in Seq(Types) /\ <<n, lays[n]>> \in Types \X Seq(Types)
  BY DEF TypesOK
<1>2. s \in Seq(Types \X Seq(Types)) /\ st \in [Types -> {"unvisited", "onstack", "done"}]
  BY DEF StackOK
<1>3. /\ z \in Seq(Types \X Seq(Types)) /\ Len(z) = Len(s) + 1 /\ z[Len(z)] = <<n, lays[n]>>
      /\ DOMAIN z = 1 .. Len(s) + 1 /\ DOMAIN s = 1 .. Len(s) /\ Len(s) \in Nat
      /\ \A i \in DOMAIN s : z[i] = s[i]
  BY <1>1, <1>2, Pushed
<1>4. PICK N \in Nat : N = Len(s)
  BY <1>3
<1>5. /\ DOMAIN z = 1 .. N + 1 /\ DOMAIN s = 1 .. N /\ z[N + 1][1] = n /\ z[N + 1][2] = lays[n]
      /\ \A i \in 1 .. N : z[i] = s[i]
  BY <1>3, <1>4
<1>6. zt \in [Types -> {"unvisited", "onstack", "done"}]
      /\ \A t \in Types : zt[t] = IF t = n THEN "onstack" ELSE st[t]
  BY <1>2
<1>7. ~\E i \in DOMAIN s : s[i][1] = n
  BY DEF StackOK
<1>8. \A t \in Types : zt[t] = "onstack" <=> \E i \in DOMAIN z : z[i][1] = t
  <2> SUFFICES ASSUME NEW t \in Types PROVE zt[t] = "onstack" <=> \E i \in DOMAIN z : z[i][1] = t
    OBVIOUS
  <2>1. st[t] = "onstack" <=> \E i \in 1 .. N : s[i][1] = t
    BY <1>5 DEF StackOK
  <2>2. \A i \in 1 .. N + 1 : i = N + 1 \/ i \in 1 .. N
    OBVIOUS
  <2>3. (\E i \in 1 .. N + 1 : z[i][1] = t) <=> t = n \/ \E i \in 1 .. N : s[i][1] = t
    BY <1>5, <2>2
  <2> QED BY <1>5, <1>6, <2>1, <2>3
<1>9. \A i, j \in DOMAIN z : z[i][1] = z[j][1] => i = j
  <2>1. \A i, j \in 1 .. N : s[i][1] = s[j][1] => i = j
    BY <1>5 DEF StackOK
  <2>2. \A i \in 1 .. N : s[i][1] # n
    BY <1>5, <1>7
  <2>3. \A i \in 1 .. N + 1 : i = N + 1 \/ i \in 1 .. N
    OBVIOUS
  <2> QED BY <1>5, <2>1, <2>2, <2>3
<1>10. N # 0 => n \in Lays(s[N][1])
  BY <1>3, <1>4
<1>11. \A i \in DOMAIN z : \A j \in DOMAIN z : j = i + 1 => z[j][1] \in Lays(z[i][1])
  <2> SUFFICES ASSUME NEW i \in 1 .. N + 1, NEW j \in 1 .. N + 1, j = i + 1
               PROVE  z[j][1] \in Lays(z[i][1])
    BY <1>5
  <2>1. CASE j = N + 1
    <3>1. i = N /\ N # 0 /\ i \in 1 .. N
      BY <2>1
    <3> QED BY <1>5, <1>10, <2>1, <3>1
  <2>2. CASE j # N + 1
    <3>1. i \in 1 .. N /\ j \in 1 .. N
      BY <2>2
    <3>2. s[j][1] \in Lays(s[i][1])
      BY <1>5, <3>1 DEF StackOK
    <3> QED BY <1>5, <3>1, <3>2
  <2> QED BY <2>1, <2>2
<1>12. \A i, j \in DOMAIN z : i < j => z[j][1] \in InsideOf(z[i][1])
  <2> SUFFICES ASSUME NEW i \in 1 .. N + 1, NEW j \in 1 .. N + 1, i < j
               PROVE  z[j][1] \in InsideOf(z[i][1])
    BY <1>5
  <2>1. CASE j = N + 1
    <3>1. i \in 1 .. N /\ N \in 1 .. N /\ N # 0 /\ (i = N \/ i < N)
      BY <2>1
    <3>2. s[i][1] \in Types /\ s[N][1] \in Types
      <4>1. s[i] \in Types \X Seq(Types) /\ s[N] \in Types \X Seq(Types)
        BY <1>2, <1>5, <3>1
      <4> QED BY <4>1
    <3>3. n \in InsideOf(s[N][1])
      BY <1>10, <3>1, <3>2, InsideLeast
    <3>4. i < N => s[N][1] \in InsideOf(s[i][1])
      BY <1>5, <3>1 DEF StackOK
    <3>5. n \in InsideOf(s[i][1])
      BY <3>1, <3>2, <3>3, <3>4, InsideCarries
    <3> QED BY <1>5, <2>1, <3>1, <3>5
  <2>2. CASE j # N + 1
    <3>1. i \in 1 .. N /\ j \in 1 .. N
      BY <2>2
    <3>2. s[j][1] \in InsideOf(s[i][1])
      BY <1>5, <3>1 DEF StackOK
    <3> QED BY <1>5, <3>1, <3>2
  <2> QED BY <2>1, <2>2
<1>13. \A i \in DOMAIN z : \A k \in DOMAIN z[i][2] : z[i][2][k] \in Lays(z[i][1])
  <2> SUFFICES ASSUME NEW i \in 1 .. N + 1
               PROVE  \A k \in DOMAIN z[i][2] : z[i][2][k] \in Lays(z[i][1])
    BY <1>5
  <2>1. CASE i = N + 1
    BY <1>5, <2>1 DEF Lays
  <2>2. CASE i \in 1 .. N
    <3>1. \A k \in DOMAIN s[i][2] : s[i][2][k] \in Lays(s[i][1])
      BY <1>5, <2>2 DEF StackOK
    <3> QED BY <1>5, <2>2, <3>1
  <2>3. i = N + 1 \/ i \in 1 .. N
    OBVIOUS
  <2> QED BY <2>1, <2>2, <2>3
<1> QED BY <1>3, <1>6, <1>8, <1>9, <1>11, <1>12, <1>13 DEF StackOK

(* The last type on the stack goes on to its next target. *)
Onward(s, z) == z = [s EXCEPT ![Len(s)][2] = Tail(@)]
LEMMA NextTarget ==
  ASSUME NEW s, NEW st, StackOK(s, st), s # <<>>, s[Len(s)][2] # <<>>, NEW z, Onward(s, z)
  PROVE  /\ StackOK(z, st) /\ DOMAIN z = DOMAIN s /\ Len(z) = Len(s)
         /\ \A i \in DOMAIN s : z[i][1] = s[i][1] /\ (i # Len(s) => z[i] = s[i])
         /\ Head(s[Len(s)][2]) \in Lays(s[Len(s)][1])
         /\ \A k \in DOMAIN s[Len(s)][2] : s[Len(s)][2][k] = Head(s[Len(s)][2])
              \/ \E j \in DOMAIN z[Len(s)][2] : z[Len(s)][2][j] = s[Len(s)][2][k]
<1>1. s \in Seq(Types \X Seq(Types))
  BY DEF StackOK
<1>2. PICK N \in Nat : N = Len(s) /\ N # 0 /\ DOMAIN s = 1 .. N /\ N \in DOMAIN s
  <2>1. Len(s) \in Nat /\ Len(s) # 0 /\ DOMAIN s = 1 .. Len(s)
    BY <1>1
  <2>2. Len(s) \in DOMAIN s
    BY <2>1
  <2> QED BY <2>1, <2>2
<1>3. PICK q : q = s[N][2]
  OBVIOUS
<1>4. s[N] \in Types \X Seq(Types) /\ q \in Seq(Types) /\ q # <<>> /\ s[N] = <<s[N][1], q>>
  BY <1>1, <1>2, <1>3
<1>5. /\ Tail(q) \in Seq(Types) /\ 1 \in DOMAIN q /\ Head(q) = q[1]
      /\ DOMAIN Tail(q) = 1 .. Len(q) - 1 /\ DOMAIN q = 1 .. Len(q) /\ Len(q) \in Nat
      /\ \A k \in DOMAIN Tail(q) : Tail(q)[k] = q[k + 1]
  BY <1>4
<1>6. /\ z = [s EXCEPT ![N] = [s[N] EXCEPT ![2] = Tail(q)]] /\ DOMAIN z = DOMAIN s
  BY <1>2, <1>3 DEF Onward
<1>7. [s[N] EXCEPT ![2] = Tail(q)] = <<s[N][1], Tail(q)>>
  BY <1>4
<1>8. z[N] = <<s[N][1], Tail(q)>> /\ \A i \in DOMAIN s : i # N => z[i] = s[i]
  BY <1>2, <1>6, <1>7
<1>9. z \in Seq(Types \X Seq(Types)) /\ Len(z) = N
  <2>1. <<s[N][1], Tail(q)>> \in Types \X Seq(Types)
    BY <1>4, <1>5
  <2>2. z = [s EXCEPT ![N] = <<s[N][1], Tail(q)>>]
    BY <1>6, <1>7
  <2>3. PICK e : e = <<s[N][1], Tail(q)>>
    OBVIOUS
  <2>4. N \in DOMAIN s /\ e \in Types \X Seq(Types) /\ z = [s EXCEPT ![N] = e]
    BY <1>2, <2>1, <2>2, <2>3
  <2>5. z \in Seq(Types \X Seq(Types)) /\ Len(z) = Len(s)
    <3>1. PICK P : P = Types \X Seq(Types)
      OBVIOUS
    <3>2. s \in Seq(P) /\ e \in P
      BY <1>1, <2>4, <3>1
    <3>3. \A i \in 1 .. N : s[i] \in P
      BY <1>2, <3>2, ElementOf
    <3>4. \A i \in 1 .. N : z[i] \in P
      BY <1>2, <2>4, <3>2, <3>3
    <3>5. z \in [1 .. N -> P]
      BY <1>2, <2>4, <3>4
    <3>6. z \in Seq(P) /\ Len(z) = N
      BY <3>5, FromElements
    <3> QED BY <1>2, <3>1, <3>6
  <2> QED BY <1>2, <2>5
<1>10. \A i \in DOMAIN s : z[i][1] = s[i][1]
  BY <1>8
<1>11. \A k \in DOMAIN q : q[k] \in Lays(s[N][1])
  BY <1>2, <1>3 DEF StackOK
<1>12. \A i \in DOMAIN z : \A k \in DOMAIN z[i][2] : z[i][2][k] \in Lays(z[i][1])
  <2> SUFFICES ASSUME NEW i \in DOMAIN s PROVE \A k \in DOMAIN z[i][2] : z[i][2][k] \in Lays(z[i][1])
    BY <1>6
  <2>1. CASE i = N
    <3>1. z[i][1] = s[N][1] /\ z[i][2] = Tail(q)
      BY <1>8, <2>1
    <3>2. \A k \in DOMAIN Tail(q) : k + 1 \in DOMAIN q
      BY <1>5
    <3> QED BY <1>5, <1>11, <3>1, <3>2
  <2>2. CASE i # N
    <3>1. z[i] = s[i]
      BY <1>8, <2>2
    <3> QED BY <3>1 DEF StackOK
  <2> QED BY <2>1, <2>2
<1>13. StackOK(z, st)
  BY <1>6, <1>9, <1>10, <1>12 DEF StackOK
<1>14. ASSUME NEW k \in DOMAIN q, q[k] # Head(q)
       PROVE  \E j \in DOMAIN z[N][2] : z[N][2][j] = q[k]
  <2>1. z[N][2] = Tail(q)
    BY <1>8
  <2>2. k # 1 /\ k - 1 \in DOMAIN Tail(q) /\ Tail(q)[k - 1] = q[k]
    <3>1. k # 1 /\ k \in 1 .. Len(q)
      BY <1>5, <1>14
    <3>2. k - 1 \in 1 .. Len(q) - 1 /\ (k - 1) + 1 = k
      BY <1>5, <3>1
    <3> QED BY <1>5, <3>1, <3>2
  <2> QED BY <2>1, <2>2
<1>15. Head(q) \in Lays(s[N][1])
  BY <1>5, <1>11
<1> QED BY <1>2, <1>3, <1>6, <1>8, <1>9, <1>10, <1>13, <1>14, <1>15

-----------------------------------------------------------------------------
(* All has been looked at but w, the target the last type is at. *)
LookedBut(s, st, C, w) == \A i \in DOMAIN s : \A v \in Lays(s[i][1]) :
  \/ \E k \in DOMAIN s[i][2] : s[i][2][k] = v
  \/ Settled(s, st, C, i, v)
  \/ i = Len(s) /\ v = w

(* Entering w settles it. *)
LEMMA EnterLooked ==
  ASSUME TypesOK, NEW s, NEW st, NEW C, StackOK(s, st), NEW n \in Types, st[n] = "unvisited",
         LookedBut(s, st, C, n),
         NEW z, z = Append(s, <<n, lays[n]>>), NEW zt, zt = [st EXCEPT ![n] = "onstack"]
  PROVE  Looked(z, zt, C)
<1>1. lays[n] \in Seq(Types) /\ <<n, lays[n]>> \in Types \X Seq(Types)
  BY DEF TypesOK
<1>2. s \in Seq(Types \X Seq(Types)) /\ st \in [Types -> {"unvisited", "onstack", "done"}]
  BY DEF StackOK
<1>3. /\ z \in Seq(Types \X Seq(Types)) /\ Len(z) = Len(s) + 1 /\ z[Len(z)] = <<n, lays[n]>>
      /\ DOMAIN z = 1 .. Len(s) + 1 /\ DOMAIN s = 1 .. Len(s) /\ Len(s) \in Nat
      /\ \A i \in DOMAIN s : z[i] = s[i]
  BY <1>1, <1>2, Pushed
<1>4. PICK N \in Nat : N = Len(s)
  BY <1>3
<1>5. /\ DOMAIN z = 1 .. N + 1 /\ DOMAIN s = 1 .. N /\ z[N + 1][1] = n /\ z[N + 1][2] = lays[n]
      /\ \A i \in 1 .. N : z[i] = s[i]
  BY <1>3, <1>4
<1>6. \A v : st[v] = "done" => zt[v] = "done"
  BY <1>2
<1> SUFFICES ASSUME NEW i \in 1 .. N + 1, NEW v \in Lays(z[i][1])
             PROVE  (\E k \in DOMAIN z[i][2] : z[i][2][k] = v) \/ Settled(z, zt, C, i, v)
  BY <1>5 DEF Looked
<1>7. CASE i = N + 1
  BY <1>5, <1>7 DEF Lays
<1>8. CASE i \in 1 .. N
  <2>1. z[i] = s[i]
    BY <1>5, <1>8
  <2>2. CASE Settled(s, st, C, i, v)
    <3>1. \A j \in DOMAIN s : j \in DOMAIN z /\ z[j][1] = s[j][1]
      BY <1>5
    <3> QED BY <1>6, <2>1, <2>2, <3>1 DEF Settled
  <2>3. CASE i = N /\ v = n
    <3>1. i + 1 = N + 1 /\ N + 1 \in DOMAIN z
      BY <1>5, <2>3
    <3> QED BY <1>5, <2>3, <3>1 DEF Settled
  <2> QED BY <1>4, <1>5, <1>8, <2>1, <2>2, <2>3 DEF LookedBut
<1>9. i = N + 1 \/ i \in 1 .. N
  OBVIOUS
<1> QED BY <1>7, <1>8, <1>9

(* Going on to the next target leaves just that one open. *)
LEMMA MoveOn ==
  ASSUME NEW s, NEW st, NEW C, StackOK(s, st), s # <<>>, s[Len(s)][2] # <<>>, Looked(s, st, C),
         NEW z, Onward(s, z)
  PROVE  LookedBut(z, st, C, Head(s[Len(s)][2]))
<1>1. PICK w : w = Head(s[Len(s)][2])
  OBVIOUS
<1>2. PICK N : N = Len(s)
  OBVIOUS
<1>3. /\ StackOK(z, st) /\ DOMAIN z = DOMAIN s /\ Len(z) = N
      /\ \A i \in DOMAIN s : z[i][1] = s[i][1] /\ (i # N => z[i] = s[i])
      /\ \A k \in DOMAIN s[N][2] : s[N][2][k] = w \/ \E j \in DOMAIN z[N][2] : z[N][2][j] = s[N][2][k]
  BY <1>1, <1>2, NextTarget
<1> SUFFICES ASSUME NEW i \in DOMAIN s, NEW v \in Lays(s[i][1])
             PROVE  \/ \E k \in DOMAIN z[i][2] : z[i][2][k] = v
                    \/ Settled(z, st, C, i, v)
                    \/ i = N /\ v = w
  BY <1>1, <1>3 DEF LookedBut
<1>4. CASE Settled(s, st, C, i, v)
  BY <1>3, <1>4 DEF Settled
<1>5. CASE \E k \in DOMAIN s[i][2] : s[i][2][k] = v
  BY <1>3, <1>5
<1> QED BY <1>4, <1>5 DEF Looked

(* Once the target is settled too, all has been looked at. *)
LEMMA LookedAll ==
  ASSUME NEW s, NEW st, NEW C, NEW D, C \subseteq D, NEW w, LookedBut(s, st, C, w),
         Settled(s, st, D, Len(s), w)
  PROVE  Looked(s, st, D)
BY DEF LookedBut, Looked, Settled

(* c is what lies on the stack from w on, which the last type lays out. *)
From(s, N, j, w, c) ==
  /\ N \in Nat /\ N = Len(s) /\ DOMAIN s = 1 .. N
  /\ j \in 1 .. N /\ s[j][1] = w /\ w \in Lays(s[N][1])
  /\ c \in Seq(Types) /\ Len(c) = N - j + 1 /\ \A i \in 1 .. N - j + 1 : c[i] = s[i + j - 1][1]

(* A target found on the stack closes a cycle of the types above it. *)
LEMMA CycleFrom ==
  ASSUME TypesOK, NEW s, NEW st, StackOK(s, st), NEW N, NEW j, NEW w, NEW c, From(s, N, j, w, c)
  PROVE  IsCycle(c) /\ c[1] = w /\ (s[N][1] = w \/ s[N][1] \in InsideOf(w))
<1> USE DEF From
<1>1. 1 \in 1 .. N - j + 1 /\ 1 + j - 1 = j /\ Len(c) > 0 /\ DOMAIN c = 1 .. N - j + 1
  OBVIOUS
<1>2. c[1] = w
  BY <1>1
<1>3. ASSUME NEW i \in DOMAIN c PROVE c[IF i = Len(c) THEN 1 ELSE i + 1] \in Lays(c[i])
  <2>1. CASE i = N - j + 1
    <3>1. N - j + 1 \in 1 .. N - j + 1 /\ (N - j + 1) + j - 1 = N
      OBVIOUS
    <3>2. c[i] = s[N][1]
      BY <2>1, <3>1
    <3> QED BY <1>2, <2>1, <3>2
  <2>2. CASE i # N - j + 1
    <3>1. i \in 1 .. N - j + 1
      BY <1>1
    <3>2. /\ i + 1 \in 1 .. N - j + 1 /\ i + j - 1 \in 1 .. N /\ i + j \in 1 .. N
          /\ i + j = (i + j - 1) + 1 /\ (i + 1) + j - 1 = i + j
      <4>1. N \in Nat /\ j \in 1 .. N
        OBVIOUS
      <4> HIDE DEF From
      <4> QED BY <2>2, <3>1, <4>1
    <3>3. c[i] = s[i + j - 1][1] /\ c[i + 1] = s[i + j][1]
      BY <3>1, <3>2
    <3>4. s[i + j][1] \in Lays(s[i + j - 1][1])
      BY <3>2 DEF StackOK
    <3> QED BY <2>2, <3>3, <3>4
  <2> QED BY <2>1, <2>2
<1>4. s[N][1] = w \/ s[N][1] \in InsideOf(w)
  <2>1. j = N \/ (j < N /\ N \in 1 .. N)
    OBVIOUS
  <2>2. j < N => s[N][1] \in InsideOf(s[j][1])
    BY <2>1 DEF StackOK
  <2> QED BY <2>1, <2>2
<1> QED BY <1>1, <1>2, <1>3, <1>4 DEF IsCycle

LEMMA PartOf ==
  ASSUME NEW S, NEW q, q \in Seq(S), NEW N \in Nat, N = Len(q), NEW j \in 1 .. N,
         NEW c, c = SubSeq(q, j, N)
  PROVE  c \in Seq(S) /\ Len(c) = N - j + 1 /\ \A i \in 1 .. N - j + 1 : c[i] = q[i + j - 1]
OBVIOUS

CycleAt(s, w) ==
  LET on == [i \in 1 .. Len(s) |-> s[i][1]]
      start == CHOOSE i \in DOMAIN on : on[i] = w
  IN  SubSeq(on, start, Len(on))

LEMMA CycleFound ==
  ASSUME TypesOK, NEW s, NEW st, StackOK(s, st), s # <<>>, NEW w \in Types, st[w] = "onstack",
         w \in Lays(s[Len(s)][1])
  PROVE  /\ IsCycle(CycleAt(s, w)) /\ CycleAt(s, w)[1] = w
         /\ s[Len(s)][1] = w \/ s[Len(s)][1] \in InsideOf(w)
<1>1. s \in Seq(Types \X Seq(Types))
  BY DEF StackOK
<1>2. PICK N \in Nat : N = Len(s) /\ N # 0 /\ DOMAIN s = 1 .. N
  <2>1. Len(s) \in Nat /\ Len(s) # 0 /\ DOMAIN s = 1 .. Len(s)
    BY <1>1
  <2> QED BY <2>1
<1>3. \A i \in 1 .. N : s[i][1] \in Types
  <2> SUFFICES ASSUME NEW i \in 1 .. N PROVE s[i][1] \in Types
    OBVIOUS
  <2>1. s[i] \in Types \X Seq(Types)
    BY <1>1, <1>2, ElementOf
  <2> QED BY <2>1
<1>4. PICK on : on = [i \in 1 .. Len(s) |-> s[i][1]]
  OBVIOUS
<1>5. PICK start : start = CHOOSE i \in DOMAIN on : on[i] = w
  OBVIOUS
<1>6. PICK c : c = SubSeq(on, start, Len(on))
  OBVIOUS
<1>7. DOMAIN on = 1 .. N /\ \A i \in 1 .. N : on[i] = s[i][1]
  BY <1>2, <1>4
<1>8. on \in Seq(Types) /\ Len(on) = N
  <2>1. on \in [1 .. N -> Types]
    BY <1>2, <1>3, <1>4
  <2> QED BY <2>1, FromElements
<1>9. start \in 1 .. N /\ s[start][1] = w
  <2>1. \E i \in 1 .. N : s[i][1] = w
    BY <1>2 DEF StackOK
  <2>2. \E i \in DOMAIN on : on[i] = w
    BY <1>7, <2>1
  <2>3. start \in DOMAIN on /\ on[start] = w
    BY <1>5, <2>2
  <2> QED BY <1>7, <2>3
<1>10. c \in Seq(Types) /\ Len(c) = N - start + 1 /\ \A i \in 1 .. N - start + 1 : c[i] = on[i + start - 1]
  BY <1>6, <1>8, <1>9, PartOf
<1>11. \A i \in 1 .. N - start + 1 : i + start - 1 \in 1 .. N
  BY <1>9
<1>12. \A i \in 1 .. N - start + 1 : c[i] = s[i + start - 1][1]
  BY <1>7, <1>10, <1>11
<1>13. IsCycle(c) /\ c[1] = w /\ (s[N][1] = w \/ s[N][1] \in InsideOf(w))
  <2>1. w \in Lays(s[N][1])
    BY <1>2
  <2>2. From(s, N, start, w, c)
    BY <1>2, <1>9, <1>10, <1>12, <2>1 DEF From
  <2> QED BY <2>2, CycleFrom
<1> QED BY <1>2, <1>4, <1>5, <1>6, <1>13 DEF CycleAt
-----------------------------------------------------------------------------
(* The type looked at whole is left: what it lays out is done or reported, *)
(* so a cycle through it has been reported too.                            *)
LEMMA LeaveKeeps ==
  ASSUME TypesOK, NEW s, NEW st, NEW C, WalkOK(s, st, C), s # <<>>, s[Len(s)][2] = <<>>,
         NEW z, z = SubSeq(s, 1, Len(s) - 1), NEW zt, zt = [st EXCEPT ![s[Len(s)][1]] = "done"]
  PROVE  WalkOK(z, zt, C)
<1>1. /\ s \in Seq(Types \X Seq(Types)) /\ st \in [Types -> {"unvisited", "onstack", "done"}]
      /\ StackOK(s, st) /\ Looked(s, st, C) /\ DoneTold(st, C)
  BY DEF WalkOK, StackOK
<1>2. PICK N \in Nat : N = Len(s)
  BY <1>1
<1>3. PICK u : u = s[N][1]
  OBVIOUS
<1>4. /\ z \in Seq(Types \X Seq(Types)) /\ DOMAIN z = 1 .. N - 1 /\ DOMAIN s = 1 .. N /\ N \in 1 .. N
      /\ \A i \in 1 .. N - 1 : z[i] = s[i]
  BY <1>1, <1>2, Popped
<1>5. u \in Types
  <2>1. s[N] \in Types \X Seq(Types)
    BY <1>1, <1>4, ElementOf
  <2> QED BY <1>3, <2>1
<1>6. /\ zt \in [Types -> {"unvisited", "onstack", "done"}]
      /\ \A t \in Types : zt[t] = IF t = u THEN "done" ELSE st[t]
  BY <1>1, <1>2, <1>3, <1>5
<1>7. /\ \A i \in 1 .. N - 1 : i \in 1 .. N /\ i # N /\ i \in DOMAIN s
      /\ \A i \in 1 .. N : i = N \/ i \in 1 .. N - 1
  BY <1>4
<1>8. \A i \in 1 .. N - 1 : s[i][1] # u
  BY <1>1, <1>3, <1>4, <1>7 DEF StackOK
<1>9. st[u] = "onstack"
  BY <1>1, <1>3, <1>4, <1>5 DEF StackOK
<1>10. StackOK(z, zt)
  <2>1. \A t \in Types : zt[t] = "onstack" <=> \E i \in 1 .. N - 1 : s[i][1] = t
    <3> SUFFICES ASSUME NEW t \in Types
                 PROVE  zt[t] = "onstack" <=> \E i \in 1 .. N - 1 : s[i][1] = t
      OBVIOUS
    <3>1. st[t] = "onstack" <=> \E i \in 1 .. N : s[i][1] = t
      BY <1>1, <1>4 DEF StackOK
    <3>2. CASE t = u
      BY <1>6, <1>8, <3>2
    <3>3. CASE t # u
      <4>1. (\E i \in 1 .. N : s[i][1] = t) <=> \E i \in 1 .. N - 1 : s[i][1] = t
        BY <1>3, <1>7, <3>3
      <4> QED BY <1>6, <3>1, <3>3, <4>1
    <3> QED BY <3>2, <3>3
  <2>2. \A i, j \in 1 .. N - 1 : s[i][1] = s[j][1] => i = j
    BY <1>1, <1>7 DEF StackOK
  <2>3. \A i \in 1 .. N - 1 : \A j \in 1 .. N - 1 : j = i + 1 => s[j][1] \in Lays(s[i][1])
    BY <1>1, <1>7 DEF StackOK
  <2>4. \A i, j \in 1 .. N - 1 : i < j => s[j][1] \in InsideOf(s[i][1])
    BY <1>1, <1>7 DEF StackOK
  <2>5. \A i \in 1 .. N - 1 : \A k \in DOMAIN s[i][2] : s[i][2][k] \in Lays(s[i][1])
    BY <1>1, <1>7 DEF StackOK
  <2>6. \A t \in Types : zt[t] = "onstack" <=> \E i \in DOMAIN z : z[i][1] = t
    BY <1>4, <2>1
  <2>7. \A i, j \in DOMAIN z : z[i][1] = z[j][1] => i = j
    <3> SUFFICES ASSUME NEW i \in 1 .. N - 1, NEW j \in 1 .. N - 1, z[i][1] = z[j][1] PROVE i = j
      BY <1>4
    <3>1. z[i] = s[i] /\ z[j] = s[j]
      BY <1>4
    <3> QED BY <2>2, <3>1
  <2>8. \A i \in DOMAIN z : \A j \in DOMAIN z : j = i + 1 => z[j][1] \in Lays(z[i][1])
    BY <1>4, <2>3
  <2>9. \A i, j \in DOMAIN z : i < j => z[j][1] \in InsideOf(z[i][1])
    BY <1>4, <2>4
  <2>10. \A i \in DOMAIN z : \A k \in DOMAIN z[i][2] : z[i][2][k] \in Lays(z[i][1])
    BY <1>4, <2>5
  <2> QED BY <1>4, <1>6, <2>6, <2>7, <2>8, <2>9, <2>10 DEF StackOK
<1>11. \A v : st[v] = "done" => zt[v] = "done"
  BY <1>1, <1>6
<1>12. zt[u] = "done"
  BY <1>5, <1>6
<1>13. Looked(z, zt, C)
  <2> SUFFICES ASSUME NEW i \in 1 .. N - 1, NEW v \in Lays(s[i][1])
               PROVE  (\E k \in DOMAIN s[i][2] : s[i][2][k] = v) \/ Settled(z, zt, C, i, v)
    BY <1>4 DEF Looked
  <2>1. CASE Settled(s, st, C, i, v)
    <3>1. z[i] = s[i]
      BY <1>4
    <3>2. ASSUME NEW j \in DOMAIN s, j = i + 1, s[j][1] = v
          PROVE  zt[v] = "done" \/ \E k \in DOMAIN z : k = i + 1 /\ z[k][1] = v
      <4>1. CASE j = N
        BY <1>3, <1>12, <3>2, <4>1
      <4>2. CASE j \in 1 .. N - 1
        BY <1>4, <3>2, <4>2
      <4> QED BY <1>4, <1>7, <4>1, <4>2
    <3> QED BY <1>11, <2>1, <3>1, <3>2 DEF Settled
  <2>2. CASE \E k \in DOMAIN s[i][2] : s[i][2][k] = v
    BY <2>2
  <2> QED BY <1>1, <1>7, <2>1, <2>2 DEF Looked
<1>14. ASSUME NEW v \in Lays(u)
       PROVE  st[v] = "done" \/ \E c \in C : c[1] = v
  <2>1. s[N][2] = <<>>
    BY <1>2
  <2>2. ~\E k \in DOMAIN s[N][2] : s[N][2][k] = v
    BY <2>1
  <2>3. Settled(s, st, C, N, v)
    BY <1>1, <1>3, <1>4, <1>14, <2>2 DEF Looked
  <2>4. \A j \in DOMAIN s : j # N + 1
    BY <1>4
  <2> QED BY <2>3, <2>4 DEF Settled
<1>15. ASSUME u \in InsideOf(u) PROVE Told(C, u)
  <2>1. PICK v \in Lays(u) : u = v \/ u \in InsideOf(v)
    BY <1>5, <1>15, InsideBegins
  <2>2. v \in InsideOf(u) /\ v \in Types
    BY <1>5, InsideLeast DEF Whole
  <2>3. u \in InsideOf(v)
    BY <1>15, <2>1
  <2>4. CASE \E c \in C : c[1] = v
    BY <2>2, <2>3, <2>4 DEF Told
  <2>5. CASE st[v] = "done"
    <3>1. InsideOf(v) \subseteq InsideOf(u) /\ InsideOf(u) \subseteq InsideOf(v)
      BY <1>5, <2>2, <2>3, InsideCarries
    <3>2. v \in InsideOf(v)
      BY <2>2, <3>1
    <3>3. PICK c \in C : c[1] \in InsideOf(v) /\ v \in InsideOf(c[1])
      BY <1>1, <2>2, <2>5, <3>2 DEF DoneTold, Told
    <3>4. c[1] \in Types
      BY <2>2, <3>3, InsideCarries
    <3>5. InsideOf(v) \subseteq InsideOf(c[1])
      BY <3>3, <3>4, InsideCarries
    <3> QED BY <2>3, <3>1, <3>3, <3>5 DEF Told
  <2> QED BY <1>14, <2>4, <2>5
<1>16. DoneTold(zt, C)
  BY <1>1, <1>6, <1>15 DEF DoneTold
<1> QED BY <1>10, <1>13, <1>16 DEF WalkOK

(* The types never change, so what the walk has found stays true of them. *)
LEMMA SameTypes ==
  ASSUME lays' = lays
  PROVE  /\ TypesOK => TypesOK'
         /\ \A s, st, C : WalkOK(s, st, C) => WalkOK(s, st, C)'
<1>1. Types' = Types
  BY DEF Types
<1>2. \A t : Lays(t)' = Lays(t)
  BY DEF Lays
<1>3. \A t : InsideOf(t)' = InsideOf(t)
  BY <1>1, <1>2 DEF InsideOf
<1>4. TypesOK => TypesOK'
  BY <1>1 DEF TypesOK
<1>5. \A s, st : StackOK(s, st) => StackOK(s, st)'
  BY <1>1, <1>2, <1>3 DEF StackOK
<1>6. \A s, st, C : Looked(s, st, C) => Looked(s, st, C)'
  BY <1>1, <1>2, <1>3 DEF Looked, Settled
<1>7. \A st, C : DoneTold(st, C) => DoneTold(st, C)'
  BY <1>1, <1>2, <1>3 DEF DoneTold, Told
<1>8. \A c : IsCycle(c) => IsCycle(c)'
  BY <1>1, <1>2 DEF IsCycle
<1>9. \A s, st, C : WalkOK(s, st, C) => WalkOK(s, st, C)'
  BY <1>5, <1>6, <1>7, <1>8 DEF WalkOK
<1> QED BY <1>4, <1>9

LEMMA Walked ==
  ASSUME TypesOK, lays' = lays, NEW z, NEW zt, NEW D, z = stack', zt = state', D = cycles',
         WalkOK(z, zt, D)
  PROVE  WalkInv'
BY SameTypes DEF WalkInv

(* One lemma per action. *)
LEMMA StartKept == ASSUME WalkInv, Start PROVE WalkInv'
<1>1. PICK s, st, C : s = stack /\ st = state /\ C = cycles /\ WalkOK(s, st, C) /\ TypesOK
  BY DEF WalkInv
<1>2. PICK n \in Types : state[n] = "unvisited" /\ Visit(n)
  BY DEF Start
<1>3. s = <<>> /\ lays' = lays /\ cycles' = C
  BY <1>1 DEF Start
<1>4. PICK z : z = Append(s, <<n, lays[n]>>)
  OBVIOUS
<1>5. PICK zt : zt = [st EXCEPT ![n] = "onstack"]
  OBVIOUS
<1>6. z = stack' /\ zt = state'
  BY <1>1, <1>2, <1>4, <1>5 DEF Visit
<1>7. StackOK(s, st) /\ st[n] = "unvisited" /\ DoneTold(st, C) /\ \A c \in C : IsCycle(c)
  BY <1>1, <1>2 DEF WalkOK
<1>8. StackOK(z, zt)
  BY <1>1, <1>3, <1>4, <1>5, <1>7, EnterKeeps
<1>9. LookedBut(s, st, C, n)
  BY <1>3 DEF LookedBut
<1>10. Looked(z, zt, C)
  BY <1>1, <1>4, <1>5, <1>7, <1>9, EnterLooked
<1>11. DoneTold(zt, C)
  BY <1>5, <1>7 DEF DoneTold, StackOK
<1>12. WalkOK(z, zt, C)
  BY <1>7, <1>8, <1>10, <1>11 DEF WalkOK
<1> QED BY <1>1, <1>3, <1>6, <1>12, Walked

LEMMA LeaveKept == ASSUME WalkInv, Leave PROVE WalkInv'
<1>1. PICK s, st, C : s = stack /\ st = state /\ C = cycles /\ WalkOK(s, st, C) /\ TypesOK
  BY DEF WalkInv
<1>2. PICK z : z = SubSeq(s, 1, Len(s) - 1)
  OBVIOUS
<1>3. PICK zt : zt = [st EXCEPT ![s[Len(s)][1]] = "done"]
  OBVIOUS
<1>4. s # <<>> /\ s[Len(s)][2] = <<>> /\ z = stack' /\ zt = state' /\ C = cycles' /\ lays' = lays
  BY <1>1, <1>2, <1>3 DEF Leave, Top, Below
<1>5. WalkOK(z, zt, C)
  BY <1>1, <1>2, <1>3, <1>4, LeaveKeeps
<1> QED BY <1>1, <1>4, <1>5, Walked

LEMMA TargetKept == ASSUME WalkInv, Target PROVE WalkInv'
<1>1. PICK s, st, C : s = stack /\ st = state /\ C = cycles /\ WalkOK(s, st, C) /\ TypesOK
  BY DEF WalkInv
<1>2. s # <<>> /\ s[Len(s)][2] # <<>> /\ lays' = lays
  BY <1>1 DEF Target, Top
<1>3. PICK w : w = Head(s[Len(s)][2])
  OBVIOUS
<1>4. PICK z : Onward(s, z)
  BY DEF Onward
<1>5. StackOK(s, st) /\ Looked(s, st, C) /\ DoneTold(st, C) /\ \A c \in C : IsCycle(c)
  BY <1>1 DEF WalkOK
<1>6. /\ StackOK(z, st) /\ DOMAIN z = DOMAIN s /\ Len(z) = Len(s)
      /\ \A i \in DOMAIN s : z[i][1] = s[i][1]
      /\ w \in Lays(s[Len(s)][1])
  BY <1>2, <1>3, <1>4, <1>5, NextTarget
<1>7. LookedBut(z, st, C, w)
  BY <1>2, <1>3, <1>4, <1>5, MoveOn
<1>8. s[Len(s)][1] \in Types /\ z[Len(z)][1] = s[Len(s)][1] /\ w \in Types /\ z # <<>>
  <2>1. s \in Seq(Types \X Seq(Types)) /\ z \in Seq(Types \X Seq(Types))
    BY <1>5, <1>6 DEF StackOK
  <2>2. Len(s) \in DOMAIN s /\ Len(s) # 0
    BY <1>2, <2>1
  <2>3. s[Len(s)] \in Types \X Seq(Types)
    BY <2>1, <2>2, ElementOf
  <2>4. s[Len(s)][1] \in Types
    BY <2>3
  <2>5. w \in Types
    BY <1>1, <1>6, <2>4, InsideLeast DEF Whole
  <2>6. z # <<>>
    BY <1>6, <2>2
  <2> QED BY <1>6, <2>2, <2>4, <2>5, <2>6
<1>9. CASE st[w] = "unvisited" /\ state' = [st EXCEPT ![w] = "onstack"]
           /\ stack' = Append(z, <<w, lays[w]>>) /\ cycles' = C
  <2>1. PICK y : y = Append(z, <<w, lays[w]>>)
    OBVIOUS
  <2>2. PICK yt : yt = [st EXCEPT ![w] = "onstack"]
    OBVIOUS
  <2>3. StackOK(y, yt)
    BY <1>1, <1>6, <1>8, <1>9, <2>1, <2>2, EnterKeeps
  <2>4. Looked(y, yt, C)
    BY <1>1, <1>6, <1>7, <1>8, <1>9, <2>1, <2>2, EnterLooked
  <2>5. DoneTold(yt, C)
    BY <1>5, <2>2 DEF DoneTold, StackOK
  <2>6. WalkOK(y, yt, C)
    BY <1>5, <2>3, <2>4, <2>5 DEF WalkOK
  <2> QED BY <1>1, <1>2, <1>9, <2>1, <2>2, <2>6, Walked
<1>10. CASE /\ st[w] = "onstack" /\ stack' = z /\ state' = st
            /\ \E c : /\ cycles' = C \cup {c} /\ IsCycle(c) /\ c[1] = w
                      /\ s[Len(s)][1] = w \/ s[Len(s)][1] \in InsideOf(w)
  <2>1. PICK c : /\ cycles' = C \cup {c} /\ IsCycle(c) /\ c[1] = w
                 /\ s[Len(s)][1] = w \/ s[Len(s)][1] \in InsideOf(w)
    BY <1>10
  <2>2. PICK D : D = C \cup {c}
    OBVIOUS
  <2>3. Settled(z, st, D, Len(z), w)
    BY <1>8, <2>1, <2>2 DEF Settled
  <2>4. Looked(z, st, D)
    BY <1>7, <2>2, <2>3, LookedAll
  <2>5. DoneTold(st, D)
    BY <1>5, <2>2 DEF DoneTold, Told
  <2>6. WalkOK(z, st, D)
    BY <1>5, <1>6, <2>1, <2>2, <2>4, <2>5 DEF WalkOK
  <2> QED BY <1>1, <1>2, <1>10, <2>1, <2>2, <2>6, Walked
<1>11. CASE st[w] = "done" /\ stack' = z /\ state' = st /\ cycles' = C
  <2>1. Settled(z, st, C, Len(z), w)
    BY <1>11 DEF Settled
  <2>2. Looked(z, st, C)
    BY <1>7, <2>1, LookedAll
  <2>3. WalkOK(z, st, C)
    BY <1>5, <1>6, <2>2 DEF WalkOK
  <2> QED BY <1>1, <1>2, <1>11, <2>3, Walked
<1>12. z = [stack EXCEPT ![Len(stack)][2] = Tail(@)] /\ w = Head(Top[2])
  BY <1>1, <1>3, <1>4 DEF Onward, Top
<1>13. ASSUME st[w] = "onstack",
              cycles' = C \cup {CycleAt(s, w)}
       PROVE  \E c : /\ cycles' = C \cup {c} /\ IsCycle(c) /\ c[1] = w
                     /\ s[Len(s)][1] = w \/ s[Len(s)][1] \in InsideOf(w)
  BY <1>1, <1>2, <1>5, <1>6, <1>8, <1>13, CycleFound
<1> QED BY <1>1, <1>9, <1>10, <1>11, <1>12, <1>13 DEF Target, CycleAt
-----------------------------------------------------------------------------
(* Whatever the types, the walk keeps: the types on the stack lay out each *)
(* the next, each has looked at what it no longer has to, and each type    *)
(* done that contains itself shares a tangle with a cycle reported.        *)
THEOREM WalkKept == TypesSpec => []WalkInv
<1>1. ASSUME NEW p, TypesStart(p) PROVE WalkInv
  <2>1. PICK s, st, C : s = stack /\ st = state /\ C = cycles
    OBVIOUS
  <2>2. s = <<>> /\ C = {} /\ st = [t \in Types |-> "unvisited"]
    BY <1>1, <2>1 DEF TypesStart, Types
  <2>3. TypesOK
    BY <1>1 DEF TypesStart, TypesOK, Types
  <2>4. StackOK(s, st)
    BY <2>2 DEF StackOK
  <2>5. Looked(s, st, C) /\ DoneTold(st, C)
    BY <2>2 DEF Looked, DoneTold
  <2> QED BY <2>1, <2>2, <2>3, <2>4, <2>5 DEF WalkInv, WalkOK
<1>2. ASSUME WalkInv, [TypesNext]_tvars PROVE WalkInv'
  <2>1. CASE UNCHANGED tvars
    BY <1>2, <2>1, Walked DEF WalkInv, tvars
  <2> QED BY <1>2, <2>1, StartKept, TargetKept, LeaveKept DEF TypesNext
<1>3. (\E p : TypesStart(p)) => WalkInv
  BY <1>1
<1> QED BY <1>2, <1>3, PTL DEF TypesSpec

(* V0109 misses no type without a size (lookup, visit): when the walk is   *)
(* over, every cycle it reported is a cycle of types laid out in each      *)
(* other, and each type that contains itself is in the tangle of one.      *)
THEOREM NoneMissed == TypesSpec => []RecursionReported
<1>1. ASSUME WalkInv PROVE RecursionReported
  <2>1. PICK s, st, C : s = stack /\ st = state /\ C = cycles /\ WalkOK(s, st, C)
    BY <1>1 DEF WalkInv
  <2>2. \A c \in cycles : \A i \in DOMAIN c : c[IF i = Len(c) THEN 1 ELSE i + 1] \in Lays(c[i])
    BY <2>1 DEF WalkOK, IsCycle
  <2>3. \A t \in Types : state[t] = "done" /\ t \in InsideOf(t) =>
          \E c \in cycles : c[1] \in InsideOf(t) /\ t \in InsideOf(c[1])
    BY <2>1 DEF WalkOK, DoneTold, Told
  <2> QED BY <2>2, <2>3 DEF RecursionReported
<1> QED BY <1>1, WalkKept, PTL
=============================================================================
