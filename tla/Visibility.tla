----------------------------- MODULE Visibility -----------------------------
(***************************************************************************)
(* Who can name what (resolve/visibility.rs): a module, or an item,        *)
(* without `pub` is seen in the module that declares it and those inside   *)
(* that one, and an item is named by its own path, so every module on it   *)
(* must be seen too.  Modules are numbered as they are loaded, a parent    *)
(* before its children; 1 is the crate's root.                             *)
(***************************************************************************)
EXTENDS Integers, Sequences, FiniteSets

VARIABLES
  scopes,   \* per module: its parent (0 for the root) and whether it is `pub`
  library   \* whether other packages may use this one

Modules == 1 .. Len(scopes)

(* What `mod` lines make: a tree that begins at the root. *)
Tree(s) ==
  /\ s \in Seq([parent : Nat, pub : BOOLEAN]) /\ s # <<>>
  /\ \A m \in DOMAIN s : IF m = 1 THEN s[m].parent = 0 ELSE s[m].parent \in 1 .. m - 1

(* `ancestors`: the module itself and those it is inside of, the least set *)
(* with it that has every parent of its own.                               *)
Ancestors(m) == {n \in Modules : \A W \in SUBSET Modules :
  m \in W /\ (\A k \in W : scopes[k].parent \in W \cup {0}) => n \in W}

(* Whether `outer` is `inner` or one it is inside of. *)
Contains(outer, inner) == outer \in Ancestors(inner)

IsVisible(from, declaredIn, isPub) == isPub \/ Contains(declaredIn, from)

PathVisible(from, target) ==
  \A m \in Ancestors(target) :
    scopes[m].parent = 0 \/ IsVisible(from, scopes[m].parent, scopes[m].pub)

(* `check_visible`: the path to an item's module, and the item. *)
CanName(from, module, isPub) == PathVisible(from, module) /\ IsVisible(from, module, isPub)

(* The modules on the way to m, itself included, that are not `pub`. *)
Closed(m) == {n \in Ancestors(m) : scopes[n].parent # 0 /\ ~scopes[n].pub}
Lowest(S) == CHOOSE m \in S : \A n \in S : n <= m

(* Mutant: the highest module that is not `pub` decides. *)
ReachByHighest(module, isPub) ==
  IF ~isPub THEN module
  ELSE IF Closed(module) = {} THEN 1
  ELSE scopes[CHOOSE m \in Closed(module) : \A n \in Closed(module) : m <= n].parent

(* The module in which, and in the modules inside it, an item can be named. *)
Reach(module, isPub) ==
  IF ~isPub THEN module
  ELSE IF Closed(module) = {} THEN 1 ELSE scopes[Lowest(Closed(module))].parent

(* `exported`: other packages can use it. *)
Exported(module, isPub) == library /\ isPub /\ Closed(module) = {}

(* A method can be used where both it and its type can; a free function    *)
(* has no owner.                                                           *)
FnReach(f) ==
  LET own == Reach(f.module, f.pub)
      owner == IF f.owner = {} THEN own ELSE Reach(f.module, f.ownerPub)
  IN IF Contains(own, owner) THEN owner ELSE own

FnExported(f) == Exported(f.module, f.pub) /\ (f.owner = {} \/ Exported(f.module, f.ownerPub))

(* V0105: a `pub` function names a type some of its users cannot.          *)
PrivateInPublic(f, t) ==
  \/ ~Contains(Reach(t.module, t.pub), FnReach(f))
  \/ FnExported(f) /\ ~Exported(t.module, t.pub)

(* `hide_if_unreachable`: a Rust function may be called only inside the    *)
(* module its types are seen from, when that is less than its own reach.   *)
Within(f, t) ==
  IF Contains(Reach(t.module, t.pub), Reach(f.module, TRUE))
  THEN Reach(f.module, TRUE) ELSE Reach(t.module, t.pub)

UsableFrom(within, from) == Contains(within, from)
-----------------------------------------------------------------------------
Items == [module : Modules, pub : BOOLEAN]
Functions == [module : Modules, pub : BOOLEAN, owner : SUBSET {"type"}, ownerPub : BOOLEAN]

CanCall(from, f) ==
  /\ CanName(from, f.module, f.pub)
  /\ f.owner = {} \/ CanName(from, f.module, f.ownerPub)
=============================================================================
