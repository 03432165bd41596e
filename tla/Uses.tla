-------------------------------- MODULE Uses --------------------------------
(***************************************************************************)
(* `use` and `pub use` (resolve/uses.rs): every `pub use` that resolves is *)
(* entered first, round after round until a round enters none; then every  *)
(* `use` of every file is resolved, in order, and makes its local name an  *)
(* alias.  A package that uses this one then gets its re-exports           *)
(* (resolve/package_items.rs).                                             *)
(*                                                                         *)
(* A name has two namespaces, "fn" and "type"; modules are in the second.  *)
(* An item is [module, name, ns, pub]; a use is [lead, path, local, pub],  *)
(* its path the names after `crate`, `self`, `super` or nothing.           *)
(***************************************************************************)
EXTENDS Visibility, TLC

VARIABLES
  names,      \* the modules' names
  items,      \* the items the modules declare
  uses,       \* per module, its use lines in order
  reexports,  \* <<module, name, item>>: what `pub use` lines have entered
  aliases,    \* <<module, name, target, line>>: what use lines have made
  pending,    \* the `pub use` lines not entered yet: <<module, line>>, in order
  turn,       \* the place in `pending` of this round, and whether it entered any
  at,         \* the line registered next
  reported,   \* the lines reported
  imported    \* <<module, name, item>>: the re-exports another package sees

uvars == <<scopes, library, names, items, uses, reexports, aliases, pending, turn, at,
           reported, imported>>

Child(m, name) == {c \in Modules : scopes[c].parent = m /\ names[c] = name}
The(S) == CHOOSE x \in S : TRUE
AliasesOf(m, name) == {a[3] : a \in {b \in aliases : b[1] = m /\ b[2] = name}}
ModuleTarget(m) == [module |-> m, ns |-> "module", name |-> names[m], pub |-> scopes[m].pub]

(* `module_at`: the module a path leads to, or none.  Only the first name  *)
(* of a path without a keyword may be an alias of the file's own.          *)
ModuleAt(from, lead, path) ==
  LET start == CASE lead = "crate" -> {1} [] lead = "super" -> {scopes[from].parent} \ {0}
                 [] OTHER -> {from}
      first(name) == IF Child(from, name) # {} THEN Child(from, name)
                     ELSE {t.module : t \in {u \in AliasesOf(from, name) : u.ns = "module"}}
      walk[k \in 0 .. Len(path)] ==
        IF k = 0 THEN start
        ELSE IF k = 1 /\ lead = "none" THEN first(path[1])
        ELSE UNION {Child(m, path[k]) : m \in walk[k - 1]}
  IN walk[Len(path)]

Prefix(path) == SubSeq(path, 1, Len(path) - 1)
Last(path) == path[Len(path)]
Bare(u) == u.lead = "none" /\ Len(u.path) = 1

(* `lookup_fn` and `lookup_type`: an alias of the file for a bare name,    *)
(* else the module's own item, else what a `pub use` there has entered;    *)
(* nothing that is not visible.                                            *)
Lookup(from, u, ns) ==
  LET name == Last(u.path)
      alias == {t \in AliasesOf(from, name) : t.ns = ns}
      target == IF Bare(u) THEN {from} ELSE ModuleAt(from, u.lead, Prefix(u.path))
      own(m) == {i \in items : i.module = m /\ i.name = name /\ i.ns = ns}
      entered(m) == {r[3] : r \in {e \in reexports : e[1] = m /\ e[2] = name /\ e[3].ns = ns}}
  IN IF Bare(u) /\ alias # {} THEN alias
     ELSE UNION {IF own(m) # {} THEN {i \in own(m) : CanName(from, m, i.pub)}
                 ELSE {i \in entered(m) : PathVisible(from, m)} : m \in target}

(* `resolve_use_path`: the module, or the type, and the function. *)
Resolve(from, u) ==
  LET m == ModuleAt(from, u.lead, u.path)
      fn == Lookup(from, u, "fn")
  IN IF m # {} THEN IF PathVisible(from, The(m)) THEN {ModuleTarget(The(m))} \cup fn ELSE {}
     ELSE fn \cup Lookup(from, u, "type")

(* A name another use of the file makes, as the start of a path.           *)
ThroughAlias(from, k) ==
  LET u == uses[from][k]
  IN /\ u.lead \in {"none", "self"} \/ (u.lead = "crate" /\ from = 1)
     /\ Child(from, u.path[1]) = {}
     /\ \E j \in 1 .. Len(uses[from]) :
          j # k /\ uses[from][j].local = u.path[1]
          /\ ~\E i \in j + 1 .. Len(uses[from]) : uses[from][i].local = u.path[1]

(* Mutant: the modules on the item's own path are not looked at. *)
ReexportOfPub(targets) == \E t \in targets : t.ns = "module" \/ ~t.pub

(* A module, an item that is not `pub`, or one in a module that is not     *)
(* `pub` all the way.                                                      *)
ReexportProblem(targets) == \E t \in targets :
  t.ns = "module" \/ ~t.pub \/ Closed(t.module) # {}

PubLines ==
  LET most == CHOOSE k \in {Len(uses[m]) : m \in Modules} : \A m \in Modules : Len(uses[m]) <= k
  IN SelectSeq([p \in 1 .. Len(scopes) * most |-> <<((p - 1) \div most) + 1, ((p - 1) % most) + 1>>],
               LAMBDA l : l[2] <= Len(uses[l[1]]) /\ uses[l[1]][l[2]].pub)

Drop(s, i) == SubSeq(s, 1, i - 1) \o SubSeq(s, i + 1, Len(s))

(* `seed_reexports`: the next `pub use` that waits in this round.          *)
Seed ==
  /\ turn[1] <= Len(pending)
  /\ LET from == pending[turn[1]][1]
         k == pending[turn[1]][2]
         u == uses[from][k]
         targets == Resolve(from, u)
     IN IF ~ThroughAlias(from, k) /\ targets = {}
        THEN turn' = <<turn[1] + 1, turn[2]>> /\ UNCHANGED <<pending, reexports>>
        ELSE /\ pending' = Drop(pending, turn[1]) /\ turn' = <<turn[1], TRUE>>
             /\ reexports' =
                  IF ThroughAlias(from, k) \/ ReexportProblem(targets) THEN reexports
                  ELSE {e \in reexports : e[1] # from \/ e[2] # u.local
                                          \/ e[3].ns \notin {t.ns : t \in targets}}
                       \cup {<<from, u.local, t>> : t \in targets}
  /\ UNCHANGED <<scopes, library, names, items, uses, aliases, at, reported, imported>>

(* Mutant: the `pub use` lines are gone through once. *)
OneRound ==
  /\ turn[1] = Len(pending) + 1 /\ turn[2]
  /\ turn' = <<turn[1], FALSE>>
  /\ UNCHANGED <<scopes, library, names, items, uses, reexports, aliases, pending, at, reported, imported>>

NextRound ==
  /\ turn[1] = Len(pending) + 1 /\ turn[2]
  /\ turn' = <<1, FALSE>>
  /\ UNCHANGED <<scopes, library, names, items, uses, reexports, aliases, pending, at, reported, imported>>

Seeded == turn = <<Len(pending) + 1, FALSE>>
Registering == Seeded /\ at[1] <= Len(scopes)

(* A declaration or an earlier use of the file has the name. *)
Clash(from, local, targets) == \E t \in targets :
  \/ t.ns = "fn" /\ \/ \E i \in items : i.module = from /\ i.name = local /\ i.ns = "fn"
                    \/ \E a \in AliasesOf(from, local) : a.ns = "fn"
  \/ t.ns # "fn" /\ \/ \E i \in items : i.module = from /\ i.name = local /\ i.ns = "type"
                    \/ Child(from, local) # {}
                    \/ \E a \in AliasesOf(from, local) : a.ns # "fn"

(* `register`: one use line. *)
Register ==
  /\ Registering
  /\ LET from == at[1]
         k == at[2]
         u == uses[from][k]
         targets == Resolve(from, u)
         done == k > Len(uses[from])
         refused == \/ ThroughAlias(from, k)
                    \/ targets = {}
                    \/ u.pub /\ ReexportProblem(targets)
                    \/ Clash(from, u.local, targets)
     IN /\ at' = IF done THEN <<from + 1, 1>> ELSE <<from, k + 1>>
        /\ reported' = IF ~done /\ refused THEN reported \cup {at} ELSE reported
        /\ aliases' = IF done \/ refused THEN aliases
                      ELSE aliases \cup {<<from, u.local, t, k>> : t \in targets}
  /\ UNCHANGED <<scopes, library, names, items, uses, reexports, pending, turn, imported>>

Done == Seeded /\ at[1] > Len(scopes)
Accepted == Done /\ reported = {}

(* `use_target_path_at`: what a line is written for, the function first. *)
Canonical(targets) ==
  IF \E t \in targets : t.ns = "fn" THEN The({t \in targets : t.ns = "fn"}) ELSE The(targets)

PubUses == UNION {{<<m, k>> : k \in {j \in DOMAIN uses[m] : uses[m][j].pub}} : m \in Modules}
TargetsOf(l) == {a[3] : a \in {b \in aliases : b[1] = l[1] /\ b[4] = l[2]}}

(* `package_items::register`: another package takes each `pub use` as its  *)
(* written path's name in the module that declares it, in both namespaces. *)
Import ==
  /\ Accepted /\ library /\ imported = {}
  /\ imported' = UNION {LET c == Canonical(TargetsOf(l))
                        IN {<<l[1], c.name, i>> : i \in {j \in items : j.module = c.module /\ j.name = c.name}}
                        : l \in PubUses}
  /\ imported' # {}
  /\ UNCHANGED <<scopes, library, names, items, uses, reexports, aliases, pending, turn, at, reported>>

UsesNext == Seed \/ NextRound \/ Register \/ Import

Use == [lead : {"crate", "self", "super", "none"}, path : Seq(STRING), local : STRING, pub : BOOLEAN]

(* A tree of modules with any items and any lines. *)
UsesStart ==
  /\ Tree(scopes)
  /\ \A i \in items : i.module \in Modules /\ i.ns \in {"fn", "type"}
  /\ \A m \in Modules : uses[m] \in Seq(Use)
  /\ reexports = {} /\ aliases = {} /\ reported = {} /\ imported = {}
  /\ pending = PubLines /\ turn = <<1, FALSE>> /\ at = <<1, 1>>

UsesSpec == UsesStart /\ [][UsesNext]_uvars
-----------------------------------------------------------------------------
(* Whoever can use a function can name its types, which the generated Rust *)
(* writes in full: for every function and every type its own module sees,  *)
(* once the function is accepted each module that can call it can name the *)
(* type, and so can other packages when they can call it; and a Rust       *)
(* function is never called where one of its types is hidden.  (No use     *)
(* line changes it, so it is stated of the trees without one.)            *)
UsersCanNameTypes == (Accepted /\ items = {}) => \A t \in Items :
  /\ \A f \in Functions :
       CanName(f.module, t.module, t.pub) /\ (f.pub => ~PrivateInPublic(f, t)) =>
         /\ \A from \in Modules : CanCall(from, f) => CanName(from, t.module, t.pub)
         /\ FnExported(f) => Exported(t.module, t.pub)
  /\ \A m \in Modules, from \in Modules :
       LET f == [module |-> m]
       IN CanName(from, m, TRUE) /\ UsableFrom(Within(f, t), from) =>
            CanName(from, t.module, t.pub)

(* In an accepted program every alias is of an item its module can name by *)
(* the item's own path, which is what is written, and whoever can name a   *)
(* re-export can name the item behind it: another package too, to which    *)
(* the item, or one in the same module that shares its name, is `pub` all  *)
(* the way.                                                                *)
AliasesAreNameable == Accepted =>
  /\ \A a \in aliases :
       IF a[3].ns = "module" THEN PathVisible(a[1], a[3].module)
                             ELSE CanName(a[1], a[3].module, a[3].pub)
  /\ \A r \in reexports, from \in Modules :
       PathVisible(from, r[1]) => CanName(from, r[3].module, r[3].pub)
  /\ \A i \in imported :
       /\ Closed(i[3].module) = {}
       /\ \E j \in items : j.module = i[3].module /\ j.name = i[3].name /\ j.pub

(* Who can use an item, by its own path or by another name for it, can     *)
(* name what the generated Rust writes for it (resolve/visibility.rs).     *)
TypesAreNameable == UsersCanNameTypes /\ AliasesAreNameable

(* A path through a re-export resolves whichever file comes first: when    *)
(* the program is accepted, each `pub use` has entered everything its path *)
(* names.                                                                  *)
ReexportsComplete == Accepted =>
  \A l \in PubUses : \A t \in Resolve(l[1], uses[l[1]][l[2]]) :
    <<l[1], uses[l[1]][l[2]].local, t>> \in reexports
=============================================================================
