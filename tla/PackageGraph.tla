---------------------------- MODULE PackageGraph ----------------------------
(***************************************************************************)
(* The packages of a build (packages.rs): cargo's answer is a graph of     *)
(* packages, in which those that are Varyk's are found depth first through *)
(* plain [dependencies], each after the ones it depends on, and every      *)
(* other way of reaching one is refused.                                   *)
(***************************************************************************)
EXTENDS Naturals, Sequences, FiniteSets

CONSTANTS
  MaxNodes,  \* bound: the packages of cargo's answer, the program first
  Ways       \* how an edge may be listed: not without any table

ASSUME GraphAssumption ==
  MaxNodes \in Nat \ {0} /\ Ways \subseteq (SUBSET {"plain", "other", "optional"}) \ {{}}

(* A package: whether its directory has src/lib.vr, whether cargo got it   *)
(* by path, its name with its version (a number stands for the two), and   *)
(* its edges in cargo's order.                                             *)
GraphNode == [varyk : BOOLEAN, path : BOOLEAN, name : Nat, edges : Seq([to : Nat, ways : Ways])]

VARIABLES
  graph,     \* cargo's answer: a sequence of packages
  order,     \* the Varyk packages found, each after its dependencies
  seen,      \* those already met
  stack,     \* the depth-first walk: a package and its next edge
  verdict,   \* "walking", "none", "refused" or "accepted"
  deps       \* per package of `order`, and first the program: <<key, index>>

gvars == <<graph, order, seen, stack, verdict, deps>>

Root == 1
Nodes == 1 .. Len(graph)
IsVaryk(n) == n # Root /\ graph[n].varyk
Edges(n) == graph[n].edges
Plain(e) == "plain" \in e.ways
PlainEdges(n) == {i \in 1 .. Len(Edges(n)) : Plain(Edges(n)[i])}
Rust == 0   \* the index of a dependency that is a Rust crate

(* Cargo's answers: numbered so that a package comes before those it       *)
(* depends on, for cargo allows no cycle but the one a development         *)
(* dependency of the program closes; and only what is depended on is there.*)
LeadsTo(n) == {Edges(n)[i].to : i \in 1 .. Len(Edges(n))}
CargoAnswer ==
  /\ graph \in Seq(GraphNode) /\ Len(graph) \in 1 .. MaxNodes /\ graph[Root].path
  /\ \A n \in Nodes : LeadsTo(n) \subseteq {Root} \cup (n + 1 .. Len(graph))
  /\ Nodes \ {Root} \subseteq UNION {LeadsTo(n) : n \in Nodes}

(* `Graph::read`: without a dependency nothing is asked and nothing read.  *)
NothingListed == Edges(Root) = <<>>

(* The first edge of n, from its next one on, to a package not yet met.    *)
Followed(n, from) ==
  {i \in PlainEdges(n) : from <= i /\ IsVaryk(Edges(n)[i].to) /\ Edges(n)[i].to \notin seen}

First(S) == CHOOSE i \in S : \A j \in S : i <= j

(* One turn of the walk. *)
Walk ==
  /\ verdict = "walking" /\ stack # <<>>
  /\ LET top == stack[Len(stack)]
         rest == SubSeq(stack, 1, Len(stack) - 1)
         at == top[1]
         found == Followed(at, top[2])
     IN IF found # {}
        THEN LET i == First(found)  to == Edges(at)[i].to
             IN /\ seen' = seen \cup {to}
                /\ stack' = rest \o <<<<at, i + 1>>, <<to, 1>>>>
                /\ order' = order
        ELSE /\ order' = IF at = Root THEN order ELSE Append(order, at)
             /\ stack' = rest /\ seen' = seen
  /\ UNCHANGED <<graph, verdict, deps>>

Built == {order[i] : i \in 1 .. Len(order)}
Place(n) == CHOOSE i \in 1 .. Len(order) : order[i] = n
Users == {Root} \cup Built

(* Mutant: every package that is listed so is refused. *)
AnyListedOtherwise == \E u \in Users : \E i \in 1 .. Len(Edges(u)) :
  Edges(u)[i].ways \cap {"other", "optional"} # {}

(* A user lists a Varyk package in another table, or as optional. *)
ListedOtherwise == \E u \in Users : \E i \in 1 .. Len(Edges(u)) :
  IsVaryk(Edges(u)[i].to) /\ Edges(u)[i].ways \cap {"other", "optional"} # {}

(* Mutant: only a Rust crate that the program lists itself is looked at. *)
UsedByListedRust == \E i \in 1 .. Len(Edges(Root)) :
  LET r == Edges(Root)[i].to
  IN ~IsVaryk(r) /\ \E j \in 1 .. Len(Edges(r)) : IsVaryk(Edges(r)[j].to)

(* A Rust crate anywhere in the graph uses a Varyk package. *)
UsedByRust == \E n \in Nodes \ {Root} :
  ~IsVaryk(n) /\ \E i \in 1 .. Len(Edges(n)) : IsVaryk(Edges(n)[i].to)

(* A package that is built shares its name and version with another that   *)
(* is built, or that cargo takes from a folder, as it does the program.    *)
Twice == \E n \in Built, m \in Nodes :
  m # n /\ graph[m].name = graph[n].name /\ (m \in Built \/ graph[m].path)

(* A key is the number of its edge.                                        *)
TargetsOf(n) == [i \in PlainEdges(n) |->
  LET to == Edges(n)[i].to IN <<to, IF to \in Built THEN Place(to) ELSE Rust>>]

(* The walk is over: the refusals, or the packages with what their keys    *)
(* resolved to.                                                            *)
Judge ==
  /\ verdict = "walking" /\ stack = <<>>
  /\ IF ListedOtherwise \/ UsedByRust \/ Twice
     THEN verdict' = "refused" /\ deps' = deps
     ELSE /\ verdict' = "accepted"
          /\ deps' = [i \in 1 .. Len(order) + 1 |->
                        TargetsOf(IF i = 1 THEN Root ELSE order[i - 1])]
  /\ UNCHANGED <<graph, order, seen, stack>>

GraphNext == Walk \/ Judge

GraphStart ==
  /\ order = <<>> /\ seen = {} /\ deps = <<>>
  /\ IF NothingListed THEN verdict = "none" /\ stack = <<>>
                      ELSE verdict = "walking" /\ stack = <<<<Root, 1>>>>

-----------------------------------------------------------------------------
(* What is accepted is built right: every Varyk package anywhere in        *)
(* cargo's graph is one that Varyk builds, each after what it depends on   *)
(* and each once; no two of them are written in one directory (it is named *)
(* after the name and the version), nor do two folders share one; and      *)
(* every key leads to the package cargo resolved it to.                    *)
AcceptedIsBuilt == verdict = "accepted" =>
  /\ Built = {n \in Nodes : IsVaryk(n)}
  /\ Len(order) = Cardinality(Built)
  /\ \A n, m \in Built : n # m => graph[n].name # graph[m].name
  /\ \A n \in Users :
       LET keys == deps[IF n = Root THEN 1 ELSE Place(n) + 1]
       IN /\ DOMAIN keys = PlainEdges(n)
          /\ \A k \in PlainEdges(n) :
               /\ keys[k][1] = Edges(n)[k].to
               /\ IF IsVaryk(keys[k][1])
                  THEN /\ keys[k][2] \in 1 .. Len(order) /\ order[keys[k][2]] = keys[k][1]
                       /\ n # Root => keys[k][2] < Place(n)
                  ELSE keys[k][2] = Rust

(* Nothing is refused without a cause: when every Varyk package of the     *)
(* graph is used only through plain, required lines of the program and of  *)
(* Varyk packages, and no other package has its name and version, the      *)
(* build is accepted.                                                      *)
RefusedForCause == verdict = "refused" =>
  \/ \E n \in Nodes : \E i \in 1 .. Len(Edges(n)) :
       IsVaryk(Edges(n)[i].to) /\ ((Edges(n)[i].ways # {"plain"}) \/ ~(n = Root \/ IsVaryk(n)))
  \/ \E n, m \in Nodes : n # m /\ IsVaryk(n) /\ graph[n].name = graph[m].name

(* The verdict on a graph is right, whichever it is (packages.rs: `walk`). *)
GraphVerdict == AcceptedIsBuilt /\ RefusedForCause
=============================================================================
