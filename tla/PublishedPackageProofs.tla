----------------------- MODULE PublishedPackageProofs -----------------------
(***************************************************************************)
(* Proofs about PublishedPackage and its parts, for any manifest, graph of *)
(* packages, versions of varyk-std and module tree.                        *)
(***************************************************************************)
EXTENDS PublishedPackage, FiniteSetTheorems, TLAPS

-----------------------------------------------------------------------------
(* The walk over cargo's graph. *)

VarykNodes == {n \in Nodes : IsVaryk(n)}
To(n, k) == Edges(n)[k].to

\* What is found is found once, after what it depends on.
OrderOk(o) ==
  /\ o \in Seq(VarykNodes)
  /\ \A i, j \in 1 .. Len(o) : o[i] = o[j] => i = j
  /\ \A i \in 1 .. Len(o) : \A k \in PlainEdges(o[i]) :
       IsVaryk(To(o[i], k)) => \E j \in 1 .. i - 1 : o[j] = To(o[i], k)

\* The walk's path leads from the program, each package after its user.
PathOk(o, path) ==
  /\ path \in Seq(Nodes \X Nat)
  /\ path # <<>> => path[1][1] = Root
  /\ \A p, q \in 1 .. Len(path) : p < q => path[p][1] < path[q][1]
  /\ \A p \in 2 .. Len(path) :
       path[p][1] \in VarykNodes /\ \A i \in 1 .. Len(o) : o[i] # path[p][1]

\* What was met is found or on the path.
MetIs(o, met, path) ==
  met = {o[i] : i \in 1 .. Len(o)} \cup {path[p][1] : p \in 2 .. Len(path)}

\* The edges before the next one were followed.
PastFollowed(met, path) == \A p \in 1 .. Len(path) : \A k \in PlainEdges(path[p][1]) :
  k < path[p][2] /\ IsVaryk(To(path[p][1], k)) => To(path[p][1], k) \in met

\* At the end so were the program's.
RootDone(o, path) == path = <<>> => \A k \in PlainEdges(Root) :
  IsVaryk(To(Root, k)) => \E j \in 1 .. Len(o) : o[j] = To(Root, k)

WalkOk(o, met, path) ==
  OrderOk(o) /\ PathOk(o, path) /\ MetIs(o, met, path) /\ PastFollowed(met, path) /\ RootDone(o, path)

\* What one turn of the walk makes of the three.
TurnTo(o, met, path) ==
  LET top == stack[Len(stack)]
      rest == SubSeq(stack, 1, Len(stack) - 1)
      here == top[1]
      found == Followed(here, top[2])
  IN IF found # {}
     THEN LET i == First(found)  to == Edges(here)[i].to
          IN /\ met = seen \cup {to}
             /\ path = rest \o <<<<here, i + 1>>, <<to, 1>>>>
             /\ o = order
     ELSE /\ o = IF here = Root THEN order ELSE Append(order, here)
          /\ path = rest /\ met = seen

\* A nonempty set of natural numbers has a least element.
LEMMA LeastNatural ==
    ASSUME NEW S, S \subseteq Nat, S # {}
    PROVE  \E m \in S : \A k \in S : m <= k
<1>1. PICK n \in Nat : n \in S
  OBVIOUS
<1> DEFINE U == 0 .. n
           Below == {0 .. m : m \in {i \in S : i <= n}}
<1>2. IsWellFoundedOn(StrictSubsetOrdering(U), FiniteSubsetsOf(U))
  BY FS_StrictSubsetOrderingWellFounded
<1>3. Below \subseteq FiniteSubsetsOf(U)
  <2>1. ASSUME NEW m \in S, m <= n PROVE 0 .. m \in FiniteSubsetsOf(U)
    <3>1. m \in Nat /\ 0 .. m \subseteq U
      BY <1>1, <2>1
    <3>2. IsFiniteSet(0 .. m)
      BY <3>1, FS_Interval
    <3> QED
      BY <3>1, <3>2 DEF FiniteSubsetsOf
  <2> QED
    BY <2>1
<1>4. Below # {}
  BY <1>1
<1> HIDE DEF Below
<1>5. PICK x \in Below : \A y \in Below : ~(<<y, x>> \in StrictSubsetOrdering(U))
  BY <1>2, <1>3, <1>4, WFMin
<1>6. PICK m \in S : m <= n /\ x = 0 .. m
  BY DEF Below
<1>7. ASSUME NEW k \in S, k < m PROVE FALSE
  <2>1. k \in Nat /\ m \in Nat /\ k <= n
    BY <1>1, <1>6, <1>7
  <2>2. 0 .. k \in Below
    BY <2>1 DEF Below
  <2>3. 0 .. k \subseteq 0 .. m /\ m \in 0 .. m /\ m \notin 0 .. k
    BY <1>7, <2>1
  <2>4. 0 .. k \subseteq U /\ 0 .. m \subseteq U
    BY <1>1, <1>6, <2>1
  <2>5. <<0 .. k, 0 .. m>> \in StrictSubsetOrdering(U)
    BY <2>3, <2>4 DEF StrictSubsetOrdering
  <2> QED
    BY <1>5, <1>6, <2>2, <2>5
<1> QED
  BY <1>7

\* An element of a sequence.
LEMMA ElementOf == ASSUME NEW S, NEW q \in Seq(S), NEW i \in 1 .. Len(q) PROVE q[i] \in S
  OBVIOUS

\* The edges of a package of cargo's answer lead to packages of it, but for
\* the program onward.
LEMMA EdgesLeadOn ==
    ASSUME CargoAnswer, NEW n \in Nodes, NEW k \in 1 .. Len(Edges(n))
    PROVE  /\ To(n, k) \in Nodes
           /\ To(n, k) = Root \/ n < To(n, k)
           /\ Edges(n)[k].ways \in Ways
           /\ IsVaryk(To(n, k)) => To(n, k) \in VarykNodes /\ n < To(n, k)
<1>1. graph \in Seq(GraphNode) /\ Len(graph) \in Nat /\ n \in 1 .. Len(graph) /\ 1 <= Len(graph)
  BY DEF CargoAnswer, Nodes
<1>2. Edges(n) \in Seq([to : Nat, ways : Ways])
  <2>1. graph[n] \in GraphNode
    BY <1>1
  <2> QED
    BY <2>1 DEF GraphNode, Edges
<1>3. Edges(n)[k] \in [to : Nat, ways : Ways]
  BY <1>2, ElementOf
<1>4. To(n, k) \in {Root} \cup (n + 1 .. Len(graph))
  BY DEF CargoAnswer, LeadsTo, To
<1>5. To(n, k) \in Nodes /\ (To(n, k) = Root \/ n < To(n, k))
  BY <1>1, <1>4 DEF Nodes, Root
<1> QED
  BY <1>3, <1>5 DEF VarykNodes, IsVaryk

\* The first edge that may be followed is one, and those before it may not.
LEMMA FirstFollowed ==
    ASSUME CargoAnswer, NEW n \in Nodes, NEW from \in Nat, Followed(n, from) # {}
    PROVE  /\ First(Followed(n, from)) \in Followed(n, from)
           /\ \A k \in Followed(n, from) : First(Followed(n, from)) <= k
<1> DEFINE S == Followed(n, from)
<1>1. S \subseteq Nat /\ S # {}
  BY DEF Followed, PlainEdges
<1>2. \E i \in S : \A j \in S : i <= j
  BY <1>1, LeastNatural
<1> QED
  BY <1>2 DEF First


\* Adding one at the end of a sequence, or leaving out its last.
LEMMA Appended ==
    ASSUME NEW S, NEW q \in Seq(S), NEW e \in S
    PROVE  /\ Append(q, e) \in Seq(S) /\ Len(Append(q, e)) = Len(q) + 1
           /\ \A i \in 1 .. Len(q) : Append(q, e)[i] = q[i]
           /\ Append(q, e)[Len(q) + 1] = e
  OBVIOUS

\* A sequence without its last element, as `pop` leaves it.
LEMMA LastLeftOut ==
    ASSUME NEW S, NEW q \in Seq(S), q # <<>>
    PROVE  /\ SubSeq(q, 1, Len(q) - 1) \in Seq(S)
           /\ Len(SubSeq(q, 1, Len(q) - 1)) = Len(q) - 1 /\ Len(q) \in Nat \ {0}
           /\ \A i \in 1 .. Len(q) - 1 : SubSeq(q, 1, Len(q) - 1)[i] = q[i]
<1>1. Len(q) \in Nat \ {0}
  OBVIOUS
<1>2. SubSeq(q, 1, Len(q) - 1) = [i \in 1 .. Len(q) - 1 |-> q[i]]
  BY <1>1
<1>3. \A i \in 1 .. Len(q) - 1 : q[i] \in S
  BY <1>1, ElementOf
<1> DEFINE n == Len(q) - 1
           r == [i \in 1 .. n |-> q[i]]
<1>4. n \in Nat /\ r \in [1 .. n -> S]
  BY <1>1, <1>3
<1>5. r \in Seq(S) /\ Len(r) = n /\ \A i \in 1 .. n : r[i] = q[i]
  <2> HIDE DEF n
  <2>1. r \in Seq(S)
    BY <1>4
  <2>2. Len(r) = n
    BY <1>4
  <2> QED
    BY <2>1, <2>2
<1> QED
  BY <1>1, <1>2, <1>5

\* A sequence with two more elements.
LEMMA TwoMore ==
    ASSUME NEW S, NEW q \in Seq(S), NEW a \in S, NEW b \in S
    PROVE  /\ q \o <<a, b>> \in Seq(S) /\ Len(q \o <<a, b>>) = Len(q) + 2
           /\ \A i \in 1 .. Len(q) : (q \o <<a, b>>)[i] = q[i]
           /\ (q \o <<a, b>>)[Len(q) + 1] = a /\ (q \o <<a, b>>)[Len(q) + 2] = b
<1>1. <<a, b>> \in Seq(S) /\ Len(<<a, b>>) = 2 /\ <<a, b>>[1] = a /\ <<a, b>>[2] = b
  OBVIOUS
<1> QED
  BY <1>1

\* Going on to the package of an edge keeps the walk right.
LEMMA GoOn ==
    ASSUME CargoAnswer, WalkOk(order, seen, stack), stack # <<>>,
           NEW here, NEW next, stack[Len(stack)] = <<here, next>>, Followed(here, next) # {},
           NEW o, NEW met, NEW path, TurnTo(o, met, path)
    PROVE  WalkOk(o, met, path)
<1> DEFINE N == Len(stack)
           i == First(Followed(here, next))
           to == To(here, i)
           rest == SubSeq(stack, 1, N - 1)
<1>1. stack \in Seq(Nodes \X Nat) /\ N \in Nat \ {0} /\ here \in Nodes /\ next \in Nat
  BY DEF WalkOk, PathOk
<1>2. /\ rest \in Seq(Nodes \X Nat) /\ Len(rest) = N - 1
      /\ \A p \in 1 .. N - 1 : rest[p] = stack[p]
  BY <1>1, LastLeftOut
<1>3. /\ i \in PlainEdges(here) /\ next <= i /\ IsVaryk(to) /\ to \notin seen
      /\ \A k \in Followed(here, next) : i <= k
  BY <1>1, FirstFollowed DEF Followed, To
<1>4. to \in VarykNodes /\ to \in Nodes /\ here < to /\ i \in Nat
  BY <1>1, <1>3, EdgesLeadOn DEF PlainEdges, VarykNodes
<1>5. met = seen \cup {to} /\ o = order /\ path = rest \o <<<<here, i + 1>>, <<to, 1>>>>
  <2>1. stack[Len(stack)][1] = here /\ stack[Len(stack)][2] = next
    OBVIOUS
  <2> QED
    BY <2>1 DEF TurnTo, To
<1> HIDE DEF i, to, rest
<1>6. /\ path \in Seq(Nodes \X Nat) /\ Len(path) = N + 1
      /\ \A p \in 1 .. N - 1 : path[p] = stack[p]
      /\ path[N] = <<here, i + 1>> /\ path[N + 1] = <<to, 1>>
  <2>1. <<here, i + 1>> \in Nodes \X Nat /\ <<to, 1>> \in Nodes \X Nat
    BY <1>1, <1>4
  <2>2. Len(rest) + 1 = N /\ Len(rest) + 2 = N + 1
    BY <1>1, <1>2
  <2> DEFINE a == <<here, i + 1>>
             b == <<to, 1>>
  <2>3. /\ rest \o <<a, b>> \in Seq(Nodes \X Nat) /\ Len(rest \o <<a, b>>) = N + 1
        /\ \A p \in 1 .. N - 1 : (rest \o <<a, b>>)[p] = rest[p]
        /\ (rest \o <<a, b>>)[N] = a /\ (rest \o <<a, b>>)[N + 1] = b
    <3> HIDE DEF a, b
    <3>1. a \in Nodes \X Nat /\ b \in Nodes \X Nat
      BY <2>1 DEF a, b
    <3> QED
      BY <1>2, <2>2, <3>1, TwoMore
  <2> QED
    BY <1>2, <1>5, <2>3
<1> HIDE DEF N
<1>7. OrderOk(o)
  BY <1>5 DEF WalkOk
<1>8. \A p \in 1 .. N : path[p][1] = stack[p][1]
  <2>1. stack[N][1] = here /\ path[N][1] = here
    BY <1>6 DEF N
  <2>2. \A p \in 1 .. N : p = N \/ p \in 1 .. N - 1
    BY <1>1
  <2> QED
    BY <1>6, <2>1, <2>2
<1>0. /\ \A p, q \in 1 .. N : p < q => stack[p][1] < stack[q][1]
      /\ \A p \in 2 .. N : stack[p][1] \in VarykNodes /\ \A j \in 1 .. Len(order) : order[j] # stack[p][1]
  BY DEF WalkOk, PathOk, N
<1>9. PathOk(o, path)
  <2>1. path[1][1] = Root
    BY <1>1, <1>8 DEF WalkOk, PathOk
  <2>2. ASSUME NEW p \in 1 .. Len(path), NEW q \in 1 .. Len(path), p < q
        PROVE  path[p][1] < path[q][1]
    <3>1. CASE q <= N
      <4>1. p \in 1 .. N /\ q \in 1 .. N
        BY <1>1, <1>6, <2>2, <3>1
      <4> QED
        BY <1>0, <1>8, <2>2, <4>1
    <3>2. CASE q = N + 1
      <4>1. p \in 1 .. N /\ N \in 1 .. N /\ stack[N][1] = here
        BY <1>1, <1>6, <2>2, <3>2 DEF N
      <4>2. stack[p][1] = here \/ stack[p][1] < here
        <5>1. CASE p = N
          BY <4>1, <5>1
        <5>2. CASE p < N
          BY <1>1, <4>1, <5>2 DEF WalkOk, PathOk, N
        <5> QED
          BY <1>1, <4>1, <5>1, <5>2
      <4>3. stack[p][1] \in Nat /\ here \in Nat /\ to \in Nat
        BY <1>1, <1>4, <4>1 DEF Nodes, N
      <4> QED
        BY <1>4, <1>6, <1>8, <3>2, <4>1, <4>2, <4>3
    <3> QED
      BY <1>1, <1>6, <3>1, <3>2
  <2>3. ASSUME NEW p \in 2 .. Len(path)
        PROVE  path[p][1] \in VarykNodes /\ \A j \in 1 .. Len(o) : o[j] # path[p][1]
    <3>1. CASE p <= N
      <4>1. p \in 1 .. N /\ p \in 2 .. N
        BY <1>1, <1>6, <3>1
      <4> QED
        BY <1>0, <1>5, <1>8, <4>1
    <3>2. CASE p = N + 1
      BY <1>3, <1>4, <1>5, <1>6, <3>2 DEF WalkOk, MetIs
    <3>3. p \in Nat /\ p <= N + 1
      BY <1>1, <1>6
    <3> QED
      BY <1>1, <3>1, <3>2, <3>3
  <2> QED
    BY <1>6, <2>1, <2>2, <2>3 DEF PathOk
<1>10. MetIs(o, met, path)
  <2>1. {path[p][1] : p \in 2 .. Len(path)} = {stack[p][1] : p \in 2 .. N} \cup {to}
    <3>1. 2 .. Len(path) = (2 .. N) \cup {N + 1} /\ path[N + 1][1] = to
      BY <1>1, <1>6
    <3>2. \A p \in 2 .. N : path[p][1] = stack[p][1]
      BY <1>1, <1>8
    <3> QED
      BY <3>1, <3>2
  <2> QED
    BY <1>5, <2>1 DEF WalkOk, MetIs, N
<1>11. PastFollowed(met, path)
  <2> SUFFICES ASSUME NEW p \in 1 .. Len(path), NEW k \in PlainEdges(path[p][1]),
                      k < path[p][2], IsVaryk(To(path[p][1], k))
               PROVE  To(path[p][1], k) \in met
    BY DEF PastFollowed
  <2>0. k \in Nat
    BY DEF PlainEdges
  <2>1. CASE p \in 1 .. N - 1
    <3>1. p \in 1 .. N
      BY <1>1, <2>1
    <3>2. path[p] = stack[p]
      BY <1>6, <2>1
    <3> QED
      BY <1>5, <3>1, <3>2 DEF WalkOk, PastFollowed, N
  <2>2. CASE p = N
    <3>1. path[p] = <<here, i + 1>> /\ stack[N] = <<here, next>> /\ N \in 1 .. N
      BY <1>1, <1>6, <2>2 DEF N
    <3>2. CASE k < next
      BY <1>5, <2>2, <3>1, <3>2 DEF WalkOk, PastFollowed, N
    <3>3. CASE next <= k /\ k < i
      <4>1. k \notin Followed(here, next)
        BY <1>3, <1>4, <2>0, <3>3
      <4> QED
        BY <1>5, <3>1, <3>3, <4>1 DEF Followed, To
    <3>4. CASE k = i
      BY <1>5, <3>1, <3>4 DEF to
    <3> QED
      BY <1>1, <1>4, <2>0, <3>1, <3>2, <3>3, <3>4
  <2>3. CASE p = N + 1
    BY <1>6, <2>3 DEF PlainEdges
  <2> QED
    BY <1>1, <1>6, <2>1, <2>2, <2>3
<1>12. RootDone(o, path)
  BY <1>1, <1>6 DEF RootDone
<1> QED
  BY <1>7, <1>9, <1>10, <1>11, <1>12 DEF WalkOk

\* So does leaving a package whose edges are all followed.
LEMMA GoBack ==
    ASSUME CargoAnswer, WalkOk(order, seen, stack), stack # <<>>,
           NEW here, NEW next, stack[Len(stack)] = <<here, next>>, Followed(here, next) = {},
           NEW o, NEW met, NEW path, TurnTo(o, met, path)
    PROVE  WalkOk(o, met, path)
<1> DEFINE N == Len(stack)
           rest == SubSeq(stack, 1, N - 1)
<1>1. stack \in Seq(Nodes \X Nat) /\ N \in Nat \ {0} /\ here \in Nodes /\ next \in Nat
  BY DEF WalkOk, PathOk
<1>2. /\ rest \in Seq(Nodes \X Nat) /\ Len(rest) = N - 1
      /\ \A p \in 1 .. N - 1 : rest[p] = stack[p]
  BY <1>1, LastLeftOut
<1>3. met = seen /\ path = rest /\ o = IF here = Root THEN order ELSE Append(order, here)
  BY DEF TurnTo
<1> HIDE DEF N, rest
<1>4. order \in Seq(VarykNodes) /\ Len(order) \in Nat
  BY DEF WalkOk, OrderOk
<1>5. stack[N][1] = here /\ stack[1][1] = Root /\ N \in 1 .. N
  BY <1>1 DEF WalkOk, PathOk, N
<1>6. here = Root <=> N = 1
  <2>1. ASSUME N # 1 PROVE here # Root
    <3>1. N \in 2 .. N
      BY <1>1, <2>1
    <3>2. stack[N][1] \in VarykNodes
      BY <3>1 DEF WalkOk, PathOk, N
    <3> QED
      BY <1>5, <3>2 DEF VarykNodes, IsVaryk
  <2> QED
    BY <1>5, <2>1
<1>7. here # Root => here \in VarykNodes /\ \A j \in 1 .. Len(order) : order[j] # here
  BY <1>1, <1>5, <1>6 DEF WalkOk, PathOk, N
\* What it depends on was met, and is not on the path, which led to it.
<1>8. ASSUME NEW k \in PlainEdges(here), IsVaryk(To(here, k))
      PROVE  \E j \in 1 .. Len(order) : order[j] = To(here, k)
  <2>1. k \in Nat /\ To(here, k) \in VarykNodes /\ here < To(here, k)
    BY <1>1, <1>8, EdgesLeadOn DEF PlainEdges
  <2>2. To(here, k) \in seen
    <3>1. CASE k < next
      BY <1>5, <1>8, <3>1 DEF WalkOk, PastFollowed, N
    <3>2. CASE next <= k
      BY <1>8, <3>2 DEF Followed, To
    <3> QED
      BY <1>1, <2>1, <3>1, <3>2
  <2>3. ASSUME NEW p \in 2 .. N PROVE stack[p][1] # To(here, k)
    <3>1. stack[p][1] = here \/ stack[p][1] < here
      BY <1>1, <1>5 DEF WalkOk, PathOk, N
    <3>2. stack[p][1] \in Nat /\ here \in Nat /\ To(here, k) \in Nat
      BY <1>1, <2>1 DEF VarykNodes, Nodes, N
    <3> QED
      BY <2>1, <3>1, <3>2
  <2> QED
    BY <2>2, <2>3 DEF WalkOk, MetIs, N
<1>9. \A p \in 1 .. N - 1 : p \in 1 .. N /\ path[p] = stack[p]
  BY <1>1, <1>2, <1>3
<1>10. CASE here = Root
  <2>1. o = order /\ N = 1 /\ Len(path) = 0 /\ path = <<>>
    BY <1>2, <1>3, <1>6, <1>10
  <2>2. OrderOk(o)
    BY <2>1 DEF WalkOk
  <2>3. PathOk(o, path)
    BY <2>1 DEF PathOk
  <2>4. MetIs(o, met, path)
    <3>1. {stack[p][1] : p \in 2 .. N} = {} /\ {path[p][1] : p \in 2 .. Len(path)} = {}
      BY <2>1
    <3> QED
      BY <1>3, <2>1, <3>1 DEF WalkOk, MetIs, N
  <2>5. PastFollowed(met, path)
    BY <2>1 DEF PastFollowed
  <2>6. RootDone(o, path)
    BY <1>8, <1>10, <2>1 DEF RootDone
  <2> QED
    BY <2>2, <2>3, <2>4, <2>5, <2>6 DEF WalkOk
<1>11. CASE here # Root
  <2> DEFINE K == Len(order)
  <2>1. /\ o \in Seq(VarykNodes) /\ Len(o) = K + 1 /\ o[K + 1] = here
        /\ \A j \in 1 .. K : o[j] = order[j]
    BY <1>3, <1>4, <1>7, <1>11, Appended
  <2>2. Len(path) = N - 1 /\ path # <<>> /\ N > 1
    BY <1>1, <1>2, <1>3, <1>6, <1>11
  <2> HIDE DEF K
  <2>3. OrderOk(o)
    <3>1. ASSUME NEW i \in 1 .. Len(o), NEW j \in 1 .. Len(o), o[i] = o[j] PROVE i = j
      <4>1. CASE i \in 1 .. K /\ j \in 1 .. K
        BY <2>1, <3>1, <4>1 DEF WalkOk, OrderOk, K
      <4>2. CASE i \in 1 .. K /\ j = K + 1
        BY <1>7, <1>11, <2>1, <3>1, <4>2 DEF K
      <4>3. CASE i = K + 1 /\ j \in 1 .. K
        BY <1>7, <1>11, <2>1, <3>1, <4>3 DEF K
      <4> QED
        BY <1>4, <2>1, <4>1, <4>2, <4>3 DEF K
    <3>2. ASSUME NEW i \in 1 .. Len(o), NEW k \in PlainEdges(o[i]), IsVaryk(To(o[i], k))
          PROVE  \E j \in 1 .. i - 1 : o[j] = To(o[i], k)
      <4>1. CASE i \in 1 .. K
        <5>1. \E j \in 1 .. i - 1 : order[j] = To(order[i], k)
          BY <2>1, <3>2, <4>1 DEF WalkOk, OrderOk, K
        <5>2. \A j \in 1 .. i - 1 : j \in 1 .. K
          BY <1>4, <4>1 DEF K
        <5> QED
          BY <2>1, <4>1, <5>1, <5>2
      <4>2. CASE i = K + 1
        <5>1. PICK j \in 1 .. K : order[j] = To(here, k)
          BY <1>8, <2>1, <3>2, <4>2 DEF K
        <5>2. j \in 1 .. i - 1
          BY <1>4, <4>2 DEF K
        <5> QED
          BY <2>1, <4>2, <5>1, <5>2
      <4> QED
        BY <1>4, <2>1, <4>1, <4>2 DEF K
    <3> QED
      BY <2>1, <3>1, <3>2 DEF OrderOk
  <2>4. PathOk(o, path)
    <3>1. path \in Seq(Nodes \X Nat) /\ path[1][1] = Root
      BY <1>2, <1>3, <1>5, <1>9, <2>2
    <3>2. ASSUME NEW p \in 1 .. Len(path), NEW q \in 1 .. Len(path), p < q
          PROVE  path[p][1] < path[q][1]
      BY <1>9, <2>2, <3>2 DEF WalkOk, PathOk, N
    <3>3. ASSUME NEW p \in 2 .. Len(path)
          PROVE  path[p][1] \in VarykNodes /\ \A j \in 1 .. Len(o) : o[j] # path[p][1]
      <4>1. p \in 2 .. N /\ p \in 1 .. N - 1 /\ p < N
        BY <1>1, <2>2
      <4>2. /\ stack[p][1] \in VarykNodes /\ \A j \in 1 .. Len(order) : order[j] # stack[p][1]
            /\ stack[p][1] < stack[N][1]
        BY <1>1, <1>5, <1>9, <4>1 DEF WalkOk, PathOk, N
      <4>3. stack[p][1] # here
        BY <1>1, <1>5, <4>2 DEF VarykNodes, Nodes
      <4>4. path[p][1] = stack[p][1]
        BY <1>9, <4>1
      <4> QED
        BY <1>4, <2>1, <4>2, <4>3, <4>4 DEF K
    <3> QED
      BY <3>1, <3>2, <3>3 DEF PathOk
  <2>5. MetIs(o, met, path)
    <3>1. {o[j] : j \in 1 .. Len(o)} = {order[j] : j \in 1 .. K} \cup {here}
      <4>1. 1 .. Len(o) = (1 .. K) \cup {K + 1}
        BY <1>4, <2>1 DEF K
      <4> QED
        BY <2>1, <4>1
    <3>2. {stack[p][1] : p \in 2 .. N} = {path[p][1] : p \in 2 .. Len(path)} \cup {here}
      <4>1. 2 .. N = (2 .. Len(path)) \cup {N}
        BY <1>1, <2>2
      <4>2. \A p \in 2 .. Len(path) : path[p][1] = stack[p][1]
        BY <1>1, <1>9, <2>2
      <4> QED
        BY <1>5, <4>1, <4>2
    <3> QED
      BY <1>3, <3>1, <3>2 DEF WalkOk, MetIs, N, K
  <2>6. PastFollowed(met, path)
    BY <1>3, <1>9, <2>2 DEF WalkOk, PastFollowed, N
  <2>7. RootDone(o, path)
    BY <2>2 DEF RootDone
  <2> QED
    BY <2>3, <2>4, <2>5, <2>6, <2>7 DEF WalkOk
<1> QED
  BY <1>10, <1>11

\* When the walk is over, every Varyk package of the graph was found, for the
\* first that was not has a user, whose refusal or whose turn would tell.
LEMMA AllFound ==
    ASSUME CargoAnswer, OrderOk(order), RootDone(order, <<>>), ~ListedOtherwise, ~UsedByRust
    PROVE  Built = VarykNodes
<1>1. Built \subseteq VarykNodes
  BY DEF OrderOk, Built
<1> SUFFICES ASSUME VarykNodes \ Built # {} PROVE FALSE
  BY <1>1
<1>2. PICK v \in VarykNodes \ Built : \A n \in VarykNodes \ Built : v <= n
  <2> DEFINE S == VarykNodes \ Built
  <2>1. S \subseteq Nat /\ S # {}
    BY DEF VarykNodes, Nodes
  <2> HIDE DEF S
  <2>2. \E m \in S : \A n \in S : m <= n
    BY <2>1, LeastNatural
  <2> QED
    BY <2>2 DEF S
<1>m. PICK m \in Nodes : \E k \in 1 .. Len(Edges(m)) : To(m, k) = v
  <2>1. v \in Nodes \ {Root}
    BY DEF VarykNodes, IsVaryk
  <2> QED
    BY <2>1 DEF CargoAnswer, LeadsTo, To
<1>3. PICK k \in 1 .. Len(Edges(m)) : To(m, k) = v
  BY <1>m
<1>4. /\ IsVaryk(v) /\ m < v /\ m \in Nat /\ v \in Nat
      /\ Edges(m)[k].to = v /\ Edges(m)[k].ways \in Ways
  BY <1>3, EdgesLeadOn DEF VarykNodes, Nodes, To
<1>5. m \in Users
  <2>1. CASE m = Root
    BY <2>1 DEF Users
  <2>2. CASE m # Root
    <3>1. IsVaryk(m)
      BY <1>3, <1>4, <2>2 DEF UsedByRust
    <3>2. m \notin VarykNodes \ Built
      BY <1>2, <1>4
    <3> QED
      BY <3>1, <3>2 DEF VarykNodes, Users
  <2> QED
    BY <2>1, <2>2
<1>6. k \in PlainEdges(m)
  <2>1. Edges(m)[k].ways \cap {"other", "optional"} = {}
    BY <1>4, <1>5 DEF ListedOtherwise
  <2>2. Edges(m)[k].ways \subseteq {"plain", "other", "optional"} /\ Edges(m)[k].ways # {}
    BY <1>4, GraphAssumption
  <2>3. "plain" \in Edges(m)[k].ways
    BY <2>1, <2>2
  <2> QED
    BY <2>3 DEF PlainEdges, Plain
<1>7. v \in Built
  <2>1. CASE m = Root
    BY <1>3, <1>4, <1>6, <2>1 DEF RootDone, Built
  <2>2. CASE m # Root
    <3>1. PICK i \in 1 .. Len(order) : order[i] = m
      BY <1>5, <2>2 DEF Users, Built
    <3>2. PICK j \in 1 .. i - 1 : order[j] = v
      BY <1>3, <1>4, <1>6, <3>1 DEF OrderOk
    <3>3. j \in 1 .. Len(order)
      BY <3>1 DEF OrderOk
    <3> QED
      BY <3>2, <3>3 DEF Built
  <2> QED
    BY <2>1, <2>2
<1> QED
  BY <1>2, <1>7

\* Each once: as many as the order is long.
LEMMA FoundOnce == ASSUME OrderOk(order) PROVE Len(order) = Cardinality(Built)
<1>1. /\ Len(order) \in Nat /\ order \in [1 .. Len(order) -> Built]
      /\ \A i, j \in 1 .. Len(order) : order[i] = order[j] => i = j
  BY DEF OrderOk, Built
<1>2. order \in Surjection(1 .. Len(order), Built)
  BY <1>1 DEF Surjection, Built
<1>3. order \in Injection(1 .. Len(order), Built)
  BY <1>1 DEF Injection, IsInjective
<1>4. IsFiniteSet(1 .. Len(order)) /\ Cardinality(1 .. Len(order)) = Len(order)
  BY <1>1, FS_Interval
<1> QED
  BY <1>1, <1>2, <1>3, <1>4, FS_Surjection

\* AcceptedIsBuilt of an accepted graph, its dependencies named.
AcceptedWith(d) ==
  /\ Built = {n \in Nodes : IsVaryk(n)}
  /\ Len(order) = Cardinality(Built)
  /\ \A n, m \in Built : n # m => graph[n].name # graph[m].name
  /\ \A n \in Users : \A i \in 1 .. Len(order) + 1 :
       i = (IF n = Root THEN 1 ELSE Place(n) + 1) =>
         /\ DOMAIN d[i] = PlainEdges(n)
         /\ \A k \in PlainEdges(n) : \A to \in Nodes :
              to = To(n, k) =>
                /\ d[i][k][1] = to
                /\ IF IsVaryk(to)
                   THEN /\ d[i][k][2] \in 1 .. Len(order) /\ order[d[i][k][2]] = to
                        /\ n # Root => d[i][k][2] < Place(n)
                   ELSE d[i][k][2] = Rust

\* When no rule of `Judge` refuses, the finished order and what it makes of the
\* keys are as AcceptedWith wants them.
LEMMA AcceptedRight ==
    ASSUME CargoAnswer, OrderOk(order), RootDone(order, <<>>),
           ~ListedOtherwise, ~UsedByRust, ~Twice,
           NEW d, d = [i \in 1 .. Len(order) + 1 |->
                         TargetsOf(IF i = 1 THEN Root ELSE order[i - 1])]
    PROVE  AcceptedWith(d)
<1>1. Built = VarykNodes
  BY AllFound
<1>2. \A n, m \in Built : n # m => graph[n].name # graph[m].name
  BY <1>1 DEF Twice, VarykNodes
<1>3. ASSUME NEW n \in Users, NEW i \in 1 .. Len(order) + 1,
             i = (IF n = Root THEN 1 ELSE Place(n) + 1)
      PROVE  /\ DOMAIN d[i] = PlainEdges(n)
             /\ \A k \in PlainEdges(n) : \A to \in Nodes :
                  to = To(n, k) =>
                    /\ d[i][k][1] = to
                    /\ IF IsVaryk(to)
                       THEN /\ d[i][k][2] \in 1 .. Len(order) /\ order[d[i][k][2]] = to
                            /\ n # Root => d[i][k][2] < Place(n)
                       ELSE d[i][k][2] = Rust
  <2>0. n # Root => Place(n) \in 1 .. Len(order) /\ order[Place(n)] = n
    BY DEF Users, Built, Place
  <2>1. d[i] = TargetsOf(n)
    <3>1. n = IF i = 1 THEN Root ELSE order[i - 1]
      BY <1>3, <2>0
    <3> QED
      BY <3>1
  <2>2. DOMAIN d[i] = PlainEdges(n)
    BY <2>1 DEF TargetsOf
  <2>3. n \in Nodes
    BY <1>1 DEF Users, VarykNodes, CargoAnswer, Nodes, Root
  <2>4. ASSUME NEW k \in PlainEdges(n), NEW to \in Nodes, to = To(n, k)
        PROVE  /\ d[i][k][1] = to
               /\ IF IsVaryk(to)
                  THEN /\ d[i][k][2] \in 1 .. Len(order) /\ order[d[i][k][2]] = to
                       /\ n # Root => d[i][k][2] < Place(n)
                  ELSE d[i][k][2] = Rust
    <3>1. d[i][k] = <<to, IF to \in Built THEN Place(to) ELSE Rust>>
      BY <2>1, <2>4 DEF TargetsOf, To
    <3>2. CASE IsVaryk(to)
      <4>1. to \in Built
        BY <1>1, <2>3, <2>4, <3>2, EdgesLeadOn DEF PlainEdges
      <4>2. Place(to) \in 1 .. Len(order) /\ order[Place(to)] = to
        BY <4>1 DEF Place, Built
      <4>3. ASSUME n # Root PROVE Place(to) < Place(n)
        <5>1. PICK p \in 1 .. Len(order) : p = Place(n) /\ order[p] = n
          BY <2>0, <4>3
        <5>2. PICK j \in 1 .. p - 1 : order[j] = to
          BY <2>4, <3>2, <5>1 DEF OrderOk
        <5>3. j \in 1 .. Len(order) /\ j < p
          BY <5>1, <5>2 DEF OrderOk
        <5>4. j = Place(to)
          BY <4>2, <5>2, <5>3 DEF OrderOk
        <5> QED
          BY <5>1, <5>3, <5>4
      <4> QED
        BY <3>1, <3>2, <4>1, <4>2, <4>3
    <3>3. CASE ~IsVaryk(to)
      <4>1. to \notin Built
        BY <1>1, <3>3 DEF VarykNodes
      <4> QED
        BY <3>1, <3>3, <4>1
    <3> QED
      BY <3>2, <3>3
  <2> QED
    BY <2>2, <2>4
<1>4. Len(order) = Cardinality(Built) /\ Built = {n \in Nodes : IsVaryk(n)}
  BY <1>1, FoundOnce DEF VarykNodes
<1> QED
  BY <1>2, <1>3, <1>4 DEF AcceptedWith

\* A refusal has its cause.
LEMMA RefusedRight ==
    ASSUME CargoAnswer, OrderOk(order), ListedOtherwise \/ UsedByRust \/ Twice
    PROVE  \/ \E n \in Nodes : \E i \in 1 .. Len(Edges(n)) :
                IsVaryk(Edges(n)[i].to)
                /\ ((Edges(n)[i].ways # {"plain"}) \/ ~(n = Root \/ IsVaryk(n)))
           \/ \E n, m \in Nodes : n # m /\ IsVaryk(n) /\ graph[n].name = graph[m].name
<1>1. Built \subseteq VarykNodes /\ Users \subseteq Nodes
  BY DEF OrderOk, Built, Users, VarykNodes, CargoAnswer, Nodes, Root
<1>2. CASE ListedOtherwise
  BY <1>1, <1>2 DEF ListedOtherwise
<1>3. CASE UsedByRust
  BY <1>3 DEF UsedByRust
<1>4. CASE Twice
  <2>1. PICK n \in Built, m \in Nodes : m # n /\ graph[m].name = graph[n].name
    BY <1>4 DEF Twice
  <2>2. n \in Nodes /\ IsVaryk(n)
    BY <1>1 DEF VarykNodes
  <2> QED
    BY <2>1, <2>2
<1> QED
  BY <1>2, <1>3, <1>4

\* No step changes cargo's answer, nor what is read from it.
LEMMA SameGraph ==
    ASSUME graph' = graph
    PROVE  /\ Nodes' = Nodes /\ VarykNodes' = VarykNodes
           /\ \A n : /\ Edges(n)' = Edges(n) /\ LeadsTo(n)' = LeadsTo(n)
                    /\ PlainEdges(n)' = PlainEdges(n) /\ IsVaryk(n)' = IsVaryk(n)
           /\ \A n, k : To(n, k)' = To(n, k)
           /\ CargoAnswer => CargoAnswer'
<1>1. Nodes' = Nodes
  BY DEF Nodes
<1>2. \A n : Edges(n)' = Edges(n) /\ IsVaryk(n)' = IsVaryk(n)
  BY DEF Edges, IsVaryk
<1>3. \A n : LeadsTo(n)' = LeadsTo(n)
  BY <1>2 DEF LeadsTo
<1>4. \A n : PlainEdges(n)' = PlainEdges(n)
  BY <1>2 DEF PlainEdges, Plain
<1>5. \A n, k : To(n, k)' = To(n, k)
  BY <1>2 DEF To
<1>6. VarykNodes' = VarykNodes
  BY <1>1, <1>2 DEF VarykNodes
<1>7. UNION {LeadsTo(n)' : n \in Nodes} = UNION {LeadsTo(n) : n \in Nodes}
  BY <1>3
<1>8. CargoAnswer => CargoAnswer'
  BY <1>1, <1>3, <1>7 DEF CargoAnswer
<1> QED
  BY <1>1, <1>2, <1>3, <1>4, <1>5, <1>6, <1>8

\* So what is right of a walk stays right.
LEMMA SameWalk ==
    ASSUME graph' = graph, NEW o, NEW met, NEW path, WalkOk(o, met, path)
    PROVE  WalkOk(o, met, path)'
<1>1. /\ Nodes' = Nodes /\ VarykNodes' = VarykNodes
      /\ \A n : PlainEdges(n)' = PlainEdges(n) /\ IsVaryk(n)' = IsVaryk(n)
      /\ \A n, k : To(n, k)' = To(n, k)
  BY SameGraph
<1>2. OrderOk(o)'
  BY <1>1 DEF WalkOk, OrderOk
<1>3. PathOk(o, path)'
  BY <1>1 DEF WalkOk, PathOk
<1>4. MetIs(o, met, path)'
  BY DEF WalkOk, MetIs
<1>5. PastFollowed(met, path)'
  BY <1>1 DEF WalkOk, PastFollowed
<1>6. RootDone(o, path)'
  BY <1>1 DEF WalkOk, RootDone, Root
<1> QED
  BY <1>2, <1>3, <1>4, <1>5, <1>6 DEF WalkOk

\* The inductive invariant of the walk and its verdict.
GraphInv ==
  /\ CargoAnswer
  /\ verdict \in {"walking", "none", "refused", "accepted"}
  /\ verdict = "walking" =>
       \E o, met, path : o = order /\ met = seen /\ path = stack /\ WalkOk(o, met, path)
  /\ GraphVerdict

\* Nothing is met before the walk; without a dependency there is none.
LEMMA GraphStarts == ASSUME PackagesStart PROVE GraphInv
<1>1. CargoAnswer /\ GraphStart
  BY DEF PackagesStart
<1>2. order = <<>> /\ seen = {} /\ Len(order) = 0
  BY <1>1 DEF GraphStart
<1>3. verdict = "none" \/ (verdict = "walking" /\ stack = <<<<Root, 1>>>>)
  BY <1>1 DEF GraphStart
<1>4. GraphVerdict
  BY <1>3 DEF GraphVerdict, AcceptedIsBuilt, RefusedForCause
<1>5. ASSUME verdict = "walking" PROVE WalkOk(order, seen, stack)
  <2>1. stack = <<<<Root, 1>>>> /\ Len(stack) = 1 /\ stack[1] = <<Root, 1>>
    BY <1>3, <1>5
  <2>2. OrderOk(order)
    BY <1>2 DEF OrderOk
  <2>3. PathOk(order, stack)
    <3>1. Root \in Nodes
      BY <1>1 DEF CargoAnswer, Nodes, Root
    <3>2. <<Root, 1>> \in Nodes \X Nat
      BY <3>1
    <3>3. stack \in Seq(Nodes \X Nat)
      BY <2>1, <3>2
    <3> QED
      BY <2>1, <3>3 DEF PathOk
  <2>4. MetIs(order, seen, stack)
    BY <1>2, <2>1 DEF MetIs
  <2>5. PastFollowed(seen, stack)
    <3>1. \A k \in PlainEdges(Root) : ~(k < 1)
      BY DEF PlainEdges
    <3>2. \A p \in 1 .. Len(stack) : stack[p][1] = Root /\ stack[p][2] = 1
      BY <2>1
    <3> QED
      BY <3>1, <3>2 DEF PastFollowed
  <2>6. RootDone(order, stack)
    BY <2>1 DEF RootDone
  <2> QED
    BY <2>2, <2>3, <2>4, <2>5, <2>6 DEF WalkOk
<1> QED
  BY <1>1, <1>3, <1>4, <1>5 DEF GraphInv

\* What the walk does keeps it; the rest of the graph's state is what it was.
LEMMA WalkKeeps == ASSUME GraphInv, Walk PROVE GraphInv'
<1>1. /\ verdict = "walking" /\ stack # <<>> /\ WalkOk(order, seen, stack) /\ CargoAnswer
      /\ graph' = graph /\ verdict' = verdict
  BY DEF Walk, GraphInv
<1>2. TurnTo(order', seen', stack')
  BY DEF Walk, TurnTo
<1>3. PICK top \in Nodes \X Nat : top = stack[Len(stack)]
  <2>1. stack \in Seq(Nodes \X Nat) /\ Len(stack) \in 1 .. Len(stack)
    BY <1>1, LastLeftOut DEF WalkOk, PathOk
  <2> QED
    BY <2>1, ElementOf
<1>4. PICK here, next : top = <<here, next>>
  BY <1>3
<1>5. PICK o, met, path : o = order' /\ met = seen' /\ path = stack'
  OBVIOUS
<1>6. WalkOk(o, met, path)'
  BY <1>1, <1>2, <1>3, <1>4, <1>5, GoOn, GoBack, SameWalk
<1>7. CargoAnswer'
  BY <1>1, SameGraph
<1>8. GraphVerdict'
  BY <1>1 DEF GraphVerdict, AcceptedIsBuilt, RefusedForCause
<1> QED
  BY <1>1, <1>5, <1>6, <1>7, <1>8 DEF GraphInv

\* So does its verdict.
LEMMA JudgeKeeps == ASSUME GraphInv, Judge PROVE GraphInv'
<1>1. /\ verdict = "walking" /\ CargoAnswer /\ OrderOk(order) /\ RootDone(order, <<>>)
      /\ graph' = graph /\ order' = order
  BY DEF Judge, GraphInv, WalkOk
<1>2. /\ Nodes' = Nodes /\ CargoAnswer'
      /\ \A n : /\ PlainEdges(n)' = PlainEdges(n) /\ IsVaryk(n)' = IsVaryk(n)
               /\ Edges(n)' = Edges(n)
      /\ \A n, k : To(n, k)' = To(n, k)
  BY <1>1, SameGraph
<1>3. CASE ListedOtherwise \/ UsedByRust \/ Twice
  <2>1. verdict' = "refused"
    BY <1>3 DEF Judge
  <2>2. \/ \E n \in Nodes : \E i \in 1 .. Len(Edges(n)) :
             IsVaryk(Edges(n)[i].to)
             /\ ((Edges(n)[i].ways # {"plain"}) \/ ~(n = Root \/ IsVaryk(n)))
        \/ \E n, m \in Nodes : n # m /\ IsVaryk(n) /\ graph[n].name = graph[m].name
    BY <1>1, <1>3, RefusedRight
  <2>3. RefusedForCause'
    BY <1>1, <2>2 DEF RefusedForCause, Nodes, Edges, IsVaryk
  <2>4. AcceptedIsBuilt'
    BY <2>1 DEF AcceptedIsBuilt
  <2> QED
    BY <1>2, <2>1, <2>3, <2>4 DEF GraphInv, GraphVerdict
<1>4. CASE ~(ListedOtherwise \/ UsedByRust \/ Twice)
  <2>1. /\ verdict' = "accepted"
        /\ deps' = [i \in 1 .. Len(order) + 1 |-> TargetsOf(IF i = 1 THEN Root ELSE order[i - 1])]
    BY <1>4 DEF Judge
  <2>d. PICK d : d = deps'
    OBVIOUS
  <2>2. AcceptedWith(d)
    BY <1>1, <1>4, <2>1, <2>d, AcceptedRight
  <2>3. Built' = Built /\ Users' = Users /\ \A n : Place(n)' = Place(n)
    BY <1>1 DEF Built, Users, Place
  <2>4. /\ Built' = {n \in Nodes' : IsVaryk(n)'} /\ Len(order') = Cardinality(Built')
        /\ \A n, m \in Built' : n # m => graph'[n].name # graph'[m].name
    BY <1>1, <1>2, <2>2, <2>3 DEF AcceptedWith
  <2>5. ASSUME NEW n \in Users, NEW keys, keys = d[IF n = Root THEN 1 ELSE Place(n) + 1]
        PROVE  /\ DOMAIN keys = PlainEdges(n)
               /\ \A k \in PlainEdges(n) :
                    /\ keys[k][1] = To(n, k)
                    /\ IF IsVaryk(keys[k][1])
                       THEN /\ keys[k][2] \in 1 .. Len(order) /\ order[keys[k][2]] = keys[k][1]
                            /\ n # Root => keys[k][2] < Place(n)
                       ELSE keys[k][2] = Rust
    <3>1. n = Root \/ Place(n) \in 1 .. Len(order)
      BY DEF Users, Built, Place
    <3>2. PICK i \in 1 .. Len(order) + 1 : i = (IF n = Root THEN 1 ELSE Place(n) + 1)
      BY <1>1, <3>1 DEF OrderOk
    <3>3. n \in Nodes
      BY <1>1 DEF Users, Built, OrderOk, VarykNodes, CargoAnswer, Nodes, Root
    <3>4. \A k \in PlainEdges(n) : To(n, k) \in Nodes
      BY <1>1, <3>3, EdgesLeadOn DEF PlainEdges
    <3> QED
      BY <2>2, <2>5, <3>2, <3>4 DEF AcceptedWith
  <2>6. AcceptedIsBuilt'
    BY <1>1, <1>2, <2>d, <2>3, <2>4, <2>5 DEF AcceptedIsBuilt, To, IsVaryk
  <2>7. RefusedForCause'
    BY <2>1 DEF RefusedForCause
  <2> QED
    BY <1>2, <2>1, <2>6, <2>7 DEF GraphInv, GraphVerdict
<1> QED
  BY <1>3, <1>4

\* No other step of a package's way touches the graph.
LEMMA GraphKept == ASSUME GraphInv, [PackagesNext]_pvars PROVE GraphInv'
<1>1. ASSUME UNCHANGED gvars PROVE GraphInv'
  <2>1. /\ graph' = graph /\ order' = order /\ seen' = seen /\ stack' = stack
        /\ verdict' = verdict /\ deps' = deps
    BY <1>1 DEF gvars
  <2>2. CargoAnswer'
    BY <2>1, SameGraph DEF GraphInv
  <2>3. ASSUME verdict' = "walking"
        PROVE  \E o, met, path :
                 o = order' /\ met = seen' /\ path = stack' /\ WalkOk(o, met, path)'
    BY <2>1, <2>3, SameWalk DEF GraphInv
  <2>4. GraphVerdict'
    <3>1. AcceptedIsBuilt /\ RefusedForCause
      BY DEF GraphInv, GraphVerdict
    <3>2. /\ Nodes' = Nodes
          /\ \A n : Edges(n)' = Edges(n) /\ PlainEdges(n)' = PlainEdges(n) /\ IsVaryk(n)' = IsVaryk(n)
      BY <2>1, SameGraph
    <3>3. Built' = Built /\ Users' = Users /\ \A n : Place(n)' = Place(n)
      BY <2>1 DEF Built, Users, Place
    <3>4. AcceptedIsBuilt'
      BY <2>1, <3>1, <3>2, <3>3 DEF AcceptedIsBuilt, IsVaryk
    <3>5. RefusedForCause'
      BY <2>1, <3>1, <3>2 DEF RefusedForCause, IsVaryk, Edges
    <3> QED
      BY <3>4, <3>5 DEF GraphVerdict
  <2> QED
    BY <2>1, <2>2, <2>3, <2>4 DEF GraphInv
<1>2. ASSUME GraphNext PROVE GraphInv'
  BY <1>2, WalkKeeps, JudgeKeeps DEF GraphNext
<1>3. UNCHANGED gvars \/ GraphNext
  BY DEF PackagesNext, ReadManifest, ReadGraph, Load, Publish, Use, LoadUsed, GraphSame, pvars
<1> QED
  BY <1>1, <1>2, <1>3

\* The verdict on a graph is right, whatever the graph: what is accepted is
\* built, each package once and after what it depends on, and what is refused
\* has its cause.
THEOREM VerdictsAreRight == PackagesSpec => []GraphVerdict
<1>1. PackagesStart => GraphInv
  BY GraphStarts
<1>2. GraphInv /\ [PackagesNext]_pvars => GraphInv'
  BY GraphKept
<1>3. GraphInv => GraphVerdict
  BY DEF GraphInv
<1> QED
  BY <1>1, <1>2, <1>3, PTL DEF PackagesSpec

-----------------------------------------------------------------------------
(* The versions of varyk-std. *)

Version == Nat \X Nat

\* Being older is a total order.
LEMMA OlderOrder ==
    ASSUME NEW u \in Version, NEW v \in Version, NEW w \in Version
    PROVE  /\ ~Older(v, v)
           /\ Older(u, v) /\ Older(v, w) => Older(u, w)
           /\ ~Older(u, v) /\ ~Older(v, w) => ~Older(u, w)
           /\ Older(u, v) => ~Older(v, u)
<1>1. u[1] \in Nat /\ u[2] \in Nat /\ v[1] \in Nat /\ v[2] \in Nat /\ w[1] \in Nat /\ w[2] \in Nat
  BY DEF Version
<1> QED
  BY <1>1 DEF Older

\* There is an oldest of any versions.
LEMMA OldestIs ==
    ASSUME NEW S, S \subseteq Version, S # {}
    PROVE  Oldest(S) \in S /\ \A w \in S : ~Older(w, Oldest(S))
<1> DEFINE M == {v[1] : v \in S}
<1>1. M \subseteq Nat /\ M # {}
  BY DEF Version
<1> HIDE DEF M
<1>2. PICK a \in M : \A k \in M : a <= k
  BY <1>1, LeastNatural
<1> DEFINE P == {v[2] : v \in {w \in S : w[1] = a}}
<1>3. P \subseteq Nat /\ P # {}
  BY <1>2 DEF Version, M
<1> HIDE DEF P
<1>4. PICK b \in P : \A k \in P : b <= k
  BY <1>3, LeastNatural
<1>5. PICK v \in S : v[1] = a /\ v[2] = b
  BY <1>4 DEF P
<1>6. ASSUME NEW w \in S PROVE ~Older(w, v)
  <2>1. w[1] \in Nat /\ w[2] \in Nat /\ a \in Nat /\ b \in Nat
    BY <1>1, <1>2, <1>3, <1>4 DEF Version
  <2>2. a <= w[1]
    BY <1>2 DEF M
  <2>3. w[1] = a => b <= w[2]
    BY <1>4 DEF P
  <2> QED
    BY <1>5, <2>1, <2>2, <2>3 DEF Older
<1> QED
  BY <1>6 DEF Oldest

\* And a newest of finitely many: the one with the fewest newer.
LEMMA NewestIs ==
    ASSUME NEW S, S \subseteq Version, S # {}, IsFiniteSet(S)
    PROVE  Newest(S) \in S /\ \A w \in S : ~Older(Newest(S), w)
<1> DEFINE Newer(v) == {w \in S : Older(v, w)}
           M == {Cardinality(Newer(v)) : v \in S}
<1>1. \A v \in S : IsFiniteSet(Newer(v)) /\ Cardinality(Newer(v)) \in Nat
  BY FS_Subset, FS_CardinalityType
<1>2. M \subseteq Nat /\ M # {}
  BY <1>1
<1> HIDE DEF M
<1>3. PICK a \in M : \A k \in M : a <= k
  BY <1>2, LeastNatural
<1>4. PICK v \in S : Cardinality(Newer(v)) = a
  BY <1>3 DEF M
<1>5. ASSUME NEW w \in S, Older(v, w) PROVE FALSE
  <2>1. Newer(w) \subseteq Newer(v)
    <3>1. ASSUME NEW x \in S, Older(w, x) PROVE Older(v, x)
      BY <1>5, <3>1, OlderOrder
    <3> QED
      BY <3>1
  <2>2. w \in Newer(v) /\ w \notin Newer(w)
    BY <1>5, OlderOrder
  <2> HIDE DEF Newer
  <2>3. Cardinality(Newer(w)) <= Cardinality(Newer(v)) /\ Cardinality(Newer(w)) # Cardinality(Newer(v))
    BY <1>1, <2>1, <2>2, FS_Subset
  <2>4. a <= Cardinality(Newer(w))
    BY <1>3 DEF M
  <2> QED
    BY <1>1, <1>4, <2>3, <2>4
<1> QED
  BY <1>5 DEF Newest

\* Cargo gives a line that may be given one a version of its minor, no older
\* than it asks.
LEMMA ResolvesTo ==
    ASSUME NEW b, StdAsked(b), NEW l \in Lines(b)
    PROVE  /\ Resolves(l, b) \in Version /\ Resolves(l, b)[1] = l[1] /\ ~Older(Resolves(l, b), l)
           /\ Fitting(l, b.locked) # {} => Resolves(l, b) \in b.locked
           /\ Fitting(l, b.locked) = {} => \A v \in Fitting(l, Versions) : ~Older(Resolves(l, b), v)
<1> DEFINE from == IF Fitting(l, b.locked) # {} THEN b.locked ELSE Versions
           S == Fitting(l, from)
<1>1. from \subseteq Version /\ IsFiniteSet(from) /\ S # {}
  BY StdAssumption DEF StdAsked, Version
<1>2. S \subseteq from /\ IsFiniteSet(S)
  BY <1>1, FS_Subset DEF Fitting
<1>3. Resolves(l, b) = Newest(S)
  BY DEF Resolves
<1> HIDE DEF S
<1>4. Newest(S) \in S /\ \A w \in S : ~Older(Newest(S), w)
  BY <1>1, <1>2, NewestIs
<1>5. Newest(S)[1] = l[1] /\ ~Older(Newest(S), l)
  BY <1>4 DEF S, Fitting
<1> QED
  BY <1>1, <1>2, <1>3, <1>4, <1>5 DEF S

\* What may be published gets a varyk-std of its own compiler or newer.
LEMMA PassesIsOwn ==
    ASSUME NEW b, StdAsked(b), Passes(b, TRUE)
    PROVE  /\ Passes(b, FALSE)
           /\ \A p \in b.packages : p.uses => ~Older(Resolves(p.line, b), Compiler)
           /\ ProgramUses(b) => /\ Resolves(b.line, b)[1] = Compiler[1]
                                /\ ~Older(Resolves(b.line, b), Compiler)
<1>1. Compiler \in Version /\ Versions \subseteq Version
  BY StdAssumption DEF Version
<1>2. Passes(b, FALSE)
  BY DEF Passes, LineProblem
<1>3. ASSUME NEW p \in b.packages, p.uses PROVE ~Older(Resolves(p.line, b), Compiler)
  <2>1. p.line \in Line /\ p.line \notin {NoLine, Odd}
    BY <1>3 DEF StdAsked, Passes, LineProblem
  <2>2. p.line \in Lines(b)
    BY <2>1 DEF Lines, Line
  <2>3. ~ResolvedOlder(b)
    BY <1>3 DEF Passes, BuildUses
  <2>4. Resolves(p.line, b) \in Resolved(b)
    BY <2>2 DEF Resolved
  <2>5. ~Older(Oldest(Resolved(b)), Compiler)
    BY <2>3, <2>4 DEF ResolvedOlder
  <2>6. Resolved(b) \subseteq Version
    BY ResolvesTo DEF Resolved
  <2>7. Oldest(Resolved(b)) \in Version /\ ~Older(Resolves(p.line, b), Oldest(Resolved(b)))
    BY <2>4, <2>6, OldestIs
  <2> QED
    BY <1>1, <2>4, <2>5, <2>6, <2>7, OlderOrder
<1>4. ASSUME ProgramUses(b)
      PROVE  Resolves(b.line, b)[1] = Compiler[1] /\ ~Older(Resolves(b.line, b), Compiler)
  <2>1. /\ b.line \in Line /\ b.line \notin {NoLine, Odd}
        /\ ~(b.line \in Nat \X Nat /\ Older(Compiler, b.line))
        /\ b.line[1] = Compiler[1] /\ ~LockedOlder(b)
    BY <1>4 DEF StdAsked, Passes, LineProblem
  <2>2. b.line \in Lines(b) /\ ~Older(Compiler, b.line)
    BY <2>1 DEF Lines, Line
  <2>3. Resolves(b.line, b)[1] = Compiler[1]
    BY <2>1, <2>2, ResolvesTo
  <2>4. CASE Fitting(b.line, b.locked) # {}
    <3>1. Resolves(b.line, b) \in b.locked
      BY <2>2, <2>4, ResolvesTo
    <3> QED
      BY <2>1, <2>3, <3>1 DEF LockedOlder
  <2>5. CASE Fitting(b.line, b.locked) = {}
    <3>1. Compiler \in Fitting(b.line, Versions)
      BY <2>1, <2>2, StdAssumption DEF Fitting
    <3> QED
      BY <2>2, <2>3, <2>5, <3>1, ResolvesTo
  <2> QED
    BY <2>3, <2>4, <2>5
<1> QED
  BY <1>2, <1>3, <1>4

\* What was published had passed the rules for publishing.
StdInv ==
  /\ StdAsked(std)
  /\ stage \in {"manifest", "graph", "refused", "use", "load", "unusable"}
  /\ stage \in {"use", "load", "unusable"} => Passes(std, TRUE)

\* What is asked of varyk-std never changes, and only `Publish` publishes.
LEMMA StdKept == ASSUME StdInv, [PackagesNext]_pvars PROVE StdInv'
<1>1. std' = std
  BY DEF PackagesNext, ReadManifest, ReadGraph, Load, Publish, Use, LoadUsed, IdleElse, Same, pvars
<1>2. stage' \in {"manifest", "graph", "refused", "use", "load", "unusable"}
  BY DEF StdInv, PackagesNext, ReadManifest, ReadGraph, Load, Publish, Use, LoadUsed,
         IdleElse, pvars
<1>3. ASSUME stage' \in {"use", "load", "unusable"} PROVE Passes(std, TRUE)
  BY <1>3 DEF StdInv, PackagesNext, ReadManifest, ReadGraph, Load, Publish, Use, LoadUsed,
              IdleElse, pvars
<1> QED
  BY <1>1, <1>2, <1>3 DEF StdInv

\* A published package, and every package it is built with, gets a varyk-std
\* as new as the compiler that accepted it, whatever versions there are and
\* whatever the lock holds.
THEOREM PublishedGetsItsStd == PackagesSpec => []PublishedStdIsOwn
<1>1. PackagesStart => StdInv
  BY DEF PackagesStart, StdInv
<1>2. StdInv /\ [PackagesNext]_pvars => StdInv'
  BY StdKept
<1>3. StdInv => PublishedStdIsOwn
  BY PassesIsOwn DEF StdInv, PublishedStdIsOwn
<1> QED
  BY <1>1, <1>2, <1>3, PTL DEF PackagesSpec

-----------------------------------------------------------------------------
(* What a published package's user reads. *)

\* The manifest cargo makes of a library that is accepted for publishing is
\* accepted as a dependency's, builds the generated root, and leads neither to
\* a script nor to a workspace nor to anything left behind.
LEMMA PublishedManifest ==
    ASSUME NEW m \in Manifest, Accepted(m, "program"), KindOf(m) = "lib",
           NEW p, p = Published(m)
    PROVE  /\ Accepted(p, "dependency")
           /\ Wanted(p) \cap {"vr", "rs"} = {"rs"}
           /\ {"script", "filter", "root"} \cap p.pkg = {}
           /\ "relative" \notin p.deps /\ WorkspaceOf(p) = "none"
<1> DEFINE g == Generated(m)
           profile == IF WorkspaceOf(m) = "none" THEN m.top \cap {"profile"} ELSE {"profile"}
<1>1. /\ g.read = m.read /\ g.name = m.name /\ g.version = m.version /\ g.edition = m.edition
      /\ g.pkg = (m.pkg \ {"filter", "root", "script"}) \cup {"nobuild"}
      /\ g.deps = m.deps \ {"relative"} /\ g.bin = m.bin
      /\ g.top = (m.top \ {"profile"}) \cup {"workspace"} \cup profile
      /\ g.lib = IF m.lib = NoTable \/ "vr" \notin m.lib THEN m.lib ELSE (m.lib \ {"vr"}) \cup {"rs"}
  BY DEF Generated, Isolated, Manifest
<1>2. g \in [{"read", "top", "deps", "pkg", "name", "version", "edition", "bin", "lib", "files", "around"}
              -> {g[x] : x \in {"read", "top", "deps", "pkg", "name", "version", "edition", "bin",
                                "lib", "files", "around"}}]
  BY DEF Generated, Isolated, Manifest
<1> HIDE DEF g
<1>3. /\ p.read = g.read /\ p.name = g.name /\ p.version = g.version /\ p.edition = g.edition
      /\ p.deps = g.deps /\ p.top = g.top \ {"workspace"} /\ p.pkg = g.pkg \cup {"autofalse"}
      /\ p.bin = (IF g.bin = NoTable THEN g.bin ELSE g.bin \cup {"crate"})
      /\ p.lib = (IF g.lib = NoTable THEN g.lib ELSE g.lib \cup {"crate"})
      /\ p.around = "none" /\ p.files = {"lib.vr", "lib.rs"}
  BY <1>2 DEF Published, g
<1>4. /\ m.read = "ok" /\ "missing" \notin m.pkg /\ ~KeysProblem(m, "program")
      /\ ~NameProblem(m) /\ ~VersionProblem(m) /\ ~LinkedProblem(m) /\ ~WorkspaceProblem(m)
      /\ ~TargetProblem(m, "program")
  BY DEF Accepted
<1>5. /\ m.bin = NoTable /\ m.lib # NoTable /\ m.lib \in TargetTable
      /\ m.lib \cap {"list", "other", "elsewhere", "extra"} = {}
      /\ "vr" \in m.lib /\ "rs" \notin m.lib
  <2>1. /\ m.bin = NoTable /\ m.lib # NoTable /\ m.lib \in TargetTable
        /\ m.lib \cap {"list", "other", "elsewhere", "extra"} = {}
        /\ m.lib \cap Paths("program") # {}
        /\ m.lib \cap ({"vr", "rs"} \ Paths("program")) = {}
    BY <1>4 DEF TargetProblem, Wanted, Unwanted, Manifest
  <2> QED
    BY <2>1 DEF Paths
<1>6. /\ p.bin = NoTable /\ p.lib = (m.lib \ {"vr"}) \cup {"rs", "crate"} /\ KindOf(p) = "lib"
      /\ p.lib \in TargetTable /\ p.lib # NoTable
  <2>1. g.lib = (m.lib \ {"vr"}) \cup {"rs"} /\ g.lib \in TargetTable
    BY <1>1, <1>5 DEF TargetTable
  <2>2. g.lib # NoTable
    BY <2>1, TableAssumption
  <2>3. p.lib = (m.lib \ {"vr"}) \cup {"rs", "crate"} /\ p.lib \in TargetTable
    BY <1>3, <2>1, <2>2 DEF TargetTable
  <2>4. KindOf(p) = "lib" /\ p.bin = NoTable
    BY <1>1, <1>3, <1>5 DEF KindOf
  <2> QED
    BY <2>3, <2>4, TableAssumption
<1>7. ~TargetProblem(p, "dependency")
  <2>1. Wanted(p) = p.lib /\ Unwanted(p) = p.bin
    BY <1>6 DEF Wanted, Unwanted
  <2>2. NamesRoot(p, p.lib)
    BY <1>6 DEF NamesRoot
  <2>3. p.lib \cap {"list", "other", "elsewhere", "extra"} = {}
    BY <1>5, <1>6
  <2>4. "rs" \in p.lib /\ Paths("dependency") = {"vr", "rs"}
    BY <1>6 DEF Paths
  <2> QED
    BY <1>6, <2>1, <2>2, <2>3, <2>4 DEF TargetProblem
<1>8. WorkspaceOf(p) = "none" /\ ~WorkspaceProblem(p)
  <2>1. "root" \notin p.pkg /\ p.around = "none"
    BY <1>1, <1>3
  <2> QED
    BY <2>1 DEF WorkspaceOf, WorkspaceProblem
<1>9. ~KeysProblem(p, "dependency")
  BY <1>1, <1>3, <1>4 DEF KeysProblem
<1>10. ~LinkedProblem(p)
  BY <1>1, <1>3, <1>4 DEF LinkedProblem
<1>11. ~RootProblem(p) /\ ~ProgramNameProblem(p)
  BY <1>3 DEF RootProblem, ProgramNameProblem
<1>12. ~NameProblem(p) /\ ~VersionProblem(p) /\ p.read = "ok" /\ "missing" \notin p.pkg
  BY <1>1, <1>3, <1>4 DEF NameProblem, VersionProblem
<1>13. Wanted(p) \cap {"vr", "rs"} = {"rs"}
  BY <1>5, <1>6 DEF Wanted
<1>14. {"script", "filter", "root"} \cap p.pkg = {} /\ "relative" \notin p.deps
  BY <1>1, <1>3
<1> QED
  BY <1>7, <1>8, <1>9, <1>10, <1>11, <1>12, <1>13, <1>14 DEF Accepted

\* A module as it is loaded; a place in the declarations is a module and the
\* number of one of them, and they are read in this order.
Module == [parent : Nat, name : ModuleNames \cup {"root"}, form : Forms,
           decls : Seq(ModuleNames), dir : Seq(ModuleNames)]
DeclPlace == Nat \X Nat
Sooner(a, b) == a[1] < b[1] \/ (a[1] = b[1] /\ a[2] < b[2])

\* NameTaken and Found of declaration k of module i, which is p.
TakenIn(p, i, k) ==
  \/ p.decls[k] \in CargoNames \cup Reserved
  \/ i = 1 /\ p.decls[k] \in RootOnly
  \/ \E l \in 1 .. k - 1 : p.decls[l] = p.decls[k]
There(F, dir, name) == {f \in Forms : <<dir, name, f>> \in DOMAIN F}
FoundIn(F, dir, name, dependency) ==
  IF dependency /\ There(F, dir, name) \cap {"vr", "mod"} # {}
  THEN There(F, dir, name) \ {"rs"} ELSE There(F, dir, name)

\* r is the module that declaration loads from the files F.
Loads(F, dependency, p, i, k, r) ==
  /\ ~TakenIn(p, i, k)
  /\ FoundIn(F, p.dir, p.decls[k], dependency) = {r.form}
  /\ F[<<p.dir, p.decls[k], r.form>>].kind \in {"varyk", "rust"}
  /\ r = [parent |-> i, name |-> p.decls[k], form |-> r.form,
          decls |-> IF F[<<p.dir, p.decls[k], r.form>>].kind = "rust" THEN <<>>
                    ELSE F[<<p.dir, p.decls[k], r.form>>].decls,
          dir |-> Append(p.dir, p.decls[k])]

\* The modules m are what the declarations before `a` load from F, where
\* pos[j] is the place of the one that loads module j.
Loaded(F, dependency, m, a, pos) ==
  /\ m \in Seq(Module) /\ Len(m) >= 1 /\ m[1] = Entry(m[1].decls)
  /\ a \in DeclPlace /\ a[1] >= 1 /\ a[2] >= 1
  /\ pos \in [2 .. Len(m) -> DeclPlace]
  /\ \A j \in 2 .. Len(m) :
       /\ pos[j][1] \in 1 .. j - 1 /\ pos[j][2] \in 1 .. Len(m[pos[j][1]].decls)
       /\ Sooner(pos[j], a)
       /\ Loads(F, dependency, m[pos[j][1]], pos[j][1], pos[j][2], m[j])
  /\ \A j, l \in 2 .. Len(m) : j < l => Sooner(pos[j], pos[l])
  /\ \A i \in 1 .. Len(m) : \A k \in 1 .. Len(m[i].decls) :
       Sooner(<<i, k>>, a) => \E j \in 2 .. Len(m) : pos[j] = <<i, k>>

\* What becomes of a declaration whose one file is found.
LEMMA OneFound ==
    ASSUME NEW dependency, LoadOne(dependency), ~NameTaken,
           NEW f, Found(Parent.dir, Name, dependency) = {f},
           NEW file, file = files[<<Parent.dir, Name, f>>],
           NEW r, r = [parent |-> at[1], name |-> Name, form |-> f,
                       decls |-> IF file.kind = "rust" THEN <<>> ELSE file.decls,
                       dir |-> Append(Parent.dir, Name)]
    PROVE  /\ file.kind \in {"odd", "unreadable"} => Refuse
           /\ file.kind = "syntax" => reports' = reports \cup {at}
           /\ file.kind \in {"varyk", "rust"} => modules' = Append(modules, r) /\ reports' = reports
<1> DEFINE found == Found(Parent.dir, Name, dependency)
<1>1. Cardinality(found) = 1
  BY FS_Singleton
<1>2. PICK g : g = CHOOSE x \in found : TRUE
  OBVIOUS
<1>3. PICK e : e = files[<<Parent.dir, Name, g>>]
  OBVIOUS
<1>4. g = f /\ e = file
  BY <1>2, <1>3
<1>5. PICK q : q = [parent |-> at[1], name |-> Name, form |-> g,
                    decls |-> IF e.kind = "rust" THEN <<>> ELSE e.decls,
                    dir |-> Append(Parent.dir, Name)]
  OBVIOUS
<1>6. q = r
  BY <1>4, <1>5
<1>7. ASSUME e.kind \in {"odd", "unreadable"} PROVE Refuse
  BY <1>1, <1>2, <1>3, <1>7 DEF LoadOne
<1>8. ASSUME e.kind = "syntax" PROVE reports' = reports \cup {at}
  BY <1>1, <1>2, <1>3, <1>8 DEF LoadOne
<1>9. ASSUME e.kind \in {"varyk", "rust"}
      PROVE  modules' = Append(modules, q) /\ reports' = reports
  <2>1. e.kind \notin {"odd", "unreadable"} /\ e.kind # "syntax"
    BY <1>9
  <2> QED
    BY <1>1, <1>2, <1>3, <1>5, <1>9, <2>1 DEF LoadOne
<1> QED
  BY <1>4, <1>6, <1>7, <1>8, <1>9

\* A declaration that is not reported has one file, which holds a module.
LEMMA FileFound ==
    ASSUME FilesType, LoadOne(FALSE), reports' = {}
    PROVE  /\ ~NameTaken /\ reports = {}
           /\ \E f \in Forms : \E file \in File :
                /\ Found(Parent.dir, Name, FALSE) = {f} /\ file = files[<<Parent.dir, Name, f>>]
                /\ file.kind \in {"varyk", "rust"}
<1>1. PICK found : found = Found(Parent.dir, Name, FALSE)
  OBVIOUS
<1>2. found \subseteq {f \in Forms : <<Parent.dir, Name, f>> \in DOMAIN files}
  BY <1>1 DEF Found
<1>3. ~Refuse
  BY DEF Refuse
<1>4. ~NameTaken /\ Cardinality(found) = 1
  BY <1>1, <1>3 DEF LoadOne
<1>5. PICK f : found = {f}
  <2>1. IsFiniteSet(Forms)
    <3>1. IsFiniteSet({"vr"})
      BY FS_Singleton
    <3>2. IsFiniteSet({"vr"} \cup {"rs"})
      BY <3>1, FS_AddElement
    <3>3. IsFiniteSet(({"vr"} \cup {"rs"}) \cup {"mod"})
      BY <3>2, FS_AddElement
    <3>4. Forms = ({"vr"} \cup {"rs"}) \cup {"mod"}
      BY DEF Forms
    <3> QED
      BY <3>3, <3>4
  <2>2. IsFiniteSet(found)
    BY <1>2, <2>1, FS_Subset
  <2> QED
    BY <1>4, <2>2, FS_Singleton
<1>6. f \in Forms /\ <<Parent.dir, Name, f>> \in DOMAIN files
  BY <1>2, <1>5
<1>7. PICK file \in File : file = files[<<Parent.dir, Name, f>>]
  BY <1>6 DEF FilesType
<1>8. PICK r : r = [parent |-> at[1], name |-> Name, form |-> f,
                    decls |-> IF file.kind = "rust" THEN <<>> ELSE file.decls,
                    dir |-> Append(Parent.dir, Name)]
  OBVIOUS
<1>9. /\ file.kind \in {"odd", "unreadable"} => Refuse
      /\ file.kind = "syntax" => reports' = reports \cup {at}
      /\ file.kind \in {"varyk", "rust"} => modules' = Append(modules, r) /\ reports' = reports
  BY <1>1, <1>4, <1>5, <1>7, <1>8, OneFound
<1>10. file.kind # "syntax"
  <2>1. ASSUME file.kind = "syntax" PROVE FALSE
    <3>1. reports' = reports \cup {at}
      BY <1>9, <2>1
    <3> QED
      BY <3>1
  <2> QED
    BY <2>1
<1>11. file.kind \in {"varyk", "rust"}
  BY <1>3, <1>7, <1>9, <1>10 DEF File, FileKinds
<1> QED
  BY <1>1, <1>4, <1>5, <1>6, <1>7, <1>9, <1>11

\* A declaration that is loaded without a report.
LEMMA LoadsOne ==
    ASSUME FilesType, NEW m \in Seq(Module), m = modules, NEW F, F = files,
           NEW i \in Nat, NEW k \in Nat, at = <<i, k>>, i >= 1, k >= 1,
           LoadOne(FALSE), reports' = {}
    PROVE  /\ i \in 1 .. Len(m) /\ k \in 1 .. Len(m[i].decls)
           /\ at' = <<i, k + 1>> /\ files' = F
           /\ \E r \in Module : modules' = Append(m, r) /\ Loads(F, FALSE, m[i], i, k, r)
<1>1. /\ i \in 1 .. Len(m) /\ k \in 1 .. Len(m[i].decls) /\ at' = <<i, k + 1>> /\ files' = F
      /\ at[1] = i /\ at[2] = k /\ Parent = m[i] /\ Name = m[i].decls[k]
  <2>1. at[1] = i /\ at[2] = k /\ Parent = m[i] /\ Name = m[i].decls[k]
    BY DEF Parent, Name
  <2>2. i <= Len(m) /\ k <= Len(m[i].decls) /\ at' = <<i, k + 1>> /\ files' = F
    BY <2>1 DEF LoadOne, Loading
  <2>3. i \in 1 .. Len(m)
    BY <2>2
  <2>4. m[i].decls \in Seq(ModuleNames)
    <3>1. m[i] \in Module
      BY <2>3, ElementOf
    <3> QED
      BY <3>1 DEF Module
  <2>5. k \in 1 .. Len(m[i].decls)
    BY <2>2, <2>4
  <2> QED
    BY <2>1, <2>2, <2>3, <2>5
<1>2. PICK p \in Module, n \in ModuleNames : p = m[i] /\ n = p.decls[k]
  <2>1. m[i] \in Module
    BY <1>1, ElementOf
  <2>2. m[i].decls \in Seq(ModuleNames)
    BY <2>1 DEF Module
  <2> QED
    BY <1>1, <2>1, <2>2, ElementOf
<1>3. PICK f \in Forms :
        \E file \in File :
          /\ Found(Parent.dir, Name, FALSE) = {f} /\ file = files[<<Parent.dir, Name, f>>]
          /\ file.kind \in {"varyk", "rust"}
  BY FileFound
<1>4. PICK file \in File :
        /\ Found(Parent.dir, Name, FALSE) = {f} /\ file = files[<<Parent.dir, Name, f>>]
        /\ file.kind \in {"varyk", "rust"}
  BY <1>3
<1>5. FoundIn(F, p.dir, n, FALSE) = {f} /\ file = F[<<p.dir, n, f>>]
  BY <1>1, <1>2, <1>4 DEF Found, FoundIn, There
<1>6. ~NameTaken
  BY FileFound
<1>7. ~TakenIn(p, i, k)
  BY <1>1, <1>2, <1>6 DEF NameTaken, TakenIn, Parent, Name
<1>8. PICK r : r = [parent |-> i, name |-> n, form |-> f,
                    decls |-> IF file.kind = "rust" THEN <<>> ELSE file.decls,
                    dir |-> Append(p.dir, n)]
  OBVIOUS
<1>9. modules' = Append(m, r)
  <2>1. r = [parent |-> at[1], name |-> Name, form |-> f,
             decls |-> IF file.kind = "rust" THEN <<>> ELSE file.decls,
             dir |-> Append(Parent.dir, Name)]
    BY <1>1, <1>2, <1>8
  <2> QED
    BY <1>4, <1>6, <2>1, OneFound
<1>10. r \in Module
  <2>1. p.dir \in Seq(ModuleNames) /\ file.decls \in Seq(ModuleNames)
    BY DEF Module, File
  <2>2. Append(p.dir, n) \in Seq(ModuleNames) /\ <<>> \in Seq(ModuleNames)
    BY <2>1
  <2> QED
    BY <1>8, <2>1, <2>2 DEF Module
<1>11. Loads(F, FALSE, m[i], i, k, r)
  BY <1>2, <1>4, <1>5, <1>7, <1>8 DEF Loads
<1> QED
  BY <1>1, <1>9, <1>10, <1>11

\* A declaration that loads r is loaded as r, whatever else there is.
LEMMA LoadsSame ==
    ASSUME NEW m \in Seq(Module), m = modules, NEW F, F = files,
           NEW i \in Nat, NEW k \in Nat, at = <<i, k>>,
           NEW dependency, LoadOne(dependency),
           NEW r, Loads(F, dependency, m[i], i, k, r)
    PROVE  /\ at' = <<i, k + 1>> /\ files' = F /\ modules' = Append(m, r) /\ reports' = reports
<1>1. /\ at' = <<i, k + 1>> /\ files' = F
      /\ at[1] = i /\ at[2] = k /\ Parent = m[i] /\ Name = m[i].decls[k]
  BY DEF LoadOne, Loading, Parent, Name
<1>2. PICK p, n : p = m[i] /\ n = p.decls[k]
  OBVIOUS
<1>3. PICK found : found = Found(p.dir, n, dependency)
  OBVIOUS
<1>4. found = FoundIn(F, p.dir, n, dependency)
  BY <1>3 DEF Found, FoundIn, There
<1>5. NameTaken <=> TakenIn(p, i, k)
  BY <1>1, <1>2 DEF NameTaken, TakenIn, Parent, Name
<1>6. PICK f : found = {f} /\ f = r.form
  BY <1>2, <1>4 DEF Loads
<1>7. ~NameTaken
  BY <1>2, <1>5 DEF Loads
<1>8. PICK file : file = files[<<p.dir, n, f>>]
  OBVIOUS
<1>9. /\ file.kind \in {"varyk", "rust"}
      /\ r = [parent |-> i, name |-> n, form |-> f,
              decls |-> IF file.kind = "rust" THEN <<>> ELSE file.decls,
              dir |-> Append(p.dir, n)]
  BY <1>2, <1>6, <1>8 DEF Loads
<1>b. /\ file.kind \in {"odd", "unreadable"} => Refuse
      /\ file.kind = "syntax" => reports' = reports \cup {at}
      /\ file.kind \in {"varyk", "rust"} => modules' = Append(m, r) /\ reports' = reports
  <2>1. Found(Parent.dir, Name, dependency) = {f} /\ file = files[<<Parent.dir, Name, f>>]
    BY <1>1, <1>2, <1>3, <1>6, <1>8
  <2>2. r = [parent |-> at[1], name |-> Name, form |-> f,
             decls |-> IF file.kind = "rust" THEN <<>> ELSE file.decls,
             dir |-> Append(Parent.dir, Name)]
    BY <1>1, <1>2, <1>9
  <2>3. /\ file.kind \in {"odd", "unreadable"} => Refuse
        /\ file.kind = "syntax" => reports' = reports \cup {at}
        /\ file.kind \in {"varyk", "rust"} => modules' = Append(modules, r) /\ reports' = reports
    BY <1>7, <2>1, <2>2, OneFound
  <2> QED
    BY <2>3
<1>10. modules' = Append(m, r) /\ reports' = reports
  <2>1. file.kind \notin {"odd", "unreadable"} /\ file.kind # "syntax"
    BY <1>9
  <2> QED
    BY <1>9, <1>b, <2>1
<1> QED
  BY <1>1, <1>10

\* The entry file is loaded before any declaration.
LEMMA EntryLoaded ==
    ASSUME NEW F, NEW dependency, NEW d \in Seq(ModuleNames)
    PROVE  \E pos : Loaded(F, dependency, <<Entry(d)>>, <<1, 1>>, pos)
<1> DEFINE m == <<Entry(d)>>
           pos == [j \in 2 .. 1 |-> <<0, 0>>]
<1>1. Entry(d) \in Module
  BY DEF Entry, Module, Forms
<1>2. m \in Seq(Module) /\ Len(m) = 1 /\ m[1] = Entry(d) /\ Entry(d).decls = d
  BY <1>1 DEF Entry
<1>3. 2 .. Len(m) = {} /\ pos \in [2 .. Len(m) -> DeclPlace]
  BY <1>2
<1>4. <<1, 1>> \in DeclPlace /\ <<1, 1>>[1] = 1 /\ <<1, 1>>[2] = 1
  BY DEF DeclPlace
<1>5. \A i \in 1 .. Len(m) : \A k \in 1 .. Len(m[i].decls) : ~Sooner(<<i, k>>, <<1, 1>>)
  <2>1. \A i \in 1 .. Len(m) : i = 1 /\ m[i].decls = d
    BY <1>2
  <2>2. \A k \in 1 .. Len(d) : ~Sooner(<<1, k>>, <<1, 1>>)
    BY DEF Sooner
  <2> QED
    BY <2>1, <2>2
<1> HIDE DEF m, pos
<1>6. Loaded(F, dependency, m, <<1, 1>>, pos)
  BY <1>2, <1>3, <1>4, <1>5 DEF Loaded
<1> QED
  BY <1>6 DEF m

\* Going on to the next module passes no declaration.
LEMMA ModulePassed ==
    ASSUME NEW F, NEW dependency, NEW m, NEW i \in Nat, NEW k \in Nat, NEW pos,
           Loaded(F, dependency, m, <<i, k>>, pos), i <= Len(m), k > Len(m[i].decls)
    PROVE  Loaded(F, dependency, m, <<i + 1, 1>>, pos)
<1>1. /\ m \in Seq(Module) /\ Len(m) \in Nat /\ i \in 1 .. Len(m)
      /\ <<i, k>>[1] = i /\ <<i, k>>[2] = k /\ pos \in [2 .. Len(m) -> DeclPlace]
  BY DEF Loaded
<1>2. ASSUME NEW l \in 1 .. Len(m)
      PROVE  m[l].decls \in Seq(ModuleNames) /\ Len(m[l].decls) \in Nat
  <2>1. m[l] \in Module
    BY <1>1, ElementOf
  <2>2. m[l].decls \in Seq(ModuleNames)
    BY <2>1 DEF Module
  <2> QED
    BY <2>2
<1>3. <<i + 1, 1>> \in DeclPlace /\ <<i + 1, 1>>[1] = i + 1 /\ <<i + 1, 1>>[2] = 1
  BY DEF DeclPlace
<1>4. ASSUME NEW j \in 2 .. Len(m) PROVE Sooner(pos[j], <<i + 1, 1>>)
  <2>1. pos[j][1] \in Nat /\ pos[j][2] \in Nat
    BY <1>1 DEF DeclPlace
  <2>2. Sooner(pos[j], <<i, k>>)
    BY DEF Loaded
  <2> QED
    BY <1>1, <2>1, <2>2 DEF Sooner
<1>5. ASSUME NEW l \in 1 .. Len(m), NEW n \in 1 .. Len(m[l].decls), Sooner(<<l, n>>, <<i + 1, 1>>)
      PROVE  Sooner(<<l, n>>, <<i, k>>)
  <2>1. l \in Nat /\ n \in Nat /\ n <= Len(m[l].decls)
    BY <1>2
  <2>2. l < i + 1
    BY <1>5, <2>1 DEF Sooner
  <2>3. CASE l < i
    BY <2>3 DEF Sooner
  <2>4. CASE l = i
    <3>1. n < k
      BY <1>2, <2>1, <2>4
    <3> QED
      BY <2>4, <3>1 DEF Sooner
  <2> QED
    BY <2>1, <2>2, <2>3, <2>4
<1>6. ASSUME NEW l \in 1 .. Len(m), NEW n \in 1 .. Len(m[l].decls), Sooner(<<l, n>>, <<i + 1, 1>>)
      PROVE  \E j \in 2 .. Len(m) : pos[j] = <<l, n>>
  BY <1>5, <1>6 DEF Loaded
<1>7. /\ Len(m) >= 1 /\ m[1] = Entry(m[1].decls)
      /\ \A j, l \in 2 .. Len(m) : j < l => Sooner(pos[j], pos[l])
      /\ \A j \in 2 .. Len(m) :
           /\ pos[j][1] \in 1 .. j - 1 /\ pos[j][2] \in 1 .. Len(m[pos[j][1]].decls)
           /\ Loads(F, dependency, m[pos[j][1]], pos[j][1], pos[j][2], m[j])
  BY DEF Loaded
<1>8. <<i + 1, 1>>[1] >= 1 /\ <<i + 1, 1>>[2] >= 1
  BY <1>3
<1> QED
  BY <1>1, <1>3, <1>4, <1>6, <1>7, <1>8 DEF Loaded

\* A declaration that loads r adds r.
LEMMA OneLoaded ==
    ASSUME NEW F, NEW dependency, NEW m, NEW i \in Nat, NEW k \in Nat, NEW pos,
           Loaded(F, dependency, m, <<i, k>>, pos), i \in 1 .. Len(m), k \in 1 .. Len(m[i].decls),
           NEW r \in Module, Loads(F, dependency, m[i], i, k, r)
    PROVE  \E q : Loaded(F, dependency, Append(m, r), <<i, k + 1>>, q)
<1> DEFINE N == Len(m)
           mm == Append(m, r)
           q == [j \in 2 .. N + 1 |-> IF j = N + 1 THEN <<i, k>> ELSE pos[j]]
<1>1. /\ m \in Seq(Module) /\ N \in Nat /\ N >= 1 /\ pos \in [2 .. N -> DeclPlace]
      /\ m[1] = Entry(m[1].decls)
  BY DEF Loaded
<1>2. /\ mm \in Seq(Module) /\ Len(mm) = N + 1 /\ mm[N + 1] = r
      /\ \A j \in 1 .. N : mm[j] = m[j]
  BY <1>1, Appended
<1>3. /\ q \in [2 .. N + 1 -> DeclPlace] /\ q[N + 1] = <<i, k>>
      /\ \A j \in 2 .. N : q[j] = pos[j]
  BY <1>1 DEF DeclPlace
<1>n. N \in Nat /\ N >= 1
  BY <1>1
<1>4. <<i, k>>[1] = i /\ <<i, k>>[2] = k /\ <<i, k + 1>>[1] = i /\ <<i, k + 1>>[2] = k + 1
      /\ <<i, k + 1>> \in DeclPlace
  BY DEF DeclPlace
<1>a. <<i, k + 1>>[1] >= 1 /\ <<i, k + 1>>[2] >= 1
  BY <1>4
<1> HIDE DEF mm, q
<1>5. \A j \in 2 .. N : /\ pos[j][1] \in 1 .. j - 1 /\ pos[j][2] \in 1 .. Len(m[pos[j][1]].decls)
                        /\ Sooner(pos[j], <<i, k>>)
                        /\ Loads(F, dependency, m[pos[j][1]], pos[j][1], pos[j][2], m[j])
  BY DEF Loaded
<1>i. i \in 1 .. N /\ k \in 1 .. Len(m[i].decls)
  OBVIOUS
<1>m. \A j, l \in 2 .. N : j < l => Sooner(pos[j], pos[l])
  BY DEF Loaded
<1>c. \A l \in 1 .. N : \A n \in 1 .. Len(m[l].decls) :
        Sooner(<<l, n>>, <<i, k>>) => \E j \in 2 .. N : pos[j] = <<l, n>>
  BY DEF Loaded
<1> HIDE DEF N
<1>6. ASSUME NEW j \in 2 .. N + 1
      PROVE  /\ q[j][1] \in 1 .. j - 1 /\ q[j][2] \in 1 .. Len(mm[q[j][1]].decls)
             /\ Sooner(q[j], <<i, k + 1>>)
             /\ Loads(F, dependency, mm[q[j][1]], q[j][1], q[j][2], mm[j])
  <2>1. CASE j \in 2 .. N
    <3>0. j \in 1 .. N
      BY <1>n, <2>1
    <3>1. q[j] = pos[j] /\ mm[j] = m[j]
      BY <1>2, <1>3, <2>1, <3>0
    <3>2. pos[j][1] \in 1 .. N
      BY <1>n, <1>5, <2>1, <3>0
    <3>3. mm[q[j][1]] = m[pos[j][1]]
      BY <1>2, <3>1, <3>2
    <3>4. pos[j][1] \in Nat /\ pos[j][2] \in Nat
      BY <1>1, <2>1 DEF DeclPlace
    <3>5. Sooner(pos[j], <<i, k + 1>>)
      BY <1>4, <1>5, <2>1, <3>4 DEF Sooner
    <3> QED
      BY <1>5, <2>1, <3>1, <3>3, <3>5
  <2>2. CASE j = N + 1
    <3>1. q[j][1] = i /\ q[j][2] = k /\ mm[i] = m[i] /\ mm[j] = r
      BY <1>2, <1>3, <1>4, <1>i, <2>2
    <3>2. Sooner(q[j], <<i, k + 1>>)
      BY <1>4, <3>1 DEF Sooner
    <3>3. i \in 1 .. j - 1
      BY <1>n, <1>i, <2>2
    <3> QED
      BY <1>i, <3>1, <3>2, <3>3
  <2>3. j \in 2 .. N \/ j = N + 1
    BY <1>n
  <2> QED
    BY <2>1, <2>2, <2>3
<1>7. ASSUME NEW j \in 2 .. N + 1, NEW l \in 2 .. N + 1, j < l PROVE Sooner(q[j], q[l])
  <2>1. CASE l \in 2 .. N
    <3>1. j \in 2 .. N
      BY <1>n, <1>7, <2>1
    <3> QED
      BY <1>3, <1>m, <1>7, <2>1, <3>1
  <2>2. CASE l = N + 1
    <3>1. j \in 2 .. N
      BY <1>n, <1>7, <2>2
    <3> QED
      BY <1>3, <1>5, <2>2, <3>1
  <2>3. l \in 2 .. N \/ l = N + 1
    BY <1>n
  <2> QED
    BY <2>1, <2>2, <2>3
<1>8. ASSUME NEW l \in 1 .. N + 1, NEW n \in 1 .. Len(mm[l].decls), Sooner(<<l, n>>, <<i, k + 1>>)
      PROVE  \E j \in 2 .. N + 1 : q[j] = <<l, n>>
  <2>1. mm[l].decls \in Seq(ModuleNames)
    <3>1. mm[l] \in Module
      BY <1>2, ElementOf
    <3> QED
      BY <3>1 DEF Module
  <2>2. n \in Nat /\ l \in Nat /\ l <= i /\ l \in 1 .. N /\ mm[l] = m[l]
    <3>1. n \in Nat /\ l \in Nat
      BY <2>1
    <3>2. l <= i
      BY <1>4, <1>8, <3>1 DEF Sooner
    <3>3. l \in 1 .. N
      BY <1>n, <1>i, <3>1, <3>2
    <3> QED
      BY <1>2, <3>1, <3>2, <3>3
  <2>3. CASE Sooner(<<l, n>>, <<i, k>>)
    <3>1. PICK j \in 2 .. N : pos[j] = <<l, n>>
      BY <1>c, <2>2, <2>3
    <3>2. j \in 2 .. N + 1 /\ q[j] = pos[j]
      BY <1>n, <1>3
    <3> QED
      BY <3>1, <3>2
  <2>4. CASE ~Sooner(<<l, n>>, <<i, k>>)
    <3>1. l = i /\ n = k
      BY <1>4, <1>8, <2>2, <2>4 DEF Sooner
    <3>2. N + 1 \in 2 .. N + 1
      BY <1>n
    <3> QED
      BY <1>3, <3>1, <3>2
  <2> QED
    BY <2>3, <2>4
<1>9. mm[1] = Entry(mm[1].decls)
  <2>1. 1 \in 1 .. N
    BY <1>n
  <2>2. mm[1] = m[1]
    BY <1>2, <2>1
  <2> QED
    BY <1>1, <2>2
<1>b. mm \in Seq(Module) /\ Len(mm) = N + 1 /\ Len(mm) >= 1
  BY <1>2, <1>n
<1>10. Loaded(F, dependency, mm, <<i, k + 1>>, q)
  BY <1>3, <1>4, <1>6, <1>7, <1>8, <1>9, <1>a, <1>b DEF Loaded
<1> QED
  BY <1>10 DEF mm

\* From what is assembled the same is loaded by the rules for a dependency,
\* whose .vr files win over what publishing wrote beside them.
Assembles(F, m) ==
  [p \in {q \in DOMAIN F : q[3] # "rs"} \cup
         {<<m[m[j].parent].dir, m[j].name, "rs">> : j \in 2 .. Len(m)} |->
     IF p \in DOMAIN F THEN F[p] ELSE [kind |-> "rust", decls |-> <<>>]]

\* The rules for a dependency find for each declaration the file the program's
\* rules found: no other .vr was there, and a name.rs beside it no longer counts.
LEMMA LoadedAgain ==
    ASSUME NEW F, NEW m, NEW a, NEW pos, Loaded(F, FALSE, m, a, pos), a[1] > Len(m)
    PROVE  Loaded(Assembles(F, m), TRUE, m, <<Len(m) + 1, 1>>, pos)
<1> DEFINE A == Assembles(F, m)
           N == Len(m)
           b == <<N + 1, 1>>
<1>1. /\ m \in Seq(Module) /\ N >= 1 /\ m[1] = Entry(m[1].decls)
      /\ a \in DeclPlace /\ pos \in [2 .. N -> DeclPlace]
      /\ \A j, l \in 2 .. N : j < l => Sooner(pos[j], pos[l])
  BY DEF Loaded
<1>n. N \in Nat /\ a[1] \in Nat /\ a[2] \in Nat /\ N < a[1]
  BY <1>1 DEF DeclPlace
<1>2. b \in DeclPlace /\ b[1] = N + 1 /\ b[2] = 1
  BY <1>n DEF DeclPlace
<1>3. \A j \in 2 .. N :
        /\ pos[j][1] \in 1 .. j - 1 /\ pos[j][2] \in 1 .. Len(m[pos[j][1]].decls)
        /\ Loads(F, FALSE, m[pos[j][1]], pos[j][1], pos[j][2], m[j])
  BY DEF Loaded
<1>4. \A l \in 1 .. N : \A n \in 1 .. Len(m[l].decls) :
        Sooner(<<l, n>>, a) => \E j \in 2 .. N : pos[j] = <<l, n>>
  BY DEF Loaded
<1> HIDE DEF A, N, b
<1>5. ASSUME NEW j \in 2 .. N PROVE Sooner(pos[j], b)
  <2>1. PICK c : c = pos[j][1]
    OBVIOUS
  <2>2. c \in 1 .. j - 1
    BY <1>3, <2>1
  <2>3. c < N + 1
    BY <1>n, <2>2
  <2> QED
    BY <1>2, <2>1, <2>3 DEF Sooner
<1>6. ASSUME NEW l \in 1 .. N, NEW n \in 1 .. Len(m[l].decls)
      PROVE  \E j \in 2 .. N : pos[j] = <<l, n>>
  <2>1. l < a[1]
    BY <1>n
  <2>2. Sooner(<<l, n>>, a)
    BY <2>1 DEF Sooner
  <2> QED
    BY <1>4, <2>2
<1>7. ASSUME NEW j \in 2 .. N, NEW i, i = pos[j][1], NEW k, k = pos[j][2]
      PROVE  Loads(A, TRUE, m[i], i, k, m[j])
  <2>p. PICK p, r : p = m[i] /\ r = m[j]
    OBVIOUS
  <2>d. PICK dir, n, f : dir = p.dir /\ n = p.decls[k] /\ f = r.form
    OBVIOUS
  <2>1. Loads(F, FALSE, p, i, k, r)
    BY <1>3, <1>7, <2>p
  <2>2. There(F, dir, n) = {f} /\ r.parent = i /\ r.name = n
    BY <2>1, <2>d DEF Loads, FoundIn
  <2>3. <<dir, n, f>> \in DOMAIN F /\ f \in Forms
    BY <2>2 DEF There
  <2>4. DOMAIN A = {q \in DOMAIN F : q[3] # "rs"} \cup
                   {<<m[m[l].parent].dir, m[l].name, "rs">> : l \in 2 .. N}
    BY DEF A, Assembles, N
  <2>5. <<dir, n, "rs">> \in DOMAIN A
    BY <2>2, <2>4, <2>d, <2>p
  <2>6. \A g \in {"vr", "mod"} : <<dir, n, g>> \in DOMAIN A <=> <<dir, n, g>> \in DOMAIN F
    <3>1. ASSUME NEW g \in {"vr", "mod"} PROVE <<dir, n, g>>[3] = g /\ g # "rs"
      OBVIOUS
    <3>2. ASSUME NEW g \in {"vr", "mod"}, NEW l \in 2 .. N
          PROVE  <<dir, n, g>> # <<m[m[l].parent].dir, m[l].name, "rs">>
      OBVIOUS
    <3> QED
      BY <2>4, <3>1, <3>2
  <2>7. FoundIn(A, dir, n, TRUE) = {f}
    <3>1. CASE f = "rs"
      <4>1. There(A, dir, n) = {"rs"}
        BY <2>2, <2>5, <2>6, <3>1 DEF There, Forms
      <4> QED
        BY <3>1, <4>1 DEF FoundIn
    <3>2. CASE f \in {"vr", "mod"}
      <4>1. There(A, dir, n) = {f, "rs"}
        BY <2>2, <2>5, <2>6, <3>2 DEF There, Forms
      <4> QED
        BY <3>2, <4>1 DEF FoundIn
    <3> QED
      BY <2>3, <3>1, <3>2 DEF Forms
  <2>8. <<dir, n, f>> \in DOMAIN A
    BY <2>3, <2>5, <2>6 DEF Forms
  <2>9. A[<<dir, n, f>>] = F[<<dir, n, f>>]
    BY <2>3, <2>4, <2>8 DEF A, Assembles, N
  <2>10. Loads(A, TRUE, p, i, k, r)
    BY <2>1, <2>7, <2>9, <2>d DEF Loads
  <2> QED
    BY <2>10, <2>p
<1>8. b[1] >= 1 /\ b[2] >= 1
  BY <1>2, <1>n
<1>9. Loaded(A, TRUE, m, b, pos)
  BY <1>1, <1>2, <1>3, <1>5, <1>6, <1>7, <1>8 DEF Loaded, N
<1> QED
  BY <1>9 DEF A, b, N

\* The modules m are the first of T, those that the declarations before `a`
\* load from F; all of T are loaded from F.
Replays(F, T, pos, m, a) ==
  /\ Loaded(F, TRUE, T, <<Len(T) + 1, 1>>, pos)
  /\ m \in Seq(Module) /\ Len(m) \in 1 .. Len(T) /\ \A j \in 1 .. Len(m) : m[j] = T[j]
  /\ a \in DeclPlace /\ a[1] >= 1 /\ a[2] >= 1
  /\ \A j \in 2 .. Len(T) : j <= Len(m) <=> Sooner(pos[j], a)

\* At the entry file a user's build has replayed the first module.
LEMMA ReplayStarts ==
    ASSUME NEW F, NEW T, NEW pos, Loaded(F, TRUE, T, <<Len(T) + 1, 1>>, pos)
    PROVE  Replays(F, T, pos, <<Entry(T[1].decls)>>, <<1, 1>>)
<1> DEFINE m == <<Entry(T[1].decls)>>
<1>1. /\ T \in Seq(Module) /\ Len(T) >= 1 /\ T[1] = Entry(T[1].decls) /\ Len(T) \in Nat
      /\ pos \in [2 .. Len(T) -> DeclPlace]
  BY DEF Loaded
<1>2. T[1] \in Module
  BY <1>1, ElementOf
<1>3. m \in Seq(Module) /\ Len(m) = 1 /\ m[1] = T[1]
  BY <1>1, <1>2
<1>4. <<1, 1>> \in DeclPlace /\ <<1, 1>>[1] = 1 /\ <<1, 1>>[2] = 1
  BY DEF DeclPlace
<1>5. ASSUME NEW j \in 2 .. Len(T) PROVE ~Sooner(pos[j], <<1, 1>>) /\ ~(j <= 1)
  <2>1. pos[j][1] \in 1 .. j - 1 /\ pos[j][2] \in 1 .. Len(T[pos[j][1]].decls)
    BY DEF Loaded
  <2>2. pos[j][1] \in Nat /\ pos[j][2] \in Nat /\ pos[j][1] >= 1 /\ pos[j][2] >= 1
    BY <1>1, <2>1 DEF DeclPlace
  <2> QED
    BY <1>1, <1>4, <2>2 DEF Sooner
<1> HIDE DEF m
<1>6. Replays(F, T, pos, m, <<1, 1>>)
  <2>1. Len(m) \in 1 .. Len(T) /\ \A j \in 1 .. Len(m) : m[j] = T[j]
    BY <1>1, <1>3
  <2>2. <<1, 1>>[1] >= 1 /\ <<1, 1>>[2] >= 1
    BY <1>4
  <2>3. \A j \in 2 .. Len(T) : j <= Len(m) <=> Sooner(pos[j], <<1, 1>>)
    BY <1>3, <1>5
  <2> QED
    BY <1>3, <1>4, <2>1, <2>2, <2>3 DEF Replays
<1> QED
  BY <1>6 DEF m

\* Going on to the next module replays nothing.
LEMMA ReplayPasses ==
    ASSUME NEW F, NEW T, NEW pos, NEW m, NEW i \in Nat, NEW k \in Nat,
           Replays(F, T, pos, m, <<i, k>>), i <= Len(m), k > Len(m[i].decls)
    PROVE  Replays(F, T, pos, m, <<i + 1, 1>>)
<1>1. /\ T \in Seq(Module) /\ Len(T) \in Nat /\ pos \in [2 .. Len(T) -> DeclPlace]
      /\ m \in Seq(Module) /\ Len(m) \in 1 .. Len(T) /\ <<i, k>>[1] = i /\ <<i, k>>[2] = k
      /\ \A j \in 1 .. Len(m) : m[j] = T[j]
  BY DEF Replays, Loaded
<1>2. i >= 1 /\ i \in 1 .. Len(m)
  BY <1>1 DEF Replays
<1>3. <<i + 1, 1>> \in DeclPlace /\ <<i + 1, 1>>[1] = i + 1 /\ <<i + 1, 1>>[2] = 1
  BY DEF DeclPlace
<1>4. ASSUME NEW j \in 2 .. Len(T)
      PROVE  Sooner(pos[j], <<i + 1, 1>>) <=> Sooner(pos[j], <<i, k>>)
  <2>1. pos[j][1] \in 1 .. j - 1 /\ pos[j][2] \in 1 .. Len(T[pos[j][1]].decls)
    BY DEF Replays, Loaded
  <2>2. pos[j][1] \in Nat /\ pos[j][2] \in Nat /\ pos[j][2] >= 1
    BY <1>1, <2>1 DEF DeclPlace
  <2>3. ASSUME pos[j][1] = i PROVE pos[j][2] < k
    <3>1. T[i] = m[i] /\ T[i] \in Module
      BY <1>1, <1>2, ElementOf
    <3>2. Len(T[i].decls) \in Nat
      <4>1. T[i].decls \in Seq(ModuleNames)
        BY <3>1 DEF Module
      <4> QED
        BY <4>1
    <3>3. pos[j][2] <= Len(T[i].decls)
      BY <2>1, <2>2, <2>3, <3>2
    <3> QED
      BY <2>2, <3>1, <3>2, <3>3
  <2> QED
    BY <1>1, <1>3, <2>2, <2>3 DEF Sooner
<1>5. <<i + 1, 1>>[1] >= 1 /\ <<i + 1, 1>>[2] >= 1
  BY <1>3
<1> QED
  BY <1>1, <1>3, <1>4, <1>5 DEF Replays

\* The next declaration loads the next module of T.
LEMMA ReplayGoesOn ==
    ASSUME NEW F, NEW T, NEW pos, NEW m, NEW i \in Nat, NEW k \in Nat,
           Replays(F, T, pos, m, <<i, k>>), i <= Len(m), k <= Len(m[i].decls)
    PROVE  \E r \in Module : /\ Loads(F, TRUE, m[i], i, k, r)
                             /\ Replays(F, T, pos, Append(m, r), <<i, k + 1>>)
<1> DEFINE N == Len(m)
<1>1. /\ T \in Seq(Module) /\ Len(T) \in Nat /\ pos \in [2 .. Len(T) -> DeclPlace]
      /\ m \in Seq(Module) /\ N \in 1 .. Len(T) /\ <<i, k>>[1] = i /\ <<i, k>>[2] = k
      /\ \A j \in 1 .. N : m[j] = T[j]
  BY DEF Replays, Loaded
<1>2. /\ i >= 1 /\ k >= 1 /\ i \in 1 .. N /\ N \in Nat /\ N <= Len(T)
  BY <1>1 DEF Replays
<1>3. T[i] = m[i] /\ k \in 1 .. Len(T[i].decls) /\ i \in 1 .. Len(T)
  <2>1. T[i] = m[i] /\ m[i] \in Module
    BY <1>1, <1>2, ElementOf
  <2>2. m[i].decls \in Seq(ModuleNames)
    BY <2>1 DEF Module
  <2>3. k \in 1 .. Len(m[i].decls)
    BY <1>2, <2>2
  <2> QED
    BY <1>2, <2>1, <2>3
<1>4. PICK j \in 2 .. Len(T) : pos[j] = <<i, k>>
  <2>1. \A l \in 1 .. Len(T) : \A n \in 1 .. Len(T[l].decls) :
          Sooner(<<l, n>>, <<Len(T) + 1, 1>>) => \E q \in 2 .. Len(T) : pos[q] = <<l, n>>
    BY DEF Replays, Loaded
  <2>2. i < Len(T) + 1
    BY <1>1, <1>2
  <2>3. Sooner(<<i, k>>, <<Len(T) + 1, 1>>)
    BY <2>2 DEF Sooner
  <2> QED
    BY <1>3, <2>1, <2>3
<1>5. \A l \in 2 .. Len(T) : l <= N <=> Sooner(pos[l], <<i, k>>)
  BY DEF Replays
<1>6. \A l, n \in 2 .. Len(T) : l < n => Sooner(pos[l], pos[n])
  BY DEF Replays, Loaded
<1> HIDE DEF N
<1>7. ~(j <= N)
  BY <1>4, <1>5 DEF Sooner
<1>8. j = N + 1
  <2>1. ASSUME N + 1 < j PROVE FALSE
    <3>1. N + 1 \in 2 .. Len(T)
      BY <1>1, <1>2, <2>1
    <3>2. Sooner(pos[N + 1], <<i, k>>)
      BY <1>4, <1>6, <2>1, <3>1
    <3>3. N + 1 <= N
      BY <1>5, <3>1, <3>2
    <3> QED
      BY <1>2, <3>3
  <2> QED
    BY <1>1, <1>2, <1>7, <2>1
<1>9. T[j] \in Module /\ Loads(F, TRUE, m[i], i, k, T[j])
  <2>1. Loads(F, TRUE, T[pos[j][1]], pos[j][1], pos[j][2], T[j])
    BY DEF Replays, Loaded
  <2>2. pos[j][1] = i /\ pos[j][2] = k
    BY <1>4
  <2>3. T[j] \in Module
    BY <1>1, ElementOf
  <2> QED
    BY <1>3, <2>1, <2>2, <2>3
<1> DEFINE mm == Append(m, T[j])
<1>10. /\ mm \in Seq(Module) /\ Len(mm) = N + 1 /\ mm[N + 1] = T[j]
       /\ \A l \in 1 .. N : mm[l] = m[l]
  BY <1>1, <1>9, Appended DEF N
<1>11. <<i, k + 1>> \in DeclPlace /\ <<i, k + 1>>[1] = i /\ <<i, k + 1>>[2] = k + 1
  BY DEF DeclPlace
<1>12. ASSUME NEW l \in 2 .. Len(T) PROVE l <= N + 1 <=> Sooner(pos[l], <<i, k + 1>>)
  <2>1. pos[l][1] \in Nat /\ pos[l][2] \in Nat
    BY <1>1 DEF DeclPlace
  <2>2. CASE l <= N
    BY <1>1, <1>2, <1>5, <1>11, <2>1, <2>2 DEF Sooner
  <2>3. CASE l = N + 1
    BY <1>4, <1>2, <1>8, <1>11, <2>3 DEF Sooner
  <2>4. CASE l > N + 1
    <3>1. Sooner(pos[j], pos[l])
      BY <1>6, <1>8, <2>4
    <3>2. ~Sooner(pos[l], <<i, k + 1>>)
      BY <1>4, <1>11, <2>1, <3>1 DEF Sooner
    <3> QED
      BY <1>2, <2>4, <3>2
  <2> QED
    BY <1>1, <1>2, <2>2, <2>3, <2>4
<1> HIDE DEF mm
<1>13. Len(mm) \in 1 .. Len(T) /\ \A l \in 1 .. Len(mm) : mm[l] = T[l]
  <2>1. N + 1 \in 1 .. Len(T)
    BY <1>1, <1>2, <1>8
  <2>2. \A l \in 1 .. N + 1 : l \in 1 .. N \/ l = N + 1
    BY <1>2
  <2> QED
    BY <1>1, <1>8, <1>10, <2>1, <2>2
<1>14. Replays(F, T, pos, mm, <<i, k + 1>>)
  <2>1. <<i, k + 1>>[1] >= 1 /\ <<i, k + 1>>[2] >= 1
    BY <1>2, <1>11
  <2>2. Loaded(F, TRUE, T, <<Len(T) + 1, 1>>, pos)
    BY DEF Replays
  <2> QED
    BY <1>10, <1>11, <1>12, <1>13, <2>1, <2>2 DEF Replays
<1> QED
  BY <1>9, <1>14 DEF mm

\* When no declaration is left, every module of T was loaded.
LEMMA ReplayEnds ==
    ASSUME NEW F, NEW T, NEW pos, NEW m, NEW a, Replays(F, T, pos, m, a), a[1] > Len(m)
    PROVE  m = T
<1>1. /\ T \in Seq(Module) /\ Len(T) \in Nat /\ pos \in [2 .. Len(T) -> DeclPlace]
      /\ m \in Seq(Module) /\ Len(m) \in 1 .. Len(T) /\ a \in DeclPlace
      /\ \A j \in 1 .. Len(m) : m[j] = T[j]
      /\ \A j \in 2 .. Len(T) : j <= Len(m) <=> Sooner(pos[j], a)
  BY DEF Replays, Loaded
<1>2. a[1] \in Nat /\ Len(m) \in Nat /\ Len(m) < a[1]
  BY <1>1 DEF DeclPlace
<1>3. ASSUME Len(m) < Len(T) PROVE FALSE
  <2>1. PICK j \in 2 .. Len(T) : j = Len(m) + 1
    BY <1>1, <1>2, <1>3
  <2>2. pos[j][1] \in 1 .. j - 1
    BY DEF Replays, Loaded
  <2>3. pos[j][1] < a[1]
    BY <1>2, <2>1, <2>2
  <2>4. Sooner(pos[j], a)
    BY <2>3 DEF Sooner
  <2> QED
    BY <1>1, <1>2, <2>1, <2>4
<1>4. Len(m) = Len(T)
  BY <1>1, <1>2, <1>3
<1> QED
  BY <1>1, <1>4

-----------------------------------------------------------------------------
(* From the author's files to the user's. *)

\* A manifest as PublishedIsUsable wants a published one.
Clean(p) ==
  /\ Wanted(p) \cap {"vr", "rs"} = {"rs"}
  /\ {"script", "filter", "root"} \cap p.pkg = {}
  /\ "relative" \notin p.deps /\ WorkspaceOf(p) = "none"

\* The inductive invariant: what is loaded is what the files hold, for the
\* author as a program's and for the user, again, as a dependency's.
UsableInv ==
  /\ stage \in {"manifest", "graph", "refused", "use", "load"}
  /\ stage \in {"manifest", "graph", "use"} =>
       \E p \in Manifest : p = manifest /\ (stage # "manifest" => Accepted(p, "program"))
  /\ stage \in {"manifest", "graph"} => FilesType
  /\ stage = "use" => reports = {} /\ tree = modules
  /\ stage \in {"manifest", "graph", "use"} /\ reports = {} =>
       \E F, m, a, pos : /\ F = files /\ m = modules /\ a = at /\ Loaded(F, FALSE, m, a, pos)
                         /\ stage = "use" => a[1] > Len(m)
  /\ stage = "load" =>
       /\ reports = {} /\ \E p : p = manifest /\ Clean(p)
       /\ \E F, T, pos, m, a : /\ F = files /\ T = tree /\ m = modules /\ a = at
                               /\ Replays(F, T, pos, m, a)

\* So it is before anything is read.
LEMMA UsableStarts == ASSUME PackagesStart PROVE UsableInv
<1>1. /\ manifest \in Manifest /\ FilesType /\ stage = "manifest"
      /\ modules[1].decls \in Seq(ModuleNames) /\ LoadStart(modules[1].decls)
  BY DEF PackagesStart
<1>2. PICK d \in Seq(ModuleNames) : d = modules[1].decls
  BY <1>1
<1>3. modules = <<Entry(d)>> /\ at = <<1, 1>> /\ reports = {}
  BY <1>1, <1>2 DEF LoadStart
<1>4. PICK F : F = files
  OBVIOUS
<1>5. \E pos : Loaded(F, FALSE, <<Entry(d)>>, <<1, 1>>, pos)
  BY EntryLoaded
<1> QED
  BY <1>1, <1>3, <1>4, <1>5 DEF UsableInv

\* A step of the author's loading keeps what was loaded without a report.
LEMMA AuthorLoads ==
    ASSUME FilesType, NextModule \/ LoadOne(FALSE), reports' = {},
           reports = {} => \E F, m, a, pos : /\ F = files /\ m = modules /\ a = at
                                             /\ Loaded(F, FALSE, m, a, pos)
    PROVE  \E F, m, a, pos : /\ F = files' /\ m = modules' /\ a = at'
                             /\ Loaded(F, FALSE, m, a, pos)
<1>1. reports = {}
  BY FileFound DEF NextModule
<1>2. PICK F, m, a, pos : /\ F = files /\ m = modules /\ a = at /\ Loaded(F, FALSE, m, a, pos)
  BY <1>1
<1>3. PICK i \in Nat, k \in Nat : a = <<i, k>> /\ a[1] = i /\ a[2] = k
  BY <1>2 DEF Loaded, DeclPlace
<1>4. m \in Seq(Module) /\ i >= 1 /\ k >= 1 /\ at = <<i, k>> /\ Loaded(F, FALSE, m, <<i, k>>, pos)
  BY <1>2, <1>3 DEF Loaded
<1>5. CASE NextModule
  <2>1. /\ i <= Len(m) /\ k > Len(m[i].decls)
        /\ at' = <<i + 1, 1>> /\ files' = F /\ modules' = m
    BY <1>2, <1>3, <1>5 DEF NextModule, Loading, Parent
  <2>2. Loaded(F, FALSE, m, <<i + 1, 1>>, pos)
    BY <1>4, <2>1, ModulePassed
  <2> QED
    BY <2>1, <2>2
<1>6. CASE LoadOne(FALSE)
  <2>1. /\ i \in 1 .. Len(m) /\ k \in 1 .. Len(m[i].decls) /\ at' = <<i, k + 1>> /\ files' = F
        /\ \E r \in Module : modules' = Append(m, r) /\ Loads(F, FALSE, m[i], i, k, r)
    BY <1>2, <1>4, <1>6, LoadsOne
  <2>2. PICK r \in Module : modules' = Append(m, r) /\ Loads(F, FALSE, m[i], i, k, r)
    BY <2>1
  <2>3. \E q : Loaded(F, FALSE, Append(m, r), <<i, k + 1>>, q)
    BY <1>4, <2>1, <2>2, OneLoaded
  <2> QED
    BY <2>1, <2>2, <2>3
<1> QED
  BY <1>5, <1>6

\* A step of the user's loading loads the next of the author's modules.
LEMMA UserLoads ==
    ASSUME NEW F, NEW T, NEW pos, NEW m, NEW a, F = files, m = modules, a = at,
           Replays(F, T, pos, m, a), NextModule \/ LoadOne(TRUE)
    PROVE  /\ reports' = reports /\ files' = F
           /\ \E n, b : n = modules' /\ b = at' /\ Replays(F, T, pos, n, b)
<1>1. PICK i \in Nat, k \in Nat : a = <<i, k>> /\ a[1] = i /\ a[2] = k
  BY DEF Replays, DeclPlace
<1>2. m \in Seq(Module) /\ at = <<i, k>> /\ Replays(F, T, pos, m, <<i, k>>)
  BY <1>1 DEF Replays
<1>3. CASE NextModule
  <2>1. /\ i <= Len(m) /\ k > Len(m[i].decls) /\ reports' = reports
        /\ at' = <<i + 1, 1>> /\ files' = F /\ modules' = m
    BY <1>1, <1>3 DEF NextModule, Loading, Parent
  <2>2. Replays(F, T, pos, m, <<i + 1, 1>>)
    BY <1>2, <2>1, ReplayPasses
  <2> QED
    BY <2>1, <2>2
<1>4. CASE LoadOne(TRUE)
  <2>1. i <= Len(m) /\ k <= Len(m[i].decls)
    BY <1>1, <1>4 DEF LoadOne, Loading, Parent
  <2>2. PICK r \in Module : /\ Loads(F, TRUE, m[i], i, k, r)
                            /\ Replays(F, T, pos, Append(m, r), <<i, k + 1>>)
    BY <1>2, <2>1, ReplayGoesOn
  <2>3. /\ at' = <<i, k + 1>> /\ files' = F /\ modules' = Append(m, r) /\ reports' = reports
    BY <1>2, <1>4, <2>2, LoadsSame
  <2> QED
    BY <2>2, <2>3
<1> QED
  BY <1>3, <1>4

\* Every command keeps it.
LEMMA UsableKept == ASSUME UsableInv, [PackagesNext]_pvars PROVE UsableInv'
<1>1. CASE UNCHANGED pvars
  <2>1. /\ stage' = stage /\ manifest' = manifest /\ files' = files /\ modules' = modules
        /\ at' = at /\ reports' = reports /\ tree' = tree
    BY <1>1 DEF pvars, mvars
  <2> QED
    BY <2>1 DEF UsableInv, FilesType
<1>2. CASE ReadManifest
  <2>1. /\ stage = "manifest" /\ manifest' = manifest /\ files' = files /\ modules' = modules
        /\ at' = at /\ reports' = reports /\ tree' = tree
    BY <1>2 DEF ReadManifest, IdleElse, Same, TreeSame, mvars
  <2>2. PICK p \in Manifest : p = manifest
    BY <2>1 DEF UsableInv
  <2>3. stage' = "refused" \/ (stage' = "graph" /\ Accepted(p, "program"))
    BY <1>2, <2>2 DEF ReadManifest, IdleElse
  <2> QED
    BY <2>1, <2>2, <2>3 DEF UsableInv, FilesType
<1>3. CASE ReadGraph
  <2>1. /\ stage = "graph" /\ manifest' = manifest /\ files' = files /\ modules' = modules
        /\ at' = at /\ reports' = reports /\ tree' = tree /\ stage' \in {"graph", "refused"}
    BY <1>3 DEF ReadGraph, IdleElse, Same, TreeSame, mvars
  <2> QED
    BY <2>1 DEF UsableInv, FilesType
<1>4. CASE Load
  <2>1. /\ stage = "graph" /\ stage' = "graph" /\ manifest' = manifest /\ tree' = tree
        /\ files' = files /\ (NextModule \/ LoadOne(FALSE))
    BY <1>4 DEF Load, IdleElse, Same, NextModule, LoadOne
  <2>2. /\ FilesType
        /\ reports = {} => \E F, m, a, pos : /\ F = files /\ m = modules /\ a = at
                                             /\ Loaded(F, FALSE, m, a, pos)
    BY <2>1 DEF UsableInv
  <2>3. ASSUME reports' = {}
        PROVE  \E F, m, a, pos : /\ F = files' /\ m = modules' /\ a = at'
                                 /\ Loaded(F, FALSE, m, a, pos)
    BY <2>1, <2>2, <2>3, AuthorLoads
  <2> QED
    BY <2>1, <2>2, <2>3 DEF UsableInv, FilesType
<1>5. CASE Publish
  <2>1. /\ stage = "graph" /\ manifest' = manifest /\ files' = files /\ modules' = modules
        /\ at' = at /\ reports' = reports /\ ~Loading
        /\ stage' = "refused" \/ (stage' = "use" /\ reports = {} /\ tree' = modules)
    BY <1>5 DEF Publish, IdleElse, Same, TreeSame, mvars
  <2>2. PICK p \in Manifest : p = manifest /\ Accepted(p, "program")
    BY <2>1 DEF UsableInv
  <2>3. ASSUME reports = {}
        PROVE  \E F, m, a, pos : /\ F = files /\ m = modules /\ a = at
                                 /\ Loaded(F, FALSE, m, a, pos) /\ a[1] > Len(m)
    <3>1. PICK F, m, a, pos : F = files /\ m = modules /\ a = at /\ Loaded(F, FALSE, m, a, pos)
      BY <2>1, <2>3 DEF UsableInv
    <3>2. m \in Seq(Module) /\ a[1] \in Nat
      BY <3>1 DEF Loaded, DeclPlace
    <3>3. a[1] > Len(m)
      BY <2>1, <3>1, <3>2 DEF Loading
    <3> QED
      BY <3>1, <3>3
  <2> QED
    BY <2>1, <2>2, <2>3 DEF UsableInv
<1>6. CASE Use
  <2>1. PICK p \in Manifest : p = manifest /\ Accepted(p, "program") /\ KindOf(p) = "lib"
    BY <1>6 DEF Use, UsableInv
  <2>2. PICK u : u = Published(p)
    OBVIOUS
  <2>3. Accepted(u, "dependency") /\ Clean(u)
    BY <2>1, <2>2, PublishedManifest DEF Clean
  <2>4. /\ stage = "use" /\ stage' = "load" /\ manifest' = u /\ reports' = reports /\ tree' = tree
        /\ files' = Assembled /\ modules' = <<Entry(modules[1].decls)>> /\ at' = <<1, 1>>
    BY <1>6, <2>1, <2>2, <2>3 DEF Use
  <2>5. reports = {} /\ tree = modules
    BY <2>4 DEF UsableInv
  <2>6. PICK F, m, a, pos : /\ F = files /\ m = modules /\ a = at
                            /\ Loaded(F, FALSE, m, a, pos) /\ a[1] > Len(m)
    BY <2>4, <2>5 DEF UsableInv
  <2>7. PICK A : A = Assembles(F, m)
    OBVIOUS
  <2>8. files' = A
    BY <2>4, <2>6, <2>7 DEF Assembled, Assembles, Written, WrittenAt
  <2>9. Loaded(A, TRUE, m, <<Len(m) + 1, 1>>, pos)
    BY <2>6, <2>7, LoadedAgain
  <2>10. Replays(A, m, pos, <<Entry(m[1].decls)>>, <<1, 1>>)
    BY <2>9, ReplayStarts
  <2> QED
    BY <2>3, <2>4, <2>5, <2>6, <2>8, <2>10 DEF UsableInv
<1>7. CASE LoadUsed
  <2>1. /\ stage = "load" /\ stage' = "load" /\ manifest' = manifest /\ tree' = tree
        /\ (NextModule \/ LoadOne(TRUE))
    BY <1>7 DEF LoadUsed, IdleElse, Same
  <2>2. reports = {} /\ \E p : p = manifest /\ Clean(p)
    BY <2>1 DEF UsableInv
  <2>3. PICK F, T, pos, m, a : /\ F = files /\ T = tree /\ m = modules /\ a = at
                               /\ Replays(F, T, pos, m, a)
    BY <2>1 DEF UsableInv
  <2>4. /\ reports' = reports /\ files' = F
        /\ \E n, b : n = modules' /\ b = at' /\ Replays(F, T, pos, n, b)
    BY <2>1, <2>3, UserLoads
  <2> QED
    BY <2>1, <2>2, <2>3, <2>4 DEF UsableInv
<1> QED
  BY <1>1, <1>2, <1>3, <1>4, <1>5, <1>6, <1>7 DEF PackagesNext

\* Whatever library is published, from whatever files, can be used: cargo's
\* manifest of it is accepted, and the same modules are loaded from what was
\* assembled, with nothing to report.
THEOREM PublishedCanBeUsed == PackagesSpec => []PublishedIsUsable
<1>1. PackagesStart => UsableInv
  BY UsableStarts
<1>2. UsableInv /\ [PackagesNext]_pvars => UsableInv'
  BY UsableKept
<1>3. UsableInv => PublishedIsUsable
  <2> SUFFICES ASSUME UsableInv PROVE PublishedIsUsable
    OBVIOUS
  <2>1. ASSUME stage = "load", ~Loading PROVE modules = tree
    <3>1. PICK T, pos, m, a, F : T = tree /\ m = modules /\ a = at /\ Replays(F, T, pos, m, a)
      BY <2>1 DEF UsableInv
    <3>2. m \in Seq(Module) /\ a[1] \in Nat
      BY <3>1 DEF Replays, DeclPlace
    <3>3. a[1] > Len(m)
      BY <2>1, <3>1, <3>2 DEF Loading
    <3> QED
      BY <3>1, <3>3, ReplayEnds
  <2> QED
    BY <2>1 DEF UsableInv, PublishedIsUsable, Clean
<1> QED
  BY <1>1, <1>2, <1>3, PTL DEF PackagesSpec
=============================================================================
