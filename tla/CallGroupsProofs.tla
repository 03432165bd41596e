--------------------------- MODULE CallGroupsProofs ---------------------------
(***************************************************************************)
(* Functions that wait on themselves, in any program: the groups are those *)
(* of mutual reachability, and each cycle is reported once, the shortest.  *)
(***************************************************************************)
EXTENDS CallGroups, FiniteSetTheorems, WellFoundedInduction, TLAPS

(* The program: a function calls declared functions. *)
CallsOK == graph \in Seq(Seq(Nodes))

(* Sets of numbers have a least one; sequences are made and cut. *)
LEMMA HasLeast ==
  ASSUME NEW S \in SUBSET Nat, S # {} PROVE \E n \in S : \A m \in S : n <= m
<1>1. PICK R : R = {ss \in Nat \X Nat : ss[1] < ss[2]}
  OBVIOUS
<1>2. IsWellFoundedOn(R, Nat)
  <2>1. IsWellFoundedOn({ss \in Nat \X Nat : ss[1] < ss[2]}, Nat)
    BY NatLessThanWellFounded DEF OpToRel
  <2> QED BY <1>1, <2>1
<1>3. PICK x \in S : \A y \in S : <<y, x>> \notin R
  BY <1>2, WFMin
<1>4. \A y \in S : ~(y < x)
  BY <1>1, <1>3
<1>5. \A y \in S : x <= y
  BY <1>4
<1> QED BY <1>5

LEMMA TheLeast ==
  ASSUME NEW S \in SUBSET Nat, S # {} PROVE LeastOf(S) \in S
<1>1. \E n \in S : \A m \in S : n <= m
  BY HasLeast
<1> QED BY <1>1 DEF LeastOf

LEMMA ElementOf ==
  ASSUME NEW S, NEW s, s \in Seq(S), NEW i, i \in DOMAIN s PROVE s[i] \in S
OBVIOUS

LEMMA Indices ==
  ASSUME NEW S, NEW s, s \in Seq(S)
  PROVE  Len(s) \in Nat /\ DOMAIN s = 1 .. Len(s) /\ (s # <<>> => Len(s) # 0 /\ Len(s) \in DOMAIN s /\ 1 \in DOMAIN s)
OBVIOUS

LEMMA FromElements ==
  ASSUME NEW S, NEW N \in Nat, NEW z, z \in [1 .. N -> S]
  PROVE  z \in Seq(S) /\ Len(z) = N
OBVIOUS

LEMMA Pushed ==
  ASSUME NEW S, NEW s, s \in Seq(S), NEW e, e \in S, NEW z, z = Append(s, e)
  PROVE  /\ z \in Seq(S) /\ Len(z) = Len(s) + 1 /\ z[Len(z)] = e
         /\ DOMAIN z = 1 .. Len(s) + 1 /\ DOMAIN s = 1 .. Len(s) /\ Len(s) \in Nat
         /\ \A i \in DOMAIN s : z[i] = s[i]
OBVIOUS

Pop(z, s) == z = SubSeq(s, 1, Len(s) - 1)
CutAt(s, k, z, y) == k \in 1 .. Len(s) /\ z = SubSeq(s, 1, k - 1) /\ y = SubSeq(s, k, Len(s))

LEMMA Popped ==
  ASSUME NEW S, NEW s, s \in Seq(S), s # <<>>, NEW z, Pop(z, s)
  PROVE  /\ z \in Seq(S) /\ Len(z) = Len(s) - 1 /\ DOMAIN z = 1 .. Len(s) - 1
         /\ \A i \in 1 .. Len(s) - 1 : z[i] = s[i]
<1>1. Len(s) \in Nat /\ Len(s) > 0 /\ DOMAIN s = 1 .. Len(s)
  OBVIOUS
<1> QED BY <1>1 DEF Pop

Parts(S, s, k, z, y) ==
  /\ z \in Seq(S) /\ DOMAIN z = 1 .. k - 1 /\ \A i \in 1 .. k - 1 : z[i] = s[i]
  /\ DOMAIN y = 1 .. Len(s) - k + 1 /\ \A i \in 1 .. Len(s) - k + 1 : y[i] = s[i + k - 1]

LEMMA Cut ==
  ASSUME NEW S, NEW s, s \in Seq(S), NEW k, NEW z, NEW y, CutAt(s, k, z, y)
  PROVE  Parts(S, s, k, z, y)
BY DEF CutAt, Parts
-----------------------------------------------------------------------------
LEMMA TheNodes ==
  ASSUME CallsOK
  PROVE  /\ Len(graph) \in Nat /\ Nodes = 1 .. Len(graph) /\ IsFiniteSet(Nodes)
         /\ \A n \in Nodes : /\ graph[n] \in Seq(Nodes) /\ Len(graph[n]) \in Nat
                             /\ DOMAIN graph[n] = 1 .. Len(graph[n])
                             /\ Calls(n) = {graph[n][i] : i \in DOMAIN graph[n]} /\ Calls(n) \subseteq Nodes
<1>1. Len(graph) \in Nat /\ Nodes = 1 .. Len(graph)
  BY DEF CallsOK, Nodes
<1>2. IsFiniteSet(1 .. Len(graph))
  <2>1. 1 \in Int /\ Len(graph) \in Int
    BY <1>1
  <2> QED BY <2>1, FS_Interval
<1>3. ASSUME NEW n \in Nodes
      PROVE  /\ graph[n] \in Seq(Nodes) /\ Len(graph[n]) \in Nat /\ DOMAIN graph[n] = 1 .. Len(graph[n])
             /\ Calls(n) = {graph[n][i] : i \in DOMAIN graph[n]} /\ Calls(n) \subseteq Nodes
  <2>1. graph[n] \in Seq(Nodes)
    BY <1>3, ElementOf DEF CallsOK, Nodes
  <2>2. \A i \in DOMAIN graph[n] : graph[n][i] \in Nodes
    BY <2>1, ElementOf
  <2>3. Calls(n) = {graph[n][i] : i \in DOMAIN graph[n]}
    BY DEF Calls, SeqExt!ToSet
  <2>4. Len(graph[n]) \in Nat /\ DOMAIN graph[n] = 1 .. Len(graph[n])
    BY <2>1
  <2> QED BY <2>1, <2>2, <2>3, <2>4
<1> QED BY <1>1, <1>2, <1>3

(* A set of functions that holds what its functions call. *)
Closed(W) == W \in SUBSET Nodes /\ \A k \in W : Calls(k) \subseteq W

(* What a function reaches is the least such set with what it calls.       *)
LEMMA ReachedLeast ==
  ASSUME CallsOK, NEW n \in Nodes
  PROVE  /\ Calls(n) \subseteq Reached(n) /\ Closed(Reached(n)) /\ Reached(n) \subseteq Nodes
         /\ \A W : Closed(W) /\ Calls(n) \subseteq W => Reached(n) \subseteq W
<1>1. \A m \in Nodes : Calls(m) \subseteq Nodes
  BY TheNodes
<1>2. Calls(n) \subseteq Reached(n) /\ Reached(n) \subseteq Nodes
  BY <1>1 DEF Reached
<1>3. \A W : Closed(W) /\ Calls(n) \subseteq W => Reached(n) \subseteq W
  BY DEF Reached, Closed
<1>4. ASSUME NEW m \in Reached(n) PROVE Calls(m) \subseteq Reached(n)
  <2>1. ASSUME NEW W \in SUBSET Nodes, Calls(n) \subseteq W, \A k \in W : Calls(k) \subseteq W
        PROVE  Calls(m) \subseteq W
    <3>1. m \in W
      BY <1>3, <2>1 DEF Closed
    <3> QED BY <2>1, <3>1
  <2>2. Calls(m) \subseteq Nodes
    BY <1>1, <1>2
  <2>3. \A x \in Calls(m) : x \in Nodes /\ \A W \in SUBSET Nodes :
          Calls(n) \subseteq W /\ (\A k \in W : Calls(k) \subseteq W) => x \in W
    BY <2>1, <2>2
  <2> QED BY <2>3 DEF Reached
<1> QED BY <1>2, <1>3, <1>4 DEF Closed

LEMMA ReachedCarries ==
  ASSUME CallsOK, NEW a \in Nodes, NEW b \in Reached(a)
  PROVE  b \in Nodes /\ Reached(b) \subseteq Reached(a)
<1>1. Closed(Reached(a)) /\ b \in Nodes
  BY ReachedLeast
<1>2. Calls(b) \subseteq Reached(a)
  BY <1>1 DEF Closed
<1> QED BY <1>1, <1>2, ReachedLeast

(* a is b, or reaches it. *)
Leads(a, b) == a = b \/ b \in Reached(a)

LEMMA LeadsOn ==
  ASSUME CallsOK, NEW a \in Nodes, NEW b, NEW c, Leads(a, b), Leads(b, c)
  PROVE  b \in Nodes /\ c \in Nodes /\ Leads(a, c)
<1>1. b \in Nodes
  BY ReachedLeast DEF Leads
<1>2. c \in Nodes
  BY <1>1, ReachedLeast DEF Leads
<1>3. Leads(a, c)
  BY ReachedCarries DEF Leads
<1> QED BY <1>1, <1>2, <1>3
-----------------------------------------------------------------------------
(* The walk of `components`.  Of the functions entered, O are in no group. *)
In(s) == {s[i] : i \in DOMAIN s}
Gathered(gs) == UNION {gs[i] : i \in DOMAIN gs}
Seen(ix) == {m \in Nodes : ix[m] # 0}

(* Functions are numbered as they are entered. *)
NumbersOK(ix, lw) ==
  /\ ix \in [Nodes -> Nat] /\ lw \in [Nodes -> Nat]
  /\ \A m, n \in Nodes : ix[m] = ix[n] /\ ix[m] # 0 => m = n
  /\ \A m \in Nodes : ix[m] <= Cardinality(Seen(ix))

OpenOK(ix, op, gs) ==
  /\ op \in Seq(Nodes)
  /\ \A i, j \in DOMAIN op : i < j => ix[op[i]] < ix[op[j]]
  /\ \A n \in Nodes : ix[n] # 0 <=> n \in In(op) \cup Gathered(gs)
  /\ In(op) \cap Gathered(gs) = {}

(* Each visit is of the callee its caller's visit is at. *)
FramesOK(ix, O, vs) ==
  /\ vs \in Seq([fn : Nodes, edge : Nat])
  /\ \A k \in DOMAIN vs : vs[k].fn \in O /\ vs[k].edge \in 1 .. Len(graph[vs[k].fn]) + 1
  /\ \A i, j \in DOMAIN vs : i < j => ix[vs[i].fn] < ix[vs[j].fn]
  /\ \A i, j \in DOMAIN vs : j = i + 1 =>
       vs[i].edge \in DOMAIN graph[vs[i].fn] /\ graph[vs[i].fn][vs[i].edge] = vs[j].fn

(* The callees of n that have been looked at. *)
Passed(vs, n) == {graph[n][e] : e \in {a \in DOMAIN graph[n] :
  \A k \in DOMAIN vs : vs[k].fn = n => a < vs[k].edge}}

(* What is open reaches what was entered after it, and one being visited   *)
(* that was entered before it; a low is the number of an open function     *)
(* that is reached.                                                        *)
ReachOK(ix, lw, O, vs) ==
  /\ \A x, y \in O : ix[x] <= ix[y] => Leads(x, y)
  /\ \A y \in O : \E k \in DOMAIN vs : ix[vs[k].fn] <= ix[y] /\ Leads(y, vs[k].fn)
  /\ \A k \in DOMAIN vs :
       lw[vs[k].fn] <= ix[vs[k].fn] /\ \E z \in O : ix[z] = lw[vs[k].fn] /\ Leads(vs[k].fn, z)

(* The low of a visit is below every open callee that it, or a function    *)
(* entered since and before the next visit, has looked at.                 *)
Holds(ix, vs, k, y) == ix[vs[k].fn] <= ix[y] /\ \A j \in DOMAIN vs : j > k => ix[y] < ix[vs[j].fn]
LowOK(ix, lw, O, vs) ==
  /\ \A n \in Nodes : ix[n] # 0 => \A c \in Passed(vs, n) : ix[c] # 0
  /\ \A k \in DOMAIN vs : \A y \in O : Holds(ix, vs, k, y) =>
       \A c \in Passed(vs, y) : c \in O => lw[vs[k].fn] <= ix[c]

GroupsOK(gs) == \A i \in DOMAIN gs :
  /\ gs[i] \in SUBSET Nodes /\ gs[i] # {}
  /\ \A j \in DOMAIN gs : j # i => gs[i] \cap gs[j] = {}
  /\ \A n \in gs[i] :
       /\ gs[i] = {n} \cup {m \in Reached(n) : n \in Reached(m)}
       /\ Reached(n) \subseteq UNION {gs[j] : j \in 1 .. i}

WalkOK(ix, lw, op, vs, gs) ==
  /\ NumbersOK(ix, lw) /\ OpenOK(ix, op, gs) /\ FramesOK(ix, In(op), vs)
  /\ ReachOK(ix, lw, In(op), vs) /\ LowOK(ix, lw, In(op), vs)
  /\ gs \in Seq(SUBSET Nodes) /\ GroupsOK(gs)
-----------------------------------------------------------------------------
(* A function is entered: the first, or the callee the last visit is at. *)
Entering(vs, c) == vs = <<>> \/
  LET last == vs[Len(vs)]
  IN  last.edge \in DOMAIN graph[last.fn] /\ graph[last.fn][last.edge] = c

Put(jx, ix, c, v) == jx = [ix EXCEPT ![c] = v]
PushOpen(z, op, c) == z = Append(op, c)
Push(z, vs, c) == z = Append(vs, [fn |-> c, edge |-> 1])
Numbered(ix, jx, c, next) ==
  /\ next \in Nat /\ next # 0
  /\ \A m \in Nodes : ix[m] < next /\ jx[m] = IF m = c THEN next ELSE ix[m]
Lowered(lw, mw, c, v) == \A m \in Nodes : mw[m] = IF m = c THEN v ELSE lw[m]

LEMMA InPushed ==
  ASSUME NEW S, NEW s, s \in Seq(S), NEW e, e \in S, NEW z, z = Append(s, e)
  PROVE  In(z) = In(s) \cup {e}
<1>1. PICK N \in Nat : N = Len(s)
  BY Indices
<1>2. DOMAIN z = 1 .. N + 1 /\ DOMAIN s = 1 .. N /\ z[N + 1] = e /\ \A i \in 1 .. N : z[i] = s[i]
  BY <1>1, Pushed
<1>3. N + 1 \in 1 .. N + 1 /\ (\A i \in 1 .. N : i \in 1 .. N + 1) /\ \A i \in 1 .. N + 1 : i = N + 1 \/ i \in 1 .. N
  OBVIOUS
<1> QED BY <1>2, <1>3 DEF In

LEMMA NumbersEntered ==
  ASSUME CallsOK, NEW ix, NEW lw, NumbersOK(ix, lw), NEW c \in Nodes, ix[c] = 0,
         NEW next, next = 1 + Cardinality(Seen(ix)),
         NEW jx, Put(jx, ix, c, next), NEW mw, Put(mw, lw, c, next)
  PROVE  NumbersOK(jx, mw) /\ Numbered(ix, jx, c, next) /\ Lowered(lw, mw, c, next)
<1>1. ix \in [Nodes -> Nat] /\ lw \in [Nodes -> Nat]
  BY DEF NumbersOK
<1>2. IsFiniteSet(Seen(ix)) /\ Cardinality(Seen(ix)) \in Nat
  <2>1. IsFiniteSet(Nodes) /\ Seen(ix) \in SUBSET Nodes
    BY TheNodes DEF Seen
  <2>2. IsFiniteSet(Seen(ix))
    BY <2>1, FS_Subset
  <2> QED BY <2>2, FS_CardinalityType
<1>3. next \in Nat /\ next # 0 /\ \A m \in Nodes : ix[m] < next
  BY <1>1, <1>2 DEF NumbersOK
<1>4. \A m \in Nodes : jx[m] = (IF m = c THEN next ELSE ix[m]) /\ mw[m] = (IF m = c THEN next ELSE lw[m])
  BY <1>1 DEF Put
<1>5. Seen(jx) = Seen(ix) \cup {c} /\ c \notin Seen(ix)
  BY <1>3, <1>4 DEF Seen
<1>6. Cardinality(Seen(jx)) = next
  <2>1. Cardinality(Seen(ix) \cup {c}) = Cardinality(Seen(ix)) + 1
    BY <1>2, <1>5, FS_AddElement
  <2>2. Cardinality(Seen(jx)) = Cardinality(Seen(ix)) + 1
    BY <1>5, <2>1
  <2> QED BY <1>2, <2>2
<1>7. jx \in [Nodes -> Nat] /\ mw \in [Nodes -> Nat]
  BY <1>1, <1>3 DEF Put
<1>8. \A m, n \in Nodes : jx[m] = jx[n] /\ jx[m] # 0 => m = n
  <2>1. \A m, n \in Nodes : ix[m] = ix[n] /\ ix[m] # 0 => m = n
    BY DEF NumbersOK
  <2>2. \A m \in Nodes : ix[m] # next
    BY <1>1, <1>3
  <2> QED BY <1>4, <2>1, <2>2
<1>9. \A m \in Nodes : jx[m] <= next
  BY <1>1, <1>3, <1>4
<1> QED BY <1>3, <1>4, <1>6, <1>7, <1>8, <1>9 DEF NumbersOK, Numbered, Lowered

LEMMA OpenEntered ==
  ASSUME NEW ix, NEW op, NEW gs, OpenOK(ix, op, gs), NEW c \in Nodes, ix[c] = 0,
         NEW next, NEW jx, Numbered(ix, jx, c, next), NEW z, PushOpen(z, op, c)
  PROVE  OpenOK(jx, z, gs) /\ In(z) = In(op) \cup {c} /\ c \notin In(op)
<1> USE DEF Numbered, PushOpen
<1>1. op \in Seq(Nodes)
  BY DEF OpenOK
<1>2. PICK N \in Nat : N = Len(op)
  BY <1>1, Indices
<1>3. /\ z \in Seq(Nodes) /\ DOMAIN z = 1 .. N + 1 /\ DOMAIN op = 1 .. N
      /\ z[N + 1] = c /\ \A i \in 1 .. N : z[i] = op[i]
  BY <1>1, <1>2, Pushed
<1>4. In(z) = In(op) \cup {c}
  BY <1>1, InPushed
<1>5. c \notin In(op) /\ c \notin Gathered(gs)
  BY DEF OpenOK
<1>6. \A i \in 1 .. N : op[i] \in Nodes /\ op[i] # c
  BY <1>1, <1>3, <1>5, ElementOf DEF In
<1>7. \A i, j \in DOMAIN z : i < j => jx[z[i]] < jx[z[j]]
  <2> SUFFICES ASSUME NEW i \in 1 .. N + 1, NEW j \in 1 .. N + 1, i < j PROVE jx[z[i]] < jx[z[j]]
    BY <1>3
  <2>1. i \in 1 .. N /\ (j = N + 1 \/ j \in 1 .. N)
    OBVIOUS
  <2>2. CASE j = N + 1
    BY <1>3, <1>6, <2>1, <2>2
  <2>3. CASE j \in 1 .. N
    <3>1. ix[op[i]] < ix[op[j]]
      BY <1>3, <2>1, <2>3 DEF OpenOK
    <3> QED BY <1>3, <1>6, <2>1, <2>3, <3>1
  <2> QED BY <2>1, <2>2, <2>3
<1>8. \A n \in Nodes : jx[n] # 0 <=> n \in In(z) \cup Gathered(gs)
  BY <1>4 DEF OpenOK
<1>9. In(z) \cap Gathered(gs) = {}
  BY <1>4, <1>5 DEF OpenOK
<1> QED BY <1>3, <1>4, <1>5, <1>7, <1>8, <1>9 DEF OpenOK

(* All that is open reaches the last visit. *)
LEMMA AllReachTop ==
  ASSUME CallsOK, NEW ix, NEW lw, NumbersOK(ix, lw), NEW O \in SUBSET Nodes, NEW vs,
         FramesOK(ix, O, vs), ReachOK(ix, lw, O, vs), NEW x \in O
  PROVE  /\ vs # <<>> /\ Len(vs) \in DOMAIN vs
         /\ Leads(x, vs[Len(vs)].fn)
<1>1. vs \in Seq([fn : Nodes, edge : Nat])
  BY DEF FramesOK
<1>2. PICK k \in DOMAIN vs : ix[vs[k].fn] <= ix[x] /\ Leads(x, vs[k].fn)
  BY DEF ReachOK
<1>3. PICK N \in Nat : N = Len(vs) /\ DOMAIN vs = 1 .. N
  BY <1>1, Indices
<1>4. N \in 1 .. N /\ k \in 1 .. N /\ (k = N \/ k < N)
  BY <1>2, <1>3
<1>5. k < N => ix[vs[k].fn] < ix[vs[N].fn]
  BY <1>3, <1>4 DEF FramesOK
<1>6. vs[k].fn \in O /\ vs[N].fn \in O
  BY <1>3, <1>4 DEF FramesOK
<1>7. ix[vs[k].fn] <= ix[vs[N].fn]
  <2>1. ix[vs[k].fn] \in Nat /\ ix[vs[N].fn] \in Nat
    BY <1>6 DEF NumbersOK
  <2> QED BY <1>4, <1>5, <2>1
<1>8. Leads(vs[k].fn, vs[N].fn)
  BY <1>6, <1>7 DEF ReachOK
<1>9. Leads(x, vs[N].fn)
  BY <1>2, <1>8, LeadsOn
<1> QED BY <1>3, <1>4, <1>9

Grown(vs, z, O, c) ==
  /\ Len(z) = Len(vs) + 1 /\ Len(vs) \in Nat
  /\ DOMAIN z = 1 .. Len(vs) + 1 /\ DOMAIN vs = 1 .. Len(vs)
  /\ z[Len(vs) + 1].fn = c /\ z[Len(vs) + 1].edge = 1 /\ \A i \in DOMAIN vs : z[i] = vs[i]
  /\ Passed(z, c) = {} /\ \A n \in Nodes : n # c => Passed(z, n) = Passed(vs, n)
  /\ \A i \in DOMAIN vs : vs[i].fn \in O /\ vs[i].fn \in Nodes /\ vs[i].fn # c

LEMMA FramesEntered ==
  ASSUME CallsOK, NEW ix, NEW O \in SUBSET Nodes, NEW vs, FramesOK(ix, O, vs), NEW c \in Nodes, c \notin O,
         NEW next, NEW jx, Numbered(ix, jx, c, next), Entering(vs, c), NEW z, Push(z, vs, c)
  PROVE  FramesOK(jx, O \cup {c}, z) /\ Grown(vs, z, O, c)
<1> USE DEF Numbered, Push
<1>1. vs \in Seq([fn : Nodes, edge : Nat]) /\ [fn |-> c, edge |-> 1] \in [fn : Nodes, edge : Nat]
  BY DEF FramesOK
<1>2. PICK N \in Nat : N = Len(vs)
  BY <1>1, Indices
<1>3. /\ z \in Seq([fn : Nodes, edge : Nat]) /\ DOMAIN z = 1 .. N + 1 /\ DOMAIN vs = 1 .. N /\ Len(z) = N + 1
      /\ z[N + 1] = [fn |-> c, edge |-> 1] /\ \A i \in 1 .. N : z[i] = vs[i]
  BY <1>1, <1>2, Pushed
<1>4. z[N + 1].fn = c /\ z[N + 1].edge = 1
  BY <1>3
<1>5. \A i \in 1 .. N : vs[i].fn \in O /\ vs[i].fn \in Nodes /\ vs[i].fn # c
  BY <1>3 DEF FramesOK
<1>6. \A i \in 1 .. N + 1 : i = N + 1 \/ i \in 1 .. N
  OBVIOUS
<1>7. \A i \in DOMAIN z : z[i].fn \in O \cup {c} /\ z[i].edge \in 1 .. Len(graph[z[i].fn]) + 1
  <2>1. \A i \in 1 .. N : vs[i].edge \in 1 .. Len(graph[vs[i].fn]) + 1
    BY <1>3 DEF FramesOK
  <2>2. 1 \in 1 .. Len(graph[c]) + 1
    <3>1. Len(graph[c]) \in Nat
      BY TheNodes
    <3> QED BY <3>1
  <2> QED BY <1>3, <1>4, <1>5, <1>6, <2>1, <2>2
<1>8. \A i, j \in DOMAIN z : i < j => jx[z[i].fn] < jx[z[j].fn]
  <2> SUFFICES ASSUME NEW i \in 1 .. N + 1, NEW j \in 1 .. N + 1, i < j PROVE jx[z[i].fn] < jx[z[j].fn]
    BY <1>3
  <2>1. i \in 1 .. N /\ (j = N + 1 \/ j \in 1 .. N)
    OBVIOUS
  <2>2. CASE j = N + 1
    BY <1>3, <1>4, <1>5, <2>1, <2>2
  <2>3. CASE j \in 1 .. N
    <3>1. ix[vs[i].fn] < ix[vs[j].fn]
      BY <1>3, <2>1, <2>3 DEF FramesOK
    <3> QED BY <1>3, <1>5, <2>1, <2>3, <3>1
  <2> QED BY <2>1, <2>2, <2>3
<1>9. \A i, j \in DOMAIN z : j = i + 1 =>
        z[i].edge \in DOMAIN graph[z[i].fn] /\ graph[z[i].fn][z[i].edge] = z[j].fn
  <2> SUFFICES ASSUME NEW i \in 1 .. N + 1, NEW j \in 1 .. N + 1, j = i + 1
               PROVE  z[i].edge \in DOMAIN graph[z[i].fn] /\ graph[z[i].fn][z[i].edge] = z[j].fn
    BY <1>3
  <2>1. i \in 1 .. N /\ (j = N + 1 \/ j \in 1 .. N) /\ (j = N + 1 => i = N /\ N # 0)
    OBVIOUS
  <2>2. CASE j = N + 1
    <3>1. vs # <<>>
      BY <1>2, <2>1, <2>2
    <3>2. vs[N].edge \in DOMAIN graph[vs[N].fn] /\ graph[vs[N].fn][vs[N].edge] = c
      BY <1>2, <3>1 DEF Entering
    <3> QED BY <1>3, <1>4, <2>1, <2>2, <3>2
  <2>3. CASE j \in 1 .. N
    <3>1. vs[i].edge \in DOMAIN graph[vs[i].fn] /\ graph[vs[i].fn][vs[i].edge] = vs[j].fn
      BY <1>3, <2>1, <2>3 DEF FramesOK
    <3> QED BY <1>3, <2>1, <2>3, <3>1
  <2> QED BY <2>1, <2>2, <2>3
<1>10. FramesOK(jx, O \cup {c}, z)
  BY <1>3, <1>7, <1>8, <1>9 DEF FramesOK
<1>11. Passed(z, c) = {}
  <2>1. N + 1 \in DOMAIN z
    BY <1>3
  <2>2. \A a \in DOMAIN graph[c] : ~(a < 1)
    BY TheNodes
  <2> QED BY <1>4, <2>1, <2>2 DEF Passed
<1>12. ASSUME NEW n \in Nodes, n # c PROVE Passed(z, n) = Passed(vs, n)
  <2>1. ASSUME NEW a
        PROVE  (\A k \in DOMAIN z : z[k].fn = n => a < z[k].edge)
                 <=> (\A k \in DOMAIN vs : vs[k].fn = n => a < vs[k].edge)
    <3>1. N + 1 \in DOMAIN z /\ \A k \in 1 .. N : k \in DOMAIN z
      BY <1>3
    <3> QED BY <1>3, <1>4, <1>6, <1>12, <3>1
  <2> QED BY <2>1 DEF Passed
<1> QED BY <1>2, <1>3, <1>4, <1>5, <1>10, <1>11, <1>12 DEF Grown

LEMMA ReachEntered ==
  ASSUME CallsOK, NEW ix, NEW lw, NumbersOK(ix, lw), NEW O \in SUBSET Nodes, NEW vs,
         FramesOK(ix, O, vs), ReachOK(ix, lw, O, vs), NEW c \in Nodes, c \notin O,
         NEW next, NEW jx, Numbered(ix, jx, c, next), NEW mw, Lowered(lw, mw, c, next),
         Entering(vs, c), NEW z, Push(z, vs, c)
  PROVE  ReachOK(jx, mw, O \cup {c}, z)
<1>1. PICK N : N = Len(vs)
  OBVIOUS
<1>2. /\ N \in Nat /\ DOMAIN z = 1 .. N + 1 /\ DOMAIN vs = 1 .. N
      /\ z[N + 1].fn = c /\ \A i \in DOMAIN vs : z[i] = vs[i]
      /\ \A i \in DOMAIN vs : vs[i].fn \in O /\ vs[i].fn \in Nodes /\ vs[i].fn # c
  <2>1. Grown(vs, z, O, c)
    BY FramesEntered
  <2> QED BY <1>1, <2>1 DEF Grown
<1> USE DEF Numbered, Lowered
<1>3. \A i \in 1 .. N + 1 : i = N + 1 \/ i \in 1 .. N
  BY <1>2
<1>4. \A m \in O : m \in Nodes /\ m # c /\ jx[m] = ix[m] /\ mw[m] = lw[m] /\ ix[m] \in Nat /\ ix[m] < next
  BY DEF NumbersOK
<1>5. jx[c] = next /\ mw[c] = next
  OBVIOUS
<1>6. ASSUME NEW x \in O PROVE Leads(x, c)
  <2>1. vs # <<>> /\ N \in DOMAIN vs /\ Leads(x, vs[N].fn)
    BY <1>1, AllReachTop
  <2>2. vs[N].edge \in DOMAIN graph[vs[N].fn] /\ graph[vs[N].fn][vs[N].edge] = c
    BY <1>1, <2>1 DEF Entering
  <2>3. vs[N].fn \in Nodes
    BY <1>2, <2>1
  <2>4. c \in Calls(vs[N].fn)
    BY <2>2, <2>3, TheNodes
  <2>5. Leads(vs[N].fn, c)
    BY <2>3, <2>4, ReachedLeast DEF Leads
  <2> QED BY <2>1, <2>5, LeadsOn
<1>7. \A x, y \in O \cup {c} : jx[x] <= jx[y] => Leads(x, y)
  <2> SUFFICES ASSUME NEW x \in O \cup {c}, NEW y \in O \cup {c}, jx[x] <= jx[y] PROVE Leads(x, y)
    OBVIOUS
  <2>1. CASE x = c /\ y = c
    BY <2>1 DEF Leads
  <2>2. CASE x \in O /\ y = c
    BY <1>6, <2>2
  <2>3. CASE x = c /\ y \in O
    BY <1>4, <1>5, <2>3
  <2>4. CASE x \in O /\ y \in O
    BY <1>4, <2>4 DEF ReachOK
  <2> QED BY <2>1, <2>2, <2>3, <2>4
<1>8. \A y \in O \cup {c} : \E k \in DOMAIN z : jx[z[k].fn] <= jx[y] /\ Leads(y, z[k].fn)
  <2> SUFFICES ASSUME NEW y \in O \cup {c} PROVE \E k \in DOMAIN z : jx[z[k].fn] <= jx[y] /\ Leads(y, z[k].fn)
    OBVIOUS
  <2>1. CASE y = c
    <3>1. N + 1 \in DOMAIN z /\ jx[c] <= jx[c] /\ Leads(c, c)
      BY <1>2, <1>5 DEF Leads
    <3> QED BY <1>2, <2>1, <3>1
  <2>2. CASE y \in O
    <3>1. PICK k \in DOMAIN vs : ix[vs[k].fn] <= ix[y] /\ Leads(y, vs[k].fn)
      BY <2>2 DEF ReachOK
    <3>2. k \in DOMAIN z /\ z[k] = vs[k] /\ vs[k].fn \in O
      BY <1>2, <3>1
    <3> QED BY <1>4, <2>2, <3>1, <3>2
  <2> QED BY <2>1, <2>2
<1>9. ASSUME NEW k \in DOMAIN z
      PROVE  mw[z[k].fn] <= jx[z[k].fn] /\ \E x \in O \cup {c} : jx[x] = mw[z[k].fn] /\ Leads(z[k].fn, x)
  <2>1. CASE k = N + 1
    BY <1>2, <1>5, <2>1 DEF Leads
  <2>2. CASE k \in 1 .. N
    <3>1. z[k] = vs[k] /\ vs[k].fn \in O
      BY <1>2, <2>2
    <3>2. lw[vs[k].fn] <= ix[vs[k].fn] /\ \E x \in O : ix[x] = lw[vs[k].fn] /\ Leads(vs[k].fn, x)
      BY <1>2, <2>2 DEF ReachOK
    <3> QED BY <1>4, <3>1, <3>2
  <2> QED BY <1>2, <1>3, <2>1, <2>2
<1> QED BY <1>7, <1>8, <1>9 DEF ReachOK

LEMMA LowEntered ==
  ASSUME CallsOK, NEW ix, NEW lw, NumbersOK(ix, lw), NEW O \in SUBSET Nodes, NEW vs,
         FramesOK(ix, O, vs), LowOK(ix, lw, O, vs), NEW c \in Nodes, c \notin O, ix[c] = 0,
         \A m \in O : ix[m] # 0,
         NEW next, NEW jx, Numbered(ix, jx, c, next), NEW mw, Lowered(lw, mw, c, next),
         Entering(vs, c), NEW z, Push(z, vs, c)
  PROVE  LowOK(jx, mw, O \cup {c}, z)
<1>1. PICK N : N = Len(vs)
  OBVIOUS
<1>2. /\ N \in Nat /\ DOMAIN z = 1 .. N + 1 /\ DOMAIN vs = 1 .. N
      /\ z[N + 1].fn = c /\ \A i \in DOMAIN vs : z[i] = vs[i]
      /\ \A i \in DOMAIN vs : vs[i].fn \in O /\ vs[i].fn \in Nodes /\ vs[i].fn # c
      /\ Passed(z, c) = {} /\ \A n \in Nodes : n # c => Passed(z, n) = Passed(vs, n)
  <2>1. Grown(vs, z, O, c)
    BY FramesEntered
  <2> QED BY <1>1, <2>1 DEF Grown
<1> USE DEF Numbered, Lowered
<1>3. \A m \in O : m \in Nodes /\ m # c /\ jx[m] = ix[m] /\ mw[m] = lw[m] /\ ix[m] \in Nat /\ ix[m] < next
  BY DEF NumbersOK
<1>4. ASSUME NEW n \in Nodes, n # c, jx[n] # 0, NEW a \in Passed(z, n) PROVE a \in Nodes /\ ix[a] # 0 /\ jx[a] # 0 /\ a # c
  <2>1. ix[n] # 0 /\ a \in Passed(vs, n)
    BY <1>2, <1>4
  <2>2. ix[a] # 0
    BY <2>1 DEF LowOK
  <2>3. a \in Calls(n)
    BY <2>1, TheNodes DEF Passed
  <2>4. a \in Nodes
    BY <2>3, TheNodes
  <2> QED BY <2>2, <2>4
<1>5. \A n \in Nodes : jx[n] # 0 => \A a \in Passed(z, n) : jx[a] # 0
  BY <1>2, <1>4
<1>6. ASSUME NEW k \in DOMAIN z, NEW y \in O \cup {c}, Holds(jx, z, k, y),
             NEW a \in Passed(z, y), a \in O \cup {c}
      PROVE  mw[z[k].fn] <= jx[a]
  <2>1. y # c /\ y \in O
    BY <1>2, <1>6
  <2>2. a \in O /\ a \in Passed(vs, y)
    BY <1>2, <1>3, <1>4, <1>6, <2>1
  <2>3. k \in 1 .. N
    <3>1. k # N + 1
      <4>1. SUFFICES ASSUME k = N + 1 PROVE FALSE
        OBVIOUS
      <4>2. next <= ix[y]
        BY <1>2, <1>3, <1>6, <2>1, <4>1 DEF Holds
      <4> QED BY <1>3, <2>1, <4>2
    <3> QED BY <1>2, <1>6, <3>1
  <2>4. z[k] = vs[k] /\ vs[k].fn \in O
    BY <1>2, <2>3
  <2>5. Holds(ix, vs, k, y)
    <3>1. ix[vs[k].fn] <= ix[y]
      BY <1>3, <1>6, <2>1, <2>4 DEF Holds
    <3>2. ASSUME NEW j \in DOMAIN vs, j > k PROVE ix[y] < ix[vs[j].fn]
      <4>1. j \in DOMAIN z /\ z[j] = vs[j] /\ vs[j].fn \in O
        BY <1>2
      <4>2. jx[y] < jx[z[j].fn]
        BY <1>6, <3>2, <4>1 DEF Holds
      <4> QED BY <1>3, <2>1, <4>1, <4>2
    <3> QED BY <3>1, <3>2 DEF Holds
  <2>6. lw[vs[k].fn] <= ix[a]
    BY <1>2, <2>1, <2>2, <2>3, <2>5 DEF LowOK
  <2> QED BY <1>3, <2>2, <2>4, <2>6
<1> QED BY <1>5, <1>6 DEF LowOK

LEMMA WalkEntered ==
  ASSUME CallsOK, NEW ix, NEW lw, NEW op, NEW vs, NEW gs, WalkOK(ix, lw, op, vs, gs),
         NEW c \in Nodes, ix[c] = 0, Entering(vs, c),
         NEW next, next = 1 + Cardinality(Seen(ix)),
         NEW jx, Put(jx, ix, c, next), NEW mw, Put(mw, lw, c, next),
         NEW oq, PushOpen(oq, op, c), NEW z, Push(z, vs, c)
  PROVE  WalkOK(jx, mw, oq, z, gs)
<1>1. /\ NumbersOK(ix, lw) /\ OpenOK(ix, op, gs) /\ FramesOK(ix, In(op), vs)
      /\ ReachOK(ix, lw, In(op), vs) /\ LowOK(ix, lw, In(op), vs)
      /\ gs \in Seq(SUBSET Nodes) /\ GroupsOK(gs)
  BY DEF WalkOK
<1>2. NumbersOK(jx, mw) /\ Numbered(ix, jx, c, next) /\ Lowered(lw, mw, c, next)
  BY <1>1, NumbersEntered
<1>3. OpenOK(jx, oq, gs) /\ In(oq) = In(op) \cup {c} /\ c \notin In(op)
  BY <1>1, <1>2, OpenEntered
<1>4. In(op) \in SUBSET Nodes /\ \A m \in In(op) : ix[m] # 0
  <2>1. op \in Seq(Nodes)
    BY <1>1 DEF OpenOK
  <2>2. \A i \in DOMAIN op : op[i] \in Nodes
    BY <2>1, ElementOf
  <2> QED BY <1>1, <2>2 DEF In, OpenOK
<1>5. PICK O : O = In(op)
  OBVIOUS
<1>6. FramesOK(jx, O \cup {c}, z)
  BY <1>1, <1>2, <1>3, <1>4, <1>5, FramesEntered
<1>7. ReachOK(jx, mw, O \cup {c}, z)
  BY <1>1, <1>2, <1>3, <1>4, <1>5, ReachEntered
<1>8. LowOK(jx, mw, O \cup {c}, z)
  BY <1>1, <1>2, <1>3, <1>4, <1>5, LowEntered
<1> QED BY <1>1, <1>2, <1>3, <1>5, <1>6, <1>7, <1>8 DEF WalkOK

LEMMA InOpen ==
  ASSUME NEW ix, NEW op, NEW gs, OpenOK(ix, op, gs)
  PROVE  In(op) \in SUBSET Nodes /\ \A m \in In(op) : ix[m] # 0
<1>1. op \in Seq(Nodes)
  BY DEF OpenOK
<1>2. \A i \in DOMAIN op : op[i] \in Nodes
  BY <1>1, ElementOf
<1> QED BY <1>2 DEF In, OpenOK

(* A low goes down to the number of an open function that is reached. *)
LEMMA WalkLowered ==
  ASSUME CallsOK, NEW ix, NEW lw, NEW op, NEW vs, NEW gs, WalkOK(ix, lw, op, vs, gs),
         NEW k \in DOMAIN vs, NEW n, n = vs[k].fn, NEW x \in In(op), Leads(n, x),
         NEW v, v = LowOf(lw[n], ix[x]), NEW mw, Put(mw, lw, n, v)
  PROVE  /\ WalkOK(ix, mw, op, vs, gs) /\ \A m \in Nodes : mw[m] = (IF m = n THEN v ELSE lw[m])
         /\ \A m \in Nodes : mw[m] <= lw[m] /\ mw[n] <= ix[x]
<1>1. /\ NumbersOK(ix, lw) /\ OpenOK(ix, op, gs) /\ FramesOK(ix, In(op), vs)
      /\ ReachOK(ix, lw, In(op), vs) /\ LowOK(ix, lw, In(op), vs)
      /\ gs \in Seq(SUBSET Nodes) /\ GroupsOK(gs)
  BY DEF WalkOK
<1>2. In(op) \in SUBSET Nodes /\ x \in Nodes
  BY <1>1, InOpen
<1>3. n \in Nodes /\ \A j \in DOMAIN vs : vs[j].fn \in Nodes
  BY <1>1, <1>2 DEF FramesOK
<1>4. ix \in [Nodes -> Nat] /\ lw \in [Nodes -> Nat]
  BY <1>1 DEF NumbersOK
<1>5. /\ v \in Nat /\ v <= lw[n] /\ v <= ix[x] /\ (v = lw[n] \/ v = ix[x])
  BY <1>2, <1>3, <1>4 DEF LowOf
<1>6. mw \in [Nodes -> Nat] /\ \A m \in Nodes : mw[m] = IF m = n THEN v ELSE lw[m]
  BY <1>3, <1>4, <1>5 DEF Put
<1>7. \A m \in Nodes : mw[m] <= lw[m]
  BY <1>4, <1>5, <1>6
<1>8. NumbersOK(ix, mw)
  BY <1>1, <1>6 DEF NumbersOK
<1>9. ASSUME NEW j \in DOMAIN vs
      PROVE  mw[vs[j].fn] <= ix[vs[j].fn] /\ \E z \in In(op) : ix[z] = mw[vs[j].fn] /\ Leads(vs[j].fn, z)
  <2>1. lw[vs[j].fn] <= ix[vs[j].fn] /\ \E z \in In(op) : ix[z] = lw[vs[j].fn] /\ Leads(vs[j].fn, z)
    BY <1>1 DEF ReachOK
  <2>2. mw[vs[j].fn] <= ix[vs[j].fn]
    <3>1. mw[vs[j].fn] \in Nat /\ lw[vs[j].fn] \in Nat /\ ix[vs[j].fn] \in Nat /\ mw[vs[j].fn] <= lw[vs[j].fn]
      BY <1>3, <1>4, <1>6, <1>7
    <3> QED BY <2>1, <3>1
  <2>3. CASE vs[j].fn = n /\ v = ix[x]
    BY <1>3, <1>6, <2>2, <2>3
  <2>4. CASE ~(vs[j].fn = n /\ v = ix[x])
    <3>1. mw[vs[j].fn] = lw[vs[j].fn]
      BY <1>3, <1>5, <1>6, <2>4
    <3> QED BY <2>1, <2>2, <3>1
  <2> QED BY <2>3, <2>4
<1>10. ReachOK(ix, mw, In(op), vs)
  BY <1>1, <1>9 DEF ReachOK
<1>11. ASSUME NEW j \in DOMAIN vs, NEW y \in In(op), Holds(ix, vs, j, y), NEW c \in Passed(vs, y), c \in In(op)
       PROVE  mw[vs[j].fn] <= ix[c]
  <2>1. lw[vs[j].fn] <= ix[c]
    BY <1>1, <1>11 DEF LowOK
  <2>2. mw[vs[j].fn] \in Nat /\ lw[vs[j].fn] \in Nat /\ ix[c] \in Nat /\ mw[vs[j].fn] <= lw[vs[j].fn]
    BY <1>2, <1>3, <1>4, <1>6, <1>7, <1>11
  <2> QED BY <2>1, <2>2
<1>12. LowOK(ix, mw, In(op), vs)
  BY <1>1, <1>11 DEF LowOK
<1> QED BY <1>1, <1>3, <1>5, <1>6, <1>7, <1>8, <1>10, <1>12 DEF WalkOK
-----------------------------------------------------------------------------
(* The last visit goes past a callee. *)
Bump(z, vs) == z = [vs EXCEPT ![Len(vs)].edge = @ + 1]
Bumped(vs, z) ==
  /\ z \in Seq([fn : Nodes, edge : Nat]) /\ DOMAIN z = DOMAIN vs /\ Len(z) = Len(vs)
  /\ \A i \in DOMAIN vs : z[i].fn = vs[i].fn /\ (i # Len(vs) => z[i] = vs[i])
  /\ z[Len(vs)].edge = vs[Len(vs)].edge + 1

LEMMA BumpIs ==
  ASSUME NEW vs, vs \in Seq([fn : Nodes, edge : Nat]), vs # <<>>, NEW z, Bump(z, vs)
  PROVE  Bumped(vs, z)
<1>1. PICK N \in Nat : N = Len(vs) /\ N # 0 /\ DOMAIN vs = 1 .. N /\ N \in DOMAIN vs
  BY Indices
<1>2. PICK e : e = [fn |-> vs[N].fn, edge |-> vs[N].edge + 1]
  OBVIOUS
<1>3. PICK F : F = [fn : Nodes, edge : Nat]
  OBVIOUS
<1>4. vs[N] \in F /\ \A i \in DOMAIN vs : vs[i] \in F
  <2>1. vs \in Seq(F)
    BY <1>3
  <2> QED BY <1>1, <2>1, ElementOf
<1>5. vs[N].fn \in Nodes /\ vs[N].edge \in Nat /\ vs[N] = [fn |-> vs[N].fn, edge |-> vs[N].edge]
  BY <1>3, <1>4
<1>6. e \in F
  BY <1>2, <1>3, <1>5
<1>7. [vs[N] EXCEPT !.edge = @ + 1] = e
  BY <1>2, <1>5
<1>8. z = [vs EXCEPT ![N] = [vs[N] EXCEPT !.edge = @ + 1]]
  BY <1>1 DEF Bump
<1>9. z = [vs EXCEPT ![N] = e]
  BY <1>7, <1>8
<1>10. z[N] = e /\ DOMAIN z = 1 .. N /\ \A i \in 1 .. N : i # N => z[i] = vs[i]
  BY <1>1, <1>9
<1>11. z \in [1 .. N -> F]
  BY <1>1, <1>4, <1>6, <1>9
<1>12. z \in Seq(F) /\ Len(z) = N
  BY <1>11, FromElements
<1>13. \A i \in 1 .. N : z[i].fn = vs[i].fn
  BY <1>2, <1>10
<1>14. z[N].edge = vs[N].edge + 1
  BY <1>2, <1>10
<1> QED BY <1>1, <1>3, <1>10, <1>12, <1>13, <1>14 DEF Bumped

LEMMA WalkBumped ==
  ASSUME CallsOK, NEW ix, NEW lw, NEW op, NEW vs, NEW gs, WalkOK(ix, lw, op, vs, gs), vs # <<>>,
         NEW n, n = vs[Len(vs)].fn, NEW e, e = vs[Len(vs)].edge, e \in DOMAIN graph[n],
         NEW c, c = graph[n][e], ix[c] # 0, c \in In(op) => lw[n] <= ix[c], NEW z, Bump(z, vs)
  PROVE  WalkOK(ix, lw, op, z, gs)
<1>1. /\ NumbersOK(ix, lw) /\ OpenOK(ix, op, gs) /\ FramesOK(ix, In(op), vs)
      /\ ReachOK(ix, lw, In(op), vs) /\ LowOK(ix, lw, In(op), vs)
      /\ gs \in Seq(SUBSET Nodes) /\ GroupsOK(gs)
  BY DEF WalkOK
<1>2. In(op) \in SUBSET Nodes
  BY <1>1, InOpen
<1>3. vs \in Seq([fn : Nodes, edge : Nat])
  BY <1>1 DEF FramesOK
<1>4. PICK N \in Nat : N = Len(vs) /\ N # 0 /\ DOMAIN vs = 1 .. N /\ N \in DOMAIN vs
  BY <1>3, Indices
<1>5. Bumped(vs, z)
  BY <1>3, BumpIs
<1>6. /\ z \in Seq([fn : Nodes, edge : Nat]) /\ DOMAIN z = 1 .. N /\ Len(z) = N
      /\ \A i \in 1 .. N : z[i].fn = vs[i].fn /\ (i # N => z[i] = vs[i])
      /\ z[N].edge = e + 1
  BY <1>4, <1>5 DEF Bumped
<1>7. n \in Nodes /\ n \in In(op) /\ vs[N].fn = n /\ vs[N].edge = e /\ \A i \in 1 .. N : vs[i].fn \in Nodes
  BY <1>1, <1>2, <1>4 DEF FramesOK
<1>8. e \in 1 .. Len(graph[n]) /\ Len(graph[n]) \in Nat /\ DOMAIN graph[n] = 1 .. Len(graph[n])
  BY <1>7, TheNodes
<1>9. \A i \in 1 .. N : vs[i].fn = n => i = N
  <2>1. \A i \in 1 .. N : i # N => i < N
    BY <1>4
  <2>2. \A i \in 1 .. N : i < N => ix[vs[i].fn] < ix[n]
    BY <1>1, <1>4, <1>7 DEF FramesOK
  <2>3. ix[n] \in Nat /\ ~(ix[n] < ix[n])
    BY <1>1, <1>7 DEF NumbersOK
  <2> QED BY <2>1, <2>2, <2>3
<1>10. FramesOK(ix, In(op), z)
  <2>1. \A k \in DOMAIN z : z[k].fn \in In(op) /\ z[k].edge \in 1 .. Len(graph[z[k].fn]) + 1
    <3> SUFFICES ASSUME NEW k \in 1 .. N
                 PROVE  z[k].fn \in In(op) /\ z[k].edge \in 1 .. Len(graph[z[k].fn]) + 1
      BY <1>6
    <3>1. vs[k].fn \in In(op) /\ vs[k].edge \in 1 .. Len(graph[vs[k].fn]) + 1
      BY <1>1, <1>4 DEF FramesOK
    <3>2. e + 1 \in 1 .. Len(graph[n]) + 1
      BY <1>8
    <3> QED BY <1>6, <1>7, <3>1, <3>2
  <2>2. \A i, j \in DOMAIN z : i < j => ix[z[i].fn] < ix[z[j].fn]
    BY <1>1, <1>4, <1>6 DEF FramesOK
  <2>3. \A i, j \in DOMAIN z : j = i + 1 =>
          z[i].edge \in DOMAIN graph[z[i].fn] /\ graph[z[i].fn][z[i].edge] = z[j].fn
    <3> SUFFICES ASSUME NEW i \in 1 .. N, NEW j \in 1 .. N, j = i + 1
                 PROVE  z[i].edge \in DOMAIN graph[z[i].fn] /\ graph[z[i].fn][z[i].edge] = z[j].fn
      BY <1>6
    <3>1. i # N
      BY <1>4
    <3>2. vs[i].edge \in DOMAIN graph[vs[i].fn] /\ graph[vs[i].fn][vs[i].edge] = vs[j].fn
      BY <1>1, <1>4 DEF FramesOK
    <3> QED BY <1>6, <3>1, <3>2
  <2> QED BY <1>6, <2>1, <2>2, <2>3 DEF FramesOK
<1>11. ReachOK(ix, lw, In(op), z)
  <2>1. \A y \in In(op) : \E k \in DOMAIN z : ix[z[k].fn] <= ix[y] /\ Leads(y, z[k].fn)
    BY <1>1, <1>4, <1>6 DEF ReachOK
  <2>2. \A k \in DOMAIN z :
          lw[z[k].fn] <= ix[z[k].fn] /\ \E x \in In(op) : ix[x] = lw[z[k].fn] /\ Leads(z[k].fn, x)
    BY <1>1, <1>4, <1>6 DEF ReachOK
  <2> QED BY <1>1, <2>1, <2>2 DEF ReachOK
<1>12. ASSUME NEW m \in Nodes, NEW a \in Passed(z, m) PROVE a \in Passed(vs, m) \/ (m = n /\ a = c)
  <2>1. PICK i \in DOMAIN graph[m] : a = graph[m][i] /\ \A k \in DOMAIN z : z[k].fn = m => i < z[k].edge
    BY <1>12 DEF Passed
  <2>2. CASE m # n
    <3>1. \A k \in DOMAIN vs : vs[k].fn = m => i < vs[k].edge
      BY <1>4, <1>6, <1>7, <2>1, <2>2
    <3> QED BY <2>1, <3>1 DEF Passed
  <2>3. CASE m = n
    <3>1. i < e + 1 /\ i \in 1 .. Len(graph[n])
      BY <1>4, <1>6, <1>7, <1>8, <2>1, <2>3
    <3>2. i < e \/ i = e
      BY <1>8, <3>1
    <3>3. CASE i = e
      BY <2>1, <2>3, <3>3
    <3>4. CASE i < e
      <4>1. \A k \in DOMAIN vs : vs[k].fn = m => i < vs[k].edge
        BY <1>4, <1>7, <1>9, <2>3, <3>4
      <4> QED BY <2>1, <4>1 DEF Passed
    <3> QED BY <3>2, <3>3, <3>4
  <2> QED BY <2>2, <2>3
<1>13. \A m \in Nodes : ix[m] # 0 => \A a \in Passed(z, m) : ix[a] # 0
  BY <1>1, <1>12 DEF LowOK
<1>14. ASSUME NEW k \in DOMAIN z, NEW y \in In(op), Holds(ix, z, k, y), NEW a \in Passed(z, y), a \in In(op)
       PROVE  lw[z[k].fn] <= ix[a]
  <2>1. z[k].fn = vs[k].fn /\ Holds(ix, vs, k, y) /\ k \in DOMAIN vs
    BY <1>4, <1>6, <1>14 DEF Holds
  <2>2. CASE a \in Passed(vs, y)
    BY <1>1, <1>14, <2>1, <2>2 DEF LowOK
  <2>3. CASE y = n /\ a = c
    <3>1. k = N
      <4>1. SUFFICES ASSUME k # N PROVE FALSE
        OBVIOUS
      <4>2. k < N
        BY <1>4, <2>1, <4>1
      <4>3. ix[n] < ix[n] /\ ix[n] \in Nat
        BY <1>1, <1>4, <1>7, <2>1, <2>3, <4>2 DEF Holds, NumbersOK
      <4> QED BY <4>3
    <3> QED BY <1>7, <1>14, <2>1, <2>3, <3>1
  <2> QED BY <1>2, <1>12, <1>14, <2>2, <2>3
<1>15. LowOK(ix, lw, In(op), z)
  BY <1>13, <1>14 DEF LowOK
<1> QED BY <1>1, <1>10, <1>11, <1>15 DEF WalkOK
-----------------------------------------------------------------------------
(* The last visit ends: it has looked at all its callees. *)
Left(ix, lw, O, vs, z, N, n) ==
  /\ N \in Nat /\ N # 0 /\ DOMAIN vs = 1 .. N /\ n = vs[N].fn /\ n \in O
  /\ z \in Seq([fn : Nodes, edge : Nat]) /\ DOMAIN z = 1 .. N - 1 /\ Len(z) = N - 1
  /\ \A i \in 1 .. N - 1 : z[i] = vs[i] /\ i \in 1 .. N
  /\ \A i \in 1 .. N : i = N \/ (i \in 1 .. N - 1 /\ i < N /\ ix[vs[i].fn] < ix[n])
  /\ \A i \in 1 .. N : vs[i].fn \in O /\ vs[i].fn \in Nodes
  /\ \A m \in Nodes : Passed(z, m) = Passed(vs, m)

LEMMA FrameLeft ==
  ASSUME CallsOK, NEW ix, NEW lw, NEW O \in SUBSET Nodes, NEW vs, FramesOK(ix, O, vs), NumbersOK(ix, lw),
         vs # <<>>, NEW n, n = vs[Len(vs)].fn, vs[Len(vs)].edge \notin DOMAIN graph[n],
         NEW z, Pop(z, vs)
  PROVE  Left(ix, lw, O, vs, z, Len(vs), n)
<1>1. vs \in Seq([fn : Nodes, edge : Nat])
  BY DEF FramesOK
<1>2. PICK N \in Nat : N = Len(vs) /\ N # 0 /\ DOMAIN vs = 1 .. N /\ N \in 1 .. N
  BY <1>1, Indices
<1>3. /\ z \in Seq([fn : Nodes, edge : Nat]) /\ Len(z) = N - 1 /\ DOMAIN z = 1 .. N - 1
      /\ \A i \in 1 .. N - 1 : z[i] = vs[i]
  <2>1. PICK F : F = [fn : Nodes, edge : Nat]
    OBVIOUS
  <2>2. vs \in Seq(F)
    BY <1>1, <2>1
  <2>3. z \in Seq(F) /\ Len(z) = Len(vs) - 1 /\ DOMAIN z = 1 .. Len(vs) - 1
          /\ \A i \in 1 .. Len(vs) - 1 : z[i] = vs[i]
    BY <2>2, Popped
  <2> QED BY <1>2, <2>1, <2>3
<1>4. \A i \in 1 .. N : vs[i].fn \in O /\ vs[i].fn \in Nodes
  BY <1>2 DEF FramesOK
<1>5. /\ \A i \in 1 .. N - 1 : i \in 1 .. N
      /\ \A i \in 1 .. N : i = N \/ (i \in 1 .. N - 1 /\ i < N)
  BY <1>2
<1>6. \A i \in 1 .. N : i < N => ix[vs[i].fn] < ix[n]
  BY <1>2 DEF FramesOK
<1>7. \A i \in DOMAIN graph[n] : i < vs[N].edge
  <2>1. vs[N].edge \in 1 .. Len(graph[n]) + 1 /\ n \in Nodes
    BY <1>2, <1>4 DEF FramesOK
  <2>2. Len(graph[n]) \in Nat /\ DOMAIN graph[n] = 1 .. Len(graph[n])
    BY <2>1, TheNodes
  <2> QED BY <1>2, <2>1, <2>2
<1>8. ASSUME NEW m \in Nodes PROVE Passed(z, m) = Passed(vs, m)
  <2>1. ASSUME NEW a \in DOMAIN graph[m]
        PROVE  (\A k \in DOMAIN z : z[k].fn = m => a < z[k].edge)
                 <=> (\A k \in DOMAIN vs : vs[k].fn = m => a < vs[k].edge)
    BY <1>2, <1>3, <1>5, <1>7, <2>1
  <2> QED BY <2>1 DEF Passed
<1> QED BY <1>2, <1>3, <1>4, <1>5, <1>6, <1>8 DEF Left

LEMMA WalkLeft ==
  ASSUME CallsOK, NEW ix, NEW lw, NEW op, NEW vs, NEW gs, WalkOK(ix, lw, op, vs, gs),
         NEW N, NEW n, NEW z, Left(ix, lw, In(op), vs, z, N, n),
         N # 1 => lw[vs[N - 1].fn] <= lw[n], lw[n] # ix[n]
  PROVE  N # 1 /\ WalkOK(ix, lw, op, z, gs)
<1>1. /\ NumbersOK(ix, lw) /\ OpenOK(ix, op, gs) /\ FramesOK(ix, In(op), vs)
      /\ ReachOK(ix, lw, In(op), vs) /\ LowOK(ix, lw, In(op), vs)
      /\ gs \in Seq(SUBSET Nodes) /\ GroupsOK(gs)
  BY DEF WalkOK
<1>2. PICK O : O = In(op)
  OBVIOUS
<1>3. O \in SUBSET Nodes
  BY <1>1, <1>2, InOpen
<1>4. /\ N \in Nat /\ N # 0 /\ DOMAIN vs = 1 .. N /\ n = vs[N].fn /\ n \in O
      /\ z \in Seq([fn : Nodes, edge : Nat]) /\ DOMAIN z = 1 .. N - 1 /\ Len(z) = N - 1
      /\ \A i \in 1 .. N - 1 : z[i] = vs[i] /\ i \in 1 .. N
      /\ \A i \in 1 .. N : i = N \/ (i \in 1 .. N - 1 /\ i < N /\ ix[vs[i].fn] < ix[n])
      /\ \A i \in 1 .. N : vs[i].fn \in O /\ vs[i].fn \in Nodes
      /\ \A m \in Nodes : Passed(z, m) = Passed(vs, m)
  BY <1>2 DEF Left
<1>5. ix \in [Nodes -> Nat] /\ lw \in [Nodes -> Nat] /\ n \in Nodes
  BY <1>1, <1>3, <1>4 DEF NumbersOK
<1>6. N \in 1 .. N
  BY <1>4
<1>7. lw[n] < ix[n] /\ \E x \in O : ix[x] = lw[n] /\ Leads(n, x)
  <2>1. lw[n] <= ix[n] /\ \E x \in O : ix[x] = lw[n] /\ Leads(n, x)
    BY <1>1, <1>2, <1>4, <1>6 DEF ReachOK
  <2>2. lw[n] \in Nat /\ ix[n] \in Nat
    BY <1>5
  <2> QED BY <2>1, <2>2
<1>8. PICK x \in O : ix[x] = lw[n] /\ Leads(n, x)
  BY <1>7
<1>9. PICK k \in 1 .. N : ix[vs[k].fn] <= ix[x] /\ Leads(x, vs[k].fn)
  BY <1>1, <1>2, <1>4, <1>8 DEF ReachOK
<1>10. ix[vs[k].fn] < ix[n] /\ k # N /\ k \in 1 .. N - 1
  <2>1. ix[vs[k].fn] \in Nat /\ ix[x] \in Nat /\ ix[n] \in Nat
    BY <1>3, <1>4, <1>5, <1>8, <1>9
  <2>2. ix[vs[k].fn] < ix[n]
    BY <1>7, <1>8, <1>9, <2>1
  <2>3. k # N
    BY <1>4, <2>1, <2>2
  <2> QED BY <1>4, <1>9, <2>2, <2>3
<1>11. N # 1 /\ N - 1 \in 1 .. N - 1 /\ N - 1 \in DOMAIN z
  BY <1>4, <1>10
<1>12. FramesOK(ix, O, z)
  <2>1. \A i \in 1 .. N - 1 : vs[i].fn \in O /\ vs[i].edge \in 1 .. Len(graph[vs[i].fn]) + 1
    BY <1>1, <1>2, <1>4 DEF FramesOK
  <2>2. \A i, j \in 1 .. N - 1 : i < j => ix[vs[i].fn] < ix[vs[j].fn]
    BY <1>1, <1>4 DEF FramesOK
  <2>3. \A i, j \in 1 .. N - 1 : j = i + 1 =>
          vs[i].edge \in DOMAIN graph[vs[i].fn] /\ graph[vs[i].fn][vs[i].edge] = vs[j].fn
    BY <1>1, <1>4 DEF FramesOK
  <2>4. \A k1 \in DOMAIN z : z[k1].fn \in O /\ z[k1].edge \in 1 .. Len(graph[z[k1].fn]) + 1
    BY <1>4, <2>1
  <2>5. \A i, j \in DOMAIN z : i < j => ix[z[i].fn] < ix[z[j].fn]
    BY <1>4, <2>2
  <2>6. \A i, j \in DOMAIN z : j = i + 1 =>
          z[i].edge \in DOMAIN graph[z[i].fn] /\ graph[z[i].fn][z[i].edge] = z[j].fn
    BY <1>4, <2>3
  <2> QED BY <1>4, <2>4, <2>5, <2>6 DEF FramesOK
<1>13. ASSUME NEW y \in O PROVE \E j \in DOMAIN z : ix[z[j].fn] <= ix[y] /\ Leads(y, z[j].fn)
  <2>1. PICK j \in 1 .. N : ix[vs[j].fn] <= ix[y] /\ Leads(y, vs[j].fn)
    BY <1>1, <1>2, <1>4 DEF ReachOK
  <2>2. CASE j # N
    BY <1>4, <2>1, <2>2
  <2>3. CASE j = N
    <3>1. Leads(n, vs[k].fn) /\ y \in Nodes
      BY <1>3, <1>5, <1>8, <1>9, LeadsOn
    <3>2. Leads(y, vs[k].fn)
      BY <1>4, <2>1, <2>3, <3>1, LeadsOn
    <3>3. ix[vs[k].fn] \in Nat /\ ix[n] \in Nat /\ ix[y] \in Nat /\ ix[n] <= ix[y]
      BY <1>3, <1>4, <1>5, <1>9, <2>1, <2>3
    <3>4. ix[vs[k].fn] <= ix[y]
      BY <1>10, <3>3
    <3> QED BY <1>4, <1>10, <3>2, <3>4
  <2> QED BY <2>2, <2>3
<1>14. ReachOK(ix, lw, O, z)
  <2>1. \A i \in 1 .. N - 1 : lw[vs[i].fn] <= ix[vs[i].fn] /\ \E w \in O : ix[w] = lw[vs[i].fn] /\ Leads(vs[i].fn, w)
    BY <1>1, <1>2, <1>4 DEF ReachOK
  <2>2. \A i \in DOMAIN z : lw[z[i].fn] <= ix[z[i].fn] /\ \E w \in O : ix[w] = lw[z[i].fn] /\ Leads(z[i].fn, w)
    BY <1>4, <2>1
  <2> QED BY <1>1, <1>2, <1>13, <2>2 DEF ReachOK
<1>15. ASSUME NEW i \in DOMAIN z, NEW y \in O, Holds(ix, z, i, y), NEW c \in Passed(z, y), c \in O
       PROVE  lw[z[i].fn] <= ix[c]
  <2>1. z[i] = vs[i] /\ i \in 1 .. N - 1 /\ i \in 1 .. N /\ c \in Passed(vs, y) /\ y \in Nodes
    BY <1>3, <1>4, <1>15
  <2>2. ix[y] \in Nat /\ ix[n] \in Nat /\ ix[vs[i].fn] <= ix[y]
    BY <1>3, <1>5, <1>15, <2>1 DEF Holds
  <2>3. CASE ix[y] < ix[n]
    <3>1. ASSUME NEW j \in DOMAIN vs, j > i PROVE ix[y] < ix[vs[j].fn]
      <4>1. CASE j = N
        BY <1>4, <2>3, <4>1
      <4>2. CASE j # N
        <5>1. j \in DOMAIN z /\ z[j] = vs[j]
          BY <1>4, <4>2
        <5> QED BY <1>15, <3>1, <5>1 DEF Holds
      <4> QED BY <4>1, <4>2
    <3>2. Holds(ix, vs, i, y)
      BY <2>2, <3>1 DEF Holds
    <3> QED BY <1>1, <1>2, <1>4, <1>15, <2>1, <3>2 DEF LowOK
  <2>4. CASE ~(ix[y] < ix[n])
    <3>1. Holds(ix, vs, N, y)
      <4>1. \A j \in 1 .. N : ~(j > N)
        BY <1>4
      <4>2. ix[n] <= ix[y]
        BY <2>2, <2>4
      <4> QED BY <1>4, <4>1, <4>2 DEF Holds
    <3>2. lw[n] <= ix[c]
      BY <1>1, <1>2, <1>4, <1>6, <1>15, <2>1, <3>1 DEF LowOK
    <3>3. i = N - 1
      <4>1. SUFFICES ASSUME i # N - 1 PROVE FALSE
        OBVIOUS
      <4>2. N - 1 > i
        BY <1>4, <2>1, <4>1
      <4>3. ix[y] < ix[vs[N - 1].fn]
        BY <1>4, <1>11, <1>15, <4>2 DEF Holds
      <4>4. ix[vs[N - 1].fn] < ix[n] /\ vs[N - 1].fn \in Nodes
        <5>1. N - 1 # N /\ N - 1 \in 1 .. N
          BY <1>4, <1>11
        <5> QED BY <1>4, <5>1
      <4> QED BY <1>5, <2>2, <2>4, <4>3, <4>4
    <3>4. lw[vs[i].fn] <= lw[n]
      BY <1>11, <3>3
    <3>5. lw[vs[i].fn] \in Nat /\ lw[n] \in Nat /\ ix[c] \in Nat
      BY <1>3, <1>4, <1>5, <1>15, <2>1
    <3> QED BY <2>1, <3>2, <3>4, <3>5
  <2> QED BY <2>3, <2>4
<1>16. LowOK(ix, lw, O, z)
  <2>1. \A m \in Nodes : ix[m] # 0 => \A c \in Passed(z, m) : ix[c] # 0
    BY <1>1, <1>4 DEF LowOK
  <2> QED BY <1>15, <2>1 DEF LowOK
<1> QED BY <1>1, <1>2, <1>11, <1>12, <1>14, <1>16 DEF WalkOK
-----------------------------------------------------------------------------
(* The visit that ends closes a group: what was entered since.             *)
Parted(ix, op, oq, g, n) ==
  /\ oq \in Seq(Nodes) /\ In(oq) = {y \in In(op) : ix[y] < ix[n]} /\ g = {y \in In(op) : ix[n] <= ix[y]}
  /\ \A i, j \in DOMAIN oq : i < j => ix[oq[i]] < ix[oq[j]]

LEMMA OpenParted ==
  ASSUME NEW ix, NEW lw, NumbersOK(ix, lw), NEW op, NEW gs, OpenOK(ix, op, gs), NEW n \in In(op),
         NEW at, at = CHOOSE i \in DOMAIN op : op[i] = n,
         NEW oq, NEW y, CutAt(op, at, oq, y)
  PROVE  Parted(ix, op, oq, In(y), n)
<1>1. op \in Seq(Nodes) /\ Len(op) \in Nat /\ DOMAIN op = 1 .. Len(op)
  BY Indices DEF OpenOK
<1>2. PICK N \in Nat : N = Len(op)
  BY <1>1
<1>3. at \in 1 .. N /\ op[at] = n
  <2>1. \E i \in DOMAIN op : op[i] = n
    BY DEF In
  <2> QED BY <1>1, <1>2, <2>1
<1>4. /\ oq \in Seq(Nodes) /\ DOMAIN oq = 1 .. at - 1 /\ \A i \in 1 .. at - 1 : oq[i] = op[i]
      /\ DOMAIN y = 1 .. N - at + 1 /\ \A i \in 1 .. N - at + 1 : y[i] = op[i + at - 1]
  <2>1. Parts(Nodes, op, at, oq, y)
    BY <1>1, Cut
  <2> QED BY <1>2, <2>1 DEF Parts
<1>5. \A i, j \in 1 .. N : i < j => ix[op[i]] < ix[op[j]]
  BY <1>1, <1>2 DEF OpenOK
<1>6. \A i \in 1 .. N : op[i] \in Nodes /\ ix[op[i]] \in Nat
  <2>1. \A i \in 1 .. N : op[i] \in Nodes
    BY <1>1, <1>2, ElementOf
  <2> QED BY <2>1 DEF NumbersOK
<1>7. \A i \in 1 .. N : (i < at \/ i = at \/ at < i) /\ (i < at => i \in 1 .. at - 1)
  BY <1>3
<1>8. \A i \in 1 .. at - 1 : i \in 1 .. N /\ i < at
  BY <1>3
<1>9. \A i \in 1 .. N : i < at <=> ix[op[i]] < ix[n]
  BY <1>3, <1>5, <1>6, <1>7
<1>10. In(op) = {op[i] : i \in 1 .. N} /\ In(oq) = {op[i] : i \in 1 .. at - 1}
  <2>1. \A i \in DOMAIN oq : oq[i] = op[i]
    BY <1>4
  <2>2. In(oq) = {op[i] : i \in DOMAIN oq}
    BY <2>1 DEF In
  <2> QED BY <1>1, <1>2, <1>4, <2>2 DEF In
<1>11. In(oq) = {w \in In(op) : ix[w] < ix[n]}
  BY <1>7, <1>8, <1>9, <1>10
<1>12. In(y) = {op[i] : i \in {j \in 1 .. N : at <= j}}
  <2>1. ASSUME NEW i \in 1 .. N - at + 1 PROVE i + at - 1 \in 1 .. N /\ at <= i + at - 1
    BY <1>3, <2>1
  <2>2. ASSUME NEW j \in 1 .. N, at <= j PROVE j - at + 1 \in 1 .. N - at + 1 /\ (j - at + 1) + at - 1 = j
    BY <1>3, <2>2
  <2>3. ASSUME NEW w \in In(y) PROVE w \in {op[i] : i \in {j \in 1 .. N : at <= j}}
    <3>1. PICK i \in 1 .. N - at + 1 : w = y[i]
      BY <1>4, <2>3 DEF In
    <3>2. w = op[i + at - 1]
      BY <1>4, <3>1
    <3> QED BY <2>1, <3>1, <3>2
  <2>4. ASSUME NEW j \in 1 .. N, at <= j PROVE op[j] \in In(y)
    <3>1. y[j - at + 1] = op[j] /\ j - at + 1 \in DOMAIN y
      BY <1>4, <2>2, <2>4
    <3> QED BY <3>1 DEF In
  <2> QED BY <2>3, <2>4
<1>13. In(y) = {w \in In(op) : ix[n] <= ix[w]}
  <2>1. ix[n] \in Nat
    BY <1>3, <1>6
  <2>2. \A i \in 1 .. N : at <= i <=> ix[n] <= ix[op[i]]
    <3> SUFFICES ASSUME NEW i \in 1 .. N PROVE at <= i <=> ix[n] <= ix[op[i]]
      OBVIOUS
    <3>1. at \in Int /\ i \in Int /\ ix[op[i]] \in Nat
      BY <1>3, <1>6
    <3>2. i < at <=> ix[op[i]] < ix[n]
      BY <1>9
    <3> QED BY <2>1, <3>1, <3>2
  <2> QED BY <1>10, <1>12, <2>2
<1>14. \A i, j \in DOMAIN oq : i < j => ix[oq[i]] < ix[oq[j]]
  <2> SUFFICES ASSUME NEW i \in 1 .. at - 1, NEW j \in 1 .. at - 1, i < j PROVE ix[oq[i]] < ix[oq[j]]
    BY <1>4
  <2>1. i \in 1 .. N /\ j \in 1 .. N
    BY <1>8
  <2>2. oq[i] = op[i] /\ oq[j] = op[j]
    BY <1>4
  <2> QED BY <1>5, <2>1, <2>2
<1> QED BY <1>4, <1>11, <1>13, <1>14 DEF Parted

(* What was entered since is what reaches it and is reached from it.       *)
LEMMA GroupFound ==
  ASSUME CallsOK, NEW ix, NEW lw, NEW op, NEW vs, NEW gs, WalkOK(ix, lw, op, vs, gs),
         NEW N, NEW n, NEW z, Left(ix, lw, In(op), vs, z, N, n), N = Len(vs),
         vs[N].edge \notin DOMAIN graph[n], lw[n] = ix[n],
         NEW g, g = {y \in In(op) : ix[n] <= ix[y]}
  PROVE  /\ n \in g /\ g \in SUBSET Nodes /\ g \cap Gathered(gs) = {}
         /\ \A x \in g : /\ g = {x} \cup {m \in Reached(x) : x \in Reached(m)}
                         /\ Reached(x) \subseteq g \cup Gathered(gs)
<1>1. /\ NumbersOK(ix, lw) /\ OpenOK(ix, op, gs) /\ FramesOK(ix, In(op), vs)
      /\ ReachOK(ix, lw, In(op), vs) /\ LowOK(ix, lw, In(op), vs)
      /\ gs \in Seq(SUBSET Nodes) /\ GroupsOK(gs)
  BY DEF WalkOK
<1>2. PICK O : O = In(op)
  OBVIOUS
<1>3. O \in SUBSET Nodes /\ \A m \in O : ix[m] # 0
  BY <1>1, <1>2, InOpen
<1>4. /\ N \in Nat /\ N # 0 /\ DOMAIN vs = 1 .. N /\ n = vs[N].fn /\ n \in O
      /\ \A i \in 1 .. N : i = N \/ (i \in 1 .. N - 1 /\ i < N /\ ix[vs[i].fn] < ix[n])
      /\ \A i \in 1 .. N : vs[i].fn \in O /\ vs[i].fn \in Nodes
  BY <1>2 DEF Left
<1>5. \A m \in Nodes : ix[m] \in Nat
  BY <1>1 DEF NumbersOK
<1>6. n \in g /\ g \subseteq O /\ n \in Nodes /\ \A y \in g : y \in Nodes /\ ix[n] <= ix[y]
  BY <1>2, <1>3, <1>4, <1>5
<1>7. g \cap Gathered(gs) = {}
  BY <1>1, <1>2, <1>6 DEF OpenOK
<1>8. \A y \in g : Leads(n, y) /\ Leads(y, n)
  <2> SUFFICES ASSUME NEW y \in g PROVE Leads(n, y) /\ Leads(y, n)
    OBVIOUS
  <2>1. Leads(n, y)
    BY <1>1, <1>2, <1>4, <1>6 DEF ReachOK
  <2>2. Leads(y, vs[Len(vs)].fn)
    BY <1>1, <1>2, <1>3, <1>6, AllReachTop
  <2> QED BY <1>4, <2>1, <2>2
<1>9. ASSUME NEW y \in g PROVE Passed(vs, y) = Calls(y)
  <2>1. \A k \in DOMAIN vs : vs[k].fn = y => k = N /\ y = n
    <3>1. ~(ix[y] < ix[n])
      BY <1>5, <1>6
    <3> QED BY <1>4, <3>1
  <2>2. \A i \in DOMAIN graph[n] : i < vs[N].edge
    <3>1. vs[N].edge \in 1 .. Len(graph[n]) + 1
      BY <1>1, <1>4 DEF FramesOK
    <3>2. Len(graph[n]) \in Nat /\ DOMAIN graph[n] = 1 .. Len(graph[n])
      BY <1>6, TheNodes
    <3> QED BY <3>1, <3>2
  <2>3. \A i \in DOMAIN graph[y] : \A k \in DOMAIN vs : vs[k].fn = y => i < vs[k].edge
    BY <2>1, <2>2
  <2>4. Calls(y) = {graph[y][i] : i \in DOMAIN graph[y]}
    BY <1>6, TheNodes
  <2> QED BY <2>3, <2>4 DEF Passed
<1>10. PICK W : W = g \cup Gathered(gs)
  OBVIOUS
<1>11. ASSUME NEW y \in g PROVE Calls(y) \subseteq W
  <2> SUFFICES ASSUME NEW c \in Calls(y) PROVE c \in W
    OBVIOUS
  <2>1. c \in Nodes /\ c \in Passed(vs, y) /\ y \in O
    BY <1>6, <1>9, TheNodes
  <2>2. ix[c] # 0
    BY <1>1, <1>3, <1>6, <2>1 DEF LowOK
  <2>3. c \in O \/ c \in Gathered(gs)
    BY <1>1, <1>2, <2>1, <2>2 DEF OpenOK
  <2>4. CASE c \in O
    <3>1. Holds(ix, vs, N, y)
      <4>1. \A j \in 1 .. N : ~(j > N)
        BY <1>4
      <4> QED BY <1>4, <1>6, <4>1 DEF Holds
    <3>2. lw[vs[N].fn] <= ix[c]
      <4>1. N \in DOMAIN vs
        BY <1>4
      <4> QED BY <1>1, <1>2, <2>1, <2>4, <3>1, <4>1 DEF LowOK
    <3>3. ix[n] <= ix[c]
      BY <1>4, <3>2
    <3> QED BY <1>2, <1>10, <2>4, <3>3
  <2> QED BY <1>10, <2>3, <2>4
<1>12. ASSUME NEW m \in Gathered(gs) PROVE m \in Nodes /\ Reached(m) \subseteq Gathered(gs)
  <2>1. PICK i \in DOMAIN gs : m \in gs[i]
    BY <1>12 DEF Gathered
  <2>2. m \in Nodes /\ Reached(m) \subseteq UNION {gs[j] : j \in 1 .. i}
    BY <1>1, <2>1 DEF GroupsOK
  <2>3. \A j \in 1 .. i : j \in DOMAIN gs
    <3>1. DOMAIN gs = 1 .. Len(gs) /\ Len(gs) \in Nat
      BY <1>1, Indices
    <3> QED BY <2>1, <3>1
  <2> QED BY <2>2, <2>3 DEF Gathered
<1>13. Closed(W)
  <2>1. W \in SUBSET Nodes
    BY <1>6, <1>10, <1>12
  <2>2. ASSUME NEW m \in Gathered(gs) PROVE Calls(m) \subseteq W
    BY <1>10, <1>12, <2>2, ReachedLeast
  <2> QED BY <1>10, <1>11, <2>1, <2>2 DEF Closed
<1>14. ASSUME NEW x \in g
       PROVE  g = {x} \cup {m \in Reached(x) : x \in Reached(m)} /\ Reached(x) \subseteq W
  <2>1. Reached(x) \subseteq W
    BY <1>6, <1>11, <1>13, <1>14, ReachedLeast
  <2>2. ASSUME NEW m \in g, m # x PROVE m \in Reached(x) /\ x \in Reached(m)
    <3>1. Leads(x, m) /\ Leads(m, x)
      BY <1>6, <1>8, <1>14, <2>2, LeadsOn
    <3> QED BY <2>2, <3>1 DEF Leads
  <2>3. ASSUME NEW m \in Reached(x), x \in Reached(m) PROVE m \in g
    <3>1. m \in W
      BY <2>1, <2>3
    <3>2. m \notin Gathered(gs)
      BY <1>7, <1>12, <1>14, <2>3
    <3> QED BY <1>10, <3>1, <3>2
  <2> QED BY <1>14, <2>1, <2>2, <2>3
<1> QED BY <1>6, <1>7, <1>10, <1>14

AddGroup(hs, gs, g) == hs = Append(gs, g)

LEMMA GroupsAdded ==
  ASSUME NEW gs, gs \in Seq(SUBSET Nodes), GroupsOK(gs), NEW g \in SUBSET Nodes, NEW n \in g, NEW hs, AddGroup(hs, gs, g),
         g \cap Gathered(gs) = {},
         \A x \in g : /\ g = {x} \cup {m \in Reached(x) : x \in Reached(m)}
                      /\ Reached(x) \subseteq g \cup Gathered(gs)
  PROVE  hs \in Seq(SUBSET Nodes) /\ GroupsOK(hs) /\ Gathered(hs) = Gathered(gs) \cup g
<1>1. PICK S : S = SUBSET Nodes
  OBVIOUS
<1>2. PICK M \in Nat : M = Len(gs)
  BY Indices
<1>3. /\ hs \in Seq(S) /\ DOMAIN hs = 1 .. M + 1 /\ DOMAIN gs = 1 .. M /\ hs[M + 1] = g
      /\ \A i \in 1 .. M : hs[i] = gs[i]
  <2>1. gs \in Seq(S) /\ g \in S /\ hs = Append(gs, g)
    BY <1>1 DEF AddGroup
  <2> QED BY <1>2, <2>1, Pushed
<1>4. /\ M + 1 \in 1 .. M + 1 /\ \A i \in 1 .. M + 1 : i = M + 1 \/ i \in 1 .. M
      /\ \A i \in 1 .. M : i \in 1 .. M + 1 /\ i # M + 1 /\ \A j \in 1 .. i : j \in 1 .. M
  OBVIOUS
<1>5. Gathered(hs) = Gathered(gs) \cup g
  BY <1>3, <1>4 DEF Gathered
<1>6. \A i \in 1 .. M : gs[i] \subseteq Gathered(gs) /\ gs[i] \cap g = {}
  BY <1>3 DEF Gathered
<1>7. ASSUME NEW i \in 1 .. M
      PROVE  /\ hs[i] \in SUBSET Nodes /\ hs[i] # {}
             /\ \A j \in DOMAIN hs : j # i => hs[i] \cap hs[j] = {}
             /\ \A x \in hs[i] : /\ hs[i] = {x} \cup {m \in Reached(x) : x \in Reached(m)}
                                 /\ Reached(x) \subseteq UNION {hs[j] : j \in 1 .. i}
  <2>1. /\ gs[i] \in SUBSET Nodes /\ gs[i] # {}
        /\ \A j \in DOMAIN gs : j # i => gs[i] \cap gs[j] = {}
        /\ \A x \in gs[i] : /\ gs[i] = {x} \cup {m \in Reached(x) : x \in Reached(m)}
                            /\ Reached(x) \subseteq UNION {gs[j] : j \in 1 .. i}
    BY <1>3 DEF GroupsOK
  <2>2. UNION {hs[j] : j \in 1 .. i} = UNION {gs[j] : j \in 1 .. i}
    BY <1>3, <1>4
  <2>3. \A j \in 1 .. M + 1 : j # i => hs[i] \cap hs[j] = {}
    BY <1>3, <1>4, <1>6, <2>1
  <2> QED BY <1>3, <2>1, <2>2, <2>3
<1>8. \A j \in 1 .. M + 1 : j # M + 1 => g \cap hs[j] = {}
  BY <1>3, <1>4, <1>6
<1>9. UNION {hs[j] : j \in 1 .. M + 1} = Gathered(hs)
  BY <1>3 DEF Gathered
<1>10. GroupsOK(hs)
  BY <1>3, <1>4, <1>5, <1>7, <1>8, <1>9 DEF GroupsOK
<1> QED BY <1>1, <1>3, <1>5, <1>10

LEMMA WalkGrouped ==
  ASSUME CallsOK, NEW ix, NEW lw, NEW op, NEW vs, NEW gs, WalkOK(ix, lw, op, vs, gs),
         NEW N, NEW n, NEW z, Left(ix, lw, In(op), vs, z, N, n), N = Len(vs),
         vs[N].edge \notin DOMAIN graph[n], lw[n] = ix[n],
         NEW oq, NEW g, Parted(ix, op, oq, g, n), NEW hs, AddGroup(hs, gs, g)
  PROVE  WalkOK(ix, lw, oq, z, hs)
<1>1. /\ NumbersOK(ix, lw) /\ OpenOK(ix, op, gs) /\ FramesOK(ix, In(op), vs)
      /\ ReachOK(ix, lw, In(op), vs) /\ LowOK(ix, lw, In(op), vs)
      /\ gs \in Seq(SUBSET Nodes) /\ GroupsOK(gs)
  BY DEF WalkOK
<1>2. PICK O : O = In(op)
  OBVIOUS
<1>3. PICK Q : Q = In(oq)
  OBVIOUS
<1>4. O \in SUBSET Nodes
  BY <1>1, <1>2, InOpen
<1>5. /\ N \in Nat /\ N # 0 /\ DOMAIN vs = 1 .. N /\ n = vs[N].fn /\ n \in O
      /\ z \in Seq([fn : Nodes, edge : Nat]) /\ DOMAIN z = 1 .. N - 1 /\ Len(z) = N - 1
      /\ \A i \in 1 .. N - 1 : z[i] = vs[i] /\ i \in 1 .. N
      /\ \A i \in 1 .. N : i = N \/ (i \in 1 .. N - 1 /\ i < N /\ ix[vs[i].fn] < ix[n])
      /\ \A i \in 1 .. N : vs[i].fn \in O /\ vs[i].fn \in Nodes
      /\ \A m \in Nodes : Passed(z, m) = Passed(vs, m)
  BY <1>2 DEF Left
<1>6. /\ oq \in Seq(Nodes) /\ Q = {y \in O : ix[y] < ix[n]} /\ g = {y \in O : ix[n] <= ix[y]}
      /\ \A i, j \in DOMAIN oq : i < j => ix[oq[i]] < ix[oq[j]]
  BY <1>2, <1>3 DEF Parted
<1>7. \A y \in Nodes : ix[y] \in Nat /\ lw[y] \in Nat
  BY <1>1 DEF NumbersOK
<1>8. Q \subseteq O /\ O = Q \cup g /\ Q \cap g = {} /\ n \in Nodes
  <2>1. n \in Nodes /\ ix[n] \in Nat /\ \A y \in O : ix[y] \in Nat
    BY <1>4, <1>5, <1>7
  <2>2. \A y \in O : (ix[y] < ix[n]) <=> ~(ix[n] <= ix[y])
    BY <2>1
  <2> QED BY <1>6, <2>1, <2>2
<1>9. /\ n \in g /\ g \in SUBSET Nodes /\ g \cap Gathered(gs) = {}
      /\ \A x \in g : /\ g = {x} \cup {m \in Reached(x) : x \in Reached(m)}
                      /\ Reached(x) \subseteq g \cup Gathered(gs)
  BY <1>2, <1>6, GroupFound
<1>10. hs \in Seq(SUBSET Nodes) /\ GroupsOK(hs) /\ Gathered(hs) = Gathered(gs) \cup g
  BY <1>1, <1>9, GroupsAdded
<1>11. OpenOK(ix, oq, hs)
  <2>1. \A m \in Nodes : ix[m] # 0 <=> m \in Q \cup Gathered(hs)
    BY <1>1, <1>2, <1>8, <1>10 DEF OpenOK
  <2>2. Q \cap Gathered(hs) = {}
    BY <1>1, <1>2, <1>8, <1>10 DEF OpenOK
  <2> QED BY <1>3, <1>6, <2>1, <2>2 DEF OpenOK
<1>12. \A i \in 1 .. N - 1 : i \in 1 .. N /\ i # N /\ z[i] = vs[i] /\ vs[i].fn \in Q /\ ix[vs[i].fn] < ix[n]
  <2>1. \A i \in 1 .. N - 1 : i # N
    BY <1>5
  <2> QED BY <1>5, <1>6, <2>1
<1>13. FramesOK(ix, Q, z)
  <2>1. \A i \in 1 .. N - 1 : vs[i].edge \in 1 .. Len(graph[vs[i].fn]) + 1
    BY <1>1, <1>2, <1>5 DEF FramesOK
  <2>2. \A i, j \in 1 .. N - 1 : i < j => ix[vs[i].fn] < ix[vs[j].fn]
    BY <1>1, <1>5 DEF FramesOK
  <2>4. \A k \in DOMAIN z : z[k].fn \in Q /\ z[k].edge \in 1 .. Len(graph[z[k].fn]) + 1
    BY <1>5, <1>12, <2>1
  <2>5. \A i, j \in DOMAIN z : i < j => ix[z[i].fn] < ix[z[j].fn]
    BY <1>5, <2>2
  <2>6. \A i, j \in DOMAIN z : j = i + 1 =>
          z[i].edge \in DOMAIN graph[z[i].fn] /\ graph[z[i].fn][z[i].edge] = z[j].fn
    <3> SUFFICES ASSUME NEW i \in 1 .. N - 1, NEW j \in 1 .. N - 1, j = i + 1
                 PROVE  z[i].edge \in DOMAIN graph[z[i].fn] /\ graph[z[i].fn][z[i].edge] = z[j].fn
      <4>1. DOMAIN z = 1 .. N - 1
        BY <1>5
      <4> QED BY <4>1
    <3>1. i \in 1 .. N /\ j \in 1 .. N /\ z[i] = vs[i] /\ z[j] = vs[j]
      BY <1>12
    <3>2. vs[i].edge \in DOMAIN graph[vs[i].fn] /\ graph[vs[i].fn][vs[i].edge] = vs[j].fn
      BY <1>1, <1>5, <3>1 DEF FramesOK
    <3> QED BY <3>1, <3>2
  <2> QED BY <1>5, <2>4, <2>5, <2>6 DEF FramesOK
<1>14. ASSUME NEW y \in Q PROVE \E j \in DOMAIN z : ix[z[j].fn] <= ix[y] /\ Leads(y, z[j].fn)
  <2>1. PICK j \in 1 .. N : ix[vs[j].fn] <= ix[y] /\ Leads(y, vs[j].fn)
    BY <1>1, <1>2, <1>5, <1>8 DEF ReachOK
  <2>2. j # N
    <3>1. ix[y] < ix[n] /\ ix[y] \in Nat /\ ix[n] \in Nat
      BY <1>4, <1>6, <1>7, <1>8
    <3> QED BY <1>5, <2>1, <3>1
  <2> QED BY <1>5, <2>1, <2>2
<1>15. ASSUME NEW i \in 1 .. N - 1
       PROVE  lw[vs[i].fn] <= ix[vs[i].fn] /\ \E w \in Q : ix[w] = lw[vs[i].fn] /\ Leads(vs[i].fn, w)
  <2>1. lw[vs[i].fn] <= ix[vs[i].fn]
    BY <1>1, <1>2, <1>5, <1>12 DEF ReachOK
  <2>2. PICK w \in O : ix[w] = lw[vs[i].fn] /\ Leads(vs[i].fn, w)
    BY <1>1, <1>2, <1>5, <1>12 DEF ReachOK
  <2>3. ix[w] < ix[n]
    <3>1. ix[w] \in Nat /\ ix[n] \in Nat /\ ix[vs[i].fn] \in Nat /\ ix[vs[i].fn] < ix[n]
      BY <1>4, <1>5, <1>7, <1>8, <1>12, <2>2
    <3> QED BY <2>1, <2>2, <3>1
  <2> QED BY <1>6, <2>1, <2>2, <2>3
<1>16. ReachOK(ix, lw, Q, z)
  <2>1. \A i \in DOMAIN z : lw[z[i].fn] <= ix[z[i].fn] /\ \E w \in Q : ix[w] = lw[z[i].fn] /\ Leads(z[i].fn, w)
    BY <1>5, <1>15
  <2>2. \A x, y \in Q : ix[x] <= ix[y] => Leads(x, y)
    BY <1>1, <1>2, <1>8 DEF ReachOK
  <2> QED BY <1>14, <2>1, <2>2 DEF ReachOK
<1>17. ASSUME NEW i \in DOMAIN z, NEW y \in Q, Holds(ix, z, i, y), NEW c \in Passed(z, y), c \in Q
       PROVE  lw[z[i].fn] <= ix[c]
  <2>1. /\ z[i] = vs[i] /\ i \in DOMAIN vs /\ c \in Passed(vs, y) /\ y \in Nodes /\ y \in O /\ c \in O
        /\ ix[y] < ix[n]
    BY <1>4, <1>5, <1>6, <1>8, <1>17
  <2>2. ASSUME NEW j \in DOMAIN vs, j > i PROVE ix[y] < ix[vs[j].fn]
    <3>1. CASE j = N
      BY <1>5, <2>1, <3>1
    <3>2. CASE j # N
      <4>1. j \in DOMAIN z /\ z[j] = vs[j]
        BY <1>5, <3>2
      <4> QED BY <1>17, <2>2, <4>1 DEF Holds
    <3> QED BY <3>1, <3>2
  <2>3. Holds(ix, vs, i, y)
    BY <1>17, <2>1, <2>2 DEF Holds
  <2> QED BY <1>1, <1>2, <2>1, <2>3 DEF LowOK
<1>18. LowOK(ix, lw, Q, z)
  <2>1. \A m \in Nodes : ix[m] # 0 => \A c \in Passed(z, m) : ix[c] # 0
    BY <1>1, <1>5 DEF LowOK
  <2> QED BY <1>17, <2>1 DEF LowOK
<1> QED BY <1>1, <1>3, <1>10, <1>11, <1>13, <1>16, <1>18 DEF WalkOK
-----------------------------------------------------------------------------
(* The calls stay as they are. *)
LEMMA CallsStay ==
  ASSUME graph' = graph
  PROVE  /\ CallsOK' = CallsOK /\ Nodes' = Nodes
         /\ \A n : Calls(n)' = Calls(n) /\ Reached(n)' = Reached(n)
         /\ \A W : Closed(W)' = Closed(W)
<1>1. Nodes' = Nodes /\ CallsOK' = CallsOK
  BY DEF Nodes, CallsOK
<1>2. \A n : Calls(n)' = Calls(n)
  BY DEF Calls
<1>3. \A n : Reached(n)' = Reached(n)
  BY <1>1, <1>2 DEF Reached
<1>4. \A W : Closed(W)' = Closed(W)
  BY <1>1, <1>2 DEF Closed
<1> QED BY <1>1, <1>2, <1>3, <1>4

LEMMA WalkStays ==
  ASSUME graph' = graph, NEW ix, NEW lw, NEW op, NEW vs, NEW gs, WalkOK(ix, lw, op, vs, gs)
  PROVE  WalkOK(ix, lw, op, vs, gs)'
<1>1. Nodes' = Nodes /\ \A n : Reached(n)' = Reached(n)
  BY CallsStay
<1>2. \A a, b : Leads(a, b)' <=> Leads(a, b)
  BY <1>1 DEF Leads
<1>3. \A n : Passed(vs, n)' = Passed(vs, n)
  BY DEF Passed
<1>4. NumbersOK(ix, lw)'
  <2>1. NumbersOK(ix, lw) /\ Seen(ix)' = Seen(ix)
    BY <1>1 DEF WalkOK, Seen
  <2> QED BY <1>1, <2>1 DEF NumbersOK
<1>5. OpenOK(ix, op, gs)'
  BY <1>1 DEF WalkOK, OpenOK, In, Gathered
<1>6. FramesOK(ix, In(op), vs)'
  BY <1>1 DEF WalkOK, FramesOK, In
<1>7. ReachOK(ix, lw, In(op), vs)'
  BY <1>2 DEF WalkOK, ReachOK, In
<1>8. LowOK(ix, lw, In(op), vs)'
  BY <1>1, <1>3 DEF WalkOK, LowOK, Holds, In
<1>9. (gs \in Seq(SUBSET Nodes))' /\ GroupsOK(gs)'
  BY <1>1 DEF WalkOK, GroupsOK
<1> QED BY <1>4, <1>5, <1>6, <1>7, <1>8, <1>9 DEF WalkOK

(* The walk as it stands. *)
WalkAt(ix, lw, op, vs, gs) ==
  ix = index /\ lw = low /\ op = open /\ vs = visits /\ gs = groups
WalkNow == \E ix, lw, op, vs, gs : WalkAt(ix, lw, op, vs, gs) /\ WalkOK(ix, lw, op, vs, gs)

LEMMA EnterKeeps ==
  ASSUME CallsOK, WalkNow, graph' = graph, groups' = groups, NEW c, c \in Nodes, index[c] = 0, Entering(visits, c),
         Enter(c, visits)
  PROVE  WalkNow'
<1>1. PICK ix, lw, op, vs, gs : WalkAt(ix, lw, op, vs, gs) /\ WalkOK(ix, lw, op, vs, gs)
  BY DEF WalkNow
<1>2. PICK next : next = 1 + Cardinality(Seen(ix))
  OBVIOUS
<1>3. PICK jx, mw, oq, z : jx = index' /\ mw = low' /\ oq = open' /\ z = visits'
  OBVIOUS
<1>4. Put(jx, ix, c, next) /\ Put(mw, lw, c, next) /\ PushOpen(oq, op, c) /\ Push(z, vs, c)
  BY <1>1, <1>2, <1>3 DEF WalkAt, Enter, Put, PushOpen, Push, Seen
<1>5. ix[c] = 0 /\ Entering(vs, c)
  BY <1>1 DEF WalkAt
<1>6. WalkOK(jx, mw, oq, z, gs)
  BY <1>1, <1>2, <1>4, <1>5, WalkEntered
<1>7. WalkOK(jx, mw, oq, z, gs)'
  BY <1>6, WalkStays
<1>8. WalkAt(jx, mw, oq, z, gs)'
  BY <1>1, <1>3 DEF WalkAt
<1> QED BY <1>7, <1>8 DEF WalkNow

LEMMA VisitNextKeeps == ASSUME CallsOK, WalkNow, VisitNext PROVE WalkNow'
<1>1. PICK c : c = LeastOf(Unvisited)
  OBVIOUS
<1>2. c \in Nodes /\ index[c] = 0
  <2>1. Unvisited \in SUBSET Nat /\ Unvisited # {}
    <3>1. Nodes \in SUBSET Nat
      BY TheNodes
    <3> QED BY <3>1 DEF Unvisited, VisitNext
  <2>2. c \in Unvisited
    BY <1>1, <2>1, TheLeast
  <2> QED BY <2>2 DEF Unvisited
<1>3. graph' = graph /\ groups' = groups /\ Enter(c, visits) /\ visits = <<>>
  BY <1>1 DEF VisitNext, Visiting
<1>4. Entering(visits, c)
  BY <1>3 DEF Entering
<1> QED BY <1>2, <1>3, <1>4, EnterKeeps

(* The visit under way, and the callee it is at. *)
LEMMA Visited ==
  ASSUME CallsOK, NEW ix, NEW lw, NEW op, NEW vs, NEW gs, WalkAt(ix, lw, op, vs, gs), WalkOK(ix, lw, op, vs, gs),
         Visiting
  PROVE  /\ vs # <<>> /\ Len(vs) \in Nat /\ Len(vs) \in DOMAIN vs /\ Innermost = vs[Len(vs)]
         /\ vs[Len(vs)].fn \in Nodes /\ vs[Len(vs)].fn \in In(op)
         /\ EdgesLeft <=> vs[Len(vs)].edge \in DOMAIN graph[vs[Len(vs)].fn]
         /\ EdgesLeft => /\ Callee = graph[vs[Len(vs)].fn][vs[Len(vs)].edge]
                         /\ Callee \in Nodes /\ Callee \in Calls(vs[Len(vs)].fn)
<1>1. vs = visits /\ vs # <<>>
  BY DEF WalkAt, Visiting
<1>2. FramesOK(ix, In(op), vs) /\ In(op) \in SUBSET Nodes
  BY InOpen DEF WalkOK
<1>3. vs \in Seq([fn : Nodes, edge : Nat])
  BY <1>2 DEF FramesOK
<1>4. PICK N \in Nat : N = Len(vs) /\ N \in DOMAIN vs
  BY <1>1, <1>3, Indices
<1>5. PICK n, e : n = vs[N].fn /\ e = vs[N].edge
  OBVIOUS
<1>6. n \in In(op) /\ n \in Nodes /\ e \in 1 .. Len(graph[n]) + 1
  BY <1>2, <1>4, <1>5 DEF FramesOK
<1>7. Len(graph[n]) \in Nat /\ DOMAIN graph[n] = 1 .. Len(graph[n])
  BY <1>6, TheNodes
<1>8. Innermost = vs[N] /\ (EdgesLeft <=> e <= Len(graph[n]))
  BY <1>1, <1>4, <1>5 DEF Innermost, EdgesLeft
<1>9. EdgesLeft <=> e \in DOMAIN graph[n]
  BY <1>6, <1>7, <1>8
<1>10. EdgesLeft => Callee = graph[n][e] /\ Callee \in Nodes /\ Callee \in Calls(n)
  <2> SUFFICES ASSUME e \in DOMAIN graph[n] PROVE Callee = graph[n][e] /\ Callee \in Nodes /\ Callee \in Calls(n)
    BY <1>9
  <2>1. Callee = graph[n][e]
    BY <1>5, <1>8 DEF Callee
  <2>2. graph[n][e] \in Calls(n) /\ Calls(n) \subseteq Nodes
    BY <1>6, TheNodes
  <2> QED BY <2>1, <2>2
<1> QED BY <1>1, <1>4, <1>5, <1>6, <1>8, <1>9, <1>10

LEMMA VisitCalleeKeeps == ASSUME CallsOK, WalkNow, VisitCallee PROVE WalkNow'
<1>1. PICK ix, lw, op, vs, gs : WalkAt(ix, lw, op, vs, gs) /\ WalkOK(ix, lw, op, vs, gs)
  BY DEF WalkNow
<1>2. Visiting /\ EdgesLeft /\ index[Callee] = 0 /\ Enter(Callee, visits) /\ graph' = graph /\ groups' = groups
  BY DEF VisitCallee
<1>3. PICK c : c = Callee
  OBVIOUS
<1>4. /\ Callee = graph[vs[Len(vs)].fn][vs[Len(vs)].edge] /\ Callee \in Nodes
      /\ vs[Len(vs)].edge \in DOMAIN graph[vs[Len(vs)].fn]
  BY <1>1, <1>2, Visited
<1>5. Entering(visits, c) /\ c \in Nodes /\ index[c] = 0 /\ Enter(c, visits)
  BY <1>1, <1>2, <1>3, <1>4 DEF Entering, WalkAt
<1> QED BY <1>2, <1>5, EnterKeeps

LEMMA SeenCalleeKeeps == ASSUME CallsOK, WalkNow, SeenCallee PROVE WalkNow'
<1>1. PICK ix, lw, op, vs, gs : WalkAt(ix, lw, op, vs, gs) /\ WalkOK(ix, lw, op, vs, gs)
  BY DEF WalkNow
<1>2. Visiting /\ EdgesLeft /\ index[Callee] # 0 /\ graph' = graph /\ index' = index /\ open' = open /\ groups' = groups
  BY DEF SeenCallee
<1>3. PICK k, n, e, c : k = Len(vs) /\ n = vs[k].fn /\ e = vs[k].edge /\ c = graph[n][e]
  OBVIOUS
<1>4. /\ k \in DOMAIN vs /\ vs # <<>> /\ e \in DOMAIN graph[n] /\ Callee = c /\ Innermost.fn = n
      /\ n \in Nodes /\ c \in Nodes /\ c \in Calls(n)
  BY <1>1, <1>2, <1>3, Visited
<1>5. PICK mw, z : mw = low' /\ z = visits'
  OBVIOUS
<1>6. Bump(z, vs) /\ ix[c] # 0
  BY <1>1, <1>2, <1>4, <1>5 DEF SeenCallee, NextEdge, Bump, WalkAt
<1>7. WalkOK(ix, mw, op, z, gs)
  <2>1. SeqExt!ToSet(open) = In(op)
    BY <1>1 DEF WalkAt, In, SeqExt!ToSet
  <2>2. CASE c \in In(op)
    <3>1. PICK v : v = LowOf(lw[n], ix[c])
      OBVIOUS
    <3>2. Put(mw, lw, n, v)
      BY <1>1, <1>4, <1>5, <2>1, <2>2, <3>1 DEF SeenCallee, WalkAt, Put
    <3>3. Leads(n, c)
      BY <1>4, ReachedLeast DEF Leads
    <3>4. WalkOK(ix, mw, op, vs, gs) /\ mw[n] <= ix[c]
      BY <1>1, <1>3, <1>4, <2>2, <3>1, <3>2, <3>3, WalkLowered
    <3> QED BY <1>3, <1>4, <1>6, <3>4, WalkBumped
  <2>3. CASE c \notin In(op)
    <3>1. mw = lw
      BY <1>1, <1>4, <1>5, <2>1, <2>3 DEF SeenCallee, WalkAt
    <3> QED BY <1>1, <1>3, <1>4, <1>6, <2>3, <3>1, WalkBumped
  <2> QED BY <2>2, <2>3
<1>8. WalkOK(ix, mw, op, z, gs)'
  BY <1>2, <1>7, WalkStays
<1>9. WalkAt(ix, mw, op, z, gs)'
  BY <1>1, <1>2, <1>5 DEF WalkAt
<1> QED BY <1>8, <1>9 DEF WalkNow

(* A visit that ends without a caller closes a group; the low of another   *)
(* goes to its caller, which goes on past it.                              *)
LEMMA LeftUncalled ==
  ASSUME CallsOK, NEW ix, NEW lw, NEW op, NEW vs, NEW gs, WalkOK(ix, lw, op, vs, gs),
         NEW N, NEW n, NEW z, Left(ix, lw, In(op), vs, z, N, n), z = <<>>
  PROVE  lw[n] = ix[n]
<1>1. N = 1
  <2>1. N \in Nat /\ Len(z) = N - 1 /\ Len(z) = 0
    BY DEF Left
  <2> QED BY <2>1
<1> QED BY <1>1, WalkLeft

Handed(lw, mw, p, n) == mw = [lw EXCEPT ![p] = LowOf(@, lw[n])]

LEMMA LeftCalled ==
  ASSUME CallsOK, NEW ix, NEW lw, NEW op, NEW vs, NEW gs, WalkOK(ix, lw, op, vs, gs),
         NEW N, NEW n, NEW z, Left(ix, lw, In(op), vs, z, N, n), z # <<>>,
         NEW p, p = z[Len(z)].fn, NEW mw, Handed(lw, mw, p, n)
  PROVE  /\ WalkOK(ix, mw, op, vs, gs) /\ Left(ix, mw, In(op), vs, z, N, n)
         /\ mw[n] = lw[n] /\ mw[vs[N - 1].fn] <= mw[n] /\ mw[p] <= ix[n]
         /\ ix[n] # 0 /\ z[Len(z)].edge \in DOMAIN graph[p] /\ graph[p][z[Len(z)].edge] = n
<1>1. /\ NumbersOK(ix, lw) /\ OpenOK(ix, op, gs) /\ FramesOK(ix, In(op), vs) /\ ReachOK(ix, lw, In(op), vs)
  BY DEF WalkOK
<1>2. PICK O : O = In(op)
  OBVIOUS
<1>3. O \in SUBSET Nodes /\ \A m \in O : ix[m] # 0
  BY <1>1, <1>2, InOpen
<1>4. /\ N \in Nat /\ N # 0 /\ DOMAIN vs = 1 .. N /\ n = vs[N].fn /\ n \in O
      /\ DOMAIN z = 1 .. N - 1 /\ Len(z) = N - 1 /\ z \in Seq([fn : Nodes, edge : Nat])
      /\ \A i \in 1 .. N - 1 : z[i] = vs[i] /\ i \in 1 .. N
      /\ \A i \in 1 .. N : i = N \/ (i \in 1 .. N - 1 /\ i < N /\ ix[vs[i].fn] < ix[n])
      /\ \A i \in 1 .. N : vs[i].fn \in O /\ vs[i].fn \in Nodes
  BY <1>2 DEF Left
<1>5. N - 1 \in 1 .. N - 1 /\ N - 1 # N /\ N \in 1 .. N /\ N = (N - 1) + 1
  <2>1. Len(z) # 0
    BY <1>4, Indices
  <2> QED BY <1>4, <2>1
<1>6. z[Len(z)] = vs[N - 1] /\ vs[N - 1].fn = p /\ N - 1 \in DOMAIN vs
  BY <1>4, <1>5
<1>7. p \in O /\ p \in Nodes /\ n \in Nodes /\ ix[p] < ix[n]
  <2>1. ix[vs[N - 1].fn] < ix[n] /\ vs[N - 1].fn \in O
    BY <1>4, <1>5
  <2> QED BY <1>3, <1>4, <1>6, <2>1
<1>8. PICK x \in O : ix[x] = lw[n] /\ Leads(n, x)
  BY <1>1, <1>2, <1>4, <1>5 DEF ReachOK
<1>9. Leads(p, n)
  <2>1. ix[p] \in Nat /\ ix[n] \in Nat
    BY <1>1, <1>7 DEF NumbersOK
  <2>2. ix[p] <= ix[n]
    BY <1>7, <2>1
  <2> QED BY <1>1, <1>2, <1>4, <1>7, <2>2 DEF ReachOK
<1>10. Leads(p, x)
  BY <1>7, <1>8, <1>9, LeadsOn
<1>11. PICK v : v = LowOf(lw[p], ix[x])
  OBVIOUS
<1>12. Put(mw, lw, p, v)
  BY <1>8, <1>11 DEF Handed, Put
<1>13. /\ WalkOK(ix, mw, op, vs, gs) /\ \A m \in Nodes : mw[m] = (IF m = p THEN v ELSE lw[m])
       /\ mw[p] <= ix[x]
  BY <1>2, <1>6, <1>7, <1>8, <1>10, <1>11, <1>12, WalkLowered
<1>14. mw[n] = lw[n] /\ ix[n] # 0
  <2>1. p # n
    <3>1. ix[n] \in Nat
      BY <1>1, <1>7 DEF NumbersOK
    <3> QED BY <1>7, <3>1
  <2> QED BY <1>3, <1>4, <1>7, <1>13, <2>1
<1>15. mw[p] <= ix[n]
  <2>1. lw[n] <= ix[n]
    BY <1>1, <1>2, <1>4, <1>5 DEF ReachOK
  <2>2. NumbersOK(ix, mw)
    BY <1>13 DEF WalkOK
  <2>3. mw[p] \in Nat /\ lw[n] \in Nat /\ ix[n] \in Nat
    BY <1>1, <1>7, <2>2 DEF NumbersOK
  <2> QED BY <1>8, <1>13, <2>1, <2>3
<1>16. Left(ix, mw, In(op), vs, z, N, n)
  BY DEF Left
<1>17. vs[N - 1].edge \in DOMAIN graph[vs[N - 1].fn] /\ graph[vs[N - 1].fn][vs[N - 1].edge] = vs[N].fn
  BY <1>1, <1>4, <1>5, <1>6 DEF FramesOK
<1> QED BY <1>4, <1>6, <1>8, <1>13, <1>14, <1>15, <1>16, <1>17

(* The visit that ends, and what closes with it: the functions open from n *)
(* on, as a group, or nothing.                                             *)
Closing(ix, lw, op, gs, n, oq, hs) ==
  LET at == CHOOSE i \in DOMAIN op : op[i] = n
  IN IF ix[n] = lw[n]
     THEN /\ hs = Append(gs, SeqExt!ToSet(SubSeq(op, at, Len(op))))
          /\ oq = SubSeq(op, 1, at - 1)
     ELSE oq = op /\ hs = gs

LEMMA ClosingKeeps ==
  ASSUME CallsOK, NEW ix, NEW lw, NEW op, NEW vs, NEW gs, WalkOK(ix, lw, op, vs, gs),
         NEW N, NEW n, NEW z, Left(ix, lw, In(op), vs, z, N, n), N = Len(vs),
         vs[N].edge \notin DOMAIN graph[n], N # 1 => lw[vs[N - 1].fn] <= lw[n],
         NEW oq, NEW hs, Closing(ix, lw, op, gs, n, oq, hs)
  PROVE  WalkOK(ix, lw, oq, z, hs)
<1>1. CASE ix[n] # lw[n]
  <2>1. oq = op /\ hs = gs
    BY <1>1 DEF Closing
  <2>2. WalkOK(ix, lw, op, z, gs)
    BY <1>1, WalkLeft
  <2> QED BY <2>1, <2>2
<1>2. CASE ix[n] = lw[n]
  <2>1. PICK at, y : at = (CHOOSE i \in DOMAIN op : op[i] = n) /\ y = SubSeq(op, at, Len(op))
    OBVIOUS
  <2>2. NumbersOK(ix, lw) /\ OpenOK(ix, op, gs) /\ n \in In(op) /\ op \in Seq(Nodes)
    BY DEF WalkOK, Left, OpenOK
  <2>3. at \in 1 .. Len(op)
    <3>1. \E i \in DOMAIN op : op[i] = n
      BY <2>2 DEF In
    <3>2. at \in DOMAIN op
      BY <2>1, <3>1
    <3> QED BY <2>2, <3>2, Indices
  <2>4. CutAt(op, at, oq, y)
    BY <1>2, <2>1, <2>3 DEF Closing, CutAt
  <2>5. Parted(ix, op, oq, In(y), n)
    BY <2>1, <2>2, <2>4, OpenParted
  <2>6. AddGroup(hs, gs, In(y))
    BY <1>2, <2>1 DEF Closing, AddGroup, In, SeqExt!ToSet
  <2> QED BY <1>2, <2>5, <2>6, WalkGrouped
<1> QED BY <1>1, <1>2

LEMMA CloseVisitKeeps == ASSUME CallsOK, WalkNow, CloseVisit PROVE WalkNow'
<1>1. PICK ix, lw, op, vs, gs : WalkAt(ix, lw, op, vs, gs) /\ WalkOK(ix, lw, op, vs, gs)
  BY DEF WalkNow
<1>2. Visiting /\ ~EdgesLeft /\ graph' = graph /\ index' = index
  BY DEF CloseVisit
<1>3. PICK N, n, z : N = Len(vs) /\ n = vs[N].fn /\ z = SubSeq(vs, 1, Len(vs) - 1)
  OBVIOUS
<1>4. vs # <<>> /\ Innermost.fn = n /\ vs[N].edge \notin DOMAIN graph[n]
  BY <1>1, <1>2, <1>3, Visited
<1>5. SeqExt!Front(visits) = z
  BY <1>1, <1>3 DEF WalkAt, SeqExt!Front
<1>6. PICK lx, oq, z1, hs : lx = low' /\ oq = open' /\ z1 = visits' /\ hs = groups'
  OBVIOUS
<1>7. Closing(ix, lw, op, gs, n, oq, hs)
  BY <1>1, <1>4, <1>6 DEF CloseVisit, Closing, WalkAt
<1>8. IF z = <<>> THEN z1 = z /\ lx = lw
      ELSE lx = [lw EXCEPT ![z[Len(z)].fn] = LowOf(@, lw[n])] /\ z1 = [z EXCEPT ![Len(z)].edge = @ + 1]
  BY <1>1, <1>4, <1>5, <1>6 DEF CloseVisit, WalkAt
<1>9. Left(ix, lw, In(op), vs, z, N, n)
  <2>1. In(op) \in SUBSET Nodes /\ FramesOK(ix, In(op), vs) /\ NumbersOK(ix, lw)
    BY <1>1, InOpen DEF WalkOK
  <2>2. Pop(z, vs)
    BY <1>3 DEF Pop
  <2> QED BY <1>3, <1>4, <2>1, <2>2, FrameLeft
<1>10. WalkOK(ix, lx, oq, z1, hs)
  <2>1. CASE z = <<>>
    <3>1. N = 1
      <4>1. N \in Nat /\ Len(z) = N - 1 /\ Len(z) = 0
        BY <1>9, <2>1 DEF Left
      <4> QED BY <4>1
    <3>2. WalkOK(ix, lw, oq, z, hs)
      BY <1>1, <1>3, <1>4, <1>7, <1>9, <3>1, ClosingKeeps
    <3> QED BY <1>8, <2>1, <3>2
  <2>2. CASE z # <<>>
    <3>1. PICK p : p = z[Len(z)].fn
      OBVIOUS
    <3>2. Handed(lw, lx, p, n) /\ Bump(z1, z)
      BY <1>8, <2>2, <3>1 DEF Handed, Bump
    <3>3. /\ WalkOK(ix, lx, op, vs, gs) /\ Left(ix, lx, In(op), vs, z, N, n)
          /\ lx[n] = lw[n] /\ lx[vs[N - 1].fn] <= lx[n] /\ lx[p] <= ix[n]
          /\ ix[n] # 0 /\ z[Len(z)].edge \in DOMAIN graph[p] /\ graph[p][z[Len(z)].edge] = n
      BY <1>1, <1>9, <2>2, <3>1, <3>2, LeftCalled
    <3>4. Closing(ix, lx, op, gs, n, oq, hs)
      BY <1>7, <3>3 DEF Closing
    <3>5. WalkOK(ix, lx, oq, z, hs)
      BY <1>3, <1>4, <3>3, <3>4, ClosingKeeps
    <3> QED BY <2>2, <3>1, <3>2, <3>3, <3>5, WalkBumped
  <2> QED BY <2>1, <2>2
<1>11. WalkOK(ix, lx, oq, z1, hs)'
  BY <1>2, <1>10, WalkStays
<1>12. WalkAt(ix, lx, oq, z1, hs)'
  BY <1>1, <1>2, <1>6 DEF WalkAt
<1> QED BY <1>11, <1>12 DEF WalkNow

(* With no visit under way all that was entered is in a group. *)
LEMMA AllGrouped ==
  ASSUME CallsOK, NEW ix, NEW lw, NEW op, NEW gs, WalkOK(ix, lw, op, <<>>, gs), \A n \in Nodes : ix[n] # 0
  PROVE  gs \in Seq(SUBSET Nodes) /\ GroupsOK(gs) /\ Gathered(gs) = Nodes
<1>1. gs \in Seq(SUBSET Nodes) /\ GroupsOK(gs) /\ ReachOK(ix, lw, In(op), <<>>) /\ OpenOK(ix, op, gs)
  BY DEF WalkOK
<1>2. In(op) = {}
  BY <1>1 DEF ReachOK
<1>3. Nodes \subseteq Gathered(gs)
  BY <1>1, <1>2 DEF OpenOK
<1>4. Gathered(gs) \subseteq Nodes
  BY <1>1 DEF GroupsOK, Gathered
<1> QED BY <1>1, <1>3, <1>4
-----------------------------------------------------------------------------
(* The search of a group G from its first function s0: cf is where each    *)
(* was found from, and d how many functions there are on the way to it.    *)
Found(s0, cf) == {s0} \cup {n \in Nodes : cf[n] # 0}

TreeOK(s0, G, cf, d) ==
  /\ cf \in [Nodes -> Nodes \cup {0}] /\ d \in [Nodes -> Nat] /\ cf[s0] = 0 /\ d[s0] = 1
  /\ s0 \in G /\ G \in SUBSET Nodes /\ Found(s0, cf) \subseteq G
  /\ \A n \in Found(s0, cf) : n # s0 => /\ cf[n] \in Found(s0, cf) /\ n \in Calls(cf[n])
                                        /\ d[n] = d[cf[n]] + 1

(* The queue has the nearest first, and nothing found is more than a call  *)
(* further than its head.                                                  *)
QueueOK(s0, cf, d, q) ==
  /\ q \in Seq(Nodes) /\ q # <<>>
  /\ \A i \in DOMAIN q : q[i] \in Found(s0, cf)
  /\ \A n \in Found(s0, cf) : d[n] <= d[q[1]] + 1
  /\ \A i, j \in DOMAIN q : i < j => d[q[i]] <= d[q[j]]

(* A call that was looked at does not close a cycle, and what it calls in  *)
(* the group is found, no further than by this call.                       *)
Looked(s0, G, cf, d, n, c) == c # s0 /\ (c \in G => c \in Found(s0, cf) /\ d[c] <= d[n] + 1)
CallsLookedAt(s0, G, cf, d, q, e) ==
  /\ \A n \in Found(s0, cf) : n \notin In(q) => \A c \in Calls(n) : Looked(s0, G, cf, d, n, c)
  /\ e \in 1 .. Len(graph[q[1]]) + 1
  /\ \A i \in DOMAIN graph[q[1]] : i < e => Looked(s0, G, cf, d, q[1], graph[q[1]][i])

(* What is traced of a cycle leads to the head, which calls s0.            *)
TraceOK(s0, cf, d, q, w) == w # <<>> =>
  /\ w \in Seq(Nodes) /\ In(w) \subseteq Found(s0, cf)
  /\ w[Len(w)] = q[1] /\ s0 \in Calls(q[1]) /\ CallsOn(w)
  /\ d[w[1]] + Len(w) = d[q[1]] + 1

SearchOK(s0, G, cf, q, e, w, d) ==
  /\ TreeOK(s0, G, cf, d) /\ QueueOK(s0, cf, d, q)
  /\ CallsLookedAt(s0, G, cf, d, q, e) /\ TraceOK(s0, cf, d, q, w)

AllZero(cf) == cf \in [Nodes -> Nodes \cup {0}] /\ \A n \in Nodes : cf[n] = 0

LEMMA SearchBegun ==
  ASSUME CallsOK, NEW G \in SUBSET Nodes, NEW s0 \in G, NEW cf, AllZero(cf), NEW q, q = <<s0>>
  PROVE  \E d : SearchOK(s0, G, cf, q, 1, <<>>, d)
<1>1. PICK d : d = [n \in Nodes |-> 1]
  OBVIOUS
<1>2. Found(s0, cf) = {s0} /\ s0 \in Nodes
  BY DEF Found, AllZero
<1>3. TreeOK(s0, G, cf, d)
  BY <1>1, <1>2 DEF TreeOK, AllZero
<1>4. q \in Seq(Nodes) /\ q # <<>> /\ DOMAIN q = {1} /\ q[1] = s0
  BY <1>2
<1>5. QueueOK(s0, cf, d, q)
  <2>1. d[s0] <= d[s0] + 1 /\ d[s0] <= d[s0]
    BY <1>1, <1>2
  <2> QED BY <1>2, <1>4, <2>1 DEF QueueOK
<1>6. CallsLookedAt(s0, G, cf, d, q, 1)
  <2>1. Len(graph[s0]) \in Nat /\ DOMAIN graph[s0] = 1 .. Len(graph[s0])
    BY <1>2, TheNodes
  <2>2. 1 \in 1 .. Len(graph[s0]) + 1 /\ \A i \in DOMAIN graph[s0] : ~(i < 1)
    BY <2>1
  <2>3. s0 \in In(q)
    BY <1>4 DEF In
  <2> QED BY <1>2, <1>4, <2>2, <2>3 DEF CallsLookedAt
<1> QED BY <1>3, <1>5, <1>6 DEF SearchOK, TraceOK

(* The call the search looks at. *)
LEMMA CallAt ==
  ASSUME CallsOK, NEW s0, NEW G, NEW cf, NEW q, NEW e, NEW w, NEW d, SearchOK(s0, G, cf, q, e, w, d)
  PROVE  /\ Len(q) \in Nat /\ DOMAIN q = 1 .. Len(q) /\ 1 \in DOMAIN q
         /\ q[1] \in Nodes /\ q[1] \in Found(s0, cf) /\ q[1] \in In(q)
         /\ e \in Nat /\ Len(graph[q[1]]) \in Nat /\ DOMAIN graph[q[1]] = 1 .. Len(graph[q[1]])
         /\ e <= Len(graph[q[1]]) =>
              /\ e \in DOMAIN graph[q[1]] /\ graph[q[1]][e] \in Calls(q[1]) /\ graph[q[1]][e] \in Nodes
              /\ e + 1 \in 1 .. Len(graph[q[1]]) + 1
              /\ \A i \in DOMAIN graph[q[1]] : i < e + 1 => i < e \/ i = e
<1>1. q \in Seq(Nodes) /\ q # <<>> /\ \A i \in DOMAIN q : q[i] \in Found(s0, cf)
  BY DEF SearchOK, QueueOK
<1>2. Len(q) \in Nat /\ DOMAIN q = 1 .. Len(q) /\ 1 \in DOMAIN q
  BY <1>1, Indices
<1>3. q[1] \in Nodes /\ q[1] \in Found(s0, cf) /\ q[1] \in In(q)
  BY <1>1, <1>2, ElementOf DEF In
<1>4. PICK h : h = q[1]
  OBVIOUS
<1>5. /\ Len(graph[h]) \in Nat /\ DOMAIN graph[h] = 1 .. Len(graph[h])
      /\ Calls(h) = {graph[h][i] : i \in DOMAIN graph[h]} /\ Calls(h) \subseteq Nodes
  BY <1>3, <1>4, TheNodes
<1>6. e \in 1 .. Len(graph[h]) + 1
  BY <1>4 DEF SearchOK, CallsLookedAt
<1>7. ASSUME e <= Len(graph[h])
      PROVE  /\ e \in DOMAIN graph[h] /\ graph[h][e] \in Calls(h) /\ graph[h][e] \in Nodes
             /\ e + 1 \in 1 .. Len(graph[h]) + 1 /\ \A i \in DOMAIN graph[h] : i < e + 1 => i < e \/ i = e
  <2>1. e \in DOMAIN graph[h] /\ e + 1 \in 1 .. Len(graph[h]) + 1
    BY <1>5, <1>6, <1>7
  <2>2. \A i \in DOMAIN graph[h] : i < e + 1 => i < e \/ i = e
    BY <1>5, <1>6
  <2> QED BY <1>5, <2>1, <2>2
<1>8. e \in Nat
  BY <1>5, <1>6
<1> QED BY <1>2, <1>3, <1>4, <1>5, <1>7, <1>8

(* A callee found is put last in the queue, a call further than the head.  *)
LEMMA SearchFound ==
  ASSUME CallsOK, NEW s0, NEW G, NEW cf, NEW q, NEW e, NEW d, SearchOK(s0, G, cf, q, e, <<>>, d),
         NEW h, h = q[1], e <= Len(graph[h]), NEW c, c = graph[h][e], c \in G, c # s0, cf[c] = 0,
         NEW df, Put(df, cf, c, h), NEW z, PushOpen(z, q, c)
  PROVE  \E b : SearchOK(s0, G, df, z, e + 1, <<>>, b)
<1>1. PICK b : b = [d EXCEPT ![c] = d[h] + 1]
  OBVIOUS
<1>2. /\ TreeOK(s0, G, cf, d) /\ QueueOK(s0, cf, d, q) /\ CallsLookedAt(s0, G, cf, d, q, e)
      /\ Len(q) \in Nat /\ DOMAIN q = 1 .. Len(q) /\ 1 \in DOMAIN q
      /\ h \in Nodes /\ h \in Found(s0, cf) /\ h \in In(q)
      /\ c \in Calls(h) /\ c \in Nodes /\ e + 1 \in 1 .. Len(graph[h]) + 1
      /\ \A i \in DOMAIN graph[h] : i < e + 1 => i < e \/ i = e
  BY CallAt DEF SearchOK
<1>3. cf \in [Nodes -> Nodes \cup {0}] /\ d \in [Nodes -> Nat] /\ cf[s0] = 0 /\ d[s0] = 1 /\ s0 \in Nodes
  BY <1>2 DEF TreeOK
<1>4. 0 \notin Nodes
  <2>1. Len(graph) \in Nat /\ Nodes = 1 .. Len(graph)
    BY TheNodes
  <2> QED BY <2>1
<1>5. df \in [Nodes -> Nodes \cup {0}] /\ df[c] = h /\ \A m \in Nodes : m # c => df[m] = cf[m]
  BY <1>2, <1>3 DEF Put
<1>6. b \in [Nodes -> Nat] /\ b[c] = d[h] + 1 /\ \A m \in Nodes : m # c => b[m] = d[m]
  BY <1>1, <1>2, <1>3
<1>7. c \notin Found(s0, cf) /\ Found(s0, df) = Found(s0, cf) \cup {c} /\ Found(s0, cf) \subseteq Nodes
  BY <1>2, <1>3, <1>4, <1>5 DEF Found
<1>8. \A m \in Found(s0, cf) : m \in Nodes /\ m # c /\ df[m] = cf[m] /\ b[m] = d[m]
  BY <1>5, <1>6, <1>7
<1>9. TreeOK(s0, G, df, b)
  <2>1. df[s0] = 0 /\ b[s0] = 1
    BY <1>3, <1>5, <1>6
  <2>2. s0 \in G /\ G \in SUBSET Nodes /\ Found(s0, df) \subseteq G
    BY <1>2, <1>7 DEF TreeOK
  <2>3. ASSUME NEW n \in Found(s0, df), n # s0
        PROVE  df[n] \in Found(s0, df) /\ n \in Calls(df[n]) /\ b[n] = b[df[n]] + 1
    <3>1. CASE n = c
      BY <1>2, <1>5, <1>6, <1>7, <1>8, <3>1
    <3>2. CASE n # c
      <4>1. n \in Found(s0, cf)
        BY <1>7, <2>3, <3>2
      <4>2. cf[n] \in Found(s0, cf) /\ n \in Calls(cf[n]) /\ d[n] = d[cf[n]] + 1
        BY <1>2, <2>3, <4>1 DEF TreeOK
      <4> QED BY <1>7, <1>8, <4>1, <4>2
    <3> QED BY <3>1, <3>2
  <2> QED BY <1>5, <1>6, <2>1, <2>2, <2>3 DEF TreeOK
<1>10. PICK N \in Nat : N = Len(q) /\ DOMAIN q = 1 .. N /\ N # 0
  <2>1. PICK N : N = Len(q)
    OBVIOUS
  <2>2. N \in Nat /\ DOMAIN q = 1 .. N /\ 1 \in 1 .. N
    BY <1>2, <2>1
  <2>3. N # 0
    BY <2>2
  <2> QED BY <2>1, <2>2, <2>3
<1>11. /\ z \in Seq(Nodes) /\ DOMAIN z = 1 .. N + 1 /\ z[N + 1] = c /\ \A i \in 1 .. N : z[i] = q[i]
       /\ In(z) = In(q) \cup {c}
  <2>1. q \in Seq(Nodes) /\ z = Append(q, c)
    BY <1>2 DEF QueueOK, PushOpen
  <2>2. /\ z \in Seq(Nodes) /\ Len(z) = Len(q) + 1 /\ z[Len(z)] = c /\ DOMAIN z = 1 .. Len(q) + 1
        /\ \A i \in DOMAIN q : z[i] = q[i]
    BY <1>2, <2>1, Pushed
  <2>3. N + 1 \in 1 .. N + 1 /\ \A i \in 1 .. N : i \in 1 .. N + 1
    OBVIOUS
  <2>4. \A i \in 1 .. N + 1 : i = N + 1 \/ i \in 1 .. N
    OBVIOUS
  <2>5. In(z) = In(q) \cup {c}
    BY <1>10, <2>2, <2>3, <2>4 DEF In
  <2> QED BY <1>10, <2>2, <2>5
<1>12. /\ \A i \in 1 .. N + 1 : i = N + 1 \/ i \in 1 .. N
       /\ 1 \in 1 .. N /\ 1 \in 1 .. N + 1
       /\ \A i, j \in 1 .. N + 1 : i < j => i \in 1 .. N
  BY <1>10
<1>13. z[1] = h /\ z # <<>>
  <2>1. z[1] = h /\ 1 \in DOMAIN z
    BY <1>11, <1>12
  <2> QED BY <2>1
<1>14. \A i \in 1 .. N : q[i] \in Found(s0, cf) /\ d[q[i]] \in Nat /\ d[q[i]] <= d[h] + 1
  BY <1>2, <1>3, <1>7, <1>10 DEF QueueOK
<1>15. d[h] \in Nat /\ b[h] = d[h]
  BY <1>2, <1>3, <1>8
<1>16. QueueOK(s0, df, b, z)
  <2>1. ASSUME NEW i \in 1 .. N + 1 PROVE z[i] \in Found(s0, df)
    BY <1>7, <1>11, <1>12, <1>14
  <2>3. ASSUME NEW n \in Found(s0, df) PROVE b[n] <= b[h] + 1
    <3>1. CASE n = c
      BY <1>6, <1>15, <3>1
    <3>2. CASE n # c
      <4>1. n \in Found(s0, cf) /\ b[n] = d[n] /\ d[n] <= d[h] + 1
        BY <1>2, <1>7, <1>8, <2>3, <3>2 DEF QueueOK
      <4> QED BY <1>15, <4>1
    <3> QED BY <3>1, <3>2
  <2>2. ASSUME NEW i \in 1 .. N + 1, NEW j \in 1 .. N + 1, i < j PROVE b[z[i]] <= b[z[j]]
    <3>1. i \in 1 .. N /\ z[i] = q[i] /\ b[z[i]] = d[q[i]]
      BY <1>8, <1>11, <1>12, <1>14, <2>2
    <3>2. CASE j = N + 1
      BY <1>6, <1>11, <1>14, <3>1, <3>2
    <3>3. CASE j \in 1 .. N
      <4>1. d[q[i]] <= d[q[j]]
        BY <1>2, <1>10, <2>2, <3>1, <3>3 DEF QueueOK
      <4> QED BY <1>8, <1>11, <1>14, <3>1, <3>3, <4>1
    <3> QED BY <1>12, <3>2, <3>3
  <2> QED BY <1>11, <1>13, <2>1, <2>2, <2>3 DEF QueueOK
<1>17. ASSUME NEW n \in Found(s0, cf), NEW m, Looked(s0, G, cf, d, n, m) PROVE Looked(s0, G, df, b, n, m)
  BY <1>7, <1>8, <1>17 DEF Looked
<1>18. Looked(s0, G, df, b, h, c)
  BY <1>6, <1>7, <1>15 DEF Looked
<1>19. CallsLookedAt(s0, G, df, b, z, e + 1)
  <2>1. \A n \in Found(s0, df) : n \notin In(z) => \A m \in Calls(n) : Looked(s0, G, df, b, n, m)
    BY <1>2, <1>7, <1>11, <1>17 DEF CallsLookedAt
  <2>2. \A i \in DOMAIN graph[h] : i < e + 1 => Looked(s0, G, df, b, h, graph[h][i])
    BY <1>2, <1>17, <1>18 DEF CallsLookedAt
  <2> QED BY <1>2, <1>13, <2>1, <2>2 DEF CallsLookedAt
<1> QED BY <1>9, <1>16, <1>19 DEF SearchOK, TraceOK

LEMMA SearchPassed ==
  ASSUME CallsOK, NEW s0, NEW G, NEW cf, NEW q, NEW e, NEW d, SearchOK(s0, G, cf, q, e, <<>>, d),
         NEW h, h = q[1], e <= Len(graph[h]), NEW c, c = graph[h][e], c # s0, c \notin G \/ cf[c] # 0
  PROVE  SearchOK(s0, G, cf, q, e + 1, <<>>, d)
<1>1. /\ TreeOK(s0, G, cf, d) /\ QueueOK(s0, cf, d, q) /\ CallsLookedAt(s0, G, cf, d, q, e)
      /\ c \in Nodes /\ e + 1 \in 1 .. Len(graph[h]) + 1
      /\ \A i \in DOMAIN graph[h] : i < e + 1 => i < e \/ i = e
  BY CallAt DEF SearchOK
<1>2. Looked(s0, G, cf, d, h, c)
  <2>1. cf[c] # 0 => c \in Found(s0, cf) /\ d[c] <= d[h] + 1
    BY <1>1 DEF QueueOK, Found
  <2> QED BY <2>1 DEF Looked
<1>3. CallsLookedAt(s0, G, cf, d, q, e + 1)
  BY <1>1, <1>2 DEF CallsLookedAt
<1> QED BY <1>1, <1>3 DEF SearchOK, TraceOK

(* The head is done with: the next is no nearer, and no further than a call. *)
Next2(z, q) == z = Tail(q)

LEMMA Tailed ==
  ASSUME NEW S, NEW s, s \in Seq(S), Len(s) > 1, NEW z, Next2(z, s)
  PROVE  /\ z \in Seq(S) /\ z # <<>> /\ DOMAIN z = 1 .. Len(s) - 1 /\ Len(s) \in Nat
         /\ \A i \in 1 .. Len(s) - 1 : z[i] = s[i + 1]
<1>1. z \in Seq(S) /\ Len(z) = Len(s) - 1 /\ Len(s) \in Nat /\ \A i \in 1 .. Len(s) - 1 : z[i] = s[i + 1]
  BY DEF Next2
<1>2. DOMAIN z = 1 .. Len(s) - 1
  BY <1>1
<1>3. z # <<>>
  BY <1>1
<1> QED BY <1>1, <1>2, <1>3

LEMMA SearchOnward ==
  ASSUME CallsOK, NEW s0, NEW G, NEW cf, NEW q, NEW e, NEW d, SearchOK(s0, G, cf, q, e, <<>>, d),
         NEW h, h = q[1], ~(e <= Len(graph[h])), Len(q) > 1, NEW z, Next2(z, q)
  PROVE  SearchOK(s0, G, cf, z, 1, <<>>, d)
<1>1. /\ TreeOK(s0, G, cf, d) /\ QueueOK(s0, cf, d, q) /\ CallsLookedAt(s0, G, cf, d, q, e)
      /\ Len(q) \in Nat /\ DOMAIN q = 1 .. Len(q) /\ h \in Nodes /\ h \in Found(s0, cf)
      /\ e \in Nat /\ Len(graph[h]) \in Nat /\ DOMAIN graph[h] = 1 .. Len(graph[h])
  BY CallAt DEF SearchOK
<1>2. PICK N : N = Len(q)
  OBVIOUS
<1>3. N \in Nat /\ N > 1 /\ DOMAIN q = 1 .. N /\ q \in Seq(Nodes)
  BY <1>1, <1>2 DEF QueueOK
<1>4. z \in Seq(Nodes) /\ z # <<>> /\ DOMAIN z = 1 .. N - 1 /\ \A i \in 1 .. N - 1 : z[i] = q[i + 1]
  BY <1>2, <1>3, Tailed
<1>5. /\ 1 \in 1 .. N - 1 /\ 1 \in 1 .. N /\ 2 \in 1 .. N /\ 1 + 1 = 2
      /\ (\A i \in 1 .. N - 1 : i + 1 \in 1 .. N)
      /\ \A i \in 1 .. N : i = 1 \/ (i - 1 \in 1 .. N - 1 /\ (i - 1) + 1 = i)
  BY <1>3
<1>6. z[1] = q[2] /\ q[2] \in Nodes /\ q[2] \in Found(s0, cf)
  <2>1. q[2] \in Nodes /\ q[2] \in Found(s0, cf)
    BY <1>1, <1>3, <1>5, ElementOf DEF QueueOK
  <2> QED BY <1>4, <1>5, <2>1
<1>7. d[h] <= d[q[2]]
  <2>1. 1 < 2
    OBVIOUS
  <2> QED BY <1>1, <1>3, <1>5, <2>1 DEF QueueOK
<1>8. \A n \in Found(s0, cf) : d[n] \in Nat
  <2>1. d \in [Nodes -> Nat] /\ G \in SUBSET Nodes /\ Found(s0, cf) \subseteq G
    BY <1>1 DEF TreeOK
  <2> QED BY <2>1
<1>9. QueueOK(s0, cf, d, z)
  <2>1. \A i \in DOMAIN z : z[i] \in Found(s0, cf)
    BY <1>1, <1>3, <1>4, <1>5 DEF QueueOK
  <2>2. ASSUME NEW n \in Found(s0, cf) PROVE d[n] <= d[z[1]] + 1
    <3>1. d[n] <= d[h] + 1
      BY <1>1 DEF QueueOK
    <3>2. d[n] \in Nat /\ d[h] \in Nat /\ d[q[2]] \in Nat
      BY <1>1, <1>6, <1>8
    <3> QED BY <1>6, <1>7, <3>1, <3>2
  <2>3. ASSUME NEW i \in 1 .. N - 1, NEW j \in 1 .. N - 1, i < j PROVE d[z[i]] <= d[z[j]]
    <3>1. i + 1 < j + 1 /\ i + 1 \in 1 .. N /\ j + 1 \in 1 .. N
      BY <1>5, <2>3
    <3>2. d[q[i + 1]] <= d[q[j + 1]]
      BY <1>1, <1>3, <3>1 DEF QueueOK
    <3> QED BY <1>4, <3>2
  <2> QED BY <1>4, <2>1, <2>2, <2>3 DEF QueueOK
<1>10. \A i \in DOMAIN graph[h] : i < e
  BY <1>1
<1>11. \A c \in Calls(h) : Looked(s0, G, cf, d, h, c)
  <2>1. Calls(h) = {graph[h][i] : i \in DOMAIN graph[h]}
    BY <1>1, TheNodes
  <2> QED BY <1>1, <1>10, <2>1 DEF CallsLookedAt
<1>12. In(q) \subseteq In(z) \cup {h}
  <2> SUFFICES ASSUME NEW i \in 1 .. N PROVE q[i] \in In(z) \cup {h}
    BY <1>3 DEF In
  <2>1. CASE i = 1
    BY <2>1
  <2>2. CASE i # 1
    <3>1. i - 1 \in DOMAIN z /\ z[i - 1] = q[i]
      BY <1>4, <1>5, <2>2
    <3> QED BY <3>1 DEF In
  <2> QED BY <2>1, <2>2
<1>13. CallsLookedAt(s0, G, cf, d, z, 1)
  <2>1. \A n \in Found(s0, cf) : n \notin In(z) => \A c \in Calls(n) : Looked(s0, G, cf, d, n, c)
    BY <1>1, <1>11, <1>12 DEF CallsLookedAt
  <2>2. Len(graph[q[2]]) \in Nat /\ DOMAIN graph[q[2]] = 1 .. Len(graph[q[2]])
    BY <1>6, TheNodes
  <2>3. 1 \in 1 .. Len(graph[q[2]]) + 1 /\ \A i \in DOMAIN graph[q[2]] : ~(i < 1)
    BY <2>2
  <2> QED BY <1>6, <2>1, <2>3 DEF CallsLookedAt
<1> QED BY <1>1, <1>9, <1>13 DEF SearchOK, TraceOK

(* A cycle is traced back from the head. *)
LEMMA SearchClosed ==
  ASSUME CallsOK, NEW s0, NEW G, NEW cf, NEW q, NEW e, NEW d, SearchOK(s0, G, cf, q, e, <<>>, d),
         NEW h, h = q[1], e <= Len(graph[h]), graph[h][e] = s0, NEW w, w = <<h>>
  PROVE  SearchOK(s0, G, cf, q, e, w, d)
<1>1. /\ TreeOK(s0, G, cf, d) /\ QueueOK(s0, cf, d, q) /\ CallsLookedAt(s0, G, cf, d, q, e)
      /\ h \in Nodes /\ h \in Found(s0, cf) /\ s0 \in Calls(h)
  BY CallAt DEF SearchOK
<1>2. w \in Seq(Nodes) /\ Len(w) = 1 /\ DOMAIN w = {1} /\ w[1] = h
  BY <1>1
<1>3. In(w) \subseteq Found(s0, cf)
  BY <1>1, <1>2 DEF In
<1>4. CallsOn(w)
  <2>1. 1 .. Len(w) - 1 = {}
    BY <1>2
  <2> QED BY <2>1 DEF CallsOn
<1>5. d[w[1]] + Len(w) = d[q[1]] + 1
  BY <1>2
<1>6. TraceOK(s0, cf, d, q, w)
  BY <1>1, <1>2, <1>3, <1>4, <1>5 DEF TraceOK
<1> QED BY <1>1, <1>6 DEF SearchOK

PutFirst(z, x, w) == z = <<x>> \o w

LEMMA First ==
  ASSUME NEW S, NEW w, w \in Seq(S), NEW x \in S, NEW z, PutFirst(z, x, w)
  PROVE  /\ z \in Seq(S) /\ z # <<>> /\ Len(w) \in Nat /\ Len(z) = Len(w) + 1 /\ DOMAIN z = 1 .. Len(w) + 1
         /\ z[1] = x /\ DOMAIN w = 1 .. Len(w) /\ \A i \in 1 .. Len(w) : z[i + 1] = w[i]
<1>1. <<x>> \in Seq(S) /\ Len(<<x>>) = 1 /\ <<x>>[1] = x /\ Len(w) \in Nat /\ DOMAIN w = 1 .. Len(w)
  OBVIOUS
<1>2. z \in Seq(S) /\ Len(z) = Len(w) + 1
  BY <1>1 DEF PutFirst
<1>3. DOMAIN z = 1 .. Len(w) + 1 /\ z # <<>>
  BY <1>1, <1>2
<1>4. z[1] = x /\ \A i \in 1 .. Len(w) : z[i + 1] = w[i]
  BY <1>1 DEF PutFirst
<1> QED BY <1>1, <1>2, <1>3, <1>4

LEMMA SearchTraced ==
  ASSUME CallsOK, NEW s0, NEW G, NEW cf, NEW q, NEW e, NEW w, NEW d, SearchOK(s0, G, cf, q, e, w, d), w # <<>>,
         NEW x, x = cf[w[1]], x # 0, NEW z, PutFirst(z, x, w)
  PROVE  SearchOK(s0, G, cf, q, e, z, d)
<1>1. /\ TreeOK(s0, G, cf, d) /\ QueueOK(s0, cf, d, q) /\ CallsLookedAt(s0, G, cf, d, q, e)
      /\ w \in Seq(Nodes) /\ In(w) \subseteq Found(s0, cf)
      /\ w[Len(w)] = q[1] /\ s0 \in Calls(q[1]) /\ CallsOn(w)
      /\ d[w[1]] + Len(w) = d[q[1]] + 1
  BY DEF SearchOK, TraceOK
<1>2. PICK N : N = Len(w)
  OBVIOUS
<1>3. N \in Nat /\ N # 0 /\ DOMAIN w = 1 .. N /\ 1 \in 1 .. N
  BY <1>1, <1>2, Indices
<1>4. w[1] \in Found(s0, cf)
  BY <1>1, <1>3 DEF In
<1>5. x \in Found(s0, cf) /\ w[1] \in Calls(x) /\ d[w[1]] = d[x] + 1
  BY <1>1, <1>4 DEF TreeOK
<1>6. x \in Nodes /\ d[x] \in Nat /\ w[1] \in Nodes
  <2>1. d \in [Nodes -> Nat] /\ G \in SUBSET Nodes /\ Found(s0, cf) \subseteq G
    BY <1>1 DEF TreeOK
  <2> QED BY <1>4, <1>5, <2>1
<1>7. /\ z \in Seq(Nodes) /\ z # <<>> /\ Len(z) = N + 1 /\ DOMAIN z = 1 .. N + 1
      /\ z[1] = x /\ \A i \in 1 .. N : z[i + 1] = w[i]
  BY <1>1, <1>2, <1>6, First
<1>8. \A i \in 1 .. N + 1 : i = 1 \/ (i - 1 \in 1 .. N /\ (i - 1) + 1 = i)
  BY <1>3
<1>9. ASSUME NEW i \in 1 .. N + 1, i # 1 PROVE z[i] = w[i - 1] /\ i - 1 \in 1 .. N
  BY <1>7, <1>8, <1>9
<1>10. In(z) \subseteq Found(s0, cf)
  <2> SUFFICES ASSUME NEW i \in 1 .. N + 1 PROVE z[i] \in Found(s0, cf)
    BY <1>7 DEF In
  <2>1. \A j \in 1 .. N : w[j] \in Found(s0, cf)
    BY <1>1, <1>3 DEF In
  <2> QED BY <1>5, <1>7, <1>9, <2>1
<1>11. z[Len(z)] = q[1]
  <2>1. N + 1 \in 1 .. N + 1 /\ N + 1 # 1 /\ (N + 1) - 1 = N
    BY <1>3
  <2> QED BY <1>1, <1>2, <1>7, <1>9, <2>1
<1>12. CallsOn(z)
  <2> SUFFICES ASSUME NEW i \in 1 .. N PROVE z[i + 1] \in Calls(z[i])
    BY <1>3, <1>7 DEF CallsOn
  <2>1. CASE i = 1
    BY <1>3, <1>5, <1>7, <2>1
  <2>2. CASE i # 1
    <3>1. i \in 1 .. N + 1 /\ i - 1 \in 1 .. N - 1 /\ (i - 1) + 1 = i
      BY <1>3, <2>2
    <3>2. w[i] \in Calls(w[i - 1])
      BY <1>1, <1>2, <3>1 DEF CallsOn
    <3> QED BY <1>7, <1>9, <2>2, <3>1, <3>2
  <2> QED BY <2>1, <2>2
<1>13. d[z[1]] + Len(z) = d[q[1]] + 1
  <2>1. d[q[1]] + 1 = (d[x] + 1) + N
    BY <1>1, <1>2, <1>5
  <2>2. d[z[1]] + Len(z) = d[x] + (N + 1)
    BY <1>7
  <2> QED BY <1>3, <1>6, <2>1, <2>2
<1>14. TraceOK(s0, cf, d, q, z)
  BY <1>1, <1>7, <1>10, <1>11, <1>12, <1>13 DEF TraceOK
<1> QED BY <1>1, <1>14 DEF SearchOK

(* The group of s0; a function that is lost leads nowhere back to it.      *)
Mutual(G, s0) == G = {s0} \cup {m \in Reached(s0) : s0 \in Reached(m)}
Lost(s0, x) == x # s0 /\ s0 \notin Reached(x)

LEMMA LostOn ==
  ASSUME CallsOK, NEW s0, NEW x \in Nodes, Lost(s0, x), NEW c \in Calls(x) PROVE Lost(s0, c)
<1>1. c \in Reached(x)
  BY ReachedLeast
<1>2. Reached(c) \subseteq Reached(x)
  BY <1>1, ReachedCarries
<1> QED BY <1>1, <1>2 DEF Lost

(* What a call of a function of the group leads to. *)
LEMMA CalledOrLost ==
  ASSUME CallsOK, NEW s0 \in Nodes, NEW G, Mutual(G, s0), NEW n \in G, NEW c \in Calls(n)
  PROVE  c \in Nodes /\ c \in Reached(s0) /\ (c \in G \/ Lost(s0, c))
<1>1. n \in Nodes /\ Leads(s0, n)
  BY ReachedLeast DEF Mutual, Leads
<1>2. c \in Reached(n) /\ c \in Nodes
  BY <1>1, ReachedLeast
<1>3. c \in Reached(s0)
  <2>1. CASE n = s0
    BY <1>2, <2>1
  <2>2. CASE n \in Reached(s0)
    BY <1>2, <2>2, ReachedCarries
  <2> QED BY <1>1, <2>1, <2>2 DEF Leads
<1>4. c \notin G => Lost(s0, c)
  BY <1>3 DEF Mutual, Lost
<1> QED BY <1>2, <1>3, <1>4

(* What the search has found, and is nearer than the head, was looked at.  *)
LEMMA NearOn ==
  ASSUME CallsOK, NEW s0, NEW G, NEW cf, NEW q, NEW e, NEW w, NEW d, SearchOK(s0, G, cf, q, e, w, d), Mutual(G, s0),
         NEW n \in Found(s0, cf), d[n] < d[q[1]], NEW c \in Calls(n)
  PROVE  c # s0 /\ c \in Nodes /\ ((c \in Found(s0, cf) /\ d[c] <= d[n] + 1) \/ Lost(s0, c))
<1>1. /\ TreeOK(s0, G, cf, d) /\ QueueOK(s0, cf, d, q) /\ CallsLookedAt(s0, G, cf, d, q, e)
      /\ Len(q) \in Nat /\ DOMAIN q = 1 .. Len(q) /\ 1 \in DOMAIN q /\ q[1] \in Found(s0, cf)
  BY CallAt DEF SearchOK
<1>2. s0 \in Nodes /\ n \in G /\ \A m \in Found(s0, cf) : d[m] \in Nat
  <2>1. d \in [Nodes -> Nat] /\ G \in SUBSET Nodes /\ Found(s0, cf) \subseteq G /\ s0 \in G
    BY <1>1 DEF TreeOK
  <2> QED BY <2>1
<1>3. n \notin In(q)
  <2> SUFFICES ASSUME NEW j \in DOMAIN q, q[j] = n PROVE FALSE
    BY DEF In
  <2>1. j = 1 \/ 1 < j
    BY <1>1
  <2>2. d[q[1]] <= d[q[j]]
    <3>1. d[q[1]] \in Nat
      BY <1>1, <1>2
    <3>2. 1 < j => d[q[1]] <= d[q[j]]
      BY <1>1 DEF QueueOK
    <3> QED BY <2>1, <3>1, <3>2
  <2>3. d[q[1]] \in Nat /\ d[n] \in Nat
    BY <1>1, <1>2
  <2> QED BY <2>2, <2>3
<1>4. Looked(s0, G, cf, d, n, c)
  BY <1>1, <1>3 DEF CallsLookedAt
<1>5. c \in Nodes /\ (c \in G \/ Lost(s0, c))
  BY <1>2, CalledOrLost
<1> QED BY <1>4, <1>5 DEF Looked

(* No walk shorter than the way to the head comes back to s0. *)
LEMMA NoShorter ==
  ASSUME CallsOK, NEW s0, NEW G, NEW cf, NEW q, NEW e, NEW w, NEW d, SearchOK(s0, G, cf, q, e, w, d), Mutual(G, s0),
         NEW k \in Nat, k # 0, k < d[q[1]], NEW p, p \in [1 .. k -> Nodes], p[1] = s0, CallsOn(p)
  PROVE  s0 \notin Calls(p[k])
<1>1. TreeOK(s0, G, cf, d) /\ q[1] \in Found(s0, cf)
  BY CallAt DEF SearchOK
<1>2. d[s0] = 1 /\ s0 \in Nodes /\ s0 \in Found(s0, cf) /\ \A m \in Found(s0, cf) : m \in Nodes /\ d[m] \in Nat
  <2>1. d \in [Nodes -> Nat] /\ G \in SUBSET Nodes /\ Found(s0, cf) \subseteq G /\ s0 \in G /\ d[s0] = 1
    BY <1>1 DEF TreeOK
  <2> QED BY <2>1 DEF Found
<1>3. Len(p) = k
  BY FromElements
<1>4. \A i \in 1 .. k - 1 : p[i + 1] \in Calls(p[i])
  BY <1>3 DEF CallsOn
<1>5. PICK near : near = {i \in 1 .. k : (p[i] \in Found(s0, cf) /\ d[p[i]] <= i) \/ Lost(s0, p[i])}
  OBVIOUS
<1>6. ASSUME NEW i \in 1 .. k - 1, i \in near PROVE i + 1 \in near
  <2>1. i \in 1 .. k /\ i + 1 \in 1 .. k /\ i < k /\ i \in Nat /\ p[i] \in Nodes /\ p[i + 1] \in Calls(p[i])
    BY <1>4
  <2>2. CASE Lost(s0, p[i])
    <3>1. Lost(s0, p[i + 1])
      BY <2>1, <2>2, LostOn
    <3> QED BY <1>5, <2>1, <3>1
  <2>3. CASE p[i] \in Found(s0, cf) /\ d[p[i]] <= i
    <3>1. d[p[i]] \in Nat /\ d[q[1]] \in Nat /\ d[p[i]] < d[q[1]]
      BY <1>1, <1>2, <2>1, <2>3
    <3>2. (p[i + 1] \in Found(s0, cf) /\ d[p[i + 1]] <= d[p[i]] + 1) \/ Lost(s0, p[i + 1])
      BY <2>1, <2>3, <3>1, NearOn
    <3>3. p[i + 1] \in Found(s0, cf) /\ d[p[i + 1]] <= d[p[i]] + 1 => d[p[i + 1]] <= i + 1
      BY <1>2, <2>1, <2>3, <3>1
    <3> QED BY <1>5, <2>1, <3>2, <3>3
  <2> QED BY <1>5, <1>6, <2>2, <2>3
<1>7. \A i \in 1 .. k : i \in near
  <2>1. PICK far : far = {i \in 1 .. k : i \notin near}
    OBVIOUS
  <2>2. SUFFICES ASSUME far # {} PROVE FALSE
    BY <2>1
  <2>3. far \in SUBSET Nat
    BY <2>1
  <2>4. PICK m \in far : \A i \in far : m <= i
    BY <2>2, <2>3, HasLeast
  <2>5. 1 \in near
    BY <1>2, <1>5
  <2>6. m \in 1 .. k /\ m # 1 /\ m \notin near
    BY <2>1, <2>4, <2>5
  <2>7. m - 1 \in 1 .. k - 1 /\ m - 1 \in 1 .. k /\ (m - 1) + 1 = m /\ ~(m <= m - 1)
    BY <2>6
  <2>8. m - 1 \in near
    BY <2>1, <2>4, <2>7
  <2> QED BY <1>6, <2>6, <2>7, <2>8
<1>8. k \in 1 .. k /\ p[k] \in Nodes
  OBVIOUS
<1>9. CASE Lost(s0, p[k])
  <2>1. Calls(p[k]) \subseteq Reached(p[k])
    BY <1>8, ReachedLeast
  <2> QED BY <1>9, <2>1 DEF Lost
<1>10. CASE p[k] \in Found(s0, cf) /\ d[p[k]] <= k
  <2>1. d[p[k]] \in Nat /\ d[q[1]] \in Nat /\ d[p[k]] < d[q[1]]
    BY <1>1, <1>2, <1>10
  <2> QED BY <1>10, <2>1, NearOn
<1> QED BY <1>5, <1>7, <1>8, <1>9, <1>10

LEMMA ShortestFound ==
  ASSUME CallsOK, NEW s0, NEW G, NEW cf, NEW q, NEW e, NEW w, NEW d, SearchOK(s0, G, cf, q, e, w, d), Mutual(G, s0),
         w # <<>>, cf[w[1]] = 0
  PROVE  w \in Seq(Nodes) /\ IsShortestCycle(w) /\ w[1] = s0 /\ s0 \in Reached(s0)
<1>1. /\ TreeOK(s0, G, cf, d) /\ q[1] \in Found(s0, cf)
      /\ w \in Seq(Nodes) /\ In(w) \subseteq Found(s0, cf)
      /\ w[Len(w)] = q[1] /\ s0 \in Calls(q[1]) /\ CallsOn(w)
      /\ d[w[1]] + Len(w) = d[q[1]] + 1
  BY CallAt DEF SearchOK, TraceOK
<1>2. PICK N \in Nat : N = Len(w) /\ DOMAIN w = 1 .. N /\ 1 \in DOMAIN w
  BY <1>1, Indices
<1>3. w[1] = s0
  BY <1>1, <1>2 DEF In, Found
<1>4. d[q[1]] = N
  <2>1. d \in [Nodes -> Nat] /\ G \in SUBSET Nodes /\ Found(s0, cf) \subseteq G /\ d[s0] = 1
    BY <1>1 DEF TreeOK
  <2>2. d[q[1]] \in Nat
    BY <1>1, <2>1
  <2>3. 1 + N = d[q[1]] + 1
    BY <1>1, <1>2, <1>3, <2>1
  <2> QED BY <2>2, <2>3
<1>5. ASSUME NEW k \in 1 .. N - 1, NEW p \in [1 .. k -> Nodes], p[1] = s0, CallsOn(p) PROVE s0 \notin Calls(p[k])
  <2>1. k \in Nat /\ k # 0 /\ k < d[q[1]]
    BY <1>4
  <2> QED BY <1>5, <2>1, NoShorter
<1>6. IsShortestCycle(w)
  BY <1>1, <1>2, <1>3, <1>5 DEF IsShortestCycle
<1>7. s0 \in Reached(s0)
  <2>1. q[1] \in G /\ s0 \in Nodes
    BY <1>1 DEF TreeOK
  <2> QED BY <1>1, <2>1, CalledOrLost
<1> QED BY <1>1, <1>3, <1>6, <1>7

LEMMA NoneFound ==
  ASSUME CallsOK, NEW s0, NEW G, NEW cf, NEW q, NEW e, NEW d, SearchOK(s0, G, cf, q, e, <<>>, d), Mutual(G, s0),
         Len(q) = 1, ~(e <= Len(graph[q[1]]))
  PROVE  s0 \notin Reached(s0)
<1>1. PICK h : h = q[1]
  OBVIOUS
<1>2. /\ TreeOK(s0, G, cf, d) /\ CallsLookedAt(s0, G, cf, d, q, e)
      /\ DOMAIN q = 1 .. 1 /\ h \in Nodes
      /\ e \in Nat /\ Len(graph[h]) \in Nat /\ DOMAIN graph[h] = 1 .. Len(graph[h])
  BY <1>1, CallAt DEF SearchOK
<1>3. s0 \in Nodes /\ s0 \in Found(s0, cf) /\ Found(s0, cf) \subseteq G
  BY <1>2 DEF TreeOK, Found
<1>4. In(q) = {h}
  BY <1>1, <1>2 DEF In
<1>5. \A i \in DOMAIN graph[h] : i < e
  BY <1>1, <1>2
<1>6. \A c \in Calls(h) : Looked(s0, G, cf, d, h, c)
  <2>1. Calls(h) = {graph[h][i] : i \in DOMAIN graph[h]}
    BY <1>2, TheNodes
  <2> QED BY <1>1, <1>2, <1>5, <2>1 DEF CallsLookedAt
<1>7. \A n \in Found(s0, cf) : \A c \in Calls(n) : Looked(s0, G, cf, d, n, c)
  BY <1>2, <1>4, <1>6 DEF CallsLookedAt
<1>8. PICK W : W = {m \in Reached(s0) : m # s0 /\ (m \in Found(s0, cf) \/ Lost(s0, m))}
  OBVIOUS
<1>9. ASSUME NEW n \in Found(s0, cf), NEW c \in Calls(n) PROVE c \in W
  <2>1. c # s0 /\ (c \in G => c \in Found(s0, cf))
    BY <1>7 DEF Looked
  <2>2. c \in Reached(s0) /\ (c \in G \/ Lost(s0, c))
    BY <1>3, CalledOrLost
  <2> QED BY <1>8, <2>1, <2>2
<1>10. ASSUME NEW m \in W, Lost(s0, m), NEW c \in Calls(m) PROVE c \in W
  <2>1. m \in Nodes /\ Reached(m) \subseteq Reached(s0)
    BY <1>3, <1>8, ReachedCarries
  <2>2. Lost(s0, c) /\ c \in Reached(m)
    BY <1>10, <2>1, LostOn, ReachedLeast
  <2> QED BY <1>8, <2>1, <2>2 DEF Lost
<1>11. Closed(W)
  <2>1. W \in SUBSET Nodes
    BY <1>3, <1>8, ReachedLeast
  <2> QED BY <1>8, <1>9, <1>10, <2>1 DEF Closed
<1>12. Reached(s0) \subseteq W
  BY <1>3, <1>9, <1>11, ReachedLeast
<1> QED BY <1>8, <1>12
-----------------------------------------------------------------------------
(* What was told of the groups searched: of each, what the code promises.  *)
Answered(g, tl) ==
  LET start == LeastOf(g)
  IN IF start \in Reached(start)
     THEN \E r \in DOMAIN tl : IsShortestCycle(tl[r]) /\ \A s \in DOMAIN tl : tl[s][1] = start <=> s = r
     ELSE \A s \in DOMAIN tl : tl[s][1] # start

AllTold(gs, sd, tl) ==
  /\ sd \in Nat /\ sd <= Len(gs) /\ tl \in Seq(Seq(Nodes))
  /\ \A j \in DOMAIN tl : \E i \in 1 .. sd : tl[j][1] = LeastOf(gs[i])
  /\ \A i \in 1 .. sd : Answered(gs[i], tl)

SearchingOK(gs, sd, q, e, cf, w, tl) ==
  /\ AllTold(gs, sd, tl)
  /\ q = <<>> => w = <<>> /\ AllZero(cf)
  /\ q # <<>> => sd < Len(gs) /\ \E d : SearchOK(LeastOf(gs[sd + 1]), gs[sd + 1], cf, q, e, w, d)

LEMMA GroupStart ==
  ASSUME CallsOK, NEW gs, gs \in Seq(SUBSET Nodes), GroupsOK(gs), NEW i \in DOMAIN gs, NEW s0, s0 = LeastOf(gs[i])
  PROVE  /\ gs[i] \in SUBSET Nodes /\ s0 \in gs[i] /\ s0 \in Nodes /\ Mutual(gs[i], s0)
         /\ \A j \in DOMAIN gs : j # i => LeastOf(gs[j]) # s0
<1>1. \A j \in DOMAIN gs : gs[j] \in SUBSET Nodes /\ gs[j] # {} /\ gs[j] \in SUBSET Nat
  <2>1. Nodes \in SUBSET Nat
    BY TheNodes
  <2> QED BY <2>1 DEF GroupsOK
<1>2. \A j \in DOMAIN gs : LeastOf(gs[j]) \in gs[j]
  BY <1>1, TheLeast
<1>3. \A j \in DOMAIN gs : j # i => gs[i] \cap gs[j] = {}
  BY DEF GroupsOK
<1>4. Mutual(gs[i], s0)
  BY <1>2 DEF GroupsOK, Mutual
<1> QED BY <1>1, <1>2, <1>3, <1>4

AddTold(t, tl, w) == t = Append(tl, w)

LEMMA CycleTold ==
  ASSUME CallsOK, NEW gs, gs \in Seq(SUBSET Nodes), GroupsOK(gs), NEW sd, NEW tl, AllTold(gs, sd, tl), sd < Len(gs),
         NEW s0, s0 = LeastOf(gs[sd + 1]), s0 \in Reached(s0),
         NEW w \in Seq(Nodes), IsShortestCycle(w), w[1] = s0, NEW t, AddTold(t, tl, w)
  PROVE  AllTold(gs, sd + 1, t)
<1>1. sd \in Nat /\ Len(gs) \in Nat /\ DOMAIN gs = 1 .. Len(gs) /\ tl \in Seq(Seq(Nodes))
  BY Indices DEF AllTold
<1>2. PICK M \in Nat : M = Len(tl)
  BY <1>1, Indices
<1>3. /\ t \in Seq(Seq(Nodes)) /\ DOMAIN t = 1 .. M + 1 /\ DOMAIN tl = 1 .. M
      /\ t[M + 1] = w /\ \A j \in 1 .. M : t[j] = tl[j]
  <2>1. PICK S : S = Seq(Nodes)
    OBVIOUS
  <2>2. tl \in Seq(S) /\ w \in S /\ t = Append(tl, w)
    BY <1>1, <2>1 DEF AddTold
  <2> QED BY <1>2, <2>1, <2>2, Pushed
<1>4. /\ M + 1 \in 1 .. M + 1 /\ (\A j \in 1 .. M + 1 : j = M + 1 \/ j \in 1 .. M)
      /\ \A j \in 1 .. M : j \in 1 .. M + 1 /\ j # M + 1
  OBVIOUS
<1>5. /\ sd + 1 \in 1 .. sd + 1 /\ sd + 1 \in DOMAIN gs /\ sd + 1 <= Len(gs) /\ sd + 1 \in Nat
      /\ (\A i \in 1 .. sd + 1 : i = sd + 1 \/ i \in 1 .. sd)
      /\ \A i \in 1 .. sd : i \in 1 .. sd + 1 /\ i \in DOMAIN gs /\ i # sd + 1
  BY <1>1
<1>6. \A i \in 1 .. sd : LeastOf(gs[i]) # s0
  BY <1>5, GroupStart
<1>7. \A j \in DOMAIN t : \E i \in 1 .. sd + 1 : t[j][1] = LeastOf(gs[i])
  <2>1. \A j \in 1 .. M : \E i \in 1 .. sd : tl[j][1] = LeastOf(gs[i])
    BY <1>3 DEF AllTold
  <2> QED BY <1>3, <1>4, <1>5, <2>1
<1>8. ASSUME NEW i \in 1 .. sd PROVE Answered(gs[i], t)
  <2>1. PICK start : start = LeastOf(gs[i])
    OBVIOUS
  <2>2. start # s0 /\ Answered(gs[i], tl)
    BY <1>6, <2>1 DEF AllTold
  <2>3. CASE start \in Reached(start)
    <3>1. PICK r \in DOMAIN tl : IsShortestCycle(tl[r]) /\ \A s \in DOMAIN tl : tl[s][1] = start <=> s = r
      BY <2>1, <2>2, <2>3 DEF Answered
    <3>2. r \in 1 .. M /\ r \in DOMAIN t /\ t[r] = tl[r]
      BY <1>3, <1>4
    <3>3. \A s \in 1 .. M : t[s][1] = start <=> s = r
      BY <1>3, <3>1
    <3>4. t[M + 1][1] # start /\ M + 1 # r
      BY <1>3, <1>4, <2>2, <3>2
    <3>5. \A s \in DOMAIN t : t[s][1] = start <=> s = r
      BY <1>3, <1>4, <3>3, <3>4
    <3>6. IsShortestCycle(t[r])
      BY <3>1, <3>2
    <3> QED BY <2>1, <2>3, <3>2, <3>5, <3>6 DEF Answered
  <2>4. CASE start \notin Reached(start)
    <3>1. \A s \in 1 .. M : tl[s][1] # start
      BY <1>3, <2>1, <2>2, <2>4 DEF Answered
    <3>2. \A s \in DOMAIN t : t[s][1] # start
      BY <1>3, <1>4, <2>2, <3>1
    <3> QED BY <2>1, <2>4, <3>2 DEF Answered
  <2> QED BY <2>3, <2>4
<1>9. Answered(gs[sd + 1], t)
  <2>1. \A j \in 1 .. M : tl[j][1] # s0
    BY <1>3, <1>6 DEF AllTold
  <2>2. \A s \in DOMAIN t : t[s][1] = s0 <=> s = M + 1
    BY <1>3, <1>4, <2>1
  <2>3. M + 1 \in DOMAIN t /\ IsShortestCycle(t[M + 1])
    BY <1>3, <1>4
  <2> QED BY <2>2, <2>3 DEF Answered
<1>10. \A i \in 1 .. sd + 1 : Answered(gs[i], t)
  BY <1>5, <1>8, <1>9
<1> QED BY <1>3, <1>5, <1>7, <1>10 DEF AllTold

LEMMA NoneTold ==
  ASSUME CallsOK, NEW gs, gs \in Seq(SUBSET Nodes), GroupsOK(gs), NEW sd, NEW tl, AllTold(gs, sd, tl), sd < Len(gs),
         NEW s0, s0 = LeastOf(gs[sd + 1]), s0 \notin Reached(s0)
  PROVE  AllTold(gs, sd + 1, tl)
<1>1. sd \in Nat /\ Len(gs) \in Nat /\ DOMAIN gs = 1 .. Len(gs) /\ tl \in Seq(Seq(Nodes))
  BY Indices DEF AllTold
<1>2. /\ sd + 1 \in DOMAIN gs /\ sd + 1 <= Len(gs) /\ sd + 1 \in Nat
      /\ (\A i \in 1 .. sd + 1 : i = sd + 1 \/ i \in 1 .. sd)
      /\ \A i \in 1 .. sd : i \in 1 .. sd + 1 /\ i \in DOMAIN gs /\ i # sd + 1
  BY <1>1
<1>3. \A i \in 1 .. sd : LeastOf(gs[i]) # s0
  BY <1>2, GroupStart
<1>4. Answered(gs[sd + 1], tl)
  <2>1. \A j \in DOMAIN tl : tl[j][1] # s0
    BY <1>3 DEF AllTold
  <2> QED BY <2>1 DEF Answered
<1>5. \A i \in 1 .. sd + 1 : Answered(gs[i], tl)
  BY <1>2, <1>4 DEF AllTold
<1>6. \A j \in DOMAIN tl : \E i \in 1 .. sd + 1 : tl[j][1] = LeastOf(gs[i])
  BY <1>2 DEF AllTold
<1> QED BY <1>1, <1>2, <1>5, <1>6 DEF AllTold
-----------------------------------------------------------------------------
LEMMA SearchStays ==
  ASSUME graph' = graph, NEW gs, NEW sd, NEW q, NEW e, NEW cf, NEW w, NEW tl
  PROVE  /\ AllZero(cf) => AllZero(cf)'
         /\ SearchingOK(gs, sd, q, e, cf, w, tl) => SearchingOK(gs, sd, q, e, cf, w, tl)'
<1>1. Nodes' = Nodes /\ \A n : Calls(n)' = Calls(n) /\ Reached(n)' = Reached(n)
  BY CallsStay
<1>2. AllZero(cf) => AllZero(cf)'
  BY <1>1 DEF AllZero
<1>3. \A p : CallsOn(p)' = CallsOn(p)
  BY <1>1 DEF CallsOn
<1>4. \A p : IsShortestCycle(p)' = IsShortestCycle(p)
  BY <1>1, <1>3 DEF IsShortestCycle
<1>5. \A g : Answered(g, tl)' = Answered(g, tl)
  BY <1>1, <1>4 DEF Answered, LeastOf
<1>6. AllTold(gs, sd, tl) => AllTold(gs, sd, tl)'
  BY <1>1, <1>5 DEF AllTold, LeastOf
<1>7. ASSUME NEW s0, NEW G, NEW d, SearchOK(s0, G, cf, q, e, w, d) PROVE SearchOK(s0, G, cf, q, e, w, d)'
  <2>1. Found(s0, cf)' = Found(s0, cf)
    BY <1>1 DEF Found
  <2>2. TreeOK(s0, G, cf, d)'
    BY <1>1, <1>7, <2>1 DEF SearchOK, TreeOK
  <2>3. QueueOK(s0, cf, d, q)'
    BY <1>1, <1>7, <2>1 DEF SearchOK, QueueOK
  <2>4. \A n, c : Looked(s0, G, cf, d, n, c)' = Looked(s0, G, cf, d, n, c)
    BY <2>1 DEF Looked
  <2>5. CallsLookedAt(s0, G, cf, d, q, e)'
    BY <1>1, <1>7, <2>1, <2>4 DEF SearchOK, CallsLookedAt, In
  <2>6. TraceOK(s0, cf, d, q, w)'
    BY <1>1, <1>3, <1>7, <2>1 DEF SearchOK, TraceOK, In
  <2> QED BY <2>2, <2>3, <2>5, <2>6 DEF SearchOK
<1>8. ASSUME SearchingOK(gs, sd, q, e, cf, w, tl) PROVE SearchingOK(gs, sd, q, e, cf, w, tl)'
  <2>1. PICK s0, G : s0 = LeastOf(gs[sd + 1]) /\ G = gs[sd + 1]
    OBVIOUS
  <2>2. q # <<>> => \E d : SearchOK(s0, G, cf, q, e, w, d)'
    BY <1>7, <1>8, <2>1 DEF SearchingOK
  <2>3. s0 = LeastOf(gs[sd + 1])'
    BY <2>1 DEF LeastOf
  <2> QED BY <1>2, <1>6, <1>8, <2>1, <2>2, <2>3 DEF SearchingOK
<1> QED BY <1>2, <1>8

(* The search as it stands: none before every function is in a group. *)
SearchAt(sd, q, e, cf, w, tl) ==
  sd = searched /\ q = queue /\ e = call /\ cf = cameFrom /\ w = cycle /\ tl = told
Idle(sd, q, cf, w, tl) == sd = 0 /\ q = <<>> /\ w = <<>> /\ tl = <<>> /\ AllZero(cf)
SearchNow == \E sd, q, e, cf, w, tl, gs :
  /\ SearchAt(sd, q, e, cf, w, tl) /\ gs = groups
  /\ Idle(sd, q, cf, w, tl) \/ (Grouped /\ SearchingOK(gs, sd, q, e, cf, w, tl))

(* All that holds of a state of the walk and the search. *)
CallsInv == CallsOK /\ WalkNow /\ SearchNow

LEMMA GroupsKnown ==
  ASSUME CallsOK, WalkNow, Grouped, NEW gs, gs = groups
  PROVE  gs \in Seq(SUBSET Nodes) /\ GroupsOK(gs) /\ Gathered(gs) = Nodes
<1>1. PICK ix, lw, op, vs, hs : WalkAt(ix, lw, op, vs, hs) /\ WalkOK(ix, lw, op, vs, hs)
  BY DEF WalkNow
<1>2. hs = gs /\ vs = <<>> /\ \A n \in Nodes : ix[n] # 0
  BY <1>1 DEF WalkAt, Grouped, Visiting, Unvisited
<1> QED BY <1>1, <1>2, AllGrouped

LEMMA IdleIs ==
  ASSUME NEW gs, NEW S, gs \in Seq(S), NEW sd, NEW q, NEW e, NEW cf, NEW w, NEW tl, Idle(sd, q, cf, w, tl)
  PROVE  SearchingOK(gs, sd, q, e, cf, w, tl)
<1>1. sd = 0 /\ Len(gs) \in Nat /\ 0 <= Len(gs) /\ 1 .. 0 = {}
  BY DEF Idle
<1>2. tl \in Seq(Seq(Nodes)) /\ DOMAIN tl = {}
  BY DEF Idle
<1>3. AllTold(gs, sd, tl)
  BY <1>1, <1>2 DEF AllTold
<1> QED BY <1>3 DEF SearchingOK, Idle

(* The search under way, wherever it is. *)
LEMMA SearchUnderWay ==
  ASSUME CallsInv, Grouped, NEW sd, NEW q, NEW e, NEW cf, NEW w, NEW tl, SearchAt(sd, q, e, cf, w, tl), NEW gs, gs = groups
  PROVE  /\ SearchingOK(gs, sd, q, e, cf, w, tl) /\ gs \in Seq(SUBSET Nodes) /\ GroupsOK(gs)
         /\ sd \in Nat
<1>1. CallsOK /\ WalkNow
  BY DEF CallsInv
<1>2. gs \in Seq(SUBSET Nodes) /\ GroupsOK(gs)
  BY <1>1, GroupsKnown
<1>3. Idle(sd, q, cf, w, tl) \/ SearchingOK(gs, sd, q, e, cf, w, tl)
  BY DEF CallsInv, SearchNow, SearchAt
<1>4. SearchingOK(gs, sd, q, e, cf, w, tl)
  BY <1>2, <1>3, IdleIs
<1> QED BY <1>2, <1>4 DEF SearchingOK, AllTold

WalkSame == UNCHANGED <<graph, index, low, open, visits, groups>>

LEMMA WalkSameKeeps ==
  ASSUME CallsOK, WalkNow, WalkSame PROVE CallsOK' /\ WalkNow' /\ Grouped' = Grouped
<1>1. PICK ix, lw, op, vs, gs : WalkAt(ix, lw, op, vs, gs) /\ WalkOK(ix, lw, op, vs, gs)
  BY DEF WalkNow
<1>2. WalkOK(ix, lw, op, vs, gs)' /\ CallsOK' /\ Nodes' = Nodes
  BY <1>1, WalkStays, CallsStay DEF WalkSame
<1>3. WalkAt(ix, lw, op, vs, gs)'
  BY <1>1 DEF WalkAt, WalkSame
<1>4. Grouped' = Grouped
  BY <1>2 DEF Grouped, Visiting, Unvisited, WalkSame
<1> QED BY <1>2, <1>3, <1>4 DEF WalkNow

(* A step of the search that leaves it as it must be. *)
LEMMA SearchStep ==
  ASSUME CallsInv, Grouped, WalkSame, NEW gs, gs = groups,
         NEW sd, NEW q, NEW e, NEW cf, NEW w, NEW tl,
         sd = searched', q = queue', e = call', cf = cameFrom', w = cycle', tl = told',
         SearchingOK(gs, sd, q, e, cf, w, tl)
  PROVE  CallsInv'
<1>1. CallsOK' /\ WalkNow' /\ Grouped' = Grouped
  BY WalkSameKeeps DEF CallsInv
<1>2. SearchingOK(gs, sd, q, e, cf, w, tl)'
  BY SearchStays DEF WalkSame
<1>3. gs = groups' /\ SearchAt(sd, q, e, cf, w, tl)'
  BY DEF WalkSame, SearchAt
<1>4. SearchNow'
  BY <1>1, <1>2, <1>3 DEF SearchNow
<1> QED BY <1>1, <1>4 DEF CallsInv

LEMMA SearchGroupKept == ASSUME CallsInv, SearchGroup PROVE CallsInv'
<1>1. PICK gs, sd, e, cf, w, tl : gs = groups /\ SearchAt(sd, <<>>, e, cf, w, tl)
  BY DEF SearchGroup, SearchAt
<1>2. Grouped /\ WalkSame /\ sd < Len(gs)
  BY <1>1 DEF SearchGroup, Searching, WalkSame, SearchAt
<1>3. SearchingOK(gs, sd, <<>>, e, cf, w, tl) /\ gs \in Seq(SUBSET Nodes) /\ GroupsOK(gs) /\ sd \in Nat
  BY <1>1, <1>2, SearchUnderWay
<1>4. PICK s0, G, q : s0 = LeastOf(gs[sd + 1]) /\ G = gs[sd + 1] /\ q = <<s0>>
  OBVIOUS
<1>5. s0 \in G /\ G \in SUBSET Nodes
  <2>1. sd + 1 \in DOMAIN gs
    BY <1>2, <1>3
  <2> QED BY <1>3, <1>4, <2>1, GroupStart DEF CallsInv
<1>6. AllZero(cf) /\ w = <<>> /\ AllTold(gs, sd, tl)
  BY <1>3 DEF SearchingOK
<1>7. \E d : SearchOK(s0, G, cf, q, 1, w, d)
  BY <1>4, <1>5, <1>6, SearchBegun DEF CallsInv
<1>8. q # <<>>
  BY <1>4
<1>9. SearchingOK(gs, sd, q, 1, cf, w, tl)
  BY <1>2, <1>4, <1>6, <1>7, <1>8 DEF SearchingOK
<1>10. sd = searched' /\ q = queue' /\ 1 = call' /\ cf = cameFrom' /\ w = cycle' /\ tl = told'
  BY <1>1, <1>4 DEF SearchGroup, SearchAt, Beginning, Sought
<1> QED BY <1>1, <1>2, <1>9, <1>10, SearchStep

LEMMA SearchKnown ==
  ASSUME CallsInv, Grouped, NEW sd, NEW q, NEW e, NEW cf, NEW w, NEW tl, SearchAt(sd, q, e, cf, w, tl), q # <<>>,
         NEW gs, gs = groups, NEW G, G = gs[sd + 1], NEW s0, s0 = LeastOf(G)
  PROVE  /\ CallsOK /\ gs \in Seq(SUBSET Nodes) /\ GroupsOK(gs) /\ sd < Len(gs) /\ AllTold(gs, sd, tl)
         /\ Mutual(G, s0) /\ Sought = G /\ Beginning = s0
         /\ Head(queue) = q[1] /\ \E d : SearchOK(s0, G, cf, q, e, w, d)
<1>1. SearchingOK(gs, sd, q, e, cf, w, tl) /\ gs \in Seq(SUBSET Nodes) /\ GroupsOK(gs) /\ sd \in Nat
  BY SearchUnderWay
<1>2. sd < Len(gs) /\ AllTold(gs, sd, tl) /\ \E d : SearchOK(s0, G, cf, q, e, w, d)
  BY <1>1 DEF SearchingOK
<1>3. sd + 1 \in DOMAIN gs
  BY <1>1, <1>2
<1>4. Mutual(G, s0)
  BY <1>1, <1>3, GroupStart DEF CallsInv
<1>5. Sought = G /\ Beginning = s0
  BY DEF Sought, Beginning, SearchAt
<1>6. Head(queue) = q[1]
  BY DEF SearchAt
<1> QED BY <1>1, <1>2, <1>4, <1>5, <1>6 DEF CallsInv

LEMMA StepOK ==
  ASSUME NEW gs, NEW sd, NEW q, NEW e, NEW cf, NEW w, NEW tl, AllTold(gs, sd, tl), sd < Len(gs), q # <<>>,
         NEW G, G = gs[sd + 1], NEW s0, s0 = LeastOf(G), \E d : SearchOK(s0, G, cf, q, e, w, d)
  PROVE  SearchingOK(gs, sd, q, e, cf, w, tl)
BY DEF SearchingOK

LEMMA FindCalleeKept == ASSUME CallsInv, FindCallee PROVE CallsInv'
<1>1. PICK gs, sd, q, e, cf, w, tl : gs = groups /\ SearchAt(sd, q, e, cf, w, tl)
  BY DEF SearchAt
<1>2. Grouped /\ WalkSame /\ q # <<>> /\ w = <<>>
  BY <1>1 DEF FindCallee, Looking, Searching, WalkSame, SearchAt
<1>3. PICK s0, G, h, c : G = gs[sd + 1] /\ s0 = LeastOf(G) /\ h = q[1] /\ c = graph[h][e]
  OBVIOUS
<1>4. /\ CallsOK /\ sd < Len(gs) /\ AllTold(gs, sd, tl) /\ Sought = G /\ Beginning = s0
      /\ Head(queue) = h /\ \E d : SearchOK(s0, G, cf, q, e, w, d)
  BY <1>1, <1>2, <1>3, SearchKnown
<1>5. PICK d : SearchOK(s0, G, cf, q, e, <<>>, d)
  BY <1>2, <1>4
<1>6. e <= Len(graph[h]) /\ Called = c /\ c \in G /\ c # s0 /\ cf[c] = 0
  BY <1>1, <1>3, <1>4 DEF FindCallee, CallsLeft, Called, SearchAt
<1>7. PICK df, z : df = cameFrom' /\ z = queue'
  OBVIOUS
<1>8. Put(df, cf, c, h) /\ PushOpen(z, q, c)
  BY <1>1, <1>4, <1>6, <1>7 DEF FindCallee, Put, PushOpen, SearchAt
<1>9. \E b : SearchOK(s0, G, df, z, e + 1, w, b)
  BY <1>2, <1>3, <1>4, <1>5, <1>6, <1>8, SearchFound
<1>10. z # <<>>
  BY <1>9 DEF SearchOK, QueueOK
<1>11. SearchingOK(gs, sd, z, e + 1, df, w, tl)
  BY <1>3, <1>4, <1>9, <1>10, StepOK
<1>12. sd = searched' /\ z = queue' /\ e + 1 = call' /\ df = cameFrom' /\ w = cycle' /\ tl = told'
  BY <1>1, <1>7 DEF FindCallee, SearchAt
<1> QED BY <1>1, <1>2, <1>11, <1>12, SearchStep

LEMMA PassCalleeKept == ASSUME CallsInv, PassCallee PROVE CallsInv'
<1>1. PICK gs, sd, q, e, cf, w, tl : gs = groups /\ SearchAt(sd, q, e, cf, w, tl)
  BY DEF SearchAt
<1>2. Grouped /\ WalkSame /\ q # <<>> /\ w = <<>>
  BY <1>1 DEF PassCallee, Looking, Searching, WalkSame, SearchAt
<1>3. PICK s0, G, h, c : G = gs[sd + 1] /\ s0 = LeastOf(G) /\ h = q[1] /\ c = graph[h][e]
  OBVIOUS
<1>4. /\ CallsOK /\ sd < Len(gs) /\ AllTold(gs, sd, tl) /\ Sought = G /\ Beginning = s0
      /\ Head(queue) = h /\ \E d : SearchOK(s0, G, cf, q, e, w, d)
  BY <1>1, <1>2, <1>3, SearchKnown
<1>5. PICK d : SearchOK(s0, G, cf, q, e, <<>>, d)
  BY <1>2, <1>4
<1>6. e <= Len(graph[h]) /\ c # s0 /\ (c \notin G \/ cf[c] # 0)
  BY <1>1, <1>3, <1>4 DEF PassCallee, CallsLeft, Called, SearchAt
<1>7. SearchOK(s0, G, cf, q, e + 1, w, d)
  BY <1>2, <1>3, <1>4, <1>5, <1>6, SearchPassed
<1>8. SearchingOK(gs, sd, q, e + 1, cf, w, tl)
  BY <1>2, <1>3, <1>4, <1>7, StepOK
<1>9. sd = searched' /\ q = queue' /\ e + 1 = call' /\ cf = cameFrom' /\ w = cycle' /\ tl = told'
  BY <1>1 DEF PassCallee, SearchAt
<1> QED BY <1>1, <1>2, <1>8, <1>9, SearchStep

LEMMA CloseCycleKept == ASSUME CallsInv, CloseCycle PROVE CallsInv'
<1>1. PICK gs, sd, q, e, cf, w, tl : gs = groups /\ SearchAt(sd, q, e, cf, w, tl)
  BY DEF SearchAt
<1>2. Grouped /\ WalkSame /\ q # <<>> /\ w = <<>>
  BY <1>1 DEF CloseCycle, Looking, Searching, WalkSame, SearchAt
<1>3. PICK s0, G, h, z : G = gs[sd + 1] /\ s0 = LeastOf(G) /\ h = q[1] /\ z = <<h>>
  OBVIOUS
<1>4. /\ CallsOK /\ sd < Len(gs) /\ AllTold(gs, sd, tl) /\ Sought = G /\ Beginning = s0
      /\ Head(queue) = h /\ \E d : SearchOK(s0, G, cf, q, e, w, d)
  BY <1>1, <1>2, <1>3, SearchKnown
<1>5. PICK d : SearchOK(s0, G, cf, q, e, <<>>, d)
  BY <1>2, <1>4
<1>6. e <= Len(graph[h]) /\ graph[h][e] = s0
  BY <1>1, <1>3, <1>4 DEF CloseCycle, CallsLeft, Called, SearchAt
<1>7. SearchOK(s0, G, cf, q, e, z, d)
  BY <1>3, <1>4, <1>5, <1>6, SearchClosed
<1>8. SearchingOK(gs, sd, q, e, cf, z, tl)
  BY <1>2, <1>3, <1>4, <1>7, StepOK
<1>9. sd = searched' /\ q = queue' /\ e = call' /\ cf = cameFrom' /\ z = cycle' /\ tl = told'
  BY <1>1, <1>3, <1>4 DEF CloseCycle, SearchAt
<1> QED BY <1>1, <1>2, <1>8, <1>9, SearchStep

(* A cycle is traced only while its group is searched. *)
LEMMA Tracing ==
  ASSUME CallsInv, cycle # <<>> PROVE Grouped /\ queue # <<>>
<1>1. PICK sd, q, e, cf, w, tl, gs :
        /\ SearchAt(sd, q, e, cf, w, tl) /\ gs = groups
        /\ Idle(sd, q, cf, w, tl) \/ (Grouped /\ SearchingOK(gs, sd, q, e, cf, w, tl))
  BY DEF CallsInv, SearchNow
<1>2. w # <<>> /\ q = queue
  BY <1>1 DEF SearchAt
<1> QED BY <1>1, <1>2 DEF Idle, SearchingOK

LEMMA TraceBackKept == ASSUME CallsInv, TraceBack PROVE CallsInv'
<1>1. PICK gs, sd, q, e, cf, w, tl : gs = groups /\ SearchAt(sd, q, e, cf, w, tl)
  BY DEF SearchAt
<1>2. Grouped /\ WalkSame /\ q # <<>> /\ w # <<>>
  BY <1>1, Tracing DEF TraceBack, WalkSame, SearchAt
<1>3. PICK s0, G, x, z : G = gs[sd + 1] /\ s0 = LeastOf(G) /\ x = cf[w[1]] /\ z = cycle'
  OBVIOUS
<1>4. /\ CallsOK /\ sd < Len(gs) /\ AllTold(gs, sd, tl) /\ \E d : SearchOK(s0, G, cf, q, e, w, d)
  BY <1>1, <1>2, <1>3, SearchKnown
<1>5. PICK d : SearchOK(s0, G, cf, q, e, w, d)
  BY <1>4
<1>6. x # 0 /\ PutFirst(z, x, w)
  BY <1>1, <1>3 DEF TraceBack, PutFirst, SearchAt
<1>7. SearchOK(s0, G, cf, q, e, z, d)
  BY <1>2, <1>3, <1>4, <1>5, <1>6, SearchTraced
<1>8. SearchingOK(gs, sd, q, e, cf, z, tl)
  BY <1>2, <1>3, <1>4, <1>7, StepOK
<1>9. sd = searched' /\ q = queue' /\ e = call' /\ cf = cameFrom' /\ z = cycle' /\ tl = told'
  BY <1>1, <1>3 DEF TraceBack, SearchAt
<1> QED BY <1>1, <1>2, <1>8, <1>9, SearchStep

LEMMA NextInQueueKept == ASSUME CallsInv, NextInQueue PROVE CallsInv'
<1>1. PICK gs, sd, q, e, cf, w, tl : gs = groups /\ SearchAt(sd, q, e, cf, w, tl)
  BY DEF SearchAt
<1>2. Grouped /\ WalkSame /\ q # <<>> /\ w = <<>>
  BY <1>1 DEF NextInQueue, Looking, Searching, WalkSame, SearchAt
<1>3. PICK s0, G, h, z : G = gs[sd + 1] /\ s0 = LeastOf(G) /\ h = q[1] /\ z = queue'
  OBVIOUS
<1>4. /\ CallsOK /\ sd < Len(gs) /\ AllTold(gs, sd, tl)
      /\ Head(queue) = h /\ \E d : SearchOK(s0, G, cf, q, e, w, d)
  BY <1>1, <1>2, <1>3, SearchKnown
<1>5. PICK d : SearchOK(s0, G, cf, q, e, <<>>, d)
  BY <1>2, <1>4
<1>6. ~(e <= Len(graph[h])) /\ Len(q) > 1 /\ Next2(z, q)
  BY <1>1, <1>3, <1>4 DEF NextInQueue, CallsLeft, Next2, SearchAt
<1>7. SearchOK(s0, G, cf, z, 1, w, d)
  BY <1>2, <1>3, <1>4, <1>5, <1>6, SearchOnward
<1>8. z # <<>>
  BY <1>7 DEF SearchOK, QueueOK
<1>9. SearchingOK(gs, sd, z, 1, cf, w, tl)
  BY <1>3, <1>4, <1>7, <1>8, StepOK
<1>10. sd = searched' /\ z = queue' /\ 1 = call' /\ cf = cameFrom' /\ w = cycle' /\ tl = told'
  BY <1>1, <1>3 DEF NextInQueue, SearchAt
<1> QED BY <1>1, <1>2, <1>9, <1>10, SearchStep

(* A search that ends leaves nothing of itself. *)
LEMMA EndedKept ==
  ASSUME CallsInv, Grouped, EndSearch, NEW gs, gs = groups, NEW sd, sd = searched, NEW t, t = told', AllTold(gs, sd + 1, t)
  PROVE  CallsInv'
<1>1. PICK e, cf : e = call' /\ cf = cameFrom'
  OBVIOUS
<1>2. WalkSame /\ queue' = <<>> /\ cycle' = <<>> /\ sd + 1 = searched'
  BY DEF EndSearch, WalkSame
<1>3. AllZero(cf)
  BY <1>1 DEF EndSearch, AllZero
<1>4. SearchingOK(gs, sd + 1, <<>>, e, cf, <<>>, t)
  BY <1>3 DEF SearchingOK
<1> QED BY <1>1, <1>2, <1>4, SearchStep

LEMMA ReportCycleKept == ASSUME CallsInv, ReportCycle PROVE CallsInv'
<1>1. PICK gs, sd, q, e, cf, w, tl : gs = groups /\ SearchAt(sd, q, e, cf, w, tl)
  BY DEF SearchAt
<1>2. Grouped /\ EndSearch /\ q # <<>> /\ w # <<>> /\ cf[w[1]] = 0
  BY <1>1, Tracing DEF ReportCycle, SearchAt
<1>3. PICK s0, G, t : G = gs[sd + 1] /\ s0 = LeastOf(G) /\ t = told'
  OBVIOUS
<1>4. /\ CallsOK /\ gs \in Seq(SUBSET Nodes) /\ GroupsOK(gs) /\ sd < Len(gs) /\ AllTold(gs, sd, tl)
      /\ Mutual(G, s0) /\ \E d : SearchOK(s0, G, cf, q, e, w, d)
  BY <1>1, <1>2, <1>3, SearchKnown
<1>5. PICK d : SearchOK(s0, G, cf, q, e, w, d)
  BY <1>4
<1>6. w \in Seq(Nodes) /\ IsShortestCycle(w) /\ w[1] = s0 /\ s0 \in Reached(s0)
  BY <1>2, <1>4, <1>5, ShortestFound
<1>7. AddTold(t, tl, w)
  BY <1>1, <1>3 DEF ReportCycle, AddTold, SearchAt
<1>8. AllTold(gs, sd + 1, t)
  BY <1>3, <1>4, <1>6, <1>7, CycleTold
<1>9. sd = searched
  BY <1>1 DEF SearchAt
<1> QED BY <1>1, <1>2, <1>3, <1>8, <1>9, EndedKept

LEMMA NoCycleKept == ASSUME CallsInv, NoCycle PROVE CallsInv'
<1>1. PICK gs, sd, q, e, cf, w, tl : gs = groups /\ SearchAt(sd, q, e, cf, w, tl)
  BY DEF SearchAt
<1>2. Grouped /\ EndSearch /\ q # <<>> /\ w = <<>> /\ Len(q) = 1
  BY <1>1 DEF NoCycle, Looking, Searching, SearchAt
<1>3. PICK s0, G : G = gs[sd + 1] /\ s0 = LeastOf(G)
  OBVIOUS
<1>4. /\ CallsOK /\ gs \in Seq(SUBSET Nodes) /\ GroupsOK(gs) /\ sd < Len(gs) /\ AllTold(gs, sd, tl)
      /\ Mutual(G, s0) /\ Head(queue) = q[1] /\ \E d : SearchOK(s0, G, cf, q, e, w, d)
  BY <1>1, <1>2, <1>3, SearchKnown
<1>5. PICK d : SearchOK(s0, G, cf, q, e, <<>>, d)
  BY <1>2, <1>4
<1>6. ~(e <= Len(graph[q[1]]))
  BY <1>1, <1>4 DEF NoCycle, CallsLeft, SearchAt
<1>7. s0 \notin Reached(s0)
  BY <1>2, <1>4, <1>5, <1>6, NoneFound
<1>8. AllTold(gs, sd + 1, tl)
  BY <1>3, <1>4, <1>7, NoneTold
<1>9. sd = searched /\ tl = told'
  BY <1>1 DEF SearchAt, NoCycle
<1> QED BY <1>1, <1>2, <1>8, <1>9, EndedKept
-----------------------------------------------------------------------------
(* The walk goes on only while there is no search. *)
LEMMA WalkStep ==
  ASSUME CallsInv, ~Grouped, graph' = graph, WalkNow', UNCHANGED searchvars PROVE CallsInv'
<1>1. PICK sd, q, e, cf, w, tl : SearchAt(sd, q, e, cf, w, tl) /\ Idle(sd, q, cf, w, tl)
  BY DEF CallsInv, SearchNow
<1>2. CallsOK'
  BY CallsStay DEF CallsInv
<1>3. Idle(sd, q, cf, w, tl)'
  BY <1>1, SearchStays DEF Idle
<1>4. SearchAt(sd, q, e, cf, w, tl)'
  BY <1>1 DEF SearchAt, searchvars
<1>5. PICK gs : gs = groups'
  OBVIOUS
<1>6. SearchNow'
  BY <1>3, <1>4, <1>5 DEF SearchNow
<1> QED BY <1>2, <1>6 DEF CallsInv

LEMMA CallsBegun == ASSUME NEW g, CallsStart(g) PROVE CallsInv
<1>1. /\ g \in Seq(Seq(DOMAIN g)) /\ graph = g
      /\ index = [n \in DOMAIN g |-> 0] /\ low = index /\ cameFrom = index
      /\ open = <<>> /\ visits = <<>> /\ groups = <<>> /\ queue = <<>> /\ cycle = <<>> /\ told = <<>>
      /\ searched = 0 /\ call = 1
  BY DEF CallsStart
<1>2. CallsOK /\ Nodes = DOMAIN g
  BY <1>1 DEF CallsOK, Nodes
<1>3. PICK ix : ix = [n \in Nodes |-> 0]
  OBVIOUS
<1>4. ix = index /\ \A n \in Nodes : ix[n] = 0
  BY <1>1, <1>2, <1>3
<1>5. NumbersOK(ix, ix)
  <2>1. Seen(ix) = {}
    BY <1>4 DEF Seen
  <2>2. Cardinality(Seen(ix)) = 0
    BY <2>1, FS_EmptySet
  <2> QED BY <1>3, <1>4, <2>2 DEF NumbersOK
<1>6. In(<<>>) = {} /\ Gathered(<<>>) = {} /\ DOMAIN <<>> = {}
  BY DEF In, Gathered
<1>7. OpenOK(ix, <<>>, <<>>)
  BY <1>4, <1>6 DEF OpenOK
<1>8. FramesOK(ix, In(<<>>), <<>>) /\ ReachOK(ix, ix, In(<<>>), <<>>)
  BY <1>6 DEF FramesOK, ReachOK
<1>9. LowOK(ix, ix, In(<<>>), <<>>)
  BY <1>4, <1>6 DEF LowOK
<1>10. WalkOK(ix, ix, <<>>, <<>>, <<>>)
  BY <1>5, <1>6, <1>7, <1>8, <1>9 DEF WalkOK, GroupsOK
<1>11. WalkAt(ix, ix, <<>>, <<>>, <<>>)
  BY <1>1, <1>4 DEF WalkAt
<1>12. AllZero(ix)
  BY <1>3 DEF AllZero
<1>13. SearchAt(0, <<>>, 1, ix, <<>>, <<>>) /\ Idle(0, <<>>, ix, <<>>, <<>>)
  BY <1>1, <1>4, <1>12 DEF SearchAt, Idle
<1>14. SearchNow
  BY <1>1, <1>13 DEF SearchNow
<1> QED BY <1>2, <1>10, <1>11, <1>14 DEF CallsInv, WalkNow

LEMMA CallsStepKept == ASSUME CallsInv, CallsNext PROVE CallsInv'
<1>1. CallsOK /\ WalkNow
  BY DEF CallsInv
<1>2. CASE VisitNext
  <2>1. ~Grouped /\ graph' = graph /\ UNCHANGED searchvars
    BY <1>2 DEF VisitNext, Grouped
  <2>2. WalkNow'
    BY <1>1, <1>2, VisitNextKeeps
  <2> QED BY <2>1, <2>2, WalkStep
<1>3. CASE VisitCallee
  <2>1. ~Grouped /\ graph' = graph /\ UNCHANGED searchvars
    BY <1>3 DEF VisitCallee, Grouped
  <2>2. WalkNow'
    BY <1>1, <1>3, VisitCalleeKeeps
  <2> QED BY <2>1, <2>2, WalkStep
<1>4. CASE SeenCallee
  <2>1. ~Grouped /\ graph' = graph /\ UNCHANGED searchvars
    BY <1>4 DEF SeenCallee, Grouped
  <2>2. WalkNow'
    BY <1>1, <1>4, SeenCalleeKeeps
  <2> QED BY <2>1, <2>2, WalkStep
<1>5. CASE CloseVisit
  <2>1. ~Grouped /\ graph' = graph /\ UNCHANGED searchvars
    BY <1>5 DEF CloseVisit, Grouped
  <2>2. WalkNow'
    BY <1>1, <1>5, CloseVisitKeeps
  <2> QED BY <2>1, <2>2, WalkStep
<1>6. CASE SearchGroup BY <1>6, SearchGroupKept
<1>7. CASE FindCallee BY <1>7, FindCalleeKept
<1>8. CASE PassCallee BY <1>8, PassCalleeKept
<1>9. CASE CloseCycle BY <1>9, CloseCycleKept
<1>10. CASE TraceBack BY <1>10, TraceBackKept
<1>11. CASE ReportCycle BY <1>11, ReportCycleKept
<1>12. CASE NextInQueue BY <1>12, NextInQueueKept
<1>13. CASE NoCycle BY <1>13, NoCycleKept
<1> QED BY <1>2, <1>3, <1>4, <1>5, <1>6, <1>7, <1>8, <1>9, <1>10, <1>11, <1>12, <1>13 DEF CallsNext

LEMMA CallsUnchanged == ASSUME CallsInv, UNCHANGED cvars PROVE CallsInv'
<1>1. WalkSame /\ graph' = graph /\ groups' = groups
  BY DEF cvars, WalkSame
<1>2. CallsOK' /\ WalkNow' /\ Grouped' = Grouped
  BY <1>1, WalkSameKeeps DEF CallsInv
<1>3. PICK sd, q, e, cf, w, tl, gs :
        /\ SearchAt(sd, q, e, cf, w, tl) /\ gs = groups
        /\ Idle(sd, q, cf, w, tl) \/ (Grouped /\ SearchingOK(gs, sd, q, e, cf, w, tl))
  BY DEF CallsInv, SearchNow
<1>4. SearchAt(sd, q, e, cf, w, tl)' /\ gs = groups'
  BY <1>1, <1>3 DEF SearchAt, cvars, searchvars
<1>5. Idle(sd, q, cf, w, tl) => Idle(sd, q, cf, w, tl)'
  BY <1>1, SearchStays DEF Idle
<1>6. SearchingOK(gs, sd, q, e, cf, w, tl) => SearchingOK(gs, sd, q, e, cf, w, tl)'
  BY <1>1, SearchStays
<1>7. SearchNow'
  BY <1>2, <1>3, <1>4, <1>5, <1>6 DEF SearchNow
<1> QED BY <1>2, <1>7 DEF CallsInv

(* The walk of `components` and the search of `shortest_cycle`, over any   *)
(* functions and calls: a low is the number of an open function its own    *)
(* reaches, below all that is open and called since; the groups closed are *)
(* those of mutual reachability; a search has found each function by as    *)
(* few calls as there are, in that order, and has lost none.               *)
THEOREM CallsKept == CallsSpec => []CallsInv
<1>1. (\E g : CallsStart(g)) => CallsInv
  BY CallsBegun
<1>2. CallsInv /\ [CallsNext]_cvars => CallsInv'
  BY CallsStepKept, CallsUnchanged
<1> QED BY <1>1, <1>2, PTL DEF CallsSpec

(* `components` and `async_cycles`, for any functions and any calls: each  *)
(* group is all that reaches each other, after the groups it calls into,   *)
(* and a group with a cycle is reported once, at its first function, along *)
(* a cycle no other through that function is shorter than; one without a   *)
(* cycle is not reported.                                                  *)
THEOREM CyclesFound == CallsSpec => []CyclesReported
<1>1. CallsInv => CyclesReported
  <2> SUFFICES ASSUME CallsInv, Grouped, ~Searching
               PROVE  /\ UNION {groups[i] : i \in DOMAIN groups} = Nodes
                      /\ \A i \in DOMAIN groups : \A n \in groups[i] :
                           /\ groups[i] = {n} \cup {m \in Reached(n) : n \in Reached(m)}
                           /\ Reached(n) \subseteq UNION {groups[j] : j \in 1 .. i}
                      /\ \A i \in DOMAIN groups : Answered(groups[i], told)
    BY DEF CyclesReported, Answered
  <2>1. PICK gs, sd, q, e, cf, w, tl : gs = groups /\ SearchAt(sd, q, e, cf, w, tl)
    BY DEF SearchAt
  <2>2. gs \in Seq(SUBSET Nodes) /\ GroupsOK(gs) /\ Gathered(gs) = Nodes
    BY <2>1, GroupsKnown DEF CallsInv
  <2>3. AllTold(gs, sd, tl)
    BY <2>1, SearchUnderWay DEF SearchingOK
  <2>4. sd = Len(gs)
    <3>1. ~(sd < Len(gs)) /\ sd \in Nat /\ sd <= Len(gs) /\ Len(gs) \in Nat
      BY <2>1, <2>2, <2>3 DEF Searching, SearchAt, AllTold
    <3> QED BY <3>1
  <2>5. \A i \in DOMAIN gs : Answered(gs[i], tl)
    <3>1. DOMAIN gs = 1 .. sd
      BY <2>2, <2>4
    <3> QED BY <2>3, <3>1 DEF AllTold
  <2>6. tl = told
    BY <2>1 DEF SearchAt
  <2> QED BY <2>1, <2>2, <2>5, <2>6 DEF Gathered, GroupsOK
<1> QED BY <1>1, CallsKept, PTL
=============================================================================
