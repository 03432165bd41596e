------------------------ MODULE BorrowedTextProofs ------------------------
(***************************************************************************)
(* What a reference of an accepted program refers to is among the roots    *)
(* found for it, in any well-formed program, with loops that run and calls *)
(* that nest any number of times.                                          *)
(***************************************************************************)
EXTENDS BorrowedText, TLAPS, FiniteSetTheorems, WellFoundedInduction

(* A set of numbers has a least one.                                       *)
LEMMA LeastOf ==
  ASSUME NEW S \in SUBSET Nat, S # {} PROVE \E n \in S : \A m \in S : n <= m
<1>1. PICK R : R = {ss \in Nat \X Nat : ss[1] < ss[2]}
  OBVIOUS
<1>2. IsWellFoundedOn(R, Nat)
  <2>1. IsWellFoundedOn({ss \in Nat \X Nat : ss[1] < ss[2]}, Nat)
    BY NatLessThanWellFounded DEF OpToRel
  <2> QED BY <1>1, <2>1
<1>3. PICK x \in S : \A y \in S : <<y, x>> \notin R
  BY <1>2, WFMin
<1>4. \A y \in S : ~(y < x)
  BY <1>1, <1>3
<1>5. \A y \in S : x <= y
  BY <1>4
<1> QED BY <1>5

(* What holds of 0, and of each number after one it holds of, holds of all *)
(* up to any bound.                                                        *)
LEMMA UpTo ==
  ASSUME NEW most \in Nat, NEW S, 0 \in S,
         \A n \in 1 .. most : n - 1 \in S => n \in S
  PROVE  0 .. most \subseteq S
<1> DEFINE Bad == (0 .. most) \ S
<1>1. SUFFICES ASSUME Bad # {} PROVE FALSE
  BY <1>1
<1>2. PICK n \in Bad : \A m \in Bad : n <= m
  <2>1. Bad \in SUBSET Nat
    OBVIOUS
  <2> HIDE DEF Bad
  <2> QED BY <1>1, <2>1, LeastOf
<1>3. n # 0 /\ n \in 1 .. most /\ n - 1 \in 0 .. most
  BY <1>2
<1>4. n - 1 \notin Bad
  BY <1>2, <1>3
<1> QED BY <1>2, <1>3, <1>4
-----------------------------------------------------------------------------
(* The steps of `Settled` are there: a function defined up to any bound.   *)
StepsOf(D, step, first, most, h) ==
  h \in [0 .. most -> D] /\ h[0] = first /\ \A n \in 1 .. most : h[n] = step[h[n - 1]]

LEMMA StepsExist ==
  ASSUME NEW D, NEW step \in [D -> D], NEW first \in D, NEW most \in Nat
  PROVE  \E h : StepsOf(D, step, first, most, h)
<1> DEFINE S == {m \in Nat : \E h : StepsOf(D, step, first, m, h)}
<1>1. 0 \in S
  <2>1. StepsOf(D, step, first, 0, [n \in 0 .. 0 |-> first])
    BY DEF StepsOf
  <2> QED BY <2>1
<1>2. ASSUME NEW m \in 1 .. most, m - 1 \in S PROVE m \in S
  <2>1. PICK g : StepsOf(D, step, first, m - 1, g)
    BY <1>2
  <2> DEFINE h == [n \in 0 .. m |-> IF n = m THEN step[g[m - 1]] ELSE g[n]]
  <2>2. h \in [0 .. m -> D]
    BY <2>1 DEF StepsOf
  <2>3. h[0] = first
    BY <2>1 DEF StepsOf
  <2>4. ASSUME NEW n \in 1 .. m PROVE h[n] = step[h[n - 1]]
    <3>1. CASE n = m
      BY <3>1
    <3>2. CASE n # m
      <4>1. n \in 1 .. m - 1 /\ n - 1 \in 0 .. m - 1 /\ n - 1 # m
        BY <3>2
      <4> QED BY <3>2, <4>1, <2>1 DEF StepsOf
    <3> QED BY <3>1, <3>2
  <2> HIDE DEF h
  <2>5. StepsOf(D, step, first, m, h)
    BY <2>2, <2>3, <2>4 DEF StepsOf
  <2> QED BY <2>5
<1>3. most \in 0 .. most
  OBVIOUS
<1> HIDE DEF S
<1>4. most \in S
  BY <1>1, <1>2, <1>3, UpTo
<1> QED BY <1>4 DEF S

SettlesAs(D, step, first, most, h) ==
  /\ StepsOf(D, step, first, most + 1, h)
  /\ Settled(step, first, most) = h[CHOOSE n \in 0 .. most : h[n + 1] = h[n]]

LEMMA SettledSteps ==
  ASSUME NEW D, NEW step \in [D -> D], NEW first \in D, NEW most \in Nat
  PROVE  \E h : SettlesAs(D, step, first, most, h)
<1> DEFINE Body(h) == [n \in 0 .. most + 1 |-> IF n = 0 THEN first ELSE step[h[n - 1]]]
           at == CHOOSE h : h = Body(h)
<1>1. most + 1 \in Nat
  OBVIOUS
<1>2. \E h : h = Body(h)
  <2>1. PICK h : StepsOf(D, step, first, most + 1, h)
    <3> HIDE DEF at
    <3> QED BY <1>1, StepsExist
  <2>2. \A n \in 0 .. most + 1 : h[n] = Body(h)[n]
    <3> SUFFICES ASSUME NEW n \in 0 .. most + 1 PROVE h[n] = Body(h)[n]
      OBVIOUS
    <3>1. CASE n = 0
      BY <3>1, <2>1 DEF StepsOf
    <3>2. CASE n # 0
      BY <3>2, <2>1 DEF StepsOf
    <3> QED BY <3>1, <3>2
  <2>3. h = Body(h)
    BY <2>1, <2>2 DEF StepsOf
  <2> QED BY <2>3
<1>3. at = Body(at)
  <2> HIDE DEF Body
  <2> QED BY <1>2, Zenon
<1>4. Settled(step, first, most) = at[CHOOSE n \in 0 .. most : at[n + 1] = at[n]]
  BY DEF Settled
<1> HIDE DEF at
<1>5. DOMAIN at = 0 .. most + 1 /\ at[0] = first /\ \A n \in 1 .. most + 1 : at[n] = step[at[n - 1]]
  BY <1>3
<1>6. \A n \in 0 .. most + 1 : at[n] \in D
  <2> DEFINE S == {n \in Nat : n <= most + 1 => at[n] \in D}
  <2>1. 0 \in S
    BY <1>5
  <2>2. ASSUME NEW n \in 1 .. most + 1, n - 1 \in S PROVE n \in S
    <3>1. at[n - 1] \in D
      BY <2>2
    <3>2. at[n] = step[at[n - 1]]
      BY <1>5
    <3> QED BY <3>1, <3>2
  <2> HIDE DEF S
  <2>3. 0 .. most + 1 \subseteq S
    BY <1>1, <2>1, <2>2, UpTo
  <2> QED BY <2>3 DEF S
<1>7. StepsOf(D, step, first, most + 1, at)
  <2>1. at = [n \in 0 .. most + 1 |-> at[n]]
    BY <1>3
  <2>2. at \in [0 .. most + 1 -> D]
    BY <2>1, <1>6
  <2> QED BY <2>2, <1>5 DEF StepsOf
<1> QED BY <1>4, <1>7 DEF SettlesAs

(* A growing set cannot grow more often than it can have elements.         *)
LEMMA StopsGrowing ==
  ASSUME NEW S, IsFiniteSet(S), NEW h \in [0 .. Cardinality(S) + 1 -> SUBSET S],
         \A n \in 0 .. Cardinality(S) : h[n] \subseteq h[n + 1]
  PROVE  \E n \in 0 .. Cardinality(S) : h[n + 1] = h[n]
<1> DEFINE K == Cardinality(S)
<1>1. K \in Nat
  BY FS_CardinalityType
<1>2. SUFFICES ASSUME \A n \in 0 .. K : h[n + 1] # h[n] PROVE FALSE
  OBVIOUS
<1> DEFINE Big == {n \in Nat : n <= K + 1 => Cardinality(h[n]) >= n}
<1> HIDE DEF K
<1>3. \A n \in 0 .. K + 1 : IsFiniteSet(h[n]) /\ Cardinality(h[n]) \in Nat /\ Cardinality(h[n]) <= K
  <2> SUFFICES ASSUME NEW n \in 0 .. K + 1
      PROVE IsFiniteSet(h[n]) /\ Cardinality(h[n]) \in Nat /\ Cardinality(h[n]) <= K
    OBVIOUS
  <2>1. h[n] \in SUBSET S
    BY DEF K
  <2> QED BY <2>1, FS_Subset, FS_CardinalityType DEF K
<1>4. 0 \in Big
  <2>1. Cardinality(h[0]) \in Nat
    BY <1>1, <1>3
  <2> QED BY <2>1
<1>5. ASSUME NEW n \in 1 .. K + 1, n - 1 \in Big PROVE n \in Big
  <2>1. n - 1 \in 0 .. K /\ n - 1 \in 0 .. K + 1 /\ (n - 1) + 1 = n
    BY <1>1
  <2>2. Cardinality(h[n - 1]) >= n - 1
    BY <1>5, <2>1
  <2>3. h[n - 1] \subseteq h[(n - 1) + 1] /\ h[(n - 1) + 1] # h[n - 1]
    BY <2>1, <1>2 DEF K
  <2>4. h[n - 1] \subseteq h[n] /\ h[n] # h[n - 1]
    BY <2>1, <2>3
  <2>5. Cardinality(h[n - 1]) < Cardinality(h[n])
    <3>1. n - 1 \in 0 .. K + 1 /\ IsFiniteSet(h[n])
      BY <2>1, <1>3
    <3>2. Cardinality(h[n - 1]) <= Cardinality(h[n]) /\ (Cardinality(h[n - 1]) = Cardinality(h[n]) => h[n - 1] = h[n])
      BY <2>4, <3>1, FS_Subset
    <3> QED BY <2>1, <2>4, <3>2, <1>3
  <2>6. Cardinality(h[n - 1]) \in Nat /\ Cardinality(h[n]) \in Nat
    BY <2>1, <1>3
  <2> QED BY <2>2, <2>5, <2>6
<1>6. K + 1 \in Nat
  BY <1>1
<1> HIDE DEF Big
<1>7. 0 .. K + 1 \subseteq Big
  BY <1>4, <1>5, <1>6, UpTo
<1>8. Cardinality(h[K + 1]) >= K + 1
  BY <1>1, <1>7 DEF Big
<1>9. Cardinality(h[K + 1]) \in Nat /\ Cardinality(h[K + 1]) <= K
  BY <1>1, <1>3
<1> QED BY <1>1, <1>8, <1>9

(* What `Settled` gives is the least set that has first in it and that the *)
(* step adds nothing to.                                                   *)
LEMMA SettledLeast ==
  ASSUME NEW S, IsFiniteSet(S), NEW step \in [SUBSET S -> SUBSET S],
         \A X \in SUBSET S : X \subseteq step[X], NEW first \in SUBSET S
  PROVE  LET r == Settled(step, first, Cardinality(S))
         IN /\ r \in SUBSET S /\ first \subseteq r /\ step[r] = r
            /\ \A W \in SUBSET S :
                 first \subseteq W /\ (\A X \in SUBSET W : step[X] \subseteq W) => r \subseteq W
<1> DEFINE K == Cardinality(S)
           r == Settled(step, first, K)
<1>1. K \in Nat
  BY FS_CardinalityType
<1>2. PICK h : /\ StepsOf(SUBSET S, step, first, K + 1, h)
               /\ r = h[CHOOSE n \in 0 .. K : h[n + 1] = h[n]]
  <2> HIDE DEF K
  <2>1. PICK h : SettlesAs(SUBSET S, step, first, K, h)
    BY <1>1, SettledSteps
  <2> QED BY <2>1 DEF SettlesAs
<1>3. \A n \in 0 .. K : h[n] \in SUBSET S /\ h[n + 1] = step[h[n]]
  <2> SUFFICES ASSUME NEW n \in 0 .. K PROVE h[n] \in SUBSET S /\ h[n + 1] = step[h[n]]
    OBVIOUS
  <2>1. n \in 0 .. K + 1 /\ n + 1 \in 1 .. K + 1 /\ (n + 1) - 1 = n
    BY <1>1
  <2>2. h[n + 1] = step[h[(n + 1) - 1]]
    BY <2>1, <1>2 DEF StepsOf
  <2> QED BY <2>1, <2>2, <1>2 DEF StepsOf
<1>4. \A n \in 0 .. K : h[n] \subseteq h[n + 1]
  BY <1>3
<1>5. \E n \in 0 .. K : h[n + 1] = h[n]
  BY <1>2, <1>4, StopsGrowing DEF StepsOf
<1>6. PICK n \in 0 .. K : n = (CHOOSE m \in 0 .. K : h[m + 1] = h[m]) /\ h[n + 1] = h[n]
  <2> HIDE DEF K, r
  <2> QED BY <1>5, Zenon
<1>7. r = h[n] /\ r \in SUBSET S /\ step[r] = r
  <2>1. r = h[n]
    BY <1>2, <1>6
  <2> HIDE DEF K, r
  <2> QED BY <2>1, <1>3, <1>6
<1> HIDE DEF K, r
<1>8. first \subseteq r
  <2> DEFINE G == {m \in Nat : m <= K => first \subseteq h[m]}
  <2>1. 0 \in G
    BY <1>2 DEF StepsOf
  <2>2. ASSUME NEW m \in 1 .. K, m - 1 \in G PROVE m \in G
    <3>1. m - 1 \in 0 .. K /\ (m - 1) + 1 = m /\ m - 1 <= K
      BY <1>1
    <3>2. h[m - 1] \subseteq h[(m - 1) + 1]
      BY <3>1, <1>4
    <3>3. first \subseteq h[m - 1]
      BY <2>2, <3>1
    <3> QED BY <3>1, <3>2, <3>3
  <2> HIDE DEF G
  <2>3. 0 .. K \subseteq G
    BY <1>1, <2>1, <2>2, UpTo
  <2> QED BY <2>3, <1>6, <1>7 DEF G
<1>9. ASSUME NEW W \in SUBSET S, first \subseteq W, \A X \in SUBSET W : step[X] \subseteq W PROVE r \subseteq W
  <2> DEFINE G == {m \in Nat : m <= K => h[m] \subseteq W}
  <2>1. 0 \in G
    BY <1>2, <1>9 DEF StepsOf
  <2>2. ASSUME NEW m \in 1 .. K, m - 1 \in G PROVE m \in G
    <3>1. m - 1 \in 0 .. K /\ (m - 1) + 1 = m /\ m - 1 <= K
      BY <1>1
    <3>2. h[m - 1] \in SUBSET W
      BY <2>2, <3>1
    <3>3. h[(m - 1) + 1] = step[h[m - 1]]
      BY <3>1, <1>3
    <3> QED BY <3>1, <3>2, <3>3, <1>9
  <2> HIDE DEF G
  <2>3. 0 .. K \subseteq G
    BY <1>1, <2>1, <2>2, UpTo
  <2> QED BY <2>3, <1>6, <1>7 DEF G
<1>10. LET rr == Settled(step, first, Cardinality(S)) IN rr = r
  BY DEF r, K
<1> QED BY <1>7, <1>8, <1>9 DEF r, K
-----------------------------------------------------------------------------
(* There are finitely many pairs of finitely many numbers.                 *)
LEMMA FinitePairs ==
  ASSUME NEW n \in Nat PROVE IsFiniteSet((1 .. n) \X (1 .. n))
<1> DEFINE S == (1 .. n) \X (1 .. n)
           T == 0 .. n * n + n
           g == [p \in S |-> p[1] * n + p[2]]
<1>1. n * n \in Nat
  OBVIOUS
<1>2. IsFiniteSet(T)
  <2>1. 0 \in Int /\ n * n + n \in Int
    BY <1>1
  <2> QED BY <2>1, FS_Interval
<1>3. ASSUME NEW a \in 1 .. n, NEW b \in 1 .. n PROVE a * n + b \in T
  <2>1. a * n \in Nat /\ a * n <= n * n
    OBVIOUS
  <2> QED BY <1>1, <2>1
<1>4. ASSUME NEW a \in 1 .. n, NEW b \in 1 .. n, NEW c \in 1 .. n, NEW d \in 1 .. n, a < c
      PROVE  a * n + b # c * n + d
  <2>1. (a + 1) * n <= c * n
    BY <1>4
  <2>2. (a + 1) * n = a * n + n /\ a * n \in Nat /\ c * n \in Nat
    OBVIOUS
  <2> QED BY <2>1, <2>2
<1>5. ASSUME NEW p \in S, NEW q \in S, g[p] = g[q] PROVE p = q
  <2>1. PICK a \in 1 .. n, b \in 1 .. n : p = <<a, b>>
    OBVIOUS
  <2>2. PICK c \in 1 .. n, d \in 1 .. n : q = <<c, d>>
    OBVIOUS
  <2>3. a * n + b = c * n + d
    BY <2>1, <2>2, <1>5
  <2>4. ~(a < c) /\ ~(c < a)
    BY <1>4, <2>3
  <2>5. a = c
    BY <2>4
  <2>6. a * n \in Nat
    OBVIOUS
  <2>7. b = d
    BY <2>3, <2>5, <2>6
  <2> QED BY <2>1, <2>2, <2>5, <2>7
<1>6. g \in [S -> T]
  <2>1. ASSUME NEW p \in S PROVE p[1] * n + p[2] \in T
    <3>1. p[1] \in 1 .. n /\ p[2] \in 1 .. n
      OBVIOUS
    <3> HIDE DEF T
    <3> QED BY <3>1, <1>3
  <2> HIDE DEF T, S
  <2> QED BY <2>1
<1>7. g \in Injection(S, T)
  <2> HIDE DEF g, S, T
  <2> QED BY <1>5, <1>6 DEF Injection, IsInjective
<1> QED BY <1>2, <1>7, FS_Injection
-----------------------------------------------------------------------------
(* The parts of a function of a well-formed program.                       *)
LEMMA Shape ==
  ASSUME WellFormed, NEW f \in Fns
  PROVE  LET fn == program[f]
         IN /\ fn.params \in Nat /\ fn.muts \in SUBSET Nat /\ fn.ret \in Seq(Leaf)
            /\ fn.pre \in Seq(Statement) /\ fn.loop \in Seq(Statement)
            /\ Stmts(f) \in Seq(Statement) /\ Len(Stmts(f)) = Len(fn.pre) + Len(fn.loop)
            /\ \A i \in DOMAIN fn.pre : i \in DOMAIN Stmts(f) /\ Stmts(f)[i] = fn.pre[i]
            /\ \A i \in DOMAIN Stmts(f) :
                 i \notin DOMAIN fn.pre =>
                   i - Len(fn.pre) \in DOMAIN fn.loop /\ Stmts(f)[i] = fn.loop[i - Len(fn.pre)]
            /\ Scoped(f)
<1>1. program \in Seq(Function) /\ f \in DOMAIN program
  BY DEF WellFormed, Fns
<1>2. program[f] \in Function
  BY <1>1
<1>3. /\ program[f].params \in Nat /\ program[f].muts \in SUBSET Nat /\ program[f].ret \in Seq(Leaf)
      /\ program[f].pre \in Seq(Statement) /\ program[f].loop \in Seq(Statement)
  BY <1>2 DEF Function
<1> DEFINE a == program[f].pre
           b == program[f].loop
<1>4. Stmts(f) = a \o b
  BY DEF Stmts
<1> HIDE DEF a, b
<1>5. a \in Seq(Statement) /\ b \in Seq(Statement)
  BY <1>3 DEF a, b
<1>6. a \o b \in Seq(Statement) /\ Len(a \o b) = Len(a) + Len(b)
  BY <1>5
<1>7. \A i \in DOMAIN a : i \in DOMAIN (a \o b) /\ (a \o b)[i] = a[i]
  BY <1>5
<1>8. \A i \in DOMAIN (a \o b) : i \notin DOMAIN a => i - Len(a) \in DOMAIN b /\ (a \o b)[i] = b[i - Len(a)]
  BY <1>5
<1>9. Scoped(f)
  BY DEF WellFormed
<1> QED BY <1>3, <1>4, <1>6, <1>7, <1>8, <1>9 DEF a, b

(* The locals are the numbers up to a number.                              *)
LEMMA LocalsFinite ==
  ASSUME WellFormed, NEW f \in Fns
  PROVE  /\ \E n \in Nat : Locals(f) = 1 .. n
         /\ IsFiniteSet(Locals(f)) /\ IsFiniteSet(Locals(f) \X Locals(f)) /\ IsFiniteSet(Lets(f))
         /\ 0 \notin Locals(f) /\ Params(f) \subseteq Locals(f) /\ Lets(f) \subseteq Locals(f)
         /\ Params(f) \subseteq Nat /\ Locals(f) \subseteq Nat
<1>1. program[f].params \in Nat /\ Stmts(f) \in Seq(Statement)
  BY Shape
<1>2. IsFiniteSet(Declared(f)) /\ Cardinality(Declared(f)) \in Nat
  <2>1. Declared(f) \in SUBSET (1 .. Len(Stmts(f)))
    BY <1>1 DEF Declared
  <2>2. Len(Stmts(f)) \in Int /\ 1 \in Int
    BY <1>1
  <2>3. IsFiniteSet(1 .. Len(Stmts(f)))
    BY <2>2, FS_Interval
  <2> QED BY <2>1, <2>3, FS_Subset, FS_CardinalityType
<1>3. PICK n \in Nat : n = program[f].params + Cardinality(Declared(f))
  BY <1>1, <1>2
<1>4. Locals(f) = 1 .. n
  BY <1>3 DEF Locals
<1>5. IsFiniteSet(1 .. n) /\ IsFiniteSet((1 .. n) \X (1 .. n))
  <2>1. 1 \in Int /\ n \in Int
    OBVIOUS
  <2>2. IsFiniteSet(1 .. n)
    BY <2>1, FS_Interval
  <2> QED BY <2>2, FinitePairs
<1>6. Params(f) \subseteq Locals(f)
  BY <1>1, <1>2, <1>3, <1>4 DEF Params
<1>7. Lets(f) \in SUBSET (1 .. n)
  BY <1>4 DEF Lets
<1>8. IsFiniteSet(Lets(f))
  BY <1>5, <1>7, FS_Subset
<1> QED BY <1>4, <1>5, <1>6, <1>7, <1>8

(* The leaves of a function, and where they stand.                         *)
LEMMA LeafShape ==
  ASSUME WellFormed, NEW f \in Fns
  PROVE  /\ \A v \in Leaves(f) :
              /\ v \in Leaf /\ Mentions(v) \subseteq Locals(f)
              /\ v.kind = "call" => v.of \in Fns /\ Len(v.args) = program[v.of].params
         /\ \A l : Initial(f, l) \subseteq Given(f, l) /\ Given(f, l) \subseteq Leaves(f)
         /\ \A i \in DOMAIN Stmts(f) : Elements(Stmts(f)[i].value) \subseteq Leaves(f)
         /\ Elements(program[f].ret) \subseteq Leaves(f)
<1>1. Stmts(f) \in Seq(Statement) /\ program[f].ret \in Seq(Leaf) /\ Scoped(f)
  BY Shape
<1>2. \A i \in DOMAIN Stmts(f) : Stmts(f)[i].value \in Seq(Leaf)
  <2>1. \A i \in DOMAIN Stmts(f) : Stmts(f)[i] \in Statement
    BY <1>1
  <2>2. \A s \in Statement : s.value \in Seq(Leaf)
    BY DEF Statement
  <2> QED BY <2>1, <2>2
<1>3. \A i \in DOMAIN Stmts(f) : Elements(Stmts(f)[i].value) \subseteq Leaf
  BY <1>2 DEF Elements
<1>4. Elements(program[f].ret) \subseteq Leaf
  BY <1>1 DEF Elements
<1>5. Leaves(f) \subseteq Leaf
  <2>1. \A v \in Leaves(f) : v \in Elements(program[f].ret)
                           \/ \E i \in DOMAIN Stmts(f) : v \in Elements(Stmts(f)[i].value)
    BY DEF Leaves
  <2> QED BY <2>1, <1>3, <1>4
<1>6. \A i \in DOMAIN Stmts(f) : Elements(Stmts(f)[i].value) \subseteq Leaves(f)
  BY DEF Leaves
<1>7. Elements(program[f].ret) \subseteq Leaves(f)
  BY DEF Leaves
<1>8. \A l : Given(f, l) \subseteq Leaves(f)
  BY <1>6 DEF Given
<1>9. \A l : Initial(f, l) \subseteq Given(f, l)
  BY DEF Initial, Given, Declared
<1> QED BY <1>1, <1>5, <1>6, <1>7, <1>8, <1>9 DEF Scoped

(* What the statement at a place gives a text.                             *)
LEMMA GivenAt ==
  ASSUME WellFormed, NEW f \in Fns, NEW i \in DOMAIN Stmts(f), NEW v \in Elements(Stmts(f)[i].value),
         Stmts(f)[i].op # "own"
  PROVE  LET l == Stmts(f)[i].local
         IN /\ l \in Lets(f) /\ v \in Given(f, l)
            /\ Stmts(f)[i].op = "let" => v \in Initial(f, l)
            /\ i \in DOMAIN program[f].pre => Mentions(v) \cap InLoop(f) = {} /\ l \notin InLoop(f)
            /\ i \notin DOMAIN program[f].pre /\ Stmts(f)[i].op = "let" => l \in InLoop(f)
<1> DEFINE l == Stmts(f)[i].local
<1>1. Stmts(f) \in Seq(Statement) /\ Scoped(f)
  BY Shape
<1>0. Stmts(f)[i] \in Statement
  BY <1>1
<1>2. Stmts(f)[i].op \in {"let", "set"}
  BY <1>0 DEF Statement
<1>3. v \in Given(f, l)
  BY DEF Given
<1>4. Stmts(f)[i].op = "let" => i \in Declared(f)
  BY DEF Declared
<1>5. Stmts(f)[i].op = "set" => i \notin Declared(f)
  BY DEF Declared
<1>6. Stmts(f)[i].op = "let" => v \in Initial(f, l)
  BY <1>4 DEF Initial
<1>7. l \in Lets(f)
  <2>1. CASE Stmts(f)[i].op = "set"
    BY <1>1, <1>5, <2>1 DEF Scoped
  <2>2. CASE Stmts(f)[i].op = "let"
    <3>1. l \in Locals(f) \ Params(f)
      BY <1>1, <1>4, <2>2 DEF Scoped
    <3>2. l \notin Owners(f)
      <4>1. SUFFICES ASSUME NEW j \in Declared(f), Stmts(f)[j].op = "own", Stmts(f)[j].local = l PROVE FALSE
        BY DEF Owners
      <4>2. j = i
        BY <4>1, <1>1, <1>4, <2>2 DEF Scoped
      <4> QED BY <4>1, <4>2, <2>2
    <3> QED BY <3>1, <3>2 DEF Lets
  <2> QED BY <1>2, <2>1, <2>2
<1>8. ASSUME i \in DOMAIN program[f].pre
      PROVE  Mentions(v) \cap InLoop(f) = {} /\ l \notin InLoop(f)
  <2>1. program[f].pre[i] = Stmts(f)[i]
    BY <1>8, Shape
  <2>2. {l} \cup UNION {Mentions(u) : u \in Elements(Stmts(f)[i].value)} \subseteq Locals(f) \ InLoop(f)
    BY <1>1, <1>8, <2>1 DEF Scoped
  <2> QED BY <2>2
<1>9. ASSUME i \notin DOMAIN program[f].pre, Stmts(f)[i].op = "let" PROVE l \in InLoop(f)
  <2>1. i - Len(program[f].pre) \in DOMAIN program[f].loop
        /\ Stmts(f)[i] = program[f].loop[i - Len(program[f].pre)]
    BY <1>9, Shape
  <2> QED BY <1>9, <2>1 DEF InLoop
<1> QED BY <1>3, <1>6, <1>7, <1>8, <1>9
-----------------------------------------------------------------------------
(* What a function reaches: its callees and theirs, and no more.           *)
LEMMA ReachesLeast ==
  ASSUME WellFormed, NEW f \in Fns
  PROVE  /\ Callees(f) \subseteq Reaches(f) /\ Reaches(f) \subseteq Fns
         /\ \A g \in Reaches(f) : Callees(g) \subseteq Reaches(f)
         /\ \A W \in SUBSET Fns :
              Callees(f) \subseteq W /\ (\A g \in W : Callees(g) \subseteq W) => Reaches(f) \subseteq W
<1> DEFINE further == [S \in SUBSET Fns |-> S \cup UNION {Callees(g) : g \in S}]
<1>1. \A g \in Fns : Callees(g) \subseteq Fns
  <2> SUFFICES ASSUME NEW g \in Fns, NEW h \in Callees(g) PROVE h \in Fns
    OBVIOUS
  <2>1. PICK v \in Leaves(g) : v.kind = "call" /\ h = v.of
    BY DEF Callees
  <2> QED BY <2>1, LeafShape
<1>2. further \in [SUBSET Fns -> SUBSET Fns]
  BY <1>1
<1>3. \A X \in SUBSET Fns : X \subseteq further[X]
  OBVIOUS
<1>4. IsFiniteSet(Fns)
  <2>1. program \in Seq(Function)
    BY DEF WellFormed
  <2>2. Fns = 1 .. Len(program) /\ 1 \in Int /\ Len(program) \in Int
    BY <2>1 DEF Fns
  <2> QED BY <2>2, FS_Interval
<1>5. Callees(f) \in SUBSET Fns
  BY <1>1
<1>6. Reaches(f) = Settled(further, Callees(f), Cardinality(Fns))
  BY DEF Reaches
<1>7. \A X \in SUBSET Fns : \A g \in X : Callees(g) \subseteq further[X]
  OBVIOUS
<1>8. ASSUME NEW W \in SUBSET Fns, \A g \in W : Callees(g) \subseteq W, NEW X \in SUBSET W
      PROVE  further[X] \subseteq W
  BY <1>8
<1> HIDE DEF further
<1>9. /\ Reaches(f) \in SUBSET Fns /\ Callees(f) \subseteq Reaches(f) /\ further[Reaches(f)] = Reaches(f)
      /\ \A W \in SUBSET Fns :
           Callees(f) \subseteq W /\ (\A X \in SUBSET W : further[X] \subseteq W) => Reaches(f) \subseteq W
  BY <1>2, <1>3, <1>4, <1>5, <1>6, SettledLeast
<1>10. \A g \in Reaches(f) : Callees(g) \subseteq Reaches(f)
  BY <1>7, <1>9
<1>11. ASSUME NEW W \in SUBSET Fns, Callees(f) \subseteq W, \A g \in W : Callees(g) \subseteq W
       PROVE  Reaches(f) \subseteq W
  <2>1. \A X \in SUBSET W : further[X] \subseteq W
    BY <1>8, <1>11
  <2> QED BY <1>9, <1>11, <2>1
<1> QED BY <1>9, <1>10, <1>11

LEMMA ReachesFurther ==
  ASSUME WellFormed, NEW f \in Fns, NEW g \in Reaches(f)
  PROVE  g \in Fns /\ Reaches(g) \subseteq Reaches(f)
BY ReachesLeast

(* A function's group is that of each function in it.                      *)
LEMMA GroupsEqual ==
  ASSUME WellFormed, NEW f \in Fns
  PROVE  /\ f \in Group(f) /\ Group(f) \subseteq Fns
         /\ \A g \in Group(f) : Group(g) = Group(f)
<1>1. \A g \in Fns : g \in Group(g) /\ Group(g) \subseteq Fns
  BY ReachesLeast DEF Group
<1>2. ASSUME NEW g \in Fns, NEW h \in Group(g), NEW k \in Group(h) PROVE k \in Group(g)
  <2>1. k = h \/ (k \in Reaches(h) /\ h \in Reaches(k))
    BY DEF Group
  <2>2. h = g \/ (h \in Reaches(g) /\ g \in Reaches(h))
    BY DEF Group
  <2>3. CASE k = h \/ h = g
    BY <2>1, <2>2, <2>3 DEF Group
  <2>4. CASE k # h /\ h # g
    <3>1. k \in Reaches(g)
      BY <2>1, <2>2, <2>4, ReachesFurther
    <3>2. k \in Fns /\ g \in Reaches(k)
      BY <2>1, <2>2, <2>4, <3>1, ReachesFurther
    <3> QED BY <3>1, <3>2 DEF Group
  <2> QED BY <2>3, <2>4
<1>3. ASSUME NEW g \in Fns, NEW h \in Group(g) PROVE g \in Group(h) /\ h \in Fns
  BY <1>1 DEF Group
<1>4. ASSUME NEW g \in Group(f) PROVE Group(g) = Group(f)
  <2>1. g \in Fns /\ f \in Group(g)
    BY <1>3
  <2>2. \A k \in Group(g) : k \in Group(f)
    BY <1>2
  <2>3. \A k \in Group(f) : k \in Group(g)
    BY <1>2, <2>1
  <2> QED BY <2>2, <2>3
<1> QED BY <1>1, <1>4

(* A function called in its own group calls itself.                        *)
LEMMA CalledInGroup ==
  ASSUME WellFormed, NEW f \in Fns, NEW g \in Callees(f), g \in Group(f)
  PROVE  Recursive(g)
<1>1. g \in Reaches(f)
  BY ReachesLeast
<1>2. CASE g = f
  BY <1>1, <1>2 DEF Recursive
<1>3. CASE g # f
  <2>1. f \in Reaches(g) /\ g \in Fns
    BY <1>1, <1>3, ReachesFurther DEF Group
  <2> QED BY <1>1, <2>1, ReachesFurther DEF Recursive
<1> QED BY <1>2, <1>3
-----------------------------------------------------------------------------
LEMMA LetsBorrowed ==
  ASSUME WellFormed, NEW f \in Fns PROVE BorrowedLets(f) \in SUBSET Lets(f)
<1> DEFINE bind == [B \in SUBSET Lets(f) |-> B \cup {l \in Lets(f) : \E v \in Initial(f, l) : IsBorrowed(f, v, B)}]
<1>1. bind \in [SUBSET Lets(f) -> SUBSET Lets(f)] /\ \A X \in SUBSET Lets(f) : X \subseteq bind[X]
  OBVIOUS
<1>2. BorrowedLets(f) = Settled(bind, {}, Cardinality(Lets(f)))
  BY DEF BorrowedLets
<1>3. {} \in SUBSET Lets(f) /\ IsFiniteSet(Lets(f))
  BY LocalsFinite
<1> HIDE DEF bind
<1>4. Settled(bind, {}, Cardinality(Lets(f))) \in SUBSET Lets(f)
  BY <1>1, <1>3, SettledLeast
<1> QED BY <1>2, <1>4

(* The roots: those named directly, and those of each root and of each     *)
(* text copied in.                                                         *)
LEMMA RootsLeast ==
  ASSUME WellFormed, NEW f \in Fns, NEW B \in SUBSET Lets(f)
  PROVE  LET R == AliasRoots(f, B)
             C == Copies(f, B)
         IN /\ R \in SUBSET (Locals(f) \X Locals(f)) /\ Direct(f, B) \subseteq R
            /\ \A a, b, c : <<a, b>> \in R \cup C /\ <<b, c>> \in R /\ c # a => <<a, c>> \in R
            /\ \A W \in SUBSET (Locals(f) \X Locals(f)) :
                 /\ Direct(f, B) \subseteq W
                 /\ \A a, b, c : (<<a, b>> \in W \/ (<<a, b>> \in C /\ \E r : <<b, r>> \in W)) /\ c \in Locals(f) => <<a, c>> \in W
                 => R \subseteq W
<1> DEFINE P == Locals(f) \X Locals(f)
           C == Copies(f, B)
           R == AliasRoots(f, B)
           follow == [X \in SUBSET P |-> Followed(X, C)]
<1>1. C \in SUBSET P /\ Direct(f, B) \in SUBSET P /\ IsFiniteSet(P)
  BY LocalsFinite DEF Copies, Direct, Free
<1>2. R = Settled(follow, Direct(f, B), Cardinality(P))
  BY DEF AliasRoots
<1>3. ASSUME NEW X \in SUBSET P PROVE /\ follow[X] = Followed(X, C) /\ Followed(X, C) \in SUBSET P
                                      /\ X \subseteq Followed(X, C)
  <2>1. follow[X] = Followed(X, C)
    OBVIOUS
  <2>2. ASSUME NEW p \in X \cup C, NEW r \in Of(X, p[2]) PROVE <<p[1], r>> \in P
    <3>1. p \in P
      BY <1>1
    <3>2. PICK q \in X : r = q[2]
      BY DEF Of
    <3> QED BY <3>1, <3>2
  <2>3. Followed(X, C) \in SUBSET P
    <3> HIDE DEF C, P
    <3> QED BY <2>2 DEF Followed
  <2> QED BY <2>1, <2>3 DEF Followed
<1>4. follow \in [SUBSET P -> SUBSET P]
  <2> HIDE DEF P, C
  <2> QED BY <1>3
<1>5. ASSUME NEW X \in SUBSET P, NEW a, NEW b, NEW c, <<a, b>> \in X \cup C, <<b, c>> \in X, c # a
      PROVE  <<a, c>> \in Followed(X, C)
  <2>1. c \in Of(X, b)
    BY <1>5 DEF Of
  <2>2. c \in Of(X, <<a, b>>[2]) \ {<<a, b>>[1]} /\ <<a, b>> \in X \cup C
    BY <2>1, <1>5
  <2>3. <<<<a, b>>[1], c>> \in Followed(X, C)
    <3> HIDE DEF C
    <3> QED BY <2>2 DEF Followed
  <2> QED BY <2>3
<1>6. ASSUME NEW W \in SUBSET P,
             \A a, b, c : (<<a, b>> \in W \/ (<<a, b>> \in C /\ \E r : <<b, r>> \in W)) /\ c \in Locals(f) => <<a, c>> \in W,
             NEW X \in SUBSET W
      PROVE  follow[X] \subseteq W
  <2>1. X \in SUBSET P
    BY <1>6
  <2>2. ASSUME NEW p \in X \cup C, NEW r \in Of(X, p[2]) PROVE <<p[1], r>> \in W
    <3>1. p \in P
      BY <1>1, <2>1
    <3>2. PICK a \in Locals(f), b \in Locals(f) : p = <<a, b>>
      BY <3>1
    <3>3. PICK q \in X : q[1] = b /\ r = q[2]
      BY <3>2 DEF Of
    <3>4. q \in P
      BY <2>1
    <3>5. PICK c \in Locals(f), e \in Locals(f) : q = <<c, e>>
      BY <3>4
    <3>6. <<b, r>> \in W /\ r \in Locals(f)
      BY <3>3, <3>5
    <3> QED BY <3>2, <3>6, <1>6
  <2>3. Followed(X, C) \subseteq W
    <3> HIDE DEF C
    <3> QED BY <2>2 DEF Followed
  <2> QED BY <1>3, <2>1, <2>3
<1> HIDE DEF follow
<1>7. /\ R \in SUBSET P /\ Direct(f, B) \subseteq R /\ follow[R] = R
      /\ \A W \in SUBSET P :
           Direct(f, B) \subseteq W /\ (\A X \in SUBSET W : follow[X] \subseteq W) => R \subseteq W
  <2>1. \A X \in SUBSET P : X \subseteq follow[X]
    BY <1>3
  <2> HIDE DEF P, C, R
  <2> QED BY <1>1, <1>2, <1>4, <2>1, SettledLeast
<1>8. Followed(R, C) = R
  BY <1>3, <1>7
<1> HIDE DEF C, R, P
<1>9. /\ R \in SUBSET P /\ Direct(f, B) \subseteq R
      /\ \A a, b, c : <<a, b>> \in R \cup C /\ <<b, c>> \in R /\ c # a => <<a, c>> \in R
  BY <1>5, <1>7, <1>8
<1>10. ASSUME NEW W \in SUBSET P, Direct(f, B) \subseteq W,
              \A a, b, c : (<<a, b>> \in W \/ (<<a, b>> \in C /\ \E r : <<b, r>> \in W)) /\ c \in Locals(f) => <<a, c>> \in W
       PROVE  R \subseteq W
  BY <1>6, <1>7, <1>10
<1> QED BY <1>9, <1>10 DEF C, R, P
-----------------------------------------------------------------------------
(* A function analysed, and a program none of whose functions is refused.  *)
Analysed(f) ==
  /\ borrowed[f] = BorrowedLets(f) /\ roots[f] = AliasRoots(f, borrowed[f])
  /\ class[f] = ClassOf(f, borrowed[f], roots[f])
Accepted ==
  /\ WellFormed /\ NoneRefused
  /\ \A f \in Fns : Analysed(f) /\ owned[f] = Owned(f)

LEMMA BorrowedOfAccepted ==
  ASSUME Accepted, NEW f \in Fns
  PROVE  /\ WellFormed /\ borrowed[f] \in SUBSET Lets(f) /\ roots[f] = AliasRoots(f, borrowed[f])
         /\ Free(f, borrowed[f]) = Lets(f) \ borrowed[f] /\ owned[f] = Owned(f)
         /\ class[f] = ClassOf(f, borrowed[f], roots[f]) /\ class[f][1] \in {"new", "part"}
         /\ ~Gone(f) /\ ~Kept(f)
<1>1. WellFormed /\ NoneRefused /\ Analysed(f) /\ owned[f] = Owned(f)
  BY DEF Accepted
<1>2. borrowed[f] \in SUBSET Lets(f)
  BY <1>1, LetsBorrowed DEF Analysed
<1> QED BY <1>1, <1>2 DEF Analysed, NoneRefused, Free

(* The texts that must be owned: every copy has both its ends among them   *)
(* or neither, and new text is put in no other.                            *)
LEMMA OwnedLinks ==
  ASSUME Accepted, NEW f \in Fns
  PROVE  LET free == Free(f, borrowed[f])
         IN /\ owned[f] \subseteq free
            /\ \A a, b : <<a, b>> \in Copies(f, borrowed[f]) => (a \in owned[f] <=> b \in owned[f])
            /\ \A l \in free : \A v \in Given(f, l) : IsNew(f, v) => l \in owned[f]
            /\ class[f][1] # "part" =>
                 \A v \in Elements(program[f].ret) : v.kind = "local" /\ v.of \in free => v.of \in owned[f]
<1> DEFINE free == Free(f, borrowed[f])
           first == {l \in free : \E v \in Given(f, l) : IsNew(f, v)} \cup
                    (IF class[f][1] = "part" THEN {} ELSE {v.of : v \in {u \in Elements(program[f].ret) : u.kind = "local"}} \cap free)
           copies == Copies(f, borrowed[f])
           link == [S \in SUBSET free |-> S \cup {a \in free : \E b \in S : <<a, b>> \in copies \/ <<b, a>> \in copies}]
           most == Settled(link, first, Cardinality(free))
<1>1. Owned(f) = most
  BY DEF Owned
<1>2. owned[f] = most /\ WellFormed
  BY <1>1, BorrowedOfAccepted
<1>3. copies \in SUBSET (free \X free)
  BY DEF Copies
<1>4. IsFiniteSet(free)
  BY <1>2, LocalsFinite, FS_Subset DEF Free
<1>5. first \in SUBSET free
  OBVIOUS
<1>6. \A l \in free : \A v \in Given(f, l) : IsNew(f, v) => l \in first
  OBVIOUS
<1>7. class[f][1] # "part" => \A v \in Elements(program[f].ret) : v.kind = "local" /\ v.of \in free => v.of \in first
  OBVIOUS
<1> HIDE DEF first
<1>8. link \in [SUBSET free -> SUBSET free] /\ \A X \in SUBSET free : X \subseteq link[X]
  <2> HIDE DEF free, copies
  <2> QED OBVIOUS
<1>9. \A X \in SUBSET free : \A a, b : (<<a, b>> \in copies \/ <<b, a>> \in copies) /\ b \in X => a \in link[X]
  <2> SUFFICES ASSUME NEW X \in SUBSET free, NEW a, NEW b, <<a, b>> \in copies \/ <<b, a>> \in copies, b \in X
               PROVE a \in link[X]
    OBVIOUS
  <2>1. a \in free
    BY <1>3
  <2> HIDE DEF free, copies
  <2> QED BY <2>1
<1> HIDE DEF link
<1>10. most \in SUBSET free /\ first \subseteq most /\ link[most] = most
  <2> HIDE DEF free
  <2> QED BY <1>4, <1>5, <1>8, SettledLeast
<1> HIDE DEF most, free, copies
<1>11. \A a, b : (<<a, b>> \in copies \/ <<b, a>> \in copies) /\ b \in most => a \in most
  BY <1>9, <1>10
<1> QED BY <1>2, <1>6, <1>7, <1>10, <1>11 DEF free, copies

(* What an accepted function keeps: a name for a place is never set and    *)
(* stands for no owned text; text that must be owned is given no place.    *)
LEMMA KeepsOwn ==
  ASSUME Accepted, NEW f \in Fns
  PROVE  /\ \A i \in DOMAIN Stmts(f) : Stmts(f)[i].op = "set" => Stmts(f)[i].local \notin borrowed[f]
         /\ \A l \in owned[f] : \A v \in Given(f, l) : ~IsBorrowed(f, v, borrowed[f])
         /\ \A l \in borrowed[f] : \A v \in Initial(f, l) :
              ~IsNew(f, v) /\ ~(v.kind = "local" /\ v.of \in owned[f])
BY BorrowedOfAccepted DEF Kept

(* Only a text that is not owned has roots.                                *)
LEMMA OwnedRootless ==
  ASSUME Accepted, NEW f \in Fns, NEW a, NEW r, <<a, r>> \in roots[f]
  PROVE  a \in Lets(f) \ owned[f] /\ r \in Locals(f)
<1> DEFINE B == borrowed[f]
           L == Locals(f)
           W == {p \in L \X L : p[1] \in Lets(f) \ owned[f]}
<1>1. WellFormed /\ B \in SUBSET Lets(f) /\ roots[f] = AliasRoots(f, B) /\ Free(f, B) = Lets(f) \ B
  BY BorrowedOfAccepted
<1>2. owned[f] \subseteq Lets(f) \ B
  BY <1>1, OwnedLinks
<1>3. Direct(f, B) \subseteq W
  <2> SUFFICES ASSUME NEW p \in Direct(f, B) PROVE p \in W
    OBVIOUS
  <2>1. Lets(f) \subseteq L
    BY <1>1, LocalsFinite
  <2>2. CASE p \in B \X L
    BY <1>1, <1>2, <2>1, <2>2
  <2>3. CASE p \in Free(f, B) \X L /\ \E v \in Given(f, p[1]) : IsBorrowed(f, v, B)
    <3>1. p[1] \notin owned[f]
      BY <2>3, KeepsOwn
    <3> QED BY <1>1, <2>1, <2>3, <3>1
  <2> QED BY <2>2, <2>3 DEF Direct
<1>4. \A x, y, z : (<<x, y>> \in W \/ (<<x, y>> \in Copies(f, B) /\ \E q : <<y, q>> \in W)) /\ z \in L => <<x, z>> \in W
  <2> SUFFICES ASSUME NEW x, NEW y, NEW z \in L, <<x, y>> \in W \/ (<<x, y>> \in Copies(f, B) /\ \E q : <<y, q>> \in W)
               PROVE <<x, z>> \in W
    OBVIOUS
  <2>1. CASE <<x, y>> \in W
    BY <2>1
  <2>2. CASE <<x, y>> \in Copies(f, B) /\ \E q : <<y, q>> \in W
    <3>1. y \notin owned[f]
      BY <2>2
    <3>2. x \in Free(f, B)
      BY <2>2 DEF Copies
    <3>3. x \notin owned[f]
      BY <2>2, <3>1, OwnedLinks
    <3>4. x \in Lets(f) /\ x \in L
      BY <1>1, <3>2, LocalsFinite
    <3> QED BY <3>3, <3>4
  <2> QED BY <2>1, <2>2
<1>5. W \in SUBSET (L \X L)
  OBVIOUS
<1> HIDE DEF W
<1>6. AliasRoots(f, B) \subseteq W
  BY <1>1, <1>3, <1>4, <1>5, RootsLeast
<1>7. <<a, r>> \in W
  BY <1>1, <1>6
<1> QED BY <1>7 DEF W
-----------------------------------------------------------------------------
(* What the loop declares are locals, not parameters.                      *)
LEMMA LoopLocals ==
  ASSUME WellFormed, NEW f \in Fns
  PROVE  InLoop(f) \subseteq Locals(f) \ Params(f) /\ IsFiniteSet(InLoop(f))
<1> DEFINE pre == program[f].pre
           loop == program[f].loop
<1>1. /\ Stmts(f) = pre \o loop /\ pre \in Seq(Statement) /\ loop \in Seq(Statement) /\ Scoped(f)
  BY Shape DEF Stmts
<1>2. ASSUME NEW j \in DOMAIN loop, loop[j].op # "set" PROVE loop[j].local \in Locals(f) \ Params(f)
  <2> HIDE DEF pre, loop
  <2>1. Len(pre) + j \in DOMAIN (pre \o loop) /\ (pre \o loop)[Len(pre) + j] = loop[j]
    BY <1>1
  <2>2. Len(pre) + j \in Declared(f)
    BY <1>1, <1>2, <2>1 DEF Declared
  <2> QED BY <1>1, <2>1, <2>2 DEF Scoped
<1>3. InLoop(f) \subseteq Locals(f) \ Params(f)
  BY <1>2 DEF InLoop
<1> QED BY <1>3, LocalsFinite, FS_Subset

(* What may be gone after the loop: what its block owns, and each name for *)
(* what may be gone.                                                       *)
LEMMA DanglesFollow ==
  ASSUME Accepted, NEW f \in Fns
  PROVE  /\ InLoop(f) \ borrowed[f] \subseteq Dangles(f)
         /\ \A l \in InLoop(f) \cap borrowed[f] : \A v \in Initial(f, l) :
              RootsOf(f, v) \cap Dangles(f) # {} => l \in Dangles(f)
<1> DEFINE I == InLoop(f)
           B == borrowed[f]
           dangle == [S \in SUBSET I |-> S \cup {l \in I \cap B :
                        \E v \in Initial(f, l) : IsNew(f, v) \/ RootsOf(f, v) \cap S # {}}]
<1>1. dangle \in [SUBSET I -> SUBSET I] /\ (\A X \in SUBSET I : X \subseteq dangle[X]) /\ I \ B \in SUBSET I
  <2> HIDE DEF I, B
  <2> QED OBVIOUS
<1>2. IsFiniteSet(I)
  BY LoopLocals, BorrowedOfAccepted
<1>3. Dangles(f) = Settled(dangle, I \ B, Cardinality(I))
  BY DEF Dangles
<1>4. \A X \in SUBSET I : \A l \in I \cap B : \A v \in Initial(f, l) : RootsOf(f, v) \cap X # {} => l \in dangle[X]
  <2> HIDE DEF I, B
  <2> QED OBVIOUS
<1> HIDE DEF dangle, I, B
<1>5. Dangles(f) \in SUBSET I /\ I \ B \subseteq Dangles(f) /\ dangle[Dangles(f)] = Dangles(f)
  BY <1>1, <1>2, <1>3, SettledLeast
<1> QED BY <1>4, <1>5 DEF I, B

(* What flows into a text flows on into what that is copied into.          *)
LEMMA FlowingOn ==
  ASSUME Accepted, NEW f \in Fns, NEW l \in Locals(f)
  PROVE  /\ l \in Flowing(f, l)
         /\ \A c : <<l, c>> \in Copies(f, borrowed[f]) => Flowing(f, c) \subseteq Flowing(f, l)
<1> DEFINE L == Locals(f)
           C == Copies(f, borrowed[f])
           copied == [S \in SUBSET L |-> S \cup UNION {Of(C, k) : k \in S}]
<1>1. WellFormed /\ C \in SUBSET (L \X L) /\ IsFiniteSet(L)
  BY BorrowedOfAccepted, LocalsFinite DEF Copies, Free
<1>2. \A k : Of(C, k) \subseteq L
  <2> HIDE DEF L, C
  <2> QED BY <1>1 DEF Of
<1>3. copied \in [SUBSET L -> SUBSET L] /\ \A X \in SUBSET L : X \subseteq copied[X]
  <2> HIDE DEF L, C
  <2> QED BY <1>2
<1>4. \A k \in L : {k} \in SUBSET L /\ Flowing(f, k) = Settled(copied, {k}, Cardinality(L))
  BY DEF Flowing
<1>5. ASSUME NEW X \in SUBSET L, NEW k \in X PROVE Of(C, k) \subseteq copied[X]
  <2> HIDE DEF L, C
  <2> QED OBVIOUS
<1>6. ASSUME NEW X \in SUBSET L, NEW Y \in SUBSET X PROVE copied[Y] \subseteq copied[X]
  <2> HIDE DEF L, C
  <2> QED OBVIOUS
<1> HIDE DEF copied
<1>7. ASSUME NEW k \in L
      PROVE  /\ Flowing(f, k) \in SUBSET L /\ k \in Flowing(f, k)
             /\ copied[Flowing(f, k)] = Flowing(f, k)
             /\ \A W \in SUBSET L : {k} \subseteq W /\ (\A X \in SUBSET W : copied[X] \subseteq W) => Flowing(f, k) \subseteq W
  <2>1. LET r == Settled(copied, {k}, Cardinality(L))
        IN /\ r \in SUBSET L /\ {k} \subseteq r /\ copied[r] = r
           /\ \A W \in SUBSET L : {k} \subseteq W /\ (\A X \in SUBSET W : copied[X] \subseteq W) => r \subseteq W
    <3> HIDE DEF L
    <3> QED BY <1>1, <1>3, <1>4, SettledLeast
  <2> HIDE DEF L
  <2> QED BY <1>4, <2>1
<1>8. ASSUME NEW c, <<l, c>> \in C PROVE Flowing(f, c) \subseteq Flowing(f, l)
  <2> DEFINE F == Flowing(f, l)
  <2>1. c \in Of(C, l) /\ c \in L
    <3> HIDE DEF C, L
    <3> QED BY <1>1, <1>8 DEF Of
  <2>2. F \in SUBSET L /\ l \in F /\ copied[F] = F
    BY <1>7
  <2>3. c \in F
    <3> HIDE DEF F, L, C
    <3> QED BY <1>5, <2>1, <2>2
  <2>4. \A X \in SUBSET F : copied[X] \subseteq F
    <3> HIDE DEF F, L, C
    <3> QED BY <1>6, <2>2
  <2> HIDE DEF F, L, C
  <2>5. Flowing(f, c) \subseteq F
    BY <1>7, <2>1, <2>2, <2>3, <2>4
  <2> QED BY <2>5 DEF F
<1> QED BY <1>7, <1>8
-----------------------------------------------------------------------------
(* How a function is classified.                                           *)
LEMMA NeverUnknown ==
  ASSUME NEW f, NEW B, NEW R PROVE ClassOf(f, B, R) # <<"unknown">> /\ ClassOf(f, B, R)[1] \in {"error", "new", "part"}
BY DEF ClassOf

(* A leaf an accepted function returns is new, and all its returns are; or *)
(* part of the one parameter it is classified by.                          *)
IsNewLeaf(f, v) == ~IsBorrowed(f, v, borrowed[f]) /\ Terminal(f, v, borrowed[f], roots[f]) = {}

LEMMA ReturnsPart ==
  ASSUME Accepted, NEW f \in Fns
  PROVE  /\ \A v \in Elements(program[f].ret) :
              /\ IsNewLeaf(f, v) => class[f] = <<"new">>
              /\ ~IsNewLeaf(f, v) => Terminal(f, v, borrowed[f], roots[f]) # {}
              /\ \A r \in Terminal(f, v, borrowed[f], roots[f]) : r \in Params(f) /\ class[f] = <<"part", r>>
         /\ class[f][1] = "part" => ~Recursive(f) /\ class[f][2] \in Params(f) /\ class[f] = <<"part", class[f][2]>>
         /\ class[f][1] # "part" => class[f] = <<"new">>
<1> DEFINE B == borrowed[f]
           R == roots[f]
           leaves == Elements(program[f].ret)
           of(v) == Terminal(f, v, B, R)
           new == {v \in leaves : ~IsBorrowed(f, v, B) /\ of(v) = {}}
           parts == UNION {of(v) : v \in leaves}
           wrong == \/ \E v \in leaves \ new : of(v) = {}
                    \/ ~(parts \subseteq Params(f) \ program[f].muts)
                    \/ parts # {} /\ (Recursive(f) \/ new # {} \/ Cardinality(parts) > 1)
<1>1. class[f] = IF wrong THEN <<"error">>
                 ELSE IF parts = {} THEN <<"new">> ELSE <<"part", CHOOSE p \in parts : TRUE>>
  BY BorrowedOfAccepted DEF ClassOf
<1>2. class[f][1] \in {"new", "part"}
  BY BorrowedOfAccepted
<1> DEFINE pick == CHOOSE p \in parts : TRUE
<1>3. parts # {} => pick \in parts
  OBVIOUS
<1>4. ~wrong
  <2> HIDE DEF wrong, parts
  <2> QED BY <1>1, <1>2
<1>5. /\ \A v \in leaves \ new : of(v) # {}
      /\ parts \subseteq Params(f)
      /\ parts # {} => ~Recursive(f) /\ new = {} /\ ~(Cardinality(parts) > 1)
  <2> HIDE DEF new, parts, leaves, of
  <2> QED BY <1>4
<1>6. class[f] = IF parts = {} THEN <<"new">> ELSE <<"part", pick>>
  <2> HIDE DEF wrong, parts
  <2> QED BY <1>1, <1>4
<1>7. WellFormed
  BY BorrowedOfAccepted
<1> HIDE DEF wrong, pick
<1>8. ASSUME NEW r \in parts PROVE r = pick
  <2> HIDE DEF parts
  <2>1. IsFiniteSet(parts)
    <3>1. IsFiniteSet(Params(f))
      BY <1>7, LocalsFinite, FS_Subset
    <3> QED BY <1>5, <3>1, FS_Subset
  <2>2. {r, pick} \subseteq parts
    BY <1>3
  <2>3. Cardinality({r, pick}) <= Cardinality(parts)
    BY <2>1, <2>2, FS_Subset
  <2>4. Cardinality(parts) \in Nat /\ ~(Cardinality(parts) > 1)
    BY <1>5, <2>1, FS_CardinalityType
  <2>5. CASE r # pick
    <3>1. IsFiniteSet({pick}) /\ Cardinality({pick}) = 1
      BY FS_Singleton
    <3>2. Cardinality({pick} \cup {r}) = 2
      BY <3>1, <2>5, FS_AddElement
    <3>3. {pick} \cup {r} = {r, pick}
      OBVIOUS
    <3> QED BY <3>2, <3>3, <2>3, <2>4
  <2> QED BY <2>5
<1>9. ASSUME NEW v \in leaves
      PROVE  /\ IsNewLeaf(f, v) => class[f] = <<"new">>
             /\ ~IsNewLeaf(f, v) => of(v) # {}
             /\ \A r \in of(v) : r \in Params(f) /\ class[f] = <<"part", r>>
  <2>1. IsNewLeaf(f, v) <=> v \in new
    BY DEF IsNewLeaf
  <2>2. of(v) \subseteq parts
    OBVIOUS
  <2> HIDE DEF new, parts, leaves, of
  <2>3. v \in new => class[f] = <<"new">>
    BY <1>5, <1>6
  <2>4. v \notin new => of(v) # {}
    BY <1>5
  <2>5. ASSUME NEW r \in of(v) PROVE r \in Params(f) /\ class[f] = <<"part", r>>
    BY <2>2, <1>5, <1>6, <1>8
  <2> QED BY <2>1, <2>3, <2>4, <2>5
<1>10. class[f][1] = "part" => ~Recursive(f) /\ class[f][2] \in Params(f) /\ class[f] = <<"part", class[f][2]>>
  <2> HIDE DEF parts, new
  <2> QED BY <1>3, <1>5, <1>6
<1>11. class[f][1] # "part" => class[f] = <<"new">>
  <2> HIDE DEF parts
  <2> QED BY <1>6
<1> HIDE DEF new, parts
<1> QED BY <1>9, <1>10, <1>11

(* A call is part of an argument just when what it calls is classified so. *)
LEMMA RootedByClass ==
  ASSUME Accepted, NEW f \in Fns, NEW v \in Leaves(f), v.kind = "call"
  PROVE  LET g == v.of
         IN /\ g \in Fns /\ v \in Leaf /\ DOMAIN v.args = Params(g)
            /\ class[g][1] = "part" => /\ RootedAt(f, v) = class[g][2] /\ class[g][2] \in DOMAIN v.args
                                       /\ RootedAt(f, v) # 0
            /\ class[g][1] # "part" => RootedAt(f, v) = 0 /\ class[g] = <<"new">>
<1>1. WellFormed
  BY BorrowedOfAccepted
<1>2. v \in Leaf /\ v.of \in Fns /\ Len(v.args) = program[v.of].params
  BY <1>1, LeafShape
<1>3. v.args \in Seq(Nat)
  BY <1>2 DEF Leaf
<1>4. DOMAIN v.args = Params(v.of)
  BY <1>2, <1>3 DEF Params
<1>5. v.of \in Callees(f)
  BY DEF Callees
<1>6. ASSUME class[v.of][1] = "part"
      PROVE  RootedAt(f, v) = class[v.of][2] /\ class[v.of][2] \in Params(v.of) /\ RootedAt(f, v) # 0
  <2>1. ~Recursive(v.of) /\ class[v.of][2] \in Params(v.of)
    BY <1>2, <1>6, ReturnsPart
  <2>2. v.of \notin Group(f)
    BY <1>1, <1>5, <2>1, CalledInGroup
  <2>3. class[v.of][2] # 0
    BY <1>1, <1>2, <2>1, LocalsFinite
  <2> QED BY <1>6, <2>1, <2>2, <2>3 DEF RootedAt
<1>7. class[v.of][1] # "part" => RootedAt(f, v) = 0 /\ class[v.of] = <<"new">>
  BY <1>2, ReturnsPart DEF RootedAt
<1> QED BY <1>2, <1>4, <1>6, <1>7
-----------------------------------------------------------------------------
(* The texts a local may hold: none, its own, or a reference.              *)
Own == <<"own">>
Ref(e, k) == <<"ref", <<e, k>>>>
Text == {None, Own, Literal} \cup {Ref(e, k) : e \in Nat, k \in Nat}

LEMMA Texts ==
  /\ None # Own /\ None # Literal /\ Own # Literal
  /\ ~Refers(None) /\ ~Refers(Own) /\ ~Refers(Literal)
  /\ \A w \in Text : Refers(w) <=> \E e, k \in Nat : w = Ref(e, k)
  /\ \A e, k, x, y \in Nat : Ref(e, k) = Ref(x, y) => e = x /\ k = y
  /\ \A e, k \in Nat : Ref(e, k) \in Text /\ Refers(Ref(e, k))
<1>1. \A e, k : Ref(e, k) # Literal /\ Ref(e, k)[1] = "ref"
  <2> SUFFICES ASSUME NEW e, NEW k PROVE Ref(e, k) # Literal /\ Ref(e, k)[1] = "ref"
    OBVIOUS
  <2>1. <<e, k>> # << >>
    <3>1. Len(<<e, k>>) = 2 /\ Len(<< >>) = 0
      OBVIOUS
    <3> QED BY <3>1
  <2> QED BY <2>1 DEF Ref, Literal
<1>2. \A e, k \in Nat : Ref(e, k) \in Text /\ Refers(Ref(e, k))
  BY <1>1 DEF Text, Refers
<1>3. None # Own /\ None # Literal /\ Own # Literal
  BY DEF None, Own, Literal
<1>4. ~Refers(None) /\ ~Refers(Own) /\ ~Refers(Literal)
  BY DEF None, Own, Refers
<1>5. \A w \in Text : Refers(w) => \E e, k \in Nat : w = Ref(e, k)
  BY <1>4 DEF Text
<1>6. \A e, k, x, y \in Nat : Ref(e, k) = Ref(x, y) => e = x /\ k = y
  BY DEF Ref
<1> QED BY <1>2, <1>3, <1>4, <1>5, <1>6

(* What a local shows when a reference of it is taken at depth d.          *)
Seen(env, d, l) == IF l = 0 THEN Literal ELSE IF env[l] = Own THEN Ref(d, l) ELSE env[l]

LEMMA ReadSees == \A fr, d, l : Read(fr, d, l) = Seen(fr.env, d, l)
BY DEF Read, Seen, Own, Ref

(* What the locals of a call of f at depth d hold: a parameter what an     *)
(* outer call holds; a struct or text that must be owned its own text, any *)
(* other text none of its own; a reference leads to a root; and what       *)
(* refers to what the loop declares is declared there, may be gone after   *)
(* it, and is known to.                                                    *)
OwnText(f, env) ==
  /\ env \in [Locals(f) -> Text]
  /\ \A l \in Owners(f) \cup owned[f] : env[l] \in {None, Own}
  /\ \A l \in Lets(f) \ owned[f] : env[l] # Own
OuterText(f, d, env) == \A p \in Params(f) : env[p] = Literal \/ \E e, k \in Nat : e < d /\ env[p] = Ref(e, k)
LeadsTo(f, d, env, w, k) ==
  (k \in Owners(f) \cup owned[f] /\ w = Ref(d, k)) \/ (k \in Params(f) /\ w = env[k])
RootedText(f, d, env) ==
  \A l \in Lets(f) : Refers(env[l]) => \E k \in Locals(f) : <<l, k>> \in roots[f] /\ LeadsTo(f, d, env, env[l], k)
FlowsGone(f, l) == \E m \in Flowing(f, l) : Of(Direct(f, borrowed[f]), m) \cap Dangles(f) # {}
LoopText(f, d, env) ==
  \A l \in Locals(f), k \in InLoop(f) : env[l] = Ref(d, k) =>
    /\ l \in InLoop(f)
    /\ l \in borrowed[f] => l \in Dangles(f)
    /\ l \in Free(f, borrowed[f]) => FlowsGone(f, l)
EnvOK(f, d, env) == OwnText(f, env) /\ OuterText(f, d, env) /\ RootedText(f, d, env) /\ LoopText(f, d, env)

(* What a leaf may give, the call it makes returned.                       *)
Gives(f, d, env, v, w) ==
  /\ w \in Text
  /\ v.kind = "lit" => w = Literal
  /\ v.kind = "new" => w = Own
  /\ v.kind = "local" => w = IF v.of \in Free(f, borrowed[f]) THEN env[v.of] ELSE Seen(env, d, v.of)
  /\ v.kind = "call" => /\ w = Own => RootedAt(f, v) = 0
                        /\ RootedAt(f, v) = 0 => w \in {None, Own}
                        /\ Refers(w) => w = Seen(env, d, v.args[RootedAt(f, v)])

(* Where a reference a leaf gives is from: a local it mentions.            *)
IsFrom(f, d, env, v, w, a) ==
  /\ a \in RootsOf(f, v) /\ a \in Mentions(v)
  /\ IsBorrowed(f, v, borrowed[f]) \/ (v.kind = "local" /\ v.of = a /\ a \in Free(f, borrowed[f]))
  /\ w = env[a] \/ (env[a] = Own /\ w = Ref(d, a) /\ a \in Owners(f) \cup owned[f])

LEMMA LocalKinds ==
  ASSUME Accepted, NEW f \in Fns
  PROVE  /\ Locals(f) = Params(f) \cup Owners(f) \cup Lets(f)
         /\ Params(f) \cap Lets(f) = {} /\ Owners(f) \cap Lets(f) = {} /\ Params(f) \cap Owners(f) = {}
         /\ borrowed[f] \subseteq Lets(f) /\ Free(f, borrowed[f]) = Lets(f) \ borrowed[f]
         /\ owned[f] \subseteq Lets(f) \ borrowed[f]
         /\ 0 \notin Locals(f) /\ Locals(f) \subseteq Nat
         /\ InLoop(f) \subseteq Locals(f) \ Params(f)
<1>1. WellFormed /\ borrowed[f] \in SUBSET Lets(f) /\ Free(f, borrowed[f]) = Lets(f) \ borrowed[f]
  BY BorrowedOfAccepted
<1>2. owned[f] \subseteq Free(f, borrowed[f])
  BY OwnedLinks
<1>3. Owners(f) \subseteq Locals(f) \ Params(f)
  <2>1. Scoped(f)
    BY <1>1, Shape
  <2> QED BY <2>1 DEF Scoped, Owners
<1>4. Params(f) \subseteq Locals(f) /\ 0 \notin Locals(f) /\ Locals(f) \subseteq Nat
  BY <1>1, LocalsFinite
<1>5. InLoop(f) \subseteq Locals(f) \ Params(f)
  BY <1>1, LoopLocals
<1> QED BY <1>1, <1>2, <1>3, <1>4, <1>5 DEF Lets

LEMMA HasSource ==
  ASSUME Accepted, NEW f \in Fns, NEW d \in Nat, NEW env, EnvOK(f, d, env),
         NEW v \in Leaves(f), NEW w, Gives(f, d, env, v, w), Refers(w)
  PROVE  \E a \in Locals(f) : IsFrom(f, d, env, v, w, a)
<1>1. WellFormed /\ v \in Leaf /\ Mentions(v) \subseteq Locals(f)
  BY BorrowedOfAccepted, LeafShape
<1>2. v.kind \in {"local", "call", "lit", "new"} /\ v.args \in Seq(Nat)
  BY <1>1 DEF Leaf
<1>3. v.kind \notin {"lit", "new"}
  BY Texts DEF Gives
<1>4. ASSUME NEW a \in Locals(f), env[a] = Own PROVE a \in Owners(f) \cup owned[f]
  <2>1. a \notin Params(f)
    BY <1>4, Texts DEF EnvOK, OuterText
  <2> QED BY <1>4, <2>1, LocalKinds DEF EnvOK, OwnText
<1>5. CASE v.kind = "local"
  <2> DEFINE a == v.of
  <2>1. Mentions(v) = {a} /\ RootsOf(f, v) = {a} /\ a \in Locals(f)
    BY <1>1, <1>5 DEF Mentions, RootsOf
  <2>2. a \notin Free(f, borrowed[f]) => IsBorrowed(f, v, borrowed[f])
    BY <1>5, <2>1, LocalKinds DEF IsBorrowed
  <2>3. w = env[a] \/ (env[a] = Own /\ w = Ref(d, a))
    BY <1>5, <2>1, LocalKinds DEF Gives, Seen
  <2>4. IsFrom(f, d, env, v, w, a)
    BY <1>4, <1>5, <2>1, <2>2, <2>3 DEF IsFrom
  <2> QED BY <2>1, <2>4
<1>6. CASE v.kind = "call"
  <2> DEFINE q == RootedAt(f, v)
             a == v.args[q]
  <2>1. q # 0 /\ w = Seen(env, d, a)
    BY <1>6, Texts DEF Gives
  <2>2. class[v.of][1] = "part"
    BY <1>6, <2>1, RootedByClass
  <2>3. q \in DOMAIN v.args
    BY <1>6, <2>2, RootedByClass
  <2>4. a # 0
    BY <2>1, Texts DEF Seen
  <2>5. a \in Mentions(v) /\ a \in Locals(f)
    BY <1>1, <1>6, <2>3, <2>4 DEF Mentions, Elements
  <2>6. a \in RootsOf(f, v) /\ IsBorrowed(f, v, borrowed[f])
    BY <1>6, <2>1, <2>4 DEF RootsOf, IsBorrowed
  <2>7. w = env[a] \/ (env[a] = Own /\ w = Ref(d, a))
    BY <2>1, <2>4 DEF Seen
  <2>8. IsFrom(f, d, env, v, w, a)
    BY <1>4, <2>5, <2>6, <2>7 DEF IsFrom
  <2> QED BY <2>5, <2>8
<1> QED BY <1>2, <1>3, <1>5, <1>6

(* The roots of what is given to a text are among those of the text.       *)
LEMMA GivenRooted ==
  ASSUME Accepted, NEW f \in Fns, NEW d \in Nat, NEW env, EnvOK(f, d, env),
         NEW l \in Lets(f) \ owned[f], NEW v \in Given(f, l),
         l \in borrowed[f] => v \in Initial(f, l),
         NEW w, Refers(w), NEW a \in Locals(f), IsFrom(f, d, env, v, w, a)
  PROVE  \E k \in Locals(f) : <<l, k>> \in roots[f] /\ LeadsTo(f, d, env, w, k)
<1> DEFINE B == borrowed[f]
<1>1. WellFormed /\ B \in SUBSET Lets(f) /\ roots[f] = AliasRoots(f, B)
  BY BorrowedOfAccepted
<1>2. Direct(f, B) \subseteq roots[f]
  BY <1>1, RootsLeast
<1>3. \A x, y, z : <<x, y>> \in roots[f] \cup Copies(f, B) /\ <<y, z>> \in roots[f] /\ z # x => <<x, z>> \in roots[f]
  BY <1>1, RootsLeast
<1>4. l \in Locals(f) /\ (l \in B \/ l \in Free(f, B))
  BY LocalKinds
<1>5. <<l, a>> \in roots[f] \/ (<<l, a>> \in Copies(f, B) /\ w = env[a] /\ a \in Free(f, B))
  <2>1. CASE l \in B
    <3>1. <<l, a>> \in Direct(f, B)
      BY <2>1 DEF Direct, IsFrom
    <3> QED BY <3>1, <1>2
  <2>2. CASE l \in Free(f, B) /\ IsBorrowed(f, v, B)
    <3>1. <<l, a>> \in Direct(f, B)
      BY <2>2 DEF Direct, IsFrom
    <3> QED BY <3>1, <1>2
  <2>3. CASE l \in Free(f, B) /\ v.kind = "local" /\ v.of = a /\ a \in Free(f, B)
    <3>1. <<l, a>> \in Copies(f, B)
      BY <2>3 DEF Copies
    <3>2. l \notin owned[f] /\ a \notin owned[f] /\ a \notin Owners(f)
      BY <2>3, <3>1, OwnedLinks, LocalKinds
    <3>3. w = env[a]
      BY <3>2 DEF IsFrom
    <3> QED BY <2>3, <3>1, <3>3
  <2> QED BY <1>4, <2>1, <2>2, <2>3 DEF IsFrom
<1>6. CASE w = env[a]
  <2>1. CASE a \in Params(f)
    BY <1>5, <1>6, <2>1, LocalKinds DEF LeadsTo
  <2>2. CASE a \in Owners(f)
    <3>1. env[a] \in {None, Own}
      BY <2>2 DEF EnvOK, OwnText
    <3> QED BY <1>6, <3>1, Texts
  <2>3. CASE a \in Lets(f)
    <3>1. PICK k \in Locals(f) : <<a, k>> \in roots[f] /\ LeadsTo(f, d, env, w, k)
      BY <1>6, <2>3 DEF EnvOK, RootedText
    <3>2. k # l
      BY <3>1, LocalKinds DEF LeadsTo
    <3>3. <<l, k>> \in roots[f]
      BY <1>3, <1>5, <3>1, <3>2
    <3> QED BY <3>1, <3>3
  <2> QED BY <2>1, <2>2, <2>3, LocalKinds
<1>7. CASE w # env[a]
  <2>1. <<l, a>> \in roots[f] /\ LeadsTo(f, d, env, w, a)
    BY <1>5, <1>7 DEF IsFrom, LeadsTo
  <2> QED BY <2>1
<1> QED BY <1>6, <1>7

(* What refers to what the loop declares is itself gone after it.          *)
LEMMA SourceDangles ==
  ASSUME Accepted, NEW f \in Fns, NEW d \in Nat, NEW env, EnvOK(f, d, env),
         NEW v, NEW k \in InLoop(f), NEW a \in Locals(f), IsFrom(f, d, env, v, Ref(d, k), a)
  PROVE  a \in InLoop(f) \cap Dangles(f)
<1>1. k \in Nat /\ a \in Nat
  BY LocalKinds
<1>2. CASE Ref(d, k) = env[a]
  <2>1. a \notin Params(f)
    <3> SUFFICES ASSUME a \in Params(f) PROVE FALSE
      OBVIOUS
    <3>1. Ref(d, k) = Literal \/ \E e, y \in Nat : e < d /\ Ref(d, k) = Ref(e, y)
      BY <1>2 DEF EnvOK, OuterText
    <3>2. Ref(d, k) # Literal
      BY <1>1, Texts
    <3>3. PICK e \in Nat, y \in Nat : e < d /\ Ref(d, k) = Ref(e, y)
      BY <3>1, <3>2
    <3>4. d = e
      BY <1>1, <3>3, Texts
    <3> QED BY <3>3, <3>4
  <2>2. a \in InLoop(f) /\ (a \in borrowed[f] => a \in Dangles(f))
    BY <1>2 DEF EnvOK, LoopText
  <2> QED BY <2>2, DanglesFollow
<1>3. CASE Ref(d, k) # env[a]
  <2>1. Ref(d, k) = Ref(d, a) /\ a \in Owners(f) \cup owned[f]
    BY <1>3 DEF IsFrom
  <2>2. a = k
    BY <1>1, <2>1, Texts
  <2>3. a \notin borrowed[f]
    BY <2>1, LocalKinds
  <2> QED BY <2>2, <2>3, DanglesFollow
<1> QED BY <1>2, <1>3

(* A text is given what a leaf gives, and the leaf's own text, if it had   *)
(* one, is moved: each local still holds what it may.                      *)
Assigned(f, l, w, moved, env) ==
  [m \in Locals(f) |-> IF m = l THEN Stored(f, m, w) ELSE IF m \in moved THEN None ELSE env[m]]

LEMMA AssignKeeps ==
  ASSUME Accepted, NEW f \in Fns, NEW d \in Nat, NEW env, EnvOK(f, d, env),
         NEW i \in DOMAIN Stmts(f), Stmts(f)[i].op # "own",
         NEW v \in Elements(Stmts(f)[i].value), NEW w, Gives(f, d, env, v, w),
         NEW moved, moved = {} \/ moved = {v.of} \cap Free(f, borrowed[f])
  PROVE  EnvOK(f, d, Assigned(f, Stmts(f)[i].local, w, moved, env))
<1> DEFINE l == Stmts(f)[i].local
           next == [m \in Locals(f) |-> IF m = l THEN Stored(f, m, w) ELSE IF m \in moved THEN None ELSE env[m]]
           B == borrowed[f]
           free == Free(f, B)
           must == owned[f]
<1>1. /\ WellFormed /\ v \in Leaves(f) /\ v \in Leaf /\ Mentions(v) \subseteq Locals(f)
      /\ v.kind \in {"local", "call", "lit", "new"}
  <2>1. WellFormed /\ v \in Leaves(f) /\ v \in Leaf /\ Mentions(v) \subseteq Locals(f)
    BY BorrowedOfAccepted, LeafShape
  <2> QED BY <2>1 DEF Leaf
<1>2. /\ l \in Lets(f) /\ v \in Given(f, l)
      /\ Stmts(f)[i].op = "let" => v \in Initial(f, l)
      /\ i \in DOMAIN program[f].pre => Mentions(v) \cap InLoop(f) = {} /\ l \notin InLoop(f)
      /\ i \notin DOMAIN program[f].pre /\ Stmts(f)[i].op = "let" => l \in InLoop(f)
      /\ Stmts(f)[i].op \in {"let", "set"}
  <2>1. Stmts(f) \in Seq(Statement)
    BY <1>1, Shape
  <2>2. Stmts(f)[i] \in Statement
    BY <2>1
  <2>3. Stmts(f)[i].op \in {"let", "set"}
    BY <2>2 DEF Statement
  <2> QED BY <1>1, <2>3, GivenAt
<1>3. l \in B => v \in Initial(f, l)
  BY <1>2, KeepsOwn
<1>4. /\ l \in Locals(f) \ Params(f) /\ l \notin Owners(f) /\ moved \subseteq Lets(f) /\ moved \cap Params(f) = {}
      /\ must \subseteq free /\ free = Lets(f) \ B /\ (l \in must => l \notin B)
  BY <1>2, LocalKinds
<1>5. /\ next[l] = Stored(f, l, w)
      /\ \A m \in Locals(f) \ {l} : next[m] = env[m] \/ (next[m] = None /\ m \in moved)
      /\ \A p \in Params(f) : next[p] = env[p]
  BY <1>4, LocalKinds
<1>0. DOMAIN next = Locals(f) /\ next = [m \in Locals(f) |-> next[m]]
  OBVIOUS
<1> HIDE DEF next
<1>6. ASSUME l \in must PROVE next[l] \in {None, Own}
  <2>1. ~IsBorrowed(f, v, B)
    BY <1>2, <1>6, KeepsOwn
  <2>2. CASE v.kind = "lit"
    BY <1>5, <1>6, <2>2 DEF Gives, Stored, Own
  <2>3. w \in {None, Own} => next[l] \in {None, Own}
    BY <1>5, Texts DEF Stored
  <2>4. CASE v.kind = "new"
    BY <2>3, <2>4 DEF Gives
  <2>5. CASE v.kind = "local"
    <3>1. v.of \in free
      BY <1>1, <2>1, <2>5, LocalKinds DEF IsBorrowed, Mentions
    <3>2. <<l, v.of>> \in Copies(f, B)
      BY <1>2, <1>4, <1>6, <2>5, <3>1 DEF Copies
    <3>3. v.of \in must
      BY <1>6, <3>2, OwnedLinks
    <3>4. w = env[v.of] /\ env[v.of] \in {None, Own}
      BY <2>5, <3>1, <3>3 DEF Gives, EnvOK, OwnText
    <3> QED BY <2>3, <3>4
  <2>6. CASE v.kind = "call"
    <3>1. RootedAt(f, v) = 0
      BY <2>1 DEF IsBorrowed
    <3> QED BY <2>3, <2>6, <3>1 DEF Gives
  <2> QED BY <1>1, <2>2, <2>4, <2>5, <2>6
<1>7. ASSUME l \notin must PROVE next[l] = w /\ w # Own
  <2>1. next[l] = w
    BY <1>5, <1>7 DEF Stored
  <2>2. ~IsNew(f, v)
    BY <1>2, <1>3, <1>4, <1>7, KeepsOwn, OwnedLinks
  <2>3. CASE v.kind = "lit"
    BY <2>1, <2>3, Texts DEF Gives
  <2>4. CASE v.kind = "local" /\ v.of \in free
    <3>1. v.of \notin must
      <4>1. CASE l \in B
        BY <1>3, <2>4, <4>1, KeepsOwn
      <4>2. CASE l \notin B
        <5>1. <<l, v.of>> \in Copies(f, B)
          BY <1>2, <1>4, <2>4, <4>2 DEF Copies
        <5> QED BY <1>7, <5>1, OwnedLinks
      <4> QED BY <4>1, <4>2
    <3>2. w = env[v.of] /\ env[v.of] # Own
      BY <1>4, <2>4, <3>1 DEF Gives, EnvOK, OwnText
    <3> QED BY <2>1, <3>2
  <2>5. CASE v.kind = "local" /\ v.of \notin free
    <3>1. w = Seen(env, d, v.of) /\ v.of \in Locals(f)
      BY <1>1, <2>5 DEF Gives, Mentions
    <3>2. w = env[v.of] \/ w = Ref(d, v.of)
      BY <3>1, LocalKinds DEF Seen
    <3>3. w # Own
      BY <3>1, <3>2, LocalKinds, Texts DEF Seen
    <3> QED BY <2>1, <3>3
  <2>6. CASE v.kind = "call"
    BY <2>1, <2>2, <2>6 DEF Gives, IsNew
  <2> QED BY <1>1, <2>1, <2>2, <2>3, <2>4, <2>5, <2>6 DEF IsNew
<1>8. next[l] \in Text
  BY <1>6, <1>7 DEF Gives, Text
<1>9. OwnText(f, next)
  <2>1. next \in [Locals(f) -> Text]
    <3>1. \A m \in Locals(f) : next[m] \in Text
      BY <1>5, <1>8 DEF EnvOK, OwnText, Text
    <3> QED BY <1>0, <3>1
  <2>2. ASSUME NEW m \in Owners(f) \cup must PROVE next[m] \in {None, Own}
    <3>1. m \in Locals(f) /\ env[m] \in {None, Own}
      BY LocalKinds DEF EnvOK, OwnText
    <3> QED BY <1>4, <1>5, <1>6, <3>1
  <2>3. ASSUME NEW m \in Lets(f) \ must PROVE next[m] # Own
    <3>1. m \in Locals(f) /\ env[m] # Own
      BY LocalKinds DEF EnvOK, OwnText
    <3> QED BY <1>5, <1>7, <3>1, Texts
  <2> QED BY <2>1, <2>2, <2>3 DEF OwnText
<1>10. OuterText(f, d, next)
  BY <1>5 DEF EnvOK, OuterText
<1>11. ASSUME Refers(next[l])
       PROVE  l \in Lets(f) \ must /\ next[l] = w /\ \E a \in Locals(f) : IsFrom(f, d, env, v, w, a)
  <2>1. l \notin must
    BY <1>6, <1>11, Texts
  <2>2. next[l] = w
    BY <1>7, <2>1
  <2> QED BY <1>1, <1>2, <1>11, <2>1, <2>2, HasSource
<1>12. RootedText(f, d, next)
  <2> SUFFICES ASSUME NEW m \in Lets(f), Refers(next[m])
               PROVE \E k \in Locals(f) : <<m, k>> \in roots[f] /\ LeadsTo(f, d, next, next[m], k)
    BY DEF RootedText
  <2>1. \E k \in Locals(f) : <<m, k>> \in roots[f] /\ LeadsTo(f, d, env, next[m], k)
    <3>1. CASE m = l
      <4>1. l \in Lets(f) \ must /\ next[l] = w /\ Refers(w)
        BY <1>11, <3>1
      <4>2. PICK a \in Locals(f) : IsFrom(f, d, env, v, w, a)
        BY <1>11, <3>1
      <4>3. \E k \in Locals(f) : <<l, k>> \in roots[f] /\ LeadsTo(f, d, env, w, k)
        BY <1>2, <1>3, <4>1, <4>2, GivenRooted
      <4> QED BY <3>1, <4>1, <4>3
    <3>2. CASE m # l
      <4>1. next[m] = env[m]
        BY <1>5, <3>2, Texts, LocalKinds
      <4> QED BY <4>1 DEF EnvOK, RootedText
    <3> QED BY <3>1, <3>2
  <2> QED BY <1>5, <2>1 DEF LeadsTo
<1>13. LoopText(f, d, next)
  <2> SUFFICES ASSUME NEW m \in Locals(f), NEW k \in InLoop(f), next[m] = Ref(d, k)
               PROVE  /\ m \in InLoop(f)
                      /\ m \in B => m \in Dangles(f)
                      /\ m \in free => FlowsGone(f, m)
    BY DEF LoopText
  <2>1. k \in Nat /\ Refers(next[m])
    <3>1. k \in Nat
      BY LocalKinds
    <3> QED BY <3>1, Texts
  <2>2. CASE m # l
    <3>1. next[m] = env[m]
      BY <1>5, <2>1, <2>2, Texts
    <3> QED BY <3>1 DEF EnvOK, LoopText
  <2>3. CASE m = l
    <3>1. PICK a \in Locals(f) : IsFrom(f, d, env, v, w, a)
      BY <1>11, <2>1, <2>3
    <3>2. w = Ref(d, k) /\ l \in Lets(f) \ must
      BY <1>11, <2>1, <2>3
    <3>3. a \in InLoop(f) \cap Dangles(f) /\ a \in RootsOf(f, v)
      BY <3>1, <3>2, SourceDangles DEF IsFrom
    <3>4. i \notin DOMAIN program[f].pre
      BY <1>2, <3>1, <3>3 DEF IsFrom
    <3>5. ASSUME l \in free PROVE FlowsGone(f, l)
      <4>1. CASE IsBorrowed(f, v, B)
        <5>1. <<l, a>> \in Direct(f, B)
          BY <1>2, <3>3, <3>5, <4>1 DEF Direct
        <5>2. a \in Of(Direct(f, B), l)
          BY <5>1 DEF Of
        <5>3. l \in Flowing(f, l)
          BY <1>4, FlowingOn
        <5> QED BY <3>3, <5>2, <5>3 DEF FlowsGone
      <4>2. CASE v.kind = "local" /\ v.of = a /\ a \in free
        <5>1. <<l, a>> \in Copies(f, B)
          BY <1>2, <3>5, <4>2 DEF Copies
        <5>2. a \notin must
          BY <3>2, <5>1, OwnedLinks
        <5>3. env[a] = Ref(d, k)
          BY <3>1, <3>2, <4>2, <5>2, LocalKinds DEF IsFrom
        <5>4. FlowsGone(f, a)
          BY <4>2, <5>3 DEF EnvOK, LoopText
        <5>5. Flowing(f, a) \subseteq Flowing(f, l)
          BY <1>4, <5>1, FlowingOn
        <5> QED BY <5>4, <5>5 DEF FlowsGone
      <4> QED BY <3>1, <4>1, <4>2 DEF IsFrom
    <3>6. l \in InLoop(f)
      <4>1. CASE Stmts(f)[i].op = "let"
        BY <1>2, <3>4, <4>1
      <4>2. CASE Stmts(f)[i].op = "set"
        <5>1. l \in free
          BY <1>2, <1>4, <4>2, KeepsOwn
        <5>2. SUFFICES ASSUME l \notin InLoop(f) PROVE FALSE
          OBVIOUS
        <5>3. ~(IsBorrowed(f, v, B) /\ RootsOf(f, v) \cap Dangles(f) # {})
          BY <1>2, <5>1, <5>2, BorrowedOfAccepted DEF Gone
        <5>4. v.kind = "local" /\ v.of = a /\ a \in free
          BY <3>1, <3>3, <5>3 DEF IsFrom
        <5>5. <<l, a>> \in Copies(f, B)
          BY <1>2, <5>1, <5>4 DEF Copies
        <5>6. a \notin must
          BY <3>2, <5>5, OwnedLinks
        <5>7. env[a] = Ref(d, k)
          BY <3>1, <3>2, <5>4, <5>6, LocalKinds DEF IsFrom
        <5>8. FlowsGone(f, a)
          BY <5>4, <5>7 DEF EnvOK, LoopText
        <5>9. a \in free \ Owned(f)
          BY <5>4, <5>6, BorrowedOfAccepted
        <5>10. Gone(f)
          BY <1>2, <5>1, <5>2, <5>4, <5>8, <5>9 DEF Gone, FlowsGone
        <5> QED BY <5>10, BorrowedOfAccepted
      <4> QED BY <1>2, <4>1, <4>2
    <3>7. ASSUME l \in B PROVE l \in Dangles(f)
      BY <1>3, <3>3, <3>6, <3>7, DanglesFollow
    <3> QED BY <2>3, <3>5, <3>6, <3>7
  <2> QED BY <2>2, <2>3
<1> QED BY <1>9, <1>10, <1>12, <1>13 DEF EnvOK, Assigned, next

(* What can have no roots. *)
Rootless(f) == (Locals(f) \ Lets(f)) \cup owned[f]

(* What a returned leaf is part of: its roots that have none, in turn.     *)
LEMMA TerminalRoots ==
  ASSUME Accepted, NEW f \in Fns, NEW v
  PROVE  LET of == Terminal(f, v, borrowed[f], roots[f])
         IN /\ \A k \in Rootless(f) :
                 /\ \A a \in RootsOf(f, v) : <<a, k>> \in roots[f] => k \in of
                 /\ k \in RootsOf(f, v) /\ IsBorrowed(f, v, borrowed[f]) => k \in of
            /\ ~IsBorrowed(f, v, borrowed[f]) /\ RootsOf(f, v) \subseteq owned[f] => of = {}
<1> DEFINE B == borrowed[f]
           R == roots[f]
           final(S) == {r \in S : Of(R, r) = {} /\ r \notin B}
           new == ~IsBorrowed(f, v, B)
<1>1. \A a, k : <<a, k>> \in R => k \in Of(R, a)
  BY DEF Of
<1>2. ASSUME NEW k \in Rootless(f) PROVE Of(R, k) = {} /\ k \notin B
  <2>1. k \notin B
    BY LocalKinds DEF Rootless
  <2>2. SUFFICES ASSUME NEW p \in R, p[1] = k PROVE FALSE
    BY <2>1 DEF Of
  <2>3. R \in SUBSET (Locals(f) \X Locals(f))
    BY BorrowedOfAccepted, RootsLeast
  <2>4. p = <<k, p[2]>>
    BY <2>2, <2>3
  <2> QED BY <2>2, <2>4, OwnedRootless DEF Rootless
<1>3. Terminal(f, v, B, R) =
        UNION {IF Of(R, r) # {} THEN final(Of(R, r)) ELSE IF new THEN {} ELSE final({r}) : r \in RootsOf(f, v)}
  BY DEF Terminal, RootsOf
<1>4. ASSUME NEW k \in Rootless(f), NEW a \in RootsOf(f, v), <<a, k>> \in R
      PROVE  k \in Terminal(f, v, B, R)
  <2>1. Of(R, a) # {} /\ k \in final(Of(R, a))
    BY <1>1, <1>2, <1>4
  <2> HIDE DEF final, new, B, R
  <2> QED BY <1>3, <2>1
<1>5. ASSUME NEW k \in RootsOf(f, v), k \in Rootless(f), IsBorrowed(f, v, B)
      PROVE  k \in Terminal(f, v, B, R)
  <2>1. Of(R, k) = {} /\ k \in final({k}) /\ ~new
    BY <1>2, <1>5
  <2> HIDE DEF final, new, B, R
  <2> QED BY <1>3, <2>1
<1>6. ASSUME ~IsBorrowed(f, v, B), RootsOf(f, v) \subseteq owned[f] PROVE Terminal(f, v, B, R) = {}
  <2>1. new /\ \A r \in RootsOf(f, v) : Of(R, r) = {}
    BY <1>2, <1>6 DEF Rootless
  <2> HIDE DEF final, new, B, R
  <2> QED BY <1>3, <2>1
<1> QED BY <1>4, <1>5, <1>6

(* What a call of f returns: part of the argument f is classified by, or   *)
(* new text where it is classified new.                                    *)
ValueOK(f, env, w) ==
  /\ w \in Text
  /\ Refers(w) => class[f][1] = "part" /\ w = env[class[f][2]]
  /\ w = Own => class[f] = <<"new">>

LEMMA ReturnKeeps ==
  ASSUME Accepted, NEW f \in Fns, NEW d \in Nat, NEW env, EnvOK(f, d, env),
         NEW v \in Elements(program[f].ret), NEW w, Gives(f, d, env, v, w)
  PROVE  ValueOK(f, env, w)
<1> DEFINE B == borrowed[f]
           of == Terminal(f, v, B, roots[f])
<1>1. v \in Leaves(f) /\ v \in Leaf /\ Mentions(v) \subseteq Locals(f) /\ v.kind \in {"local", "call", "lit", "new"}
  <2>1. v \in Leaves(f) /\ v \in Leaf /\ Mentions(v) \subseteq Locals(f)
    BY BorrowedOfAccepted, LeafShape
  <2> QED BY <2>1 DEF Leaf
<1>2. \A r \in of : r \in Params(f) /\ class[f] = <<"part", r>>
  BY ReturnsPart
<1>3. ASSUME Refers(w) PROVE class[f][1] = "part" /\ w = env[class[f][2]]
  <2>1. PICK a \in Locals(f) : IsFrom(f, d, env, v, w, a)
    BY <1>1, <1>3, HasSource
  <2>2. SUFFICES \E k \in of : w = env[k]
    BY <1>2
  <2>3. CASE w = env[a]
    <3>1. CASE a \in Params(f)
      <4>1. IsBorrowed(f, v, B) /\ a \in RootsOf(f, v) /\ a \notin Lets(f)
        BY <2>1, <3>1, LocalKinds DEF IsFrom
      <4>2. a \in of
        BY <3>1, <4>1, TerminalRoots DEF Rootless
      <4> QED BY <2>3, <4>2
    <3>2. CASE a \in Owners(f)
      <4>1. env[a] \in {None, Own}
        BY <3>2 DEF EnvOK, OwnText
      <4> QED BY <1>3, <2>3, <4>1, Texts
    <3>3. CASE a \in Lets(f)
      <4>1. PICK k \in Locals(f) : <<a, k>> \in roots[f] /\ LeadsTo(f, d, env, w, k)
        BY <1>3, <2>3, <3>3 DEF EnvOK, RootedText
      <4>2. k \in Rootless(f)
        BY <4>1, LocalKinds DEF LeadsTo, Rootless
      <4>3. k \in of
        BY <2>1, <4>1, <4>2, TerminalRoots DEF IsFrom
      <4>4. k \in Params(f)
        BY <1>2, <4>3
      <4>5. k \notin Owners(f) \cup owned[f]
        BY <4>4, LocalKinds
      <4> QED BY <4>1, <4>3, <4>5 DEF LeadsTo
    <3> QED BY <3>1, <3>2, <3>3, LocalKinds
  <2>4. CASE w # env[a]
    <3>1. a \in Owners(f) \cup owned[f] /\ a \in RootsOf(f, v)
      BY <2>1, <2>4 DEF IsFrom
    <3>2. IsBorrowed(f, v, B)
      BY <2>1, <2>4 DEF IsFrom, Gives
    <3>3. a \in of
      BY <3>1, <3>2, TerminalRoots, LocalKinds DEF Rootless
    <3>4. a \in Params(f)
      BY <1>2, <3>3
    <3> QED BY <3>1, <3>4, LocalKinds
  <2> QED BY <2>3, <2>4
<1>4. ASSUME w = Own PROVE class[f] = <<"new">>
  <2>1. SUFFICES ~IsBorrowed(f, v, B) /\ RootsOf(f, v) \subseteq owned[f]
    BY TerminalRoots, ReturnsPart DEF IsNewLeaf
  <2>2. v.kind # "lit"
    BY <1>4, Texts DEF Gives
  <2>3. CASE v.kind = "new"
    BY <2>3 DEF IsBorrowed, RootsOf, RootedAt
  <2>4. CASE v.kind = "call"
    BY <1>4, <2>4 DEF IsBorrowed, RootsOf, Gives
  <2>5. CASE v.kind = "local"
    <3>1. v.of \in Locals(f) /\ RootsOf(f, v) = {v.of} /\ RootedAt(f, v) = 0
      BY <1>1, <2>5 DEF Mentions, RootsOf, RootedAt
    <3>2. v.of \in Free(f, B)
      <4>1. \A k \in Nat : Ref(d, k) # Own
        BY Texts
      <4>2. v.of \in Nat /\ v.of # 0
        BY <3>1, LocalKinds
      <4> QED BY <1>4, <2>5, <4>1, <4>2 DEF Gives, Seen
    <3>3. env[v.of] = Own
      BY <1>4, <2>5, <3>2 DEF Gives
    <3>4. v.of \in owned[f]
      BY <3>2, <3>3, LocalKinds DEF EnvOK, OwnText
    <3> QED BY <3>1, <3>2, <3>4, LocalKinds DEF IsBorrowed
  <2> QED BY <1>1, <2>2, <2>3, <2>4, <2>5
<1> QED BY <1>3, <1>4 DEF ValueOK, Gives

(* A struct is declared, and a round of the loop ends.                     *)
LEMMA DeclareKeeps ==
  ASSUME Accepted, NEW f \in Fns, NEW d \in Nat, NEW env, EnvOK(f, d, env), NEW l \in Owners(f)
  PROVE  EnvOK(f, d, [env EXCEPT ![l] = Own])
<1> DEFINE next == [env EXCEPT ![l] = Own]
<1>1. env \in [Locals(f) -> Text] /\ l \in Locals(f) \ (Params(f) \cup Lets(f))
  BY LocalKinds DEF EnvOK, OwnText
<1>2. next[l] = Own /\ \A m \in Locals(f) \ {l} : next[m] = env[m]
  BY <1>1
<1>3. next \in [Locals(f) -> Text]
  BY <1>1 DEF Text
<1> HIDE DEF next
<1>4. OwnText(f, next)
  BY <1>1, <1>2, <1>3, LocalKinds DEF EnvOK, OwnText
<1>5. OuterText(f, d, next)
  BY <1>1, <1>2, LocalKinds DEF EnvOK, OuterText
<1>6. RootedText(f, d, next)
  BY <1>1, <1>2, LocalKinds DEF EnvOK, RootedText, LeadsTo
<1>7. LoopText(f, d, next)
  <2>1. \A k \in InLoop(f) : Ref(d, k) # Own
    BY LocalKinds, Texts
  <2> QED BY <1>1, <1>2, <2>1 DEF EnvOK, LoopText
<1> QED BY <1>4, <1>5, <1>6, <1>7 DEF EnvOK, next

LEMMA RoundKeeps ==
  ASSUME Accepted, NEW f \in Fns, NEW d \in Nat, NEW env, EnvOK(f, d, env)
  PROVE  EnvOK(f, d, [l \in Locals(f) |-> IF l \in InLoop(f) THEN None ELSE env[l]])
<1> DEFINE next == [l \in Locals(f) |-> IF l \in InLoop(f) THEN None ELSE env[l]]
<1>1. \A l \in Locals(f) : next[l] = None \/ (next[l] = env[l] /\ l \notin InLoop(f))
  OBVIOUS
<1>2. \A p \in Params(f) : p \in Locals(f) /\ next[p] = env[p]
  BY LocalKinds
<1>3. next \in [Locals(f) -> Text]
  BY DEF EnvOK, OwnText, Text
<1> HIDE DEF next
<1>4. OwnText(f, next)
  BY <1>1, <1>3, LocalKinds, Texts DEF EnvOK, OwnText
<1>5. OuterText(f, d, next)
  BY <1>2 DEF EnvOK, OuterText
<1>6. RootedText(f, d, next)
  <2> SUFFICES ASSUME NEW m \in Lets(f), Refers(next[m])
               PROVE \E k \in Locals(f) : <<m, k>> \in roots[f] /\ LeadsTo(f, d, next, next[m], k)
    BY DEF RootedText
  <2>1. next[m] = env[m]
    BY <1>1, Texts, LocalKinds
  <2>2. PICK k \in Locals(f) : <<m, k>> \in roots[f] /\ LeadsTo(f, d, env, env[m], k)
    BY <2>1 DEF EnvOK, RootedText
  <2> QED BY <1>2, <2>1, <2>2 DEF LeadsTo
<1>7. LoopText(f, d, next)
  <2>1. \A k \in InLoop(f) : Ref(d, k) # None
    BY LocalKinds, Texts
  <2> QED BY <1>1, <2>1 DEF EnvOK, LoopText
<1> QED BY <1>4, <1>5, <1>6, <1>7 DEF EnvOK, next

(* A call starts with what its arguments show.                             *)
LEMMA CallStarts ==
  ASSUME Accepted, NEW f \in Fns, NEW d \in Nat, NEW env, env \in [Locals(f) -> Text],
         \A p \in Params(f) : env[p] = Literal \/ \E e, k \in Nat : e < d /\ env[p] = Ref(e, k),
         \A l \in Locals(f) \ Params(f) : env[l] = None
  PROVE  EnvOK(f, d, env)
<1>1. OwnText(f, env)
  BY LocalKinds, Texts DEF OwnText
<1>2. OuterText(f, d, env)
  BY DEF OuterText
<1>3. RootedText(f, d, env)
  BY LocalKinds, Texts DEF RootedText
<1>4. LoopText(f, d, env)
  <2> SUFFICES ASSUME NEW l \in Locals(f), NEW k \in InLoop(f), env[l] = Ref(d, k) PROVE FALSE
    BY DEF LoopText
  <2>1. k \in Nat
    BY LocalKinds
  <2>2. env[l] # None /\ env[l] # Literal
    BY <2>1, Texts
  <2>3. PICK e \in Nat, m \in Nat : e < d /\ env[l] = Ref(e, m)
    BY <2>2
  <2>4. Ref(d, k) = Ref(e, m)
    BY <2>3
  <2>5. d = e
    BY <2>1, <2>4, Texts
  <2> QED BY <2>3, <2>5
<1> QED BY <1>1, <1>2, <1>3, <1>4 DEF EnvOK
-----------------------------------------------------------------------------
(* While the program does not change, neither does what is in it.          *)
LEMMA SameProgram ==
  ASSUME program' = program
  PROVE  /\ Fns' = Fns
         /\ \A f : /\ Stmts(f)' = Stmts(f) /\ Params(f)' = Params(f) /\ Declared(f)' = Declared(f)
                   /\ Locals(f)' = Locals(f) /\ Owners(f)' = Owners(f) /\ Lets(f)' = Lets(f)
                   /\ InLoop(f)' = InLoop(f) /\ Leaves(f)' = Leaves(f) /\ Callees(f)' = Callees(f)
         /\ \A f, l : Given(f, l)' = Given(f, l) /\ Initial(f, l)' = Initial(f, l)
<1>1. Fns' = Fns /\ \A f : Stmts(f)' = Stmts(f) /\ Params(f)' = Params(f)
  BY DEF Fns, Stmts, Params
<1>2. \A f : Declared(f)' = Declared(f)
  BY <1>1 DEF Declared
<1>3. \A f : Locals(f)' = Locals(f) /\ Owners(f)' = Owners(f)
  BY <1>1, <1>2 DEF Locals, Owners
<1>4. \A f : Lets(f)' = Lets(f)
  BY <1>1, <1>3 DEF Lets
<1>5. \A f : InLoop(f)' = InLoop(f)
  BY DEF InLoop
<1>6. \A f : Leaves(f)' = Leaves(f)
  BY <1>1 DEF Leaves
<1>7. \A f : Callees(f)' = Callees(f)
  BY <1>6 DEF Callees
<1>8. \A f, l : Given(f, l)' = Given(f, l)
  BY <1>1 DEF Given
<1>9. \A f, l : Initial(f, l)' = Initial(f, l)
  BY <1>1, <1>2 DEF Initial
<1> QED BY <1>1, <1>2, <1>3, <1>4, <1>5, <1>6, <1>7, <1>8, <1>9

LEMMA StillWellFormed ==
  ASSUME WellFormed, program' = program PROVE WellFormed'
<1>1. \A f \in Fns : Scoped(f) <=> Scoped(f)'
  <2> SUFFICES ASSUME NEW f \in Fns PROVE Scoped(f) <=> Scoped(f)'
    OBVIOUS
  <2>1. /\ Fns' = Fns /\ Declared(f)' = Declared(f) /\ Stmts(f)' = Stmts(f) /\ Locals(f)' = Locals(f)
        /\ Params(f)' = Params(f) /\ Lets(f)' = Lets(f) /\ Leaves(f)' = Leaves(f) /\ InLoop(f)' = InLoop(f)
    BY SameProgram
  <2> QED BY <2>1 DEF Scoped
<1>2. Fns' = Fns
  BY SameProgram
<1> QED BY <1>1, <1>2 DEF WellFormed

LEMMA SameGroups ==
  ASSUME program' = program
  PROVE  \A f \in Fns : Reaches(f)' = Reaches(f) /\ Group(f)' = Group(f) /\ Recursive(f)' = Recursive(f)
<1>1. Fns' = Fns /\ \A f : Callees(f)' = Callees(f)
  BY SameProgram
<1>2. \A f : Reaches(f)' = Reaches(f)
  <2> SUFFICES ASSUME NEW f PROVE Reaches(f)' = Reaches(f)
    OBVIOUS
  <2> DEFINE further == [S \in SUBSET Fns |-> S \cup UNION {Callees(g) : g \in S}]
  <2>1. further' = further
    BY <1>1
  <2>2. Callees(f)' = Callees(f) /\ Cardinality(Fns)' = Cardinality(Fns)
    BY <1>1
  <2>3. Settled(further, Callees(f), Cardinality(Fns))' = Settled(further, Callees(f), Cardinality(Fns))
    <3> HIDE DEF further
    <3> QED BY <2>1, <2>2
  <2> QED BY <2>3 DEF Reaches
<1>3. \A f : Group(f)' = Group(f) /\ Recursive(f)' = Recursive(f)
  BY <1>2 DEF Group, Recursive
<1> QED BY <1>2, <1>3

(* What is found of a function depends on how the functions it calls       *)
(* outside its group are classified, and on no other class.                *)
SameCallees(f) == program' = program /\ \A h \in Callees(f) \ Group(f) : class'[h] = class[h]

LEMMA SamePlaces ==
  ASSUME NEW f \in Fns, SameCallees(f)
  PROVE  /\ \A v \in Leaves(f) : /\ RootedAt(f, v)' = RootedAt(f, v) /\ RootsOf(f, v)' = RootsOf(f, v)
                                 /\ IsNew(f, v)' = IsNew(f, v)
                                 /\ \A B : IsBorrowed(f, v, B)' = IsBorrowed(f, v, B)
         /\ \A l : Given(f, l) \subseteq Leaves(f) /\ Initial(f, l) \subseteq Leaves(f)
         /\ Elements(program[f].ret) \subseteq Leaves(f)
         /\ \A B : /\ Free(f, B)' = Free(f, B) /\ Copies(f, B)' = Copies(f, B)
                   /\ Direct(f, B)' = Direct(f, B)
<1>1. program' = program /\ \A h \in Callees(f) \ Group(f) : class'[h] = class[h]
  BY DEF SameCallees
<1>2. /\ Params(f)' = Params(f) /\ Owners(f)' = Owners(f) /\ Lets(f)' = Lets(f) /\ Locals(f)' = Locals(f)
      /\ \A l : Given(f, l)' = Given(f, l) /\ Initial(f, l)' = Initial(f, l)
  BY <1>1, SameProgram
<1>3. Group(f)' = Group(f)
  BY <1>1, SameGroups
<1>4. ASSUME NEW v \in Leaves(f)
      PROVE  /\ RootedAt(f, v)' = RootedAt(f, v) /\ RootsOf(f, v)' = RootsOf(f, v)
             /\ IsNew(f, v)' = IsNew(f, v)
             /\ \A B : IsBorrowed(f, v, B)' = IsBorrowed(f, v, B)
  <2>1. v.kind = "call" => v.of \in Callees(f)
    BY DEF Callees
  <2>2. RootedAt(f, v)' = RootedAt(f, v)
    BY <1>1, <1>3, <2>1 DEF RootedAt
  <2>3. RootsOf(f, v)' = RootsOf(f, v) /\ IsNew(f, v)' = IsNew(f, v)
    BY <2>2 DEF RootsOf, IsNew
  <2>4. \A B : IsBorrowed(f, v, B)' = IsBorrowed(f, v, B)
    BY <1>2, <2>2 DEF IsBorrowed
  <2> QED BY <2>2, <2>3, <2>4
<1>5. \A l : Given(f, l) \subseteq Leaves(f) /\ Initial(f, l) \subseteq Leaves(f)
  BY DEF Given, Initial, Leaves, Declared
<1>6. ASSUME NEW B PROVE Free(f, B)' = Free(f, B) /\ Copies(f, B)' = Copies(f, B) /\ Direct(f, B)' = Direct(f, B)
  <2>1. Free(f, B)' = Free(f, B)
    BY <1>2 DEF Free
  <2>2. Copies(f, B)' = Copies(f, B)
    BY <1>2, <2>1 DEF Copies
  <2>3. \A p : (\E v \in Initial(f, p[1]) : p[2] \in RootsOf(f, v))' <=> \E v \in Initial(f, p[1]) : p[2] \in RootsOf(f, v)
    BY <1>2, <1>4, <1>5
  <2>4. \A p : (\E v \in Given(f, p[1]) : IsBorrowed(f, v, B) /\ p[2] \in RootsOf(f, v))'
               <=> \E v \in Given(f, p[1]) : IsBorrowed(f, v, B) /\ p[2] \in RootsOf(f, v)
    BY <1>2, <1>4, <1>5
  <2>5. Direct(f, B)' = Direct(f, B)
    BY <1>2, <2>1, <2>3, <2>4 DEF Direct
  <2> QED BY <2>1, <2>2, <2>5
<1>7. Elements(program[f].ret) \subseteq Leaves(f)
  BY DEF Leaves
<1> QED BY <1>4, <1>5, <1>6, <1>7

LEMMA SameAnalysis ==
  ASSUME NEW f \in Fns, SameCallees(f)
  PROVE  /\ BorrowedLets(f)' = BorrowedLets(f)
         /\ \A B : AliasRoots(f, B)' = AliasRoots(f, B)
         /\ \A B, R : ClassOf(f, B, R)' = ClassOf(f, B, R)
<1>1. program' = program
  BY DEF SameCallees
<1>2. Lets(f)' = Lets(f) /\ Locals(f)' = Locals(f) /\ Params(f)' = Params(f) /\ Recursive(f)' = Recursive(f)
      /\ \A l : Initial(f, l)' = Initial(f, l)
  BY <1>1, SameProgram, SameGroups
<1>3. BorrowedLets(f)' = BorrowedLets(f)
  <2> DEFINE bind == [B \in SUBSET Lets(f) |-> B \cup {l \in Lets(f) : \E v \in Initial(f, l) : IsBorrowed(f, v, B)}]
  <2>1. \A l, B : (\E v \in Initial(f, l) : IsBorrowed(f, v, B))' <=> \E v \in Initial(f, l) : IsBorrowed(f, v, B)
    BY <1>2, SamePlaces
  <2>2. bind' = bind
    BY <1>2, <2>1
  <2>3. Settled(bind, {}, Cardinality(Lets(f)))' = Settled(bind, {}, Cardinality(Lets(f)))
    <3> HIDE DEF bind
    <3> QED BY <1>2, <2>2 DEF Settled
  <2> QED BY <2>3 DEF BorrowedLets
<1>4. ASSUME NEW B PROVE AliasRoots(f, B)' = AliasRoots(f, B)
  <2> DEFINE P == Locals(f) \X Locals(f)
             C == Copies(f, B)
             follow == [R \in SUBSET P |-> Followed(R, C)]
  <2>1. C' = C /\ Direct(f, B)' = Direct(f, B) /\ P' = P
    BY <1>2, SamePlaces
  <2>2. follow' = follow
    <3> HIDE DEF P, C
    <3> QED BY <2>1
  <2>3. Settled(follow, Direct(f, B), Cardinality(P))' = Settled(follow, Direct(f, B), Cardinality(P))
    <3> HIDE DEF follow, P
    <3> QED BY <2>1, <2>2 DEF Settled
  <2> QED BY <2>3 DEF AliasRoots
<1>5. ASSUME NEW B, NEW R PROVE ClassOf(f, B, R)' = ClassOf(f, B, R)
  <2> DEFINE leaves == Elements(program[f].ret)
             of(v) == Terminal(f, v, B, R)
             new == {v \in leaves : ~IsBorrowed(f, v, B) /\ of(v) = {}}
             parts == UNION {of(v) : v \in leaves}
             wrong == \/ \E v \in leaves \ new : of(v) = {}
                      \/ ~(parts \subseteq Params(f) \ program[f].muts)
                      \/ parts # {} /\ (Recursive(f) \/ new # {} \/ Cardinality(parts) > 1)
  <2>1. leaves' = leaves /\ leaves \subseteq Leaves(f)
    BY <1>1, SamePlaces
  <2>2. ASSUME NEW v \in leaves PROVE of(v)' = of(v) /\ IsBorrowed(f, v, B)' = IsBorrowed(f, v, B)
    <3>1. RootsOf(f, v)' = RootsOf(f, v) /\ IsBorrowed(f, v, B)' = IsBorrowed(f, v, B)
      BY <2>1, SamePlaces
    <3> QED BY <3>1 DEF Terminal
  <2> HIDE DEF leaves, of
  <2>3. new' = new
    BY <2>1, <2>2
  <2>4. parts' = parts
    BY <2>1, <2>2
  <2>5. (\E v \in leaves \ new : of(v) = {})' <=> \E v \in leaves \ new : of(v) = {}
    <3> HIDE DEF new, parts
    <3> QED BY <2>1, <2>2, <2>3
  <2>6. wrong' <=> wrong
    <3> HIDE DEF new, parts
    <3> QED BY <1>1, <1>2, <2>3, <2>4, <2>5
  <2>7. ClassOf(f, B, R) = IF wrong THEN <<"error">>
                           ELSE IF parts = {} THEN <<"new">> ELSE <<"part", CHOOSE p \in parts : TRUE>>
    BY DEF ClassOf, leaves, of
  <2>8. ClassOf(f, B, R)' = (IF wrong THEN <<"error">>
                           ELSE IF parts = {} THEN <<"new">> ELSE <<"part", CHOOSE p \in parts : TRUE>>)'
    BY DEF ClassOf, leaves, of
  <2> HIDE DEF new, parts, wrong
  <2> QED BY <2>4, <2>6, <2>7, <2>8
<1> QED BY <1>3, <1>4, <1>5
-----------------------------------------------------------------------------
(* The functions classified so far, with their groups and all they call.   *)
Known(f) == class[f] # <<"unknown">>
Classified ==
  \A f \in Fns : Known(f) =>
    Analysed(f) /\ (\A g \in Group(f) : Known(g)) /\ (\A h \in Callees(f) \ Group(f) : Known(h))

LEMMA ClassifyKeeps ==
  ASSUME WellFormed, Classified, NEW f \in Fns, Classify(f) PROVE Classified'
<1>1. /\ ~Known(f) /\ program' = program
      /\ \A g \in Group(f) : \A h \in Callees(g) \ Group(f) : Known(h)
  BY DEF Classify, Known
<1>2. \A g \in Fns : /\ g \in Group(f) =>
                          /\ borrowed'[g] = BorrowedLets(g)
                          /\ roots'[g] = AliasRoots(g, borrowed'[g])
                          /\ class'[g] = ClassOf(g, borrowed'[g], roots'[g])
                     /\ g \notin Group(f) =>
                          borrowed'[g] = borrowed[g] /\ roots'[g] = roots[g] /\ class'[g] = class[g]
  <2>1. Group(f) \subseteq Fns
    BY GroupsEqual
  <2> DEFINE lets == [g \in Group(f) |-> BorrowedLets(g)]
             of == [g \in Group(f) |-> AliasRoots(g, lets[g])]
  <2>2. /\ borrowed' = [g \in Fns |-> IF g \in Group(f) THEN lets[g] ELSE borrowed[g]]
        /\ roots' = [g \in Fns |-> IF g \in Group(f) THEN of[g] ELSE roots[g]]
        /\ class' = [g \in Fns |-> IF g \in Group(f) THEN ClassOf(g, borrowed'[g], roots'[g]) ELSE class[g]]
    BY DEF Classify
  <2>3. ASSUME NEW g \in Fns, g \in Group(f)
        PROVE  /\ borrowed'[g] = BorrowedLets(g) /\ roots'[g] = AliasRoots(g, borrowed'[g])
               /\ class'[g] = ClassOf(g, borrowed'[g], roots'[g])
    <3>1. borrowed'[g] = lets[g] /\ roots'[g] = of[g] /\ class'[g] = ClassOf(g, borrowed'[g], roots'[g])
      <4> HIDE DEF lets, of
      <4> QED BY <2>2, <2>3
    <3>2. lets[g] = BorrowedLets(g) /\ of[g] = AliasRoots(g, lets[g])
      BY <2>3
    <3> QED BY <3>1, <3>2
  <2>4. ASSUME NEW g \in Fns, g \notin Group(f)
        PROVE  borrowed'[g] = borrowed[g] /\ roots'[g] = roots[g] /\ class'[g] = class[g]
    <3> HIDE DEF lets, of
    <3> QED BY <2>2, <2>4
  <2> QED BY <2>3, <2>4
<1>3. ASSUME NEW g \in Fns PROVE g \in Group(f) <=> Known(g)' /\ ~Known(g)
  <2>1. CASE g \in Group(f)
    <3>1. ~Known(g)
      <4>1. f \in Group(g)
        BY <2>1, GroupsEqual
      <4> QED BY <1>1, <4>1 DEF Classified
    <3>2. Known(g)'
      BY <1>2, <2>1, NeverUnknown DEF Known
    <3> QED BY <2>1, <3>1, <3>2
  <2>2. CASE g \notin Group(f)
    BY <1>2, <2>2 DEF Known
  <2> QED BY <2>1, <2>2
<1>4. \A g \in Fns : Known(g) => Known(g)'
  BY <1>2, <1>3 DEF Known
<1>5. ASSUME NEW g \in Fns, Known(g)' PROVE SameCallees(g) /\ (\A h \in Callees(g) \ Group(g) : Known(h))
  <2>1. \A h \in Callees(g) \ Group(g) : Known(h) /\ h \in Fns
    <3>1. Callees(g) \subseteq Fns
      BY ReachesLeast
    <3>2. CASE g \in Group(f)
      <4>1. Group(g) = Group(f)
        BY <3>2, GroupsEqual
      <4> QED BY <1>1, <3>1, <3>2, <4>1
    <3>3. CASE g \notin Group(f)
      <4>1. Known(g)
        BY <1>3, <1>5, <3>3
      <4> QED BY <3>1, <4>1 DEF Classified
    <3> QED BY <3>2, <3>3
  <2>2. \A h \in Callees(g) \ Group(g) : class'[h] = class[h]
    BY <1>2, <1>3, <2>1
  <2> QED BY <1>1, <2>1, <2>2 DEF SameCallees
<1>6. ASSUME NEW g \in Fns, Known(g)' PROVE Analysed(g)'
  <2>1. SameCallees(g)
    BY <1>5, <1>6
  <2>2. CASE g \in Group(f)
    <3>1. borrowed'[g] = BorrowedLets(g) /\ roots'[g] = AliasRoots(g, borrowed'[g])
          /\ class'[g] = ClassOf(g, borrowed'[g], roots'[g])
      BY <1>2, <2>2
    <3> QED BY <2>1, <3>1, SameAnalysis DEF Analysed
  <2>3. CASE g \notin Group(f)
    <3>1. Analysed(g) /\ borrowed'[g] = borrowed[g] /\ roots'[g] = roots[g] /\ class'[g] = class[g]
      BY <1>2, <1>3, <1>6, <2>3 DEF Classified
    <3> QED BY <2>1, <3>1, SameAnalysis DEF Analysed
  <2> QED BY <2>2, <2>3
<1>7. ASSUME NEW g \in Fns, Known(g)' PROVE \A k \in Group(g) : Known(k)'
  <2>1. CASE g \in Group(f)
    <3>1. Group(g) = Group(f) /\ Group(f) \subseteq Fns
      BY <2>1, GroupsEqual
    <3> QED BY <1>3, <3>1
  <2>2. CASE g \notin Group(f)
    <3>1. Known(g) /\ Group(g) \subseteq Fns
      BY <1>3, <1>7, <2>2, GroupsEqual
    <3> QED BY <1>4, <3>1 DEF Classified
  <2> QED BY <2>1, <2>2
<1>8. ASSUME NEW g \in Fns, Known(g)' PROVE \A h \in Callees(g) \ Group(g) : Known(h)'
  <2>1. Callees(g) \subseteq Fns
    BY ReachesLeast
  <2> QED BY <1>4, <1>5, <1>8, <2>1
<1>9. Fns' = Fns /\ \A g \in Fns : Group(g)' = Group(g) /\ Callees(g)' = Callees(g)
  BY <1>1, SameProgram, SameGroups
<1> QED BY <1>6, <1>7, <1>8, <1>9 DEF Classified

(* Once a function is called, what was found of the program stays.         *)
Found == <<program, class, borrowed, roots>>

LEMMA StillClassified ==
  ASSUME Classified, UNCHANGED Found PROVE Classified'
<1>1. program' = program /\ class' = class /\ borrowed' = borrowed /\ roots' = roots
  BY DEF Found
<1>2. Fns' = Fns /\ \A g \in Fns : Group(g)' = Group(g) /\ Callees(g)' = Callees(g)
  BY <1>1, SameProgram, SameGroups
<1>3. ASSUME NEW f \in Fns PROVE (Known(f)' <=> Known(f)) /\ (Analysed(f)' <=> Analysed(f))
  <2>1. SameCallees(f)
    BY <1>1 DEF SameCallees
  <2> QED BY <1>1, <2>1, SameAnalysis DEF Analysed, Known
<1>4. ASSUME NEW f \in Fns PROVE (\A g \in Group(f) : Known(g)) => (\A g \in Group(f) : Known(g))'
  BY <1>1, <1>2 DEF Known
<1>5. ASSUME NEW f \in Fns
      PROVE  (\A h \in Callees(f) \ Group(f) : Known(h)) => (\A h \in Callees(f) \ Group(f) : Known(h))'
  BY <1>1, <1>2 DEF Known
<1> QED BY <1>2, <1>3, <1>4, <1>5 DEF Classified

LEMMA StillFound ==
  ASSUME NEW f \in Fns, UNCHANGED Found
  PROVE  /\ Owned(f)' = Owned(f) /\ Dangles(f)' = Dangles(f)
         /\ \A l : Flowing(f, l)' = Flowing(f, l)
         /\ (Gone(f)' <=> Gone(f)) /\ (Kept(f)' <=> Kept(f)) /\ (Analysed(f)' <=> Analysed(f))
<1>1. program' = program /\ class' = class /\ borrowed' = borrowed /\ roots' = roots
  BY DEF Found
<1> DEFINE B == borrowed[f]
           free == Free(f, B)
           copies == Copies(f, B)
           direct == Direct(f, B)
<1>2. SameCallees(f)
  BY <1>1 DEF SameCallees
<1>3. B' = B
  BY <1>1
<1>4. free' = free /\ copies' = copies /\ direct' = direct
  BY <1>1, <1>2, SamePlaces
<1>5. /\ \A v \in Leaves(f) : /\ RootedAt(f, v)' = RootedAt(f, v) /\ RootsOf(f, v)' = RootsOf(f, v)
                              /\ IsNew(f, v)' = IsNew(f, v)
                              /\ IsBorrowed(f, v, B)' = IsBorrowed(f, v, B)
      /\ \A l : Given(f, l) \subseteq Leaves(f) /\ Initial(f, l) \subseteq Leaves(f)
  <2>1. \A v \in Leaves(f) : \A X : IsBorrowed(f, v, X)' = IsBorrowed(f, v, X)
    BY <1>2, SamePlaces
  <2> QED BY <1>2, <1>3, <2>1, SamePlaces
<1>6. /\ Lets(f)' = Lets(f) /\ Locals(f)' = Locals(f) /\ InLoop(f)' = InLoop(f) /\ Stmts(f)' = Stmts(f)
      /\ \A l : Given(f, l)' = Given(f, l) /\ Initial(f, l)' = Initial(f, l)
  BY <1>1, SameProgram
<1> HIDE DEF B, free, copies, direct
<1>7. Owned(f)' = Owned(f)
  <2> DEFINE first == {l \in free : \E v \in Given(f, l) : IsNew(f, v)} \cup
                      (IF class[f][1] = "part" THEN {} ELSE {v.of : v \in {u \in Elements(program[f].ret) : u.kind = "local"}} \cap free)
             link == [S \in SUBSET free |-> S \cup {a \in free : \E b \in S : <<a, b>> \in copies \/ <<b, a>> \in copies}]
  <2>1. \A l : (\E v \in Given(f, l) : IsNew(f, v))' <=> \E v \in Given(f, l) : IsNew(f, v)
    BY <1>5, <1>6
  <2>2. first' = first
    BY <1>1, <1>4, <2>1
  <2>3. link' = link
    BY <1>4
  <2>4. Settled(link, first, Cardinality(free))' = Settled(link, first, Cardinality(free))
    <3> HIDE DEF link, first
    <3> QED BY <1>4, <2>2, <2>3
  <2> QED BY <2>4 DEF Owned, free, copies, B
<1>8. Dangles(f)' = Dangles(f)
  <2> DEFINE I == InLoop(f)
             dangle == [S \in SUBSET I |-> S \cup {l \in I \cap B :
                         \E v \in Initial(f, l) : IsNew(f, v) \/ RootsOf(f, v) \cap S # {}}]
  <2>1. \A l, S : (\E v \in Initial(f, l) : IsNew(f, v) \/ RootsOf(f, v) \cap S # {})'
                  <=> \E v \in Initial(f, l) : IsNew(f, v) \/ RootsOf(f, v) \cap S # {}
    BY <1>5, <1>6
  <2>2. dangle' = dangle
    BY <1>3, <1>6, <2>1
  <2>3. I' = I
    BY <1>6
  <2>4. Settled(dangle, I \ B, Cardinality(I))' = Settled(dangle, I \ B, Cardinality(I))
    <3> HIDE DEF dangle, I
    <3> QED BY <1>3, <2>2, <2>3
  <2> QED BY <2>4 DEF Dangles, B
<1>9. ASSUME NEW l PROVE Flowing(f, l)' = Flowing(f, l)
  <2> DEFINE L == Locals(f)
             copied == [S \in SUBSET L |-> S \cup UNION {Of(copies, k) : k \in S}]
  <2>1. copied' = copied /\ L' = L
    BY <1>4, <1>6
  <2>2. Settled(copied, {l}, Cardinality(L))' = Settled(copied, {l}, Cardinality(L))
    <3> HIDE DEF copied, L
    <3> QED BY <2>1
  <2> QED BY <2>2 DEF Flowing, copies, B
<1>10. Gone(f)' <=> Gone(f)
  <2> DEFINE Leaf1(l, v) == IsBorrowed(f, v, B) /\ RootsOf(f, v) \cap Dangles(f) # {}
             Leaf2(v) == /\ v.kind = "local" /\ v.of \in free \ Owned(f)
                         /\ \E k \in Flowing(f, v.of) : Of(direct, k) \cap Dangles(f) # {}
  <2>1. Gone(f) <=> \E l \in free \ InLoop(f) : \E v \in Given(f, l) : Leaf1(l, v) \/ Leaf2(v)
    BY DEF Gone, free, direct, B
  <2>2. Gone(f)' <=> (\E l \in free \ InLoop(f) : \E v \in Given(f, l) : Leaf1(l, v) \/ Leaf2(v))'
    BY DEF Gone, free, direct, B
  <2>3. \A l, v : v \in Leaves(f) => (Leaf1(l, v)' <=> Leaf1(l, v)) /\ (Leaf2(v)' <=> Leaf2(v))
    BY <1>4, <1>5, <1>7, <1>8, <1>9
  <2> HIDE DEF Leaf1, Leaf2
  <2>4. \A l : (\E v \in Given(f, l) : Leaf1(l, v) \/ Leaf2(v))' <=> \E v \in Given(f, l) : Leaf1(l, v) \/ Leaf2(v)
    BY <1>5, <1>6, <2>3
  <2>5. (free \ InLoop(f))' = free \ InLoop(f)
    BY <1>4, <1>6
  <2>6. (\E l \in free \ InLoop(f) : \E v \in Given(f, l) : Leaf1(l, v) \/ Leaf2(v))'
        <=> \E l \in free \ InLoop(f) : \E v \in Given(f, l) : Leaf1(l, v) \/ Leaf2(v)
    BY <2>4, <2>5
  <2> QED BY <2>1, <2>2, <2>6
<1>11. Kept(f)' <=> Kept(f)
  <2> DEFINE A == \E i \in DOMAIN Stmts(f) : Stmts(f)[i].op = "set" /\ Stmts(f)[i].local \in B
             G == \E l \in Owned(f) : \E v \in Given(f, l) : IsBorrowed(f, v, B)
             E == \E l \in B : \E v \in Initial(f, l) : IsNew(f, v) \/ (v.kind = "local" /\ v.of \in Owned(f))
  <2>1. Kept(f) <=> A \/ G \/ E
    BY DEF Kept, B
  <2>2. Kept(f)' <=> (A \/ G \/ E)'
    BY DEF Kept, B
  <2>3. A' <=> A
    BY <1>3, <1>6
  <2>4. G' <=> G
    <3>1. \A l : (\E v \in Given(f, l) : IsBorrowed(f, v, B))' <=> \E v \in Given(f, l) : IsBorrowed(f, v, B)
      BY <1>5, <1>6
    <3> QED BY <1>7, <3>1
  <2>5. E' <=> E
    <3>1. \A l : (\E v \in Initial(f, l) : IsNew(f, v) \/ (v.kind = "local" /\ v.of \in Owned(f)))'
                 <=> \E v \in Initial(f, l) : IsNew(f, v) \/ (v.kind = "local" /\ v.of \in Owned(f))
      BY <1>5, <1>6, <1>7
    <3> QED BY <1>3, <3>1
  <2> QED BY <2>1, <2>2, <2>3, <2>4, <2>5
<1>12. Analysed(f)' <=> Analysed(f)
  BY <1>1, <1>2, SameAnalysis DEF Analysed
<1> QED BY <1>7, <1>8, <1>9, <1>10, <1>11, <1>12

LEMMA StillAccepted ==
  ASSUME WellFormed, NoneRefused, \A f \in Fns : Analysed(f), UNCHANGED Found,
         \A f \in Fns : owned'[f] = Owned(f)
  PROVE  Accepted'
<1>1. program' = program /\ class' = class
  BY DEF Found
<1>2. WellFormed' /\ Fns' = Fns
  BY <1>1, StillWellFormed, SameProgram
<1>3. ASSUME NEW f \in Fns PROVE ~Gone(f)' /\ ~Kept(f)' /\ Analysed(f)' /\ owned'[f] = Owned(f)'
  BY <1>3, StillFound DEF NoneRefused
<1>4. NoneRefused'
  BY <1>1, <1>2, <1>3 DEF NoneRefused
<1> QED BY <1>2, <1>3, <1>4 DEF Accepted
-----------------------------------------------------------------------------
(* The calls that run: each holds what it may at its depth, and each but   *)
(* the first was called by a leaf the one outside it is at, with what the  *)
(* arguments show.                                                         *)
Envs == UNION {[Locals(f) -> Text] : f \in Fns}
Frames == [fn : Fns, pc : Int, rounds : Int, value : Text, env : Envs]
FrameOK(fr, d) == fr \in Frames /\ EnvOK(fr.fn, d, fr.env) /\ ValueOK(fr.fn, fr.env, fr.value)
LeavesAt(fr) ==
  IF fr.pc \in DOMAIN Stmts(fr.fn) THEN Elements(Stmts(fr.fn)[fr.pc].value) ELSE Elements(program[fr.fn].ret)
CalledBy(below, d, fr) ==
  /\ below.pc \in DOMAIN Stmts(below.fn) => Stmts(below.fn)[below.pc].op # "own"
  /\ \E v \in LeavesAt(below) : /\ v.kind = "call" /\ v.of = fr.fn
                                /\ \A p \in Params(fr.fn) : fr.env[p] = Seen(below.env, d, v.args[p])
StackOK(s) ==
  /\ DOMAIN s = 1 .. Len(s) /\ Len(s) \in Nat /\ s = [d \in 1 .. Len(s) |-> s[d]]
  /\ \A d \in 1 .. Len(s) : FrameOK(s[d], d) /\ (d > 1 => CalledBy(s[d - 1], d - 1, s[d]))
Stack == \E s : frames = s /\ StackOK(s)

LEMMA StackIsSeq ==
  ASSUME NEW s, StackOK(s) PROVE s \in Seq(Frames)
<1>1. s \in [1 .. Len(s) -> Frames] /\ Len(s) \in Nat
  BY DEF StackOK, FrameOK
<1> QED BY <1>1

(* The innermost call changes, and those inside it are over: what it was   *)
(* called with stays.                                                      *)
LEMMA StackChanges ==
  ASSUME Accepted, NEW s, StackOK(s), NEW n \in 1 .. Len(s), NEW t, t \in Seq(Frames), Len(t) = n,
         \A d \in 1 .. n - 1 : t[d] = s[d],
         t[n].fn = s[n].fn, FrameOK(t[n], n), \A p \in Params(s[n].fn) : t[n].env[p] = s[n].env[p]
  PROVE  StackOK(t)
<1>1. n \in Nat /\ Len(s) \in Nat /\ n <= Len(s)
  BY DEF StackOK
<1>2. DOMAIN t = 1 .. n /\ t = [d \in 1 .. n |-> t[d]]
  BY <1>1
<1>3. ASSUME NEW d \in 1 .. n PROVE FrameOK(t[d], d) /\ (d > 1 => CalledBy(t[d - 1], d - 1, t[d]))
  <2>1. d \in 1 .. Len(s) /\ FrameOK(s[d], d) /\ (d > 1 => CalledBy(s[d - 1], d - 1, s[d]))
    BY <1>1 DEF StackOK
  <2>2. CASE d < n
    <3>1. t[d] = s[d] /\ (d > 1 => t[d - 1] = s[d - 1])
      BY <1>1, <2>2
    <3> QED BY <2>1, <3>1
  <2>3. CASE d = n
    <3>1. d > 1 => t[d - 1] = s[d - 1]
      BY <1>1, <2>3
    <3>2. ASSUME d > 1 PROVE CalledBy(t[d - 1], d - 1, t[d])
      BY <2>1, <2>3, <3>1, <3>2 DEF CalledBy
    <3> QED BY <2>3, <3>2
  <2> QED BY <1>1, <2>2, <2>3
<1> QED BY <1>1, <1>2, <1>3 DEF StackOK

(* A new call is inside the innermost one. *)
LEMMA StackGrows ==
  ASSUME NEW s, StackOK(s), NEW fr, FrameOK(fr, Len(s) + 1), Len(s) > 0 => CalledBy(s[Len(s)], Len(s), fr)
  PROVE  StackOK(Append(s, fr))
<1> DEFINE t == Append(s, fr)
           n == Len(s)
<1>1. s \in Seq(Frames) /\ fr \in Frames /\ n \in Nat
  BY StackIsSeq DEF FrameOK, StackOK
<1>2. t \in Seq(Frames) /\ Len(t) = n + 1 /\ t[n + 1] = fr /\ \A d \in 1 .. n : t[d] = s[d]
  BY <1>1
<1> HIDE DEF t
<1>3. DOMAIN t = 1 .. Len(t) /\ Len(t) \in Nat /\ t = [d \in 1 .. Len(t) |-> t[d]]
  BY <1>1, <1>2
<1>4. ASSUME NEW d \in 1 .. n + 1 PROVE FrameOK(t[d], d) /\ (d > 1 => CalledBy(t[d - 1], d - 1, t[d]))
  <2>1. CASE d <= n
    <3>1. d \in 1 .. n /\ t[d] = s[d] /\ (d > 1 => t[d - 1] = s[d - 1])
      BY <1>1, <1>2, <2>1
    <3>2. FrameOK(s[d], d) /\ (d > 1 => CalledBy(s[d - 1], d - 1, s[d]))
      BY <3>1 DEF StackOK
    <3> QED BY <3>1, <3>2
  <2>2. CASE d = n + 1
    <3>1. t[d] = fr /\ d - 1 = n /\ (d > 1 => t[d - 1] = s[n] /\ n > 0)
      BY <1>1, <1>2, <2>2
    <3> QED BY <2>2, <3>1, <1>1
  <2> QED BY <1>1, <2>1, <2>2
<1> QED BY <1>2, <1>3, <1>4 DEF StackOK, t

LEMMA StillStack ==
  ASSUME WellFormed, NEW s, StackOK(s), UNCHANGED Found, owned' = owned PROVE StackOK(s)'
<1>1. program' = program /\ class' = class /\ borrowed' = borrowed /\ roots' = roots /\ Fns' = Fns
      /\ \A f : Locals(f)' = Locals(f) /\ Params(f)' = Params(f) /\ Owners(f)' = Owners(f) /\ Lets(f)' = Lets(f)
             /\ InLoop(f)' = InLoop(f) /\ Stmts(f)' = Stmts(f)
  BY SameProgram DEF Found
<1>2. Frames' = Frames
  BY <1>1 DEF Frames, Envs
<1>3. ASSUME NEW f \in Fns, NEW d, NEW env PROVE EnvOK(f, d, env) => EnvOK(f, d, env)'
  <2>1. \A l : Flowing(f, l)' = Flowing(f, l)
    BY StillFound
  <2>2. Dangles(f)' = Dangles(f)
    BY StillFound
  <2>3. Free(f, borrowed[f])' = Free(f, borrowed[f]) /\ Direct(f, borrowed[f])' = Direct(f, borrowed[f])
    <3>1. SameCallees(f)
      BY <1>1 DEF SameCallees
    <3> QED BY <1>1, <3>1, SamePlaces
  <2>4. OwnText(f, env)' <=> OwnText(f, env)
    BY <1>1 DEF OwnText
  <2>5. OuterText(f, d, env)' <=> OuterText(f, d, env)
    BY <1>1 DEF OuterText
  <2>6. RootedText(f, d, env)' <=> RootedText(f, d, env)
    BY <1>1 DEF RootedText, LeadsTo
  <2>7. \A l : FlowsGone(f, l)' <=> FlowsGone(f, l)
    BY <2>1, <2>2, <2>3 DEF FlowsGone
  <2>8. LoopText(f, d, env)' <=> LoopText(f, d, env)
    BY <1>1, <2>2, <2>3, <2>7 DEF LoopText
  <2> QED BY <2>4, <2>5, <2>6, <2>8 DEF EnvOK
<1>4. ASSUME NEW f, NEW env, NEW w PROVE ValueOK(f, env, w) => ValueOK(f, env, w)'
  BY <1>1 DEF ValueOK
<1>5. ASSUME NEW fr, NEW d, FrameOK(fr, d) PROVE FrameOK(fr, d)'
  <2>1. fr.fn \in Fns
    BY <1>5 DEF FrameOK, Frames
  <2> QED BY <1>2, <1>3, <1>4, <1>5, <2>1 DEF FrameOK
<1>6. ASSUME NEW below, NEW d, NEW fr, CalledBy(below, d, fr) PROVE CalledBy(below, d, fr)'
  <2>1. LeavesAt(below)' = LeavesAt(below)
    BY <1>1 DEF LeavesAt
  <2> QED BY <1>1, <1>6, <2>1 DEF CalledBy
<1> QED BY <1>5, <1>6 DEF StackOK
-----------------------------------------------------------------------------
LEMMA ValueStays ==
  ASSUME Accepted, NEW f \in Fns, NEW env, NEW next, NEW w, ValueOK(f, env, w),
         \A p \in Params(f) : next[p] = env[p]
  PROVE  ValueOK(f, next, w)
BY ReturnsPart DEF ValueOK

(* What a local shows is a text of this call or an outer one.              *)
LEMMA SeenText ==
  ASSUME Accepted, NEW f \in Fns, NEW d \in Nat, NEW env, EnvOK(f, d, env), NEW l, l \in Locals(f) \/ l = 0
  PROVE  LET w == Seen(env, d, l)
         IN /\ w \in Text /\ w # Own
            /\ (l # 0 => env[l] # None) => w = Literal \/ \E e, k \in Nat : e < d + 1 /\ w = Ref(e, k)
<1> DEFINE w == Seen(env, d, l)
<1>1. CASE l = 0
  BY <1>1, Texts, LocalKinds DEF Seen, Text
<1>2. CASE l \in Locals(f) /\ env[l] = Own
  <2>1. l \in Nat /\ w = Ref(d, l)
    BY <1>2, LocalKinds DEF Seen
  <2> QED BY <1>2, <2>1, Texts
<1>3. CASE l \in Locals(f) /\ env[l] # Own
  <2>1. w = env[l] /\ w \in Text /\ l # 0
    BY <1>3, LocalKinds DEF Seen, EnvOK, OwnText
  <2>2. ASSUME w # None, w # Literal PROVE \E e, k \in Nat : e < d + 1 /\ w = Ref(e, k)
    <3>1. Refers(w)
      <4>1. w \in Text /\ w \notin {None, Own, Literal}
        BY <1>3, <2>1, <2>2
      <4> HIDE DEF w
      <4>2. \E e, k \in Nat : w = Ref(e, k)
        BY <4>1 DEF Text
      <4> QED BY <4>2, Texts
    <3>2. CASE l \in Params(f)
      BY <2>1, <2>2, <3>2 DEF EnvOK, OuterText
    <3>3. CASE l \in Owners(f)
      BY <2>1, <2>2, <1>3, <3>3 DEF EnvOK, OwnText
    <3>4. CASE l \in Lets(f)
      <4>1. PICK k \in Locals(f) : LeadsTo(f, d, env, w, k)
        BY <2>1, <3>1, <3>4 DEF EnvOK, RootedText
      <4>2. CASE w = Ref(d, k)
        BY <4>2, LocalKinds
      <4>3. CASE k \in Params(f) /\ w = env[k]
        BY <2>2, <4>3 DEF EnvOK, OuterText
      <4> QED BY <4>1, <4>2, <4>3 DEF LeadsTo
    <3> QED BY <3>2, <3>3, <3>4, LocalKinds, <1>3
  <2> QED BY <1>3, <2>1, <2>2
<1> QED BY <1>1, <1>2, <1>3

(* A leaf that is no call gives what `ValueOf` says.                       *)
LEMMA LeafGives ==
  ASSUME Accepted, NEW fr, NEW d \in Nat, FrameOK(fr, d), d = Len(frames),
         NEW v \in Leaves(fr.fn), v.kind # "call"
  PROVE  Gives(fr.fn, d, fr.env, v, ValueOf(fr, v))
<1> DEFINE f == fr.fn
           env == fr.env
           w == ValueOf(fr, v)
<1>1. f \in Fns /\ EnvOK(f, d, env)
  BY DEF FrameOK, Frames
<1>2. v \in Leaf /\ Mentions(v) \subseteq Locals(f) /\ v.kind \in {"local", "lit", "new"}
  <2>1. v \in Leaf /\ Mentions(v) \subseteq Locals(f)
    BY <1>1, BorrowedOfAccepted, LeafShape
  <2> QED BY <2>1 DEF Leaf
<1>3. CASE v.kind = "lit"
  BY <1>3 DEF Gives, ValueOf, Text
<1>4. CASE v.kind = "new"
  BY <1>4 DEF Gives, ValueOf, Text, Own
<1>5. CASE v.kind = "local"
  <2>1. v.of \in Locals(f)
    BY <1>2, <1>5 DEF Mentions
  <2>2. w = IF v.of \in Free(f, borrowed[f]) THEN env[v.of] ELSE Seen(env, d, v.of)
    BY <1>5, ReadSees DEF ValueOf
  <2>3. env[v.of] \in Text /\ Seen(env, d, v.of) \in Text
    BY <1>1, <2>1, SeenText DEF EnvOK, OwnText
  <2> QED BY <1>5, <2>2, <2>3 DEF Gives
<1> QED BY <1>2, <1>3, <1>4, <1>5
-----------------------------------------------------------------------------
(* The inductive invariant: what is classified is rightly so, a program    *)
(* that runs is accepted, and its calls hold what they may.                *)
BorrowInv == WellFormed /\ Classified /\ (frames = << >> \/ Accepted) /\ Stack
Static == UNCHANGED Found /\ owned' = owned

LEMMA StaticKeeps ==
  ASSUME BorrowInv, Accepted, Static, NEW t, frames' = t, StackOK(t) PROVE BorrowInv'
<1>1. UNCHANGED Found /\ owned' = owned
  BY DEF Static
<1>2. WellFormed' /\ Classified'
  BY <1>1, StillWellFormed, StillClassified DEF BorrowInv, Found
<1>3. Accepted'
  BY <1>1, StillAccepted DEF Accepted
<1>4. StackOK(t)'
  BY <1>1, StillStack DEF BorrowInv
<1>5. Stack'
  BY <1>4 DEF Stack
<1> QED BY <1>2, <1>3, <1>5 DEF BorrowInv

(* The innermost call: where it stands, and what a change of it keeps.     *)
LEMMA TopOK ==
  ASSUME BorrowInv, frames # << >>
  PROVE  /\ Accepted /\ StackOK(frames) /\ frames \in Seq(Frames)
         /\ Len(frames) \in Nat /\ Len(frames) > 0 /\ TopFrame = frames[Len(frames)]
         /\ FrameOK(TopFrame, Len(frames)) /\ TopFrame \in Frames /\ TopFrame.fn \in Fns
         /\ EnvOK(TopFrame.fn, Len(frames), TopFrame.env)
         /\ ValueOK(TopFrame.fn, TopFrame.env, TopFrame.value)
<1>1. Accepted /\ StackOK(frames)
  BY DEF BorrowInv, Stack
<1>2. frames \in Seq(Frames)
  BY <1>1, StackIsSeq
<1>3. Len(frames) \in Nat /\ Len(frames) > 0
  BY <1>2
<1>4. FrameOK(frames[Len(frames)], Len(frames))
  BY <1>1, <1>3 DEF StackOK
<1> QED BY <1>1, <1>2, <1>3, <1>4 DEF TopFrame, FrameOK, Frames

LEMMA TopChanges ==
  ASSUME BorrowInv, frames # << >>, Static, NEW fr, fr \in Frames, frames' = SetTop(fr),
         fr.fn = TopFrame.fn, EnvOK(fr.fn, Len(frames), fr.env), ValueOK(fr.fn, fr.env, fr.value),
         \A p \in Params(fr.fn) : fr.env[p] = TopFrame.env[p]
  PROVE  BorrowInv'
<1> DEFINE n == Len(frames)
           t == SetTop(fr)
<1>1. Accepted /\ StackOK(frames) /\ frames \in Seq(Frames) /\ n \in Nat /\ n > 0 /\ TopFrame = frames[n]
  BY TopOK
<1>2. t \in Seq(Frames) /\ Len(t) = n /\ t[n] = fr /\ \A d \in 1 .. n - 1 : t[d] = frames[d]
  BY <1>1 DEF SetTop
<1>3. n \in 1 .. Len(frames)
  BY <1>1
<1> HIDE DEF t, n
<1>4. FrameOK(t[n], n)
  BY <1>2 DEF FrameOK, n
<1>5. StackOK(t)
  BY <1>1, <1>2, <1>3, <1>4, StackChanges
<1> QED BY <1>1, <1>5, StaticKeeps DEF t

(* A call by its parts, and a call some of whose parts are changed.        *)
Call(fn, pc, rounds, value, env) == [fn |-> fn, pc |-> pc, rounds |-> rounds, value |-> value, env |-> env]
Put(env, l, w) == [env EXCEPT ![l] = w]
WithPc(fr, pc) == [fr EXCEPT !.pc = pc]
WithText(fr, pc, l, w) == [fr EXCEPT !.pc = pc, !.env[l] = w]
WithEnv(fr, pc, env) == [fr EXCEPT !.pc = pc, !.env = env]
WithValue(fr, pc, value) == [fr EXCEPT !.pc = pc, !.value = value]
WithRound(fr, pc, rounds, env) == [[fr EXCEPT !.env = env] EXCEPT !.pc = pc, !.rounds = rounds]
WithLast(fr, pc, env) == [[fr EXCEPT !.env = env] EXCEPT !.pc = pc]

LEMMA Changed ==
  ASSUME NEW fr \in Frames, NEW pc, NEW rounds, NEW value, NEW env, NEW l, NEW w
  PROVE  /\ WithPc(fr, pc) = Call(fr.fn, pc, fr.rounds, fr.value, fr.env)
         /\ WithText(fr, pc, l, w) = Call(fr.fn, pc, fr.rounds, fr.value, Put(fr.env, l, w))
         /\ WithEnv(fr, pc, env) = Call(fr.fn, pc, fr.rounds, fr.value, env)
         /\ WithValue(fr, pc, value) = Call(fr.fn, pc, fr.rounds, value, fr.env)
         /\ WithRound(fr, pc, rounds, env) = Call(fr.fn, pc, rounds, fr.value, env)
         /\ WithLast(fr, pc, env) = Call(fr.fn, pc, fr.rounds, fr.value, env)
<1>1. fr = Call(fr.fn, fr.pc, fr.rounds, fr.value, fr.env)
  BY DEF Frames, Call
<1>2. PICK a, b, c, d, e : fr = Call(a, b, c, d, e) /\ fr.fn = a /\ fr.pc = b /\ fr.rounds = c /\ fr.value = d /\ fr.env = e
  BY <1>1
<1>3. [Call(a, b, c, d, e) EXCEPT !.pc = pc] = Call(a, pc, c, d, e)
  BY DEF Call
<1>4. [Call(a, pc, c, d, e) EXCEPT !.env = env] = Call(a, pc, c, d, env)
  BY DEF Call
<1>5. [Call(a, pc, c, d, e) EXCEPT !.value = value] = Call(a, pc, c, value, e)
  BY DEF Call
<1>6. [Call(a, pc, c, d, e) EXCEPT !.env[l] = w] = Call(a, pc, c, d, [e EXCEPT ![l] = w])
  BY DEF Call
<1>7. [Call(a, b, c, d, e) EXCEPT !.env = env] = Call(a, b, c, d, env)
  BY DEF Call
<1>8. [Call(a, b, c, d, env) EXCEPT !.pc = pc] = Call(a, pc, c, d, env)
  BY DEF Call
<1>9. [Call(a, pc, c, d, env) EXCEPT !.rounds = rounds] = Call(a, pc, rounds, d, env)
  BY DEF Call
<1>10. WithPc(fr, pc) = Call(fr.fn, pc, fr.rounds, fr.value, fr.env)
  BY <1>2, <1>3 DEF WithPc
<1>11. WithText(fr, pc, l, w) = Call(fr.fn, pc, fr.rounds, fr.value, Put(fr.env, l, w))
  BY <1>2, <1>3, <1>6 DEF WithText, Put
<1>12. WithEnv(fr, pc, env) = Call(fr.fn, pc, fr.rounds, fr.value, env)
  BY <1>2, <1>3, <1>4 DEF WithEnv
<1>13. WithValue(fr, pc, value) = Call(fr.fn, pc, fr.rounds, value, fr.env)
  BY <1>2, <1>3, <1>5 DEF WithValue
<1>14. WithRound(fr, pc, rounds, env) = Call(fr.fn, pc, rounds, fr.value, env)
  BY <1>2, <1>7, <1>8, <1>9 DEF WithRound
<1>15. WithLast(fr, pc, env) = Call(fr.fn, pc, fr.rounds, fr.value, env)
  BY <1>2, <1>7, <1>8 DEF WithLast
<1> QED BY <1>10, <1>11, <1>12, <1>13, <1>14, <1>15

LEMMA CallParts ==
  ASSUME NEW fn, NEW pc, NEW rounds, NEW value, NEW env
  PROVE  LET fr == Call(fn, pc, rounds, value, env)
         IN /\ fr.fn = fn /\ fr.pc = pc /\ fr.rounds = rounds /\ fr.value = value /\ fr.env = env
            /\ fn \in Fns /\ pc \in Int /\ rounds \in Int /\ value \in Text /\ env \in Envs => fr \in Frames
BY DEF Call, Frames

LEMMA TopCall ==
  ASSUME BorrowInv, frames # << >>, Static, NEW pc \in Int, NEW rounds \in Int, NEW value, NEW env,
         LET f == TopFrame.fn
         IN /\ frames' = SetTop(Call(f, pc, rounds, value, env))
            /\ EnvOK(f, Len(frames), env) /\ ValueOK(f, env, value)
            /\ \A p \in Params(f) : env[p] = TopFrame.env[p]
  PROVE  BorrowInv'
<1> DEFINE f == TopFrame.fn
           fr == Call(f, pc, rounds, value, env)
<1>1. f \in Fns
  BY TopOK
<1>2. env \in Envs /\ value \in Text
  BY <1>1 DEF EnvOK, OwnText, ValueOK, Envs
<1>3. fr \in Frames /\ fr.fn = f /\ fr.value = value /\ fr.env = env
  BY <1>1, <1>2, CallParts
<1> HIDE DEF fr
<1> QED BY <1>3, TopChanges DEF fr

LEMMA TopParts ==
  ASSUME BorrowInv, frames # << >>
  PROVE  /\ TopFrame.pc \in Int /\ TopFrame.rounds \in Int
         /\ TopFrame.env \in [Locals(TopFrame.fn) -> Text]
<1>1. TopFrame \in Frames /\ EnvOK(TopFrame.fn, Len(frames), TopFrame.env)
  BY TopOK
<1> QED BY <1>1 DEF Frames, EnvOK, OwnText

LEMMA DeclareStep ==
  ASSUME BorrowInv, Declare PROVE BorrowInv'
<1> DEFINE f == TopFrame.fn
           l == Stmt.local
           env == Put(TopFrame.env, l, Own)
<1>1. /\ Running /\ Stmt.op = "own" /\ Static
      /\ frames' = SetTop(WithText(TopFrame, TopFrame.pc + 1, l, Own))
  BY DEF Declare, Static, Found, Own, WithText
<1>2. frames # << >> /\ Stmt = Stmts(f)[TopFrame.pc] /\ TopFrame.pc \in DOMAIN Stmts(f)
  BY <1>1 DEF Running, Stmt
<1>3. l \in Owners(f)
  BY <1>1, <1>2 DEF Owners, Declared
<1>4. /\ Accepted /\ TopFrame \in Frames /\ f \in Fns /\ Len(frames) \in Nat
      /\ EnvOK(f, Len(frames), TopFrame.env) /\ ValueOK(f, TopFrame.env, TopFrame.value)
      /\ TopFrame.pc \in Int /\ TopFrame.rounds \in Int /\ TopFrame.env \in [Locals(f) -> Text]
  BY <1>2, TopOK, TopParts
<1>5. frames' = SetTop(Call(f, TopFrame.pc + 1, TopFrame.rounds, TopFrame.value, env))
  BY <1>1, <1>4, Changed
<1>6. EnvOK(f, Len(frames), env)
  BY <1>3, <1>4, DeclareKeeps DEF Put
<1>7. \A p \in Params(f) : env[p] = TopFrame.env[p]
  BY <1>3, <1>4, LocalKinds DEF Put
<1>8. ValueOK(f, env, TopFrame.value)
  <2> HIDE DEF env
  <2> QED BY <1>4, <1>7, ValueStays
<1>9. TopFrame.pc + 1 \in Int
  BY <1>4
<1> HIDE DEF env
<1> QED BY <1>1, <1>2, <1>4, <1>5, <1>6, <1>7, <1>8, <1>9, TopCall

(* The statement the innermost call is at.                                 *)
LEMMA AtStatement ==
  ASSUME BorrowInv, Running
  PROVE  LET f == TopFrame.fn
         IN /\ frames # << >> /\ TopFrame.pc \in DOMAIN Stmts(f) /\ Stmt = Stmts(f)[TopFrame.pc]
            /\ Accepted /\ WellFormed /\ TopFrame \in Frames /\ f \in Fns /\ Len(frames) \in Nat
            /\ FrameOK(TopFrame, Len(frames))
            /\ EnvOK(f, Len(frames), TopFrame.env) /\ ValueOK(f, TopFrame.env, TopFrame.value)
            /\ TopFrame.pc \in Int /\ TopFrame.rounds \in Int /\ TopFrame.pc + 1 \in Int
            /\ TopFrame.env \in [Locals(f) -> Text]
<1>1. frames # << >> /\ TopFrame.pc \in DOMAIN Stmts(TopFrame.fn) /\ Stmt = Stmts(TopFrame.fn)[TopFrame.pc]
  BY DEF Running, Stmt
<1>2. TopFrame.pc \in Int /\ TopFrame.rounds \in Int /\ TopFrame.env \in [Locals(TopFrame.fn) -> Text]
  BY <1>1, TopParts
<1>3. TopFrame.pc + 1 \in Int
  BY <1>2
<1> QED BY <1>1, <1>2, <1>3, TopOK DEF Accepted

LEMMA AssignStep ==
  ASSUME BorrowInv, Assign PROVE BorrowInv'
<1> DEFINE f == TopFrame.fn
           n == Len(frames)
           i == TopFrame.pc
           l == Stmt.local
           old == TopFrame.env
<1>1. PICK v \in Elements(Stmt.value) :
        /\ v.kind # "call"
        /\ frames' = SetTop(WithEnv(TopFrame, i + 1, Put(Moved(TopFrame, v), l, Stored(f, l, ValueOf(TopFrame, v)))))
  BY DEF Assign, WithEnv, Put
<1>2. Running /\ Stmt.op # "own" /\ Static
  BY DEF Assign, Static, Found
<1>3. /\ frames # << >> /\ i \in DOMAIN Stmts(f) /\ Stmt = Stmts(f)[i]
      /\ Accepted /\ WellFormed /\ TopFrame \in Frames /\ f \in Fns /\ n \in Nat /\ FrameOK(TopFrame, n)
      /\ EnvOK(f, n, old) /\ ValueOK(f, old, TopFrame.value)
      /\ i \in Int /\ TopFrame.rounds \in Int /\ i + 1 \in Int /\ old \in [Locals(f) -> Text]
  BY <1>2, AtStatement
<1> DEFINE w == ValueOf(TopFrame, v)
           moved == IF v.kind = "local" /\ v.of \in Free(f, borrowed[f]) /\ old[v.of] = Own
                    THEN {v.of} \cap Free(f, borrowed[f]) ELSE {}
           next == Assigned(f, l, w, moved, old)
           env == Put(Moved(TopFrame, v), l, Stored(f, l, w))
<1>4. v \in Leaves(f) /\ l \in Lets(f)
  BY <1>2, <1>3, LeafShape, GivenAt
<1>5. Gives(f, n, old, v, w)
  BY <1>1, <1>3, <1>4, LeafGives
<1>6. env = next
  <2>1. l \in Locals(f) /\ Free(f, borrowed[f]) \subseteq Locals(f)
    BY <1>3, <1>4, LocalKinds
  <2>2. CASE v.kind = "local" /\ v.of \in Free(f, borrowed[f]) /\ old[v.of] = Own
    <3>1. Moved(TopFrame, v) = [old EXCEPT ![v.of] = None] /\ moved = {v.of}
      BY <2>2 DEF Moved, Own
    <3> HIDE DEF moved, w
    <3> QED BY <1>3, <2>1, <2>2, <3>1 DEF Put, Assigned
  <2>3. CASE ~(v.kind = "local" /\ v.of \in Free(f, borrowed[f]) /\ old[v.of] = Own)
    <3>1. Moved(TopFrame, v) = old /\ moved = {}
      BY <2>3 DEF Moved, Own
    <3> HIDE DEF moved, w
    <3> QED BY <1>3, <2>1, <3>1 DEF Put, Assigned
  <2> QED BY <2>2, <2>3
<1>7. moved = {} \/ moved = {v.of} \cap Free(f, borrowed[f])
  OBVIOUS
<1>8. EnvOK(f, n, next)
  <2>1. v \in Elements(Stmts(f)[i].value) /\ Stmts(f)[i].op # "own" /\ l = Stmts(f)[i].local
    BY <1>2, <1>3
  <2> HIDE DEF moved, w
  <2>2. EnvOK(f, n, Assigned(f, Stmts(f)[i].local, w, moved, old))
    BY <1>3, <1>5, <1>7, <2>1, AssignKeeps
  <2> QED BY <2>1, <2>2
<1>9. \A p \in Params(f) : next[p] = old[p]
  <2>1. \A p \in Params(f) : p \in Locals(f) /\ p # l /\ p \notin Free(f, borrowed[f])
    BY <1>3, <1>4, LocalKinds
  <2>2. moved \subseteq Free(f, borrowed[f])
    BY <1>7
  <2> HIDE DEF moved, w
  <2> QED BY <2>1, <2>2 DEF Assigned
<1> HIDE DEF next, moved
<1>10. frames' = SetTop(Call(f, i + 1, TopFrame.rounds, TopFrame.value, next))
  <2>1. frames' = SetTop(WithEnv(TopFrame, i + 1, next))
    BY <1>1, <1>6
  <2> QED BY <1>3, <2>1, Changed
<1>11. ValueOK(f, next, TopFrame.value)
  BY <1>3, <1>9, ValueStays
<1> QED BY <1>2, <1>3, <1>8, <1>9, <1>10, <1>11, TopCall

LEMMA SkipStep ==
  ASSUME BorrowInv, Skip PROVE BorrowInv'
<1> DEFINE f == TopFrame.fn
<1>1. Running /\ Static /\ frames' = SetTop(WithPc(TopFrame, TopFrame.pc + 1))
  BY DEF Skip, Static, Found, WithPc
<1>2. /\ frames # << >> /\ TopFrame \in Frames
      /\ EnvOK(f, Len(frames), TopFrame.env) /\ ValueOK(f, TopFrame.env, TopFrame.value)
      /\ TopFrame.pc + 1 \in Int /\ TopFrame.rounds \in Int
  BY <1>1, AtStatement
<1>3. frames' = SetTop(Call(f, TopFrame.pc + 1, TopFrame.rounds, TopFrame.value, TopFrame.env))
  BY <1>1, <1>2, Changed
<1> QED BY <1>1, <1>2, <1>3, TopCall

LEMMA LoopAgainStep ==
  ASSUME BorrowInv, LoopAgain PROVE BorrowInv'
<1> DEFINE f == TopFrame.fn
           env == [l \in Locals(f) |-> IF l \in InLoop(f) THEN None ELSE TopFrame.env[l]]
           start == Len(program[f].pre) + 1
<1>1. /\ frames # << >> /\ Static
      /\ \/ frames' = SetTop(WithLast(TopFrame, TopFrame.pc + 1, env))
         \/ frames' = SetTop(WithRound(TopFrame, start, TopFrame.rounds + 1, env))
  <2>1. frames # << >> /\ Static
    BY DEF LoopAgain, Static, Found
  <2>2. TopFrame \in Frames
    BY <2>1, TopOK
  <2>3. LET over == [TopFrame EXCEPT !.env = env]
        IN /\ frames' = SetTop([over EXCEPT !.pc = over.pc + 1])
              \/ frames' = SetTop([over EXCEPT !.pc = start, !.rounds = over.rounds + 1])
           /\ over.pc = TopFrame.pc /\ over.rounds = TopFrame.rounds
    <3>1. [TopFrame EXCEPT !.env = env].pc = TopFrame.pc /\ [TopFrame EXCEPT !.env = env].rounds = TopFrame.rounds
      BY <2>2 DEF Frames
    <3> QED BY <3>1 DEF LoopAgain
  <2> QED BY <2>1, <2>3 DEF WithLast, WithRound
<1>2. /\ Accepted /\ TopFrame \in Frames /\ f \in Fns /\ Len(frames) \in Nat
      /\ EnvOK(f, Len(frames), TopFrame.env) /\ ValueOK(f, TopFrame.env, TopFrame.value)
      /\ TopFrame.pc \in Int /\ TopFrame.rounds \in Int
  BY <1>1, TopOK, TopParts
<1>3. EnvOK(f, Len(frames), env)
  BY <1>2, RoundKeeps
<1>4. \A p \in Params(f) : env[p] = TopFrame.env[p]
  BY <1>2, LocalKinds
<1>5. start \in Int /\ TopFrame.pc + 1 \in Int /\ TopFrame.rounds + 1 \in Int
  <2>1. program[f].pre \in Seq(Statement)
    BY <1>2, Shape DEF Accepted
  <2> QED BY <1>2, <2>1
<1> HIDE DEF env, start
<1>6. ValueOK(f, env, TopFrame.value)
  BY <1>2, <1>4, ValueStays
<1>7. \/ frames' = SetTop(Call(f, TopFrame.pc + 1, TopFrame.rounds, TopFrame.value, env))
      \/ frames' = SetTop(Call(f, start, TopFrame.rounds + 1, TopFrame.value, env))
  <2>1. WithLast(TopFrame, TopFrame.pc + 1, env) = Call(f, TopFrame.pc + 1, TopFrame.rounds, TopFrame.value, env)
    BY <1>2, Changed
  <2>2. WithRound(TopFrame, start, TopFrame.rounds + 1, env) = Call(f, start, TopFrame.rounds + 1, TopFrame.value, env)
    BY <1>2, Changed
  <2> QED BY <1>1, <2>1, <2>2
<1>8. CASE frames' = SetTop(Call(f, TopFrame.pc + 1, TopFrame.rounds, TopFrame.value, env))
  BY <1>1, <1>2, <1>3, <1>4, <1>5, <1>6, <1>8, TopCall
<1>9. CASE frames' = SetTop(Call(f, start, TopFrame.rounds + 1, TopFrame.value, env))
  BY <1>1, <1>2, <1>3, <1>4, <1>5, <1>6, <1>9, TopCall
<1> QED BY <1>7, <1>8, <1>9

LEMMA ReturnValueStep ==
  ASSUME BorrowInv, ReturnValue PROVE BorrowInv'
<1> DEFINE f == TopFrame.fn
           n == Len(frames)
<1>1. PICK v \in Elements(program[f].ret) :
        v.kind # "call" /\ frames' = SetTop(WithValue(TopFrame, TopFrame.pc + 1, ValueOf(TopFrame, v)))
  BY DEF ReturnValue, WithValue
<1>2. frames # << >> /\ Static
  BY DEF ReturnValue, AtTail, Static, Found
<1>3. /\ Accepted /\ TopFrame \in Frames /\ f \in Fns /\ n \in Nat /\ FrameOK(TopFrame, n)
      /\ EnvOK(f, n, TopFrame.env) /\ TopFrame.pc \in Int /\ TopFrame.rounds \in Int
  BY <1>2, TopOK, TopParts
<1>4. v \in Leaves(f)
  BY DEF Leaves
<1>5. Gives(f, n, TopFrame.env, v, ValueOf(TopFrame, v))
  BY <1>1, <1>3, <1>4, LeafGives
<1>6. ValueOK(f, TopFrame.env, ValueOf(TopFrame, v))
  BY <1>3, <1>5, ReturnKeeps
<1>7. frames' = SetTop(Call(f, TopFrame.pc + 1, TopFrame.rounds, ValueOf(TopFrame, v), TopFrame.env))
  BY <1>1, <1>3, Changed
<1>8. TopFrame.pc + 1 \in Int
  BY <1>3
<1> QED BY <1>2, <1>3, <1>6, <1>7, <1>8, TopCall

LEMMA CallOutStep ==
  ASSUME BorrowInv, CallOut PROVE BorrowInv'
<1> DEFINE f == TopFrame.fn
           n == Len(frames)
           old == TopFrame.env
<1>1. PICK v \in LeavesAt(TopFrame) :
        /\ v.kind = "call" /\ Usable(TopFrame, v)
        /\ frames' = Append(frames, Frame(v.of, [i \in DOMAIN v.args |-> Read(TopFrame, n, v.args[i])]))
  BY DEF CallOut, LeavesAt, Running, AtTail, Stmt
<1>2. frames # << >> /\ Static /\ ((Running /\ Stmt.op # "own") \/ AtTail)
  BY DEF CallOut, Running, AtTail, Static, Found
<1>3. /\ Accepted /\ WellFormed /\ StackOK(frames) /\ f \in Fns /\ n \in Nat /\ n > 0 /\ TopFrame = frames[n]
      /\ EnvOK(f, n, old) /\ old \in [Locals(f) -> Text]
  BY <1>2, TopOK, TopParts DEF Accepted
<1> DEFINE g == v.of
           env == [l \in Locals(g) |-> IF l \in DOMAIN v.args THEN Seen(old, n, v.args[l]) ELSE None]
           fr == Frame(g, [i \in DOMAIN v.args |-> Read(TopFrame, n, v.args[i])])
<1>4. v \in Leaves(f) /\ Mentions(v) \subseteq Locals(f)
  <2>1. v \in Leaves(f)
    BY <1>3, LeafShape DEF LeavesAt
  <2> QED BY <1>3, <2>1, LeafShape
<1>5. g \in Fns /\ v \in Leaf /\ DOMAIN v.args = Params(g) /\ Params(g) \subseteq Locals(g)
  BY <1>1, <1>3, <1>4, RootedByClass, LocalKinds
<1>6. fr = Call(g, 1, 0, None, env)
  <2>1. \A i \in DOMAIN v.args : Read(TopFrame, n, v.args[i]) = Seen(old, n, v.args[i])
    BY ReadSees
  <2> QED BY <2>1 DEF Frame, Call
<1>7. ASSUME NEW p \in Params(g)
      PROVE  /\ env[p] = Seen(old, n, v.args[p]) /\ env[p] \in Text
             /\ env[p] = Literal \/ \E e, k \in Nat : e < n + 1 /\ env[p] = Ref(e, k)
  <2> DEFINE a == v.args[p]
  <2>1. env[p] = Seen(old, n, a)
    BY <1>5
  <2>2. a # 0 => a \in Mentions(v)
    BY <1>1, <1>5 DEF Mentions, Elements
  <2>3. a # 0 => a \in Locals(f) /\ old[a] # None
    BY <1>1, <1>4, <2>2 DEF Usable
  <2> HIDE DEF a, env
  <2>4. /\ Seen(old, n, a) \in Text
        /\ Seen(old, n, a) = Literal \/ \E e, k \in Nat : e < n + 1 /\ Seen(old, n, a) = Ref(e, k)
    BY <1>3, <2>3, SeenText
  <2> QED BY <2>1, <2>4 DEF a
<1>8. \A l \in Locals(g) \ Params(g) : env[l] = None
  BY <1>5
<1>9. env \in [Locals(g) -> Text]
  <2>1. None \in Text
    BY DEF Text
  <2>2. \A l \in Locals(g) : env[l] \in Text
    <3> HIDE DEF env
    <3> QED BY <1>7, <1>8, <2>1
  <2> QED BY <2>2
<1> HIDE DEF env, fr
<1>10. n + 1 \in Nat
  BY <1>3
<1>11. EnvOK(g, n + 1, env)
  BY <1>3, <1>5, <1>7, <1>8, <1>9, <1>10, CallStarts
<1>12. ValueOK(g, env, None)
  BY Texts DEF ValueOK, Text
<1>13. /\ fr \in Frames /\ fr.fn = g /\ fr.env = env /\ fr.value = None
  <2>1. env \in Envs /\ None \in Text
    BY <1>5, <1>9 DEF Envs, Text
  <2> QED BY <1>5, <1>6, <2>1, CallParts
<1>14. FrameOK(fr, n + 1)
  BY <1>11, <1>12, <1>13 DEF FrameOK
<1>15. CalledBy(frames[n], n, fr)
  <2>1. TopFrame.pc \in DOMAIN Stmts(f) => Stmts(f)[TopFrame.pc].op # "own"
    <3>1. Stmts(f) \in Seq(Statement)
      BY <1>3, Shape
    <3>2. AtTail => TopFrame.pc \notin DOMAIN Stmts(f)
      BY <3>1 DEF AtTail
    <3> QED BY <1>2, <3>2 DEF Running, Stmt
  <2> QED BY <1>1, <1>3, <1>7, <1>13, <2>1 DEF CalledBy
<1>16. StackOK(Append(frames, fr))
  BY <1>3, <1>14, <1>15, StackGrows
<1>17. frames' = Append(frames, fr)
  BY <1>1 DEF fr
<1> QED BY <1>2, <1>3, <1>16, <1>17, StaticKeeps

(* What a call returned is given by the leaf that made it.                 *)
Got(fn, value) == IF value = Literal /\ class[fn] = <<"new">> THEN Own ELSE value

LEMMA ReturnGives ==
  ASSUME Accepted, NEW f \in Fns, NEW d, NEW env, NEW v \in Leaves(f), v.kind = "call",
         NEW inner, NEW value, ValueOK(v.of, inner, value),
         \A p \in Params(v.of) : inner[p] = Seen(env, d, v.args[p])
  PROVE  Gives(f, d, env, v, Got(v.of, value))
<1> DEFINE g == v.of
           w == Got(g, value)
<1>1. g \in Fns /\ DOMAIN v.args = Params(g)
  BY RootedByClass
<1>2. w \in Text
  BY DEF ValueOK, Text, Got
<1>3. CASE class[g][1] = "part"
  <2>1. RootedAt(f, v) = class[g][2] /\ class[g][2] \in Params(g) /\ RootedAt(f, v) # 0 /\ class[g] # <<"new">>
    BY <1>3, RootedByClass
  <2>2. w = value /\ w # Own
    BY <2>1 DEF ValueOK, Got
  <2>3. Refers(w) => w = Seen(env, d, v.args[RootedAt(f, v)])
    BY <2>1, <2>2 DEF ValueOK
  <2> HIDE DEF w
  <2>6. Gives(f, d, env, v, w)
    BY <1>2, <2>1, <2>2, <2>3 DEF Gives
  <2> QED BY <2>6 DEF w
<1>4. CASE class[g][1] # "part"
  <2>1. RootedAt(f, v) = 0 /\ class[g] = <<"new">>
    BY <1>4, RootedByClass
  <2>2. ~Refers(value) /\ value \in Text
    BY <1>4 DEF ValueOK
  <2>3. value \in {None, Own, Literal}
    BY <2>2, Texts DEF Text
  <2>4. w \in {None, Own}
    BY <2>1, <2>3 DEF Got
  <2>5. ~Refers(w)
    <3> HIDE DEF w
    <3> QED BY <2>4, Texts
  <2> HIDE DEF w
  <2>6. Gives(f, d, env, v, w)
    BY <1>2, <2>1, <2>4, <2>5 DEF Gives
  <2> QED BY <2>6 DEF w
<1> QED BY <1>3, <1>4

LEMMA ReturnStep ==
  ASSUME BorrowInv, Return PROVE BorrowInv'
<1> DEFINE n == Len(frames)
           top == TopFrame
           below == frames[n - 1]
           f == below.fn
           got == Got(top.fn, top.value)
           next == IF below.pc \in DOMAIN Stmts(f)
                   THEN WithText(below, below.pc + 1, Stmts(f)[below.pc].local, got)
                   ELSE WithValue(below, below.pc + 1, got)
           t == Append(SubSeq(frames, 1, n - 2), next)
<1>1. n > 1 /\ frames # << >> /\ Static /\ frames' = t
  BY DEF Return, Returned, Static, Found, WithText, WithValue, Own, Got
<1>2. /\ Accepted /\ WellFormed /\ StackOK(frames) /\ frames \in Seq(Frames) /\ n \in Nat
      /\ TopFrame = frames[n] /\ FrameOK(top, n)
  BY <1>1, TopOK DEF Accepted
<1>3. n \in 1 .. n /\ n - 1 \in 1 .. n /\ n - 1 \in Nat
  BY <1>1, <1>2
<1>4. FrameOK(below, n - 1) /\ CalledBy(below, n - 1, top)
  BY <1>1, <1>2, <1>3 DEF StackOK
<1> HIDE DEF n, top, below, t
<1>5. /\ below \in Frames /\ f \in Fns /\ EnvOK(f, n - 1, below.env) /\ ValueOK(f, below.env, below.value)
      /\ below.pc \in Int /\ below.rounds \in Int /\ below.env \in [Locals(f) -> Text]
      /\ ValueOK(top.fn, top.env, top.value)
  BY <1>2, <1>4 DEF FrameOK, Frames, EnvOK, OwnText
<1>6. PICK v \in LeavesAt(below) : /\ v.kind = "call" /\ v.of = top.fn
                                   /\ \A p \in Params(top.fn) : top.env[p] = Seen(below.env, n - 1, v.args[p])
  BY <1>4 DEF CalledBy
<1>7. v \in Leaves(f)
  BY <1>2, <1>5, LeafShape DEF LeavesAt
<1>8. Gives(f, n - 1, below.env, v, got)
  BY <1>2, <1>5, <1>6, <1>7, ReturnGives
<1>9. SUFFICES /\ next \in Frames /\ next.fn = f /\ FrameOK(next, n - 1)
               /\ \A p \in Params(f) : next.env[p] = below.env[p]
  <2> HIDE DEF next
  <2>1. t \in Seq(Frames) /\ Len(t) = n - 1 /\ t[n - 1] = next /\ \A d \in 1 .. (n - 1) - 1 : t[d] = frames[d]
    <3> DEFINE m == n - 2
               s == SubSeq(frames, 1, m)
    <3>1. m \in Nat /\ m <= Len(frames) /\ n - 1 = m + 1
      BY <1>1, <1>2 DEF n
    <3>2. s \in Seq(Frames) /\ Len(s) = m /\ \A d \in 1 .. m : s[d] = frames[d]
      <4> HIDE DEF m
      <4> QED BY <1>2, <3>1
    <3>3. t = Append(s, next)
      BY DEF t
    <3> HIDE DEF m, s
    <3>4. Append(s, next) \in Seq(Frames) /\ Len(Append(s, next)) = m + 1 /\ Append(s, next)[m + 1] = next
          /\ \A d \in 1 .. m : Append(s, next)[d] = s[d]
      BY <1>9, <3>1, <3>2
    <3>5. (n - 1) - 1 = m
      BY <1>2, <3>1
    <3> QED BY <3>1, <3>2, <3>3, <3>4, <3>5
  <2>2. StackOK(t)
    BY <1>1, <1>2, <1>3, <1>9, <2>1, StackChanges DEF n, below
  <2> QED BY <1>1, <1>2, <2>2, StaticKeeps
<1>10. below.pc + 1 \in Int
  BY <1>5
<1>11. CASE below.pc \in DOMAIN Stmts(f)
  <2> DEFINE i == below.pc
             l == Stmts(f)[i].local
             env == Put(below.env, l, got)
  <2>1. v \in Elements(Stmts(f)[i].value) /\ Stmts(f)[i].op # "own"
    BY <1>4, <1>11 DEF LeavesAt, CalledBy
  <2>2. l \in Lets(f) /\ v \in Given(f, l)
    BY <1>2, <1>5, <1>11, <2>1, GivenAt
  <2>3. Stored(f, l, got) = got
    <3>1. CASE l \in owned[f]
      <4>1. RootedAt(f, v) = 0
        BY <1>2, <1>5, <2>2, <3>1, KeepsOwn DEF IsBorrowed
      <4>2. got \in {None, Own}
        BY <1>6, <1>8, <4>1 DEF Gives
      <4> QED BY <4>2, Texts DEF Stored
    <3>2. CASE l \notin owned[f]
      BY <3>2 DEF Stored
    <3> QED BY <3>1, <3>2
  <2> HIDE DEF got
  <2>4. env = Assigned(f, l, got, {}, below.env)
    BY <1>5, <2>3 DEF Put, Assigned
  <2>5. EnvOK(f, n - 1, env)
    <3>1. EnvOK(f, n - 1, Assigned(f, Stmts(f)[i].local, got, {}, below.env))
      BY <1>2, <1>3, <1>5, <1>8, <1>11, <2>1, AssignKeeps
    <3> QED BY <2>4, <3>1
  <2>6. \A p \in Params(f) : env[p] = below.env[p]
    BY <1>2, <1>5, <2>2, LocalKinds DEF Put
  <2> HIDE DEF env
  <2>7. ValueOK(f, env, below.value)
    BY <1>2, <1>5, <2>6, ValueStays
  <2>8. next = Call(f, below.pc + 1, below.rounds, below.value, env)
    BY <1>5, <1>11, Changed DEF env
  <2>9. env \in Envs /\ below.value \in Text
    BY <1>5, <2>5, <2>7 DEF EnvOK, OwnText, ValueOK, Envs
  <2>10. next \in Frames /\ next.fn = f /\ next.env = env /\ next.value = below.value
    BY <1>5, <1>10, <2>8, <2>9, CallParts
  <2> HIDE DEF next
  <2> QED BY <2>5, <2>6, <2>7, <2>10 DEF FrameOK
<1>12. CASE below.pc \notin DOMAIN Stmts(f)
  <2>1. v \in Elements(program[f].ret)
    BY <1>12 DEF LeavesAt
  <2> HIDE DEF got
  <2>2. ValueOK(f, below.env, got)
    BY <1>2, <1>3, <1>5, <1>8, <2>1, ReturnKeeps
  <2>3. next = Call(f, below.pc + 1, below.rounds, got, below.env)
    BY <1>5, <1>12, Changed
  <2>4. below.env \in Envs /\ got \in Text
    BY <1>5, <2>2 DEF ValueOK, Envs
  <2>5. next \in Frames /\ next.fn = f /\ next.env = below.env /\ next.value = got
    BY <1>5, <1>10, <2>3, <2>4, CallParts
  <2> HIDE DEF next
  <2> QED BY <1>5, <2>2, <2>5 DEF FrameOK
<1> QED BY <1>11, <1>12
-----------------------------------------------------------------------------
(* The first call, from outside: its arguments refer to what is there.     *)
Starts ==
  Accepted => \A f \in Fns : \A env \in [Locals(f) -> Text] :
    (\A p \in Params(f) : env[p] = Ref(0, p)) /\ (\A l \in Locals(f) \ Params(f) : env[l] = None) =>
      \A s : s = <<Call(f, 1, 0, None, env)>> => StackOK(s)

LEMMA StartsRight == Starts
<1> SUFFICES ASSUME Accepted, NEW f \in Fns, NEW env \in [Locals(f) -> Text],
                    \A p \in Params(f) : env[p] = Ref(0, p), \A l \in Locals(f) \ Params(f) : env[l] = None
             PROVE  StackOK(<<Call(f, 1, 0, None, env)>>)
  BY DEF Starts
<1> DEFINE fr == Call(f, 1, 0, None, env)
<1>1. EnvOK(f, 1, env)
  <2>1. \A p \in Params(f) : env[p] = Literal \/ \E e, k \in Nat : e < 1 /\ env[p] = Ref(e, k)
    <3> SUFFICES ASSUME NEW p \in Params(f) PROVE \E e, k \in Nat : e < 1 /\ env[p] = Ref(e, k)
      OBVIOUS
    <3>1. p \in Nat
      BY LocalKinds
    <3> QED BY <3>1
  <2> QED BY <2>1, CallStarts
<1>2. ValueOK(f, env, None)
  BY Texts DEF ValueOK, Text
<1>3. None \in Text /\ env \in Envs /\ 1 \in Int /\ 0 \in Int
  BY DEF Text, Envs
<1>4. fr \in Frames /\ fr.fn = f /\ fr.env = env /\ fr.value = None
  BY <1>3, CallParts
<1> HIDE DEF fr
<1>5. FrameOK(fr, 1)
  BY <1>1, <1>2, <1>4 DEF FrameOK
<1>6. <<fr>> \in Seq(Frames) /\ Len(<<fr>>) = 1 /\ <<fr>>[1] = fr /\ DOMAIN <<fr>> = 1 .. 1
  BY <1>4
<1>7. <<fr>> = [d \in 1 .. 1 |-> <<fr>>[d]]
  BY <1>6
<1>8. StackOK(<<fr>>)
  BY <1>5, <1>6, <1>7 DEF StackOK
<1> QED BY <1>8 DEF fr

LEMMA BeginStep ==
  ASSUME BorrowInv, Begin PROVE BorrowInv'
<1>1. NoneRefused /\ UNCHANGED Found /\ owned' = [f \in Fns |-> Owned(f)]
  BY DEF Begin, Found
<1>2. WellFormed /\ Classified
  BY DEF BorrowInv
<1>3. \A f \in Fns : Analysed(f)
  BY <1>1, <1>2 DEF NoneRefused, Classified, Known
<1>4. Accepted'
  BY <1>1, <1>2, <1>3, StillAccepted
<1>5. Classified' /\ WellFormed'
  BY <1>1, <1>2, StillClassified, StillWellFormed DEF Found
<1>6. PICK f \in Fns : frames' = <<Frame(f, [p \in Params(f) |-> Ref(0, p)])>>
  BY DEF Begin, Ref
<1> DEFINE env == [l \in Locals(f) |-> IF l \in Params(f) THEN Ref(0, l) ELSE None]
<1>7. Frame(f, [p \in Params(f) |-> Ref(0, p)]) = Call(f, 1, 0, None, env)
  BY DEF Frame, Call
<1>8. /\ env \in [Locals(f) -> Text]
      /\ \A p \in Params(f) : env[p] = Ref(0, p)
      /\ \A l \in Locals(f) \ Params(f) : env[l] = None
  <2>1. None \in Text /\ 0 \in Nat /\ Params(f) \subseteq Locals(f) /\ Params(f) \subseteq Nat
    <3>1. Params(f) \subseteq Locals(f) /\ Locals(f) \subseteq Nat
      BY <1>2, LocalsFinite
    <3> QED BY <3>1 DEF Text
  <2>2. \A p \in Params(f) : Ref(0, p) \in Text
    BY <2>1, Texts
  <2> QED BY <2>1, <2>2
<1> HIDE DEF env
<1>9. Starts'
  BY StartsRight, PTL
<1>10. Fns' = Fns /\ Locals(f)' = Locals(f) /\ Params(f)' = Params(f)
  BY <1>1, SameProgram DEF Found
<1>11. PICK e, s : e = env /\ s = <<Call(f, 1, 0, None, e)>>
  OBVIOUS
<1>12. Stack'
  <2>1. StackOK(s)'
    BY <1>4, <1>8, <1>9, <1>10, <1>11 DEF Starts
  <2>2. frames' = s
    BY <1>6, <1>7, <1>11
  <2> QED BY <2>1, <2>2 DEF Stack
<1> QED BY <1>4, <1>5, <1>12 DEF BorrowInv

(* No function is classified while a program runs.                         *)
LEMMA ClassifyStep ==
  ASSUME BorrowInv, NEW f \in Fns, Classify(f) PROVE BorrowInv'
<1>1. WellFormed /\ Classified /\ program' = program /\ frames' = frames /\ class[f] = <<"unknown">>
  BY DEF BorrowInv, Classify
<1>2. frames = << >>
  BY <1>1 DEF BorrowInv, Accepted, NoneRefused
<1>3. WellFormed' /\ Classified'
  BY <1>1, ClassifyKeeps, StillWellFormed
<1>4. Stack'
  <2>1. StackOK(<< >>)'
    BY DEF StackOK
  <2> QED BY <1>1, <1>2, <2>1 DEF Stack
<1> QED BY <1>1, <1>2, <1>3, <1>4 DEF BorrowInv

LEMMA IdleStep ==
  ASSUME BorrowInv, UNCHANGED bvars PROVE BorrowInv'
<1>1. UNCHANGED Found /\ owned' = owned /\ frames' = frames /\ WellFormed /\ Classified
  BY DEF bvars, Found, BorrowInv
<1>2. WellFormed' /\ Classified'
  BY <1>1, StillWellFormed, StillClassified DEF Found
<1>3. Accepted => Accepted'
  BY <1>1, StillAccepted DEF Accepted
<1>4. PICK s : frames = s /\ StackOK(s)
  BY DEF BorrowInv, Stack
<1>5. Stack'
  <2>1. StackOK(frames)'
    <3>1. StackOK(s)'
      BY <1>1, <1>4, StillStack
    <3> QED BY <1>1, <1>4, <3>1
  <2> QED BY <2>1 DEF Stack
<1> QED BY <1>1, <1>2, <1>3, <1>5 DEF BorrowInv

LEMMA BorrowStep ==
  ASSUME BorrowInv, [BorrowNext]_bvars PROVE BorrowInv'
<1>1. CASE \E f \in Fns : Classify(f)
  BY <1>1, ClassifyStep
<1>2. CASE Begin
  BY <1>2, BeginStep
<1>3. CASE Declare
  BY <1>3, DeclareStep
<1>4. CASE Assign
  BY <1>4, AssignStep
<1>5. CASE Skip
  BY <1>5, SkipStep
<1>6. CASE LoopAgain
  BY <1>6, LoopAgainStep
<1>7. CASE ReturnValue
  BY <1>7, ReturnValueStep
<1>8. CASE CallOut
  BY <1>8, CallOutStep
<1>9. CASE Return
  BY <1>9, ReturnStep
<1>10. CASE UNCHANGED bvars
  BY <1>10, IdleStep
<1> QED BY <1>1, <1>2, <1>3, <1>4, <1>5, <1>6, <1>7, <1>8, <1>9, <1>10 DEF BorrowNext

LEMMA BorrowInit ==
  ASSUME WellFormed, BorrowStart(program) PROVE BorrowInv
<1>1. frames = << >> /\ class = [f \in Fns |-> <<"unknown">>]
  BY DEF BorrowStart, Fns
<1>2. Classified
  BY <1>1 DEF Classified, Known
<1>3. Stack
  <2>1. StackOK(<< >>)
    BY DEF StackOK
  <2> QED BY <1>1, <2>1 DEF Stack
<1> QED BY <1>1, <1>2, <1>3 DEF BorrowInv
-----------------------------------------------------------------------------
(* What the invariant says of each call that runs is what is claimed.      *)
LEMMA HeldRooted ==
  ASSUME BorrowInv PROVE RefersToItsRoots
<1> SUFFICES ASSUME NEW d \in DOMAIN frames
             PROVE  LET fr == frames[d]
                        f == fr.fn
                        held == {l \in Locals(f) \ Params(f) : Refers(fr.env[l])}
                    IN /\ \A l \in held : \E r \in Of(roots[f], l) : Read(fr, d, r) = fr.env[l] \/ fr.env[l] = <<"ref", <<d, r>>>>
                       /\ fr.pc > Len(Stmts(f)) + 1 =>
                            \A l \in held \ InLoop(f) : \A k \in InLoop(f) : fr.env[l] # <<"ref", <<d, k>>>>
                       /\ Refers(fr.value) => class[f][1] = "part" /\ fr.value = fr.env[class[f][2]]
  BY DEF RefersToItsRoots
<1> DEFINE fr == frames[d]
           f == fr.fn
           env == fr.env
           held == {l \in Locals(f) \ Params(f) : Refers(env[l])}
<1>1. StackOK(frames)
  BY DEF BorrowInv, Stack
<1>2. d \in 1 .. Len(frames) /\ Len(frames) \in Nat
  BY <1>1 DEF StackOK
<1>3. d \in Nat /\ FrameOK(fr, d)
  BY <1>1, <1>2 DEF StackOK
<1>4. frames # << >>
  BY <1>2
<1>5. Accepted /\ f \in Fns /\ EnvOK(f, d, env) /\ ValueOK(f, env, fr.value)
  BY <1>3, <1>4 DEF BorrowInv, FrameOK, Frames
<1>6. ASSUME NEW l \in held PROVE \E r \in Of(roots[f], l) : Read(fr, d, r) = env[l] \/ env[l] = Ref(d, r)
  <2>1. l \in Lets(f)
    <3>1. l \notin Owners(f)
      <4> SUFFICES ASSUME l \in Owners(f) PROVE FALSE
        OBVIOUS
      <4>1. env[l] \in {None, Own} /\ Refers(env[l])
        BY <1>5 DEF EnvOK, OwnText
      <4> QED BY <4>1, Texts
    <3> QED BY <1>5, <3>1, LocalKinds
  <2>2. PICK k \in Locals(f) : <<l, k>> \in roots[f] /\ LeadsTo(f, d, env, env[l], k)
    BY <1>5, <2>1 DEF EnvOK, RootedText
  <2>3. k \in Of(roots[f], l)
    BY <2>2 DEF Of
  <2>4. ASSUME k \in Params(f), env[l] = env[k] PROVE Read(fr, d, k) = env[l]
    <3>1. k # 0
      BY <1>5, <2>2, LocalKinds
    <3>2. env[k] # Own
      <4>1. Refers(env[k])
        BY <2>4
      <4> QED BY <4>1, Texts
    <3> QED BY <2>4, <3>1, <3>2, ReadSees DEF Seen
  <2> QED BY <2>2, <2>3, <2>4 DEF LeadsTo
<1>7. ASSUME NEW l \in held \ InLoop(f), NEW k \in InLoop(f) PROVE env[l] # Ref(d, k)
  BY <1>5 DEF EnvOK, LoopText
<1>8. Refers(fr.value) => class[f][1] = "part" /\ fr.value = env[class[f][2]]
  BY <1>5 DEF ValueOK
<1> QED BY <1>6, <1>7, <1>8 DEF Ref

(* The inductive invariant: a function is classified as the analysis finds *)
(* it and with its group, only an accepted program runs, and each call     *)
(* that runs holds what it may and was made by a leaf of the one outside.  *)
THEOREM BorrowKept == BorrowSpec => []BorrowInv
<1>1. WellFormed /\ BorrowStart(program) => BorrowInv
  BY BorrowInit
<1>2. BorrowInv /\ [BorrowNext]_bvars => BorrowInv'
  BY BorrowStep
<1> QED BY <1>1, <1>2, PTL DEF BorrowSpec

(* Whatever the functions, however deep the calls and however often the    *)
(* loops run: in an accepted program every reference a text holds is to    *)
(* one of the roots the alias analysis found for it, none outlives what    *)
(* the loop's block owned, and what a call returns is part of the argument *)
(* its class names, or refers to nothing (`alias_roots`, `classify`,       *)
(* `strings::infer`, `dangling`).                                          *)
THEOREM RefersToItsRootsAlways == BorrowSpec => []RefersToItsRoots
<1>1. BorrowInv => RefersToItsRoots
  BY HeldRooted
<1> QED BY <1>1, BorrowKept, PTL
=============================================================================
