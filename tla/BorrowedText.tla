---------------------------- MODULE BorrowedText ----------------------------
(***************************************************************************)
(* What text refers to: which `let`s are other names for a place and of    *)
(* what (borrow.rs, borrow/aliases.rs), what a call returns                *)
(* (borrow/returns.rs), and which `let`s must own their text               *)
(* (borrow/strings.rs).  The functions are classified group by group over  *)
(* the call graph, callees first; then an accepted program runs, and each  *)
(* reference it makes is compared with the roots the analysis gave it.     *)
(*                                                                         *)
(* A function is [params, muts, pre, loop, ret]: its text parameters       *)
(* 1 .. params and those of them that are `mut`; the statements before a   *)
(* `while`, and inside it, each run or, in an `if`, left out; and the      *)
(* leaves of its tail.  A statement is [op, local, value]: "own" declares  *)
(* a struct that owns a text, "let" and "set" give a text the value of one *)
(* of the leaves.  A leaf is [kind, of, args]: a local (of a struct, its   *)
(* text), a call with locals (0 a literal) as arguments, a literal, or new *)
(* text.  Locals are numbered as they are declared.                        *)
(***************************************************************************)
EXTENDS Integers, Sequences, FiniteSets

CONSTANTS Rounds,   \* how often a loop runs
          Depth     \* how many calls are inside each other

VARIABLES
  program,   \* the functions
  class,     \* per function: <<"unknown">>, <<"new">>, <<"part", param>>, <<"error">>
  borrowed,  \* per function, the locals that are borrowed places
  roots,     \* per function, <<local, root>> of each name for something
  owned,     \* per function, the `let`s that must own their text
  frames     \* the calls that run, innermost last: [fn, pc, rounds, env]

bvars == <<program, class, borrowed, roots, owned, frames>>

Fns == DOMAIN program
Params(f) == 1 .. program[f].params
Stmts(f) == program[f].pre \o program[f].loop
Declared(f) == {i \in DOMAIN Stmts(f) : Stmts(f)[i].op # "set"}
Locals(f) == 1 .. program[f].params + Cardinality(Declared(f))
Owners(f) == {Stmts(f)[i].local : i \in {j \in Declared(f) : Stmts(f)[j].op = "own"}}
Elements(s) == {s[i] : i \in DOMAIN s}

(* A set a step only adds to, first at first, once nothing changes: after  *)
(* at most as many steps as it can have elements.                          *)
Settled(step, first, most) ==
  LET at[n \in 0 .. most + 1] == IF n = 0 THEN first ELSE step[at[n - 1]]
  IN at[CHOOSE n \in 0 .. most : at[n + 1] = at[n]]

(* The statements that give local l its text, and the leaves they give.    *)
Given(f, l) == UNION {Elements(Stmts(f)[i].value) : i \in {j \in DOMAIN Stmts(f) : Stmts(f)[j].local = l}}
Initial(f, l) == UNION {Elements(Stmts(f)[i].value) : i \in {j \in Declared(f) : Stmts(f)[j].local = l}}

(* Declared inside the loop, while l is not.                               *)
InLoop(f) == {program[f].loop[i].local : i \in {j \in DOMAIN program[f].loop : program[f].loop[j].op # "set"}}

(* The locals a leaf mentions. *)
Mentions(v) == CASE v.kind = "call" -> Elements(v.args) \ {0} [] v.kind = "local" -> {v.of} [] OTHER -> {}

(* The call graph, and the group of functions that call each other.        *)
Leaves(f) == Elements(program[f].ret) \cup UNION {Elements(Stmts(f)[i].value) : i \in DOMAIN Stmts(f)}
Callees(f) == {v.of : v \in {u \in Leaves(f) : u.kind = "call"}}
Reaches(f) ==
  LET further == [S \in SUBSET Fns |-> S \cup UNION {Callees(g) : g \in S}]
  IN Settled(further, Callees(f), Cardinality(Fns))
Group(f) == {f} \cup {g \in Reaches(f) : f \in Reaches(g)}
Recursive(f) == f \in Reaches(f)

(* `mark_rooted`: the argument a call's result is part of; 0 for none. A   *)
(* call inside the group counts as new.                                    *)
RootedAt(f, v) ==
  IF v.kind = "call" /\ v.of \notin Group(f) /\ class[v.of][1] = "part" THEN class[v.of][2] ELSE 0

(* `roots` and `place_info`, with B the borrowed `let`s declared so far.   *)
RootsOf(f, v) ==
  IF v.kind = "local" THEN {v.of}
  ELSE IF RootedAt(f, v) # 0 THEN {v.args[RootedAt(f, v)]} \ {0} ELSE {}
IsBorrowed(f, v, B) ==
  \/ v.kind = "local" /\ v.of \in Params(f) \cup Owners(f) \cup B
  \/ RootedAt(f, v) # 0

(* `bind`: a `let` of a borrowed place is one, and names only those before *)
(* it.                                                                     *)
Lets(f) == Locals(f) \ (Params(f) \cup Owners(f))
BorrowedLets(f) ==
  LET bind == [B \in SUBSET Lets(f) |-> B \cup {l \in Lets(f) : \E v \in Initial(f, l) : IsBorrowed(f, v, B)}]
  IN Settled(bind, {}, Cardinality(Lets(f)))

(* A `let` of text that is not a borrowed place. *)
Free(f, B) == Lets(f) \ B

(* `text_flow` and `refers`: <<l, r>> when r roots a place that l names    *)
(* directly, and <<l, c>> when the text of c is copied into l.             *)
Direct(f, B) ==
  {p \in B \X Locals(f) : \E v \in Initial(f, p[1]) : p[2] \in RootsOf(f, v)} \cup
  {p \in Free(f, B) \X Locals(f) : \E v \in Given(f, p[1]) : IsBorrowed(f, v, B) /\ p[2] \in RootsOf(f, v)}
Copies(f, B) == {p \in Free(f, B) \X Free(f, B) : \E v \in Given(f, p[1]) : v.kind = "local" /\ v.of = p[2]}
Of(R, l) == {p[2] : p \in {q \in R : q[1] = l}}

(* Roots of roots, and the roots of what is copied in, but not that.       *)
Followed(R, copies) == R \cup UNION {{<<p[1], r>> : r \in Of(R, p[2]) \ {p[1]}} : p \in R \cup copies}

(* Mutant: the roots are followed once. *)
FollowedOnce(f, B) == Followed(Direct(f, B), Copies(f, B))

(* `alias_roots`: followed until nothing changes. *)
AliasRoots(f, B) ==
  LET follow == [R \in SUBSET (Locals(f) \X Locals(f)) |-> Followed(R, Copies(f, B))]
  IN Settled(follow, Direct(f, B), Cardinality(Locals(f) \X Locals(f)))

(* `terminal`: what a leaf returned is part of, aliases dropped.           *)
Terminal(f, v, B, R) ==
  LET new == ~IsBorrowed(f, v, B)
      first == IF v.kind = "local" THEN {v.of} ELSE RootsOf(f, v)
      final(S) == {r \in S : Of(R, r) = {} /\ r \notin B}
  IN UNION {IF Of(R, r) # {} THEN final(Of(R, r)) ELSE IF new THEN {} ELSE final({r}) : r \in first}

(* `classify_body`. *)
ClassOf(f, B, R) ==
  LET leaves == Elements(program[f].ret)
      of(v) == Terminal(f, v, B, R)
      new == {v \in leaves : ~IsBorrowed(f, v, B) /\ of(v) = {}}
      parts == UNION {of(v) : v \in leaves}
      wrong == \/ \E v \in leaves \ new : of(v) = {}
               \/ ~(parts \subseteq Params(f) \ program[f].muts)
               \/ parts # {} /\ (Recursive(f) \/ new # {} \/ Cardinality(parts) > 1)
  IN IF wrong THEN <<"error">>
     ELSE IF parts = {} THEN <<"new">> ELSE <<"part", CHOOSE p \in parts : TRUE>>

(* One group of `classify`, its callees classified. *)
Classify(f) ==
  /\ class[f] = <<"unknown">>
  /\ \A g \in Group(f) : \A h \in Callees(g) \ Group(f) : class[h] # <<"unknown">>
  /\ LET lets == [g \in Group(f) |-> BorrowedLets(g)]
         of == [g \in Group(f) |-> AliasRoots(g, lets[g])]
     IN /\ borrowed' = [g \in Fns |-> IF g \in Group(f) THEN lets[g] ELSE borrowed[g]]
        /\ roots' = [g \in Fns |-> IF g \in Group(f) THEN of[g] ELSE roots[g]]
        /\ class' = [g \in Fns |-> IF g \in Group(f) THEN ClassOf(g, borrowed'[g], roots'[g]) ELSE class[g]]
  /\ UNCHANGED <<program, owned, frames>>
-----------------------------------------------------------------------------
(* `strings::infer`: the free `let`s that must own their text: given new   *)
(* text, returned where what is returned is new, or linked to one by a     *)
(* copy either way.                                                        *)
IsNew(f, v) == v.kind = "new" \/ (v.kind = "call" /\ RootedAt(f, v) = 0)
Owned(f) ==
  LET free == Free(f, borrowed[f])
      first == {l \in free : \E v \in Given(f, l) : IsNew(f, v)} \cup
               (IF class[f][1] = "part" THEN {} ELSE {v.of : v \in {u \in Elements(program[f].ret) : u.kind = "local"}} \cap free)
      copies == Copies(f, borrowed[f])
      link == [S \in SUBSET free |-> S \cup {a \in free : \E b \in S : <<a, b>> \in copies \/ <<b, a>> \in copies}]
  IN Settled(link, first, Cardinality(free))

(* `dangling` and `root_gone`, for the block of the loop. *)
Dangles(f) ==
  LET dangle == [S \in SUBSET InLoop(f) |-> S \cup {l \in InLoop(f) \cap borrowed[f] :
                   \E v \in Initial(f, l) : IsNew(f, v) \/ RootsOf(f, v) \cap S # {}}]
  IN Settled(dangle, InLoop(f) \ borrowed[f], Cardinality(InLoop(f)))

(* What is assigned to text that lives on outside the loop and is gone     *)
(* after it: a place there, or text copied that may refer to one.          *)
Flowing(f, l) ==
  LET copied == [S \in SUBSET Locals(f) |-> S \cup UNION {Of(Copies(f, borrowed[f]), k) : k \in S}]
  IN Settled(copied, {l}, Cardinality(Locals(f)))
Gone(f) ==
  LET free == Free(f, borrowed[f])
      kept == free \ Owned(f)
      direct == Direct(f, borrowed[f])
      gone == Dangles(f)
  IN \E l \in free \ InLoop(f) : \E v \in Given(f, l) :
       \/ IsBorrowed(f, v, borrowed[f]) /\ RootsOf(f, v) \cap gone # {}
       \/ /\ v.kind = "local" /\ v.of \in kept
          /\ \E k \in Flowing(f, v.of) : Of(direct, k) \cap gone # {}

(* A borrowed place kept where the text must be owned, or bound beside     *)
(* owned text; and a name for what cannot be changed, changed.             *)
Kept(f) ==
  LET must == Owned(f)
  IN \/ \E i \in DOMAIN Stmts(f) : Stmts(f)[i].op = "set" /\ Stmts(f)[i].local \in borrowed[f]
     \/ \E l \in must : \E v \in Given(f, l) : IsBorrowed(f, v, borrowed[f])
     \/ \E l \in borrowed[f] : \E v \in Initial(f, l) :
          IsNew(f, v) \/ (v.kind = "local" /\ v.of \in must)

NoneRefused ==
  /\ \A f \in Fns : class[f][1] \in {"new", "part"}
  /\ \A f \in Fns : ~Gone(f) /\ ~Kept(f)
-----------------------------------------------------------------------------
(* The run: a text is <<"none">> before its `let` and once moved, its own  *)
(* text <<"own">>, or a reference <<"ref", place>>, a place being where a  *)
(* struct or owned text lives, <<depth, local>>, <<>> for a literal.       *)
TopFrame == frames[Len(frames)]
None == <<"none">>
Literal == <<"ref", <<>>>>

Read(fr, d, l) ==
  IF l = 0 THEN Literal
  ELSE IF fr.env[l] = <<"own">> THEN <<"ref", <<d, l>>>> ELSE fr.env[l]

(* A reference is copied, owned text moved; a struct gives its text as a   *)
(* reference.                                                              *)
ValueOf(fr, v) ==
  CASE v.kind = "lit" -> Literal [] v.kind = "new" -> <<"own">>
    [] OTHER -> IF v.of \in Free(fr.fn, borrowed[fr.fn]) THEN fr.env[v.of] ELSE Read(fr, Len(frames), v.of)
Moved(fr, v) ==
  IF v.kind = "local" /\ v.of \in Free(fr.fn, borrowed[fr.fn]) /\ fr.env[v.of] = <<"own">>
  THEN [fr.env EXCEPT ![v.of] = None] ELSE fr.env

(* Text that must be owned is made from a literal by copying it.           *)
Stored(f, l, w) == IF l \in owned[f] /\ w = Literal THEN <<"own">> ELSE w

Frame(f, args) == [fn |-> f, pc |-> 1, rounds |-> 0, value |-> None,
                   env |-> [l \in Locals(f) |-> IF l \in DOMAIN args THEN args[l] ELSE None]]
SetTop(fr) == [frames EXCEPT ![Len(frames)] = fr]

(* Any function of an accepted program is called from outside. *)
Begin == /\ frames = <<>> /\ NoneRefused
         /\ \E f \in Fns : frames' = <<Frame(f, [p \in Params(f) |-> <<"ref", <<0, p>>>>])>>
         /\ owned' = [f \in Fns |-> Owned(f)]
         /\ UNCHANGED <<program, class, borrowed, roots>>

Running == frames # <<>> /\ TopFrame.pc \in DOMAIN Stmts(TopFrame.fn)
Stmt == Stmts(TopFrame.fn)[TopFrame.pc]
Usable(fr, v) == \A l \in Mentions(v) : fr.env[l] # None

Declare == /\ Running /\ Stmt.op = "own"
           /\ frames' = SetTop([TopFrame EXCEPT !.pc = @ + 1, !.env[Stmt.local] = <<"own">>])
           /\ UNCHANGED <<program, class, borrowed, roots, owned>>

Assign == /\ Running /\ Stmt.op # "own"
          /\ \E v \in Elements(Stmt.value) :
               /\ v.kind # "call" /\ Usable(TopFrame, v)
               /\ frames' = SetTop([TopFrame EXCEPT !.pc = @ + 1,
                    !.env = [Moved(TopFrame, v) EXCEPT ![Stmt.local] = Stored(TopFrame.fn, Stmt.local, ValueOf(TopFrame, v))]])
          /\ UNCHANGED <<program, class, borrowed, roots, owned>>

Skip == /\ Running /\ Stmt.op = "set" /\ frames' = SetTop([TopFrame EXCEPT !.pc = @ + 1])
        /\ UNCHANGED <<program, class, borrowed, roots, owned>>

(* The end of a round, where the loop's own locals go; it may run again.   *)
LoopAgain == /\ frames # <<>> /\ TopFrame.pc = Len(Stmts(TopFrame.fn)) + 1
         /\ LET over == [TopFrame EXCEPT !.env = [l \in Locals(TopFrame.fn) |-> IF l \in InLoop(TopFrame.fn) THEN None ELSE @[l]]]
            IN \/ frames' = SetTop([over EXCEPT !.pc = @ + 1])
               \/ /\ TopFrame.rounds < Rounds
                  /\ frames' = SetTop([over EXCEPT !.pc = Len(program[TopFrame.fn].pre) + 1, !.rounds = @ + 1])
         /\ UNCHANGED <<program, class, borrowed, roots, owned>>

AtTail == frames # <<>> /\ TopFrame.pc = Len(Stmts(TopFrame.fn)) + 2
ReturnValue == /\ AtTail
         /\ \E v \in Elements(program[TopFrame.fn].ret) :
              /\ v.kind # "call" /\ Usable(TopFrame, v)
              /\ frames' = SetTop([TopFrame EXCEPT !.pc = @ + 1, !.value = ValueOf(TopFrame, v)])
         /\ UNCHANGED <<program, class, borrowed, roots, owned>>

(* A call, of a statement or of the tail. *)
CallOut == /\ (Running /\ Stmt.op # "own") \/ AtTail
        /\ Len(frames) < Depth
        /\ \E v \in IF Running THEN Elements(Stmt.value) ELSE Elements(program[TopFrame.fn].ret) :
             /\ v.kind = "call" /\ Usable(TopFrame, v)
             /\ frames' = Append(frames, Frame(v.of, [i \in DOMAIN v.args |-> Read(TopFrame, Len(frames), v.args[i])]))
        /\ UNCHANGED <<program, class, borrowed, roots, owned>>

(* What a function returns goes to the statement, or the tail, that called *)
(* it; a function whose returns are new copies a literal.                  *)
Returned == frames # <<>> /\ TopFrame.pc = Len(Stmts(TopFrame.fn)) + 3
Return == /\ Returned /\ Len(frames) > 1
          /\ LET below == frames[Len(frames) - 1]
                 got == IF TopFrame.value = Literal /\ class[TopFrame.fn] = <<"new">> THEN <<"own">> ELSE TopFrame.value
                 next == IF below.pc \in DOMAIN Stmts(below.fn)
                         THEN [below EXCEPT !.pc = @ + 1, !.env[Stmts(below.fn)[below.pc].local] = got]
                         ELSE [below EXCEPT !.pc = @ + 1, !.value = got]
             IN frames' = Append(SubSeq(frames, 1, Len(frames) - 2), next)
          /\ UNCHANGED <<program, class, borrowed, roots, owned>>

BorrowNext ==
  \/ \E f \in Fns : Classify(f)
  \/ Begin \/ Declare \/ Assign \/ Skip \/ LoopAgain \/ ReturnValue \/ CallOut \/ Return

(* What is resolved and typed: a local is declared by one statement, only  *)
(* a text that a `let` declares is set, a leaf names locals of its own     *)
(* function and calls one with as many arguments as it has parameters, and *)
(* what the loop declares is named in the loop alone.                      *)
Leaf == [kind : {"local", "call", "lit", "new"}, of : Nat, args : Seq(Nat)]
Statement == [op : {"own", "let", "set"}, local : Nat, value : Seq(Leaf)]
Function == [params : Nat, muts : SUBSET Nat, pre : Seq(Statement), loop : Seq(Statement), ret : Seq(Leaf)]
Scoped(f) ==
  /\ \A i \in Declared(f) : Stmts(f)[i].local \in Locals(f) \ Params(f)
  /\ \A i, j \in Declared(f) : Stmts(f)[i].local = Stmts(f)[j].local => i = j
  /\ \A i \in DOMAIN Stmts(f) \ Declared(f) : Stmts(f)[i].local \in Lets(f)
  /\ \A v \in Leaves(f) : Mentions(v) \subseteq Locals(f)
  /\ \A v \in Leaves(f) : v.kind = "call" => v.of \in Fns /\ Len(v.args) = program[v.of].params
  /\ \A i \in DOMAIN program[f].pre :
       LET s == program[f].pre[i]
       IN {s.local} \cup UNION {Mentions(v) : v \in Elements(s.value)} \subseteq Locals(f) \ InLoop(f)
  /\ \A v \in Elements(program[f].ret) : Mentions(v) \cap InLoop(f) = {}
WellFormed == program \in Seq(Function) /\ \A f \in Fns : Scoped(f)

BorrowStart(p) ==
  /\ program = p /\ frames = <<>>
  /\ class = [f \in DOMAIN p |-> <<"unknown">>]
  /\ borrowed = [f \in DOMAIN p |-> {}] /\ roots = [f \in DOMAIN p |-> {}]
  /\ owned = [f \in DOMAIN p |-> {}]
BorrowSpec == WellFormed /\ BorrowStart(program) /\ [][BorrowNext]_bvars
-----------------------------------------------------------------------------
Refers(w) == w[1] = "ref" /\ w # Literal

(* What a reference of an accepted program refers to is always among the   *)
(* roots found for it, whatever ran before, a loop's last round and the    *)
(* calls included: so the alias rule and the move rule, which go by the    *)
(* roots, miss no change of it.  A call returns part of the argument it is *)
(* rooted at and of nothing else, and what a function whose returns are    *)
(* new returns refers to nothing.  No reference is kept that is gone: to   *)
(* what the loop's block, or the function, owned.                          *)
RefersToItsRoots == \A d \in DOMAIN frames :
  LET fr == frames[d]
      f == fr.fn
      held == {l \in Locals(f) \ Params(f) : Refers(fr.env[l])}
  IN /\ \A l \in held : \E r \in Of(roots[f], l) : Read(fr, d, r) = fr.env[l] \/ fr.env[l] = <<"ref", <<d, r>>>>
     /\ fr.pc > Len(Stmts(f)) + 1 =>
          \A l \in held \ InLoop(f) : \A k \in InLoop(f) : fr.env[l] # <<"ref", <<d, k>>>>
     /\ Refers(fr.value) => class[f][1] = "part" /\ fr.value = fr.env[class[f][2]]
=============================================================================
