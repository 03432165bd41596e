----------------------------- MODULE FlowRules -----------------------------
(***************************************************************************)
(* The two flow rules of the borrow checker, as what one event of the walk *)
(* does to a rule's marks: the move rule (borrow/moves.rs, `impl Rule for  *)
(* Moves`) and the alias rule (borrow/aliases.rs, `impl Rule for           *)
(* Aliases`).  No state here: FlowWalk feeds these operators events along  *)
(* the walker's one route, FlowRuns feeds them along every run.            *)
(*                                                                         *)
(* A local is described by a record: owns (its type is a string, a struct  *)
(* or another compound), borrowed and mutable (its place), held (it is the *)
(* variable of a `for` over a place), roots (what `alias_roots` found for  *)
(* it, in order) and reads (what else the head of its `for` over a chain   *)
(* reads), looked (it is the parameter of an `any` or `all` closure over   *)
(* owned items, never given away).  L maps the locals to these records.    *)
(***************************************************************************)
EXTENDS Naturals, SequencesExt

CONSTANTS Locals, Nil

Roots(L, x) == Range(L[x].roots)

\* The roots a `for` over a chain holds beside its own: what its head reads,
\* and the roots of what it reads.
HeadReads(L, v) ==
    (L[v].reads \cup UNION {Roots(L, r) : r \in L[v].reads})
        \ ({v} \cup Roots(L, v))

AliasesOf(L, root) ==
    {a \in Locals : root \in Roots(L, a) \cup HeadReads(L, a)}

Movable(L, x) == L[x].owns /\ ~L[x].borrowed

IsMutableAlias(L, x) == L[x].borrowed /\ L[x].mutable

OnlyHolds(L, x) == L[x].held /\ ~L[x].borrowed

ThroughMutable(L, a, root) ==
    \E m \in (Roots(L, a) \cup HeadReads(L, a)) \ {root} :
        IsMutableAlias(L, m) /\ root \in Roots(L, m)

(***************************************************************************)
(* An event: local x, what happens to it, and the span it happens at.  The *)
(* first four kinds are the accesses of `enum Access`.                     *)
(***************************************************************************)
Kinds == {"Read", "Move", "Change", "Replace", "Lent", "Bind", "Fresh", "Held"}

Event(x, kind, at) == [x |-> x, kind |-> kind, at |-> at]

Gives(L, ev) == ev.kind = "Move" /\ Movable(L, ev.x)

\* The aliases an event breaks, each with the root it breaks it through.  A
\* change, a new value or a move severs every alias of x; any other access
\* only those that can change x.  Binding a mutable alias severs the other
\* aliases of what it names.
BrokenBy(L, ev, root) ==
    LET severs == ev.kind \in {"Change", "Replace"} \/ Gives(L, ev)
    IN  CASE ev.kind \in {"Read", "Move", "Change", "Replace"} /\ root = ev.x ->
                {a \in AliasesOf(L, root) :
                    severs \/ IsMutableAlias(L, a) \/ ThroughMutable(L, a, root)}
          [] ev.kind = "Bind" /\ IsMutableAlias(L, ev.x) /\ root \in Roots(L, ev.x) ->
                AliasesOf(L, root) \ Roots(L, ev.x)
          [] OTHER -> {}

BreaksThrough(L, ev) == IF ev.kind = "Bind" THEN L[ev.x].roots ELSE <<ev.x>>

\* x names something new from here on, so an old mark on it is dropped.
Renews(L, ev) ==
    \/ ev.kind = "Replace" /\ ~L[ev.x].borrowed
    \/ ev.kind \in {"Bind", "Fresh"}

\* The event uses x under its alias's name; a copy that only stands for its
\* loop's hold is not an alias.
UsesAlias(L, ev) ==
    /\ ev.kind \in {"Read", "Move", "Change", "Replace", "Lent"}
    /\ ~OnlyHolds(L, ev.x)
    /\ ~Renews(L, ev)

UsesValue(ev) == ev.kind \in {"Read", "Move", "Change"}

GivesLooked(L, ev) == Gives(L, ev) /\ L[ev.x].looked
GivesAway(L, ev) == Gives(L, ev) /\ ~L[ev.x].looked

Refills(ev) == ev.kind \in {"Replace", "Bind", "Fresh"}
-----------------------------------------------------------------------------
(***************************************************************************)
(* The rules on the walk.  A mark of the move rule is a local that may     *)
(* have moved; a mark of the alias rule is the first break seen.  What is  *)
(* reported is keyed as the code keys it: a use after a move (V0305) or a  *)
(* looked-at item given away (V0304) by the span of the use, a broken      *)
(* alias (V0307) by the alias and the span of the break.                   *)
(***************************************************************************)
Clean == [moved |-> {}, broken |-> [x \in Locals |-> Nil]]

\* Mutant: any use of a root breaks its aliases.
BreakOnAnyUse(L, broken, ev) ==
    [a \in Locals |->
        IF broken[a] = Nil /\ ev.kind # "Lent" /\ ev.x \in Roots(L, a)
        THEN [root |-> ev.x, at |-> ev.at] ELSE broken[a]]

\* `break_aliases`: an alias already marked keeps its mark.
Break(L, broken, ev) ==
    FoldLeft(LAMBDA marks, root :
                 [a \in Locals |->
                     IF marks[a] = Nil /\ a \in BrokenBy(L, ev, root)
                     THEN [root |-> root, at |-> ev.at] ELSE marks[a]],
             broken, BreaksThrough(L, ev))

\* Mutant: an argument is not used again by its call.
ReportedUnlent(L, broken, ev) ==
    IF broken[ev.x] # Nil /\ ev.kind # "Lent" /\ UsesAlias(L, ev)
    THEN {[alias |-> ev.x, at |-> broken[ev.x].at]} ELSE {}

\* `use_`: a break through what the loop's head reads is left to `held`.
Reported(L, broken, ev) ==
    LET mark == broken[ev.x]
    IN  IF \/ mark = Nil
           \/ ~(UsesAlias(L, ev) \/ ev.kind = "Held")
           \/ ev.kind # "Held" /\ mark.root \in HeadReads(L, ev.x)
        THEN {} ELSE {[alias |-> ev.x, at |-> mark.at]}

\* One event, told to both rules.
Tell(L, told, ev) ==
    LET renewed == [told.broken EXCEPT ![ev.x] = IF Renews(L, ev) THEN Nil ELSE @]
        broken == Break(L, IF ev.kind = "Bind" THEN told.broken ELSE renewed, ev)
    IN  [moved |-> IF GivesAway(L, ev) THEN told.moved \cup {ev.x}
                   ELSE IF Refills(ev) THEN told.moved \ {ev.x}
                   ELSE told.moved,
         badUses |-> told.badUses \cup
            IF (UsesValue(ev) /\ ev.x \in told.moved) \/ GivesLooked(L, ev)
            THEN {ev.at} ELSE {},
         broken |-> IF ev.kind = "Bind" THEN [broken EXCEPT ![ev.x] = Nil] ELSE broken,
         badAliases |-> told.badAliases \cup Reported(L, told.broken, ev)]

TellAll(L, marks, events) ==
    FoldLeft(LAMBDA told, ev : Tell(L, told, ev),
             [moved |-> marks.moved, broken |-> marks.broken, badUses |-> {},
              badAliases |-> {}],
             events)

\* Mutant: only what both ways have moved.
UnionOfBoth(a, b) ==
    IF a = Nil THEN b ELSE IF b = Nil THEN a
    ELSE [moved |-> a.moved \cap b.moved,
          broken |-> [x \in Locals |->
              IF a.broken[x] # Nil THEN a.broken[x] ELSE b.broken[x]]]

\* The marks of both ways into a join; Nil is unreachable code.
Union(a, b) ==
    IF a = Nil THEN b ELSE IF b = Nil THEN a
    ELSE [moved |-> a.moved \cup b.moved,
          broken |-> [x \in Locals |->
              IF a.broken[x] # Nil THEN a.broken[x] ELSE b.broken[x]]]
-----------------------------------------------------------------------------
(***************************************************************************)
(* The events of an expression.  An expression is the sequence of locals   *)
(* it mentions, in evaluation order, each with how it is mentioned: whole  *)
(* (it is the expression), part (a field or an element of it), look (an    *)
(* argument to a borrowing parameter, a receiver, a printed or compared    *)
(* value), change (a `mut` argument or a changing receiver), give (an      *)
(* owned slot) or copy (a Varyk `Owned` parameter, which takes a copy).    *)
(* Literals mention nothing.                                               *)
(***************************************************************************)
AccessAs(how, access) ==
    CASE how = "whole" -> access
      [] how = "part" -> IF access \in {"Change", "Replace"} THEN "Change" ELSE "Read"
      [] how = "change" -> "Change"
      [] how = "give" -> "Move"
      [] OTHER -> "Read"

Value(e, access, pc) ==
    LET mentions == [i \in DOMAIN e |-> Event(e[i].x, AccessAs(e[i].how, access), <<pc, i>>)]
        lent == SelectSeq([i \in DOMAIN e |-> [x |-> e[i].x, how |-> e[i].how, i |-> i]],
                          LAMBDA m : m.how \in {"look", "change"})
    IN  mentions \o [i \in DOMAIN lent |-> Event(lent[i].x, "Lent", <<pc, lent[i].i>>)]

\* The events of the statement at pc, or of the head of the block it opens.
EventsOf(s, pc) ==
    LET last == <<pc, Len(s.e) + 1>>
    IN  CASE s.op = "let" -> Append(Value(s.e, "Move", pc), Event(s.x, "Bind", last))
          [] s.op = "assign" -> Append(Value(s.e, "Move", pc), Event(s.x, "Replace", last))
          [] s.op = "store" -> Append(Value(s.e, "Move", pc), Event(s.x, "Change", last))
          [] s.op = "return" -> Value(s.e, "Move", pc)
          [] OTHER -> Value(s.e, "Read", pc)

\* What a block or an arm binds when it is entered: the name of an `if let`,
\* a `while let` or an arm, a closure's parameter, and the variable of a
\* `for`, for which only the mark goes.
EntryOf(s, pc) ==
    CASE s.op = "for" -> <<Event(s.x, "Fresh", <<pc, Len(s.e) + 1>>)>>
      [] s.op \in {"if", "while", "match", "arm", "closure"} /\ s.x # Nil ->
            <<Event(s.x, "Bind", <<pc, Len(s.e) + 1>>)>>
      [] OTHER -> <<>>

\* The loop's hold, used at the end of a round and on the way out.
HoldOf(s, pc) == IF s.op = "for" /\ s.hold THEN <<Event(s.x, "Held", <<pc, 0>>)>> ELSE <<>>
=============================================================================
