----------------------------- MODULE FlowRuns -----------------------------
(***************************************************************************)
(* What the flow walk promises, told by running the function.  A run       *)
(* takes one way at each branch and any number of rounds of each loop; it  *)
(* carries the locals it has really given away and every break of each     *)
(* alias, not only the first.  Once the walk is done, every run of the     *)
(* body is followed, and the uses that go wrong on some run are held       *)
(* against what the walk reported.                                         *)
(***************************************************************************)
EXTENDS FlowWalk

VARIABLES
    seen,    \* the points runs have reached, each with what it carries
    front,   \* those of them whose next lines are still to run
    late,    \* the uses that came after a move on some run
    stale    \* the uses of a broken alias on some run, with the break

runVars == <<seen, front, late, stale>>

RunsInit ==
    /\ Init
    /\ seen = {} /\ front = {} /\ late = {} /\ stale = {}

\* A run at a line: start is where it comes to the line from above, head
\* where a `for` is about to take its next round.
Point(line, at, gone, breaks) == [line |-> line, at |-> at, gone |-> gone, breaks |-> breaks]

Depth(i) ==
    Cardinality({j \in 1..(i - 1) : code[j].op \in Openers})
        - Cardinality({j \in 1..(i - 1) : code[j].op = "end"})

\* The end of the block opened at i, the arms after its first, and the
\* openers of the blocks around i.
EndOf(i) ==
    CHOOSE j \in (i + 1)..Len(code) :
        /\ code[j].op = "end" /\ Depth(j) = Depth(i) + 1
        /\ \A k \in (i + 1)..(j - 1) : code[k].op = "end" => Depth(k) # Depth(i) + 1

ArmsOf(i) ==
    {j \in i..EndOf(i) : code[j].op \in {"else", "arm"} /\ Depth(j) = Depth(i) + 1}

Around(i, ops) ==
    {j \in 1..(i - 1) : code[j].op \in ops /\ EndOf(j) >= i}

Nearest(S) == CHOOSE j \in S : \A k \in S : k <= j
-----------------------------------------------------------------------------
(***************************************************************************)
(* One event on a run.                                                     *)
(***************************************************************************)
Happens(run, ev) ==
    LET kept == IF Renews(L, ev) /\ ev.kind # "Bind"
                THEN {b \in run.breaks : b.alias # ev.x} ELSE run.breaks
        more == {[alias |-> a, root |-> r, at |-> ev.at] :
                    <<a, r>> \in {p \in Locals \X Locals : p[1] \in BrokenBy(L, ev, p[2])}}
        all == kept \cup more
    IN  [gone |-> IF GivesAway(L, ev) THEN run.gone \cup {ev.x}
                  ELSE IF Refills(ev) THEN run.gone \ {ev.x} ELSE run.gone,
         breaks |-> IF ev.kind = "Bind" THEN {b \in all : b.alias # ev.x} ELSE all,
         late |-> run.late \cup
            IF (UsesValue(ev) /\ ev.x \in run.gone) \/ GivesLooked(L, ev)
            THEN {ev.at} ELSE {},
         stale |-> run.stale \cup
            IF UsesAlias(L, ev) \/ ev.kind = "Held"
            THEN {[alias |-> ev.x, at |-> b.at, use |-> ev.at] :
                     b \in {c \in run.breaks :
                               /\ c.alias = ev.x
                               /\ ev.kind = "Held" \/ c.root \notin HeadReads(L, ev.x)}}
            ELSE {}]

\* The locals from outside the innermost closure around line i.
Outer(i) ==
    IF Around(i, {"closure"}) = {} THEN {}
    ELSE Locals \ UNION {Binds(code[j]) : j \in Nearest(Around(i, {"closure"}))..(i - 1)}

After(p, i, events) ==
    FoldLeft(Happens, [gone |-> p.gone, breaks |-> p.breaks, late |-> {}, stale |-> {}],
             AsSeen(Outer(i), events))

To(run, line, at) == Point(line, at, run.gone, run.breaks)

\* A run entering the block opened at i, its bindings made.
Into(run, i) ==
    LET entered == After(run, i, EntryOf(code[i], i)) IN To(entered, i + 1, "start")

\* Where one line takes a run: the events it meets and the points after it.
Result(run, points) == [points |-> points, late |-> run.late, stale |-> run.stale]

Rounds(run, i) == {Into(run, i), To(run, EndOf(i) + 1, "start")}

NextRound(p, i) ==
    IF code[i].op = "while" THEN Result(After(p, i, <<>>), {Point(i, "start", p.gone, p.breaks)})
    ELSE LET run == After(p, i, HoldOf(code[i], i)) IN Result(run, {To(run, i, "head")})

Step(p) ==
    LET i == p.line
        s == code[i]
        run == After(p, i, EventsOf(s, i))
        loop == Nearest(Around(i, {"while", "for"}))
        block == Nearest(Around(i, Openers))
    IN  CASE p.at = "head" -> Result(After(p, i, <<>>), Rounds(p, i))
          [] p.at = "start" /\ s.op \in {"let", "assign", "store", "expr"} ->
                Result(run, {To(run, i + 1, "start")})
          [] p.at = "start" /\ s.op = "return" -> Result(run, {})
          [] p.at = "start" /\ s.op \in {"if", "match"} ->
                Result(run, {Into(run, j) : j \in {i} \cup ArmsOf(i)}
                            \cup (IF s.op = "if" /\ ArmsOf(i) = {}
                                  THEN {To(run, EndOf(i) + 1, "start")} ELSE {}))
          \* A call runs the closure it is handed any number of times.
          [] p.at = "start" /\ s.op = "closure" -> Result(run, Rounds(run, i))
          [] p.at = "start" /\ s.op = "while" -> Result(run, Rounds(run, i))
          [] p.at = "start" /\ s.op = "for" -> Result(run, {To(run, i, "head")})
          [] p.at = "start" /\ s.op \in {"else", "arm"} ->
                Result(After(p, i, <<>>), {Point(EndOf(block) + 1, "start", p.gone, p.breaks)})
          [] p.at = "start" /\ s.op = "end" ->
                IF code[block].op \in {"if", "match"}
                THEN Result(After(p, i, <<>>), {Point(i + 1, "start", p.gone, p.breaks)})
                ELSE IF code[block].op = "closure"
                THEN Result(After(p, i, <<>>), Rounds(p, block))
                ELSE NextRound(p, block)
          [] p.at = "start" /\ s.op = "break" ->
                LET left == After(p, i, HoldOf(code[loop], loop))
                IN  Result(left, {To(left, EndOf(loop) + 1, "start")})
          [] p.at = "start" /\ s.op = "continue" -> NextRound(p, loop)
-----------------------------------------------------------------------------
Begin ==
    /\ done /\ seen = {}
    /\ LET entry == Point(1, "start", {}, {})
       IN  seen' = {entry} /\ front' = {entry}
    /\ UNCHANGED <<late, stale, vars>>

\* Every run of the front takes one line.
RunOn ==
    /\ front # {}
    /\ LET results == {Step(p) : p \in {q \in front : q.line <= Len(code)}}
           points == UNION {r.points : r \in results}
       IN  /\ seen' = seen \cup points
           /\ front' = points \ seen
           /\ late' = late \cup UNION {r.late : r \in results}
           /\ stale' = stale \cup UNION {r.stale : r \in results}
    /\ UNCHANGED vars

RunsNext == (Next /\ UNCHANGED runVars) \/ Begin \/ RunOn

RunsSpec == RunsInit /\ [][RunsNext]_<<vars, runVars>>

AllRun == seen # {} /\ front = {}
-----------------------------------------------------------------------------
(***************************************************************************)
(* Properties.                                                             *)
(***************************************************************************)
\* Nothing used after a move goes unreported (moves.rs: joins, jumps and the
\* second walk of a loop's body lose no way a moved local can be reached).
LateIsReported == late \subseteq badUses

\* And nothing is reported that no run does: the joins add no move of their
\* own, and a local given a new value, bound again or left unmarked by a
\* jump is usable again.
OnlyLateIsReported == AllRun => badUses \subseteq late

\* Every use that finds its alias broken on some run is answered by a report
\* of one of the breaks that reach it (aliases.rs:1-4: while an alias may
\* still be used, its root may not be changed or given away), though a mark
\* keeps only the first break and a join only one side's.
StaleIsReported ==
    AllRun => \A h \in stale :
        \E k \in stale :
            /\ k.alias = h.alias /\ k.use = h.use
            /\ [alias |-> k.alias, at |-> k.at] \in badAliases

\* And every break reported is one that some run meets again at a use of
\* that alias or at the end of a round of the loop that holds it.
OnlyStaleIsReported ==
    AllRun => \A r \in badAliases : \E h \in stale : h.alias = r.alias /\ h.at = r.at

\* The reports of V0305 and V0304 are the uses that go wrong on some run.
LateIsExact == LateIsReported /\ OnlyLateIsReported

\* The reports of V0307 are the breaks that some run meets again, one of
\* them for each use gone wrong.
StaleIsExact == StaleIsReported /\ OnlyStaleIsReported

\* What the walk reports, by either rule, is what goes wrong on some run.
WalkIsExact == LateIsExact /\ StaleIsExact
=============================================================================
