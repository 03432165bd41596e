----------------------------- MODULE FlowWalk -----------------------------
(***************************************************************************)
(* The flow walk of the borrow checker (borrow/moves.rs, `Walker`): it     *)
(* follows a function's body in statement order, joins the marks of the    *)
(* ways into a statement and walks the body of a loop twice.  The two      *)
(* rules that run on it, each on a walk of its own in the code, are told   *)
(* of every event together here.                                           *)
(*                                                                         *)
(* The function being checked is not given: wherever the walk reaches the  *)
(* end of what is written of it, it may go on in any way the language      *)
(* allows, so the states cover every body of at most fn.lines lines over   *)
(* the statements of one of Functions.  A body is a sequence of lines, a block *)
(* opened by an if, while or for and closed by an end.                     *)
(***************************************************************************)
EXTENDS FlowRules

CONSTANT Functions

ASSUME FunctionsAssumption ==
    \A f \in Functions :
        /\ f.lines \in Nat
        /\ \A x \in Locals : \A r \in Roots(f.locals, x) :
              Roots(f.locals, r) \ {x} \subseteq Roots(f.locals, x)

VARIABLES
    fn,      \* the function: its locals, those in scope at first, the
             \* statements it may have, and the bound on its length
    code,    \* the body, as far as it is written
    pc,      \* the line the walk is at
    scope,   \* the locals that may be named at pc
    marks,   \* the marks of both rules, Nil in unreachable code
    frames,  \* the blocks around pc, innermost last
    badUses,    \* the uses reported, V0305 and V0304
    badAliases, \* the breaks of aliases reported, V0307
    done     \* the walk is over

vars == <<fn, code, pc, scope, marks, frames, badUses, badAliases, done>>

L == fn.locals
Openers == {"if", "match", "while", "for", "closure"}
Loops == {i \in DOMAIN frames : frames[i].op \in {"while", "for"}}
Top == Last(frames)
Innermost == CHOOSE i \in Loops : \A j \in Loops : j <= i

\* A closure only borrows a name from outside it: giving one away reads it.
Closures == {i \in DOMAIN frames : frames[i].op = "closure"}
Captured == IF Closures = {} THEN {} ELSE frames[CHOOSE i \in Closures : \A j \in Closures : j <= i].scope
AsSeen(captured, events) ==
    [i \in DOMAIN events |->
        IF events[i].x \in captured /\ events[i].kind = "Move"
        THEN [events[i] EXCEPT !.kind = "Read"] ELSE events[i]]

\* The rules hear nothing in unreachable code.
Heard(m, events) ==
    IF m = Nil THEN [marks |-> Nil, badUses |-> {}, badAliases |-> {}]
    ELSE LET told == TellAll(L, m, AsSeen(Captured, events))
         IN  [marks |-> [moved |-> told.moved, broken |-> told.broken],
              badUses |-> told.badUses, badAliases |-> told.badAliases]

Report(heard) ==
    /\ badUses' = badUses \cup heard.badUses
    /\ badAliases' = badAliases \cup heard.badAliases

FunctionInit ==
    /\ fn \in Functions
    /\ code = <<>>
    /\ scope = fn.scope

Init ==
    /\ FunctionInit
    /\ pc = 1
    /\ marks = Clean
    /\ frames = <<>>
    /\ badUses = {} /\ badAliases = {}
    /\ done = FALSE
-----------------------------------------------------------------------------
(***************************************************************************)
(* Which line may come next: names are in scope and bound once, blocks are *)
(* closed within fn.lines lines, a jump is in a loop and ends its block,   *)
(* a closure is left by its end only and changes nothing from outside it.  *)
(***************************************************************************)
Names(s) == {s.e[i].x : i \in DOMAIN s.e}
            \cup (IF s.op \in {"assign", "store"} THEN {s.x} ELSE {})
Changes(s) == {s.e[i].x : i \in {j \in DOMAIN s.e : s.e[j].how = "change"}}
              \cup (IF s.op \in {"assign", "store"} THEN {s.x} ELSE {})
Binds(s) == IF s.op \in Openers \cup {"let", "arm"} THEN {s.x} \ {Nil} ELSE {}

MayFollow(s) ==
    /\ Len(code) + Len(frames) + (IF s.op \in Openers THEN 2 ELSE 1) <=
          fn.lines + (IF s.op = "end" THEN 1 ELSE 0)
    /\ marks = Nil => s.op \in {"else", "arm", "end"}
    /\ Names(s) \subseteq scope
    /\ \A i \in DOMAIN code : Binds(code[i]) \cap Binds(s) = {}
    /\ s.op \in {"break", "continue"} => Loops # {}
    /\ s.op \in {"break", "continue", "return"} => Closures = {}
    /\ Changes(s) \cap Captured = {}
    /\ s.op \in {"end", "else", "arm"} => frames # <<>>

\* s is the line at pc.
At(s) ==
    /\ ~done
    /\ \/ pc <= Len(code) /\ s = code[pc] /\ UNCHANGED code
       \/ pc > Len(code) /\ MayFollow(s) /\ code' = Append(code, s)
    /\ UNCHANGED <<fn, done>>

Open(s, entry, exit) ==
    /\ frames' = Append(frames,
            [op |-> s.op, line |-> s, at |-> pc, scope |-> scope, walk |-> 1,
             entry |-> entry, exit |-> exit, breaks |-> Nil, continues |-> Nil])
    /\ scope' = scope \cup Binds(s)
    /\ pc' = pc + 1

Close ==
    /\ frames' = Front(frames)
    /\ scope' = Top.scope
    /\ pc' = pc + 1
-----------------------------------------------------------------------------
(***************************************************************************)
(* One action per statement.                                               *)
(***************************************************************************)
Straight(s) ==
    /\ s.op \in {"let", "assign", "store", "expr"}
    /\ At(s)
    /\ LET heard == Heard(marks, EventsOf(s, pc))
       IN  marks' = heard.marks /\ Report(heard)
    /\ scope' = scope \cup Binds(s)
    /\ pc' = pc + 1
    /\ UNCHANGED frames

\* Mutant: what follows a `return` is walked as after it.
ReturnGoesOn(s) ==
    /\ s.op = "return"
    /\ At(s)
    /\ LET heard == Heard(marks, EventsOf(s, pc))
       IN  marks' = heard.marks /\ Report(heard)
    /\ pc' = pc + 1
    /\ UNCHANGED <<scope, frames>>

Return(s) ==
    /\ s.op = "return"
    /\ At(s)
    /\ Report(Heard(marks, EventsOf(s, pc)))
    /\ marks' = Nil
    /\ pc' = pc + 1
    /\ UNCHANGED <<scope, frames>>

HoldLeft == HoldOf(frames[Innermost].line, frames[Innermost].at)

\* The loop's hold is used on the way out, then the marks join the others
\* that leave the innermost loop this way.
Jump(s) ==
    /\ s.op \in {"break", "continue"}
    /\ At(s)
    /\ LET heard == Heard(marks, HoldLeft)
       IN  /\ frames' = IF s.op = "break"
                        THEN [frames EXCEPT ![Innermost].breaks = Union(@, heard.marks)]
                        ELSE [frames EXCEPT ![Innermost].continues = Union(@, heard.marks)]
           /\ Report(heard)
    /\ marks' = Nil
    /\ pc' = pc + 1
    /\ UNCHANGED scope

\* `if`, `if let` and `match`, each entered by its first arm, and a closure,
\* walked once where it is handed to a call.
Enter(s) ==
    /\ s.op \in {"if", "match", "closure"}
    /\ At(s)
    /\ LET heard == Heard(marks, EventsOf(s, pc))
       IN  /\ Open(s, heard.marks, Nil)
           /\ marks' = Heard(heard.marks, EntryOf(s, pc)).marks
           /\ Report(heard)

\* Each arm starts where the head left off.
NextArm(s) ==
    /\ frames # <<>> /\ <<Top.op, s.op>> \in {<<"if", "else">>, <<"match", "arm">>}
    /\ At(s)
    /\ frames' = [frames EXCEPT ![Len(frames)].op = IF @ = "if" THEN "else" ELSE @,
                                ![Len(frames)].exit = Union(@, marks)]
    /\ marks' = Heard(Top.entry, EntryOf(s, pc)).marks
    /\ scope' = Top.scope \cup Binds(s)
    /\ pc' = pc + 1
    /\ UNCHANGED <<badUses, badAliases>>

\* An `if` without an else may also be passed by.
Leave(s) ==
    /\ s.op = "end"
    /\ frames # <<>> /\ Top.op \in {"if", "else", "match", "closure"}
    /\ At(s)
    /\ marks' = IF Top.op = "if" THEN Union(marks, Top.entry) ELSE Union(Top.exit, marks)
    /\ Close
    /\ UNCHANGED <<badUses, badAliases>>

While(s) ==
    /\ s.op = "while"
    /\ At(s)
    /\ LET heard == Heard(marks, EventsOf(s, pc))
       IN  /\ Open(s, marks, heard.marks)
           /\ marks' = Heard(heard.marks, EntryOf(s, pc)).marks
           /\ Report(heard)

\* The head of a `for` is evaluated once, before its rounds.
For(s) ==
    /\ s.op = "for"
    /\ At(s)
    /\ LET heard == Heard(marks, EventsOf(s, pc))
       IN  /\ Open(s, heard.marks, heard.marks)
           /\ marks' = Heard(heard.marks, EntryOf(s, pc)).marks
           /\ Report(heard)
-----------------------------------------------------------------------------
(***************************************************************************)
(* The end of a loop's body.  The first walk goes back to the head, from   *)
(* every state that can reach it; the second leaves the loop.              *)
(***************************************************************************)
EndsBody(s, op, walk) ==
    /\ s.op = "end"
    /\ frames # <<>> /\ Top.op = op /\ Top.walk = walk
    /\ At(s)

Again(exit, m) ==
    /\ frames' = [frames EXCEPT ![Len(frames)].walk = 2,
                                ![Len(frames)].exit = Union(@, exit),
                                ![Len(frames)].continues = Nil]
    /\ marks' = Heard(m, EntryOf(Top.line, Top.at)).marks
    /\ pc' = Top.at + 1
    /\ scope' = Top.scope \cup Binds(Top.line)

WhileAgain(s) ==
    /\ EndsBody(s, "while", 1)
    /\ LET head == Union(Union(Top.entry, marks), Top.continues)
           heard == Heard(head, EventsOf(Top.line, Top.at))
       IN  /\ Again(heard.marks, heard.marks)
           /\ Report(heard)

WhileEnds(s) ==
    /\ EndsBody(s, "while", 2)
    /\ marks' = Union(Top.exit, Top.breaks)
    /\ Close
    /\ UNCHANGED <<badUses, badAliases>>

ForAgain(s) ==
    /\ EndsBody(s, "for", 1)
    /\ LET heard == Heard(marks, HoldOf(Top.line, Top.at))
           head == Union(Union(Top.entry, heard.marks), Top.continues)
       IN  /\ Again(head, head)
           /\ Report(heard)

ForEnds(s) ==
    /\ EndsBody(s, "for", 2)
    /\ LET heard == Heard(marks, HoldOf(Top.line, Top.at))
           rounds == Union(heard.marks, Top.continues)
       IN  /\ marks' = Union(Union(Top.exit, rounds), Top.breaks)
           /\ Report(heard)
    /\ Close

Finish ==
    /\ ~done /\ pc > Len(code) /\ frames = <<>>
    /\ done' = TRUE
    /\ UNCHANGED <<fn, code, pc, scope, marks, frames, badUses, badAliases>>

Walks(s) ==
    \/ Straight(s) \/ Return(s) \/ Jump(s) \/ Enter(s) \/ NextArm(s) \/ Leave(s)
    \/ While(s) \/ WhileAgain(s) \/ WhileEnds(s)
    \/ For(s) \/ ForAgain(s) \/ ForEnds(s)

Next == Finish \/ \E s \in fn.stmts : Walks(s)

Spec == Init /\ [][Next]_vars
=============================================================================
