---------------------------- MODULE TypedBodies ----------------------------
(***************************************************************************)
(* The type checker on one function after another, and what it owes the    *)
(* rest of the compiler: the Rust printed for a body it takes compiles, a  *)
(* body it refuses has a report that blames the right place, and no task   *)
(* it lets through is dropped unseen.                                      *)
(***************************************************************************)
EXTENDS RustTypes
LOCAL INSTANCE SequencesExt

CONSTANT Checks(_)   \* what the type checker gives for a function, [t, bad]

VARIABLES
  source,      \* the function being checked: [ret, async, test, params, body]
  typed    \* <<>>, or <<what the check gave>>

bodyvars == <<source, typed>>
BodyStart(f) == source = f /\ typed = <<>>
CheckBody ==
  /\ typed = <<>>
  /\ typed' = <<Checks(source)>>
  /\ UNCHANGED source

Accepted == typed # <<>> /\ typed[1].bad = <<>>
-----------------------------------------------------------------------------
(* The names a body mentions that nothing around them binds: `_` none ever. *)
RECURSIVE FreeIn(_, _), FreeInBlock(_, _)
FreeInAll(es, bound) == UNION {FreeIn(es[i], bound) : i \in DOMAIN es}
BoundBy(p) == ToSet(BoundNames(p))
FreeIn(e, bound) ==
  CASE e[1] = "path" -> IF e[2] = "" /\ e[3] \notin (bound \ {"_"}) \cup Constructors THEN {e[3]} ELSE {}
    [] e[1] = "bin" -> FreeInAll(<<e[3], e[4]>>, bound)
    [] e[1] = "un" -> FreeIn(e[3], bound)
    [] e[1] \in {"call", "print"} -> FreeInAll(e[4], bound)
    [] e[1] = "method" -> FreeInAll(<<e[2]>> \o e[4], bound)
    [] e[1] = "lit" -> UNION {FreeIn(e[4][i][2], bound) : i \in DOMAIN e[4]}
    [] e[1] = "vec" -> FreeInAll(e[2], bound)
    [] e[1] = "index" -> FreeInAll(<<e[2], e[3]>>, bound)
    [] e[1] \in {"field", "try", "await", "cast"} -> FreeIn(e[2], bound)
    [] e[1] = "closure" -> FreeIn(e[3], bound \cup ToSet(e[2]))
    [] e[1] = "block" -> FreeInBlock(e[2], bound)
    [] e[1] = "if" ->
         FreeIn(e[2], bound) \cup FreeInBlock(e[3], bound) \cup UNION {FreeInBlock(e[4][i], bound) : i \in DOMAIN e[4]}
    [] e[1] = "iflet" ->
         FreeIn(e[3], bound) \cup FreeInBlock(e[4], bound \cup BoundBy(e[2]))
         \cup UNION {FreeInBlock(e[5][i], bound) : i \in DOMAIN e[5]}
    [] e[1] = "match" ->
         FreeIn(e[2], bound) \cup UNION {FreeIn(arm[2], bound \cup BoundBy(arm[1])) : arm \in ToSet(e[3])}
    [] OTHER -> {}
FreeInStmt(s, bound) ==
  CASE s[1] = "let" -> FreeIn(s[4], bound)
    [] s[1] = "assign" -> FreeInAll(<<s[2], s[3]>>, bound)
    [] s[1] = "do" -> FreeIn(s[2], bound)
    [] s[1] = "return" -> FreeInAll(s[2], bound)
    [] s[1] = "while" -> FreeIn(s[2], bound) \cup FreeInBlock(s[3], bound)
    [] s[1] = "whilelet" -> FreeIn(s[3], bound) \cup FreeInBlock(s[4], bound \cup BoundBy(s[2]))
    [] s[1] = "for" -> FreeInAll(Tail(s[3]), bound) \cup FreeInBlock(s[4], bound \cup {s[2]})
    [] OTHER -> {}
FreeInBlock(b, bound) ==
  LET before(i) == bound \cup {b.stmts[j][2] : j \in {j \in 1 .. i - 1 : b.stmts[j][1] = "let"}}
  IN UNION {FreeInStmt(b.stmts[i], before(i)) : i \in DOMAIN b.stmts}
     \cup FreeInAll(b.tail, before(Len(b.stmts) + 1))

(* Whether what holds a value that is a task, or a list or chain of tasks, *)
(* keeps it within reach: n is its i-th part.                              *)
RECURSIVE HoldsTask(_), KeepsTasks(_)
HoldsTask(t) == t[1] = "Task" \/ (t[1] \notin {"struct", "enum"} /\ \E i \in 2 .. Len(t) : HoldsTask(t[i]))
Keeps(n, i) ==
  \/ n.k \in {"await", "vec", "let"}
  \/ n.k = "call" /\ n.d.f[1] = "Task"
  \/ n.k = "closure" /\ n.parts[i].k # "local"
  \/ n.k = "method" /\ i = 1 /\ n.d.f \in {<<"Task", "detach">>, <<"chain", "collect">>}
  \/ n.k = "method" /\ i = 2 /\ n.parts[i].k = "closure" /\ n.d.f[2] = "map"
  \/ n.k = "block" /\ n.d /\ i = Len(n.parts) /\ n.parts[i].k # "local"
KeepsTasks(n) ==
  \A i \in DOMAIN n.parts :
    /\ HoldsTask(n.parts[i].ty) => Keeps(n, i)
    /\ n.k = "let" /\ HoldsTask(n.parts[i].ty) => n.d[1] # "_"
    /\ KeepsTasks(n.parts[i])
-----------------------------------------------------------------------------
(* Every body the checker takes compiles as the Rust printed for it        *)
(* (tests/soundness.rs:1: a program that passes `varyk check` must compile *)
(* under rustc), whatever order the wanted types were handed down in.      *)
AcceptedCompiles == Accepted => RustTakes(source, typed[1].t[1])

(* A check that gives nothing has said why (check.rs:387), though a name   *)
(* that failed, and all that is made of it, fails without a word.          *)
RefusedIsReported == typed # <<>> /\ Fails(typed[1]) => typed[1].bad # <<>>

(* An unknown name is reported only of one that nothing binds: not of a    *)
(* name whose own binding, or the head its pattern is for, failed before   *)
(* (check.rs:358-361, one error does not cascade).                         *)
UnknownOnlyUnbound ==
  typed # <<>> =>
    \A i \in DOMAIN typed[1].bad :
      LET report == typed[1].bad[i]
      IN Len(report) = 2 => report[2] \in FreeInBlock(source.body, {p[1] : p \in ToSet(source.params)})

(* What is reported of a body: something of each that fails, and no name   *)
(* that is bound.                                                          *)
ReportsAreExact == RefusedIsReported /\ UnknownOnlyUnbound

(* A task that a taken body starts goes where it is awaited, let run on    *)
(* purpose or kept under a name: nowhere is one dropped, which would stop  *)
(* it (asyncs.rs: `task_places`).                                          *)
TasksAreKept == Accepted => KeepsTasks(typed[1].t[1])
=============================================================================
