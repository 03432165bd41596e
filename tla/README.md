# Verification of Varyk

TLA+ models of the Varyk compiler, its language server and the runtime its programs run on, checked by TLC on
small instances and, where it says so, proved by TLAPS for every value of the constants. The models are
translated from the Rust source under `src/crates/`; `PROJECT.json` maps every definition to its lines.

Varyk compiles `.vr` files to a Rust crate and hands it to cargo. The compiler is sequential; what is hard
about it is the order of its passes over a program that branches, loops and recurs. Two parts are not
sequential in their input: the language server, whose state outlives a message while the disk and the editor
go their own ways, and the task runtime of a compiled program.

## 1. The system

| Component | State it keeps | Operations | Hard behaviour | What makes it correct | Model |
|---|---|---|---|---|---|
| Tasks (`varyk-std/task.rs`, `runtime.rs`, `time.rs`) | a handle per task; tokio's task states | start, await, `all`, `try_all`, detach, drop, `run` | interleaving, aborts racing ends, panics across tasks, lost wake-ups, shutdown | no task outlives its starter unless detached; a stop takes effect; values in order | `TaskRuntime` |
| Language server (`varyk/lsp.rs`) | per program: files published for, fix-its kept; documents changed | the LSP messages; `check`, `guarded`, `code_actions` | stale offsets, files moving between programs, a check that panics half-way, restored buffers | diagnostics keep an owner; an offered edit fits the text it is applied to | `LanguageServer` |
| Flow rules (`borrow/moves.rs`, `borrow/aliases.rs`) | marks per local, loops being walked | one walk in statement order, two rules on it | joins, jumps, two walks of a loop, first-mark-wins | what is reported is what goes wrong on some run | `FlowRules`, `FlowWalk`, `FlowRuns` |
| Places and alias roots (`borrow.rs`, `aliases.rs`, `patterns.rs`, `slots.rs`, `strings.rs`) | per local: place, roots, owned text | a forward pass, then a fixed point | temporaries read in place, two loans in one call, flows backwards through loops | what is accepted is Rust that borrows soundly; roots are all a name may refer to | `Places`, `BorrowedText` |
| What calls return (`borrow/returns.rs`) | a classification per function | groups of the call graph, callees first | recursion, order of groups | a returned part is of one argument, on every path | `CallGroups` and `BorrowedText` (proved about in `CallGroupsProofs`, `BorrowedTextProofs`), `Places` |
| Derives (`types/derives.rs`) | the types that still have a trait; what the calls reach | rounds, explanations, checks | types that hold each other | a written `#[derive]` compiles | `Derives`, `TraitJudgement` |
| Types of a body (`types/check.rs`, `types/check/**`, `builtins.rs`) | the names in scope, the types wanted, where a task may be made | one descent that hands wanted types down and types up | holes filled from far away, names whose binding failed, branches that leave, where a task may stand | what is accepted compiles; what is refused says so at the right place; no task is dropped unseen | `PatternTypes`, `MethodRows`, `TypeCheck`, `TypedBodies` |
| Exhaustiveness (`types/check/exhaustive.rs`) | the rows of patterns | usefulness | cut ranges, nested patterns | reported exactly when some value falls through | `Exhaustive` |
| Name resolution (`resolve/**`) | modules, items, imports | load modules, resolve `use` to a fixed point, visit types | re-exports across files, visibility, recursion through types | whoever can use an item can name it | `ModuleTree`, `Visibility`, `Uses`, `InlineTypes`, `RecursiveTypes` |
| Packages (`package.rs`, `packages.rs`) | the package graph, the lock | read manifests, walk dependencies | diamonds, two versions, features, workspaces | what is accepted is what cargo builds | `PackageManifest`, `PackageGraph` |
| Driver (`driver/**`) | a generated tree on disk | write, clear, publish, run cargo | two builds at once, a stop between two steps | a later build repairs what an earlier one left | `GeneratedTree`, `PublishedPackage` |
| Parser and backend (`varyk-syntax`, `backend/**`) | the token it is at, the reports so far | recursive descent with fix-its, printing | mistakes it reads over and goes on from, fix-its inside one another; precedence, parentheses; where a `&` is written | nothing written is lost without a word, a fix-it settles its report; Rust reads the tree Varyk read; the Rust compiles | `SourceText`, `ExpressionText`, `Emission` |

How they meet. `cli.rs` reads a target, calls the parser, `resolve`, `types`, `borrow`, then `backend` and
`driver`; each stage is a function of the one before. The language server calls the same `check_target` and
keeps its diagnostics. The borrow checker calls `returns` first, then per function `places`, `alias_roots`,
and one walk per rule. A generated program links `varyk-std`; `runtime::run` blocks on its `main`, and the
compiler's async rules keep every `Task` in the function that started it, which `TaskRuntime` relies on.

`PROJECT.json` lists the hazards at their lines, each with the properties about it.

## 2. How the project is built

One module per component; the constants are declared with named assumptions, there is an action per operation or per
step, and the reference a pass is compared with stands below a line in the same module and maps to no code (for the
flow rules and the types in a module of its own). `RECURSIVE` operators occur only in `Exhaustive`, `InlineTypes`,
`ExpressionText` and the modules of sections 14, 15 and 16, of which nothing is proved.

A compiler pass is a sequential program over its input, so its model starts in every small input and takes the
pass's own steps. Such models would each be a tiny run; they are joined instead. `MCBuild`, `MCFront` and `MCBodies` compose
modules by a *subject*: a variable, chosen at the start and never changed, that says whose steps this behaviour
takes, while the variables of the others stay at one idle input. A behaviour of the joined specification is a behaviour
of one of its parts, and the properties of each part are checked in one run.

| Run | Subjects | Size |
|---|---|---|
| `tasks` | `TaskRuntime` | 100,000 states |
| `lsp` (`MCLanguageServer`) | `LanguageServer`; `SourceText`, with the server at rest | 1.4 million |
| `bodies` (`MCBodies`) | `FlowRuns` over `FlowWalk` over `FlowRules`; `TypedBodies` over `TypeCheck` | 730,000 |
| `packages` (`MCBuild`) | `GeneratedTree`; `PublishedPackage` over `PackageManifest`, `PackageGraph`, `ModuleTree`; bodies over `Places`, `Emission`, `RustBorrows` | 1.7 million |
| `front` (`MCFront`) | `Uses` over `Visibility`, with `RecursiveTypes`; `Derives`; `Exhaustive`; `BorrowedText`; `CallGroups`; `ExpressionText` | 1.2 million |

Seven more runs each refute one sentence the repository says of the program (section 12).

## 3. Tasks: `TaskRuntime`, `TaskRuntimeProofs`

A task is a future (`state`), a `Task<T>` value (`handle`), an abort flag and a future it is suspended in
(`wait`). `Start`, `Detach`, `Drop`, `Await`, `AwaitList` and `Sleep` are what a program's own code does at the
points where it may; `Finish` is its function returning or panicking. `Run`, `Poll`, `Deliver` and `Suspend` are
one poll of a future, one handle at a time, so that tasks end between two handles of a list: `Poll` has a
disjunct for each arm of `Task::poll` and of `try_all`'s loop. `End` drops what a future holds, which aborts it.
`Cancel` is tokio dropping an aborted future between polls, or any future at shutdown.

tokio, `join_all` and `FuturesUnordered` are external, modelled from how `task.rs` uses them: `join_all` asks every
unfinished handle on each poll, `FuturesUnordered` only those whose waker fired, in that order.

Abstractions. A task's value is its number. A `Vec<Task<_>>` lists its tasks in start order: the language only
gives such a list away whole. `join_all` above 30 tasks uses `FuturesOrdered`, which asks fewer handles and gives the same values.
A failed runtime build exits the process before anything here exists.

Run `tasks` (`MCTaskRuntime.cfg`): `MaxTasks = 2`, main and two tasks started by it or by one another, about
100,000 states. Two suffice for a list whose elements end in either order, a chain main - task - task (a panic
that travels two levels, a cancelled task that holds a task), and an abort racing an end. It shows

- `HandleInv`, `HeldIsAlive`, `NothingForgotten`, `DetachedRunsOn`: an abort comes from a dropped handle only; what
  somebody still holds is never cancelled before the shutdown, so the `Poll::Pending` arm of `poll` for a
  cancelled task is only reached then, as its comment says; nothing runs on forgotten;
- `InListOrder`, `FirstErr`: `all` and `try_all` give the list's order, and which `Err` comes first;
- `PanicsResume`: a panic reaches exactly the waiters;
- `StopsAtAwait`: a task whose handle was dropped never passes the await it stands at, and what is over stays over;
- `WakesUp`, `StopTakesEffect` (liveness): no wake-up is lost, a task whose handle was dropped ends.

Fairness: weak, per task, on `Run`, `Poll`, `Deliver`, `Suspend` and `Cancel`: tokio polls every task that was
woken, a poll runs until it returns, an abort schedules its task. There is none on the program's own code, which
may compute or sleep for ever, nor on the timer.

Proved, for any `MaxTasks` (a natural number): `TypeCorrect`, `HandlesTied`, `WaitersAreAnswered`, `NoTaskForgotten`,
`DetachedLives`, `PanicsGoToTheWaiter`, `StoppedStays`, `ErrOfTheFirst` (`FirstErr`), `ValuesInOrder` (`InListOrder`). None of these safety properties is inductive: dropping a handle must be known to
abort, and a held handle to have a live holder. `HandleInv` adds that and is inductive with the type invariant;
`NextHandles` shows it, action by action, on the two lemmas `EndHandles` (a future ends and drops what it holds)
and `DropHandles`. `PanicsResume` also needs to know what a suspended task may be woken by: `WaitInv` says it
waits only for tasks of its own whose handles it holds or whose values it has taken, and a panic is never taken.
`NextPanics` uses it at `Poll` alone; `EndExplains` covers every other end.

The order of results reads what a list's wait has done, which is `ListInv`: it has the values it took, each once, and inside `try_all` every task is still to be asked,
was asked, or has given its value, and the queue holds what was asked and has ended since, in the order of the ends. Only three kinds of step touch it: a poll (`PollLists`), an end, which tells
the waiter (`EndLists`), and the beginning or end of a wait (`ListBegins`); `Apart` says that no task is in two waits, and `ListKept` leaves the other waits alone. `ErrGiven` is then the
argument of `FirstErr` for one poll: an `Err` that ended earlier and was asked for would be queued before, and what was not asked for is asked in the list's order. `ByPlace` says that elements
placed by how many come before them are all there and in order, which the library's facts on injections between finite sets give. Only model-checked: the liveness properties.

## 4. The language server: `LanguageServer`, `LanguageServerProofs`

The server handles one message at a time (`serve`), so each message is one action, with the disk as it then is;
`Check` is the whole of `Server::check`: the file leaves the programs it no longer belongs to, then the check
fails (`CheckFails`: a panic, or an entry that cannot be read) or finds (`CheckFinds`) any diagnostics, and the result
replaces what the program had. What the compiler finds is free: any set of files read, of files with
diagnostics among them, and a fix-it between any two. `shownBy` is what the editor shows, as the messages the
server publishes make it. The editor's side (external) opens, edits, saves, closes and asks, with a queue between it
and the server; something else may write, remove or add files and the manifest.

Abstractions. Framing, JSON, URIs and UTF-16 positions are left out; ranges too, so a code action is asked for a document. A document is
named only after `initialize` was sent. A save is one step for the editor. `Cargo.toml` is never open in it. A directory tree is one
`main.vr` with files beside it or below it.

Run `lsp` (`MCLanguageServer.cfg`): `main.vr` (there or not) and `math.vr` beside it, two texts, a queue of 2, 5 messages, one change from
outside, at most one fix-it per check; 1.4 million states with those of section 16, counted without `readBy`, a history variable none of the run's properties but its type needs. Five messages are `initialize`, an open, an edit or a save of
each of two files and a code action: enough for a file to be checked alone, gain a program around it and be checked again. It shows

- `OwnerCanClear`: whatever moves files between programs, the program a shown diagnostic came from still lists the file;
- `FixesPublished`: a kept fix-it goes with a published diagnostic of its program;
- `FixFits`: a fix-it offered to an editor that still waits for it fits the text in its buffer, unless that file
  was written behind its back;
- `DirtyIsMarked`: once what is queued about a file is handled, a buffer that differs from the disk is marked changed.

These are safety properties without fairness: the editor may stop at any time.

Runs `lsp_elsewhere` and `lsp_behind` (violations) are two sentences of the design document, section 12.

Proved, for any files, texts and bounds: `TypeCorrect`, `NothingStranded` (`OwnerCanClear`), `FixesGoWithDiagnostics`
(`FixesPublished`), `UnsavedIsKnown` (`DirtyIsMarked`), `OfferedFits` (`FixFits`). The conjunction of the first three is inductive; only `DidOpen` and `DidSave` touch what is kept, and both only through
`Check`, so the work is in the lemmas `FailKeepsOwner`, `FindKeepsOwner` and `CheckKeepsFixes`.
The last two are about the queue. `EditorInv` is their induction: the types, `SessionInv` (documents are named
only in a session that is, or is about to be, initialized), `AskInv` (a code action that is still awaited is the only one and has no edit
behind it) and `DirtyIsMarked` itself, for which `StepKeepsMarked` follows the last queued message about each file. `FixFits` then
follows from a state alone: with no edit of the fix-it's file behind the request, an unsaved buffer would be marked changed.

## 5. The borrow checker's flow rules: `FlowRules`, `FlowWalk`, `FlowRuns`

`FlowRules` has the two rules as operators: what one event (an access, a binding, a loan, a loop's hold) does
to a rule's marks and what it reports. `FlowWalk` is `Walker`: an action per statement, `frames` for the recursion
of `stmt`, `while_`, `for_` and `expr`, `Nil` for unreachable code (the code's `None`), joins by `Union`, loops walked twice. The code walks once per rule; here
both rules hear the same walk, which neither influences. The function is not given: when the walk comes to the end of what is written, any
statement the language allows may follow, so one run covers every body up to a length.

`FlowRuns` is the reference and maps to no code: once the walk is done it follows every run of the body, as a set of
points, each with the locals really given away and *every* break of each alias. It shares with the walk what an event
is, and nothing of joins, jumps, loops or which mark is kept.

Run `bodies` (`MCBodies.cfg`, subject `walk`, from `MCFlow`): nine functions, each a few locals in one of the relations the rules tell apart (values moved,
an alias and a `while let`, a mutable alias and one made through it, a `match`, a closure whose parameter is kept or only looked
at, a `for` whose variable is a reference or a copy, text assigned in a loop), bodies of up to 6 lines
(5 where locals get new values, 7 with jumps alone), 400,000 states. Six lines hold a loop with a conditional jump and a use in it, seven one after it too. It shows

- `WalkIsExact`, which is both of the next:
- `LateIsExact`: the uses after a move (V0305) and the looked-at items given away (V0304)
  that are reported are exactly those of some run, so joins and the second walk lose nothing and add nothing;
- `StaleIsExact`: every use of a broken alias is answered by a report of a break that reaches it (`StaleIsReported`), and
  every reported break (V0307) is met by some run.

Run `chain_first_mark` (violation) is a loop over a chain, for which `StaleIsReported` fails: section 12. The
functions of run `bodies` have no such head.

Not in `FlowWalk`: block-like expressions inside other expressions (section 15 walks them); not modelled: the wording and notes of a report (`repeating`, which only picks
wording), and how `alias_roots` finds the roots (given here, `FunctionsAssumption` saying they are closed; `BorrowedText` and `Places` find them).
Nothing is proved of these modules: the reference is a reachability over data.

## 6. What text refers to, and what calls return: `BorrowedText`, `BorrowedTextProofs`, `CallGroups`, `CallGroupsProofs`

`CallGroups` is Tarjan's algorithm as `components` runs it, an action per entering, edge and leaving, and after it the
breadth-first search of `async_cycles`, an action per call looked at and per step of `shortest_cycle`'s trace back.
`CyclesReported`: the groups are those of mutual reachability, each after the groups it calls, and every group that can wait
on itself is reported once, at its first function, along a cycle that no other through that function is shorter than; no
other group is reported. Run `front`: every graph of three functions with calls in any order, and of four with up to two calls.

`CallGroupsProofs` proves it for any functions and any calls (`CyclesFound`), from the invariant `CallsInv` (`CallsKept`).
It assumes nothing of the calls but that they are of functions of the program, which `CallsStart` says.
What a function reaches is a least set, so a proof takes a set that is closed under calls and has the first of them in it. The invariant has two halves:

- The walk (`WalkOK`). Of the functions that are open, one reaches those numbered after it, and reaches one being visited
  that is numbered no later than itself; a low is the number of an open function that is reached; and the low of a visit is
  below every open callee it, or a function entered since and before the next visit, has looked at. The last part is what
  the lows are for: when a visit ends with its low its own number, what is open from there on is closed under calls but for
  the groups found before, hence is the group (`GroupFound`); with a lower low its caller is there to take it (`WalkLeft`).
- The search (`SearchOK`). There is a number of steps for each function found, one more than that of where it was found
  from; the queue is in that order, and nothing is more than a step further than its head; every call looked at leads out of
  the group or to a function found by no more steps. A walk back to the start that is shorter than the way to the head
  would have to leave what was looked at (`NoShorter`), and a search that ends with none has a closed set of functions
  without the start in it (`NoneFound`).

`BorrowedText` classifies the functions of a program group by group (`Classify`: `bind`, `alias_roots`, `classify_body`), then decides
which texts are owned and whether the program is refused, and then, which maps to no code, *runs* what was accepted: calls, a loop run up to
`Rounds + 1` times, `if`s taken either way, moves, literals copied. `RefersToItsRoots` compares each reference the run makes with the roots found for
it. The other rules rest on this: a root that is missing is a change nobody sees. Bounds: two functions, up to seven locals, a call
depth of 3, so a chain of three copies that runs backwards through the loop and a call into the other function both occur. Text only: the roots of
elements, patterns, slots and chains are not modelled.

`BorrowedTextProofs` proves it for any program, calls of any depth and loops of any number of rounds (`RefersToItsRootsAlways`). Assumed of the program is `WellFormed`, what resolution and typing see to:
a local is declared once, only a text that a `let` declares is set, a leaf names locals of its own function and gives a call its arguments, and what the loop declares is named in the loop alone. Run `front` starts
from such programs only. Every fixed point of the analysis is a `Settled`: a set that a step only adds to is followed until nothing changes, and `Settled` has a bound on how long that
takes. That the bound suffices is itself proved, from there being no more steps than elements (`StopsGrowing`, `SettledLeast`); what the proofs then use is that the result is closed under its step
and least. The invariant `BorrowInv` (`BorrowKept`) has three parts.

- `Classified`: a classified function has the borrowed `let`s, roots and class the analysis finds now, though more was classified since. What is found of a function depends on the classes of
  those it calls outside its group only (`SameAnalysis`), and these were known before.
- `EnvOK`, of the locals of each call: text that must be owned holds no reference, and no other `let` owns its text; a parameter holds what an outer call holds; a reference has a root, a parameter that holds it too or the place itself
  (`RootedText`); and what refers to what the loop declares is declared there as well, and known to be gone after it or copied from what is (`LoopText`). The last two need each other's company: that an assigned
  reference has a root (`AssignKeeps`) rests on the roots being closed (`GivenRooted`) and on owned texts being linked by every copy, so that a move never makes a root lose the text others refer to (`OwnedLinks`);
  that it does not outlive the loop rests on `Gone` having refused it (`SourceDangles`).
- `StackOK`: each call but the first was made by a leaf its caller still stands at, with the arguments that leaf shows. So what comes back is part of the right argument (`ReturnGives`): the class of the function says of which
  (`ReturnKeeps`), and of its roots those that have none in turn are all that a returned leaf can be part of (`TerminalRoots`).

## 7. Derived traits: `Derives`, `TraitJudgement`, `DerivesProofs`

`Derives` has `compute`'s rounds for `Clone` and `PartialEq`, the calls that ask for a trait or read and write JSON and the environment,
the explanations, and the checks of the types reached. `TraitJudgement` is the abstract promise: a trait is
judged once, and given to the largest set of types that can have it together. `RoundsJudge` is the refinement,
`Judgement == INSTANCE TraitJudgement WITH program <- decl, verdict <- Verdict`: a round is a stutter, the end of a trait's rounds is its judgement. `DerivesHold`: the derives
written for an accepted program compile. Run `front`: three types, the first two Varyk's, in all the ways of holding one another that the rules tell
apart, and the third Rust's, a package's or Varyk's; one or two calls.

Proved for every program, whatever its types and calls: `TraitsShared` (`DerivesInv` is an invariant), `RoundsImplementJudgement` and `DerivesCompile` (`DerivesHold`). `DerivesInv` says
that only types that list the trait begin with it, that no set of types that could share it has lost one of its own, and that a judged trait is shared by those left;
`SharersStay` is why a round keeps it, `SolvedIsShared` why the end of the rounds gives a set that can share, and the two
together make it the largest. `DerivesCompile` takes `DerivesInv` for `Clone` and `PartialEq`, and for serde's traits a second inductive invariant, `CallsInv`: every set of types
the calls reach is *good* (`GoodSet`: each type in it is Varyk's own, without data if it is an enum, and what its fields hold is in the set), and once the checks have passed nothing that is read
has a field to fill. `add` stops at types reached before and `convertible` does not, so what is added is good only because both are least walks of one graph (`ThroughLeast`, `JsonAdds`; for the
environment `EnvAdds`). That is why `Through` is a least set and no recursion. Assumed of the program (`Program`, at the start): what a type holds is declared, and an enum without data is the keys of its variants.
`ExplanationEnds` fails: section 12.

## 8. Matches: `Exhaustive`

The usefulness check of `exhaustive.rs` as recursive operators, an action per arm and one for what is left. The reference enumerates
values. `MatchIsExact`: an arm is reported when, and only when, no value reaches it, a `match` when, and only when, some value fits no arm,
and each shape named has such a value. Run `front`: up to three arms of literals and overlapping ranges, or of an enum whose payloads are a `bool`, an `Option<bool>`
and a number, and four of `Option<bool>`: ranges cut by three others, and a constructor missing two levels down.

## 9. Names: `Visibility`, `Uses`, `InlineTypes`, `RecursiveTypes`, `NamesProofs`

`Visibility` has the operators that decide who sees what. `Uses` has the rounds that enter every `pub use`, an action per
line, then `register` per line, then what another package takes of the re-exports. `InlineTypes` reads the types a type lays out inline out of its fields, and
`RecursiveTypes` is the depth-first walk over them, with the recursion's frames as a stack. Composed by `MCNames`: types are visited once the uses are done.

- `TypesAreNameable`: over every tree of four modules, each `pub` or not: whoever may call a function can name its types, another package too; an alias is of an item its module can name by the item's own path, which is what is written; whoever
  can name a re-export can name what is behind it.
- `ReexportsComplete`: each `pub use` has entered all its path names. Run `front` has X in one namespace, where it holds; run `reexports` has both, where it does not (section 12).
- `RecursionReported`: three types, any inline and boxed holdings: each type without a size is in a reported tangle.

`UsersNameIt` proves `TypesAreNameable` for any tree of one package's modules, any items and any lines (`UsesSpec`; assumed at the start: modules are numbered parents first, as they are loaded, items stand in
modules). The first half is `ReachExact`: `reach` names exactly the modules that see an item, `CanName(from, m, p) <=> Contains(Reach(m, p), from)`. It needs that two modules one is inside of are inside one another
(`AncestorsChain`) and that all are inside the root (`RootIsAncestor`), which is what makes the lowest module that is not `pub` decide; the rest is that being inside carries over (`UsersCanName`, `RustUsersCanName`).
`Ancestors` is the least set with every parent of its own, so that this can be proved; a least or greatest module comes from the library's well-founded induction (`LeastOf`). The second half is an invariant of the rounds,
`UsesInv`: what a `pub use` has entered is `pub` all the way, an alias means what its module can name, each line `register` is past is reported or has made an alias. `LookupIsTarget` is why a line that goes through
another line's re-export or alias keeps it. Of an import it says no more than the code gives: the item's module is open and an item of that name in it is `pub`, not always the imported one (section 12).
`ReexportsComplete` cannot be proved: with two namespaces it is false.

`NoneMissed` proves `RecursionReported` for any number of types and any holdings (`TypesSpec`; each type lays out declared types). "Reported" cannot be an invariant of one type: the cycle through it may
be closed long before it is left, at a type below. `WalkInv` says instead what a type that is left may rely on. Of the stack: each type lays out the next, so all above are inside it. Of each type on it: whatever it has
looked at is done, or is next on the stack, or was found on the stack and is the first type of a reported cycle (`Settled`). So when a type is left, all it lays out is done or reported, and if it contains itself the way around
goes through one of those: reported, the cycle is in its tangle; done, that type contains itself too, and the cycle reported for it runs through the same tangle (`LeaveKeeps`).
`InsideOf` is a least set for this: what is inside a type is laid out by it or inside something that is (`InsideBegins`).

## 10. Packages: `PackageManifest`, `PackageGraph`, `ModuleTree`, `PublishedPackage`, `PublishedPackageProofs`

The first three are the parts: what a `Cargo.toml` may say and which `varyk-std` a build gets for it, the depth-first walk over cargo's
graph and its refusals (an action per turn), and the loading of a package's modules (an action per declaration). `PublishedPackage` composes them in the order the commands do,
and follows a library from its author's `varyk publish` to a user's build: the manifest cargo publishes and the files assembled are read again, by the rules for a dependency.

- `GraphVerdict`: over every graph of four packages with plain, other and optional edges, in either order, with an edge back to the program, with two of
  one name, the program's included: what is accepted is built once each, dependencies first, keys leading where cargo resolved them; what is refused has a cause.
- `PublishedIsUsable`: over some 20,000 manifests and module trees: what publishing accepts, a user's build accepts, with the same modules.
- `PublishedStdIsOwn`: over every line, lock and set of published versions: what is published gets a `varyk-std` as new as the compiler.

Each initial state differs from a plain package in one part only (`MCBuild`): the parts meet in what publishing writes, not in each other's conditions.
The proofs have no such restriction: `PackagesSpec` starts in any manifest, lines, graph and files together.

Proved, for packages and graphs of any size: `VerdictsAreRight` (`GraphVerdict`), `PublishedGetsItsStd` (`PublishedStdIsOwn`) and `PublishedCanBeUsed` (`PublishedIsUsable`).
What they assume is `PackagesStart`: that cargo's graph has no cycle but through the program (only a development dependency of the program may close one, and cargo refuses any other) and holds only what something leads to,
and that each `varyk-std` line admits a version, without which cargo answers nothing. Of the constants: a target table is not `NoTable`, and there are finitely many versions.

- The walk: `WalkOk` ties the four things it keeps. `OrderOk`: what is finished stands after the Varyk packages its plain edges lead to; `PathOk`: the stack is a path of such edges from
  the program; `MetIs`: what was met is finished or on the path; `PastFollowed`: every edge before a package's next one leads to something met. A package that is finished can then lead back to nothing
  on the path, since that would be a cycle (`GoBack`; `GoOn` is the other turn). Only when no rule of `Judge` refuses does the end of the walk hold every Varyk package (`AllFound`): one that
  plain edges from the program do not reach is reached by another table or through a Rust crate, and both are refused.
- The versions: `PassesIsOwn` needs only that the order of versions is total (`OlderOrder`, `OldestIs`, `NewestIs`) and that a requirement resolves inside its minor (`ResolvesTo`). It uses both checks of publishing: the lock's rule for the
  package's own line, and `check_build_std` for the packages it uses.
- The files: `Loaded` says which modules the declarations read so far load, as a map from each module to the place of its declaration, increasing and without gaps. `LoadedAgain` carries it from the author's rules to the user's:
  each declaration finds the same single file, though a generated name.rs now lies beside every .vr. `Replays` is the induction of the user's loading: each step loads the next of the author's modules (`ReplayGoesOn`), and no
  declaration is left when all are loaded (`ReplayEnds`). `PublishedManifest` follows every key of the manifest through `Generated` and cargo's own rewriting.

The proofs changed the model in one place: the program itself, which cargo takes from a folder, may be the other package of one name and version (`packages.rs:607-638`).

## 11. The generated tree: `GeneratedTree`, `GeneratedTreeProofs`; expressions: `ExpressionText`

`GeneratedTree` is the directory of a build and the processes that write it, one call of the file system at a time: `write_tree`, `remove_stale`,
`write_if_changed`, `sync_lock`, cargo, and `publish`'s clearing: `remove_dir_all` reads the directory and src/ (`Sweep`), then removes what it read, and perhaps what has come since, entry by entry, and
fails at a directory that something came into meanwhile (`ClearAll`). Any process may be stopped between two calls (`Stop`). Whose files are there, and whether the directory is a link, is fixed at the start:
that somebody puts a file there after `publish` looked, which it then removes with the rest, is not modelled. Run `packages`: two processes, each building either of two programs
that share a directory, one with a file in a subdirectory, one with a lock, in a build directory, in a crate of the author's, and for publishing, from an empty directory, somebody's files, a link or a finished build.

- `TreeIsBuilt`, `RunsItsProgram`: a build that meets only builds of its own program gives cargo exactly that program and runs it, whatever earlier builds, stopped or not, left;
- `GivesUpForCause`: alone a build never fails on the file system; it is refused only somebody's files or a link, a directory that a process left, or is leaving,
  without its marker, or one into which two published at once, the second clearing the marker the first had written;
- `FreshWritesNothing`: builds of what is on disk, beside none but such builds (`Undisturbed`), write nothing; `OthersKept`: a directory that is not Varyk's is left as it is.

Without fairness: a process may be stopped for ever. Two processes are enough for each pair of calls to interleave; any number of them is the proof's.

Proved, for any processes, programs and files, and in every kind of place: `CargoGetsTheProgram` (`TreeIsBuilt`), `WhatRunsIsBuilt` (`RunsItsProgram`),
`OnlyOthersStopIt` (`GivesUpForCause`), `NothingToWrite` (`FreshWritesNothing`), `NotOursStays` (`OthersKept`), and the types. Of the constants they assume that `Files`
names finitely many files, that every program has the first of them (its root), and that `None` is no process.
Their induction is `TreeInv`. The parts about a single process come first: where a command can be in each kind of place (`PlaceInv`), what it may have on its
lists and when its temporary file exists (`OwnInv`), that nothing lies in a missing directory (`DirInv`), that processes that run at once have met (`MetInv`).
On these rest four arguments, each by the label of the step:

- `SourceInv`: to a build whose neighbours build the same program, what is stale on disk is on a list it has yet to clear, and what it has passed holds its text.
  Its own steps keep it (`OwnSourceStep`), and a neighbour's (`NeighbourStep`), which only removes what is stale to both, or writes its own temporary file, or the same text;
- `Alone`: a build that met nobody finds the directories and files its last look found, so no call fails, and a publishing alone empties what it read before it removes it; anyone else's step would have met it;
- `MarkerInv`: a directory without marker that holds something has a process, running or stopped, at `mark` or `clearall`;
- `FreshInv`: on a tree that is exactly the program's, every look ends in another look (`CalmStep`), so it stays so for all that run.

`FileSteps` says once what a step may do to a file, and the four use nothing else of the calls that write. The proof changed two properties. With three processes and not
with two, one that published after two others together is refused a directory no stopped process left; and a build counts as undisturbed only when those it met
were so too, and when no stopped build's temporary file or empty directory is left, over which two builds otherwise meet.

`ExpressionText` parses a text by `parser/expr.rs`'s precedences, drops the parentheses, and prints the tree as `rust_expr.rs` does. The reference
(`RustTrees`) is Rust's grammar, all ways of splitting the text. `PrintedParsesBack`: the printed text has the tree the Varyk text had, and no other. Run `front`: every text of up to four tokens and some
10,000 longer ones.

## 12. Where the code and its words differ

- `lsp_elsewhere`: `main.vr` appears beside a file that was checked alone, and is saved. The check reads the file and finds
  nothing in it, but only the file that was saved leaves its old programs: the old diagnostics stay until the file itself
  is saved. `docs/specs/2026-10-11-language-server-design.md:190-195` says a file checked as one program leaves every other.
- `lsp_behind`: an open, unedited file changes on disk; another file of its program is saved and a fix-it for the
  new text kept. The buffer still holds the old text and was never marked changed, so the fix-it is offered
  over it. The same document, lines 226-227: offered "only while the editor's text is that file".
- `chain_first_mark`: in `for a in o.iter()...` whose head also reads `b`, the body changes `b`, then `o`, uses `a` and returns. The mark
  keeps the first break, of `b`, on which a use is silent (left to the end of the round), and a `return` has no end of
  round: the use of `a` after `o` changed is not reported. `borrow/aliases.rs:1-3` says a root may not be changed while its alias may be used.
- `reexports`: a module declares a type X and re-exports a function X of a module in a later file; a `pub use` of that X in an earlier file is entered in the
  first round, for the type alone, and never looked at again. `resolve/uses.rs:263-266` promises the same whichever file comes first.
- `explained`: the part recorded for a type is the first that held a type in the way *then*; the explanation goes to the first type in the way there *now*. Two types can
  name each other, and `check`'s loop does not end. `types/derives.rs:10-12` says it always ends at a Rust type.
- `condition`: `operand` writes no parentheses around a struct literal, so `if (Point { x: 1 }) == p` becomes Rust that does not parse. `parser/expr.rs:383-385` says parentheses make it fine.

- `dead_tail`: a branch that leaves (`{ return; 5 }`) is not compared with the others though it still ends in a value, so
  `let x: bool = if c { return; 5 } else { true };` is accepted and its Rust is refused. `tests/soundness.rs:1` says what passes compiles.

Seen while modelling and without a run of their own: two tasks of a list fail before `try_all` first asks for them, and `FuturesUnordered` asks in list order, so the `Err`
is the first in the list, where `docs/specs/2026-10-01-milestone-5b1-design.md:337` says the first to finish (`FirstErr` is what does hold); `package_items` takes both namespaces of a re-exported name and does not ask whether each is `pub`;
`use` of a private alias in one namespace is written for the other (`uses.rs:197-205`); a build stopped after making `src/` and before the marker leaves a directory a
later `--out` build refuses (`generate.rs:31-34`; `GivesUpForCause` names the case).

## 13. What is not modelled, and what is out of reach

The language server's framing, URIs and positions; the lexer; diagnostics' wording; HIR, which is data; the
command line's options. Version 7 ids (`ids.rs`): their order is the `uuid` crate's `ContextV7`, which nothing in `src/` implements.

The proof system does not do liveness under fairness, `ENABLED`, or induction over data, so `WakesUp` and
`StopTakesEffect`, what the folds of `FlowRules` compute for every body, and every comparison of a pass with a recursive reference
are checked by TLC on the bounds above only: `MatchIsExact`, `PrintedParsesBack`, `WalkIsExact`, `AcceptedCompiles`, `ReportsAreExact`, `TasksAreKept` and
`AcceptedBorrows` all compare a walk over a tree with another, and `NothingLost` and `FixesSettle` are about a recursive descent. `ReexportsComplete` is true of one namespace only (section 12) and stays with TLC. Proved are the safety properties of the three concurrent parts, those of the
packages, of publishing, of the derives, of names, of recursive types, of calls in a circle and of what text refers to, and the derives' refinement. Where an argument is by a least
counterexample (`LeastOf`), the library's well-founded order on the numbers carries it; what a recursive definition computes stays out of reach.
Every bound is a constant named in its module (`MaxTasks`, `MaxQueue`, `MaxSent`, `MaxOutside`, `MaxNodes`, `Rounds`, `Depth`) or the size of an initial
state in an `MC` module. Definitions marked `Mutant` are bugs the code could have had; no specification uses them.

## 14. Types: `PatternTypes`, `MethodRows`, `TypeCheck`, `RustTypes`, `TypedBodies`

`TypeCheck` is the checker of one function as operators over a small syntax: `Expr` and `Block` hand down the type wanted (`expected` in the
code, `<<>>` for none) and what surrounds an expression (the names, the loops, whether a closure or an async function is around it, and the *place*: where a
started call would stand), and give up a typed node with what was reported, or nothing. Failing is modelled as the code has it: `Then` is a `?`, which stops, and
`All` the places that go on checking after a failure. `PatternTypes` has the types, the names in scope and the typing of patterns, `MethodRows` the table of built-in
methods with the shapes of their parameters and results.

`TypedBodies` judges it, an action per function: `CheckBody` runs the checker, which is the constant `Checks` there, since the
module that judges it has no need to know how it works. `RustTypes` is the reference and maps to no code but the type written after a `let`: what rustc finds for the
printed Rust, from the parts up, with holes that the context must fill, the type of what never gives a value, and rustc's own flow. It shares with the checker the syntax, the declarations and
the table of the standard library, and none of the rules.

Run `bodies`, subject `types`: 160,000 functions of `MCTypeCheck`, each a theme (operators, branches, patterns, constructors and `?`, methods and chains, fields and
literals, statements in a row, tasks) crossed with the places that hand a wanted type down. Integer widths but those of `i8` and `u8` are cut, in order. It shows

- `AcceptedCompiles`: what is accepted has, under rustc's rules, the types it is printed with;
- `ReportsAreExact` (`RefusedIsReported` and `UnknownOnlyUnbound`): what fails has said so, and a name is called unknown only where nothing binds it, its own failed `let` included;
- `TasksAreKept`: a task of an accepted function goes where it is awaited, detached or kept under a name.

Run `dead_tail` (violation) has the branches for which `AcceptedCompiles` fails, left out of run `bodies`: section 12. Not modelled: see the component's note in `PROJECT.json`.

## 15. Bodies and Rust's borrow rules: `Places`, `Emission`, `RustBorrows`

`Places` is the borrow checker of one body as operators over the typed tree: `PassExpr`, `PassStmt` and `PassBlock` are the first pass, which finds what each local is a
name for (`PlaceInfo`, `Bound`, `Matched`, `Looped`) and applies the rules on slots, arguments, indices and values read in place; `AliasRoots` is the fixed point, `ClassOf` what the
function returns; `WalkExpr`, `WalkStmt` and `WalkBlock` are `Walker` over whole expressions, with the rules of `FlowRules`. `Faults` is empty when the body is accepted.
`Emission` is the backend on what the pass found: `Repr` and `Have` say what a name and an expression are in Rust, the *need* is what the context wants, and `Emit` brings the one to the other (`Bridge`).

`RustBorrows` is Rust (external, no code of the repository): a run of the emitted body keeps the loans it makes, an access ends the loans it conflicts with, and using a reference of an ended loan is an
error, as are a use after a move, a move out of a reference, a change where none is allowed and a reference that leaves the function. Two-phase borrows of a call, temporaries that die with the statement or
live with the `let`, the scopes of an `if let` and of a block's tail are those of the 2024 edition the generated crates have. Every run is followed, loops none, one and two times. rustc decides on the
joined runs and may refuse more; where that shows, in the form a branch gives (`SameForm`) and the parameter a returned reference needs (`Compiles`), the model joins too.

Run `packages`, subject `body`: 16,000 bodies over a `mut` struct with a struct, a list and a shared pointer in it, a read-only one, a `mut` number and locals. Each names a value (a field, an element, a new one, a call's
part, or an `if`, block or `match` that mixes two of them and may name something inside), plain or `mut`, then does one thing with it and with another such value (lend it, change it, lend both to a call in either order, keep it, print it,
start a task, assign), alone, in a loop, an arm or before a `return`, then uses the name or its root again; or returns one value early and another at the end. A third of them is accepted. `Pass` and `Compile` are
the passes' own order, and the passes are the constants `Passed` and `Compiled`.

- `AcceptedBorrows`: what the borrow checker accepts and the backend writes keeps Rust's borrow rules. It relates three codes that are written apart: the pass's idea of what lives on, the flow rules' idea of what may be used, and the backend's idea of
  where a reference stands. Another 100,000 bodies, with other values and three things done, gave nothing new.

It does not hold with comparisons of structs, which the bodies leave out. The checker holds the operands of a comparison lent only when they are text (`borrow.rs:1157-1160`, `moves.rs:561-567`), and the backend borrows
both operands of any comparison where one is a reference or a block (`rust_expr.rs:1107-1117`). So `let mut x = a.p; x == a.p`, which reads `a.p` while the alias is still used, and `x == { let z = x; z }`, which gives `x` away,
pass the checker and are refused by rustc, against `tests/soundness.rs:1`, "a program that passes `varyk check` must compile under rustc".

Not modelled here: text (section 6), closures and method chains, `?`, `.await`, captures, enums with a destructor, recursive functions, `break` and `continue` (section 5). What a call returns is given by the signatures in `MCFns`, whose classes `ClassOf` gives and `CallGroups` orders.

## 16. Source files and fix-its: `SourceText`

`SourceText` is the parser as operators over a record: the file's tokens, the token it is `at`, what it has `kept` of them for the tree, the reports with their fix-its, whether it goes on (`ok`), whether it
is in a head (`in_condition`) and the kind of the last expression. There is an operator per function of `parser/*.rs`, named after it; `Refuse` is an `Err(())`, after which nothing changes the record, and
`Report` an error it goes on from. The tree is kept as the tokens it stands for, so a sigil or a type that is read over is not in it. `file` and `reading` are the state; `Read` parses, and `ApplyFix` is an
editor making the edit of one report's fix-it (`lsp.rs: code_action`) with the check that follows. A file has one identifier, literal and operator of each sort the parser tells apart.

Run `lsp` starts, besides the server, from 50 files that between them use every construct (functions, methods, declarations, eight bodies), each as it is or with one token lost, changed to another or preceded
by one, from 35 tokens (`Slip`), then takes the fix-its in every order: 108,000 states. One slip reaches every report and, with the Rust spellings the files already have, up to five fix-its
in one file, some inside others. It shows

- `NothingLost`: a file of which the parser reports nothing is read to its end and its tree has each token that was written and no other, but for commas before a closing bracket. So every place that reads over
  a group, a sigil or a type reports, and so does every `Err(())`;
- `FixesSettle`: when the parser could go on, every edit leaves a file that is read as the parser had read the mistaken one, with fewer reports, so its author may take the fix-its in any order and
  comes to the file the parser understood; `-> &str` alone becomes another type, `-> string`, on purpose.

Two things the runs found are stated as exceptions, since no sentence of the repository speaks of them. The comma after a `self` is never asked for, so `fn m(self x: T)` is taken (`item.rs:315`); `SpareComma` names it. And
taking the `&` from `if x { } &(y)` joins two statements to one, a call (`Glues`): the parser went on as if the `&` were absent (`expr.rs: parse_unary`), but only after it had ended the statement before.
A third concerns no property: the arguments of `println!` and `format!` are read in the head they stand in, so a struct literal there is refused in an `if`'s condition where a call's argument may be one
(`parse_macro_like` has no `without_condition`).
