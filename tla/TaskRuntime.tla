---- MODULE TaskRuntime ----
(***************************************************************************)
(* The tasks of a running Varyk program: varyk-std's Task<T> over tokio.   *)
(*                                                                         *)
(* A task is started by the function that holds its handle, and the        *)
(* compiler keeps the handle in that function: it is awaited, given to     *)
(* Task::all or Task::try_all, detached, or dropped, and a dropped handle  *)
(* aborts its task.  Task 0 is the future `run` blocks on; the others are  *)
(* numbered in the order they start, and a task's value is its own number. *)
(* Polls of different tasks interleave, one handle at a time.              *)
(***************************************************************************)
EXTENDS Naturals, Sequences, SequencesExt

CONSTANT MaxTasks        \* bound: started tasks, besides main
ASSUME MaxTasksAssumption == MaxTasks \in Nat

VARIABLES
    up,        \* main has not returned: the runtime is not shutting down
    state,     \* state[t]: where t's future is
    aborted,   \* aborted[t]: t's abort flag
    parent,    \* parent[t]: the task whose function started t
    handle,    \* handle[t]: what became of the Task<T> value
    notified,  \* notified[t]: a waker of t has fired since its last poll
    wait,      \* wait[t]: the future t is suspended in
    why,       \* why[t]: the task whose code panicked, when t panicked
    ends,      \* history: tasks in the order they ended
    given      \* history: the last outcome a waiter was given

vars == <<up, state, aborted, parent, handle, notified, wait, why, ends, given>>

Main  == 0
Tasks == 0..MaxTasks
Over  == {"ok", "err", "panicked", "cancelled"}

\* A Vec of tasks is made by one expression and only given away whole, so it
\* lists its tasks in the order they started: `of` stands for it.  `fresh`:
\* handles to poll now, in the list's order.  `woken`: those to poll after
\* them, in the order their wakers fired (FuturesUnordered's queue).  `asked`:
\* handles that keep this task's waker.  `done`: tasks whose value is here, in
\* the order it came.
Wait == [kind : {"none", "one", "all", "try", "sleep"}, of : SUBSET Tasks,
         fresh : SUBSET Tasks, woken : Seq(Tasks), asked : SUBSET Tasks, done : Seq(Tasks)]
WaitFor(k, S) == [kind |-> k, of |-> S, fresh |-> S, woken |-> <<>>, asked |-> {}, done |-> <<>>]
NoWait == WaitFor("none", {})

Nothing == [kind |-> "none", of |-> {}, got |-> <<>>, asked |-> {}]

\* Mutant: a future drops every handle it ever made.
EverMadeBy(t) == {c \in Tasks : parent[c] = t}

HeldBy(t)  == {c \in Tasks : handle[c] = "held" /\ parent[c] = t}
Started    == {t \in Tasks : state[t] # "unused"}
Running(t) == state[t] = "running" /\ wait[t].kind = "none"

Init ==
    /\ up = TRUE
    /\ state = [t \in Tasks |-> IF t = Main THEN "idle" ELSE "unused"]
    /\ aborted = [t \in Tasks |-> FALSE]
    /\ parent = [t \in Tasks |-> Main]
    /\ handle = [t \in Tasks |-> "none"]
    /\ notified = [t \in Tasks |-> t = Main]
    /\ wait = [t \in Tasks |-> NoWait]
    /\ why = [t \in Tasks |-> t]
    /\ ends = <<>>
    /\ given = Nothing

----
\* A future that ends drops what it holds; dropping a Task aborts it.
\* JoinHandle::abort on a task that is over does nothing.
\* Mutant: a dropped handle lets its task run on.
LetRun(dropped) == aborted

AbortedBy(dropped) ==
    [c \in Tasks |-> aborted[c] \/ (c \in dropped /\ state[c] \notin Over)]
\* Mutant: an aborted task keeps its handle.
KeptHandle(dropped) == handle

DroppedBy(dropped) == [c \in Tasks |-> IF c \in dropped THEN "dropped" ELSE handle[c]]

\* A task that ends wakes the one whose waker its handle keeps; inside
\* try_all that waker also queues the handle.
Woken(t, w) == IF w.kind = "try" THEN [w EXCEPT !.woken = Append(@, t)] ELSE w

\* t's future is over, as `how`: completed, panicked (unwinding) or dropped.
End(t, how, origin) ==
    LET p == parent[t] IN
    /\ state' = [state EXCEPT ![t] = how]
    /\ why' = [why EXCEPT ![t] = origin]
    /\ ends' = Append(ends, t)
    /\ aborted' = AbortedBy(HeldBy(t))
    /\ handle' = DroppedBy(HeldBy(t))
    /\ up' = (up /\ t # Main)
    /\ IF t # Main /\ handle[t] = "held" /\ t \in wait[p].asked
       THEN /\ notified' = [notified EXCEPT ![p] = TRUE]
            /\ wait' = [wait EXCEPT ![p] = Woken(t, @), ![t] = NoWait]
       ELSE /\ notified' = notified
            /\ wait' = [wait EXCEPT ![t] = NoWait]
    /\ UNCHANGED <<parent, given>>

----
\* Task::start: the new task is scheduled at once.
Start(t) ==
    /\ Running(t)
    /\ \E c \in Tasks \ Started :
        /\ \A d \in Tasks \ Started : c <= d
        /\ state' = [state EXCEPT ![c] = "idle"]
        /\ notified' = [notified EXCEPT ![c] = TRUE]
        /\ parent' = [parent EXCEPT ![c] = t]
        /\ handle' = [handle EXCEPT ![c] = "held"]
    /\ UNCHANGED <<up, aborted, wait, why, ends, given>>

\* Mutant: detaching drops the Task as any other drop.
DetachAborts(t) ==
    /\ Running(t)
    /\ \E c \in HeldBy(t) :
        /\ aborted' = AbortedBy({c})
        /\ handle' = [handle EXCEPT ![c] = "detached"]
    /\ UNCHANGED <<up, state, parent, notified, wait, why, ends, given>>

\* Task::detach: the handle goes without an abort.
Detach(t) ==
    /\ Running(t)
    /\ \E c \in HeldBy(t) : handle' = [handle EXCEPT ![c] = "detached"]
    /\ UNCHANGED <<up, state, aborted, parent, notified, wait, why, ends, given>>

\* Task::drop, when a `?` or `return` of a function awaited in t passes it.
Drop(t) ==
    /\ Running(t)
    /\ \E c \in HeldBy(t) :
        /\ aborted' = AbortedBy({c})
        /\ handle' = DroppedBy({c})
    /\ UNCHANGED <<up, state, parent, notified, wait, why, ends, given>>

\* t.await, Task::all(list).await and Task::try_all(list).await.
Await(t) ==
    /\ Running(t)
    /\ \E c \in HeldBy(t) : wait' = [wait EXCEPT ![t] = WaitFor("one", {c})]
    /\ UNCHANGED <<up, state, aborted, parent, handle, notified, why, ends, given>>

AwaitList(t) ==
    /\ Running(t)
    /\ \E kind \in {"all", "try"}, S \in SUBSET HeldBy(t) :
        wait' = [wait EXCEPT ![t] = WaitFor(kind, S)]
    /\ UNCHANGED <<up, state, aborted, parent, handle, notified, why, ends, given>>

\* time::sleep(ms).await, and the timer.
Sleep(t) ==
    /\ Running(t)
    /\ wait' = [wait EXCEPT ![t] = WaitFor("sleep", {})]
    /\ UNCHANGED <<up, state, aborted, parent, handle, notified, why, ends, given>>

TimerFires(t) ==
    /\ state[t] = "idle" /\ wait[t].kind = "sleep"
    /\ wait' = [wait EXCEPT ![t] = NoWait]
    /\ notified' = [notified EXCEPT ![t] = TRUE]
    /\ UNCHANGED <<up, state, aborted, parent, handle, why, ends, given>>

Finish(t) ==
    /\ Running(t)
    /\ \E how \in {"ok", "err", "panicked"} : End(t, how, t)

----
\* A worker picks up a notified task.  join_all asks every handle without a
\* value again on each poll; try_all only those whose waker fired.
ToAsk(w) == IF w.kind = "try" THEN w.fresh ELSE w.of \ Range(w.done)

Run(t) ==
    /\ state[t] = "idle" /\ notified[t] /\ ~aborted[t]
    /\ state' = [state EXCEPT ![t] = "running"]
    /\ notified' = [notified EXCEPT ![t] = FALSE]
    /\ wait' = [wait EXCEPT ![t].fresh = ToAsk(wait[t])]
    /\ UNCHANGED <<up, aborted, parent, handle, why, ends, given>>

\* A wait ends with its future, and what it still holds is dropped with it.
Leave(t, outcome) ==
    LET w == wait[t]  rest == {c \in w.of : handle[c] = "held"} IN
    /\ given' = [outcome EXCEPT !.of = w.of, !.asked = w.asked]
    /\ wait' = [wait EXCEPT ![t] = NoWait]
    /\ aborted' = AbortedBy(rest)
    /\ handle' = DroppedBy(rest)
    /\ UNCHANGED <<up, state, parent, notified, why, ends>>

\* Mutant: try_all takes its handles from the end of the list.
LastUp(c, w) ==
    IF w.fresh # {} THEN c \in w.fresh /\ \A d \in w.fresh : c >= d
                    ELSE w.woken # <<>> /\ c = Head(w.woken)

NextUp(c, w) ==
    IF w.fresh # {} THEN c \in w.fresh /\ \A d \in w.fresh : c <= d
                    ELSE w.woken # <<>> /\ c = Head(w.woken)
Polled(w) == IF w.fresh # {} THEN [w EXCEPT !.fresh = @ \ {CHOOSE c \in @ : NextUp(c, w)}]
                             ELSE [w EXCEPT !.woken = Tail(@)]

\* Task::poll on the next handle c, and what the future that polls it does
\* with the answer: not ready yet, and c will wake t (the mutant: it returns
\* Pending without leaving a waker);
PendingUnasked(t, c) ==
    /\ state[c] \notin Over
    /\ wait' = [wait EXCEPT ![t] = Polled(wait[t])]
    /\ UNCHANGED <<up, state, aborted, parent, handle, notified, why, ends, given>>
NotReady(t, c) ==
    /\ state[c] \notin Over
    /\ wait' = [wait EXCEPT ![t] = [Polled(wait[t]) EXCEPT !.asked = @ \cup {c}]]
    /\ UNCHANGED <<up, state, aborted, parent, handle, notified, why, ends, given>>
\* cancelled under its waiter, which nothing will wake for it;
LeftPending(t, c) ==
    /\ state[c] = "cancelled"
    /\ wait' = [wait EXCEPT ![t] = Polled(wait[t])]
    /\ UNCHANGED <<up, state, aborted, parent, handle, notified, why, ends, given>>
\* panicked, which resumes here (the mutant: as that task's own);
ResumeAsOwn(t, c) == state[c] = "panicked" /\ End(t, "panicked", c)
ResumePanic(t, c) == state[c] = "panicked" /\ End(t, "panicked", why[c])
\* an Err, which ends try_all;
GiveErr(t, c) ==
    /\ state[c] = "err" /\ wait[t].kind = "try"
    /\ Leave(t, [Nothing EXCEPT !.kind = "err", !.got = <<c>>])
\* a value.
Collect(t, c) ==
    /\ state[c] = "ok" \/ (state[c] = "err" /\ wait[t].kind # "try")
    /\ wait' = [wait EXCEPT ![t] = [Polled(wait[t]) EXCEPT !.done = Append(@, c)]]
    /\ handle' = [handle EXCEPT ![c] = "taken"]
    /\ UNCHANGED <<up, state, aborted, parent, notified, why, ends, given>>

Poll(t) ==
    /\ state[t] = "running"
    /\ \E c \in wait[t].of :
        /\ NextUp(c, wait[t])
        /\ \/ NotReady(t, c) \/ LeftPending(t, c) \/ ResumePanic(t, c)
           \/ GiveErr(t, c) \/ Collect(t, c)

AllAsked(w) == w.fresh = {} /\ w.woken = <<>>
Complete(w) == w.kind # "sleep" /\ Range(w.done) = w.of

\* Every value is there: join_all has each in its place, try_all sorts the
\* pairs it collected by place, which is how many of the list come before.
\* Mutant: values in the order they came.
ValuesAsDone(w) == w.done

Values(w) ==
    [i \in 1..Len(w.done) |->
        CHOOSE c \in Range(w.done) : Cardinality({d \in Range(w.done) : d < c}) = i - 1]

Deliver(t) ==
    LET w == wait[t] IN
    /\ state[t] = "running" /\ w.kind # "none" /\ AllAsked(w) /\ Complete(w)
    /\ Leave(t, [Nothing EXCEPT !.kind = "values", !.got = Values(w)])

\* The poll of t returns Pending.
Suspend(t) ==
    LET w == wait[t] IN
    /\ state[t] = "running" /\ w.kind # "none" /\ AllAsked(w) /\ ~Complete(w)
    /\ state' = [state EXCEPT ![t] = "idle"]
    /\ UNCHANGED <<up, aborted, parent, handle, notified, wait, why, ends, given>>

\* tokio drops the future of an aborted task once it is not being polled, and
\* that of every task when the runtime shuts down.
Cancel(t) ==
    /\ t # Main /\ state[t] = "idle"
    /\ aborted[t] \/ ~up
    /\ End(t, "cancelled", t)

\* The program has ended.
Ended ==
    /\ ~up /\ \A t \in Started : state[t] \in Over
    /\ UNCHANGED vars

Next ==
    \/ Ended
    \/ \E t \in Tasks :
        \/ Start(t) \/ Detach(t) \/ Drop(t)
        \/ Await(t) \/ AwaitList(t) \/ Sleep(t) \/ TimerFires(t)
        \/ Finish(t)
        \/ Run(t) \/ Poll(t) \/ Deliver(t) \/ Suspend(t) \/ Cancel(t)

Spec == Init /\ [][Next]_vars

\* tokio polls every notified task, a poll goes on until it returns, and an
\* abort schedules its task.  Nothing makes the program's own code go on.
Scheduling ==
    \A t \in Tasks :
        WF_vars(Run(t)) /\ WF_vars(Poll(t)) /\ WF_vars(Deliver(t))
        /\ WF_vars(Suspend(t)) /\ WF_vars(Cancel(t))

FairSpec == Spec /\ Scheduling

----
\* Every variable has its type, and what is not started is untouched.
TypeOK ==
    /\ up \in BOOLEAN
    /\ state \in [Tasks -> {"unused", "idle", "running"} \cup Over]
    /\ aborted \in [Tasks -> BOOLEAN]
    /\ parent \in [Tasks -> Tasks]
    /\ handle \in [Tasks -> {"none", "held", "detached", "dropped", "taken"}]
    /\ notified \in [Tasks -> BOOLEAN]
    /\ wait \in [Tasks -> Wait]
    /\ why \in [Tasks -> Tasks]
    /\ ends \in Seq(Tasks)
    /\ \A t \in Tasks : state[t] = "unused" => handle[t] = "none" /\ ~aborted[t]

\* What ties a task's future to its handle: an abort follows the end of
\* the handle only, a cancellation from an abort or the shutdown only, and a
\* handle is held only while the future that holds it is alive.
HandleInv ==
    /\ state[Main] # "unused"
    /\ \A c \in Tasks : aborted[c] => handle[c] \in {"dropped", "taken"}
    /\ \A c \in Tasks : state[c] = "cancelled" => aborted[c] \/ ~up
    /\ \A c \in Tasks : handle[c] = "dropped" => aborted[c] \/ state[c] \in Over
    /\ \A c \in Tasks : handle[c] = "taken" => state[c] \in Over
    /\ \A c \in Tasks : handle[c] = "none" /\ c # Main => state[c] = "unused"
    /\ \A c \in Tasks : handle[c] = "held" => state[parent[c]] \in {"idle", "running"}

\* While main runs, a task somebody still holds is neither aborted nor
\* cancelled: Task::poll can leave a waiter of a cancelled task pending only
\* while the runtime shuts down.
HeldIsAlive ==
    up => \A c \in Tasks : handle[c] = "held" => ~aborted[c] /\ state[c] # "cancelled"

\* A task outlives the function that started it only if it was detached:
\* when a future is over, however it ended, every task it started has ended,
\* was detached, or is told to stop.
NothingForgotten ==
    \A c \in Started \ {Main} :
        state[parent[c]] \in Over /\ handle[c] # "detached" => aborted[c] \/ state[c] \in Over

\* While main runs, nothing stops a detached task but its own end.
DetachedRunsOn ==
    up => \A c \in Tasks : handle[c] = "detached" => ~aborted[c] /\ state[c] # "cancelled"

\* Task::all and Task::try_all give every value, in the order of the list,
\* whatever order the tasks finished in.
InListOrder ==
    given.kind = "values" =>
        /\ Range(given.got) = given.of
        /\ \A i, j \in DOMAIN given.got : i < j => given.got[i] < given.got[j]

\* The Err that try_all returns is the first to end, but for one race: an Err
\* that ended before try_all first asked for it may pass one that ended
\* earlier, and of two such it is the earlier in the list.
Place(t) == CHOOSE i \in DOMAIN ends : ends[i] = t
EarlierErrs(c) == {d \in given.of : Contains(ends, d) /\ state[d] = "err" /\ Place(d) < Place(c)}
FirstErr ==
    given.kind = "err" =>
        LET c == Head(given.got) IN
        \A d \in EarlierErrs(c) : c \notin given.asked /\ (d \notin given.asked => c < d)

\* A panic carries its payload up the waiters and nowhere else: a task that
\* panicked without panicking itself was waiting on one it held that did.
PanicsResume ==
    \A t \in Tasks : state[t] = "panicked" /\ why[t] # t =>
        \E c \in Tasks \ {Main} :
            /\ parent[c] = t /\ handle[c] = "dropped"
            /\ state[c] = "panicked" /\ why[c] = why[t]

\* What a step may never do: run a task whose handle was dropped past the
\* `.await` it stands at, or bring back one that is over.
StopsAtAwait ==
    [][\A t \in Tasks :
        /\ handle[t] = "dropped" /\ state[t] = "idle" => state'[t] \in {"idle", "cancelled"}
        /\ state[t] \in Over => state'[t] = state[t]]_vars

\* No wake-up is lost: a task waiting for values that are all there, for a
\* task that panicked, or with an Err in its try_all, goes on.
Ready(t) ==
    LET w == wait[t] IN
    /\ w.kind \in {"one", "all", "try"}
    /\ \/ \A c \in w.of : state[c] \in {"ok", "err"}
       \/ \E c \in w.of : state[c] = "panicked"
       \/ w.kind = "try" /\ \E c \in w.of : state[c] = "err"
WakesUp == \A t \in Tasks : Ready(t) ~> wait[t].kind = "none"

\* A task whose handle was dropped is over soon after it reaches an `.await`.
StopTakesEffect ==
    \A t \in Tasks : handle[t] = "dropped" /\ state[t] = "idle" ~> state[t] = "cancelled"
====
