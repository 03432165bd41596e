---- MODULE TaskRuntimeProofs ----
(***************************************************************************)
(* Proofs about TaskRuntime, for any number of tasks.                      *)
(***************************************************************************)
EXTENDS TaskRuntime, FiniteSetTheorems, TLAPS

\* Main is a task whatever the bound.
LEMMA MainTask == Main \in Tasks
  BY MaxTasksAssumption DEF Main, Tasks

\* The wait records the program's own steps make are wait records.
LEMMA NewWaitType ==
    /\ NoWait \in Wait
    /\ \A S \in SUBSET Tasks : \A kind \in {"one", "all", "try", "sleep"} :
          WaitFor(kind, S) \in Wait
  BY DEF Wait, WaitFor, NoWait

\* Waking a waiter keeps its record one.
LEMMA WokenType == ASSUME NEW t \in Tasks, NEW w \in Wait PROVE Woken(t, w) \in Wait
<1>1. Append(w.woken, t) \in Seq(Tasks)
  BY DEF Wait
<1> QED
  BY <1>1 DEF Wait, Woken

\* So does polling the next handle, whatever the answer.
LEMMA PolledType ==
    ASSUME NEW w \in Wait, NEW c \in Tasks, NextUp(c, w)
    PROVE  /\ Polled(w) \in Wait
           /\ [Polled(w) EXCEPT !.asked = @ \cup {c}] \in Wait
           /\ [Polled(w) EXCEPT !.done = Append(@, c)] \in Wait
<1>1. Polled(w) \in Wait
  <2>1. CASE w.fresh # {}
    BY <2>1 DEF Wait, Polled
  <2>2. CASE w.fresh = {}
    <3>1. w.woken # <<>> /\ w.woken \in Seq(Tasks)
      BY <2>2 DEF Wait, NextUp
    <3>2. Tail(w.woken) \in Seq(Tasks)
      BY <3>1
    <3> QED
      BY <2>2, <3>2 DEF Wait, Polled
  <2> QED
    BY <2>1, <2>2
<1>2. ASSUME NEW v \in Wait PROVE [v EXCEPT !.asked = @ \cup {c}] \in Wait
  BY DEF Wait
<1>3. ASSUME NEW v \in Wait PROVE [v EXCEPT !.done = Append(@, c)] \in Wait
  <2>1. Append(v.done, c) \in Seq(Tasks)
    BY DEF Wait
  <2> QED
    BY <2>1 DEF Wait
<1> QED
  BY <1>1, <1>2, <1>3

\* The end of a future keeps every variable in its type.
LEMMA EndType ==
    ASSUME TypeOK, NEW t \in Tasks, NEW how \in Over, NEW origin \in Tasks,
           End(t, how, origin)
    PROVE  TypeOK'
<1>1. wait' \in [Tasks -> Wait] /\ notified' \in [Tasks -> BOOLEAN]
  <2>1. CASE t # Main /\ handle[t] = "held" /\ t \in wait[parent[t]].asked
    <3>1. parent[t] \in Tasks /\ Woken(t, wait[parent[t]]) \in Wait /\ NoWait \in Wait
      BY WokenType, NewWaitType DEF TypeOK
    <3> QED
      BY <2>1, <3>1 DEF TypeOK, End
  <2>2. CASE ~(t # Main /\ handle[t] = "held" /\ t \in wait[parent[t]].asked)
    BY <2>2, NewWaitType DEF TypeOK, End
  <2> QED
    BY <2>1, <2>2
<1>2. state' \in [Tasks -> {"unused", "idle", "running"} \cup Over] /\ why' \in [Tasks -> Tasks]
      /\ up' \in BOOLEAN
  BY DEF TypeOK, End
<1>3. aborted' \in [Tasks -> BOOLEAN] /\ ends' \in Seq(Tasks) /\ parent' \in [Tasks -> Tasks]
  BY DEF TypeOK, End, AbortedBy
<1>4. handle' \in [Tasks -> {"none", "held", "detached", "dropped", "taken"}]
  BY DEF TypeOK, End, DroppedBy
<1>5. ASSUME NEW c \in Tasks, state'[c] = "unused" PROVE handle'[c] = "none" /\ ~aborted'[c]
  <2>1. state[c] = "unused" /\ c \notin HeldBy(t)
    BY <1>5 DEF TypeOK, End, HeldBy, Over
  <2> QED
    BY <2>1 DEF TypeOK, End, AbortedBy, DroppedBy
<1> QED
  BY <1>1, <1>2, <1>3, <1>4, <1>5 DEF TypeOK

\* So does the end of a wait.
LEMMA LeaveType ==
    ASSUME TypeOK, NEW t \in Tasks, NEW outcome, Leave(t, outcome)
    PROVE  TypeOK'
<1>1. wait' \in [Tasks -> Wait]
  BY NewWaitType DEF TypeOK, Leave
<1>2. aborted' \in [Tasks -> BOOLEAN]
      /\ handle' \in [Tasks -> {"none", "held", "detached", "dropped", "taken"}]
  BY DEF TypeOK, Leave, AbortedBy, DroppedBy
<1>3. ASSUME NEW c \in Tasks, state'[c] = "unused" PROVE handle'[c] = "none" /\ ~aborted'[c]
  BY <1>3 DEF TypeOK, Leave, AbortedBy, DroppedBy
<1>4. UNCHANGED <<up, state, parent, notified, why, ends>>
  BY DEF Leave
<1> QED
  BY <1>1, <1>2, <1>3, <1>4 DEF TypeOK

\* One poll of a handle keeps every variable in its type.
LEMMA PollType == ASSUME TypeOK, NEW t \in Tasks, Poll(t) PROVE TypeOK'
<1>1. PICK c \in wait[t].of :
        /\ NextUp(c, wait[t])
        /\ \/ NotReady(t, c) \/ LeftPending(t, c) \/ ResumePanic(t, c)
           \/ GiveErr(t, c) \/ Collect(t, c)
  BY DEF Poll
<1>2. wait[t] \in Wait /\ c \in Tasks
  BY DEF TypeOK, Wait
<1>3. /\ Polled(wait[t]) \in Wait
      /\ [Polled(wait[t]) EXCEPT !.asked = @ \cup {c}] \in Wait
      /\ [Polled(wait[t]) EXCEPT !.done = Append(@, c)] \in Wait
  BY <1>1, <1>2, PolledType
<1>4. CASE NotReady(t, c)
  BY <1>3, <1>4 DEF TypeOK, NotReady
<1>5. CASE LeftPending(t, c)
  BY <1>3, <1>5 DEF TypeOK, LeftPending
<1>6. CASE ResumePanic(t, c)
  BY <1>2, <1>6, EndType DEF TypeOK, Over, ResumePanic
<1>7. CASE GiveErr(t, c)
  BY <1>7, LeaveType DEF GiveErr
<1>8. CASE Collect(t, c)
  BY <1>2, <1>3, <1>8 DEF TypeOK, Collect
<1> QED
  BY <1>1, <1>4, <1>5, <1>6, <1>7, <1>8

----
\* Every step keeps every variable in its type.
LEMMA NextType == TypeOK /\ [Next]_vars => TypeOK'
<1> SUFFICES ASSUME TypeOK, [Next]_vars PROVE TypeOK'
  OBVIOUS
<1>1. CASE UNCHANGED vars
  BY <1>1 DEF TypeOK, vars
<1>2. CASE Ended
  BY <1>2 DEF TypeOK, vars, Ended
<1>3. ASSUME NEW t \in Tasks, Start(t) PROVE TypeOK'
  BY <1>3 DEF TypeOK, Start, Started
<1>4. ASSUME NEW t \in Tasks, Detach(t) PROVE TypeOK'
  BY <1>4 DEF TypeOK, Detach, HeldBy
<1>5. ASSUME NEW t \in Tasks, Drop(t) PROVE TypeOK'
  BY <1>5 DEF TypeOK, Drop, HeldBy, AbortedBy, DroppedBy
<1>6. ASSUME NEW t \in Tasks, NEW S \in SUBSET Tasks,
             NEW kind \in {"one", "all", "try", "sleep"},
             wait' = [wait EXCEPT ![t] = WaitFor(kind, S)],
             UNCHANGED <<up, state, aborted, parent, handle, notified, why, ends, given>>
      PROVE  TypeOK'
  <2>1. WaitFor(kind, S) \in Wait
    BY NewWaitType
  <2> QED
    BY <1>6, <2>1 DEF TypeOK
<1>7. ASSUME NEW t \in Tasks, Await(t) \/ AwaitList(t) \/ Sleep(t) PROVE TypeOK'
  BY <1>6, <1>7 DEF Await, AwaitList, Sleep, HeldBy
<1>8. ASSUME NEW t \in Tasks, TimerFires(t) PROVE TypeOK'
  BY <1>8, NewWaitType DEF TypeOK, TimerFires
<1>9. ASSUME NEW t \in Tasks, Finish(t) PROVE TypeOK'
  BY <1>9, EndType DEF Finish, Over
<1>10. ASSUME NEW t \in Tasks, Run(t) PROVE TypeOK'
  <2>1. ToAsk(wait[t]) \in SUBSET Tasks
    BY DEF TypeOK, Wait, ToAsk
  <2>2. wait[t] \in Wait
    BY DEF TypeOK
  <2>3. [wait[t] EXCEPT !.fresh = ToAsk(wait[t])] \in Wait
    BY <2>1, <2>2 DEF Wait
  <2> QED
    BY <1>10, <2>3 DEF TypeOK, Run
<1>11. ASSUME NEW t \in Tasks, Poll(t) PROVE TypeOK'
  BY <1>11, PollType
<1>12. ASSUME NEW t \in Tasks, Deliver(t) PROVE TypeOK'
  BY <1>12, LeaveType DEF Deliver
<1>13. ASSUME NEW t \in Tasks, Suspend(t) PROVE TypeOK'
  BY <1>13 DEF TypeOK, Suspend
<1>14. ASSUME NEW t \in Tasks, Cancel(t) PROVE TypeOK'
  BY <1>14, EndType DEF Cancel, Over
<1> QED
  BY <1>1, <1>2, <1>3, <1>4, <1>5, <1>7, <1>8, <1>9, <1>10, <1>11, <1>12, <1>13, <1>14 DEF Next

\* Every variable has its type in every reachable state, and a task that has
\* not started has no handle and no abort.
THEOREM TypeCorrect == Spec => []TypeOK
<1>1. Init => TypeOK
  BY MainTask, NewWaitType DEF Init, TypeOK
<1> QED
  BY <1>1, NextType, PTL DEF Spec

----
\* The end of a live future keeps them tied, if only an aborted task or one
\* of a runtime that shuts down is cancelled.
LEMMA EndHandles ==
    ASSUME TypeOK, HandleInv, NEW t \in Tasks, NEW how \in Over, NEW origin,
           state[t] \in {"idle", "running"},
           how = "cancelled" => aborted[t] \/ ~up,
           End(t, how, origin)
    PROVE  HandleInv'
<1>1. /\ up' => up
      /\ state' = [state EXCEPT ![t] = how]
      /\ \A c \in Tasks : aborted'[c] = (aborted[c] \/ (c \in HeldBy(t) /\ state[c] \notin Over))
      /\ \A c \in Tasks : handle'[c] = IF c \in HeldBy(t) THEN "dropped" ELSE handle[c]
      /\ parent' = parent
  BY DEF End, AbortedBy, DroppedBy
<1>2. \A c \in Tasks : aborted'[c] => handle'[c] \in {"dropped", "taken"}
  BY <1>1 DEF HandleInv
<1>3. \A c \in Tasks : state'[c] = "cancelled" => aborted'[c] \/ ~up'
  BY <1>1 DEF HandleInv, TypeOK
<1>4. \A c \in Tasks : handle'[c] = "dropped" => aborted'[c] \/ state'[c] \in Over
  <2>1. \A c \in Tasks : state[c] \in Over => state'[c] \in Over
    BY <1>1 DEF TypeOK
  <2>2. SUFFICES ASSUME NEW c \in Tasks, handle'[c] = "dropped"
                 PROVE  aborted'[c] \/ state'[c] \in Over
    OBVIOUS
  <2>3. CASE c \in HeldBy(t)
    BY <1>1, <2>1, <2>3
  <2>4. CASE c \notin HeldBy(t)
    <3>1. handle[c] = "dropped"
      BY <1>1, <2>2, <2>4
    <3>2. aborted[c] \/ state[c] \in Over
      BY <3>1 DEF HandleInv
    <3> QED
      BY <1>1, <2>1, <3>2
  <2> QED
    BY <2>3, <2>4
<1>5. \A c \in Tasks : handle'[c] = "taken" => state'[c] \in Over
  <2>1. \A c \in Tasks : state[c] \in Over => state'[c] \in Over
    BY <1>1 DEF TypeOK
  <2>2. \A c \in Tasks : handle'[c] = "taken" => handle[c] = "taken"
    BY <1>1
  <2> QED
    BY <2>1, <2>2 DEF HandleInv
<1>6. \A c \in Tasks : handle'[c] = "none" /\ c # Main => state'[c] = "unused"
  BY <1>1 DEF HandleInv, TypeOK
<1>7. \A c \in Tasks : handle'[c] = "held" => state'[parent'[c]] \in {"idle", "running"}
  BY <1>1 DEF HandleInv, TypeOK, HeldBy
<1>8. state'[Main] # "unused"
  BY <1>1, MainTask DEF HandleInv, TypeOK, Over
<1> QED
  BY <1>2, <1>3, <1>4, <1>5, <1>6, <1>7, <1>8 DEF HandleInv

\* So does dropping any tasks that are held.
LEMMA DropHandles ==
    ASSUME TypeOK, HandleInv, NEW S,
           \A c \in S : handle[c] = "held",
           aborted' = AbortedBy(S), handle' = DroppedBy(S),
           UNCHANGED <<up, state, parent>>
    PROVE  HandleInv'
  BY DEF HandleInv, TypeOK, AbortedBy, DroppedBy

\* Every step keeps them tied.
LEMMA NextHandles == TypeOK /\ HandleInv /\ [Next]_vars => HandleInv'
<1> SUFFICES ASSUME TypeOK, HandleInv, [Next]_vars PROVE HandleInv'
  OBVIOUS
<1>1. ASSUME UNCHANGED <<up, aborted, parent, handle>>, UNCHANGED state PROVE HandleInv'
  BY <1>1 DEF HandleInv
<1>2. ASSUME NEW t \in Tasks, Start(t) PROVE HandleInv'
  <2>1. PICK c \in Tasks \ Started :
          /\ state' = [state EXCEPT ![c] = "idle"]
          /\ parent' = [parent EXCEPT ![c] = t]
          /\ handle' = [handle EXCEPT ![c] = "held"]
          /\ aborted' = aborted /\ up' = up
    BY <1>2 DEF Start
  <2>2. state[c] = "unused" /\ c # Main /\ c # t /\ state[t] = "running"
    BY <1>2, <2>1 DEF HandleInv, Start, Started, Running
  <2>3. \A d \in Tasks : handle[d] = "held" => parent[d] # c
    BY <2>2 DEF HandleInv
  <2> QED
    BY <2>1, <2>2, <2>3, MainTask DEF HandleInv, TypeOK, Over
<1>3. ASSUME NEW t \in Tasks, Detach(t) PROVE HandleInv'
  BY <1>3 DEF HandleInv, TypeOK, Detach, HeldBy
<1>4. ASSUME NEW t \in Tasks, Drop(t) PROVE HandleInv'
  BY <1>4, DropHandles DEF Drop, HeldBy
<1>5. ASSUME NEW t \in Tasks, Await(t) \/ AwaitList(t) \/ Sleep(t) \/ TimerFires(t) PROVE HandleInv'
  BY <1>1, <1>5 DEF Await, AwaitList, Sleep, TimerFires
<1>6. ASSUME NEW t \in Tasks, Finish(t) PROVE HandleInv'
  BY <1>6, EndHandles DEF Finish, Running, Over
<1>7. ASSUME NEW t \in Tasks, Run(t) \/ Suspend(t) PROVE HandleInv'
  <2>1. /\ \E s \in {"idle", "running"} : state' = [state EXCEPT ![t] = s]
        /\ state[t] \in {"idle", "running"}
        /\ UNCHANGED <<up, aborted, parent, handle>>
    BY <1>7 DEF Run, Suspend
  <2> QED
    BY <2>1 DEF HandleInv, TypeOK, Over
<1>8. ASSUME NEW t \in Tasks, NEW outcome, Leave(t, outcome) PROVE HandleInv'
  <2>1. \A c \in {d \in wait[t].of : handle[d] = "held"} : handle[c] = "held"
    OBVIOUS
  <2>2. /\ aborted' = AbortedBy({d \in wait[t].of : handle[d] = "held"})
        /\ handle' = DroppedBy({d \in wait[t].of : handle[d] = "held"})
        /\ UNCHANGED <<up, state, parent>>
    BY <1>8 DEF Leave
  <2> QED
    BY <2>1, <2>2, DropHandles
<1>9. ASSUME NEW t \in Tasks, Poll(t) PROVE HandleInv'
  <2>1. PICK c \in wait[t].of :
          \/ NotReady(t, c) \/ LeftPending(t, c) \/ ResumePanic(t, c)
          \/ GiveErr(t, c) \/ Collect(t, c)
    BY <1>9 DEF Poll
  <2>2. state[t] = "running" /\ c \in Tasks
    BY <1>9 DEF Poll, TypeOK, Wait
  <2>3. CASE NotReady(t, c) \/ LeftPending(t, c)
    BY <1>1, <2>3 DEF NotReady, LeftPending
  <2>4. CASE ResumePanic(t, c)
    BY <2>2, <2>4, EndHandles DEF ResumePanic, Over
  <2>5. CASE GiveErr(t, c)
    BY <1>8, <2>5 DEF GiveErr
  <2>6. CASE Collect(t, c)
    BY <2>2, <2>6 DEF HandleInv, TypeOK, Collect, Over
  <2> QED
    BY <2>1, <2>3, <2>4, <2>5, <2>6
<1>10. ASSUME NEW t \in Tasks, Deliver(t) PROVE HandleInv'
  BY <1>8, <1>10 DEF Deliver
<1>11. ASSUME NEW t \in Tasks, Cancel(t) PROVE HandleInv'
  BY <1>11, EndHandles DEF Cancel, Over
<1>12. CASE Ended \/ UNCHANGED vars
  BY <1>1, <1>12 DEF Ended, vars
<1> QED
  BY <1>2, <1>3, <1>4, <1>5, <1>6, <1>7, <1>9, <1>10, <1>11, <1>12 DEF Next

\* They are tied in every reachable state.
THEOREM HandlesTied == Spec => [](TypeOK /\ HandleInv)
<1>1. Init => TypeOK /\ HandleInv
  BY MainTask, NewWaitType DEF Init, TypeOK, HandleInv
<1> QED
  BY <1>1, NextType, NextHandles, PTL DEF Spec

\* Task::poll never leaves a waiter pending for good while main runs: the
\* task it waits for is neither aborted nor cancelled.
THEOREM WaitersAreAnswered == Spec => []HeldIsAlive
<1>1. TypeOK /\ HandleInv => HeldIsAlive
  BY DEF HandleInv, HeldIsAlive
<1> QED
  BY <1>1, HandlesTied, PTL

\* Whatever way a function ends, no task it started and did not detach runs
\* on past its next `.await`.
THEOREM NoTaskForgotten == Spec => []NothingForgotten
<1>1. TypeOK /\ HandleInv => NothingForgotten
  BY DEF TypeOK, HandleInv, NothingForgotten, Started, Over
<1> QED
  BY <1>1, HandlesTied, PTL

\* Nothing stops a detached task while main runs.
THEOREM DetachedLives == Spec => []DetachedRunsOn
<1>1. TypeOK /\ HandleInv => DetachedRunsOn
  BY DEF HandleInv, DetachedRunsOn
<1> QED
  BY <1>1, HandlesTied, PTL

----
\* One step stops nothing that is over and lets no stopped task run on.
StopsStep ==
    \A t \in Tasks :
        /\ aborted[t] /\ state[t] = "idle" => state'[t] \in {"idle", "cancelled"}
        /\ state[t] \in Over => state'[t] = state[t]

\* An aborted task is not run past the `.await` it stands at by any step, and
\* what is over stays as it ended.
LEMMA NextStops == ASSUME TypeOK, [Next]_vars PROVE StopsStep
<1>1. ASSUME UNCHANGED state PROVE StopsStep
  BY <1>1 DEF StopsStep
<1>2. ASSUME NEW t \in Tasks, NEW how, NEW origin, End(t, how, origin),
             state[t] = "running" \/ (state[t] = "idle" /\ how = "cancelled")
      PROVE  StopsStep
  BY <1>2 DEF TypeOK, StopsStep, End, Over
<1>3. ASSUME NEW t \in Tasks, Start(t) PROVE StopsStep
  BY <1>3 DEF TypeOK, StopsStep, Start, Started, Over
<1>4. ASSUME NEW t \in Tasks, Run(t) \/ Suspend(t) PROVE StopsStep
  BY <1>4 DEF TypeOK, StopsStep, Run, Suspend, Over
<1>5. ASSUME NEW t \in Tasks, Finish(t) PROVE StopsStep
  BY <1>2, <1>5 DEF Finish, Running
<1>6. ASSUME NEW t \in Tasks, Cancel(t) PROVE StopsStep
  BY <1>2, <1>6 DEF Cancel
<1>7. ASSUME NEW t \in Tasks, Poll(t) PROVE StopsStep
  <2>1. state[t] = "running"
    BY <1>7 DEF Poll
  <2>2. PICK c \in wait[t].of :
          \/ NotReady(t, c) \/ LeftPending(t, c) \/ ResumePanic(t, c)
          \/ GiveErr(t, c) \/ Collect(t, c)
    BY <1>7 DEF Poll
  <2>3. CASE ResumePanic(t, c)
    BY <1>2, <2>1, <2>3 DEF ResumePanic
  <2>4. CASE NotReady(t, c) \/ LeftPending(t, c) \/ GiveErr(t, c) \/ Collect(t, c)
    BY <1>1, <2>4 DEF NotReady, LeftPending, GiveErr, Collect, Leave
  <2> QED
    BY <2>2, <2>3, <2>4
<1>8. ASSUME NEW t \in Tasks,
             \/ Detach(t) \/ Drop(t) \/ Await(t) \/ AwaitList(t) \/ Sleep(t)
             \/ TimerFires(t) \/ Deliver(t)
      PROVE  StopsStep
  BY <1>1, <1>8 DEF Detach, Drop, Await, AwaitList, Sleep, TimerFires, Deliver, Leave
<1>9. CASE Ended \/ UNCHANGED vars
  BY <1>1, <1>9 DEF Ended, vars
<1> QED
  BY <1>3, <1>4, <1>5, <1>6, <1>7, <1>8, <1>9 DEF Next

\* A task whose handle was dropped never passes the `.await` it stands at, and
\* what is over stays as it ended: a dropped handle has aborted its task.
THEOREM StoppedStays == Spec => StopsAtAwait
<1> DEFINE DropStep ==
        \A t \in Tasks :
            /\ handle[t] = "dropped" /\ state[t] = "idle" => state'[t] \in {"idle", "cancelled"}
            /\ state[t] \in Over => state'[t] = state[t]
<1>1. TypeOK /\ HandleInv /\ [Next]_vars => DropStep
  <2> SUFFICES ASSUME TypeOK, HandleInv, [Next]_vars PROVE DropStep
    OBVIOUS
  <2>1. \A t \in Tasks : handle[t] = "dropped" /\ state[t] = "idle" => aborted[t]
    BY DEF HandleInv, Over
  <2> QED
    BY <2>1, NextStops DEF StopsStep
<1> QED
  BY <1>1, TypeCorrect, HandlesTied, PTL DEF Spec, StopsAtAwait

----
\* What a suspended task waits for is its own and still held, or its value
\* has been taken, which a panic never is.
WaitInv ==
    /\ handle[Main] = "none"
    /\ \A c \in Tasks : handle[c] = "taken" => state[c] \in {"ok", "err"}
    /\ \A t \in Tasks : wait[t].kind = "none" => wait[t].of = {}
    /\ \A t \in Tasks : \A c \in wait[t].of : parent[c] = t /\ handle[c] \in {"held", "taken"}

\* A step that leaves each wait for what it was for, or ends it, and drops
\* only handles nobody waits for, keeps WaitInv.
LEMMA WaitsKept ==
    ASSUME TypeOK, HandleInv, WaitInv,
           \A t \in Tasks : \/ wait'[t].kind = wait[t].kind /\ wait'[t].of = wait[t].of
                            \/ wait'[t].of = {},
           \A c \in Tasks : state'[c] = state[c] \/ state[c] \notin Over,
           \A c \in Tasks : handle'[c] = handle[c] \/ (handle[c] = "held" /\ handle'[c] # "taken"),
           \A t \in Tasks : \A c \in wait'[t].of : handle'[c] = handle[c],
           UNCHANGED parent
    PROVE  WaitInv'
<1>1. handle'[Main] = "none"
  BY MainTask DEF WaitInv
<1>2. \A c \in Tasks : handle'[c] = "taken" => state'[c] \in {"ok", "err"}
  BY DEF WaitInv, HandleInv
<1>3. \A t \in Tasks : wait'[t].kind = "none" => wait'[t].of = {}
  BY DEF WaitInv
<1>4. \A t \in Tasks : \A c \in wait'[t].of : parent'[c] = t /\ handle'[c] \in {"held", "taken"}
  BY DEF WaitInv
<1> QED
  BY <1>1, <1>2, <1>3, <1>4 DEF WaitInv

\* What an end does to the waits: only that of the task that ends goes.
LEMMA EndWaits ==
    ASSUME TypeOK, NEW t \in Tasks, NEW how, NEW origin, End(t, how, origin)
    PROVE  /\ wait'[t].of = {}
           /\ \A d \in Tasks \ {t} : wait'[d].kind = wait[d].kind /\ wait'[d].of = wait[d].of
<1>1. wait \in [Tasks -> Wait] /\ parent[t] \in Tasks
  BY DEF TypeOK
<1>2. NoWait.of = {}
  BY DEF NoWait, WaitFor
<1>3. ASSUME NEW w \in Wait PROVE Woken(t, w).kind = w.kind /\ Woken(t, w).of = w.of
  BY DEF Woken, Wait
<1>4. CASE wait' = [wait EXCEPT ![t] = NoWait]
  BY <1>1, <1>2, <1>4
<1>5. CASE wait' = [wait EXCEPT ![parent[t]] = Woken(t, @), ![t] = NoWait]
  <2>1. wait'[t] = NoWait
    BY <1>1, <1>5
  <2>2. ASSUME NEW d \in Tasks \ {t} PROVE wait'[d] = IF d = parent[t] THEN Woken(t, wait[d]) ELSE wait[d]
    BY <1>1, <1>5
  <2>3. ASSUME NEW d \in Tasks \ {t} PROVE wait'[d].kind = wait[d].kind /\ wait'[d].of = wait[d].of
    BY <2>2, <1>1, <1>3
  <2> QED
    BY <2>1, <2>3, <1>2
<1> QED
  BY <1>4, <1>5 DEF End

\* A future that ends, and the aborts its end brings, keep WaitInv.
LEMMA EndKeepsWaits ==
    ASSUME TypeOK, HandleInv, WaitInv, NEW t \in Tasks, NEW how, NEW origin,
           state[t] \in {"idle", "running"}, End(t, how, origin)
    PROVE  WaitInv'
<1>1. /\ state' = [state EXCEPT ![t] = how]
      /\ \A c \in Tasks : handle'[c] = IF c \in HeldBy(t) THEN "dropped" ELSE handle[c]
      /\ UNCHANGED parent
  BY DEF End, DroppedBy
<1>2. \A c \in Tasks : state'[c] = state[c] \/ state[c] \notin Over
  BY <1>1 DEF TypeOK, Over
<1>3. \A c \in Tasks : handle'[c] = handle[c] \/ (handle[c] = "held" /\ handle'[c] # "taken")
  BY <1>1 DEF HeldBy
<1>4. \A d \in Tasks : \A c \in wait[d].of : c \in Tasks /\ parent[c] = d
  BY DEF TypeOK, Wait, WaitInv
<1>5. \A d \in Tasks : \A c \in wait'[d].of : handle'[c] = handle[c]
  BY <1>1, <1>4, EndWaits DEF HeldBy
<1>6. \A d \in Tasks : \/ wait'[d].kind = wait[d].kind /\ wait'[d].of = wait[d].of
                       \/ wait'[d].of = {}
  BY EndWaits
<1> QED
  BY <1>1, <1>2, <1>3, <1>5, <1>6, WaitsKept

\* Every step keeps WaitInv.
LEMMA NextWaits == TypeOK /\ HandleInv /\ WaitInv /\ [Next]_vars => WaitInv'
<1> SUFFICES ASSUME TypeOK, HandleInv, WaitInv, [Next]_vars PROVE WaitInv'
  OBVIOUS
<1>1. wait \in [Tasks -> Wait] /\ handle \in [Tasks -> {"none", "held", "detached", "dropped", "taken"}]
  BY DEF TypeOK
<1>2. \A t \in Tasks : \A c \in wait[t].of : c \in Tasks
  BY <1>1 DEF Wait
<1>3. ASSUME UNCHANGED <<state, parent, handle>>,
             \A t \in Tasks : wait'[t].kind = wait[t].kind /\ wait'[t].of = wait[t].of
      PROVE  WaitInv'
  BY <1>3, WaitsKept
<1>4. ASSUME NEW t \in Tasks, Start(t) PROVE WaitInv'
  <2>1. PICK c \in Tasks \ Started :
          /\ state' = [state EXCEPT ![c] = "idle"]
          /\ parent' = [parent EXCEPT ![c] = t]
          /\ handle' = [handle EXCEPT ![c] = "held"]
          /\ wait' = wait
    BY <1>4 DEF Start
  <2>2. state[c] = "unused" /\ handle[c] = "none" /\ c # Main
    BY <2>1, MainTask DEF HandleInv, TypeOK, Started
  <2>3. \A d \in Tasks : c \notin wait[d].of
    BY <2>2 DEF WaitInv
  <2> QED
    BY <2>1, <2>2, <2>3, <1>2, MainTask DEF WaitInv, TypeOK
<1>5. ASSUME NEW t \in Tasks, NEW S, S \subseteq HeldBy(t), wait[t].of = {} \/ wait'[t].of = {},
             \A c \in Tasks : handle'[c] = handle[c] \/ (c \in S /\ handle'[c] # "taken"),
             \A d \in Tasks \ {t} : wait'[d] = wait[d],
             wait'[t] = wait[t] \/ wait'[t].of = {},
             UNCHANGED <<state, parent>>
      PROVE  WaitInv'
  <2>1. \A c \in Tasks : handle'[c] = handle[c] \/ (handle[c] = "held" /\ handle'[c] # "taken")
    BY <1>5 DEF HeldBy
  <2>2. \A d \in Tasks : \A c \in wait'[d].of : handle'[c] = handle[c]
    BY <1>5, <1>2 DEF WaitInv, HeldBy
  <2> QED
    BY <1>5, <2>1, <2>2, WaitsKept
<1>6. ASSUME NEW t \in Tasks, Detach(t) \/ Drop(t) PROVE WaitInv'
  <2>1. wait[t].of = {} /\ UNCHANGED <<state, parent, wait>>
    BY <1>6 DEF Detach, Drop, Running, WaitInv
  <2>2. PICK c \in HeldBy(t) : handle' = [handle EXCEPT ![c] = "detached"] \/ handle' = DroppedBy({c})
    BY <1>6 DEF Detach, Drop
  <2>3. \A d \in Tasks : handle'[d] = handle[d] \/ (d \in {c} /\ handle'[d] # "taken")
    BY <2>2, <1>1 DEF DroppedBy
  <2> QED
    BY <2>1, <2>2, <2>3, <1>5
<1>7. ASSUME NEW t \in Tasks, NEW w, w.of \subseteq HeldBy(t), w.kind # "none",
             wait' = [wait EXCEPT ![t] = w], UNCHANGED <<state, parent, handle>>
      PROVE  WaitInv'
  BY <1>1, <1>7 DEF WaitInv, HeldBy
<1>8. ASSUME NEW t \in Tasks, Await(t) \/ AwaitList(t) \/ Sleep(t) PROVE WaitInv'
  <2>1. PICK k \in {"one", "all", "try", "sleep"}, S \in SUBSET HeldBy(t) :
          wait' = [wait EXCEPT ![t] = WaitFor(k, S)]
    BY <1>8 DEF Await, AwaitList, Sleep
  <2>2. WaitFor(k, S).of \subseteq HeldBy(t) /\ WaitFor(k, S).kind # "none"
    BY <2>1 DEF WaitFor
  <2>3. UNCHANGED <<state, parent, handle>>
    BY <1>8 DEF Await, AwaitList, Sleep
  <2> QED
    BY <2>1, <2>2, <2>3, <1>7
<1>9. ASSUME NEW t \in Tasks, TimerFires(t) PROVE WaitInv'
  <2>1. wait'[t].of = {} /\ \A d \in Tasks \ {t} : wait'[d] = wait[d]
    BY <1>1, <1>9 DEF TimerFires, NoWait, WaitFor
  <2>2. UNCHANGED <<state, parent, handle>>
    BY <1>9 DEF TimerFires
  <2> QED
    BY <2>1, <2>2, <1>5
<1>10. ASSUME NEW t \in Tasks, Finish(t) \/ Cancel(t) PROVE WaitInv'
  BY <1>10, EndKeepsWaits DEF Finish, Running, Cancel
<1>11. ASSUME NEW t \in Tasks, Run(t) PROVE WaitInv'
  <2>1. state[t] = "idle" /\ state' = [state EXCEPT ![t] = "running"] /\ UNCHANGED <<parent, handle>>
    BY <1>11 DEF Run
  <2>2. \A d \in Tasks : wait'[d].kind = wait[d].kind /\ wait'[d].of = wait[d].of
    BY <1>1, <1>11 DEF Run, Wait
  <2>3. \A c \in Tasks : state'[c] = state[c] \/ state[c] \notin Over
    BY <2>1 DEF TypeOK, Over
  <2> QED
    BY <2>1, <2>2, <2>3, WaitsKept
<1>12. ASSUME NEW t \in Tasks, Suspend(t) PROVE WaitInv'
  <2>1. state[t] = "running" /\ state' = [state EXCEPT ![t] = "idle"] /\ UNCHANGED <<parent, handle, wait>>
    BY <1>12 DEF Suspend
  <2>2. \A c \in Tasks : state'[c] = state[c] \/ state[c] \notin Over
    BY <2>1 DEF TypeOK, Over
  <2> QED
    BY <2>1, <2>2, WaitsKept
<1>13. ASSUME NEW t \in Tasks, NEW outcome, Leave(t, outcome) PROVE WaitInv'
  <2>1. wait'[t].of = {} /\ \A d \in Tasks \ {t} : wait'[d] = wait[d]
    BY <1>1, <1>13 DEF Leave, NoWait, WaitFor
  <2>2. {c \in wait[t].of : handle[c] = "held"} \subseteq HeldBy(t)
    BY <1>2 DEF WaitInv, HeldBy
  <2>3. \A c \in Tasks : handle'[c] = handle[c] \/ (c \in {d \in wait[t].of : handle[d] = "held"} /\ handle'[c] # "taken")
    BY <1>13 DEF Leave, DroppedBy
  <2>4. UNCHANGED <<state, parent>>
    BY <1>13 DEF Leave
  <2> QED
    BY <2>1, <2>2, <2>3, <2>4, <1>5
<1>14. ASSUME NEW t \in Tasks, Poll(t) PROVE WaitInv'
  <2>1. PICK c \in wait[t].of :
          /\ NextUp(c, wait[t])
          /\ \/ NotReady(t, c) \/ LeftPending(t, c) \/ ResumePanic(t, c)
             \/ GiveErr(t, c) \/ Collect(t, c)
    BY <1>14 DEF Poll
  <2>2. state[t] = "running" /\ wait[t] \in Wait /\ c \in Tasks
    BY <1>1, <1>2, <1>14 DEF Poll
  <2>3. Polled(wait[t]) \in Wait /\ Polled(wait[t]).kind = wait[t].kind /\ Polled(wait[t]).of = wait[t].of
    BY <2>1, <2>2, PolledType DEF Polled, Wait
  <2>4. CASE NotReady(t, c)
    <3>1. \A d \in Tasks : wait'[d].kind = wait[d].kind /\ wait'[d].of = wait[d].of
      BY <1>1, <2>2, <2>3, <2>4 DEF NotReady, Wait
    <3> QED
      BY <3>1, <2>4, <1>3 DEF NotReady
  <2>5. CASE LeftPending(t, c)
    <3>1. \A d \in Tasks : wait'[d].kind = wait[d].kind /\ wait'[d].of = wait[d].of
      BY <1>1, <2>2, <2>3, <2>5 DEF LeftPending
    <3> QED
      BY <3>1, <2>5, <1>3 DEF LeftPending
  <2>6. CASE ResumePanic(t, c)
    BY <2>2, <2>6, EndKeepsWaits DEF ResumePanic
  <2>7. CASE GiveErr(t, c)
    BY <1>13, <2>7 DEF GiveErr
  <2>8. CASE Collect(t, c)
    <3>1. \A d \in Tasks : wait'[d].kind = wait[d].kind /\ wait'[d].of = wait[d].of
      BY <1>1, <2>2, <2>3, <2>8 DEF Collect, Wait
    <3>2. state[c] \in {"ok", "err"} /\ handle' = [handle EXCEPT ![c] = "taken"] /\ UNCHANGED <<state, parent>>
      BY <2>8 DEF Collect
    <3>3. c # Main
      BY <2>1 DEF WaitInv
    <3> QED
      BY <1>1, <1>2, <2>2, <3>1, <3>2, <3>3, MainTask DEF WaitInv
  <2> QED
    BY <2>1, <2>4, <2>5, <2>6, <2>7, <2>8
<1>15. ASSUME NEW t \in Tasks, Deliver(t) PROVE WaitInv'
  BY <1>13, <1>15 DEF Deliver
<1>16. CASE Ended \/ UNCHANGED vars
  BY <1>3, <1>16 DEF Ended, vars
<1> QED
  BY <1>4, <1>6, <1>8, <1>9, <1>10, <1>11, <1>12, <1>14, <1>15, <1>16 DEF Next

\* A step that panics no task and brings none back, and undoes no drop, keeps
\* what explains the panics there are.
LEMMA PanicsKept ==
    ASSUME PanicsResume,
           \A c \in Tasks : state'[c] = "panicked" <=> state[c] = "panicked",
           \A c \in Tasks : state[c] = "panicked" => parent'[c] = parent[c],
           \A c \in Tasks : handle[c] = "dropped" => handle'[c] = "dropped",
           UNCHANGED why
    PROVE  PanicsResume'
  BY DEF PanicsResume

\* Nor does the end of a task that did not panic, that panicked itself, or
\* that resumed the panic of one it held.
LEMMA EndExplains ==
    ASSUME TypeOK, WaitInv, PanicsResume, NEW t \in Tasks, NEW how, NEW origin,
           state[t] \in {"idle", "running"}, End(t, how, origin),
           \/ how # "panicked"
           \/ origin = t
           \/ \E c \in Tasks : /\ parent[c] = t /\ handle[c] = "held"
                               /\ state[c] = "panicked" /\ why[c] = origin
    PROVE  PanicsResume'
<1>1. /\ state' = [state EXCEPT ![t] = how]
      /\ why' = [why EXCEPT ![t] = origin]
      /\ \A c \in Tasks : handle'[c] = IF c \in HeldBy(t) THEN "dropped" ELSE handle[c]
      /\ parent' = parent
  BY DEF End, DroppedBy
<1>2. \A c \in Tasks : state[c] = "panicked" => c # t /\ state'[c] = "panicked" /\ why'[c] = why[c]
  BY <1>1 DEF TypeOK
<1>3. ASSUME NEW d \in Tasks, state'[d] = "panicked", why'[d] # d, d # t
      PROVE  \E c \in Tasks \ {Main} : /\ parent'[c] = d /\ handle'[c] = "dropped"
                                       /\ state'[c] = "panicked" /\ why'[c] = why'[d]
  <2>1. state[d] = "panicked" /\ why[d] # d /\ why'[d] = why[d]
    BY <1>1, <1>3 DEF TypeOK
  <2>2. PICK c \in Tasks \ {Main} : /\ parent[c] = d /\ handle[c] = "dropped"
                                    /\ state[c] = "panicked" /\ why[c] = why[d]
    BY <2>1 DEF PanicsResume
  <2> QED
    BY <1>1, <1>2, <2>1, <2>2
<1>4. ASSUME state'[t] = "panicked", why'[t] # t
      PROVE  \E c \in Tasks \ {Main} : /\ parent'[c] = t /\ handle'[c] = "dropped"
                                       /\ state'[c] = "panicked" /\ why'[c] = why'[t]
  <2>1. how = "panicked" /\ why'[t] = origin /\ origin # t
    BY <1>1, <1>4 DEF TypeOK
  <2>2. PICK c \in Tasks : /\ parent[c] = t /\ handle[c] = "held"
                           /\ state[c] = "panicked" /\ why[c] = origin
    BY <2>1
  <2>3. handle'[c] = "dropped" /\ parent'[c] = t /\ state'[c] = "panicked" /\ why'[c] = why'[t]
    BY <1>1, <1>2, <2>1, <2>2 DEF HeldBy
  <2>4. CASE c # Main
    BY <2>3, <2>4
  <2>5. CASE c = Main
    BY <2>2, <2>5 DEF WaitInv
  <2> QED
    BY <2>4, <2>5
<1> QED
  BY <1>3, <1>4 DEF PanicsResume

\* Every step keeps PanicsResume.
LEMMA NextPanics ==
    ASSUME TypeOK, HandleInv, WaitInv, PanicsResume, [Next]_vars PROVE PanicsResume'
<1>1. ASSUME UNCHANGED <<state, parent, why>>,
             \A c \in Tasks : handle[c] = "dropped" => handle'[c] = "dropped"
      PROVE  PanicsResume'
  BY <1>1, PanicsKept
<1>2. ASSUME NEW t \in Tasks, Start(t) PROVE PanicsResume'
  <2>1. PICK c \in Tasks \ Started :
          /\ state' = [state EXCEPT ![c] = "idle"]
          /\ parent' = [parent EXCEPT ![c] = t]
          /\ handle' = [handle EXCEPT ![c] = "held"]
          /\ why' = why
    BY <1>2 DEF Start
  <2>2. state[c] = "unused" /\ handle[c] = "none"
    BY <2>1 DEF TypeOK, Started
  <2>3. /\ \A d \in Tasks : state'[d] = "panicked" <=> state[d] = "panicked"
        /\ \A d \in Tasks : state[d] = "panicked" => parent'[d] = parent[d]
        /\ \A d \in Tasks : handle[d] = "dropped" => handle'[d] = "dropped"
    BY <2>1, <2>2 DEF TypeOK
  <2> QED
    BY <2>1, <2>3, PanicsKept
<1>3. ASSUME NEW t \in Tasks, Detach(t) \/ Drop(t) PROVE PanicsResume'
  <2>1. \A c \in Tasks : handle[c] = "dropped" => handle'[c] = "dropped"
    BY <1>3 DEF Detach, Drop, DroppedBy, HeldBy, TypeOK
  <2> QED
    BY <1>1, <1>3, <2>1 DEF Detach, Drop
<1>4. ASSUME NEW t \in Tasks, Await(t) \/ AwaitList(t) \/ Sleep(t) \/ TimerFires(t) PROVE PanicsResume'
  BY <1>1, <1>4 DEF Await, AwaitList, Sleep, TimerFires
<1>5. ASSUME NEW t \in Tasks, Run(t) \/ Suspend(t) PROVE PanicsResume'
  <2>1. PICK s \in {"idle", "running"} : state' = [state EXCEPT ![t] = s]
    BY <1>5 DEF Run, Suspend
  <2>2. state[t] \in {"idle", "running"} /\ UNCHANGED <<parent, handle, why>>
    BY <1>5 DEF Run, Suspend
  <2>3. \A d \in Tasks : state'[d] = "panicked" <=> state[d] = "panicked"
    BY <2>1, <2>2 DEF TypeOK
  <2> QED
    BY <2>2, <2>3, PanicsKept
<1>6. ASSUME NEW t \in Tasks, Finish(t) PROVE PanicsResume'
  BY <1>6, EndExplains DEF Finish, Running
<1>7. ASSUME NEW t \in Tasks, Cancel(t) PROVE PanicsResume'
  BY <1>7, EndExplains DEF Cancel
<1>8. ASSUME NEW t \in Tasks, NEW outcome, Leave(t, outcome) PROVE PanicsResume'
  <2>1. \A c \in Tasks : handle[c] = "dropped" => handle'[c] = "dropped"
    BY <1>8 DEF Leave, DroppedBy
  <2> QED
    BY <1>1, <1>8, <2>1 DEF Leave
<1>9. ASSUME NEW t \in Tasks, Poll(t) PROVE PanicsResume'
  <2>1. PICK c \in wait[t].of :
          \/ NotReady(t, c) \/ LeftPending(t, c) \/ ResumePanic(t, c)
          \/ GiveErr(t, c) \/ Collect(t, c)
    BY <1>9 DEF Poll
  <2>2. c \in Tasks /\ state[t] = "running" /\ parent[c] = t /\ handle[c] \in {"held", "taken"}
    BY <1>9 DEF Poll, WaitInv, TypeOK, Wait
  <2>3. CASE NotReady(t, c) \/ LeftPending(t, c)
    BY <1>1, <2>3 DEF NotReady, LeftPending
  <2>4. CASE ResumePanic(t, c)
    <3>1. state[c] = "panicked" /\ handle[c] = "held"
      BY <2>2, <2>4 DEF ResumePanic, WaitInv
    <3> QED
      BY <2>2, <2>4, <3>1, EndExplains DEF ResumePanic
  <2>5. CASE GiveErr(t, c)
    BY <1>8, <2>5 DEF GiveErr
  <2>6. CASE Collect(t, c)
    <3>1. \A d \in Tasks : handle[d] = "dropped" => handle'[d] = "dropped"
      BY <2>2, <2>6 DEF Collect, TypeOK
    <3> QED
      BY <1>1, <2>6, <3>1 DEF Collect
  <2> QED
    BY <2>1, <2>3, <2>4, <2>5, <2>6
<1>10. ASSUME NEW t \in Tasks, Deliver(t) PROVE PanicsResume'
  BY <1>8, <1>10 DEF Deliver
<1>11. CASE Ended \/ UNCHANGED vars
  BY <1>1, <1>11 DEF Ended, vars
<1> QED
  BY <1>2, <1>3, <1>4, <1>5, <1>6, <1>7, <1>9, <1>10, <1>11 DEF Next

\* A panic goes up the waiters and nowhere else: whoever panicked without
\* panicking itself was waiting on a task of its own that did.
THEOREM PanicsGoToTheWaiter == Spec => []PanicsResume
<1>1. Init => TypeOK /\ HandleInv
  BY MainTask, NewWaitType DEF Init, TypeOK, HandleInv
<1>2. Init => WaitInv /\ PanicsResume
  BY MainTask DEF Init, WaitInv, PanicsResume, NoWait, WaitFor
<1> QED
  BY <1>1, <1>2, NextType, NextHandles, NextWaits, NextPanics, PTL DEF Spec

----
\* Where a task stands in a list of them.
PlaceIn(s, t) == CHOOSE i \in DOMAIN s : s[i] = t

\* The tasks that have ended, each once, in the order of their ends.
EndsInv ==
    /\ \A t \in Tasks : state[t] \in Over <=> \E i \in DOMAIN ends : ends[i] = t
    /\ \A i, j \in DOMAIN ends : ends[i] = ends[j] => i = j

\* Inside try_all a task is still to be asked, or was asked, or has given its
\* value, but for those the shutdown cancelled; one that was asked and has
\* ended since is queued, in the order of the ends, and no other is.
TryInv(w) ==
    /\ \A c \in w.of : c \in w.fresh \cup w.asked \cup Range(w.done) \/ state[c] = "cancelled"
    /\ w.fresh \cap w.asked = {}
    /\ \A i \in DOMAIN w.woken : w.woken[i] \in w.asked \ Range(w.done) /\ state[w.woken[i]] \in Over
    /\ \A i, j \in DOMAIN w.woken : i < j => PlaceIn(ends, w.woken[i]) < PlaceIn(ends, w.woken[j])
    /\ \A c \in w.asked : state[c] \in Over =>
          c \in Range(w.woken) \cup Range(w.done) \/ state[c] = "cancelled"
    /\ \A c \in Range(w.done) : state[c] = "ok"

\* What a wait has done so far: it has each value it took, and took it once.
WaitListInv(w) ==
    /\ w.fresh \cup w.asked \cup Range(w.done) \subseteq w.of
    /\ \A c \in w.of : handle[c] = "taken" <=> c \in Range(w.done)
    /\ \A i, j \in DOMAIN w.done : w.done[i] = w.done[j] => i = j
    /\ w.fresh \cap Range(w.done) = {}
    /\ w.kind # "try" => w.woken = <<>>
    /\ w.kind = "try" => TryInv(w)

ListInv == \A t \in Tasks : WaitListInv(wait[t])

\* The Err that was given is one, and of the list.
ErrInv == given.kind = "err" =>
    /\ Head(given.got) \in Tasks /\ state[Head(given.got)] = "err"
    /\ given.of \subseteq Tasks

\* What a sequence holds: itself, with one more, without its first.
LEMMA Held ==
    ASSUME NEW S, NEW s \in Seq(S), NEW e \in S
    PROVE  /\ Range(s) \subseteq S /\ DOMAIN s = 1..Len(s) /\ Len(s) \in Nat
           /\ \A i \in 1..Len(s) : s[i] \in Range(s)
           /\ \A x \in Range(s) : \E i \in 1..Len(s) : x = s[i]
           /\ Append(s, e) \in Seq(S) /\ Len(Append(s, e)) = Len(s) + 1
           /\ Range(Append(s, e)) = Range(s) \cup {e}
           /\ \A i \in 1..Len(s) : Append(s, e)[i] = s[i]
           /\ Append(s, e)[Len(s) + 1] = e
<1>1. /\ DOMAIN s = 1..Len(s) /\ Len(s) \in Nat
      /\ Append(s, e) \in Seq(S) /\ Len(Append(s, e)) = Len(s) + 1
      /\ \A i \in 1..Len(s) : Append(s, e)[i] = s[i] /\ s[i] \in S
      /\ Append(s, e)[Len(s) + 1] = e
  OBVIOUS
<1>2. DOMAIN Append(s, e) = 1..(Len(s) + 1)
  BY <1>1
<1>3. Range(Append(s, e)) = Range(s) \cup {e}
  BY <1>1, <1>2 DEF Range
<1> QED
  BY <1>1, <1>3 DEF Range

\* What is left of a sequence without its first.
LEMMA HeldAfter ==
    ASSUME NEW S, NEW s \in Seq(S), s # <<>>
    PROVE  /\ Tail(s) \in Seq(S) /\ Len(s) > 0 /\ Len(Tail(s)) = Len(s) - 1 /\ Head(s) = s[1]
           /\ DOMAIN Tail(s) = 1..(Len(s) - 1)
           /\ \A i \in 1..(Len(s) - 1) : Tail(s)[i] = s[i + 1]
           /\ Range(s) = Range(Tail(s)) \cup {Head(s)}
<1>1. /\ Tail(s) \in Seq(S) /\ Len(s) \in Nat /\ Len(s) > 0 /\ Len(Tail(s)) = Len(s) - 1 /\ Head(s) = s[1]
      /\ DOMAIN Tail(s) = 1..(Len(s) - 1) /\ DOMAIN s = 1..Len(s)
      /\ \A i \in 1..(Len(s) - 1) : Tail(s)[i] = s[i + 1]
  OBVIOUS
<1>2. ASSUME NEW x \in Range(s) PROVE x \in Range(Tail(s)) \cup {Head(s)}
  <2>1. PICK i \in 1..Len(s) : x = s[i]
    BY <1>1, <1>2 DEF Range
  <2>2. i = 1 \/ (i - 1 \in 1..(Len(s) - 1) /\ s[i] = Tail(s)[i - 1])
    BY <1>1, <2>1
  <2> QED
    BY <1>1, <2>1, <2>2 DEF Range
<1>3. ASSUME NEW x \in Range(Tail(s)) \cup {Head(s)} PROVE x \in Range(s)
  BY <1>1, <1>3 DEF Range
<1> QED
  BY <1>1, <1>2, <1>3

\* A step ends one task that was not over, or none.
LEMMA EndsOne ==
    ASSUME TypeOK, [Next]_vars
    PROVE  \/ ends' = ends /\ \A t \in Tasks : state'[t] = state[t] \/ (state[t] \notin Over /\ state'[t] \notin Over)
           \/ \E t \in Tasks, how \in Over :
                /\ state[t] \notin Over /\ ends' = Append(ends, t) /\ state' = [state EXCEPT ![t] = how]
<1> DEFINE Same == ends' = ends /\ \A t \in Tasks : state'[t] = state[t] \/ (state[t] \notin Over /\ state'[t] \notin Over)
           Ending == \E t \in Tasks, how \in Over :
                /\ state[t] \notin Over /\ ends' = Append(ends, t) /\ state' = [state EXCEPT ![t] = how]
<1>1. ASSUME NEW t \in Tasks, NEW how \in Over, NEW origin, End(t, how, origin), state[t] \in {"idle", "running"}
      PROVE  Ending
  <2>1. state[t] \notin Over /\ ends' = Append(ends, t) /\ state' = [state EXCEPT ![t] = how]
    BY <1>1 DEF End, Over
  <2> QED
    BY <2>1
<1>2. ASSUME NEW t \in Tasks, Finish(t) \/ Cancel(t) PROVE Ending
  BY <1>1, <1>2 DEF Finish, Cancel, Running, Over
<1>3. ASSUME NEW t \in Tasks, Poll(t) PROVE Same \/ Ending
  <2>1. PICK c \in wait[t].of :
          \/ NotReady(t, c) \/ LeftPending(t, c) \/ ResumePanic(t, c)
          \/ GiveErr(t, c) \/ Collect(t, c)
    BY <1>3 DEF Poll
  <2>2. CASE ResumePanic(t, c)
    BY <1>1, <1>3, <2>2 DEF ResumePanic, Poll, Over
  <2>3. CASE NotReady(t, c) \/ LeftPending(t, c) \/ GiveErr(t, c) \/ Collect(t, c)
    BY <2>3 DEF NotReady, LeftPending, GiveErr, Collect, Leave
  <2> QED
    BY <2>1, <2>2, <2>3
<1>4. ASSUME NEW t \in Tasks, Start(t) \/ Run(t) \/ Suspend(t) PROVE Same
  BY <1>4 DEF Start, Run, Suspend, Started, TypeOK, Over
<1>5. ASSUME NEW t \in Tasks,
             \/ Detach(t) \/ Drop(t) \/ Await(t) \/ AwaitList(t) \/ Sleep(t)
             \/ TimerFires(t) \/ Deliver(t)
      PROVE  Same
  BY <1>5 DEF Detach, Drop, Await, AwaitList, Sleep, TimerFires, Deliver, Leave
<1>6. CASE Ended \/ UNCHANGED vars
  BY <1>6 DEF Ended, vars
<1> QED
  BY <1>2, <1>3, <1>4, <1>5, <1>6 DEF Next

\* So each task that ended keeps its place, and one that ends now is the last.
LEMMA PlacesKept ==
    ASSUME TypeOK, EndsInv, [Next]_vars
    PROVE  /\ EndsInv'
           /\ \A t \in Tasks : state[t] \in Over =>
                state'[t] = state[t] /\ PlaceIn(ends', t) = PlaceIn(ends, t) /\ PlaceIn(ends, t) \in 1..Len(ends)
           /\ \A t \in Tasks : state[t] \notin Over /\ state'[t] \in Over =>
                ends' = Append(ends, t) /\ PlaceIn(ends', t) = Len(ends) + 1
<1>0. ends \in Seq(Tasks) /\ DOMAIN ends = 1..Len(ends) /\ Len(ends) \in Nat
  BY DEF TypeOK
<1>1. ASSUME NEW t \in Tasks, state[t] \in Over PROVE PlaceIn(ends, t) \in 1..Len(ends) /\ ends[PlaceIn(ends, t)] = t
  <2>1. \E i \in DOMAIN ends : ends[i] = t
    BY <1>1 DEF EndsInv
  <2> QED
    BY <1>0, <2>1 DEF PlaceIn
<1>2. CASE ends' = ends /\ \A t \in Tasks : state'[t] = state[t] \/ (state[t] \notin Over /\ state'[t] \notin Over)
  <2>1. EndsInv'
    BY <1>2 DEF EndsInv
  <2>2. \A t \in Tasks : PlaceIn(ends', t) = PlaceIn(ends, t)
    BY <1>2 DEF PlaceIn
  <2> QED
    BY <1>1, <1>2, <2>1, <2>2
<1>3. ASSUME NEW t \in Tasks, NEW how \in Over, state[t] \notin Over, ends' = Append(ends, t),
             state' = [state EXCEPT ![t] = how]
      PROVE  /\ EndsInv'
             /\ \A c \in Tasks : state[c] \in Over =>
                  state'[c] = state[c] /\ PlaceIn(ends', c) = PlaceIn(ends, c) /\ PlaceIn(ends, c) \in 1..Len(ends)
             /\ \A c \in Tasks : state[c] \notin Over /\ state'[c] \in Over =>
                  ends' = Append(ends, c) /\ PlaceIn(ends', c) = Len(ends) + 1
  <2>1. /\ DOMAIN ends' = 1..(Len(ends) + 1) /\ ends'[Len(ends) + 1] = t
        /\ \A i \in 1..Len(ends) : ends'[i] = ends[i]
    BY <1>0, <1>3
  <2>2. \A i \in 1..Len(ends) : ends[i] # t
    BY <1>0, <1>3 DEF EndsInv
  <2>3. \A c \in Tasks : c # t => state'[c] = state[c]
    BY <1>3 DEF TypeOK
  <2>4. state'[t] \in Over
    BY <1>3 DEF TypeOK
  <2>5. EndsInv'
    <3>1. \A c \in Tasks : state'[c] \in Over <=> \E i \in DOMAIN ends' : ends'[i] = c
      <4>1. ASSUME NEW c \in Tasks, c # t PROVE state'[c] \in Over <=> \E i \in DOMAIN ends' : ends'[i] = c
        BY <1>0, <2>1, <2>3, <4>1 DEF EndsInv
      <4> QED
        BY <1>0, <2>1, <2>4, <4>1
    <3>2. \A i, j \in DOMAIN ends' : ends'[i] = ends'[j] => i = j
      BY <1>0, <2>1, <2>2 DEF EndsInv
    <3> QED
      BY <3>1, <3>2 DEF EndsInv
  <2>6. ASSUME NEW c \in Tasks, NEW i \in DOMAIN ends', ends'[i] = c PROVE PlaceIn(ends', c) = i
    <3>1. ends'[PlaceIn(ends', c)] = c /\ PlaceIn(ends', c) \in DOMAIN ends'
      BY <2>6 DEF PlaceIn
    <3> QED
      BY <2>5, <2>6, <3>1 DEF EndsInv
  <2>7. ASSUME NEW c \in Tasks, state[c] \in Over
        PROVE  state'[c] = state[c] /\ PlaceIn(ends', c) = PlaceIn(ends, c) /\ PlaceIn(ends, c) \in 1..Len(ends)
    BY <1>0, <1>1, <1>3, <2>1, <2>3, <2>6, <2>7
  <2>8. ASSUME NEW c \in Tasks, state[c] \notin Over, state'[c] \in Over PROVE c = t /\ PlaceIn(ends', c) = Len(ends) + 1
    BY <1>0, <2>1, <2>3, <2>6, <2>8
  <2> QED
    BY <1>3, <2>5, <2>7, <2>8
<1> QED
  BY <1>2, <1>3, EndsOne

\* What one wait has done stays true in a step that leaves it alone.
LEMMA ListKept ==
    ASSUME TypeOK, EndsInv, [Next]_vars, NEW t \in Tasks, WaitListInv(wait[t]), wait'[t] = wait[t],
           \A c \in wait[t].of : handle'[c] = "taken" <=> handle[c] = "taken",
           wait[t].kind = "try" => \A c \in wait[t].asked : state[c] \notin Over => state'[c] \notin Over,
           HandleInv
    PROVE  WaitListInv(wait[t])'
<1>1. wait[t] \in Wait
  BY DEF TypeOK
<1>2. \A c \in Tasks : state[c] \in Over => state'[c] = state[c] /\ PlaceIn(ends', c) = PlaceIn(ends, c)
  BY PlacesKept
<1>3. wait[t].kind = "try" => TryInv(wait[t])'
  <2>1. SUFFICES ASSUME wait[t].kind = "try", TryInv(wait[t]) PROVE TryInv(wait[t])'
    BY DEF WaitListInv
  <2>2. wait[t].woken \in Seq(Tasks) /\ wait[t].done \in Seq(Tasks) /\ wait[t].of \subseteq Tasks
        /\ wait[t].asked \subseteq Tasks
    BY <1>1 DEF Wait
  <2>3. \A c \in wait[t].of : state[c] = "cancelled" => state'[c] = "cancelled"
    BY <1>2, <2>2 DEF Over
  <2>4. \A i \in DOMAIN wait[t].woken :
          wait[t].woken[i] \in Tasks /\ state[wait[t].woken[i]] \in Over
    BY <2>1, <2>2 DEF TryInv
  <2>5. \A i \in DOMAIN wait[t].woken :
          /\ state'[wait[t].woken[i]] \in Over
          /\ PlaceIn(ends', wait[t].woken[i]) = PlaceIn(ends, wait[t].woken[i])
    BY <1>2, <2>4
  <2>6. \A c \in wait[t].asked : state'[c] \in Over => state[c] \in Over /\ state'[c] = state[c]
    BY <1>2, <2>1, <2>2
  <2>7. \A c \in Range(wait[t].done) : c \in Tasks /\ state'[c] = "ok"
    BY <1>2, <2>1, <2>2 DEF TryInv, Range, Over
  <2> QED
    BY <2>1, <2>3, <2>5, <2>6, <2>7 DEF TryInv
<1> QED
  BY <1>3 DEF WaitListInv

\* A wait that begins has done nothing, and one that ended is none.
LEMMA ListBegins ==
    ASSUME NEW t \in Tasks, NEW k, NEW S, wait'[t] = WaitFor(k, S), \A c \in S : handle'[c] # "taken"
    PROVE  WaitListInv(wait[t])'
<1>1. /\ wait'[t].of = S /\ wait'[t].fresh = S /\ wait'[t].woken = <<>> /\ wait'[t].asked = {}
      /\ wait'[t].done = <<>>
  BY DEF WaitFor
<1>2. Range(<<>>) = {}
  BY DEF Range
<1> QED
  BY <1>1, <1>2 DEF WaitListInv, TryInv

\* No wait but its starter's names a task, and none that is over is held.
LEMMA Apart ==
    ASSUME TypeOK, HandleInv, WaitInv, NEW t \in Tasks, NEW c \in wait[t].of
    PROVE  /\ c \in Tasks /\ c # Main /\ parent[c] = t /\ handle[c] \in {"held", "taken"}
           /\ handle[c] = "taken" => state[c] \in {"ok", "err"}
           /\ \A d \in Tasks : d # t => c \notin wait[d].of
  BY DEF TypeOK, WaitInv, Wait

\* The end of a future keeps what every wait has done: that of its waiter is
\* told, and what it waited for itself is dropped with it.
LEMMA EndLists ==
    ASSUME TypeOK, HandleInv, WaitInv, EndsInv, ListInv, [Next]_vars,
           NEW t \in Tasks, NEW how \in Over, NEW origin, state[t] \in {"idle", "running"}, End(t, how, origin)
    PROVE  ListInv'
<1>0. /\ state' = [state EXCEPT ![t] = how] /\ parent' = parent
      /\ \A c \in Tasks : handle'[c] = IF c \in HeldBy(t) THEN "dropped" ELSE handle[c]
      /\ wait \in [Tasks -> Wait] /\ parent[t] \in Tasks /\ NoWait \in Wait
  BY NewWaitType DEF End, DroppedBy, TypeOK
<1>1. ASSUME NEW d \in Tasks, d # t, NEW c \in wait[d].of PROVE handle'[c] = handle[c] /\ c \in Tasks
  BY <1>0, <1>1, Apart DEF HeldBy
<1>2. WaitListInv(wait[t])'
  BY <1>0, ListBegins DEF End, NoWait
<1>3. ASSUME NEW d \in Tasks, d # t, t \notin wait[d].asked \/ wait[d].kind # "try", wait'[d] = wait[d]
      PROVE  WaitListInv(wait[d])'
  <2>1. WaitListInv(wait[d])
    BY DEF ListInv
  <2>2. \A c \in wait[d].asked : c # t \/ wait[d].kind # "try"
    BY <1>3
  <2>3. wait[d].asked \subseteq Tasks
    BY <1>0 DEF Wait
  <2>4. wait[d].kind = "try" => \A c \in wait[d].asked : state[c] \notin Over => state'[c] \notin Over
    BY <1>0, <2>2, <2>3 DEF TypeOK
  <2> QED
    BY <1>1, <1>3, <2>1, <2>4, ListKept
<1>4. ASSUME NEW d \in Tasks, d # t, t \in wait[d].asked PROVE d = parent[t] /\ t # Main /\ handle[t] = "held"
  <2>1. t \in wait[d].of
    BY <1>4 DEF ListInv, WaitListInv
  <2> QED
    BY <1>4, <2>1, Apart DEF HandleInv, Over
<1>5. ASSUME NEW d \in Tasks, d # t, t \in wait[d].asked, wait[d].kind = "try" PROVE WaitListInv(wait[d])'
  <2>w. PICK w \in Wait : w = wait[d]
    BY <1>0
  <2>v. PICK v : v = wait'[d]
    OBVIOUS
  <2>0. w \in Wait /\ w.woken \in Seq(Tasks) /\ w.done \in Seq(Tasks)
    BY <1>0 DEF Wait
  <2>1. v = [w EXCEPT !.woken = Append(@, t)]
    <3>1. wait' = [wait EXCEPT ![parent[t]] = Woken(t, @), ![t] = NoWait]
      BY <1>4, <1>5 DEF End
    <3>2. wait'[d] = Woken(t, wait[d])
      BY <1>0, <1>4, <1>5, <3>1
    <3> QED
      BY <1>5, <2>w, <2>v, <3>2 DEF Woken
  <2>2. v.kind = "try" /\ v.of = w.of /\ v.fresh = w.fresh /\ v.asked = w.asked /\ v.done = w.done
        /\ v.woken = Append(w.woken, t)
    BY <1>5, <2>0, <2>1, <2>w DEF Wait
  <2>3. WaitListInv(w) /\ TryInv(w)
    BY <1>5, <2>w DEF ListInv, WaitListInv
  <2>4. t \in w.of /\ t \notin Range(w.done)
    BY <1>4, <1>5, <2>3, <2>w DEF WaitListInv
  <2>5. \A c \in Tasks : c # t => state'[c] = state[c]
    BY <1>0 DEF TypeOK
  <2>6. state'[t] \in Over /\ state[t] \notin Over
    BY <1>0 DEF TypeOK, Over
  <2>7. /\ \A c \in Tasks : state[c] \in Over => PlaceIn(ends', c) = PlaceIn(ends, c) /\ PlaceIn(ends, c) \in 1..Len(ends)
        /\ PlaceIn(ends', t) = Len(ends) + 1
    BY <2>6, PlacesKept
  <2>8. w.of \subseteq Tasks /\ w.asked \subseteq Tasks /\ Range(w.done) \subseteq Tasks /\ Len(ends) \in Nat
    BY <2>0, Held DEF Wait, TypeOK
  <2>9. /\ Len(w.woken) \in Nat /\ DOMAIN w.woken = 1..Len(w.woken) /\ DOMAIN v.woken = 1..(Len(w.woken) + 1)
        /\ \A i \in 1..Len(w.woken) : v.woken[i] = w.woken[i]
        /\ v.woken[Len(w.woken) + 1] = t /\ Range(v.woken) = Range(w.woken) \cup {t}
    BY <2>0, <2>2, Held
  <2>10. \A i \in 1..Len(w.woken) :
           w.woken[i] \in w.asked \ Range(w.done) /\ state[w.woken[i]] \in Over /\ w.woken[i] \in Tasks
    BY <2>0, <2>3, <2>9 DEF TryInv
  <2>11. \A i \in DOMAIN v.woken : v.woken[i] \in v.asked \ Range(v.done) /\ state'[v.woken[i]] \in Over
    <3>1. \A i \in 1..Len(w.woken) : v.woken[i] \in v.asked \ Range(v.done) /\ state'[v.woken[i]] \in Over
      BY <2>2, <2>5, <2>6, <2>9, <2>10
    <3> QED
      BY <1>5, <2>2, <2>4, <2>6, <2>9, <2>w, <3>1
  <2>12. \A i, j \in DOMAIN v.woken : i < j => PlaceIn(ends', v.woken[i]) < PlaceIn(ends', v.woken[j])
    <3>1. SUFFICES ASSUME NEW i \in DOMAIN v.woken, NEW j \in DOMAIN v.woken, i < j
                   PROVE  PlaceIn(ends', v.woken[i]) < PlaceIn(ends', v.woken[j])
      OBVIOUS
    <3>2. i \in 1..Len(w.woken) /\ v.woken[i] = w.woken[i] /\ PlaceIn(ends', w.woken[i]) = PlaceIn(ends, w.woken[i])
          /\ PlaceIn(ends, w.woken[i]) \in 1..Len(ends)
      BY <2>7, <2>9, <2>10, <3>1
    <3>3. CASE j = Len(w.woken) + 1
      BY <2>7, <2>8, <2>9, <3>2, <3>3
    <3>4. CASE j \in 1..Len(w.woken)
      <4>1. PlaceIn(ends, w.woken[i]) < PlaceIn(ends, w.woken[j]) /\ PlaceIn(ends', w.woken[j]) = PlaceIn(ends, w.woken[j])
        BY <2>3, <2>7, <2>9, <2>10, <3>1, <3>2, <3>4 DEF TryInv
      <4> QED
        BY <2>9, <3>2, <3>4, <4>1
    <3> QED
      BY <2>9, <3>3, <3>4
  <2>13. \A c \in v.asked : state'[c] \in Over =>
           c \in Range(v.woken) \cup Range(v.done) \/ state'[c] = "cancelled"
    BY <2>2, <2>3, <2>5, <2>8, <2>9 DEF TryInv
  <2>14. \A c \in Range(v.done) : state'[c] = "ok"
    BY <2>2, <2>3, <2>4, <2>5, <2>8 DEF TryInv
  <2>15. \A c \in v.of : c \in v.fresh \cup v.asked \cup Range(v.done) \/ state'[c] = "cancelled"
    BY <1>5, <2>2, <2>3, <2>5, <2>8 DEF TryInv
  <2>16. TryInv(wait[d])'
    BY <2>2, <2>3, <2>v, <2>11, <2>12, <2>13, <2>14, <2>15 DEF TryInv
  <2>17. \A c \in v.of : handle'[c] = "taken" <=> c \in Range(v.done)
    BY <1>1, <1>5, <2>2, <2>3, <2>w DEF WaitListInv
  <2> QED
    BY <2>2, <2>3, <2>v, <2>16, <2>17 DEF WaitListInv
<1>6. ASSUME NEW d \in Tasks, d # t PROVE WaitListInv(wait[d])'
  <2>1. wait'[d] = wait[d] \/ (d = parent[t] /\ t \in wait[d].asked /\ wait'[d] = Woken(t, wait[d]))
    BY <1>0, <1>6 DEF End
  <2>2. wait[d].kind # "try" => wait'[d] = wait[d]
    BY <2>1 DEF Woken
  <2>3. t \notin wait[d].asked => wait'[d] = wait[d]
    BY <2>1
  <2> QED
    BY <1>3, <1>5, <1>6, <2>2, <2>3
<1> QED
  BY <1>2, <1>6 DEF ListInv

\* The handle that is polled is the next, and the poll takes it from where it
\* stood.
LEMMA PolledIs ==
    ASSUME NEW w \in Wait, NEW c \in Tasks, NextUp(c, w)
    PROVE  /\ Polled(w) \in Wait /\ Polled(w).kind = w.kind /\ Polled(w).of = w.of
           /\ Polled(w).asked = w.asked /\ Polled(w).done = w.done
           /\ w.fresh # {} => Polled(w).fresh = w.fresh \ {c} /\ c \in w.fresh /\ Polled(w).woken = w.woken
           /\ w.fresh = {} => /\ Polled(w).fresh = {} /\ Polled(w).woken = Tail(w.woken)
                              /\ w.woken # <<>> /\ c = Head(w.woken)
<1>1. Polled(w) \in Wait
  BY PolledType
<1>2. CASE w.fresh # {}
  <2>1. \A d, e \in w.fresh : NextUp(d, w) /\ NextUp(e, w) => d = e
    BY <1>2 DEF NextUp, Wait, Tasks
  <2>2. (CHOOSE d \in w.fresh : NextUp(d, w)) = c
    BY <1>2, <2>1 DEF NextUp
  <2> QED
    BY <1>1, <1>2, <2>2 DEF Polled, Wait, NextUp
<1>3. CASE w.fresh = {}
  BY <1>1, <1>3 DEF Polled, Wait, NextUp
<1> QED
  BY <1>2, <1>3

\* A poll that does not end the wait keeps what it has done.
LEMMA PollLists ==
    ASSUME TypeOK, HandleInv, WaitInv, EndsInv, ListInv, NEW t \in Tasks, NEW c \in wait[t].of,
           NextUp(c, wait[t]), NotReady(t, c) \/ LeftPending(t, c) \/ Collect(t, c)
    PROVE  WaitListInv(wait[t])'
<1>w. PICK w \in Wait : w = wait[t]
  BY DEF TypeOK
<1>v. PICK v : v = wait'[t]
  OBVIOUS
<1>p. PICK p \in Wait : p = Polled(w)
  BY <1>w, PolledIs, Apart
<1>1. /\ c \in Tasks /\ wait \in [Tasks -> Wait] /\ w.woken \in Seq(Tasks) /\ w.done \in Seq(Tasks)
      /\ w.of \subseteq Tasks /\ w.fresh \subseteq Tasks /\ w.asked \subseteq Tasks
      /\ p.woken \in Seq(Tasks) /\ p.done \in Seq(Tasks)
  BY Apart DEF TypeOK, Wait
<1>2. WaitListInv(w)
  BY <1>w DEF ListInv
<1>3. /\ p.kind = w.kind /\ p.of = w.of /\ p.asked = w.asked /\ p.done = w.done
      /\ w.fresh # {} => p.fresh = w.fresh \ {c} /\ c \in w.fresh /\ p.woken = w.woken
      /\ w.fresh = {} => p.fresh = {} /\ p.woken = Tail(w.woken) /\ w.woken # <<>> /\ c = Head(w.woken)
  BY <1>1, <1>w, <1>p, PolledIs
<1>4. UNCHANGED <<state, ends>>
  BY DEF NotReady, LeftPending, Collect
<1>5. w.fresh = {} =>
        /\ c \in Range(w.woken) /\ Range(p.woken) \cup {c} = Range(w.woken)
        /\ Len(w.woken) > 0 /\ c = w.woken[1] /\ Len(w.woken) \in Nat
        /\ DOMAIN p.woken = 1..(Len(w.woken) - 1) /\ DOMAIN w.woken = 1..Len(w.woken)
        /\ \A i \in 1..(Len(w.woken) - 1) : p.woken[i] = w.woken[i + 1]
  <2> SUFFICES ASSUME w.fresh = {} PROVE /\ Range(w.woken) = Range(p.woken) \cup {c}
                                          /\ Len(w.woken) > 0 /\ c = w.woken[1]
                                          /\ DOMAIN p.woken = 1..(Len(w.woken) - 1)
                                          /\ \A i \in 1..(Len(w.woken) - 1) : p.woken[i] = w.woken[i + 1]
    BY <1>1
  <2> QED
    BY <1>1, <1>3, HeldAfter
<1>6. w.fresh = {} => w.kind = "try" /\ c \in w.asked \ Range(w.done) /\ state[c] \in Over
  BY <1>1, <1>2, <1>3, <1>5 DEF WaitListInv, TryInv
<1>7. c \notin Range(w.done)
  BY <1>2, <1>3, <1>6 DEF WaitListInv
<1>8. /\ \A i \in DOMAIN p.woken : \E k \in DOMAIN w.woken : p.woken[i] = w.woken[k] /\ (w.fresh = {} => k > 1)
      /\ \A i, j \in DOMAIN p.woken : i < j =>
           \E k, m \in DOMAIN w.woken : k < m /\ p.woken[i] = w.woken[k] /\ p.woken[j] = w.woken[m]
  <2>1. CASE w.fresh # {}
    BY <1>3, <2>1
  <2>2. CASE w.fresh = {}
    <3>1. \A i \in 1..(Len(w.woken) - 1) : i + 1 \in DOMAIN w.woken /\ i + 1 > 1
      BY <1>5, <2>2
    <3>2. \A i, j \in 1..(Len(w.woken) - 1) : i < j => i + 1 < j + 1
      BY <1>5, <2>2
    <3> QED
      BY <1>5, <2>2, <3>1, <3>2
  <2> QED
    BY <2>1, <2>2
<1>9. w.kind = "try" =>
        /\ \A i \in DOMAIN p.woken : p.woken[i] \in w.asked \ Range(w.done) /\ state[p.woken[i]] \in Over
                                     /\ p.woken[i] # c
        /\ \A i, j \in DOMAIN p.woken : i < j => PlaceIn(ends, p.woken[i]) < PlaceIn(ends, p.woken[j])
  <2>1. SUFFICES ASSUME w.kind = "try", TryInv(w)
                 PROVE  /\ \A i \in DOMAIN p.woken : p.woken[i] \in w.asked \ Range(w.done) /\ state[p.woken[i]] \in Over
                                     /\ p.woken[i] # c
                        /\ \A i, j \in DOMAIN p.woken : i < j => PlaceIn(ends, p.woken[i]) < PlaceIn(ends, p.woken[j])
    BY <1>2 DEF WaitListInv
  <2>2. \A i \in DOMAIN p.woken : p.woken[i] \in w.asked \ Range(w.done) /\ state[p.woken[i]] \in Over
    BY <1>8, <2>1 DEF TryInv
  <2>3. \A i, j \in DOMAIN p.woken : i < j => PlaceIn(ends, p.woken[i]) < PlaceIn(ends, p.woken[j])
    BY <1>8, <2>1 DEF TryInv
  <2>4. ASSUME NEW i \in DOMAIN p.woken PROVE p.woken[i] # c
    <3>1. CASE w.fresh # {}
      BY <1>3, <2>1, <2>2, <3>1 DEF TryInv
    <3>2. CASE w.fresh = {}
      <4>1. PICK k \in DOMAIN w.woken : p.woken[i] = w.woken[k] /\ k > 1
        BY <1>8, <3>2
      <4>2. PlaceIn(ends, w.woken[1]) < PlaceIn(ends, w.woken[k])
        BY <1>5, <2>1, <3>2, <4>1 DEF TryInv
      <4>3. PlaceIn(ends, c) \in 1..Len(ends) /\ Len(ends) \in Nat
        <5>1. \E i_1 \in DOMAIN ends : ends[i_1] = c
          BY <1>1, <1>6, <3>2 DEF EndsInv
        <5> QED
          BY <5>1 DEF PlaceIn, TypeOK
      <4> QED
        BY <1>5, <3>2, <4>1, <4>2, <4>3
    <3> QED
      BY <3>1, <3>2
  <2> QED
    BY <2>2, <2>3, <2>4
<1>10. CASE NotReady(t, c)
  <2>1. v = [p EXCEPT !.asked = @ \cup {c}] /\ handle' = handle /\ state[c] \notin Over
    BY <1>1, <1>w, <1>v, <1>p, <1>10 DEF NotReady
  <2>2. /\ v.kind = w.kind /\ v.of = w.of /\ v.asked = w.asked \cup {c} /\ v.done = w.done
        /\ v.fresh = w.fresh \ {c} /\ v.woken = w.woken /\ c \in w.fresh
    BY <1>3, <1>6, <2>1 DEF Wait
  <2>3. w.kind = "try" => TryInv(v)'
    BY <1>2, <1>4, <1>7, <2>1, <2>2 DEF WaitListInv, TryInv
  <2> QED
    BY <1>2, <1>v, <2>1, <2>2, <2>3 DEF WaitListInv
<1>11. CASE LeftPending(t, c)
  <2>1. v = p /\ handle' = handle /\ state[c] = "cancelled"
    BY <1>1, <1>w, <1>v, <1>p, <1>11 DEF LeftPending
  <2>2. p.fresh = w.fresh \ {c}
    BY <1>3
  <2>3. Range(w.woken) \subseteq Range(p.woken) \cup {c}
    BY <1>3, <1>5
  <2>4. w.kind = "try" => TryInv(v)'
    BY <1>2, <1>3, <1>4, <1>9, <2>1, <2>2, <2>3 DEF WaitListInv, TryInv
  <2>5. w.kind # "try" => p.woken = <<>>
    BY <1>2, <1>3, <1>6 DEF WaitListInv
  <2> QED
    BY <1>2, <1>3, <1>v, <2>1, <2>2, <2>4, <2>5 DEF WaitListInv
<1>12. CASE Collect(t, c)
  <2>1. v = [p EXCEPT !.done = Append(@, c)] /\ (w.kind = "try" => state[c] = "ok")
    BY <1>1, <1>w, <1>v, <1>p, <1>12 DEF Collect
  <2>2. /\ v.kind = w.kind /\ v.of = w.of /\ v.asked = w.asked /\ v.done = Append(w.done, c)
        /\ v.fresh = p.fresh /\ v.woken = p.woken /\ p.fresh = w.fresh \ {c}
    BY <1>3, <2>1 DEF Wait
  <2>3. /\ Range(v.done) = Range(w.done) \cup {c} /\ Len(w.done) \in Nat /\ DOMAIN w.done = 1..Len(w.done)
        /\ DOMAIN v.done = 1..(Len(w.done) + 1) /\ v.done[Len(w.done) + 1] = c
        /\ \A i \in 1..Len(w.done) : v.done[i] = w.done[i] /\ w.done[i] \in Range(w.done)
    BY <1>1, <2>2, Held
  <2>4. Range(w.woken) \subseteq Range(p.woken) \cup {c}
    BY <1>3, <1>5
  <2>5. w.kind = "try" => TryInv(v)'
    BY <1>2, <1>4, <1>9, <2>1, <2>2, <2>3, <2>4 DEF WaitListInv, TryInv
  <2>6. w.kind # "try" => p.woken = <<>>
    BY <1>2, <1>3, <1>6 DEF WaitListInv
  <2>7. \A i, j \in DOMAIN v.done : v.done[i] = v.done[j] => i = j
    BY <1>2, <1>7, <2>3 DEF WaitListInv
  <2>8. \A d \in w.of : handle'[d] = "taken" <=> d \in Range(v.done)
    BY <1>1, <1>2, <1>12, <2>3 DEF WaitListInv, Collect, TypeOK
  <2>9. v.fresh \cup v.asked \cup Range(v.done) \subseteq v.of /\ v.fresh \cap Range(v.done) = {}
    BY <1>2, <1>w, <2>2, <2>3 DEF WaitListInv
  <2> QED
    BY <1>v, <2>2, <2>5, <2>6, <2>7, <2>8, <2>9 DEF WaitListInv
<1> QED
  BY <1>10, <1>11, <1>12

\* Every step keeps what the waits have done.
LEMMA NextLists ==
    ASSUME TypeOK, HandleInv, WaitInv, EndsInv, ListInv, [Next]_vars PROVE ListInv'
<1>0. wait \in [Tasks -> Wait] /\ handle \in [Tasks -> {"none", "held", "detached", "dropped", "taken"}]
  BY DEF TypeOK
<1>1. \A d \in Tasks : WaitListInv(wait[d]) /\ wait[d].of \subseteq Tasks /\ wait[d].asked \subseteq Tasks
  BY <1>0 DEF ListInv, Wait
<1>2. ASSUME NEW d \in Tasks, wait'[d] = wait[d], \A c \in wait[d].of : handle'[c] = "taken" <=> handle[c] = "taken",
             \A c \in Tasks : state[c] \notin Over => state'[c] \notin Over
      PROVE  WaitListInv(wait[d])'
  BY <1>1, <1>2, ListKept
<1>3. ASSUME UNCHANGED wait, \A c \in Tasks : handle'[c] = "taken" <=> handle[c] = "taken",
             \A c \in Tasks : state[c] \notin Over => state'[c] \notin Over
      PROVE  ListInv'
  <2>1. ASSUME NEW d \in Tasks PROVE WaitListInv(wait[d])'
    BY <1>1, <1>2, <1>3
  <2> QED
    BY <2>1 DEF ListInv
<1>4. ASSUME NEW t \in Tasks, Start(t) PROVE ListInv'
  BY <1>0, <1>3, <1>4 DEF Start, Started, TypeOK, Over
<1>5. ASSUME NEW t \in Tasks, Detach(t) \/ Drop(t) PROVE ListInv'
  <2>1. UNCHANGED <<wait, state>>
    BY <1>5 DEF Detach, Drop
  <2>2. \A c \in Tasks : handle'[c] = "taken" <=> handle[c] = "taken"
    BY <1>0, <1>5 DEF Detach, Drop, DroppedBy, HeldBy
  <2> QED
    BY <1>3, <2>1, <2>2
<1>6. ASSUME NEW t \in Tasks, NEW k, NEW S, wait' = [wait EXCEPT ![t] = WaitFor(k, S)],
             \A c \in S : handle'[c] # "taken", UNCHANGED state,
             \A d \in Tasks \ {t} : \A c \in wait[d].of : handle'[c] = handle[c]
      PROVE  ListInv'
  <2>1. WaitListInv(wait[t])'
    <3>1. wait'[t] = WaitFor(k, S)
      BY <1>0, <1>6
    <3> QED
      BY <1>6, <3>1, ListBegins
  <2>2. ASSUME NEW d \in Tasks \ {t} PROVE WaitListInv(wait[d])'
    <3>1. wait'[d] = wait[d]
      BY <1>0, <1>6
    <3> QED
      BY <1>2, <1>6, <3>1
  <2> QED
    BY <2>1, <2>2 DEF ListInv
<1>7. ASSUME NEW t \in Tasks, Await(t) \/ AwaitList(t) \/ Sleep(t) PROVE ListInv'
  <2>1. PICK k \in {"one", "all", "try", "sleep"}, S \in SUBSET HeldBy(t) :
          wait' = [wait EXCEPT ![t] = WaitFor(k, S)]
    BY <1>7 DEF Await, AwaitList, Sleep
  <2>2. UNCHANGED <<state, handle>> /\ \A c \in S : handle[c] = "held"
    BY <1>7, <2>1 DEF Await, AwaitList, Sleep, HeldBy
  <2> QED
    BY <1>6, <2>1, <2>2
<1>8. ASSUME NEW t \in Tasks, TimerFires(t) PROVE ListInv'
  <2>1. PICK k, S : (\A c \in S : handle'[c] # "taken") /\ wait' = [wait EXCEPT ![t] = WaitFor(k, S)]
    BY <1>8 DEF TimerFires, NoWait
  <2>2. UNCHANGED <<state, handle>>
    BY <1>8 DEF TimerFires
  <2> QED
    BY <1>6, <2>1, <2>2
<1>9. ASSUME NEW t \in Tasks, Finish(t) \/ Cancel(t) PROVE ListInv'
  BY <1>9, EndLists DEF Finish, Cancel, Running, Over
<1>10. ASSUME NEW t \in Tasks, Run(t) PROVE ListInv'
  <2>1. /\ \A c \in Tasks : state[c] \notin Over => state'[c] \notin Over
        /\ \A c \in Tasks : state[c] \in Over => state'[c] = state[c]
        /\ handle' = handle /\ ends' = ends
        /\ wait' = [wait EXCEPT ![t].fresh = ToAsk(wait[t])]
    BY <1>10 DEF Run, TypeOK, Over
  <2>2. ASSUME NEW d \in Tasks, d # t \/ wait[t].kind = "try" PROVE WaitListInv(wait[d])'
    <3>1. wait[t] \in Wait
      BY <1>0
    <3>2. wait'[d] = wait[d]
      BY <1>0, <2>1, <2>2, <3>1 DEF ToAsk, Wait
    <3> QED
      BY <1>2, <2>1, <3>2
  <2>3. ASSUME wait[t].kind # "try" PROVE WaitListInv(wait[t])'
    <3>w. PICK w \in Wait : w = wait[t]
      BY <1>0
    <3>1. wait'[t] = [w EXCEPT !.fresh = w.of \ Range(w.done)]
      BY <1>0, <2>1, <2>3, <3>w DEF ToAsk
    <3>2. /\ wait'[t].kind = w.kind /\ wait'[t].of = w.of /\ wait'[t].asked = w.asked /\ wait'[t].done = w.done
          /\ wait'[t].woken = w.woken /\ wait'[t].fresh = w.of \ Range(w.done)
      BY <3>1 DEF Wait
    <3>3. WaitListInv(w)
      BY <1>1, <3>w
    <3> QED
      BY <2>1, <2>3, <3>w, <3>2, <3>3 DEF WaitListInv
  <2> QED
    BY <2>2, <2>3 DEF ListInv
<1>11. ASSUME NEW t \in Tasks, Suspend(t) PROVE ListInv'
  BY <1>3, <1>11 DEF Suspend, TypeOK, Over
<1>12. ASSUME NEW t \in Tasks, NEW outcome, Leave(t, outcome) PROVE ListInv'
  <2>1. \A c \in Tasks : handle'[c] = IF c \in wait[t].of /\ handle[c] = "held" THEN "dropped" ELSE handle[c]
    BY <1>1, <1>12 DEF Leave, DroppedBy
  <2>2. ASSUME NEW d \in Tasks \ {t}, NEW c \in wait[d].of PROVE handle'[c] = handle[c]
    BY <2>1, Apart
  <2> QED
    <3>1. PICK k, S : (\A c \in S : handle'[c] # "taken") /\ wait' = [wait EXCEPT ![t] = WaitFor(k, S)]
      BY <1>12 DEF Leave, NoWait
    <3>2. UNCHANGED state
      BY <1>12 DEF Leave
    <3> QED
      BY <1>6, <2>2, <3>1, <3>2
<1>13. ASSUME NEW t \in Tasks, Poll(t) PROVE ListInv'
  <2>1. PICK c \in wait[t].of :
          /\ NextUp(c, wait[t])
          /\ \/ NotReady(t, c) \/ LeftPending(t, c) \/ ResumePanic(t, c)
             \/ GiveErr(t, c) \/ Collect(t, c)
    BY <1>13 DEF Poll
  <2>2. CASE ResumePanic(t, c)
    BY <1>13, <2>2, EndLists DEF ResumePanic, Poll, Over
  <2>3. CASE GiveErr(t, c)
    BY <1>12, <2>3 DEF GiveErr
  <2>4. CASE NotReady(t, c) \/ LeftPending(t, c) \/ Collect(t, c)
    <3>1. WaitListInv(wait[t])'
      BY <2>1, <2>4, PollLists
    <3>2. ASSUME NEW d \in Tasks \ {t} PROVE WaitListInv(wait[d])'
      <4>1. \A e \in wait[d].of : e # c /\ e \in Tasks
        BY Apart
      <4>2. wait'[d] = wait[d] /\ UNCHANGED state
        BY <1>0, <2>4 DEF NotReady, LeftPending, Collect
      <4>3. \A e \in wait[d].of : handle'[e] = handle[e]
        BY <1>0, <2>4, <4>1 DEF NotReady, LeftPending, Collect
      <4> QED
        BY <1>2, <4>2, <4>3
    <3> QED
      BY <3>1, <3>2 DEF ListInv
  <2> QED
    BY <2>1, <2>2, <2>3, <2>4
<1>14. ASSUME NEW t \in Tasks, Deliver(t) PROVE ListInv'
  BY <1>12, <1>14 DEF Deliver
<1>15. CASE Ended \/ UNCHANGED vars
  BY <1>3, <1>15 DEF Ended, vars
<1> QED
  BY <1>4, <1>5, <1>7, <1>8, <1>9, <1>10, <1>11, <1>12, <1>13, <1>14, <1>15 DEF Next

\* FirstErr by the places of the errors.
ErrFirst ==
    given.kind = "err" =>
        \A d \in given.of :
            /\ state[d] = "err" /\ Contains(ends, d)
            /\ PlaceIn(ends, d) < PlaceIn(ends, Head(given.got))
            => /\ Head(given.got) \notin given.asked
               /\ d \notin given.asked => Head(given.got) < d

LEMMA FirstErrIs == ErrFirst => FirstErr
  BY DEF ErrFirst, FirstErr, EarlierErrs, Place, PlaceIn

\* try_all gives the Err of the next handle, and an Err that ended before it
\* and was asked for before it would have been queued before it.
LEMMA ErrGiven ==
    ASSUME TypeOK, HandleInv, WaitInv, EndsInv, ListInv, NEW t \in Tasks, NEW c \in wait[t].of,
           NextUp(c, wait[t]), GiveErr(t, c)
    PROVE  ErrInv' /\ ErrFirst'
<1>w. PICK w \in Wait : w = wait[t]
  BY DEF TypeOK
<1>1. /\ c \in Tasks /\ w.woken \in Seq(Tasks) /\ w.done \in Seq(Tasks) /\ w.of \subseteq Tasks
      /\ Len(w.woken) \in Nat /\ DOMAIN w.woken = 1..Len(w.woken)
  BY <1>w, Apart DEF TypeOK, Wait
<1>2. /\ given'.kind = "err" /\ given'.of = w.of /\ Head(given'.got) = c /\ given'.asked = w.asked
      /\ UNCHANGED <<state, ends>> /\ state[c] = "err" /\ w.kind = "try"
  BY <1>w DEF GiveErr, Leave, Nothing
<1>3. WaitListInv(w) /\ TryInv(w)
  BY <1>w, <1>2 DEF ListInv, WaitListInv
<1>4. ASSUME NEW d \in w.of, state[d] = "err", PlaceIn(ends, d) < PlaceIn(ends, c)
      PROVE  c \notin w.asked /\ (d \notin w.asked => c < d)
  <2>1. d \in w.fresh \cup w.asked /\ d \notin Range(w.done) /\ d \in Tasks
    BY <1>1, <1>3, <1>4 DEF TryInv
  <2>2. PlaceIn(ends, d) \in 1..Len(ends) /\ PlaceIn(ends, c) \in 1..Len(ends) /\ Len(ends) \in Nat
    <3>1. (\E i \in DOMAIN ends : ends[i] = c) /\ \E i \in DOMAIN ends : ends[i] = d
      BY <1>1, <1>2, <1>4, <2>1 DEF EndsInv, Over
    <3> QED
      BY <3>1 DEF PlaceIn, TypeOK
  <2>3. d # c
    BY <1>4, <2>2
  <2>4. CASE w.fresh # {}
    <3>1. c \in w.fresh /\ \A e \in w.fresh : c <= e
      BY <1>w, <2>4 DEF NextUp
    <3>2. c \notin w.asked
      BY <1>3, <3>1 DEF TryInv
    <3> QED
      BY <1>1, <2>1, <2>3, <3>1, <3>2 DEF Tasks
  <2>5. CASE w.fresh = {}
    <3>1. w.woken # <<>> /\ c = Head(w.woken)
      BY <1>w, <2>5 DEF NextUp
    <3>2. c = w.woken[1] /\ 1 \in DOMAIN w.woken
      BY <1>1, <3>1
    <3>3. d \in Range(w.woken)
      BY <1>3, <1>4, <2>1, <2>5 DEF TryInv, Over
    <3>4. PICK k \in DOMAIN w.woken : d = w.woken[k]
      BY <3>3 DEF Range
    <3>5. 1 < k
      BY <1>1, <2>3, <3>2, <3>4
    <3>6. PlaceIn(ends, c) < PlaceIn(ends, d)
      BY <1>3, <3>2, <3>4, <3>5 DEF TryInv
    <3> QED
      BY <1>4, <2>2, <3>6
  <2> QED
    BY <2>4, <2>5
<1>5. ErrInv'
  BY <1>1, <1>2 DEF ErrInv
<1> QED
  BY <1>2, <1>4, <1>5 DEF ErrFirst

\* An outcome that was given stays the one it was.
LEMMA ErrStays ==
    ASSUME TypeOK, EndsInv, ErrInv, ErrFirst, [Next]_vars, given' = given
    PROVE  ErrInv' /\ ErrFirst'
<1>1. SUFFICES ASSUME given.kind = "err" PROVE ErrInv' /\ ErrFirst'
  BY DEF ErrInv, ErrFirst
<1>c. PICK c \in Tasks : c = Head(given.got)
  BY <1>1 DEF ErrInv
<1>2. state[c] = "err" /\ given.of \subseteq Tasks
  BY <1>1, <1>c DEF ErrInv
<1>3. state'[c] = "err" /\ PlaceIn(ends', c) = PlaceIn(ends, c) /\ PlaceIn(ends, c) \in 1..Len(ends)
      /\ Len(ends) \in Nat
  BY <1>2, PlacesKept DEF Over, TypeOK
<1>4. ASSUME NEW d \in given.of, state'[d] = "err", PlaceIn(ends', d) < PlaceIn(ends', c)
      PROVE  state[d] = "err" /\ Contains(ends, d) /\ PlaceIn(ends, d) < PlaceIn(ends, c)
  <2>1. state[d] \in Over
    BY <1>2, <1>3, <1>4, PlacesKept DEF Over
  <2>2. state[d] = "err" /\ PlaceIn(ends, d) < PlaceIn(ends, c)
    BY <1>2, <1>3, <1>4, <2>1, PlacesKept
  <2>3. \E i \in 1..Len(ends) : ends[i] = d
    BY <1>2, <2>1 DEF EndsInv, TypeOK
  <2> QED
    BY <2>2, <2>3 DEF Contains
<1>5. ErrInv'
  BY <1>c, <1>2, <1>3 DEF ErrInv
<1>6. ErrFirst'
  BY <1>1, <1>c, <1>4 DEF ErrFirst
<1> QED
  BY <1>5, <1>6

\* Every step keeps FirstErr.
LEMMA NextErrs ==
    ASSUME TypeOK, HandleInv, WaitInv, EndsInv, ListInv, ErrInv, ErrFirst, [Next]_vars
    PROVE  ErrInv' /\ ErrFirst'
<1>1. ASSUME NEW t \in Tasks, Deliver(t) PROVE ErrInv' /\ ErrFirst'
  <2>1. given'.kind = "values"
    BY <1>1 DEF Deliver, Leave, Nothing
  <2> QED
    BY <2>1 DEF ErrInv, ErrFirst
<1>2. ASSUME NEW t \in Tasks, Poll(t) PROVE ErrInv' /\ ErrFirst'
  <2>1. PICK c \in wait[t].of :
          /\ NextUp(c, wait[t])
          /\ \/ NotReady(t, c) \/ LeftPending(t, c) \/ ResumePanic(t, c)
             \/ GiveErr(t, c) \/ Collect(t, c)
    BY <1>2 DEF Poll
  <2>2. CASE GiveErr(t, c)
    BY <2>1, <2>2, ErrGiven
  <2>3. CASE NotReady(t, c) \/ LeftPending(t, c) \/ ResumePanic(t, c) \/ Collect(t, c)
    BY <2>3, ErrStays DEF NotReady, LeftPending, ResumePanic, Collect, End
  <2> QED
    BY <2>1, <2>2, <2>3
<1>3. ASSUME NEW t \in Tasks,
             \/ Start(t) \/ Detach(t) \/ Drop(t) \/ Await(t) \/ AwaitList(t) \/ Sleep(t)
             \/ TimerFires(t) \/ Run(t) \/ Suspend(t)
      PROVE  given' = given
  BY <1>3 DEF Start, Detach, Drop, Await, AwaitList, Sleep, TimerFires, Run, Suspend
<1>4. ASSUME NEW t \in Tasks, Finish(t) \/ Cancel(t) PROVE given' = given
  BY <1>4 DEF Finish, Cancel, End
<1>5. CASE Ended \/ UNCHANGED vars
  BY <1>5, ErrStays DEF Ended, vars
<1> QED
  BY <1>1, <1>2, <1>3, <1>4, <1>5, ErrStays DEF Next

\* Before anything happened, no task has ended and nothing is waited for.
LEMMA ListsBegin == Init => EndsInv /\ ListInv /\ ErrInv /\ ErrFirst
<1> SUFFICES ASSUME Init PROVE EndsInv /\ ListInv /\ ErrInv /\ ErrFirst
  OBVIOUS
<1>1. ListInv
  <2>1. Range(<<>>) = {}
    BY DEF Range
  <2>2. ASSUME NEW t \in Tasks PROVE WaitListInv(wait[t])
    <3>1. /\ wait[t].kind = "none" /\ wait[t].of = {} /\ wait[t].fresh = {} /\ wait[t].woken = <<>>
          /\ wait[t].asked = {} /\ wait[t].done = <<>>
      BY DEF Init, NoWait, WaitFor
    <3> QED
      BY <2>1, <3>1 DEF WaitListInv
  <2> QED
    BY <2>2 DEF ListInv
<1>2. EndsInv
  BY DEF Init, EndsInv, Over
<1>3. ErrInv /\ ErrFirst
  BY DEF Init, Nothing, ErrInv, ErrFirst
<1> QED
  BY <1>1, <1>2, <1>3

\* What the tasks have done so far, in every reachable state.
LEMMA ListsHold == Spec => [](TypeOK /\ HandleInv /\ WaitInv /\ EndsInv /\ ListInv)
<1>1. Init => TypeOK /\ HandleInv
  BY MainTask, NewWaitType DEF Init, TypeOK, HandleInv
<1>2. Init => WaitInv
  BY MainTask DEF Init, WaitInv, NoWait, WaitFor
<1>3. TypeOK /\ EndsInv /\ [Next]_vars => EndsInv'
  BY PlacesKept
<1> QED
  BY <1>1, <1>2, <1>3, ListsBegin, NextType, NextHandles, NextWaits, NextLists, PTL DEF Spec

\* The Err that try_all returns is the first of its list to end, but for one
\* that had ended when it was first asked for: that passes what try_all had
\* not asked for yet and stands after it in the list.
THEOREM ErrOfTheFirst == Spec => []FirstErr
  BY ListsBegin, ListsHold, NextErrs, FirstErrIs, PTL DEF Spec

----
\* How many of a set come before c.
Before(R, c) == {d \in R : d < c}

\* The elements of a finite set of numbers, each at the place that counts those
\* before it: all of them, each once, in their order.
LEMMA ByPlace ==
    ASSUME NEW n \in Nat, NEW R \in SUBSET Nat, IsFiniteSet(R), Cardinality(R) = n,
           NEW v, v = [i \in 1..n |-> CHOOSE c \in R : Cardinality(Before(R, c)) = i - 1]
    PROVE  Range(v) = R /\ \A i, j \in 1..n : i < j => v[i] < v[j]
<1> DEFINE rank == [c \in R |-> Cardinality(Before(R, c))]
<1>1. ASSUME NEW c \in R PROVE rank[c] \in 0..(n - 1)
  <2>1. Before(R, c) \in SUBSET (R \ {c})
    BY DEF Before
  <2>2. IsFiniteSet(R \ {c}) /\ Cardinality(R \ {c}) = n - 1
    BY FS_RemoveElement
  <2>3. IsFiniteSet(Before(R, c)) /\ Cardinality(Before(R, c)) <= n - 1
    BY <2>1, <2>2, FS_Subset
  <2>4. Cardinality(Before(R, c)) \in Nat
    BY <2>3, FS_CardinalityType
  <2> QED
    BY <2>3, <2>4
<1>2. ASSUME NEW c \in R, NEW d \in R, c < d PROVE rank[c] < rank[d]
  <2>1. IsFiniteSet(Before(R, d))
    BY FS_Subset DEF Before
  <2>2. Before(R, c) \in SUBSET Before(R, d) /\ Before(R, c) # Before(R, d)
    <3>1. c \in Before(R, d) /\ c \notin Before(R, c)
      BY <1>2 DEF Before
    <3>2. \A e \in Before(R, c) : e \in Before(R, d)
      BY <1>2 DEF Before
    <3> QED
      BY <3>1, <3>2
  <2>3. Cardinality(Before(R, c)) <= Cardinality(Before(R, d)) /\ Cardinality(Before(R, c)) # Cardinality(Before(R, d))
    BY <2>1, <2>2, FS_Subset
  <2> QED
    BY <1>1, <2>3
<1>3. rank \in Injection(R, 0..(n - 1))
  <2>1. rank \in [R -> 0..(n - 1)]
    BY <1>1
  <2>2. \A c, d \in R : rank[c] = rank[d] => c = d
    BY <1>1, <1>2
  <2> QED
    BY <2>1, <2>2 DEF Injection, IsInjective
<1>4. IsFiniteSet(0..(n - 1)) /\ Cardinality(0..(n - 1)) = n
  <2>1. n - 1 \in Int /\ (0 > n - 1 <=> n = 0)
    OBVIOUS
  <2>2. /\ IsFiniteSet(0..(n - 1))
        /\ Cardinality(0..(n - 1)) = IF 0 > n - 1 THEN 0 ELSE (n - 1) - 0 + 1
    BY <2>1, FS_Interval
  <2> QED
    BY <2>1, <2>2
<1>5. \A k \in 0..(n - 1) : \E c \in R : rank[c] = k
  <2>1. rank \in Surjection(R, 0..(n - 1))
    BY <1>3, <1>4, FS_Injection
  <2> QED
    BY <2>1 DEF Surjection
<1>6. ASSUME NEW i \in 1..n PROVE v[i] \in R /\ rank[v[i]] = i - 1
  <2>1. \E c \in R : Cardinality(Before(R, c)) = i - 1
    BY <1>5
  <2> QED
    BY <2>1
<1>7. ASSUME NEW c \in R PROVE c \in Range(v)
  <2>1. rank[c] + 1 \in 1..n
    BY <1>1
  <2>2. v[rank[c] + 1] = c
    BY <1>1, <1>3, <1>6, <2>1 DEF Injection, IsInjective
  <2> QED
    BY <2>1, <2>2 DEF Range
<1>8. ASSUME NEW i \in 1..n, NEW j \in 1..n, i < j PROVE v[i] < v[j]
  <2>1. PICK a \in R, b \in R : v[i] = a /\ v[j] = b /\ rank[a] = i - 1 /\ rank[b] = j - 1
    BY <1>6
  <2>2. rank[a] < rank[b] /\ ~(rank[b] < rank[a])
    BY <1>8, <2>1
  <2>3. a \in Nat /\ b \in Nat /\ a # b /\ ~(b < a)
    BY <1>2, <2>2
  <2>4. a < b
    BY <2>3
  <2> QED
    BY <2>1, <2>4
<1>9. Range(v) \subseteq R
  BY <1>6 DEF Range
<1> QED
  BY <1>7, <1>8, <1>9

\* A sequence with no element twice holds as many as it is long.
LEMMA HoldsItsLength ==
    ASSUME NEW s \in Seq(Tasks), \A i, j \in DOMAIN s : s[i] = s[j] => i = j
    PROVE  /\ Len(s) \in Nat /\ Range(s) \in SUBSET Nat /\ Range(s) \subseteq Tasks
           /\ IsFiniteSet(Range(s)) /\ Cardinality(Range(s)) = Len(s)
<1>1. Len(s) \in Nat /\ DOMAIN s = 1..Len(s) /\ s \in [1..Len(s) -> Tasks]
  OBVIOUS
<1>2. Range(s) \subseteq Tasks /\ Tasks \subseteq Nat
  BY <1>1 DEF Range, Tasks
<1>3. s \in Injection(1..Len(s), Range(s)) /\ s \in Surjection(1..Len(s), Range(s))
  BY <1>1 DEF Injection, IsInjective, Surjection, Range
<1>4. IsFiniteSet(1..Len(s)) /\ Cardinality(1..Len(s)) = Len(s)
  BY <1>1, FS_Interval
<1> QED
  BY <1>1, <1>2, <1>3, <1>4, FS_Surjection

\* So the values that are delivered are those of the list, in its order.
LEMMA DeliversInOrder ==
    ASSUME TypeOK, ListInv, NEW t \in Tasks, Deliver(t) PROVE InListOrder'
<1>w. PICK w \in Wait : w = wait[t]
  BY DEF TypeOK
<1>1. given'.got = Values(w) /\ given'.of = w.of /\ Range(w.done) = w.of
  BY <1>w DEF Deliver, Leave, Nothing, Complete
<1>2. w.done \in Seq(Tasks) /\ \A i, j \in DOMAIN w.done : w.done[i] = w.done[j] => i = j
  BY <1>w DEF ListInv, WaitListInv, Wait
<1>3. PICK R : R = Range(w.done)
  OBVIOUS
<1>4. /\ Len(w.done) \in Nat /\ R \in SUBSET Nat
      /\ IsFiniteSet(R) /\ Cardinality(R) = Len(w.done)
  BY <1>2, <1>3, HoldsItsLength
<1>5. Values(w) = [i \in 1..Len(w.done) |-> CHOOSE c \in R : Cardinality(Before(R, c)) = i - 1]
  BY <1>3 DEF Values, Before
<1>6. Range(Values(w)) = R /\ \A i, j \in 1..Len(w.done) : i < j => Values(w)[i] < Values(w)[j]
  BY <1>4, <1>5, ByPlace
<1>7. DOMAIN Values(w) = 1..Len(w.done)
  BY <1>5
<1> QED
  BY <1>1, <1>3, <1>6, <1>7 DEF InListOrder

\* Every step keeps InListOrder.
LEMMA NextOrder == ASSUME TypeOK, ListInv, InListOrder, [Next]_vars PROVE InListOrder'
<1>1. ASSUME given' = given PROVE InListOrder'
  BY <1>1 DEF InListOrder
<1>2. ASSUME NEW t \in Tasks, Deliver(t) PROVE InListOrder'
  BY <1>2, DeliversInOrder
<1>3. ASSUME NEW t \in Tasks, Poll(t) PROVE InListOrder'
  <2>1. PICK c \in wait[t].of :
          \/ NotReady(t, c) \/ LeftPending(t, c) \/ ResumePanic(t, c)
          \/ GiveErr(t, c) \/ Collect(t, c)
    BY <1>3 DEF Poll
  <2>2. CASE GiveErr(t, c)
    BY <2>2 DEF GiveErr, Leave, Nothing, InListOrder
  <2>3. CASE NotReady(t, c) \/ LeftPending(t, c) \/ ResumePanic(t, c) \/ Collect(t, c)
    BY <1>1, <2>3 DEF NotReady, LeftPending, ResumePanic, Collect, End
  <2> QED
    BY <2>1, <2>2, <2>3
<1>4. ASSUME NEW t \in Tasks,
             \/ Start(t) \/ Detach(t) \/ Drop(t) \/ Await(t) \/ AwaitList(t) \/ Sleep(t)
             \/ TimerFires(t) \/ Run(t) \/ Suspend(t)
      PROVE  given' = given
  BY <1>4 DEF Start, Detach, Drop, Await, AwaitList, Sleep, TimerFires, Run, Suspend
<1>5. ASSUME NEW t \in Tasks, Finish(t) \/ Cancel(t) PROVE given' = given
  BY <1>5 DEF Finish, Cancel, End
<1>6. CASE Ended \/ UNCHANGED vars
  BY <1>1, <1>6 DEF Ended, vars
<1> QED
  BY <1>1, <1>2, <1>3, <1>4, <1>5, <1>6 DEF Next

\* Task::all and Task::try_all give the value of each task of the list and no
\* other, in the order of the list, in whatever order the tasks end.
THEOREM ValuesInOrder == Spec => []InListOrder
<1>1. Init => InListOrder
  BY DEF Init, Nothing, InListOrder
<1> QED
  BY <1>1, ListsHold, NextOrder, PTL DEF Spec
====
