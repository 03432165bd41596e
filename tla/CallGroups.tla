----------------------------- MODULE CallGroups -----------------------------
(***************************************************************************)
(* Which functions call each other in a circle.  `components`              *)
(* (borrow/returns.rs) groups the functions of a program, a group after    *)
(* the groups it calls into, which is the order returns are classified in; *)
(* `async_cycles` (types/check/asyncs.rs) then refuses each group of async *)
(* functions that wait on themselves, and says along which calls.          *)
(***************************************************************************)
EXTENDS Integers, Sequences, FiniteSets
SeqExt == INSTANCE SequencesExt

VARIABLES
  graph,     \* graph[f]: the functions f calls, each once, in order
  index,     \* the order functions are entered in; 0 for not yet
  low,       \* the lowest index known to be reached from one
  open,      \* the functions entered and not yet in a group, last one last
  visits,    \* the functions being visited, innermost last: [fn, edge]
  groups,    \* the groups found, in order
  searched,  \* how many of them have been searched for a cycle
  queue,     \* the functions to look at in the search of the next group
  call,      \* the call of the first of them to look at
  cameFrom,  \* how the search reached a function; 0 for not, or the start
  cycle,     \* what has been traced of the cycle found, <<>> for none
  told       \* the cycles reported

searchvars == <<searched, queue, call, cameFrom, cycle, told>>
cvars == <<graph, index, low, open, visits, groups, searchvars>>

Nodes == DOMAIN graph
Calls(n) == SeqExt!ToSet(graph[n])
LowOf(a, b) == IF a < b THEN a ELSE b
LeastOf(S) == CHOOSE x \in S : \A y \in S : x <= y
Innermost == visits[Len(visits)]
Visiting == visits # <<>>
EdgesLeft == Innermost.edge <= Len(graph[Innermost.fn])
Callee == graph[Innermost.fn][Innermost.edge]
NextEdge == [visits EXCEPT ![Len(visits)].edge = @ + 1]

(* `visit` begins: the function gets the next index. *)
Enter(n, stack) ==
  LET next == 1 + Cardinality({m \in Nodes : index[m] # 0})
  IN /\ index' = [index EXCEPT ![n] = next]
     /\ low' = [low EXCEPT ![n] = next]
     /\ open' = Append(open, n)
     /\ visits' = Append(stack, [fn |-> n, edge |-> 1])

Unvisited == {n \in Nodes : index[n] = 0}

(* The first function not visited yet. *)
VisitNext ==
  /\ ~Visiting /\ Unvisited # {}
  /\ Enter(LeastOf(Unvisited), visits)
  /\ UNCHANGED <<graph, groups, searchvars>>

(* A callee not visited yet is visited now. *)
VisitCallee ==
  /\ Visiting /\ EdgesLeft /\ index[Callee] = 0
  /\ Enter(Callee, visits)
  /\ UNCHANGED <<graph, groups, searchvars>>

(* Mutant: any callee visited before lowers it, in a group already or not. *)
SeenEvenGrouped ==
  /\ Visiting /\ EdgesLeft /\ index[Callee] # 0
  /\ low' = [low EXCEPT ![Innermost.fn] = LowOf(@, index[Callee])]
  /\ visits' = NextEdge
  /\ UNCHANGED <<graph, index, open, groups, searchvars>>

(* A callee visited before lowers it only while it is in no group.         *)
SeenCallee ==
  /\ Visiting /\ EdgesLeft /\ index[Callee] # 0
  /\ low' = IF Callee \in SeqExt!ToSet(open)
            THEN [low EXCEPT ![Innermost.fn] = LowOf(@, index[Callee])] ELSE low
  /\ visits' = NextEdge
  /\ UNCHANGED <<graph, index, open, groups, searchvars>>

(* `visit` ends: a function nothing below its index is reached from closes *)
(* its group, and its caller takes its low.                                *)
CloseVisit ==
  /\ Visiting /\ ~EdgesLeft
  /\ LET n == Innermost.fn
         stack == SeqExt!Front(visits)
         at == CHOOSE i \in DOMAIN open : open[i] = n
     IN /\ IF index[n] = low[n]
           THEN /\ groups' = Append(groups, SeqExt!ToSet(SubSeq(open, at, Len(open))))
                /\ open' = SubSeq(open, 1, at - 1)
           ELSE UNCHANGED <<groups, open>>
        /\ IF stack = <<>> THEN visits' = stack /\ UNCHANGED low
           ELSE /\ low' = [low EXCEPT ![stack[Len(stack)].fn] = LowOf(@, low[n])]
                /\ visits' = [stack EXCEPT ![Len(stack)].edge = @ + 1]
  /\ UNCHANGED <<graph, index, searchvars>>
-----------------------------------------------------------------------------
Grouped == ~Visiting /\ Unvisited = {}
Searching == Grouped /\ searched < Len(groups)
Sought == groups[searched + 1]

Beginning == LeastOf(Sought)
Looking == Searching /\ queue # <<>> /\ cycle = <<>>
CallsLeft == call <= Len(graph[Head(queue)])
Called == graph[Head(queue)][call]

(* `shortest_cycle` begins at the first function of the group. *)
SearchGroup ==
  /\ Searching /\ queue = <<>>
  /\ queue' = <<Beginning>> /\ call' = 1
  /\ UNCHANGED <<graph, index, low, open, visits, groups, searched, cameFrom, cycle, told>>

(* A call of the function at the head to one of the group not seen yet:    *)
(* it is to be looked at after those in the queue.                         *)
FindCallee ==
  /\ Looking /\ CallsLeft /\ Called \in Sought /\ Called # Beginning /\ cameFrom[Called] = 0
  /\ cameFrom' = [cameFrom EXCEPT ![Called] = Head(queue)]
  /\ queue' = Append(queue, Called) /\ call' = call + 1
  /\ UNCHANGED <<graph, index, low, open, visits, groups, searched, cycle, told>>

(* A call out of the group, or to a function seen.                         *)
PassCallee ==
  /\ Looking /\ CallsLeft /\ Called # Beginning
  /\ Called \notin Sought \/ cameFrom[Called] # 0
  /\ call' = call + 1
  /\ UNCHANGED <<graph, index, low, open, visits, groups, searched, queue, cameFrom, cycle, told>>

(* A call back to the beginning: the cycle is traced back from its caller. *)
CloseCycle ==
  /\ Looking /\ CallsLeft /\ Called = Beginning
  /\ cycle' = <<Head(queue)>>
  /\ UNCHANGED <<graph, index, low, open, visits, groups, searched, queue, call, cameFrom, told>>

TraceBack ==
  /\ cycle # <<>> /\ cameFrom[cycle[1]] # 0
  /\ cycle' = <<cameFrom[cycle[1]]>> \o cycle
  /\ UNCHANGED <<graph, index, low, open, visits, groups, searched, queue, call, cameFrom, told>>

EndSearch ==
  /\ searched' = searched + 1 /\ queue' = <<>> /\ cycle' = <<>>
  /\ cameFrom' = [n \in Nodes |-> 0]
  /\ UNCHANGED <<graph, index, low, open, visits, groups, call>>

ReportCycle ==
  /\ cycle # <<>> /\ cameFrom[cycle[1]] = 0
  /\ told' = Append(told, cycle) /\ EndSearch

(* All its calls looked at, the next in the queue: with none, no cycle.    *)
NextInQueue ==
  /\ Looking /\ ~CallsLeft /\ Len(queue) > 1
  /\ queue' = Tail(queue) /\ call' = 1
  /\ UNCHANGED <<graph, index, low, open, visits, groups, searched, cameFrom, cycle, told>>

NoCycle == Looking /\ ~CallsLeft /\ Len(queue) = 1 /\ EndSearch /\ UNCHANGED told

CallsNext ==
  \/ VisitNext \/ VisitCallee \/ SeenCallee \/ CloseVisit
  \/ SearchGroup \/ FindCallee \/ PassCallee \/ CloseCycle \/ TraceBack \/ ReportCycle
  \/ NextInQueue \/ NoCycle

CallsStart(g) ==
  /\ g \in Seq(Seq(DOMAIN g))
  /\ graph = g
  /\ index = [n \in DOMAIN g |-> 0] /\ low = index /\ cameFrom = index
  /\ open = <<>> /\ visits = <<>> /\ groups = <<>> /\ queue = <<>> /\ cycle = <<>> /\ told = <<>>
  /\ searched = 0 /\ call = 1

(* Any functions, with any calls. *)
CallsSpec == (\E g : CallsStart(g)) /\ [][CallsNext]_cvars
-----------------------------------------------------------------------------
(* What n calls, and what those call in turn. *)
Reached(n) == {m \in Nodes : \A W \in SUBSET Nodes :
  Calls(n) \subseteq W /\ (\A k \in W : Calls(k) \subseteq W) => m \in W}

(* Each function on a path calls the next. *)
CallsOn(path) == \A i \in 1 .. Len(path) - 1 : path[i + 1] \in Calls(path[i])

IsShortestCycle(path) ==
  LET start == path[1]
  IN /\ CallsOn(path) /\ start \in Calls(path[Len(path)])
     /\ \A k \in 1 .. Len(path) - 1 : \A other \in [1 .. k -> Nodes] :
          other[1] = start /\ CallsOn(other) => start \notin Calls(other[k])

(* Functions are in one group exactly when each reaches the other, a group *)
(* comes after those it calls into, and each group that can wait on itself *)
(* is reported once, at its first function, along a shortest cycle: no     *)
(* async function of an accepted program waits, through others, on itself. *)
CyclesReported == (Grouped /\ ~Searching) =>
  /\ UNION {groups[i] : i \in DOMAIN groups} = Nodes
  /\ \A i \in DOMAIN groups : \A n \in groups[i] :
       /\ groups[i] = {n} \cup {m \in Reached(n) : n \in Reached(m)}
       /\ Reached(n) \subseteq UNION {groups[j] : j \in 1 .. i}
  /\ \A i \in DOMAIN groups :
       LET start == LeastOf(groups[i])
       IN IF start \in Reached(start)
          THEN \E r \in DOMAIN told : IsShortestCycle(told[r]) /\ \A s \in DOMAIN told : told[s][1] = start <=> s = r
          ELSE \A s \in DOMAIN told : told[s][1] # start
=============================================================================
