SPECIFICATION FairSpec
CONSTANT MaxTasks = 2
INVARIANTS TypeOK HandleInv HeldIsAlive NothingForgotten DetachedRunsOn InListOrder FirstErr PanicsResume
PROPERTIES StopsAtAwait WakesUp StopTakesEffect
