\* Three frames: a nested handler can itself be interrupted.
SPECIFICATION FairSpec
CONSTANTS
  Threads = {t1, t2}
  NoThread = NoThread
  MaxFrames = 3
  Asked <- AllCalls
INVARIANTS
  ResolveIsExclusive
  RecursionHasCause
PROPERTY SimpleCallReturns
\* The process may run out of stack or deadlock on the mutex of the router.
CHECK_DEADLOCK FALSE
