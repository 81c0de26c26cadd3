\* Three processes that may be delayed at will.
SPECIFICATION Spec
CONSTANTS
  Procs = {p1, p2, p3}
  NoProc = NoProc
  Timeout = 5
  Poll = 2
INVARIANTS TypeOK HolderOwnsFlock SleepEndsByDeadline ReleaseIsNoticed
PROPERTIES MutexSpec EveryAcquireEnds
