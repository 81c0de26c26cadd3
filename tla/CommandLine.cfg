\* Two invocations of one path, one interference of the outside world.
SPECIFICATION Spec
CONSTANTS
  Procs = {p1, p2}
  NoProc = NoProc
  Dirs = {d1, d2}
  NoDir = NoDir
  Possible <- SomeDirectories
  Kept <- SomeFiles
  MaxEvents = 1
SYMMETRY Symmetry
INVARIANTS IInv PinnedIsPrivate PinnedWasAtThePath StatusIsCurrent ExitTellsTheOutcome
CHECK_DEADLOCK FALSE
