\* The lockout guard under every fault, two processes.
SPECIFICATION Spec
CONSTANTS
  Procs = {p1, p2}
  NoProc = NoProc
  NoAttempt = NoAttempt
  NoSession = NoSession
  FailureKinds = {"bad_credentials"}
  Commands = {"login", "preflight", "approved", "declined", "clear", "logout"}
  Faults = {"kill", "io_error", "power_loss"}
  Interval = 2
  Lifetime = 0
  MaxTime = 3
SYMMETRY ProcSymmetry
INVARIANTS IInv FailClosed RateSurvives RemovalIsFinal
PROPERTIES GateSpec MutexSpec
