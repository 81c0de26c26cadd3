\* The lifetime that the shipped binary gives the session store.
SPECIFICATION Spec
CONSTANTS
  Procs = {p1}
  NoProc = NoProc
  NoAttempt = NoAttempt
  NoSession = NoSession
  FailureKinds = {"bad_credentials", "sent_unknown"}
  Commands = {"login", "status"}
  Faults = {}
  Interval = 1
  Lifetime = 0
  MaxTime = 2
PROPERTIES AgedSessionIsDropped
