\* Logout that is killed, repeated, and followed by a loss of power.
SPECIFICATION Spec
CONSTANTS
  Procs = {p1}
  NoProc = NoProc
  NoAttempt = NoAttempt
  NoSession = NoSession
  FailureKinds = {"bad_credentials", "sent_unknown"}
  Commands = {"login", "logout"}
  Faults = {"kill", "power_loss"}
  Interval = 1
  Lifetime = 0
  MaxTime = 2
INVARIANTS LogoutIsFinal
