\* Approvals, expiry and logout with kills and I/O errors.
SPECIFICATION Spec
CONSTANTS
  Procs = {p1, p2}
  NoProc = NoProc
  NoAttempt = NoAttempt
  NoSession = NoSession
  FailureKinds = {"bad_credentials", "sent_unknown"}
  Commands = {"login", "approved", "declined", "expired", "logout", "status"}
  Faults = {"kill", "io_error"}
  Interval = 1
  Lifetime = 2
  MaxTime = 4
SYMMETRY ProcSymmetry
INVARIANTS PendingSessionAwaitsApproval RefusedApprovalLeavesNoSession
PROPERTIES OnlyLoginRenewsSession
