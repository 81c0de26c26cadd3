\* Two calls share a client: one with a body that can be read again, one with
\* a body that cannot.
SPECIFICATION Spec
CONSTANTS
  Calls = {c1, c2}
  Posts = {c1, c2}
  Replayable = {c1}
  NoCall = NoCall
  Interval = 2
  Limit = 2
INVARIANTS TypeOK UnsentReachedNobody OnlyAllowedIsSent RedirectCookies
PROPERTIES PacedSends CancelledCallReturns
