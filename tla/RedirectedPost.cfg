\* One credential request whose answer is a 307 to an allowed target.
SPECIFICATION Spec
CONSTANTS
  Calls = {c1}
  Posts = {c1}
  Replayable = {c1}
  NoCall = NoCall
  Interval = 1
  Limit = 3
INVARIANTS BodySentOnce
