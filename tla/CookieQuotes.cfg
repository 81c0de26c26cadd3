SPECIFICATION Spec

CONSTANTS
  Calls = {c1}
  Forever = Forever
  NoPath = NoPath
  NoEntry = NoEntry
  NoFile = NoFile
  Lifetime = 2
  MaxTime = 2
  Targets <- Paths
  Offered <- SomeCookies


INVARIANT QuotesSurvive
