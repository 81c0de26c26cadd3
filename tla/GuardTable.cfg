\* One entry for each path: what is sent, and what is blocked.
SPECIFICATION Spec
CONSTANTS
  Table <- OneEntryPerPath
  Requests <- AllRequests
  Letters = {"a"}
  Names <- SomeNames
  Values <- SomeValues
  Denied = {"pay"}
\* A request that was sent or blocked is done with.
CHECK_DEADLOCK FALSE
INVARIANTS SentIsAllowed SentAsAsked DeniedNeverSent EveryShapePasses
