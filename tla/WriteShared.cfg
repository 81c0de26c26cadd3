\* Two writers of one target with either policy, under every fault.
SPECIFICATION Spec
CONSTANTS
  Writers = {w1, w2}
  NoFile = NoFile
  Chunks = 2
  Faults = {"error", "kill", "power_loss"}
INVARIANTS IInv NeverTorn OkIsDurable OneNewFile NoTempLeft
PROPERTIES DurableSpec EveryWriteReturns
