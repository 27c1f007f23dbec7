\* Partial runs with intermediate tensor ownership transferred to the caller.
CONSTANTS
  a = a
  x = x
  y = y
  g = g
  z = z
  o = o
  N <- MCN
  Yield <- MCYield
  Pruned = {}
  Values <- MCValues
  Feeds <- MCFeeds
  Reads <- MCReads
  Writes <- MCWrites
  ToBeFreed <- MCToBeFreed
  FreeFrom <- MCFreeFrom
  FreeTo <- MCFreeTo
  TransferOwnership = TRUE
  Modes = {"full", "partial"}
  Faults = FALSE
  MaxFaults = 0
SPECIFICATION Spec
INVARIANT RunErasedAtPlanEnd
