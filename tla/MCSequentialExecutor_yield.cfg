\* Partial runs without faults: where a window stops relative to its YieldOp.
CONSTANTS
  a = a
  x = x
  y = y
  g = g
  z = z
  o = o
  N <- MCN
  Yield <- MCYield
  Pruned = {}
  Values <- MCValues
  Feeds <- MCFeeds
  Reads <- MCReads
  Writes <- MCWrites
  ToBeFreed <- MCToBeFreed
  FreeFrom <- MCFreeFrom
  FreeTo <- MCFreeTo
  TransferOwnership = FALSE
  Modes = {"partial"}
  Faults = FALSE
  MaxFaults = 0
SPECIFICATION Spec
INVARIANT SuspendedPastYield
