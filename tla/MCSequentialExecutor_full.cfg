\* Full runs with kernel failures, termination and path pruning.
CONSTANTS
  a = a
  x = x
  y = y
  g = g
  z = z
  o = o
  N <- MCN
  Yield <- MCYield
  Pruned <- MCPrunedOne
  Values <- MCValues
  Feeds <- MCFeeds
  Reads <- MCReads
  Writes <- MCWrites
  ToBeFreed <- MCToBeFreed
  FreeFrom <- MCFreeFrom
  FreeTo <- MCFreeTo
  TransferOwnership = FALSE
  Modes = {"full"}
  Faults = TRUE
  MaxFaults = 4
SPECIFICATION Spec
INVARIANT WindowsCoverPlan
PROPERTY ValueLifecycle
