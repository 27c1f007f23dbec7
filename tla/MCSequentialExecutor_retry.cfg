\* A partial run retried after a failed window (the frame is left as-is).
CONSTANTS
  a = a
  x = x
  y = y
  g = g
  z = z
  o = o
  N <- MCN
  Yield <- MCYield
  Pruned = {}
  Values <- MCValues
  Feeds <- MCFeeds
  Reads <- MCReads
  Writes <- MCWrites
  ToBeFreed <- MCToBeFreed
  FreeFrom <- MCFreeFrom
  FreeTo <- MCFreeTo
  TransferOwnership = FALSE
  Modes = {"partial"}
  Faults = TRUE
  MaxFaults = 2
SPECIFICATION Spec
PROPERTY ValueLifecycle
