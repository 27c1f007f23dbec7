\* Partial runs (full runs between them) with failures, termination and pruning, under the caller fairness of FairSpec, against the abstract frame of FrameRuns.
CONSTANTS
  a = a
  x = x
  y = y
  g = g
  z = z
  o = o
  N <- MCN
  Yield <- MCYield
  Pruned <- MCPrunedOne
  Values <- MCValues
  Feeds <- MCFeeds
  Reads <- MCReads
  Writes <- MCWrites
  ToBeFreed <- MCToBeFreed
  FreeFrom <- MCFreeFrom
  FreeTo <- MCFreeTo
  TransferOwnership = FALSE
  Modes = {"full", "partial"}
  Faults = TRUE
  MaxFaults = 2
SPECIFICATION FairSpec
INVARIANT WindowsCoverPlan RunErasedAtPlanEnd
PROPERTY PartialRunCompletes ImplementsFrameRuns
