\* Three partial runs of two callers; ids never wrap (3 bits: -4 .. 3).
\* The behaviour ends when the callers have finished their bounded runs.
CONSTANTS
  t1 = t1
  t2 = t2
  None = None
  Threads <- MCThreads
  IdWidth = 3
  Windows = 2
  MaxRuns = 3
SYMMETRY Symmetry
SPECIFICATION Spec
INVARIANT RunIdsSound NoOrphanFrames
CHECK_DEADLOCK FALSE
