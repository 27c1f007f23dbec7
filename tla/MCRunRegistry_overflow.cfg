\* More partial runs than a 2-bit id counter holds: the counter wraps.
\* The behaviour ends when the callers have finished their bounded runs.
CONSTANTS
  t1 = t1
  t2 = t2
  None = None
  Threads <- MCThreads
  IdWidth = 2
  Windows = 2
  MaxRuns = 3
SYMMETRY Symmetry
SPECIFICATION Spec
INVARIANT RunIdsSound
CHECK_DEADLOCK FALSE
