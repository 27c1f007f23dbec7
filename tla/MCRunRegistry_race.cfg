\* Two callers on one registry: find runs outside graph_runs_lock_.
\* The behaviour ends when the callers have finished their bounded runs.
CONSTANTS
  t1 = t1
  t2 = t2
  None = None
  Threads <- MCThreads
  IdWidth = 3
  Windows = 2
  MaxRuns = 3
SYMMETRY Symmetry
SPECIFICATION Spec
INVARIANT RegistryMutualExclusion
CHECK_DEADLOCK FALSE
