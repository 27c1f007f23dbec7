\* Full and partial runs, kernels that may fail, two device queues.
CONSTANTS
  a = a
  x = x
  s = s
  y = y
  z = z
  o = o
  q0 = q0
  q1 = q1
  N <- MCN
  Yield <- MCYield
  Values <- MCValues
  Feeds <- MCFeeds
  Fenced <- MCFenced
  Inputs <- MCInputs
  Implicit <- MCImplicit
  Outputs <- MCOutputs
  Provider <- MCProvider
  Queues <- MCQueues
  Queue <- MCQueue
  CpuInput <- MCCpuInput
  Modes = {"full", "partial"}
  Faults = TRUE
  MaxCalls = 3
SPECIFICATION Spec
\* The executor stops only because the number of calls is bounded.
CHECK_DEADLOCK FALSE
INVARIANT HostReadsComplete DeviceReadsComplete FetchesSynced
