\* Node 4 declares its input 0 in host memory, as a device Loop kernel does.
CONSTANTS
  a = a
  x = x
  s = s
  y = y
  z = z
  o = o
  q0 = q0
  q1 = q1
  N <- MCN
  Yield <- MCYield
  Values <- MCValues
  Feeds <- MCFeeds
  Fenced <- MCFenced
  Inputs <- MCInputs
  Implicit <- MCImplicit
  Outputs <- MCOutputs
  Provider <- MCProvider
  Queues <- MCQueues
  Queue <- MCQueue
  CpuInput <- MCCpuInputLoop
  Modes = {"full", "partial"}
  Faults = FALSE
  MaxCalls = 3
SPECIFICATION Spec
CHECK_DEADLOCK FALSE
INVARIANT HostWaitsOnlyForHostReads
