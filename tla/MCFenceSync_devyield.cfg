\* The YieldOp placed on the device provider, partial runs only.
CONSTANTS
  a = a
  x = x
  s = s
  y = y
  z = z
  o = o
  q0 = q0
  q1 = q1
  N <- MCN
  Yield <- MCYield
  Values <- MCValues
  Feeds <- MCFeeds
  Fenced <- MCFenced
  Inputs <- MCInputs
  Implicit <- MCImplicit
  Outputs <- MCOutputs
  Provider <- MCProviderDeviceYield
  Queues <- MCQueues
  Queue <- MCQueue
  CpuInput <- MCCpuInput
  Modes = {"partial"}
  Faults = FALSE
  MaxCalls = 3
SPECIFICATION Spec
CHECK_DEADLOCK FALSE
INVARIANT FetchesSynced
