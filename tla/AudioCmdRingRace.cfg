SPECIFICATION Spec
CONSTANTS
  RingSize = 8
  ProcQueueSize = 2
  PreemptSend = TRUE
  DrainCmds = 2
  MaxCmds = 6
  MaxStops = 1
INVARIANT InOrder
