SPECIFICATION Spec
CONSTANTS
  RingSize <- PacedRing
  ProcQueueSize = 1
  PreemptSend = FALSE
  DrainCmds = 2
  MaxCmds = 11
  MaxStops = 1
INVARIANT TypeOK
INVARIANT InOrder
INVARIANT HeldByStop
