SPECIFICATION Spec
CONSTANTS
  s1 = s1
  s2 = s2
  s3 = s3
  s4 = s4
  l1 = l1
  l2 = l2
  w1 = w1
  w2 = w2
  u1 = u1
  None = None
  Units <- UnitsOf
  Short = {s1, s2}
  Long = {}
  Wave = {}
  Unknown = {}
  NumNotes = 2
  NumStreams = 1
  NumChannels = 3
  NumEntries = 2
  AramSize = 3
  TicksPerUpdate = 1
  Preemptive = TRUE
INVARIANT SamplesIntact
