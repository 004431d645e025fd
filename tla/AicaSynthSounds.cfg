SPECIFICATION Spec
CONSTANTS
  s1 = s1
  s2 = s2
  s3 = s3
  s4 = s4
  l1 = l1
  l2 = l2
  w1 = w1
  w2 = w2
  u1 = u1
  None = None
  Units <- UnitsOf
  Short = {s1}
  Long = {l1, l2}
  Wave = {w1, w2}
  Unknown = {u1}
  NumNotes = 2
  NumStreams = 1
  NumChannels = 3
  NumEntries = 1
  AramSize = 1
  TicksPerUpdate = 1
  Preemptive = FALSE
INVARIANT TypeOK
INVARIANT ChannelsAccounted
 
