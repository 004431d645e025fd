SPECIFICATION Spec
CONSTANTS
  BgmSeqs <- Musics
  Fanfares = {"fanfare"}
  Flagged <- Stages
  SeqFont <- FontOf
  Size <- Sizes
  KeptSize <- KeptUnits
  TempSize <- TempUnits
  NumLoads = 1
  LoadDelay = 1
  None = None
INVARIANT TypeOK
INVARIANT EntriesApart
INVARIANT StatusTrue
INVARIANT LoadsOwn
 
 
