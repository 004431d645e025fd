SPECIFICATION Spec
CONSTANTS
  Specs <- TwoSpecs
  SpecChanges <- TwoChanges
  BootSpec = "CO"
  Chunks = 4
  LongFade = 1
  OnePerDrain = FALSE
  MaxLag = 5
  MaxResets = 2
  MaxPlays = 2
INVARIANT TypeOK
INVARIANT NoLoadAcrossInit
