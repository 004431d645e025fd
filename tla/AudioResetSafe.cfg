SPECIFICATION FairSpec
CONSTANTS
  Specs <- GameSpecs
  SpecChanges <- GameChanges
  BootSpec = "TR"
  Chunks = 1
  LongFade = 2
  OnePerDrain = TRUE
  MaxLag = 2
  MaxResets = 2
  MaxPlays = 1
INVARIANT SpecAgreement
INVARIANT NothingEarly
INVARIANT PlayersQuiet
PROPERTY ResetEnds
PROPERTY MusicStarts
PROPERTY SfxReturns
