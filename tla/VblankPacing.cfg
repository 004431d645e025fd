SPECIFICATION Spec
CONSTANTS
  CatchupMax = 3
  VIs <- GameVIs
  MaxHitch = 4
  MaxVblanks = 10
CHECK_DEADLOCK FALSE
INVARIANT TypeOK
INVARIANT HitchesMadeUp
 
INVARIANT NoOversleep
