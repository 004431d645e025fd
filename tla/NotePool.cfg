SPECIFICATION Spec
CONSTANTS
  l1 = l1
  l2 = l2
  l3 = l3
  c1 = c1
  c2 = c2
  NumNotes = 2
  Layers = {l1, l2}
  Channels = {c1}
  Priorities = {1, 2}
  Policies <- SomePolicies
  PoolSizes = {1}
  Player = Player
  Free = Free
  None = None
SYMMETRY Alike
INVARIANT TypeOK
INVARIANT Owned
INVARIANT OwnersLive
INVARIANT OneList
 
PROPERTY TakenByHigher
PROPERTY ClaimsKept
