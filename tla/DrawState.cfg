SPECIFICATION Spec

CONSTANTS
  Addrs = {wall, cloud}
  Dynamic = {cloud}
  wall = wall
  cloud = cloud
  GeometryModes <- Scene
  OtherModes <- Surfaces
  Combiners = {"texel", "inverted"}
  MaxTextures = 3
  VramBlocks = 2

INVARIANT TypeOK
INVARIANT DrawnAsAsked
INVARIANT TexturesOwned
