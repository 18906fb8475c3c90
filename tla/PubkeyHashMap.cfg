SPECIFICATION Spec
CONSTANTS
  K1 = K1
  K2 = K2
  K3 = K3
  K4 = K4
  Key <- FourKeys
  Value = {V1, V2}
  undefined = undefined
  Hash <- TwoHashes
  HashOf <- ThreeCollide
INVARIANTS
  BucketsSound
  SizeCounts
PROPERTIES
  MapSpec
