CONSTANTS
  k1 = k1
  k2 = k2
  b1 = b1
  b2 = b2
  Key <- MCKey
  NoKey = NoKey
  Block <- MCBlock
  NoBlock = NoBlock
  Lengths = {"small", "large"}
  Val = {v1, v2}
SPECIFICATION Spec
SYMMETRY Symmetric
INVARIANT
  AtomicTransaction
