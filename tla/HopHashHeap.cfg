CONSTANTS
  ka = ka
  kb = kb
  kc = kc
  kd = kd
  ke = ke
  Key = {ka, kb, kc, kd, ke}
  NoKey = NoKey
  Torn = Torn
  Hash <- NarrowHash
  OwnerSize = 2
  BaseSize = 4
  SegmentCapacity = 2
  AutoResize = TRUE
SPECIFICATION Spec
INVARIANT LiveDataReserved
