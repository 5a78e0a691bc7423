CONSTANTS
  ka = ka
  kb = kb
  kc = kc
  kd = kd
  ke = ke
  Key = {ka, kb, kc, kd, ke}
  NoKey = NoKey
  Torn = Torn
  Hash <- WideHash
  OwnerSize = 4
  BaseSize = 8
  SegmentCapacity = 2
  AutoResize = TRUE
SPECIFICATION Spec
PROPERTY ImplementsDurableMap
