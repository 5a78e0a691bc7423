CONSTANTS
  k1 = k1
  k2 = k2
  k3 = k3
  k4 = k4
  k5 = k5
  Key <- MCKey
  NoKey = NoKey
  Torn = Torn
  Hash <- MCHash
  OwnerSize = 2
  BaseSize = 4
  SegmentCapacity = 2
  Handle = {h1, h2}
  NoHandle = NoHandle
  AutoResize = TRUE
  Asserting = TRUE
SYMMETRY HandleSymmetry
SPECIFICATION Spec
INVARIANTS TypeOK LocksExclude MutexesAreTheLocks UpdateRespectsLocks
PROPERTY LockedElementStays
\* A failed assertion ends the process.
CHECK_DEADLOCK FALSE
