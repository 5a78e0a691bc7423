CONSTANTS
  c1 = c1
  c2 = c2
  Key = {k1}
  Addr = {a1, a2}
  NoAddr = NoAddr
  Client = {c1, c2}
  Ops = {"create", "open", "put_advance", "get_direct", "add_index", "find"}
  Request <- MCRequest
  BufferCount = 3
  MaxRequest <- ThreeAndOne
SPECIFICATION FairSpec
PROPERTY CallEnds
CHECK_DEADLOCK FALSE
