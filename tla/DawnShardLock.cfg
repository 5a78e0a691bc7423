CONSTANTS
  c1 = c1
  c2 = c2
  Key = {k1}
  Addr = {a1, a2}
  NoAddr = NoAddr
  Client = {c1, c2}
  Ops = {"create", "open", "put_advance", "get"}
  Request <- MCRequest
  BufferCount = 8
  MaxRequest <- Three
SPECIFICATION Spec
INVARIANT LockCoversTransfer
SYMMETRY Symmetric
CHECK_DEADLOCK FALSE
