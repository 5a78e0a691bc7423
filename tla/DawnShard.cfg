CONSTANTS
  c1 = c1
  c2 = c2
  Key = {k1}
  Addr = {a1, a2}
  NoAddr = NoAddr
  Client = {c1, c2}
  Ops = {"create", "open", "close", "delete", "put", "put_new", "put_advance", "put_advance_new",
         "get", "get_direct", "erase", "add_index", "remove_index", "find", "info", "ado", "crc32"}
  Request <- MCRequest
  BufferCount = 3
  MaxRequest <- ThreeAndTwo
SPECIFICATION Spec
INVARIANTS TypeOK OneAnswer FramesMatch TransfersCounted SessionsMatch HandleValid
SYMMETRY Symmetric
CHECK_DEADLOCK FALSE
