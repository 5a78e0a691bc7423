CONSTANTS
  Value = {a, b}
  Size = 4
  SemMax = 2
SPECIFICATION LiveSpec
INVARIANTS TypeOK SlotExclusive
PROPERTIES ImplementsFifo ElementWakes ExitReturns
