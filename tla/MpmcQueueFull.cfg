CONSTANTS
  Thread = {t1, t2, t3}
  Value = {1, 2}
  Size = 2
  MaxTicket = 3
SPECIFICATION BoundedSpec
SYMMETRY Threads
INVARIANT FullMeansFull
