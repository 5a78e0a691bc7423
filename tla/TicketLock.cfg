CONSTANTS
  Thread = {t1, t2, t3}
  Modulus = 3
SPECIFICATION LiveSpec
INVARIANT MutualExclusion
PROPERTIES TrylockFindsFree EveryoneEnters
