SPECIFICATION FairSpec
CONSTANTS
  Uniques = {u1, u2}
  Threads = {t1, t2, t3}
  Nobody = Nobody
INVARIANTS CalleeIsThere InterruptKept
PROPERTIES InterrupterReturns
\* Nothing happens once every request was sent.
CHECK_DEADLOCK FALSE
