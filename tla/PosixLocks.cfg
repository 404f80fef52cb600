SPECIFICATION Spec
CONSTANTS
  t1 = t1
  t2 = t2
  Threads = {t1, t2}
  OwnerOf <- EachItsOwn
  OffsetMax = 2
  Idle = Idle
  NoMemory = FALSE
  FlushFails = TRUE
INVARIANTS ListFollowsFs GetlkAgrees
SYMMETRY Symmetry
