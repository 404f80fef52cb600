SPECIFICATION Spec
CONSTANTS
  Workers = {w1, w2}
  Uniques = {u1, u2, u3}
  MaxRetrieves = 1
  KernelMajors = {6, 7, 8}
  Settings <- Daemons
  Racing = {"READ"}
  Nothing = Nothing
SYMMETRY Symmetry
INVARIANTS OneAnswer ForgetsArrive SpeaksVersion Agreed FsLifetime RetrieveMatched
CHECK_DEADLOCK FALSE
