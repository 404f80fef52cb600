SPECIFICATION Spec
CONSTANTS
  Threads = {t1, t2}
  Nodes = {n1, n2, n3}
  Names = {a, b}
  HiddenNames = {x, y}
  Files = {f, g}
  Handles = {h1, h2}
  NoNode = NoNode
  NoName = NoName
  NoFile = NoFile
  NoHandle = NoHandle
  Failing = {"getattr", "mknod", "open", "unlink", "rename", "hide"}
  OpenRaces = FALSE
INVARIANTS UseReachesFile HiddenWillGo
PROPERTIES ImplementsPosix
SYMMETRY Symmetry
CHECK_DEADLOCK FALSE
