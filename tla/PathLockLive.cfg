SPECIFICATION FairSpec
CONSTANTS
  root = root
  d = d
  a = a
  b = b
  e = e
  x = x
  y = y
  NoNode = NoNode
  NoName = NoName
  Nodes = {root, d, a, b}
  Root = root
  Names = {x, y}
  MaxLookup = 1
  Threads = {t1, t2, t3}
  WaitOffset <- Offset
  Ops <- LiveOps
  Requested = {d, a}
  Directories = {d}
  OutOfMemory <- OneOp
  BackingChanges = FALSE
  InitParent <- TreeParent
  InitName <- TreeName
  InitLookup <- TreeLookup
INVARIANTS NoLostWakeup
PROPERTIES WaitersAnswered
CHECK_DEADLOCK FALSE
