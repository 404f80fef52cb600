SPECIFICATION FairSpec
CONSTANTS
  root = root
  d = d
  a = a
  b = b
  e = e
  x = x
  y = y
  NoNode = NoNode
  NoName = NoName
  Nodes = {root, d, a}
  Root = root
  Names = {x, y}
  MaxLookup = 1
  Threads = {t1, t2, t3}
  WaitOffset <- Offset
  Ops <- PairOps
  Requested = {root, d, a}
  Directories = {root, d}
  OutOfMemory = {}
  BackingChanges = FALSE
  InitParent <- TreeParent
  InitName <- TreeName
  InitLookup <- TreeLookup

PROPERTIES WaitersAnswered
CHECK_DEADLOCK FALSE
