SPECIFICATION Spec
CONSTANTS
  root = root
  d = d
  a = a
  b = b
  e = e
  x = x
  y = y
  NoNode = NoNode
  NoName = NoName
  Nodes = {root, d, a}
  Root = root
  Names = {x, y}
  MaxLookup = 2
  Threads = {t1, t2}
  WaitOffset <- Offset
  Ops <- AllOps
  Requested = {root, d, a}
  Directories = {root, d, a}
  OutOfMemory = {}
  BackingChanges = FALSE
  InitParent <- TreeParent
  InitName <- TreeName
  InitLookup <- TreeLookup
INVARIANTS LockAccounting PathsStay NodesOutliveRequests DeletedNodesUnlocked
PROPERTIES ImplementsLockTable
