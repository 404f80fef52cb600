SPECIFICATION TableSpec
CONSTANTS
  MinSize = 4
  HashFactor = 177
  MergeSteps = 1
  IdLimit = 6
  Names = {0, 1}
  NoName = NoName
  MaxNodes = 4
  MaxLookup = 2
  MaxWraps = 1
  Modes = {"forget", "remember", "noforget"}
  Piecemeal = {"forget", "noforget"}
  Behind = {"forget"}
INVARIANTS EveryNodeFound KernelNodesStay LruIsUnused
PROPERTIES IdsNeverReturn
CHECK_DEADLOCK FALSE
