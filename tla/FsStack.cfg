SPECIFICATION Spec
CONSTANTS
  Bottoms <- Systems
  Stacks <- ModuleStacks
  Options = {TRUE, FALSE}
  Paths <- UserPaths
  Links <- Targets
  TooLong <- Long
  Entries <- Directory
  Encoding <- Codes
  Names <- AllNames
  Null = Null
INVARIANTS CallsArrive AnswersComeBack WithinAbilities ModulesCounted
CHECK_DEADLOCK FALSE
