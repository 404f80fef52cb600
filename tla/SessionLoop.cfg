SPECIFICATION FairLoopSpec
CONSTANTS
  Workers = {w1, w2, w3, w4}
  MaxAvail = 2
  WakeUp = "cancel"
INVARIANTS ReaderLeft NoWorkerAtReturn
PROPERTIES UnmountEndsLoop
\* The process ends once the mount is torn down.
CHECK_DEADLOCK FALSE
