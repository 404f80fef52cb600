SPECIFICATION FairSpec
CONSTANTS
  Options <- CommandLines
  Signals = {"SIGHUP", "SIGTERM"}
  Failing = {"options", "stat", "mount", "resolve", "mtab", "fusermount", "memory",
             "chan", "new", "tables", "fork", "sigaction", "buffer", "read"}
  MaxMounts = 2
INVARIANTS MountGone ReleasedOnce ServingSurvives
PROPERTIES OthersStay UnmountEndsProcess
\* The process ends.
CHECK_DEADLOCK FALSE
