SPECIFICATION Spec
CONSTANTS
  p1 = p1
  p2 = p2
  x = x
  y = y
  z = z
  Points = {p1, p2}
  Targets = {x, y, z}
  PointOf <- MCPointOf
  None = None
  Failing = {}
  MaxEvents = 3
INVARIANTS TableTrue NoForgottenMount InstallSafe
\* Nothing happens once every command was handled.
CHECK_DEADLOCK FALSE
