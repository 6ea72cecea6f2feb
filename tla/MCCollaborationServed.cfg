SPECIFICATION Spec
CONSTANTS
  Workflows = {w1}
  Tasks = {t1, t2}
  Modes = {"code"}
  MaxCrashes = 0
  NoWorkflow = NoWorkflow
  NoTask = NoTask
SYMMETRY Symmetry
INVARIANT UnderwayIsServed
\* Every identifier may be used up and no message pending: the bot is idle.
CHECK_DEADLOCK FALSE
