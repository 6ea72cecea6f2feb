SPECIFICATION Spec
CONSTANTS
  Tasks = {t1, t2}
  Files = {f1, f2}
  Faults = {"io"}
  MaxCrashes = 0
  Original = Original
  NoFile = NoFile
  Same = Same
  NoTask = NoTask
SYMMETRY Symmetry
INVARIANT AllOrNothing
\* Every task may be done: the bot is idle.
CHECK_DEADLOCK FALSE
