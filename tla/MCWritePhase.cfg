SPECIFICATION Spec
CONSTANTS
  Tasks = {t1, t2}
  Files = {f1, f2}
  Faults = {}
  MaxCrashes = 3
  Original = Original
  NoFile = NoFile
  Same = Same
  NoTask = NoTask
SYMMETRY Symmetry
INVARIANT TypeOK
INVARIANT Recoverable
INVARIANT WholeAtRest
INVARIANT MergesOverItsCopy
INVARIANT LeaseIsHeld
\* Every task may be done: the bot is idle.
CHECK_DEADLOCK FALSE
