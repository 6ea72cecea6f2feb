SPECIFICATION Spec
CONSTANTS
  Workflows = {w1, w2}
  Tasks = {t1, t2, t3}
  Modes = {"code", "report"}
  MaxCrashes = 1
  NoWorkflow = NoWorkflow
  NoTask = NoTask
SYMMETRY Symmetry
INVARIANT TypeOK
INVARIANT NoSkippedStep
INVARIANT DecisionsAreKept
PROPERTY SuccessIsCompleted
PROPERTY TasksFollowLifecycle
\* Every identifier may be used up and no message pending: the bot is idle.
CHECK_DEADLOCK FALSE
