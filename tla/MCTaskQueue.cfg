SPECIFICATION Spec
CONSTANTS
  Tasks = {t1, t2}
  Chats = {c1, c2}
  SubmitKinds = {"chat", "roundtable", "swarm", "report"}
  InGit = TRUE
  Legacy = {}
  Verdicts = {}
  MaxWorkers = 2
  MaxCrashes = 1
  NoTask = NoTask
SYMMETRY Symmetry
INVARIANT TypeOK
INVARIANT QueueInv
INVARIANT NoLostWakeup
INVARIANT RunningIsOwned
INVARIANT NoWriteReplay
INVARIANT WriteIsGranted
PROPERTY CancelBeatsSuccess
PROPERTY ImplementsLifecycle
\* Every id may be used up and no message pending: the bot is idle.
CHECK_DEADLOCK FALSE
