SPECIFICATION Spec
CONSTANTS
  Tasks = {t1}
  Chats = {c1}
  SubmitKinds = {"swarm"}
  InGit = TRUE
  Legacy = {}
  Verdicts = {}
  MaxWorkers = 1
  MaxCrashes = 0
  NoTask = NoTask
INVARIANT QueuedIsRunnable
\* Every id may be used up and no message pending: the bot is idle.
CHECK_DEADLOCK FALSE
