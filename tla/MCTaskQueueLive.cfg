SPECIFICATION FairSpec
CONSTANTS
  Tasks = {t1, t2}
  Chats = {c1, c2}
  SubmitKinds = {"swarm"}
  InGit = FALSE
  Legacy = {t2}
  Verdicts = {"blocked"}
  MaxWorkers = 1
  MaxCrashes = 1
  NoTask = NoTask
PROPERTY QueuedIsServed
PROPERTY ClaimIsFifo
\* Every id may be used up and no message pending: the bot is idle.
CHECK_DEADLOCK FALSE
