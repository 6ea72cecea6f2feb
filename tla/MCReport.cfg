SPECIFICATION Spec
CONSTANTS
  MaxFiles = 2
  MaxTasks = 2
  MaxEdits = 2
  MaxCrashes = 1
  NoReport = NoReport
INVARIANT TypeOK
INVARIANT OutputIsSound
INVARIANT SentAgain
INVARIANT SuccessIsSent
PROPERTY CancelStops
PROPERTY ReportEnds
\* Every task may be closed and none retried: the bot is idle.
CHECK_DEADLOCK FALSE
