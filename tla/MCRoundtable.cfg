SPECIFICATION Spec
CONSTANTS
  m1 = m1
  m2 = m2
  x = x
  y = y
  pm = pm
  arch = arch
  dev = dev
  Meetings = {m1, m2}
  Topics = {x, y}
  TopicOf <- MCTopicOf
  Agents = {pm, dev}
  TeamOf <- MCTeamOf
  RoundsOf <- MCRoundsOf
  SpeechesOf <- MCSpeechesOf
  MaxWorkers = 2
  MaxRestarts = 1
SYMMETRY Symmetry
INVARIANT SessionIsHeld
PROPERTY EndedStaysEnded
INVARIANT DoneHasMinutes
INVARIANT ResultIsOfTopic
\* Every meeting may have ended: the bot is idle.
CHECK_DEADLOCK FALSE
