SPECIFICATION Spec
CONSTANTS
  m1 = m1
  m2 = m2
  x = x
  y = y
  pm = pm
  arch = arch
  dev = dev
  Meetings = {m1}
  Topics = {x}
  TopicOf <- RoundsTopicOf
  Agents = {pm, arch, dev}
  TeamOf <- RoundsTeamOf
  RoundsOf <- RoundsRoundsOf
  SpeechesOf <- RoundsSpeechesOf
  MaxWorkers = 1
  MaxRestarts = 1
SYMMETRY Symmetry
INVARIANT TypeOK
INVARIANT NobodyIsLost
INVARIANT ConsensusHasMajority
\* The meeting may have ended: the bot is idle.
CHECK_DEADLOCK FALSE
