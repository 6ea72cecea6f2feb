SPECIFICATION Spec
CONSTANTS
  m1 = m1
  m2 = m2
  v1 = v1
  v2 = v2
  c1 = c1
  Messages = {m1, m2}
  Chats = {c1}
  ChatOf <- MCChatOf
  Workers = {v1, v2}
  Deliveries <- MCDeliveries
  NoMessage = NoMessage
  maxRestartsPerHour = 1
  MaxExits = 2
  MaxRequests = 1
INVARIANT TypeOK
INVARIANT HandledOnce
INVARIANT AnsweredTwice
PROPERTY HaltIsEarned
PROPERTY CrashLoopEnds
PROPERTY IsAnswered
PROPERTY ComesBack
\* Feishu may deliver nothing more: the service waits.
CHECK_DEADLOCK FALSE
