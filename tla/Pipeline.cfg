SPECIFICATION MCSpec
CONSTANTS
  edited = edited
  returned = returned
  recalled = recalled
  file = file
  next = next
  question = question
  owner = owner
  mine = mine
  Message <- MCMessage
  Script <- MCScript
  Role <- MCRole
  Chat <- MCChat
  Sender <- MCSender
  SentAt <- MCSentAt
  Burst = 1
  NoKey = NoKey
  Task = {t1, t2}
  NoTask = NoTask
  Casts <- RaceCasts
  Attempt = {a1}
  MaxRevision = 4
  m1 = m1
  m2 = m2
  m3 = m3
  Sent <- MCSent
  Waiting = {m2}
  Providers = {codex, claude_code}
  Forks = {claude_code}
  MaxAttempts = 3
  Adjacent = 2
  MaxSession = 3
  MaxEdit = 2
  MaxBreak = 2
  NoSession = 0
  NoMessage = NoMessage
CHECK_DEADLOCK FALSE
INVARIANTS AgentSeesStored OneAnswer  AnswersKnown
PROPERTIES NoRollback FinalStaysFinal Settles
