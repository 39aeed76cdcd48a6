SPECIFICATION SessionsSpec
CONSTANTS
  Sent <- ThreeMessages
  Waiting = {}
  Providers = {codex}
  Forks = {}
  MaxAttempts = 3
  Adjacent = 2
  MaxSession = 2
  MaxEdit = 1
  MaxBreak = 1
  NoSession = 0
  NoMessage = NoMessage
  first = first
  second = second
  third = third
CHECK_DEADLOCK FALSE
INVARIANT HistoryCarried
