SPECIFICATION MCSpec
CONSTANTS
  Reply = {r1, r2}
  MaxSignal = 1
  MaxFault = 1
  Setups <- MCSetups
  Interval = 2
  RetryInterval = 1
  Lag = 1
  MayBreak <- MCMayBreak
  MaxBroken = 2
CHECK_DEADLOCK FALSE
INVARIANTS TypeOK WakeServed RunRowTells
PROPERTIES ReplyHeedsInbox StopEnds ActsHealthy
