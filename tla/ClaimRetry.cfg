SPECIFICATION Spec
CONSTANTS
  Action = {a1}
  Dispatcher = {d1}
  Operator = {o1, o2}
  Text = {t1}
  NoAction = NoAction
  NoText = NoText
  NoKey = NoKey
  MaxRevision = 1
  MaxAttempt = 1
  MaxFault = 0
PROPERTY SentNotRetried
