SPECIFICATION FairSpec
CONSTANTS
  Action = {a1}
  Dispatcher = {d1, d2}
  Operator = {o1}
  Text = {t1}
  NoAction = NoAction
  NoText = NoText
  NoKey = NoKey
  MaxRevision = 1
  MaxAttempt = 2
  MaxFault = 1
INVARIANTS SendsAreAuthorised FailedAttemptNotPosted
PROPERTIES OnlyOperatorReopens KeepsLedger SendingResolves
