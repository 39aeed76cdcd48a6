SPECIFICATION Spec
CONSTANTS
  Action = {a1, a2}
  Dispatcher = {d1}
  Operator = {o1}
  Text = {t1}
  NoAction = NoAction
  NoText = NoText
  NoKey = NoKey
  MaxRevision = 2
  MaxAttempt = 1
  MaxFault = 1
SYMMETRY Symmetry
INVARIANTS TypeOK SingleActiveSend SentMeansPosted StaleNeverPosted
