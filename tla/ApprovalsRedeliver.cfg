SPECIFICATION Spec
CONSTANTS
  Approval = {p1, p2}
  Reply = {}
  Command = {c1}
  Client = {k1}
  Daemon = {d1}
  Text = {t1}
  Task = Task
  Requests <- AnswerRequests
  NoText = NoText
  NoApproval = NoApproval
  NoCommand = NoCommand
  NoRequest = NoRequest
  MaxRevision = 1
  MaxFault = 1
SYMMETRY Symmetry
INVARIANT FeedbackMatchesDecision
PROPERTY KeepRejectSparesOthers
