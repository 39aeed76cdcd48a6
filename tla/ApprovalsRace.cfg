SPECIFICATION Spec
CONSTANTS
  Approval = {p1}
  Reply = {r1}
  Command = {c1, c2}
  Client = {k1, k2}
  Daemon = {d1}
  Text = {t1}
  Task = Task
  Requests <- RaceRequests
  NoText = NoText
  NoApproval = NoApproval
  NoCommand = NoCommand
  NoRequest = NoRequest
  MaxRevision = 1
  MaxFault = 0
SYMMETRY Symmetry
PROPERTIES KeepsDecisions OverdueNotApproved
