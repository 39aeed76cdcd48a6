SPECIFICATION Spec
CONSTANTS
  Approval = {p1}
  Reply = {r1}
  Command = {c1}
  Client = {k1}
  Daemon = {d1}
  Text = {t1}
  Task = Task
  Requests <- TaskRequests
  NoText = NoText
  NoApproval = NoApproval
  NoCommand = NoCommand
  NoRequest = NoRequest
  MaxRevision = 1
  MaxFault = 0
SYMMETRY Symmetry
PROPERTY OwnerControlKept
