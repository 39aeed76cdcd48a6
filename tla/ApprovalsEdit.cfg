SPECIFICATION FairSpec
CONSTANTS
  Approval = {p1}
  Reply = {r1}
  Command = {c1}
  Client = {k1}
  Daemon = {d1}
  Text = {t1}
  Task = Task
  Requests <- Sends
  NoText = NoText
  NoApproval = NoApproval
  NoCommand = NoCommand
  NoRequest = NoRequest
  MaxRevision = 2
  MaxFault = 1
INVARIANTS TypeOK 
PROPERTIES OverdueSettles GrantsAreCurrent
