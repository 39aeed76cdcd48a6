SPECIFICATION FairSpec
CONSTANTS
  first = first
  second = second
  followup = followup
  mentions = mentions
  chat = chat
  thread = thread
  Message <- MCMessage
  Source <- MCSource
  At <- MCAt
  Rank <- MCRank
  Homes <- MCHomes
  Editable = {followup}
  Inbox = "approval_inbox"
  Stages <- MCStages
  Targets <- MCTargets
  Overlap = 1
  PageSize = 2
  MaxPages = 2
  MaxMessages = 3
  Budget = 3
  MaxReserve = 1
  MaxTime = 2
  MaxFault = 1
  Failing <- MCFailing
  Whole = Whole
  NoBacklog = NoBacklog
  NoSource = NoSource
INVARIANTS NothingSkipped
PROPERTIES WindowsStay 
