SPECIFICATION MCSpec
CONSTANTS
  group = group
  private = private
  small = small
  other = other
  large = large
  Chat = {group, private}
  Group = {group}
  ChatPolicies <- MCPolicies
  GlobalPolicies <- MCGlobals
  Imports <- MCImports
  NoPolicy = NoPolicy
  NoFact = NoFact
  NoNotice = NoNotice
  MaxEpisode = 2
  MaxFault = 1
  Resource = {small, other, large}
  ChatOf <- MCChatOf
  Size <- MCSize
  MaxSize = 3
  MaxDir = 3
  Pruner = {daemon}
  Daemon = daemon
  daemon = daemon
  NoResource = NoResource
  NoRow = NoRow
  main = main
  card = card
  cli = cli
  Writer = {main, card, cli}
  LoggerOf <- MCLoggerOf
  Files = 2
  MaxLine = 2
  MaxScrub = 2
  MaxDeath = 1
  Nobody = Nobody
  Opener = {o1, o2}
  Columns = {revision, binding, message_type}
  LateColumn = message_type
  Rows = {r1}
  MaxAbort = 2
  NoOpener = NoOpener
  Days = 2
  FeedbackDays = 1
  Window = 1
  MayExpire = TRUE
CHECK_DEADLOCK FALSE
INVARIANTS QuotaKept  NoticesAlternate PolicyIsAudited LinesKept CurrentIsComplete PrunedIsInert
