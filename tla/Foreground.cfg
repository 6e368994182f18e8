SPECIFICATION ForegroundSpec
CONSTANTS
  NumMsgs = 2
  MaxAsks = 1
  MaxMishaps = 1
  MaxText = 5
  FirstMin = 2
  SegmentMin = 2
  FlushAt = 4
  PieceMax = 3
  NumSends = 3
  Media = {2}
  UploadTries = 3
  NumRequests = 4
  Names <- MCNames
  FileOf <- MCFileOf
  MaxConcurrent = 1
  MaxJobs = 1
  Pages = {p1, p2}
  NumCodes = 2
  NumRelays = 3
  MaxLoginFaults = 1
  NumTurns = 3
  MaxRounds = 1
  MaxVoiceFaults = 1
  MaxHistory = 3
  NumResponses = 4
  NumCalls = 2
  ProfileKeys = {k1, k2}
  ProfileValues = {v1, v2}
  Writers = {w1, w2}
  MaxWrites = 3
  MaxProfileFaults = 1
  CompactMin = 1
  NumHookEvents = 4
  Hooks = {h1, h2}
  MaxHookRuns = 2
  MaxQueuedRuns = 1
  MaxLosses = 1
  NumOrders = 3
  MaxActive = 2
  MaxRecords = 2
  MaxRunnerFaults = 2
  Errands = {m1, m2}
  Paths = {f, g}
  MaxGitFaults = 1
  NumCommands = 4
  MaxPieces = 2
  AnswerRetries = 1
INVARIANTS
  ForegroundTypeOK
  RelayInOrder
  HandedOverOnce
  SentInTurnOnce
  LoginIsFollowed
  SpeechIsKept
  TurnOutlivesItsCall
  NoOrphanConnection
  HistoryReplays
  HookLimitsKept
  AnswerIsWhole
  ToolsAreFollowed
  DeliveriesAreExact
CHECK_DEADLOCK FALSE
