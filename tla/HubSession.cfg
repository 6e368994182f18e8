SPECIFICATION FairSpec
CONSTANTS
  user1 = user1 user2 = user2 wrapUp = wrapUp text = text office = office
  look = look send = send power = power delegate = delegate
  Nobody = Nobody
  Chats = {user1, wrapUp}
  Services = {text}
  Server <- MCOneService
  WrapUps = {wrapUp}
  Tools = {look, send, power, delegate}
  Level <- MCLevel
  AutoApprove = FALSE
  FingerprintCap = 1
  Allowlist <- MCAllowlist
  Budget <- MCBudget
  Dispatching = {delegate}
  MaxTurns = 2
  RepeatLimit = 2
  Threshold = 3
  Keep = 2
  MaxCalls = 3
  MaxRound = 2
  MaxFaults = 1
INVARIANTS
  TypeOK
  PromptWellFormed
  InterruptedIsOver
  ApprovedBeforeRun
PROPERTIES
  NothingLost
  ChatEnds
CHECK_DEADLOCK FALSE
