SPECIFICATION BackgroundSpec
CONSTANTS
  NumTasks = 2
  InitialTasks = 1
  MaxTime = 2
  Schedule <- MCSchedule
  MaxConcurrent = 2
  MaxFaults = 1
  Ticks = {i1, i2}
  Stuck = {1}
  NumReminders = 2
  Scans = {s1, s2}
  MaxReminderFaults = 2
  Lockers = {p1, p2, p3}
  MaxFiles = 2
  MaxSpinFaults = 1
  Staff = {a, b, c}
  Xiaoye = x
  NumLetters = 4
  MaxMailChain = 3
  RetryAttempts = 2
  NumChunks = 3
  Beats = {b1, b2, b3}
  MaxBeatFaults = 2
INVARIANTS
  BackgroundTypeOK
  TimersSpeakOnce
  SpinExclusive
  NoPingPong
  NothingRepeated
PROPERTIES
  AskAnswered
  DueIsRun
CHECK_DEADLOCK FALSE
