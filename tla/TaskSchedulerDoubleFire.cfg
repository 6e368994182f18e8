SPECIFICATION Spec
CONSTANTS
  NumTasks = 3
  InitialTasks = 3
  MaxTime = 2
  Schedule <- MCSchedule
  MaxConcurrent = 2
  MaxFaults = 0
  Ticks = {i1, i2}
  Stuck = {1}
SYMMETRY MCTicksSymmetry
ACTION_CONSTRAINT MCQuickListing
INVARIANT OneRunPerMoment
