SPECIFICATION Spec
CONSTANTS
  NumTasks = 3
  InitialTasks = 2
  MaxTime = 2
  Schedule <- MCSchedule
  MaxConcurrent = 2
  MaxFaults = 1
  Ticks = {i1, i2}
  Stuck = {1}
SYMMETRY MCTicksSymmetry
INVARIANTS
  TypeOK
  SlotsKept
  OneRunWithoutOverlap
