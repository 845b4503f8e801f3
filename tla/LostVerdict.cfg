SPECIFICATION Spec
CONSTANTS
  p1 = p1
  p2 = p2
  Procs <- MCProcs
  Window = 6
  Attempts = 2
  MaxRuns = 3
  MaxWeeks = 2
  MaxEdits = 1
  MaxFaults = 1
  Nothing = Nothing
INVARIANT VerdictsAreKept
CHECK_DEADLOCK FALSE
SYMMETRY Interchangeable
