\* The nice value of a queued task changes.
SPECIFICATION Spec
CONSTANTS
  N = 2
  t1 = t1
  t2 = t2
  t3 = t3
  NoTask = NoTask
  Tasks <- Three
  Scenarios <- OnlyReniced
  Deadline <- MCDeadline
  ScanInterval = 1
  MaxNr = 1
SYMMETRY Symmetry
INVARIANTS
  NrMatchesFifo
