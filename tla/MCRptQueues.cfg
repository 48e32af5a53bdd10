SPECIFICATION Spec
CONSTANTS
  r1 = r1
  r2 = r2
  REPORT_LEN = 1
  CRITICAL_LEN = 3
  Reports <- TwoReports
  NoReport = NoReport
  Indices <- FewIndices
  CounterMod = 1
  Faults <- AllFaults
  Tears = TRUE
  MaxCrashes = 1
SYMMETRY ReportSymmetry
CHECK_DEADLOCK FALSE
INVARIANT QueuesSound
PROPERTY FifoRefined
