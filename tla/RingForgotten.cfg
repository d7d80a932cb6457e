SPECIFICATION Spec
CONSTANTS
  N = 3
  Limit <- CrashAndReturn
  Timely = TRUE
INVARIANT SkippedIsMonitored
