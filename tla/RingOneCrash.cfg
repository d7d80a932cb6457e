SPECIFICATION Spec
CONSTANTS
  N = 4
  Limit <- OneCrash
  Timely = TRUE
INVARIANT OneToken
INVARIANT SkippedIsMonitoredAtFirst
PROPERTY TokenSurvives
PROPERTY CirculatesOneToken
