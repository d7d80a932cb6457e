SPECIFICATION Spec
CONSTANTS
  N = 3
  Limit <- OneLate
  Timely = TRUE
INVARIANT OneToken
