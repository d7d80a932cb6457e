SPECIFICATION Spec
CONSTANTS
  a = a
  b = b
  c = c
  NoPlayer = NoPlayer
  N = 2
  Players <- ThreePlayers
  Home <- TwoAtFirst
  MaxAsks = 3
  MaxFails = 1
INVARIANT NobodyPlaysAGhost
