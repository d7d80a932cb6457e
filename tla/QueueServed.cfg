SPECIFICATION FairSpec
CONSTANTS
  a = a
  b = b
  c = c
  NoPlayer = NoPlayer
  N = 2
  Players <- ThreePlayers
  Home <- TwoAtFirst
  MaxAsks = 3
  MaxFails = 1
INVARIANT TypeOK
INVARIANT NotAgainstOneself
INVARIANT HostAfterGuest
INVARIANT NobodyForgotten
INVARIANT UniquePairing
PROPERTY WaitersMeet
