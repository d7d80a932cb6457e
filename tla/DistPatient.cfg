SPECIFICATION FairSpec
CONSTANTS
  c1 = c1
  c2 = c2
  NoCard = NoCard
  CardDB <- TwoCards
  HPStart = 12
  Patient = TRUE
  Autoplayers <- GuestMayAutoplay
  MaxPlays = 3
  MaxLost = 1
  MaxLeaves = 1
INVARIANT TypeOK
INVARIANT NoEcho
INVARIANT ReplicasAgree
INVARIANT ResultsAgree
PROPERTY RoundsAreResolvedOnBoth
PROPERTY PlaysOneDuel
CHECK_DEADLOCK FALSE
