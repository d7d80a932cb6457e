SPECIFICATION FairSpec
CONSTANTS
  c1 = c1
  c2 = c2
  NoCard = NoCard
  CardDB <- TwoCards
  HPStart = 8
  Patient = TRUE
  Autoplayers <- NoAutoplay
  MaxPlays = 2
  MaxLost = 0
  MaxLeaves = 0
PROPERTY EndReachesBoth
CHECK_DEADLOCK FALSE
