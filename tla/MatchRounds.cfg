SPECIFICATION FairSpec
CONSTANTS
  c1 = c1
  NoCard = NoCard
  CardDB <- OneCard
  HPStart = 9
  HandSize = 1
  MinHP <- Overtime
  MaxResolvers = 2
INVARIANT TypeOK
INVARIANT HandsFull
INVARIANT FullRoundIsResolved
INVARIANT OneWinner
PROPERTY EndIsFinal
PROPERTY EndedIsRemoved
PROPERTY AutoplayMovesOn
CHECK_DEADLOCK FALSE
