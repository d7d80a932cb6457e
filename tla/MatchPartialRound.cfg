SPECIFICATION Spec
CONSTANTS
  c1 = c1
  NoCard = NoCard
  CardDB <- OneCard
  HPStart = 6
  HandSize = 1
  MinHP <- Overtime
  MaxResolvers = 2
PROPERTY RoundHasBothCards
CHECK_DEADLOCK FALSE
