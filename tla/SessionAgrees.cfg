SPECIFICATION FairSpec
CONSTANTS
  a = a
  b = b
  Clients <- TwoClients
  NoMsg = NoMsg
  Nobody = Nobody
  Leavers <- JustA
  Wishes <- Evenings
  MaxRounds = 2
INVARIANT TypeOK
INVARIANT TrueView
INVARIANT CurrentHand
CHECK_DEADLOCK FALSE
PROPERTY PublishersGoOn
PROPERTY DispatcherReturns
PROPERTY LeaverIsForgotten
