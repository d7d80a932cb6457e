SPECIFICATION FairSpec
CONSTANTS
  r1 = r1
  r2 = r2
  r3 = r3
  N = 2
  Requests <- ThreeRequests
  Home <- TwoAtLeader
  Copies = 3
  PackSize = 2
  HandSize = 1
  MaxMatches = 1
  MaxLosses = 1
  MaxNils = 1
INVARIANT TypeOK
INVARIANT ReplyNeverBlocks
INVARIANT NoCardTwice
INVARIANT NoCardLost
PROPERTY EveryRequestServed
PROPERTY IssuesFreshPacks
