SPECIFICATION FairSpec
CONSTANTS
  Clients = {c1, c2}
  Channels <- TwoChannels
  Patterns <- SomePatterns
  Messages = {m1}
  MaxOutput = 2
INVARIANT TypeOK
INVARIANT IndexesAgree
PROPERTY KeepsPromise
PROPERTY EveryMessageLeaves
