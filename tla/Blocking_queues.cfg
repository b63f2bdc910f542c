SPECIFICATION FairSpec
CONSTANTS
  k1 = k1
  k2 = k2
  Clients = {c1, c2}
  Dbs = {0, 1}
  Keys = {k1, k2}
  MaxElems = 1
  PushSizes = {1}
  KeyLists <- TwoKeys
  Timeouts = {0}
  ClockSkew = 0
  Ops = {"RPUSH", "POP", "BPOP", "RENAME", "SELECT", "PIPELINE", "CLOSE"}
 
PROPERTY EveryReplySent
