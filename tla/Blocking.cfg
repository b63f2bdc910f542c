SPECIFICATION Spec
CONSTANTS
  k1 = k1
  k2 = k2
  Clients = {c1, c2, c3}
  Dbs = {0}
  Keys = {k1, k2}
  MaxElems = 2
  PushSizes = {1}
  KeyLists <- OneOrTwoKeys
  Timeouts = {0, 2}
  ClockSkew = 0
  Ops = {"LPUSH", "POP", "BPOP", "CLOSE"}
SYMMETRY ClientSymmetry
INVARIANT TypeOK
INVARIANT EveryElementOnce
 
 
