SPECIFICATION Spec
CONSTANTS
  k1 = k1
  k2 = k2
  m1 = m1
  m2 = m2
  c1 = c1
  c2 = c2
  Keys = {k1, k2}
  Members = {m1, m2}
  Clients = {c1}
  NumDbs = 1
  Commands <- KeyspaceCommands
  MaxQueue = 0
  MaxTime = 2
  MaxSamples = 1
  MaxInt = 1
  NotInt = NotInt
  NoTTL = NoTTL

INVARIANT TypeOK
INVARIANT NoOrphanTTL
 
