SPECIFICATION Spec
CONSTANTS
  k1 = k1
  k2 = k2
  m1 = m1
  m2 = m2
  c1 = c1
  c2 = c2
  Keys = {k1}
  Members = {}
  Clients = {c1, c2}
  NumDbs = 2
  Commands <- WatchCommands
  MaxQueue = 1
  MaxTime = 1
  MaxSamples = 1
  MaxInt = 1
  NotInt = NotInt
  NoTTL = NoTTL
SYMMETRY ClientSymmetry
INVARIANT WatchTableConsistent
INVARIANT DirtyClientsWatch
 
INVARIANT KindChangeIsSeen
