SPECIFICATION Spec
CONSTANTS
  k1 = k1
  m1 = m1
  Keys = {k1}
  Members = {m1}
  MaxInt = 2
  NotInt = NotInt
  NoTTL = NoTTL
  NoFile = NoFile
  Dbs = {0, 1}
  Commands <- WriteCommands
  MaxWrites = 2
  MaxJobs = 2
  MaxCrashes = 2
  AppendFsync = "everysec"
  AofHabits = {}
INVARIANT FlushedWritesSurvive
