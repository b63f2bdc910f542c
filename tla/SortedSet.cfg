SPECIFICATION Spec
CONSTANTS
  Keys = {1, 2, 3}
  Members = {1, 2, 3}
  Values = {1, 2}
  NoValue = NoValue
  Hash <- Colliding
  InitCapacity = 4
  MaxLevel = 2
INVARIANT TypeOK
INVARIANT HalfFree
INVARIANT CountersHold
INVARIANT ListMatchesTable
 
PROPERTY IsAMap
