SPECIFICATION FairSpec
CONSTANTS
  Size = 3
  Bytes <- WriteBytes
  NoByte = NoByte
  MaxWrites = 3
  MaxLinks = 2
  WriteSize = 2
INVARIANT TypeOK
INVARIANT BacklogHoldsTheLastBytes
 
 
 
PROPERTY HandshakeEnds
