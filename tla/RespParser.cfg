SPECIFICATION Spec
CONSTANTS
  ReadSize = 5
  MaxInput = 14
  MaxPieces = 4
  NoValues = NoValues
  Conversations <- AllConversations
INVARIANT ChunksDoNotMatter
 
CHECK_DEADLOCK FALSE
