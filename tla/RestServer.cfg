CONSTANTS
  Scratch = 3
  IntSize = 16
  Files = {0, 4, 7, 8}
  Bodies = {0, 1, 2, 3, 7, 8, 15}
SPECIFICATION FairSpec
INVARIANTS TypeOK FilesAreClosed SentIsPrefix CompleteUnlessReadFailed ParsedIsPosted ScratchKeepsBounds
PROPERTY RequestsEnd
