CONSTANTS
  QueueSizes = {1, 2}
  Accesses <- MasterAccesses
SPECIFICATION FairSpec
INVARIANTS TypeOK NoAbort AbortNeedsDrop PacedLinesMatch
PROPERTY AccessIsLogged
