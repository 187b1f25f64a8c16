CONSTANTS
  QueueSizes = {2}
  Accesses <- MasterAccesses
SPECIFICATION Spec
INVARIANTS LineDescribesAccess
