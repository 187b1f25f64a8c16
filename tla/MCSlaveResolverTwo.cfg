CONSTANTS
  SlaveAddr <- TwoSlaves
  Answers <- TwoSlaveAnswers
  TableSize = 4
  Tries = 10
SPECIFICATION Spec
INVARIANT SlavesInTheirSlots
