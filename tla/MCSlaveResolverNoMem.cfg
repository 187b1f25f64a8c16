CONSTANTS
  SlaveAddr <- OneSlave
  Answers <- OneSlaveAnswers
  TableSize = 4
  Tries = 10
SPECIFICATION Spec
INVARIANT StartMeansResolved
