CONSTANTS
  SlaveAddr <- OneSlave
  Answers <- OneSlaveAnswers
  TableSize = 4
  Tries = 10
SPECIFICATION FairSpec
INVARIANTS TypeOK TableStaysInBounds PeersAreEligible SlavesInTheirSlots
PROPERTY ServicesSettle
