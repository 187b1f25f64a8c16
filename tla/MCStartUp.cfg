CONSTANTS
  SlaveAddr <- OneSlave
  Answers <- OneSlaveAnswers
  TableSize = 4
  Tries = 10
  Deployments <- Shipped
  RtuAddr = 1
  RetryCount = 10
SPECIFICATION FairBootSpec
INVARIANTS StartTypeOK NothingHalfStarted
PROPERTIES QuietOnceSet SystemComesUp ClockSleepsAgain
