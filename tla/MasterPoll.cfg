CONSTANTS
  MaxCids = 7
  NumParams = 7
  Threshold = 750
  DutyFrom = 20
  DutyTo = 24
  DutyStep = 2
  MaxLate = 1
SPECIFICATION FairSpec
INVARIANTS TypeOK AckedWriteInForce MirrorHoldsOwnReading
PROPERTIES ImplementsRegisters EveryCidPolled RampReachesSlave
