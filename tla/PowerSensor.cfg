CONSTANT MaxAge = 2
SPECIFICATION FairSpec
INVARIANTS TypeOK OwnQuantity CalibratedFirst CoherentInputs
PROPERTY ReadingsRecover
