CONSTANTS
  Parts = 2
  Word <- MCWord
  ZeroWord = 0
  Decode <- MCDecode
  Writes <- MCWrites
  FullDuty = 100
  BootDuty = 20
  NaN = NaN
SPECIFICATION FairSpec
INVARIANTS TypeOK DutyFromCommands PassObeysRegisters CommandNotErased
PROPERTIES EnergisedAtNewDuty BridgeFollowsRegisters ImplementsMotorDrive
