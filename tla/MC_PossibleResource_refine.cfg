CONSTANTS
  HeaderSize <- MCHeaderSize
  Tables <- MCTables
  IrqBuffers <- MCIrqBuffers
SPECIFICATION FairSpec
PROPERTY ImplementsAbstract
CHECK_DEADLOCK FALSE
