CONSTANTS
  HeaderSize <- MCHeaderSize
  Tables <- MCDriverTables
  IrqBuffers <- MCDriverIrqBuffers
  SkipMeasurements = FALSE
  TpmInstances = {"DTPM20", "DTPM12"}
  PPVersions <- MCPPVersions
  ManufacturerIds <- MCManufacturerIds
  FirmwareVersions <- MCFirmwareVersions
  CapabilityResults <- MCCapabilityResults
  CurrentIrqNums = {0, 11}
  PcdIrqBuffers <- MCPcdIrqBuffers
  BytesPastEnd = {0}
  Tpm2Configs <- MCTpm2Configs
SPECIFICATION DSpec
INVARIANTS
  InstalledDiffersOnlyInPatchFields
  HidFieldPadded
  
PROPERTIES
  DriverTerminates
  MeasuredBeforeUpdate
CHECK_DEADLOCK FALSE
