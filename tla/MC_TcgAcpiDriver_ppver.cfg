CONSTANTS
  HeaderSize <- MCHeaderSize
  Tables <- MCDriverTables
  IrqBuffers <- MCDriverIrqBuffers
  SkipMeasurements = FALSE
  TpmInstances = {"DTPM20", "DTPM12"}
  PPVersions <- MCPPVersions
  ManufacturerIds <- MCManufacturerIds
  FirmwareVersions <- MCFirmwareVersions
  CapabilityResults <- MCCapabilityResults
  CurrentIrqNums = {0, 11}
  PcdIrqBuffers <- MCPcdIrqBuffers
  BytesPastEnd = {0}
  Tpm2Configs <- MCTpm2Configs
SPECIFICATION DSpec
CHECK_DEADLOCK FALSE
INVARIANT PPVersionPatchedPerSpec
