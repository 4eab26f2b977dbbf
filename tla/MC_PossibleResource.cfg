CONSTANTS
  HeaderSize <- MCHeaderSize
  Tables <- MCTables
  IrqBuffers <- MCIrqBuffers
INIT Init
NEXT Next
INVARIANTS
  PatchedTemplateWellFormed
  WritesStayInTemplate
  TemplateChoice
CHECK_DEADLOCK FALSE
