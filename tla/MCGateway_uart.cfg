SPECIFICATION Spec
CONSTANTS
  MaxTasks = 3
  MaxPieces = 2
  SelfTests = 0
  Origins <- UsbAndTcp
  Inputs <- SerialTexts
  Outputs <- SomeOutputs
  Echo = FALSE
  UartWorks = FALSE
CHECK_DEADLOCK FALSE
INVARIANT RemovalFindsNode
