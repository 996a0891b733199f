SPECIFICATION FairSpec
CONSTANTS
  MaxTasks = 3
  MaxPieces = 2
  SelfTests = 1
  Origins <- MqttAndTcp
  Inputs <- SomeTexts
  Outputs <- SomeOutputs
  Echo = TRUE
  UartWorks = TRUE
CHECK_DEADLOCK FALSE
INVARIANTS
  TypeOK
  RemovalFindsNode
  EveryTaskHasOnePlace
  AnsweredOnceWhereAsked
  AnswersInOrder
PROPERTY EveryTaskEnds
