SPECIFICATION FairSpec
CONSTANTS
  Null = Null
  BufferSize <- MCBufferSize
  Clean <- MCClean
  Leading <- MCLeading
  Shorter <- MCShorter
  CutPoints <- MCCutPoints
  Dummies <- MCDummies
  NoIdentity = "ofNothing"
  Numbers <- MCNumbers
  FirstFiles <- MCFirstFiles
  GeneralArgs <- MCGeneral
  NtpArgs <- MCNtp
  ApnArgs <- MCApn
  SnArgs <- MCSn
  SerialArgs <- MCSerial
  Modems <- MCModems
  Garbage <- MCGarbage
  MaxEvents = 2
CHECK_DEADLOCK FALSE
INVARIANTS TypeOK CopyKeepsOthers WrittenIsKept MemoryIsFile
PROPERTIES ZoneFollows
