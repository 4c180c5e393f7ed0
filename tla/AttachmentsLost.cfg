SPECIFICATION Spec
CONSTANTS
  UserNames = {"u"}
  MaxBody = 80
  MaxSource = 8
  Codec <- MCCodec
  Asks <- MCAsks
  Foreign <- MCForeign
  Letters <- MCLetters
  Signatures <- MCSignatures
  MaxLetters = 2
CHECK_DEADLOCK FALSE
INVARIANT EveryAttachmentArrives
