\* Every type of message, cut anywhere; two frames in a stream, answers of up to 60 bytes.
CONSTANTS
  Messages <- MCMessages
  Requests <- MCRequests
  HandlerTypes <- MCHandlerTypes
  Answers <- MCAnswers
  UnknownFields <- MCUnknownFields
  None = None
  MaxRespDataSize = 60
  MaxFrames = 2
SPECIFICATION Spec
INVARIANTS
  SizesExact
  ReadAsWritten
  CutLosesOnlyTheEnd
\* What was sent has been read.
CHECK_DEADLOCK FALSE
