CONSTANTS
  MaxDown = 2
  MaxUp = 2

SPECIFICATION SessionSpec
CHECK_DEADLOCK FALSE

INVARIANTS
  FramesIntact
PROPERTIES
  StopUnblocks
  AnswersUnlessWedged
