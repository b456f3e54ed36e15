SPECIFICATION Spec
CONSTANTS
  HeaderSize = 2
  MaxPayload = 2
  MaxMessagesPerFeed = 2
  MaxFrames = 4
CHECK_DEADLOCK FALSE
INVARIANTS
  DecodesWhatWasWritten
  BatchNeverTooLarge
  EndVerdict
