CONSTANTS
  Contents <- MCContents
  Arguments <- MCArguments
  Texts <- MCTexts
  MaxPackets = 2
  MaxMessages = 4
SPECIFICATION Spec
INVARIANTS
  ReadAsGiven
  MessagesAccounted
CHECK_DEADLOCK FALSE
