SPECIFICATION Spec
CONSTANTS
  Owners = {o1, o2}
  Contents = {good, infected, huge}
  Invalid = {huge}
  Flagged = {infected}
  None = None
  MaxUploads = 3
INVARIANTS EveryDocumentHasItsBlob NothingFlaggedIsPersisted
PROPERTY ImplementsStore
CHECK_DEADLOCK FALSE
