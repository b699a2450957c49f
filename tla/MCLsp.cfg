SPECIFICATION FairSpec
CONSTANTS
  Docs = {d1, d2}
  Capacity = 1
  CancelLimit = 1
  MaxEdits = 0
  MaxRequests = 2
  None = None
PROPERTIES CancelIsHonoured
