CONSTANTS
  Views = {v1}
  MaxFiles = 1
  MaxSessions = 2
  MaxRequests = 2
  MaxNames = 1
SPECIFICATION FairSpec
INVARIANT NothingReadOfClosedFile
