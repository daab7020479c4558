\* One view of one file: the sessions, requests and questions in progress end.
CONSTANTS
  Views = {v1}
  MaxFiles = 1
  MaxSessions = 2
  MaxRequests = 2
  MaxNames = 1
SPECIFICATION FairSpec
PROPERTY PendingSettles
PROPERTY CloseCompletes
PROPERTY OldSessionGoes
