\* Two views, two files, two sessions of one file or of two, a rename, two requests.
CONSTANTS
  Views = {v1, v2}
  MaxFiles = 2
  MaxSessions = 2
  MaxRequests = 2
  MaxNames = 1
SPECIFICATION Spec
SYMMETRY Symmetry
INVARIANT WorkIsOfOpenFile
INVARIANT RenameIsSeen
INVARIANT SettledViewShowsLatest
PROPERTY LastReferenceGoesOnThread
PROPERTY ViewMovesOn
