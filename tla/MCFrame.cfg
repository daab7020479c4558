\* Two openings: a thread of the first file may end, and its message come, while the second is
\* open.  Two files and one change for the dialogs.  Two kinds of work and four posts: the
\* thread's queue holds several pieces while one runs.
CONSTANTS
  MaxOpens = 2
  MaxFiles = 2
  MaxEdits = 1
  Work = {w1, w2}
  NoWork = idle
  MaxPosts = 4
SPECIFICATION FrameSpec
INVARIANT ThreadReadsOpenFile
INVARIANT AllOfOpenFile
INVARIANT XrefsComeOnce
PROPERTY ImplementsFileResults
PROPERTY NothingWaitsForEver
INVARIANT IndexIsCurrent
INVARIANT ResultsAreOfTheIndex
PROPERTY LastSearchIsMadeAgain
INVARIANT NoLostWakeup
PROPERTY ShutdownReturns
PROPERTY ImplementsSerialExecutor
