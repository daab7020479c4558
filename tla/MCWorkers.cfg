\* Three workers and four items: a worker does several, and one may find none left.  Two files and
\* two scans: the first goes on while the second is open, or scanned; two sets of rules.
CONSTANTS
  Count = 4
  Threads = {t1, t2, t3}
  Paths = {p1, p2}
  None = none
  MaxOpens = 2
  MaxScans = 2
  MaxChoices = 1
  MaxPolls = 2
SPECIFICATION WorkersSpec
INVARIANT ItemTakenOnce
INVARIANT SleepsWhileNotified
PROPERTY ImplementsOrderedOutput
PROPERTY Returns
INVARIANT ScansAreOfOpenFile
INVARIANT RunningScanIsTold
PROPERTY ScanEnds
