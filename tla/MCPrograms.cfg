\* Three files, of every kind each; two directories with three names.  For the clusters, five
\* files (1024 graphs of close files) and two workers.  Two processes of the explorer, one version
\* of the metadata (with and without the WDK's), and two checks for a newer one.
CONSTANTS
  Count = 3
  N = 5
  Threads = {t1, t2}
  Scores = {0, 2}
  Threshold = 1
  Explorers = {e1, e2}
  Versions = {v1}
  Default = Default
  Other = Other
  MaxChecks = 2
SPECIFICATION ProgramsSpec
SYMMETRY Symmetry
INVARIANT ExitCodeTells
INVARIANT WrongIsWritten
INVARIANT ClustersAreStars
PROPERTY CenterIsClosestToMost
INVARIANT ChosenIsWhole
