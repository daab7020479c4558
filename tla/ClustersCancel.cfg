\* Ctrl+C while the pairs are found.
CONSTANTS
  N = 3
  Threads = {t1, t2}
  Scores = {0, 2}
  Threshold = 1
SPECIFICATION ClustersSpec
INVARIANT PairsAreAll
