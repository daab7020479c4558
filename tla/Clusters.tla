------------------------------ MODULE Clusters -------------------------------
(***************************************************************************)
(* The cluster command (TotalPE.Cli/main.cpp): FindClosePairs compares the *)
(* files on worker threads, each of which takes rows of the triangle and   *)
(* keeps what it finds until it ends; MakeClusters then takes the file     *)
(* that is close to the most others as a center, again and again.          *)
(* By TLSH: a score is a distance.  The files are in the order of their    *)
(* paths (ExpandInputs sorts them).                                        *)
(***************************************************************************)
EXTENDS Integers, Sequences, FiniteSets, FiniteSetsExt

CONSTANTS N,            \* how many files
          Threads,      \* the worker threads
          Scores,       \* the distances two files can have
          Threshold     \* files at most this far apart are close

ASSUME ClusterAssumptions == /\ N \in Nat
                             /\ Threads # {} /\ IsFiniteSet(Threads)
                             /\ Scores \subseteq Nat /\ Threshold \in Nat

Files == 0..(N - 1)
FilePairs == {p \in Files \X Files : p[1] < p[2]}

WorkerPlaces == {"test", "take", "compare", "handover", "ended"}

VARIABLES
  score,      \* the distance of each pair (the files' digests)
  cancel,     \* g_Cancel: Ctrl+C
  \* --- FindClosePairs
  next,       \* the row taken next
  worker,     \* [at, row] of each worker
  found,      \* what each worker has found
  closePairs,      \* what they handed over
  \* --- MakeClusters
  step,       \* "pairs", "cluster", "write" or "done"
  taken,      \* the files that are in a cluster
  open,       \* of each file, how many close ones are not yet in a cluster
  clusters,   \* [center, members], in the order they were made
  \* --- Cluster
  rows        \* what is written of each file (the CSV file, with -v): its cluster, or 0

clusteringVars == <<score, cancel, next, worker, found, closePairs, step, taken, open, clusters, rows>>

-----------------------------------------------------------------------------
\* Similarity
Score(a, b) == IF a < b THEN score[<<a, b>>] ELSE score[<<b, a>>]
IsClose(s) == s <= Threshold

\* close[i], from the pairs handed over
CloseOf(a) == {b \in Files : <<a, b>> \in closePairs \/ <<b, a>> \in closePairs}

ClustersInit ==
  /\ score \in [FilePairs -> Scores]
  /\ cancel = FALSE
  /\ next = 0
  /\ worker = [t \in Threads |-> [at |-> "test", row |-> 0]]
  /\ found = [t \in Threads |-> {}]
  /\ closePairs = {}
  /\ step = "pairs"
  /\ taken = {}
  /\ open = [f \in Files |-> 0]
  /\ clusters = <<>>
  /\ rows = <<>>

-----------------------------------------------------------------------------
(* FindClosePairs *)
clusterVars == <<step, taken, open, clusters, rows>>

ClustersCtrlHandler == /\ ~cancel
                       /\ cancel' = TRUE
                       /\ UNCHANGED <<score, next, worker, found, closePairs, clusterVars>>

\* !g_Cancel && (i = next++) < items.size(), the test first
TestCancel(t) ==
  /\ worker[t].at = "test"
  /\ worker' = [worker EXCEPT ![t].at = IF cancel THEN "handover" ELSE "take"]
  /\ UNCHANGED <<score, cancel, next, found, closePairs, clusterVars>>

Claim == next' = next + 1

AfterTake_Again(k) == IF k < N THEN "compare" ELSE "test"   \* (mutant: the loop does not end)
AfterTake(k) == IF k < N THEN "compare" ELSE "handover"

TakeRow(t) ==
  /\ worker[t].at = "take"
  /\ Claim
  /\ worker' = [worker EXCEPT ![t] = [at |-> AfterTake(next), row |-> next]]
  /\ UNCHANGED <<score, cancel, found, closePairs, clusterVars>>

\* the row: the files after it that are close to it
RowPairs(r) == {p \in FilePairs : p[1] = r /\ IsClose(score[p])}

CompareRow(t) ==
  /\ worker[t].at = "compare"
  /\ found' = [found EXCEPT ![t] = @ \cup RowPairs(worker[t].row)]
  /\ worker' = [worker EXCEPT ![t].at = "test"]
  /\ UNCHANGED <<score, cancel, next, closePairs, clusterVars>>

\* under the lock, at the end of the thread
HandOver(t) ==
  /\ worker[t].at = "handover"
  /\ closePairs' = closePairs \cup found[t]
  /\ worker' = [worker EXCEPT ![t].at = "ended"]
  /\ UNCHANGED <<score, cancel, next, found, clusterVars>>

-----------------------------------------------------------------------------
(* MakeClusters *)

AllJoined_First == \E t \in Threads : worker[t].at = "ended"   \* (mutant: not joined)
AllJoined == \A t \in Threads : worker[t].at = "ended"

StartClusters ==
  /\ step = "pairs"
  /\ AllJoined
  /\ step' = "cluster"
  /\ open' = [f \in Files |-> Cardinality(CloseOf(f))]
  /\ UNCHANGED <<score, cancel, next, worker, found, closePairs, taken, clusters, rows>>

\* the center: the first of the files with the most open ones
CentersNow_Any == {f \in Files \ taken : open[f] > 0}    \* (mutant: the best so far is not kept)
CentersNow == {f \in Files \ taken : open[f] > 0 /\ \A g \in Files \ taken : open[g] <= open[f]}
Center == Min(CentersNow)

Members_Chained(c) == {c} \cup (UNION {CloseOf(m) : m \in CloseOf(c)} \ taken)   \* (mutant: single linkage)
Members(c) == {c} \cup (CloseOf(c) \ taken)

\* of each file, the members it is close to are open no more
\* (mutant: one less, however many of them)
StillOpen(members) == [f \in Files |-> open[f] - Cardinality(CloseOf(f) \cap members)]

MakeCluster ==
  /\ step = "cluster"
  /\ CentersNow # {}
  /\ LET c == Center
         members == Members(c)
     IN /\ clusters' = Append(clusters, [center |-> c, members |-> members])
        /\ taken' = taken \cup members
        /\ open' = StillOpen(members)
  /\ UNCHANGED <<score, cancel, next, worker, found, closePairs, step, rows>>

\* no file is close to another that is open: the rest are singles
ClustersMade ==
  /\ step = "cluster"
  /\ CentersNow = {}
  /\ step' = "write"
  /\ UNCHANGED <<score, cancel, next, worker, found, closePairs, taken, open, clusters, rows>>

-----------------------------------------------------------------------------
(* Cluster: a row for each file, in the order in which clusters, members and *)
(* singles were sorted.                                                     *)

\* stable_sort: the largest first, else in the order they were made
SizeOf(k) == Cardinality(clusters[k].members)
Larger(j, k) == SizeOf(j) > SizeOf(k) \/ (SizeOf(j) = SizeOf(k) /\ j < k)
PlaceOf(k) == 1 + Cardinality({j \in 1..Len(clusters) : Larger(j, k)})

\* the members of a cluster: the center, then the closest first
Closer(c, a, b) == a = c \/ (b # c /\ (Score(c, a) < Score(c, b) \/ (Score(c, a) = Score(c, b) /\ a < b)))

\* the cluster of a file, as they were made, or 0
ClusterOf(f) == CHOOSE k \in 0..Len(clusters) : IF k = 0 THEN f \notin taken ELSE f \in clusters[k].members

RowBefore(a, b) ==
  LET k == ClusterOf(a)
      l == ClusterOf(b)
  IN \/ k # 0 /\ l = 0
     \/ k # 0 /\ l # 0 /\ Larger(k, l)
     \/ k # 0 /\ k = l /\ Closer(clusters[k].center, a, b)
     \/ k = 0 /\ l = 0 /\ a < b

RowOf(f) == [cluster |-> IF ClusterOf(f) = 0 THEN 0 ELSE PlaceOf(ClusterOf(f)), file |-> f]

NotWritten == Files \ {rows[n].file : n \in DOMAIN rows}
FirstOfThem == {f \in NotWritten : \A g \in NotWritten \ {f} : RowBefore(f, g)}

WriteRow ==
  /\ step = "write"
  /\ \E f \in FirstOfThem : rows' = Append(rows, RowOf(f))
  /\ UNCHANGED <<score, cancel, next, worker, found, closePairs, step, taken, open, clusters>>

AllWritten ==
  /\ step = "write"
  /\ NotWritten = {}
  /\ step' = "done"
  /\ UNCHANGED <<score, cancel, next, worker, found, closePairs, taken, open, clusters, rows>>

ClustersOver == step = "done" /\ UNCHANGED clusteringVars

WorkerStep(t) == TestCancel(t) \/ TakeRow(t) \/ CompareRow(t) \/ HandOver(t)

ClustersNext == \/ \E t \in Threads : WorkerStep(t)
                \/ ClustersCtrlHandler
                \/ StartClusters \/ MakeCluster \/ ClustersMade \/ WriteRow \/ AllWritten
                \/ ClustersOver

ClustersSpec == ClustersInit /\ [][ClustersNext]_clusteringVars

-----------------------------------------------------------------------------
(* Properties *)

ClustersTypeOK ==
  /\ score \in [FilePairs -> Scores]
  /\ cancel \in BOOLEAN
  /\ next \in 0..(N + Cardinality(Threads))
  /\ worker \in [Threads -> [at : WorkerPlaces, row : 0..(N + Cardinality(Threads))]]
  /\ found \in [Threads -> SUBSET FilePairs]
  /\ closePairs \in SUBSET FilePairs
  /\ step \in {"pairs", "cluster", "write", "done"}
  /\ taken \in SUBSET Files
  /\ open \in [Files -> Nat]
  /\ clusters \in Seq([center : Files, members : SUBSET Files])
  /\ rows \in Seq([cluster : 0..N, file : Files])

\* main.cpp:807: "Every file of a cluster is then close to its center", and no two files that
\* are close are both left out of the clusters.
Stars ==
  /\ \A k \in 1..Len(clusters) :
       \A m \in clusters[k].members \ {clusters[k].center} : IsClose(Score(clusters[k].center, m))
  /\ step \in {"write", "done"} /\ ~cancel => \A a, b \in Files \ taken : a # b => ~IsClose(Score(a, b))

\* Each file is in one row; and main.cpp:113, "Each cluster is a center and the files close to it: the
\* file close to the most others first, then the next of the files that are left": the clusters are
\* written in the order they were made, each one's center before its other members, and singles last.
RowsTell ==
  step = "done" =>
    /\ Len(rows) = N /\ \A f \in Files : \E n \in 1..N : rows[n].file = f
    /\ \A n \in 1..N : LET k == rows[n].cluster IN
         IF k = 0 THEN rows[n].file \notin taken
         ELSE /\ k <= Len(clusters) /\ rows[n].file \in clusters[k].members
              /\ \E m \in 1..n : rows[m].file = clusters[k].center
    /\ \A m, n \in 1..N : m < n /\ rows[n].cluster # 0 => rows[m].cluster \in 1..rows[n].cluster

\* The clusters are stars, and what is written of them says so.
ClustersAreStars == Stars /\ RowsTell

\* main.cpp:806: "the file that is close to the most others (not yet in a cluster) is a center".
CenterIsClosestToMost ==
  [][Len(clusters') > Len(clusters) =>
       LET new == clusters'[Len(clusters')]
       IN \A f \in Files \ taken : Cardinality(CloseOf(f) \ taken) < Cardinality(new.members)]_clusteringVars

\* main.cpp:774: FindClosePairs returns "the pairs of items that are close", of which the
\* clusters are made.
PairsAreAll == step # "pairs" => closePairs = {p \in FilePairs : IsClose(score[p])}
=============================================================================
