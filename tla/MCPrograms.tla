----------------------------- MODULE MCPrograms -----------------------------
(* The programs beside TotalPE on small instances: a process of the command  *)
(* line runs a command, of which the run of its files is abstract            *)
(* (Commands), or finds the clusters, in detail (Clusters); or processes of  *)
(* the Windows API explorer choose and install its metadata.                *)
EXTENDS Commands, Clusters, ApiExplorer, TLC

VARIABLE part

\* The one that does not run has one of its initial states.
NoCommand ==
  /\ command = "info"
  /\ item = [k \in Items |-> CHOOSE i \in Inputs("info") : TRUE]
  /\ problems = FALSE /\ full = FALSE
  /\ wants \in Wants("info")
NoScores == score = [p \in FilePairs |-> CHOOSE s \in Scores : TRUE]

ProgramsInit ==
  /\ \/ part = "commands" /\ NoScores
     \/ part = "clusters" /\ NoCommand
     \/ part = "metadata" /\ NoCommand /\ NoScores
  /\ Init /\ ClustersInit /\ ExplorerInit

ProgramsNext ==
  \/ part = "commands" /\ Next /\ UNCHANGED <<part, clusteringVars, explorerVars>>
  \/ part = "clusters" /\ ClustersNext /\ UNCHANGED <<part, vars, explorerVars>>
  \/ part = "metadata" /\ ExplorerNext /\ UNCHANGED <<part, vars, clusteringVars>>

ProgramsSpec == ProgramsInit /\ [][ProgramsNext]_<<part, vars, clusteringVars, explorerVars>>

Symmetry == Permutations(Threads)
=============================================================================
