------------------------------ MODULE MCWindow ------------------------------
(* What a user of windows keeps, on small instances: the annotations of a    *)
(* file that several windows have open, the places visited in one, the list  *)
(* of a file's functions, and the recent files.  One of the four runs.       *)
EXTENDS AnnotationStore, NavigationHistory, FunctionsView, RecentFiles, TLC

VARIABLE part

WindowInit ==
  /\ \/ part = "names"
     \/ part \in {"places", "functions", "recent"} /\ store = NoStore
  /\ Init /\ NavigationInit /\ FunctionsInit /\ RecentInit

WindowNext ==
  \/ part = "names" /\ Next /\ UNCHANGED <<part, navigationVars, functionsVars, recentVars>>
  \/ part = "places" /\ NavigationNext /\ UNCHANGED <<part, vars, functionsVars, recentVars>>
  \/ part = "functions" /\ FunctionsNext /\ UNCHANGED <<part, vars, navigationVars, recentVars>>
  \/ part = "recent" /\ RecentNext /\ UNCHANGED <<part, vars, navigationVars, functionsVars>>

WindowSpec ==
  WindowInit /\ [][WindowNext]_<<part, vars, navigationVars, functionsVars, recentVars>>

\* (any unused handle is as good as another: see New)
Symmetry == Permutations(Handles)
=============================================================================
