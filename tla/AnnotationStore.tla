--------------------------- MODULE AnnotationStore ---------------------------
(***************************************************************************)
(* The file that keeps the user's names, comments and bookmarks of a file   *)
(* (PECore/Annotations.cpp; TotalPE/MainFrm.cpp, LoadAnnotations and        *)
(* SaveAnnotations).  A window reads it when it opens the file, has the     *)
(* annotations in memory, and writes them all after each change: into a     *)
(* file beside it, which takes its place.                                   *)
(*                                                                         *)
(* The windows may be of several processes, whose saves interleave, and     *)
(* which may end at any step.  The windows of one process share its thread: *)
(* what they do is among the behaviours in which no two saves overlap.      *)
(***************************************************************************)
EXTENDS Naturals, FiniteSets

CONSTANTS
  Windows,            \* that open the file
  Items,              \* what the user can add: a name, a type, a comment, a bookmark
  NoStore,               \* there is no such file
  Cut,                \* a file that is no JSON: written in part, or by two at once
  MaxEdits            \* bound: the changes the user makes

ASSUME FilesAreDistinct == NoStore # Cut /\ \A items \in SUBSET Items : items # NoStore /\ items # Cut
ASSUME MaxEditsIsNat == MaxEdits \in Nat

VARIABLES
  store,              \* m_Store: NoStore, Cut, or the annotations in it
  temp,               \* m_Store + ".new": the same, or {} (it was made, or cut to nothing)
  isOpen,             \* m_Annotations.IsOpen(), for each window
  annotations,        \* m_Annotations
  at,                 \* where the window is in Save
  told,               \* what its last Save returned
  edits,              \* (bounds the model)
  last,               \* history: the windows whose save the store is of
  stale,              \* history: the windows that have not what the store has
  removed,            \* history: what the user took away in each window
  overlapped,         \* history: two windows were in Save at once
  unseen              \* history: an error was met when the file was closed

fileVars == <<store, temp>>
windowVars == <<isOpen, annotations, at, told>>
seen == <<last, stale, removed, overlapped, unseen>>
vars == <<fileVars, windowVars, edits, seen>>

Places == {"idle", "save", "write", "move"}

TypeOK ==
  /\ store \in {NoStore, Cut} \cup SUBSET Items
  /\ temp \in {NoStore, Cut} \cup SUBSET Items
  /\ isOpen \in [Windows -> BOOLEAN]
  /\ annotations \in [Windows -> SUBSET Items]
  /\ at \in [Windows -> Places]
  /\ told \in [Windows -> BOOLEAN]
  /\ edits \in 0..MaxEdits
  /\ last \subseteq Windows
  /\ stale \subseteq Windows
  /\ removed \in [Windows -> SUBSET Items]
  /\ overlapped \in BOOLEAN
  /\ unseen \in BOOLEAN

Init ==
  /\ store \in {NoStore} \cup ((SUBSET Items) \ {{}})
  /\ temp = NoStore
  /\ isOpen = [w \in Windows |-> FALSE]
  /\ annotations = [w \in Windows |-> {}]
  /\ at = [w \in Windows |-> "idle"]
  /\ told = [w \in Windows |-> FALSE]
  /\ edits = 0
  /\ last = {}
  /\ stale = {}
  /\ removed = [w \in Windows |-> {}]
  /\ overlapped = FALSE
  /\ unseen = FALSE

-----------------------------------------------------------------------------
(* A window opens the file, or closes it *)

\* what a window has from here on, and that it saved nothing of it
Has(w, items) ==
  /\ annotations' = [annotations EXCEPT ![w] = items]
  /\ told' = [told EXCEPT ![w] = FALSE]
  /\ removed' = [removed EXCEPT ![w] = {}]

\* LoadAnnotations, of a file that is not hashed: it has none, and keeps none
LoadNothing(w) ==
  /\ at[w] = "idle"
  /\ isOpen' = [isOpen EXCEPT ![w] = FALSE]
  /\ Has(w, {})
  /\ UNCHANGED <<fileVars, at, edits, last, stale, overlapped, unseen>>

\* Annotations::Load: none yet, or what the store has
Loaded_Not == {}                                               \* (mutant: the store is not read)
Loaded == IF store = NoStore THEN {} ELSE store

Load(w) ==
  /\ at[w] = "idle"
  /\ store # Cut
  /\ isOpen' = [isOpen EXCEPT ![w] = TRUE]
  /\ Has(w, Loaded)
  /\ stale' = stale \ {w}
  /\ UNCHANGED <<fileVars, at, edits, last, overlapped, unseen>>

\* The store is there, and cannot be read, or is no JSON: the user is told, and the window
\* keeps its annotations there all the same.
LoadFails(w) ==
  /\ at[w] = "idle"
  /\ store # NoStore
  /\ isOpen' = [isOpen EXCEPT ![w] = TRUE]
  /\ Has(w, {})
  /\ stale' = stale \cup {w}
  /\ UNCHANGED <<fileVars, at, edits, last, overlapped, unseen>>

\* OnFileClose, ResetFileState: m_Annotations = {}
Close(w) ==
  /\ at[w] = "idle" /\ isOpen[w]
  /\ isOpen' = [isOpen EXCEPT ![w] = FALSE]
  /\ Has(w, {})
  /\ UNCHANGED <<fileVars, at, edits, last, stale, overlapped, unseen>>

-----------------------------------------------------------------------------
(* The user changes something: RenameFunction, ChangeVariable, EditComment, ToggleBookmark,
   SetBookmark, RemoveBookmark, RememberFunction; then SaveAnnotations *)

Add(w, i) ==
  /\ at[w] = "idle" /\ isOpen[w]
  /\ edits < MaxEdits /\ edits' = edits + 1
  /\ annotations' = [annotations EXCEPT ![w] = @ \cup {i}]
  /\ removed' = [removed EXCEPT ![w] = @ \ {i}]
  /\ at' = [at EXCEPT ![w] = "save"]
  /\ UNCHANGED <<fileVars, isOpen, told, last, stale, overlapped, unseen>>

TakeAway(w, i) ==
  /\ at[w] = "idle" /\ isOpen[w]
  /\ edits < MaxEdits /\ edits' = edits + 1
  /\ annotations' = [annotations EXCEPT ![w] = @ \ {i}]
  /\ removed' = [removed EXCEPT ![w] = @ \cup {i}]
  /\ at' = [at EXCEPT ![w] = "save"]
  /\ UNCHANGED <<fileVars, isOpen, told, last, stale, overlapped, unseen>>

-----------------------------------------------------------------------------
(* Annotations::Save *)

\* it returns, and goes on in the handler (with a message box, if it failed)
Returns(w, ok) ==
  /\ at' = [at EXCEPT ![w] = "idle"]
  /\ told' = [told EXCEPT ![w] = ok]

\* history: the store is what w saved
StoreIsOf(w) ==
  /\ last' = {w}
  /\ stale' = (Windows \ {w}) \cap {v \in Windows : isOpen[v]}

Empty_Misses(w) == Cardinality(annotations[w]) <= 1            \* (mutant: a kind is not looked at)
Empty(w) == annotations[w] = {}

\* nothing to keep: DeleteFile, whose result is not looked at
Delete(w) ==
  /\ at[w] = "save" /\ Empty(w)
  /\ store' = NoStore
  /\ StoreIsOf(w)
  /\ Returns(w, TRUE)
  /\ UNCHANGED <<temp, isOpen, annotations, edits, removed, overlapped, unseen>>

DeleteFails(w) ==
  /\ at[w] = "save" /\ Empty(w)
  /\ store # NoStore
  /\ Returns(w, TRUE)
  /\ UNCHANGED <<fileVars, isOpen, annotations, edits, seen>>

InFile(w) == at[w] \in {"write", "move"}

\* the folders are made, and std::ofstream opens (it lets others open it too) ...
OpenTemp(w) ==
  /\ at[w] = "save" /\ ~Empty(w)
  /\ temp' = {}
  /\ at' = [at EXCEPT ![w] = "write"]
  /\ overlapped' = (overlapped \/ \E v \in Windows \ {w} : InFile(v))
  /\ UNCHANGED <<store, isOpen, annotations, told, edits, last, stale, removed, unseen>>

\* ... or does not
OpenTempFails(w) ==
  /\ at[w] = "save" /\ ~Empty(w)
  /\ Returns(w, FALSE)
  /\ UNCHANGED <<fileVars, isOpen, annotations, edits, seen>>

\* What the file has when w has written: another may be writing too, or have written more
Written(w) ==
  {annotations[w]} \cup IF temp # {} \/ \E v \in Windows \ {w} : at[v] = "write" THEN {Cut} ELSE {}

\* out << ToJson(), and the file is closed
Write(w) ==
  /\ at[w] = "write"
  /\ temp' \in Written(w)
  /\ at' = [at EXCEPT ![w] = "move"]
  /\ UNCHANGED <<store, isOpen, annotations, told, edits, seen>>

\* if (!out) return false
SeesError_Not(w) == at' = [at EXCEPT ![w] = "move"] /\ UNCHANGED told   \* (mutant: it is not looked at)
SeesError(w) == Returns(w, FALSE)

WriteFails(w) ==
  /\ at[w] = "write"
  /\ temp' = Cut
  /\ SeesError(w)
  /\ UNCHANGED <<store, isOpen, annotations, edits, seen>>

\* What is still in the stream's buffer is written by its destructor, where an error (a full
\* disk) is not seen.
CloseFails(w) ==
  /\ at[w] = "write"
  /\ temp' = Cut
  /\ unseen' = TRUE
  /\ at' = [at EXCEPT ![w] = "move"]
  /\ UNCHANGED <<store, isOpen, annotations, told, edits, last, stale, removed, overlapped>>

\* MoveFileEx: not while another has the file open
Move(w) ==
  /\ at[w] = "move"
  /\ temp # NoStore
  /\ \A v \in Windows : at[v] # "write"
  /\ store' = IF temp = {} THEN Cut ELSE temp
  /\ temp' = NoStore
  /\ StoreIsOf(w)
  /\ Returns(w, TRUE)
  /\ UNCHANGED <<isOpen, annotations, edits, removed, overlapped, unseen>>

\* (something else may have the store open too)
MoveFails_Not(w) == Returns(w, TRUE) /\ StoreIsOf(w)            \* (mutant: its result is not looked at)
MoveFails(w) == Returns(w, FALSE) /\ UNCHANGED <<last, stale>>

CannotMove(w) ==
  /\ at[w] = "move"
  /\ MoveFails(w)
  /\ UNCHANGED <<fileVars, isOpen, annotations, edits, removed, overlapped, unseen>>

\* The window's process ends, wherever it is (a file it was writing may have a part of it)
Crash(w) ==
  /\ isOpen[w]
  /\ temp' \in {temp} \cup IF at[w] = "write" THEN {Cut} ELSE {}
  /\ isOpen' = [isOpen EXCEPT ![w] = FALSE]
  /\ at' = [at EXCEPT ![w] = "idle"]
  /\ Has(w, {})
  /\ UNCHANGED <<store, edits, last, stale, overlapped, unseen>>

Save(w) ==
  \/ Delete(w) \/ DeleteFails(w)
  \/ OpenTemp(w) \/ OpenTempFails(w)
  \/ Write(w) \/ WriteFails(w) \/ CloseFails(w)
  \/ Move(w) \/ CannotMove(w)

Next == \E w \in Windows :
  \/ LoadNothing(w) \/ Load(w) \/ LoadFails(w) \/ Close(w) \/ Crash(w)
  \/ \E i \in Items : Add(w, i) \/ TakeAway(w, i)
  \/ Save(w)

Spec == Init /\ [][Next]_vars

-----------------------------------------------------------------------------
(* Properties *)

Spoiled == overlapped \/ unseen

\* A process that ends in the middle of a save, or a write that fails, leaves a store that can
\* be read (Annotations.cpp, Save: the new file is written whole beside it): it takes two
\* processes that save at once, or an error that is met as the file is closed.
StoreIsWhole == ~Spoiled => store # Cut

\* What Save said it wrote is what the next window reads, until another window saves (a file
\* that lost its last annotation may keep its store: DeleteFile's result is not looked at).
SavedIsKept ==
  ~Spoiled => \A w \in last :
    isOpen[w] /\ told[w] /\ at[w] = "idle" /\ annotations[w] # {} => store = annotations[w]

\* A name goes from the store only because the user took it away in a window, or because a
\* window saved that did not have what the store had: another window of the file saved since it
\* read it, or it could not read it.
NothingIsLostUnlessStale ==
  [][\A w \in Windows, i \in Items :
       /\ ~Spoiled' /\ store # NoStore /\ at[w] \in {"save", "move"} /\ at'[w] = "idle" /\ isOpen'[w]
       /\ i \in store /\ (store' = NoStore \/ i \notin store')
       => w \in stale \/ i \in removed[w]]_vars

\* Annotations.cpp:88: "a failure leaves the old one as it was": the old one, which was read.
FailureLeavesTheOldOne == store # Cut

\* Refinement: the annotations are kept for the file, all of them or as they were.
KN == INSTANCE KeptNames WITH
        kept <- Loaded, has <- annotations, spoiled <- Spoiled

ImplementsKeptNames == KN!Spec
=============================================================================
