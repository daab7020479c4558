---------------------------- MODULE FunctionsView ----------------------------
(***************************************************************************)
(* The list of a file's functions (TotalPE/FunctionsView.cpp): made of     *)
(* what the file tells, of its symbols, which a thread of the view reads   *)
(* and posts, of the cross-references, and of the names of the user and of *)
(* the signatures.  It is built again when the frame learns of one of      *)
(* them, and the view itself is made again when symbols arrive.            *)
(*                                                                         *)
(* A name is saved before the views are told of it: when that fails a      *)
(* message box is shown, whose loop dispatches what was posted.  A view of *)
(* the file before, in the box of OpenPE, is closed as OpenPE goes on, and *)
(* is left out.                                                            *)
(***************************************************************************)
EXTENDS Naturals

CONSTANTS
  MaxViews,           \* bound: how many views are made
  MaxNamings          \* bound: how often something is named

ASSUME FunctionsBoundsAreNat == {MaxViews, MaxNamings} \subseteq Nat

VARIABLES
  symbolsOpen,        \* m_Symbols
  xrefsReady,         \* m_XrefsReady
  named,              \* m_Annotations.Functions, m_LibraryNames: how often they were changed
  naming,             \* RenameFunction shows that the names could not be saved
  view,               \* the view that is open, or 0
  viewsMade,
  known,              \* m_Known has the symbols' functions
  items,              \* what m_Items was built of
  cancelled,          \* the views that set the flag their thread looks at
  readers,            \* the threads that read symbols
  posted              \* the views WM_SYMBOL_FUNCTIONS was posted to

frameKnows == <<symbolsOpen, xrefsReady, named, naming>>
viewHas == <<view, viewsMade, known, items>>
functionsVars == <<frameKnows, viewHas, cancelled, readers, posted>>

MadeViews == 1..MaxViews
Built == [symbols : BOOLEAN, xrefs : BOOLEAN, named : Nat]
NotBuilt == [symbols |-> FALSE, xrefs |-> FALSE, named |-> 0]

FunctionsTypeOK ==
  /\ symbolsOpen \in BOOLEAN
  /\ xrefsReady \in BOOLEAN
  /\ named \in 0..MaxNamings
  /\ naming \in BOOLEAN
  /\ view \in 0..MaxViews
  /\ viewsMade \in 0..MaxViews
  /\ known \in BOOLEAN
  /\ items \in Built
  /\ cancelled \subseteq MadeViews
  /\ readers \subseteq [view : MadeViews, at : {"read", "post"}]
  /\ posted \subseteq MadeViews

FunctionsInit ==
  /\ symbolsOpen = FALSE /\ xrefsReady = FALSE
  /\ named = 0 /\ naming = FALSE
  /\ view = 0 /\ viewsMade = 0
  /\ known = FALSE /\ items = NotBuilt
  /\ cancelled = {} /\ readers = {} /\ posted = {}

-----------------------------------------------------------------------------
(* The view *)

\* Build, with what it knows of the symbols and what the frame knows
ItemsOf(symbols, xrefs, n) == [symbols |-> symbols, xrefs |-> xrefs, named |-> n]

\* XrefsChanged, AnnotationsChanged: of the view, if it is open
Build(xrefs, n) == items' = IF view = 0 THEN items ELSE ItemsOf(known, xrefs, n)

CancelReader == cancelled' = cancelled \cup ({view} \ {0})

\* OnCreate: Collect and Build, over symbols or none
Create(symbols) ==
  /\ viewsMade < MaxViews
  /\ viewsMade' = viewsMade + 1
  /\ view' = viewsMade + 1
  /\ known' = FALSE
  /\ items' = ItemsOf(FALSE, xrefsReady, named)
  /\ readers' = readers \cup IF symbols THEN {[view |-> viewsMade + 1, at |-> "read"]} ELSE {}

\* OnDestroy; what was posted to the window goes with it
Destroyed ==
  /\ CancelReader
  /\ posted' = posted \ {view}

Gone ==
  /\ view' = 0
  /\ known' = FALSE
  /\ items' = NotBuilt

\* ShowView, of a view that is not there
ShowFunctions ==
  /\ ~naming /\ view = 0
  /\ Create(symbolsOpen)
  /\ UNCHANGED <<frameKnows, cancelled, posted>>

\* CloseTab
CloseFunctions ==
  /\ ~naming /\ view # 0
  /\ Destroyed /\ Gone
  /\ UNCHANGED <<frameKnows, viewsMade, readers>>

\* The thread ends (when it is cancelled it ends early): if (!*cancel ...
ReadEnds(r) ==
  /\ r.at = "read"
  /\ readers' = (readers \ {r}) \cup IF r.view \in cancelled THEN {} ELSE {[r EXCEPT !.at = "post"]}
  /\ UNCHANGED <<frameKnows, viewHas, cancelled, posted>>

\* ... && PostMessage(...): to a window that is there
PostFunctions(r) ==
  /\ r.at = "post"
  /\ readers' = readers \ {r}
  /\ posted' = IF r.view = view THEN posted \cup {view} ELSE posted
  /\ UNCHANGED <<frameKnows, viewHas, cancelled>>

\* the names and sizes of the symbols, and Build
Learned == known' = TRUE /\ items' = ItemsOf(TRUE, xrefsReady, named)

OnSymbolFunctions ==
  /\ view \in posted
  /\ posted' = posted \ {view}
  /\ Learned
  /\ UNCHANGED <<frameKnows, view, viewsMade, cancelled, readers>>

-----------------------------------------------------------------------------
(* The frame *)

\* RefreshViews: the view, if it is there, is destroyed and made again
Refresh_Not == UNCHANGED <<viewHas, cancelled, readers, posted>>   \* (mutant)
Refresh ==
  IF view = 0 THEN UNCHANGED <<viewHas, cancelled, readers, posted>>
  ELSE Destroyed /\ Create(TRUE)

\* OnSymbolsLoaded (bound: where the view can be made again)
SymbolsArrive ==
  /\ ~symbolsOpen
  /\ symbolsOpen' = TRUE
  /\ Refresh
  /\ UNCHANGED <<xrefsReady, named, naming>>

\* OnXrefsBuilt: the functions of libraries that are found with them, then XrefsChanged
XrefsArrive ==
  /\ ~xrefsReady
  /\ xrefsReady' = TRUE
  /\ named' \in {n \in {named, named + 1} : n <= MaxNamings}
  /\ Build(TRUE, named')
  /\ UNCHANGED <<symbolsOpen, naming, view, viewsMade, known, cancelled, readers, posted>>

\* RenameFunction: the name, SaveAnnotations (which may fail), NotifyAnnotationsChanged
RenameFunction ==
  /\ ~naming /\ named < MaxNamings
  /\ named' = named + 1
  /\ \/ naming' = TRUE /\ UNCHANGED items
     \/ Build(xrefsReady, named + 1) /\ UNCHANGED naming
  /\ UNCHANGED <<symbolsOpen, xrefsReady, view, viewsMade, known, cancelled, readers, posted>>

\* The box is closed: the views are told
NotifyAnnotationsChanged ==
  /\ naming
  /\ naming' = FALSE
  /\ Build(xrefsReady, named)
  /\ UNCHANGED <<symbolsOpen, xrefsReady, named, view, viewsMade, known, cancelled, readers, posted>>

\* Signatures are made of libraries: the functions they name, and AnnotationsChanged
AddSignatures ==
  /\ ~naming /\ named < MaxNamings
  /\ named' = named + 1
  /\ Build(xrefsReady, named + 1)
  /\ UNCHANGED <<symbolsOpen, xrefsReady, naming, view, viewsMade, known, cancelled, readers, posted>>

\* OpenPE, with what follows it; OnFileClose: CloseFileViews, and nothing is known
OtherFile ==
  /\ ~naming
  /\ symbolsOpen' = FALSE /\ xrefsReady' = FALSE /\ named' = 0
  /\ IF view = 0 THEN UNCHANGED <<cancelled, posted>> ELSE Destroyed
  /\ Gone
  /\ UNCHANGED <<naming, viewsMade, readers>>

FunctionsNext ==
  \/ ShowFunctions \/ CloseFunctions \/ OnSymbolFunctions
  \/ \E r \in readers : ReadEnds(r) \/ PostFunctions(r)
  \/ SymbolsArrive \/ XrefsArrive
  \/ RenameFunction \/ NotifyAnnotationsChanged \/ AddSignatures \/ OtherFile

FunctionsSpec == FunctionsInit /\ [][FunctionsNext]_functionsVars

-----------------------------------------------------------------------------
(* Properties *)

\* The functions are shown "from all that tells of them": a list that is open was built of the
\* cross-references and names there are, and of the symbols, unless they are still on their way
\* to this view (in the box the view waits to be told of a name).
OnTheWay == view \in posted \/ \E r \in readers : r.view = view /\ view \notin cancelled
FunctionsAreCurrent ==
  view # 0 => /\ items.xrefs = xrefsReady
              /\ ~naming => items.named = named
              /\ items.symbols = known
              /\ symbolsOpen => known \/ OnTheWay
              /\ known => symbolsOpen
=============================================================================
