---------------------------- MODULE SearchDialogs ----------------------------
(***************************************************************************)
(* The search index of the open file and the dialogs that list its items   *)
(* (TotalPE/MainFrmSearch.cpp, SearchDlg.cpp, GoAnywhereDlg.cpp,           *)
(* GoToDlg.cpp).  Workers' results arrive as window messages at any        *)
(* moment, inside the loop of a modal dialog too, and change what the      *)
(* index is made of; the modeless Search All dialog is told, the modal     *)
(* ones are not.  OpenPE itself can wait in a message box, halfway from    *)
(* one file to the next, while that dialog searches.                       *)
(***************************************************************************)
EXTENDS Naturals

CONSTANTS MaxFiles,    \* bound: files opened
          MaxEdits     \* bound: names, comments and signatures the user adds

ASSUME BoundsAreNat == MaxFiles \in Nat /\ MaxEdits \in Nat

\* The results that change what the index's items are called.
NamingResults == {"symbols", "xrefs", "driver"}

\* What there is of a result: nothing, that of a file before the open one, or its own.
Told == {"none", "before", "now"}

VARIABLES
  target, files,    \* the open file (0: none), and how many were opened
  pe,             \* it is a PE file
  told,           \* what there is of each result
  due,            \* the results whose message would be taken (its generation is the frame's)
  warning,        \* OpenPE waits in LoadAnnotations' message box
  tree,           \* the file whose tree is shown (0: none)
  late,           \* the tree has a node of the catalog, of YARA or of a view opened since
  edits,          \* the version of what the user added
  index,          \* m_SearchIndex: [build (which of the builds there are rows of; 0: empty), of]
  valid,          \* m_SearchIndexValid
  dlg,            \* CSearchDlg: "none" (not made yet), "hidden" or "shown"
  text,           \* what its box has: "none", a text just "typed", or one "searched" for
  m_Index,        \* its m_Index is not null
  results,        \* the build its m_Results are indices of; 0 if it is empty
  again,          \* a WM_SEARCH_AGAIN is posted to it
  picker          \* the modal dialog: [kind, typed, timer, rows]

resultVars == <<told, due>>
treeVars == <<tree, late>>
fileVars == <<target, files, pe, told, due, warning, tree, late, edits>>
indexVars == <<index, valid>>
dialogVars == <<dlg, text, m_Index, results, again>>
searchVars == <<target, files, pe, told, due, warning, tree, late, edits, index, valid,
          dlg, text, m_Index, results, again, picker>>

-----------------------------------------------------------------------------
\* what the items are made of
Known == [target |-> target, told |-> told, tree |-> tree, late |-> late, edits |-> edits]
Sources == [target : Nat, told : [NamingResults -> Told], tree : Nat, late : BOOLEAN, edits : Nat]

Nothing == [r \in NamingResults |-> "none"]
Empty == [build |-> 0, of |-> [target |-> 0, told |-> Nothing, tree |-> 0, late |-> FALSE, edits |-> 0]]
NoPicker == [kind |-> "none", typed |-> FALSE, timer |-> FALSE, rows |-> 0]

DialogsTypeOK ==
  /\ files \in 0..MaxFiles /\ target \in 0..files
  /\ pe \in BOOLEAN
  /\ told \in [NamingResults -> Told] /\ due \subseteq NamingResults
  /\ warning \in BOOLEAN
  /\ tree \in 0..files /\ late \in BOOLEAN
  /\ edits \in 0..MaxEdits
  /\ index \in [build : Nat, of : Sources]
  /\ valid \in BOOLEAN
  /\ dlg \in {"none", "hidden", "shown"}
  /\ text \in {"none", "typed", "searched"}
  /\ m_Index \in BOOLEAN
  /\ results \in Nat
  /\ again \in BOOLEAN
  /\ picker \in [kind : {"none", "anywhere", "function"}, typed : BOOLEAN, timer : BOOLEAN, rows : Nat]

DialogsInit ==
  /\ target = 0 /\ files = 0 /\ pe = FALSE
  /\ told = Nothing /\ due = {} /\ warning = FALSE /\ tree = 0 /\ late = FALSE /\ edits = 0
  /\ index = Empty /\ valid = FALSE
  /\ dlg = "none" /\ text = "none" /\ m_Index = FALSE /\ results = 0 /\ again = FALSE
  /\ picker = NoPicker

-----------------------------------------------------------------------------
(* The index.  BuildSearchIndex reads the file, its results and the tree as the handler
   that asks has left them; no rows there are are of a build before it. *)
NewBuild == CHOOSE n \in 1..4 : n \notin {index.build, results, picker.rows}
Build ==
  /\ index' = [build |-> NewBuild, of |-> Known']
  /\ valid' = TRUE

\* GetSearchIndex: built again unless it is valid.
GetSearchIndex == IF valid THEN UNCHANGED indexVars ELSE Build

\* CSearchDlg::Search.  With nothing typed the list is emptied and no index is taken.
Search ==
  IF text # "none"
  THEN /\ GetSearchIndex
       /\ text' = "searched"
       /\ m_Index' = TRUE
       /\ results' = index'.build
  ELSE /\ results' = 0
       /\ UNCHANGED <<indexVars, text, m_Index>>

\* SearchTargetChanged: the index is dropped, and the results with it (CSearchDlg::Invalidate),
\* which are searched for again at once if the dialog is visible.
SearchAtOnce == dlg = "shown" /\ text # "none"
DropResults_Not == UNCHANGED <<m_Index, results>>     \* (mutant: the dialog is not told)
DropResults == m_Index' = FALSE /\ results' = 0
SearchTargetChanged ==
  IF SearchAtOnce
  THEN Build /\ text' = "searched" /\ m_Index' = TRUE /\ results' = index'.build
  ELSE /\ index' = Empty /\ valid' = FALSE
       /\ DropResults
       /\ UNCHANGED text

-----------------------------------------------------------------------------
(* The frame's handlers.  Commands are given when no modal dialog or box disables the frame. *)
Enabled == picker = NoPicker /\ ~warning

NewFile == files' = files + 1 /\ target' = files'

\* the tree is built of the open file, or emptied
NewTree == tree' = target' /\ late' = FALSE

\* what there is of the results is that of a file before, if it is not cleared
Before(cleared) ==
  [r \in NamingResults |-> IF r \in cleared \/ told[r] = "none" THEN "none" ELSE "before"]

\* OpenPE without a box of LoadAnnotations; OpenArchive, OpenObject, OpenElf (ResetFileState)
Open(isPE) ==
  /\ Enabled
  /\ files < MaxFiles
  /\ NewFile /\ NewTree
  /\ pe' = isPE
  /\ told' = Nothing
  /\ due' = IF isPE THEN NamingResults ELSE {}
  /\ UNCHANGED <<warning, edits, dlg, again, picker>>
  /\ SearchTargetChanged

\* OpenPE up to the box that LoadAnnotations shows: the file is the new one, what is shown and
\* found is as it was.  The references are cancelled, but a view in the box may ask for the new
\* file's (GetXrefs).
OpenWarns ==
  /\ Enabled
  /\ files < MaxFiles
  /\ NewFile
  /\ pe' = TRUE
  /\ told' = Before({"symbols"})
  /\ due' = due \cup {"xrefs"}
  /\ warning' = TRUE
  /\ UNCHANGED <<treeVars, edits, indexVars, dialogVars, picker>>

\* The rest of OpenPE, after the box: symbols that came in it are kept.
OpenGoesOn ==
  /\ warning
  /\ warning' = FALSE
  /\ told' = [Nothing EXCEPT !["symbols"] = told["symbols"]]
  /\ due' = NamingResults
  /\ UNCHANGED <<target, files, pe, edits, dlg, again, picker>>
  /\ NewTree
  /\ SearchTargetChanged

\* OpenPE, of a file that PEFile::Open does not take: the PE file that was open is closed,
\* and the handler returns.
OpenIsRefused ==
  /\ Enabled
  /\ target' = IF pe THEN 0 ELSE target
  /\ pe' = FALSE
  /\ told' = Before({})
  /\ due' = due \ {"xrefs"}
  /\ UNCHANGED <<files, warning, treeVars, edits, indexVars, dialogVars, picker>>

\* The generation of a driver's analysis is not raised here.
OnFileClose ==
  /\ Enabled
  /\ target # 0
  /\ target' = 0 /\ pe' = FALSE
  /\ told' = Before({"symbols"})
  /\ due' = due \cap {"driver"}
  /\ NewTree
  /\ UNCHANGED <<files, warning, edits, dlg, again, picker>>
  /\ SearchTargetChanged

\* SaveAnnotations, after a change by the user, and AddSignatures
Edit ==
  /\ Enabled
  /\ pe /\ edits < MaxEdits
  /\ edits' = edits + 1
  /\ UNCHANGED <<target, files, pe, resultVars, warning, treeVars, dlg, again, picker>>
  /\ SearchTargetChanged

\* Whose file a result is: what comes while the generations are those of the file before is
\* its, but for the references, asked for anew.
Of(r) == IF r # "xrefs" /\ (warning \/ target = 0) THEN "before" ELSE "now"

\* OnSymbolsLoaded, OnXrefsBuilt (with names found), OnDriverAnalyzed (with names): at any moment.
Learn_Quietly(r) == told' = [told EXCEPT ![r] = Of(r)] /\ UNCHANGED <<indexVars, text, m_Index, results>>   \* (mutant)
Learn(r) == told' = [told EXCEPT ![r] = Of(r)] /\ SearchTargetChanged

\* (OnDriverAnalyzed does not ask whether a file is open)
ResultArrives(r) ==
  /\ r \in due
  /\ pe \/ r = "driver"
  /\ due' = due \ {r}
  /\ UNCHANGED <<target, files, pe, warning, treeVars, edits, dlg, again, picker>>
  /\ Learn(r)

\* OnCatalogFound, UpdateYaraNode, a view opened or closed: a node comes or goes, and the index
\* stays as it is.
TreeChanges ==
  /\ tree # 0
  /\ late' = ~late
  /\ UNCHANGED <<target, files, pe, resultVars, warning, tree, edits, indexVars, dialogVars, picker>>

-----------------------------------------------------------------------------
(* The Search All dialog: modeless, usable beside a modal one. *)

\* OnShowWindow: a search whose results were dropped while the dialog was hidden is made
\* again, by a message (the dialog's controls are shown first).
AsksAgain_Never == FALSE                                \* (mutant)
AsksAgain == ~m_Index

\* OnEditSearchAll, or the owner is restored
Show ==
  /\ dlg # "shown"
  /\ dlg = "none" => Enabled
  /\ dlg' = "shown"
  /\ again' = (again \/ AsksAgain)
  /\ UNCHANGED <<fileVars, indexVars, text, m_Index, results, picker>>

\* OnCancel, or the owner is minimized
Hide ==
  /\ dlg = "shown"
  /\ dlg' = "hidden"
  /\ UNCHANGED <<fileVars, indexVars, text, m_Index, results, again, picker>>

Type ==
  /\ dlg = "shown"
  /\ text' \in {"none", "typed"}
  /\ UNCHANGED <<fileVars, indexVars, dlg, m_Index, results, again, picker>>

\* OnOK, OnOptionChanged
SearchNow ==
  /\ dlg = "shown"
  /\ UNCHANGED <<fileVars, dlg, again, picker>>
  /\ Search

OnSearchAgain ==
  /\ again
  /\ again' = FALSE
  /\ UNCHANGED <<fileVars, dlg, picker>>
  /\ Search

-----------------------------------------------------------------------------
(* The modal dialogs: Go Anywhere, which copies the items it lists, and the one that
   picks a function, which keeps pointers to them (Function::Item). *)

\* Update: the rows for what is typed (with nothing typed, copies of the functions opened last)
Rows(kind, typed) == IF kind = "function" /\ typed THEN index'.build ELSE 0

\* CGoAnywhereDlg and CDisassembleFunctionDlg, OnInitDialog
OpenPicker(kind, typed) ==
  /\ Enabled
  /\ target # 0
  /\ kind = "anywhere" => ~typed
  /\ UNCHANGED <<fileVars, dialogVars>>
  /\ GetSearchIndex
  /\ picker' = [kind |-> kind, typed |-> typed, timer |-> FALSE, rows |-> Rows(kind, typed)]

\* OnTextChanged: the rows are found again after a pause
TypeInPicker(typed) ==
  /\ picker.kind # "none"
  /\ picker' = [picker EXCEPT !.typed = typed, !.timer = TRUE]
  /\ UNCHANGED <<fileVars, indexVars, dialogVars>>

\* OnTimer, or a key that moves in the list before it: Update
UpdatePicker ==
  /\ picker.timer
  /\ UNCHANGED <<fileVars, dialogVars>>
  /\ IF picker.typed THEN GetSearchIndex ELSE UNCHANGED indexVars
  /\ picker' = [picker EXCEPT !.timer = FALSE, !.rows = Rows(picker.kind, picker.typed)]

\* OnOK (a pending Update is made first) or OnCancel
ClosePicker(ok) ==
  /\ picker.kind # "none"
  /\ UNCHANGED <<fileVars, dialogVars>>
  /\ IF ok /\ picker.timer /\ picker.typed THEN GetSearchIndex ELSE UNCHANGED indexVars
  /\ picker' = NoPicker

-----------------------------------------------------------------------------
DialogsNext ==
  \/ \E isPE \in BOOLEAN : Open(isPE)
  \/ OpenWarns \/ OpenGoesOn \/ OpenIsRefused \/ OnFileClose \/ Edit
  \/ \E r \in NamingResults : ResultArrives(r)
  \/ TreeChanges
  \/ Show \/ Hide \/ Type \/ SearchNow \/ OnSearchAgain
  \/ \E kind \in {"anywhere", "function"}, typed \in BOOLEAN : OpenPicker(kind, typed)
  \/ \E typed \in BOOLEAN : TypeInPicker(typed)
  \/ UpdatePicker
  \/ \E ok \in BOOLEAN : ClosePicker(ok)

\* The message loop (a modal dialog's too) dispatches what is posted.
DialogsSpec == DialogsInit /\ [][DialogsNext]_searchVars
DialogsFairness == WF_searchVars(OnSearchAgain)
FairDialogsSpec == DialogsSpec /\ DialogsFairness

-----------------------------------------------------------------------------
(* Properties *)

\* Between the handlers, a valid index is made of the open file and of all that is known about
\* it: whatever result comes, whenever, has it built again (MainFrm.h:561), and no index built
\* while OpenPE waited in its box, of the new file with the tree and the names of the one before,
\* outlives OpenPE.  The code promises it neither in that box, nor of the nodes that came to the
\* tree or left it since.
IndexIsCurrent == valid /\ target # 0 /\ ~warning => [index.of EXCEPT !.late = late] = Known

\* The rows of the Search All list are items of the index there is: the list asks for their
\* texts at any time (LVN_GETDISPINFO), by their numbers in it.
ResultsAreOfTheIndex == results # 0 => m_Index /\ valid /\ results = index.build

\* What was searched for is searched for again when the dialog is shown, if what changed while
\* it was hidden dropped the results (SearchDlg.cpp:47): it is not left with an empty list.
LeftWithout == dlg = "shown" /\ text = "searched" /\ ~m_Index
LastSearchIsMadeAgain == LeftWithout ~> ~LeftWithout

\* GoToDlg.h:45: the picker lists "the functions whose names match what is typed ... (those of
\* the exports and of the symbols ...)": its rows are items of the index.
FunctionRowsAreOfTheIndex == picker.rows # 0 => picker.rows = index.build
=============================================================================
