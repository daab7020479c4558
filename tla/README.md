# TotalPE in TLA+

Specifications of the core of TotalPE (a viewer of PE files for Windows, its command line and the
Windows API explorer) that runs on several threads or in several processes, or that goes through
states; their model checking with TLC on small instances, and proofs with TLAPS of what holds for
every value of the constants.  Paths below are under `src/`; `M` is `TotalPE/MainFrm.cpp`.

Contents: 1 the system, 2 its hard behaviours, 3 the modules and the code, 4 the runs, 5 fairness,
6 the proofs, 7 disagreements of the code with its comments, 8 what is left out, 9 what could follow.

## 1. The system

| Component | State it keeps | Operations | Correct when |
|---|---|---|---|
| Frame (`MainFrm.cpp`, `.h`) | the open file `m_PE`, views, results of workers, their generations and cancel flags | open, close, commands, handlers of posted messages | all it shows is of the open file |
| Decompiler's thread (`DecompilerThread`) | `m_Queue`, `m_Stop`, `m_Done` under one lock | `Post`, `Shutdown`, `Run` | one piece of work at a time, in order; the process can end |
| Decompiler's sessions (`CMainFrame::DecompilerSession`) | the decompiler of one file: `Closed`, `Stale`, the lock `Image` | `Open`, `Ask`, `DecompileAsync`, `OnDecompiled`, `CloseDecompiler`, `RenameFunction` | nothing of a closed file is read or shown; each view ends with its latest code |
| Cross-references (`StartXrefs`, `CancelXrefs`, `WithXrefs`) | the joined thread, `m_Xrefs`, `m_XrefsReady`, `m_AfterXrefs` | start, cancel, wait for, take | the thread never outlives the file it reads; a question is answered once |
| Symbols and catalog (`StartSymbolLoad`, `StartCatalogLookup`) | `m_Symbols`, `m_Catalog` and generations | detached threads, one message each | a late result of an old file is dropped |
| VirusTotal (`PECore/VirusTotal.cpp`, `M` 5005-5115) | status, generation, cancel flag | hash, look up, upload, poll; cancel | the status is the open file's, and the scan ends |
| YARA rules (`M` 5177-5375) | the setting `YaraRules`, the rules loaded, the matches | load, match, choose, clear | the matches are of the file and of the rules shown |
| Search index and dialogs (`MainFrmSearch.cpp`, `SearchDlg`, `GoAnywhereDlg`, `GoToDlg`) | `m_SearchIndex`, `m_SearchIndexValid`, the dialogs' rows | build, drop, search, pick | the rows are of the index there is |
| Functions view (`FunctionsView.cpp`) | the list, the symbols its thread reads | build again when something is learned | the list tells all that is known |
| Tabs and history (`DockViews.cpp`, `M` 5449-5528) | pages, the active one, `m_Views`, `m_Views2`, `m_History`, `m_HistoryIndex` | open, focus, close, refresh a view; Back, Forward, go to a position | the maps agree; Back comes to where the user was |
| Annotations (`PECore/Annotations.cpp`, `M` 4159-4435) | what a window has of a file's names, comments, bookmarks; the store, a file | load, change, save whole | what was saved is there, unless another window wrote |
| Recent files (`RecentFilesManager.cpp`) | a list in the registry, and a setting of each process | add, remove, save at exit | a file is forgotten only when it must |
| Command line (`TotalPE.Cli/main.cpp`, `Inputs.cpp`) | `g_Cancel`, slots, workers, counts | `info`, `scan`, `check`, `diff`, `cluster` over `RunOrdered`, `FindClosePairs`, `MakeClusters` | output in the order of the input; exit codes that say what happened; clusters as described |
| Windows API explorer (`Win32ApiExplorer`, `MetadataPackages.cpp`) | the metadata's folder, settings, a thread, message boxes | choose, look for, install, start again | what the settings name can be read at the next start |
| Parsers, analyses, decompiler, controls | data | read, compute, draw | what they compute |

How they interact:

* The frame's thread owns nearly everything.  Handlers run one at a time from its message loop;
  a modal dialog or a message box has a loop of its own that dispatches the posted messages while
  the frame is disabled (its commands cannot be given, its messages still come).
* Workers talk to the frame with `PostMessage`: `WM_XREFS_BUILT`, `WM_SYMBOLS_LOADED`,
  `WM_CATALOG_FOUND`, `WM_YARA_DONE`, `WM_VT_STATUS`, `WM_DECOMPILED`, `WM_DRIVER_ANALYZED`.  A result
  may be dispatched long after it was posted, so each kind has a *generation* (or an id) that the
  frame raises when the file goes; an old one is dropped.
* The decompiler's thread also uses `SendMessage` (`WM_DECOMPILER_ASK`), and so waits for the frame,
  while the frame may wait for the lock `Image`, or for a thread in `join`.
* A view that becomes active tells the frame from inside the call that opened or closed a page.
* The windows of one process share the decompiler's thread and the settings; all processes share
  the registry, the stores of annotations and the folders of metadata, with no lock.
* On the command line, workers share a counter, slots under a mutex, and a flag that the console's
  handler thread sets without the mutex.

## 2. What is hard here

Every one of these is an entry of `hazards` in `PROJECT.json`, with its line and the properties
that would catch it.

* *Interleaving*: a notification after the unlock and a worker that is about to sleep; Ctrl+C between
  a predicate and the sleep; the cancel flag tested, then a message posted; a thread that reads `m_PE`
  without a lock while the frame closes it; two windows that write the same store or list.
* *Stale state*: results of a file that was closed or replaced; a session that was made stale and is
  not the frame's any more when its file is closed; rows that point into an index that is dropped; a
  message box in the middle of `OpenPE`.
* *Deadlock*: the frame in `join` or at the lock, the worker in `SendMessage`.
* *Ordering*: renames against a decompiler being made; a view that asks again before it was answered;
  a page that is active before its position is set.
* *Protocol sequences*: a history with entries of tabs that were closed; a view made again while its
  thread reads symbols for the one before.
* *Crashes*: a process that ends while it writes a store, or a version of the metadata.
* *Time-outs*: `Shutdown`'s bounded wait against the worker's end; polling for the analysis for
  15 minutes.
* *Partial failure*: a file that does not open after the one before was closed; a search for pairs that
  is cancelled half way; a disk that is full when a stream is closed.

## 3. The modules and the code

### SerialExecutor, DecompilerThread (`TotalPE/DecompilerThread.cpp`)

`SerialExecutor` is what the thread promises: `todo`, `now`, `ended`, with `Submit`, `Start`, `Finish`,
`End`.  `DecompilerThread` is the code: one action for each critical section of `m_Lock`, and one for
`notify_one`, which is called after the unlock (`Notify`).  `worker` and `caller` say where each thread
is.  `m_Ready` is one condition variable for two waits: `WakeWorker` and `MarkDone` wake who is in its
wait set, `SpuriousWake` needs nobody.  `ShutdownTimeout` is the time-out of `wait_for`; after it the
frame's thread goes on without the worker (`detached`).  The refinement maps `todo` to `m_Queue`,
`now` to `work`, and `ended` to a worker that left its loop.

### DecompilerSession (`M` 802-937, 3566-4310, 1325-1396, 388-414)

The frame and the decompiler's thread as the serial executor, whose operators it uses for every
post and every piece of work, so it is built on what `DecompilerThread` is shown to implement.

* `sess[s]` is a session (its file, `Closed`, `Stale`, whether the decompiler was made, and the version
  of the user's names it has).  References to a session are `m_Decompiler`, the work in progress and
  the closures in `todo`: a piece of work of kind `drop` is the closure that `CloseDecompiler` posts only
  to let go of its reference there.
* `phase` and `io` are where the work in progress is: `Open` (asks, at the end, for the names),
  `reading` (has `Image` shared), `asking`/`names` (in `SendMessage`), `post`.
* `CloseDecompilerBegin(why)` .. `CloseDecompilerEnd` are a handler that closes the file (`OpenPE` that
  opens or fails, `OnFileClose`, `ResetFileState` for other kinds of files, `OnDestroy`): the frame
  takes no message between them, because it may wait for `Image` (`ImageFree`).
* Requests have an id, `pending` and `cancelled` are those of `m_PendingDecompiles` and the `Cancel`
  flags.  `refresh` is the loop of `RedecompileViews`, one view per step.
* `OnDriverAnalyzed` and `OnXrefsBuilt` are there for what they do to the session.

### FileResults, OpenFile (`M` 1325-1509, 2008-2045, 4159-4170, 5123-5173, 5381-5390, 5652-5788)

`FileResults` is the promise: what is found is of the file shown, stays until it is closed, goes with
it.  In `OpenFile` a handler that closes the file is `CancelBegin(handler)` (the flag is set, then
`join`) and then, once the thread has ended, the end of the handler.  `OpenPE` that opens has three
ends: the new file is read, then `LoadAnnotations` may show a message box (`frame = "box"`), whose loop
dispatches messages while the new file is open and its workers are not started; the rest of `OpenPE`
follows.  The thread of the cross-references builds, tests the flag, posts (`BuildEnds`, `CheckCancel`,
`PostXrefs`: three steps, since the flag may be set between any two).  `loading` holds the detached
threads, which may end at any later time; `inbox` is a set, because messages of different threads come
in any order.  `WithXrefs` is a question asked by the user before there are cross-references
(`MayAsk`: also one for which a thread must be started).

### FileScans (`PECore/VirusTotal.cpp` 348-606, `M` 5026-5375)

Two features that share only the file: a behaviour has one of them (`user`), which loses nothing,
because no step of one reads the state of the other, and keeps the state space small.

* VirusTotal: each thread in `scans` is at `tell` (the status is set and its message posted, with the
  flag tested before), or at work in a phase.  `After` is the order of the phases, `Polls` the
  rounds of asking, `GivesUp` the end by time or by an error, which is always told.
* YARA: `StartYara` starts a thread that loads the rules, if they are not loaded, and matches them;
  `OnYaraDone` takes what it posts, `ChooseRules`, `ClearRules` and `ResetYara` are the user's and the
  file's.  `OtherWindow` is a second window that changes the same setting.

### SearchDialogs (`MainFrmSearch.cpp`, `SearchDlg.cpp`, `GoAnywhereDlg.cpp`, `GoToDlg.cpp`)

An index is its build and what it is made of (`Known`: the file, what there is of each result, the tree
and the nodes that came to it late, the user's edits).  Rows are the build they point into; a build that no rows
point into may give its number to a later one (`NewBuild`), so that nothing is counted.
`SearchTargetChanged` drops the index and tells the modeless dialog (`CSearchDlg::Invalidate`), which searches again at once when it is visible and by
a posted message when it is shown later.  `picker` is the modal dialog, whose loop dispatches
`ResultArrives`.

`OpenPE` is `Open` when it asks nothing, and `OpenWarns`, then `OpenGoesOn`, when `LoadAnnotations` shows its
message box (`warning`): the file is the new one, the index, the tree and the names are still those of the file
before, its results are still taken (`due`, `told = "before"`), and the search dialog, which no message box of the
frame disables, searches.  `IndexIsCurrent` promises nothing in the box, only that no index of
that time is left when `OpenPE` ends.  `TreeChanges` is a node that comes or goes without the index being
dropped: the property compares everything but these nodes.

### FunctionsView (`TotalPE/FunctionsView.cpp`, `M` 4191-4208, 5381-5443)

What the frame knows of the functions (symbols open, cross-references, how often something was named)
and the view's `items`, which record what they were built of.  A view has a number; its thread posts
to that view only (`posted`), and sets nothing when the view has gone (`cancelled`).  The views are made
again when symbols arrive.  `RenameFunction` is two steps with a box between them when the store
cannot be written.

### NavigationTrail, NavigationHistory (`M` 332-461, 5402-5528, 5614-5650; `DockViews.cpp`)

`NavigationTrail` is the promise of Back and Forward: places before, the place where the user is,
places ahead.  `NavigationHistory` is the code, as functions from a frame to a frame (`AddPage`,
`RemovePage`, `RecordNavigation`, ...) because a handler calls several, nested: a page that
is added is activated, the notification records it, and only then the caller goes on.  Actions are the
handlers: what opens a view, goes to a position in one, closes a tab, refreshes all, opens another file.
The history keeps entries of tabs that were closed until Back or Forward meets them: in the
refinement they are left out of `past` and `ahead`.  One command records up to three places (`PassedThrough`):
where the user was, the view that is brought up, and the position; so a step of the trail may add three.

### KeptNames, AnnotationStore (`PECore/Annotations.cpp`, `M` 4159-4435)

`KeptNames` is the promise: what a window has is kept in one step or not at all.  In `AnnotationStore`
several windows (of one process or of several) have the file open.  `Save` is the code's steps: delete
the store when there is nothing to keep, or open the new file, write, close, and move it over the
old one; each can fail, and a process may end between any two (`Crash`).  The new file has
the same name for everybody, so two that save at once write over each other (`overlapped`); an error
that is met as the stream is closed is not seen (`unseen`).  Properties say what holds unless these
happened (`Spoiled`); the run `store_cut` shows the second.

### RecentFiles (`RecentFilesManager.cpp`, `M` 2370-2380, `TotalPE.cpp`)

The list is read, changed and written whole with nothing between two processes; each process also
has it as a setting, and writes that as it ends.  `overtaken` is who read it before another wrote it.

### OrderedOutput, RunOrdered, Commands, Clusters (`TotalPE.Cli/main.cpp`)

`OrderedOutput` is the promise of `RunOrdered`: items in order, and `complete` only if all were handed
over.  `RunOrdered` is the code: the `&&` of the loop's condition is two steps (`TestCancel`,
`TakeItem`), storing a result with its notification is a critical section, the last notification of
a worker that leaves another, and `CtrlHandler` sets `g_Cancel` between any two.

`Commands` is composed with `OrderedOutput`, and so with what `RunOrdered` is shown to implement: each
delivery is the command's consumer (`Consume`: what it counts, `Listed`: what it writes at once), `Return`
tells it whether the run was complete, and `Finish` writes the rest and decides the exit code
(`ScanCode`, `CheckCode`, ...).  `Info` has a loop of its own, `DiffTwoFiles` none.  The merge of the two sorted
lists of `DiffDirectories` is a step for each turn of its loop (`PairNames`, `AllPaired`): `left` and `right` are
the names that are not in a pair yet.  An item is what can be said of its files
(`left`, `right`, `good`), so that every file and every pair of files is in the initial states.

`Clusters` is `FindClosePairs` (rows taken by workers, each one's pairs handed over when it ends),
`MakeClusters`, the greedy star clustering with its counts `open`, and `Cluster`, which writes a row for each
file (`WriteRow`).  The order of the rows is what the sorts of clusters, members and singles make of them
(`RowBefore`).  That the largest cluster is written first is a stable sort in the code; it changes nothing, as the
usage text has it ("the file close to the most others first, then the next").  The distances of the
instance make files close or not: files of one cluster are all equally
far from its center there; the proofs are for any distances.

### ApiExplorer (`Win32ApiExplorer/MainFrm.cpp` 68-281, `Win32MetaCore/MetadataPackages.cpp`)

Processes that choose a folder of metadata, look for newer metadata on a thread, and install it on
another.  `boxes[p]` are the nested message boxes, whose loops dispatch what the threads post, so a
question can be on top of another.  `file[v]` is what is in the folder of a version: opening
it cuts it (`ExtractOpens`), unless a process maps it.  A process can be ended at any step.  `saved` is the
registry: written by `AskRestart`, and as a process ends.  `doubtful` are the versions of which nothing is
promised: a whole file was opened again, two threads wrote at once, or the last part could not be written
as the stream was closed, which the code does not see (as in `Annotations.cpp`).

### Compositions and proof modules

`DecompilerSession` uses `SerialExecutor`, and `Commands` uses `OrderedOutput`: the one that calls over the
promise of the one it calls.  `MCFrame`, `MCWorkers`, `MCWindow` and `MCPrograms` bring components that share no
variable under one run each: a variable `part` says which one runs, so the states are the sum, not
the product, of theirs.  `Sublists` is what `std::erase_if` leaves of a vector; `NavigationHistory`,
`NavigationTrail` and `RecentFiles` use it.  Each component's proofs are in a module of their own, or in one for the
components of a run (`Frame_Proofs`, `Workers_Proofs`, `Window_Proofs`, `Programs_Proofs`); they are in section 6.

## 4. The runs

| Run | Parts and bounds | Distinct states | What it shows |
|---|---|---|---|
| `session` | 2 views, 2 files, 2 sessions, 2 requests, 1 rename | 5.1 million | what the work reads, asks, posts and shows |
| `session_live` | 1 view, 1 file, 2 sessions, 2 requests, 1 rename | 250 thousand | requests settle, closing ends, old sessions go |
| `frame` | open file: 2 openings; search: 2 files, 1 edit; thread: 2 kinds of work, 4 posts | 554 thousand | what is read and shown is of the open file; the index is current; no lost wakeup, bounded shutdown, a serial executor |
| `workers` | command line: 4 items, 3 workers; window: 2 openings, 2 scans, 2 sets of rules, 1 choice, 2 polls | 937 thousand | order, no lost wakeup, the call returns; scans and matches of the open file, scans end |
| `programs` | commands: 3 files, or names in two directories; clusters: 5 files, 2 distances, 2 workers; metadata: 2 processes, 1 version, 2 checks | 3.2 million | exit codes and what is written; every graph of close files on 5 files; the metadata chosen is whole |
| `window` | names: 2 windows, 2 items, 3 changes; places: 3 views, 4 pages, 4 entries; functions: 4 views, 2 namings; recent: 2 processes, 3 files, a list of 2 | 424 thousand | annotations are kept, Back and Forward keep the trail, the list of functions is current, recent files go only when they must |
| `stale_read` | as `session_live` | (violation) | a stale session reads a closed file |
| `picker_rows` | 1 file, 1 edit | (violation) | rows of an index that was dropped |
| `clusters_cancelled` | 3 files | (violation) | a part of the pairs taken for all |
| `box` | 2 openings | (violation) | symbols of the file before, taken in a message box |
| `store_cut` | 1 window, 1 item, 1 change | (violation) | a failed write that replaces the store |
| `back` | 2 views, 3 pages | (violation) | Back goes to where the user never was |

The four runs with parts check several components with one call of TLC.  No property relates two
parts (they share no variable), each behaviour is one part's, and a part that does not run has nothing
fair enabled: the result is that of one run for each.

Why these bounds are enough to be of interest:

* `session`: two files are needed for a result of the first to arrive over the second; two sessions for
  a stale one beside the frame's, and for one of each file; two requests for an answer that is not
  the latest; two views for a request withdrawn beside one that is not.  A rename is a version: one
  is enough to be missed.  Views are symmetric.  Liveness needs one view and one file, and is checked
  without symmetry.
* `frame`: a message or a detached thread of the first file over the second, also after a failed
  opening or in the message box of the second; the results of a file arrive in all orders, with the
  dialogs in every state; four posts leave several pieces in the queue while one runs and the worker
  goes to sleep between.  The proofs remove all three bounds.
* `workers`: one more item than workers, so a worker does several and one may find none; the first file's
  scan goes on while the second is scanned; a choice of rules while those of the setting are loaded; two
  polls are one that is repeated and one that is the last.
* `programs`: three files of every kind each, for each command and its options: one that is wrong is
  before, between or after others, and Ctrl+C comes between any two.  All 1024 graphs: on five
  files a cluster can leave a smaller one beside it, and a member can have close files outside its
  cluster.  Two processes can install one version at once, or one while the other maps it; a second
  check comes while the box of the first is shown.  Workers are symmetric.
* `window`: two windows are a window and the one that wrote since it read; three changes are one by each
  and one that meets a stale window.  Three views are the root of the tree, which is not closed, a list
  and a code view with two positions; four entries are fewer than the places visited, so the oldest is
  forgotten (the code keeps 100).  A view can be made again with its thread's message on the way, twice.
  A list of two is full with a third file.  Pages are symmetric: any unused handle is as good.

Deadlock is checked in every run but `window`, where a history without pages and a window with no change
left have nothing more to do; `Over` and `Waits` are the states of the other modules in which a process
has ended, or a window waits for its user.  Each property has a *mutant*: an operator beside the one it
changes, marked `(mutant)`, that is what a plausible bug would make of it and breaks the property.
Mutants are not used by any specification.  The type invariants that TLAPS proves are not checked again by
the runs.

## 5. Fairness

| Module | Assumed | Why the code justifies it |
|---|---|---|
| `DecompilerThread` | weak, of each step of a thread, but not of the end of the work (`RunDone`) | threads are scheduled; `wait_for` has a time-out; a decompilation may run for ever |
| `SerialExecutor` | weak, of `Start` | shown of `DecompilerThread` by TLC |
| `DecompilerSession` | weak, of the thread's steps and of the frame's handlers; strong, of `Decompile`, `OpenAsksNames` and `OnDecompilerAsk` | a decompilation reads and asks finitely often, though it may do either at each step; the loop dispatches a sent message although the user's commands come between |
| `OpenFile` | weak, of the thread's steps, of the handler after its join, and of the dispatch | `XrefMap::Build` ends and tests its flag; the loop runs.  None of the detached threads: their end is not needed |
| `FileScans` | weak, of the threads' steps and of the status' handler | every request and wait has a time limit.  None of YARA's threads |
| `SearchDialogs` | weak, of the message of the dialog | the loop (a modal dialog's too) dispatches what is posted |
| `RunOrdered` | weak, of the caller and of each worker | an item's work ends |

The user's commands, Ctrl+C, the arrival of results, crashes and failures are never fair.  The other modules
state safety only.

## 6. The proofs

Checked by TLAPS for every value of the constants, under the assumptions named in the modules:

| Assumption | Module | Why |
|---|---|---|
| `IdleIsNoWork`, `NoneIsNoPath`, `NoneIsNothing`, `FilesAreDistinct`, `FoldersDiffer` | DecompilerThread, FileScans, NavigationHistory, AnnotationStore, ApiExplorer | values that stand for "nothing", or for different things, differ |
| `MaxPostsIsNat`, `MaxOpensIsNat`, `BoundsAreNat`, `ScanBoundsAreNat`, `FunctionsBoundsAreNat`, `MaxEditsIsNat`, `MaxChecksIsNat` | the modules with bounded counters | bounds are numbers (any) |
| `CountIsNat`, `SomeItems`, `SomeThreads`, `ClusterAssumptions` | OrderedOutput, Commands, RunOrdered, Clusters | sizes are numbers; a command has a file; the workers are finitely many, at least one; the distances and the threshold are numbers |
| `HistoryIsKept`, `RootIsOfTheTree`, `TextsHavePositions` | NavigationHistory | the history keeps more than two entries (100 in the code); the root of the tree is a view like the others; a text has a first position |
| `MaxFilesIsPositive` | RecentFiles | the list has room for one file |

Every type invariant is proved, and every safety invariant, action property and refinement that the passing
runs check (of the one that states fairness, `ImplementsSerialExecutor`, the initial states and steps).  The arguments:

* **Frame_Proofs**, of two parts of the run `frame`.
  * `DecompilerThread`: the invariant is `TypeOK /\ Control`, where `Control` ties the places
    of the two threads to `m_Stop`, `m_Done`, the queue and the work: without it `NoLostWakeup` says
    nothing of what a *woken* or a *notifying* frame owes to the worker.  From it: `NeverLosesWakeup`,
    `JoinedIsDone`, `NothingStartsAfterStop` and `RefinesSerialExecutor` (its initial states and steps:
    its fairness is TLC's).
  * `SearchDialogs`: `IndexInv`, the types with the two properties and `OnlyOfPE`: every action that changes what
    is known drops the index or builds it, but for `OpenWarns`, inside the box of which nothing is promised,
    `TreeChanges`, which changes only what the property leaves out, and `OpenIsRefused`, which leaves no
    file, or an archive or an object that has no results (`OnlyOfPE`).  `IndexStaysCurrent`, `RowsAreOfTheIndex`.
* **OpenFile_Proofs.**  `IInv == TypeOK /\ XrefsInv /\ LoadsInv /\ NotYet`.  `ThreadOfFile`: a thread that has not
  ended has the open file and this generation.  `MessagesOfFile`: a message of this generation is of the open
  file.  `OneOfThem`: a thread or its message, as `m_XrefsReady` says.  `MapOfFile`: the map's file.
  `LoadsInv`: a thread or message of symbols or of the catalog with this generation is of the open
  file, once `OpenPE` is over, and the symbols there are unless they came in its message box (`boxed`).
  `NotYet`: inside `OpenPE` nothing is of the file being opened, so a message taken in the box can only be
  wrong, never half right.  They give `ReadsOpenFile`, `EverythingOfOpenFile`, `ComeOnce` and
  the refinement `RefinesFileResults`.
* **AnnotationStore_Proofs.**  `Sound`: one window at most has the new file (`FileIsOfOne`), which is empty, then
  what that window has (`FileIsWhole`); a window that is not stale has all the store has but what was taken away in
  it (`FreshHasAll`).  It holds while nothing is spoiled.  `StoreStaysWhole`, `SavedStaysKept`,
  `OnlyStaleLoses` (of steps) and `Refinement`.
* **DecompilerSession_Proofs**, with three invariants.
  * `WorkInv`: a session neither `Closed` nor `Stale` is `m_Decompiler` and of the open
    file (`LiveIsCurrent`), and one whose image is being read was not told that its file is closed, as the frame
    would wait for the lock (`ReadingIsOpen`); it gives `WorkOfOpenFile`.
  * `NamesInv` adds that each decompiler which will
    answer a request *will know* the names of that request by then: it asked for them after, or a rename is
    in the queue before it and after anything that would make the names old (`WillKnow`, for the
    frame's session, for each place in the queue, for the work in progress).  It gives `RenamesAreSeen`.
  * `ShownInv` is about the numbers of the requests on their way: of each view, what is shown is older than
    what is in the mail, that than what the thread works on, and that than what is queued (`IdsInOrder`); what
    is pending is of the open file (`PendingOfFile`); an open view's latest request is pending or shown
    (`ViewsShowLatest`).  It gives `LatestIsShown` and `ViewsMoveOn`.  `LastReferencesGoOnThread` is of
    steps: `CloseDecompiler` posts the closure that keeps the reference before it lets go of its own.
* **Workers_Proofs**, of the two parts of the run `workers`.
  * `RunOrdered`: `IInv` has six parts, `Shape` (the types);
    `TakenBelowNext`, `OnePlace`, `SomePlace` (an item below `next` is in exactly one place: a worker,
    a slot, the caller, or handed over); `LeavesFor` (a worker leaves for a reason); `CallerKnows` (what the
    caller in each place can rely on, and that `out` has `i` items).
    That the sleeping caller is still to be notified needs all of them: if no worker were left, the item it waits for would have no place.  `next` is bounded by an
    argument on the cardinality of the set of workers that left (`Bound`), which `TypeCorrect` needs.
    `RefinesOrderedOutput` is the refinement, with `Spec`'s steps mapped to `Deliver`, `CtrlC`, `Return`.
  * `FileScans`: a scan has a generation of its own and is cancelled as soon as the window goes on
    (`ScanGenerations`); how it ends is the last that is told of it (`TellsOfScans`); the status that is shown runs
    exactly while its thread, or a message of its end, is there (`ShownIsTold`), and both are of the file opened last
    (`ScansOfOpened`).  So `ScansOfOpenFile`, and `RunningIsTold`: the thread or the message, which cannot both be,
    are counted.  Of YARA's threads and their messages at most one has the window's generation, it
    was given the window's rules, and while it is there no matches are shown (`MatchGenerations`, `MatchesShown`).
* **Window_Proofs.**  It begins with what `Sublist` keeps: its elements, their order, their number.
  * `FunctionsView`: the property is inductive with `ReadersKnown`: a thread that has not been told to stop
    belongs to the view there is, and reads symbols that are open.  `FunctionsCurrent`.
  * `RecentFiles`: what a process is about to write lacks only what it may forget, unless it was overtaken since
    it read (`MissesNoMore`).  `OnlyStaleWritesForget` is of steps.
  * `NavigationHistory`: each handler is a composition of functions on frames.  `Whole` (the maps and tabs
    agree, the history knows the active view) is what a handler finds and leaves; inside of one it
    holds in parts, so each function has a lemma of its own for what it needs and gives
    (`RemovePage`, between `m_Views` and `m_Views2`; `AddPage`, before the view is in the maps; `RefreshViews`, with the
    tabs that stay and the ones made again).  `MapsAlwaysAgree`, `HistoryKnowsTheActiveView`, and `BackComesAfterTwo`,
    for which a step of `GoTo` leaves the place where the user was one or two entries back, all of open tabs.
* **NavigationTrail_Proofs**, of the refinement `ImplementsTrail`, from the invariants of `Window_Proofs`.  A handler
  records up to three places, while pages close and open in between, and the trail takes that as one step.  So it is
  proved in two halves, which do not look at each other's definitions.
  * Of the frame: from one state to the next the history *goes on* (`Onward`: its entries up to the current one are the
    old ones without some of the oldest, then at most three new ones; of those that stay, no page was closed and is
    open again).  Each function has a lemma of what it records, and each handler one of `GoesOn`,
    which adds that the page of the current entry was not closed and opened (another file, and `RefreshViews`, which
    opens pages again, leave one entry at most: `TrailForgets`).  Back and Forward pass only over entries whose pages
    were closed (`GoBackSteps`, `GoForwardSteps`), and the entry they come to is open.
  * Of two states of the trail: any two histories in these relations have `Before`, the current entry and `After` as
    `Go`, `Close`, `Forget`, `Back` or `Forward` says (`StepsImplement`).  It rests on facts about `Sublist`: of two
    sequences one after the other, of a sublist, of sets that agree on the sequence.  They hold because there is one way only
    to number what is kept in its order, which is why `Sublist` is defined by rank and not by recursion.
* **Programs_Proofs.**
  * `Commands`: the pairs are the names of the two directories, once and in order, as far as they were merged
    (`PairsAreNames`); a result was counted exactly when an item that gives it was handed over (`CountsAreOfDone`);
    each output has what is listed of those items, in their order (`ListedIsWritten`); the code is what the
    command makes of the counts (`CodeIsOfDone`).  A lemma for each kind of command turns that into what the
    exit code says: `ExitCodeAlwaysTells`, `WrongIsAlwaysWritten`.
  * `Clusters`: a row that was taken is being compared, in what a worker found, or handed over
    (`RowsAreFound`), so that all close pairs are known once all have joined and nobody cancelled (`AllFound`).
    `OpenIsCounted`: the counts that the code decrements for each member are the numbers of close files that are
    still in no cluster.  It gives `CentersAreClosestToMost`, and, when none is left, that singles are alone.
    `WritingInv`: the clusters are apart, and no file that is left has as many open close files as a cluster has
    members, so clusters are made by falling size and the stable sort leaves them in place (`SizesFall`,
    `PlaceIs`); what is written comes before what is not (`RowsInOrder`).  `WrittenAreStars`.
  * `ApiExplorer`: a thread that is not alone in a version's files knows it (`WritersKnow`), and what a message
    says was installed can be read (`InstalledIsWhole`), so the settings name only such versions
    (`SettingsAreWhole`): nothing opens the files of a version that can be read and is not doubtful without
    making it so (`WholeStaysWhole`).  `ChosenIsAlwaysWhole`.

Facts about all lists or all numbers (the least of a set, an injective enumeration, the length of a sublist) are
proved from the least number that would contradict them, as the provers cannot use the library's rules of induction.
Each invariant was checked by TLC on the run's instance before it was proved.

Only model-checked, and why:

* Liveness, and what needs fairness or `ENABLED`: `PendingSettles`, `CloseCompletes`, `OldSessionGoes`, `NothingWaitsForEver`,
  `LastSearchIsMadeAgain`, `ShutdownReturns`, `Returns`, `ScanEnds`, and the fairness of `SerialExecutor`.

## 7. Where the code and its comments disagree

The runs that end in a violation, each listed under `findings`:

1. `stale_read`: `CloseDecompiler(true)` closes only the session in `m_Decompiler`.  A session that was
   made stale earlier (symbols arrived, a constant's name was chosen) and still works keeps
   `Closed = false`, so it goes on reading `m_PE` and asking the frame after the file is closed.
   `MainFrm.h:436` says nothing more is read or asked.
2. `picker_rows`: the function picker keeps pointers into the search index, which a message that its own
   modal loop dispatches may drop.
3. `clusters_cancelled`: Ctrl+C while the pairs are found gives clusters of a part of the pairs, and the
   exit code of success.
4. `box`: the message box that tells that the names of a file cannot be read is shown while the new file is
   open and the generation of the symbols is still the old one's: symbols of the file before are taken
   for it.
5. `store_cut`: the error of a write that is met as the stream is closed is not looked at, and
   the cut file replaces the store.  `Annotations.cpp:88` says a failure leaves the old one as it was.
6. `back`: a command that goes to a position brings the view up first, and the notification records the
   place the view was at: one Back goes there, and only a second to where the user was.

Seen while modelling, not runs of their own: a `WM_DRIVER_ANALYZED` of a file that was closed (not
replaced) is taken, as only opening raises `m_DriverGeneration`; in the message box of finding 4 the search
dialog shows and goes to items of the file before in the new one, or of an index made of the new file with
the tree and the names of the one before (`SearchDlg.h:11` says it is built again after the file changes), until `OpenPE`
drops all that at its end; the catalog's and YARA's nodes, and those of views, are added to the tree and
removed from it without dropping the index that lists the tree, against `MainFrm.h:561` (`TreeChanges`; `IndexIsCurrent`
leaves these nodes out); a file that fails to open leaves
the index, the symbols and a running scan of the file before; rules that cannot be loaded clear the
setting of all the windows; `s_Frames` is not raised by New Window; `info` that is cancelled exits with 0
if the files before were good (`main.cpp:482`; `scan` and `check` exit with 1); a file that is in one of
two directories only is told as a difference although it is no PE file (`main.cpp:700`; the help says such
files are skipped); a write that fails is not noticed (`Output.cpp:58`); two windows of one file keep the
names of the one that saved last; a version of the metadata that is installed again over its own
files and fails leaves a cut file that the settings name, with which the explorer closes at each start, before its menus can choose another folder
(`ChosenIsWhole` leaves such versions out: `doubtful`).

## 8. What is left out

* Views, layout, drawing, and the hex control: on the frame's thread alone.  The views' requests and
  answers are in the modules of what they ask.
* What the parsers, the analyses and Ghidra's decompiler compute: a result is a value, with the file
  it is of.  In `DecompilerSession` a decompilation reads and asks any number of times.
  These are data flow over unbounded inputs, without state between calls: a model would be a copy of the program.
* So the modules map about a third of the lines of the files they are about, and about one in seventy of all
  the lines of the repository: over half of those are Ghidra's decompiler (`Decompiler/ghidra`), a tenth are the
  headers of DIA (`DiaHelper`), and of the rest most are parsers, analyses, views and their tests.
* `PostMessage` that fails on a full queue; allocation that fails; exceptions that end the process.
* `tpe --version` and `--help`; the content of reports; writes to the console that fail.
* Message boxes inside handlers, where they only wait: the frame is disabled, and what the handlers
  do after them does not depend on what came meanwhile.  Where it does (`OpenPE`, `RenameFunction`, the search
  dialogs, the API explorer) the loop is modelled.
* The windows beyond one, but for their effect on the setting of YARA's rules, on the store of
  annotations and on the recent files.
* A scan of VirusTotal that goes on after the window is destroyed (nobody is told), and the percentages
  of an upload.
* In the API explorer: the name another process sends, the machine, the browser and the information boxes.

The remaining components and the reasons are in `PROJECT.json`.

## 9. What could follow

1. Several windows with one decompiler's thread, one setting of rules, and `s_Frames`.
2. Small algorithms of `PECore` as operators against reference definitions: the search for bytes, the
   regions of a file, the ranking of names.
3. Proofs of the algorithms of item 2, once they are modelled; what the passing runs check of safety is proved.
