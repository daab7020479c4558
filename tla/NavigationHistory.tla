-------------------------- MODULE NavigationHistory --------------------------
(***************************************************************************)
(* The views of a window, its tabs, and Back and Forward (TotalPE/          *)
(* MainFrm.cpp, DockViews.cpp).  The tabs tell the frame which one is       *)
(* active from inside the calls that open and close them, and the frame     *)
(* records a place whenever they do: in the middle of its own handlers,     *)
(* before a new view is in its maps.                                       *)
(*                                                                         *)
(* A handler is a step of the frame's state: the functions it calls are     *)
(* functions on that state, in the order of the calls.                      *)
(***************************************************************************)
EXTENDS Naturals, Sequences, FiniteSets, SequencesExt, Sublists

CONSTANTS
  Types,            \* the types of views, each of which is open once at most
  Root,             \* the view a file is opened with
  Positioned,       \* those that have a position: texts, hex views
  OnRequest,        \* those that do not come from the tree (DeleteFromTree)
  Positions,        \* the positions in a view
  Handles,          \* windows
  None,             \* no window, no type, no position
  MaxHistory        \* the places that are kept: 100

ASSUME RootIsOfTheTree == Root \in Types \ (Positioned \cup OnRequest)
ASSUME TextsHavePositions == Positioned # {} => Positions # {}
ASSUME NoneIsNothing == None \notin Types \cup Positions \cup Handles
ASSUME HistoryIsKept == MaxHistory \in Nat /\ MaxHistory > 2

VARIABLES
  frame,            \* m_Tabs' m_Pages and m_Active (0: none); m_Views and m_Views2; the
                    \* views' positions; m_History and m_HistoryIndex (0: none)
  from              \* history: where the user was when a command of the last step went
                    \* somewhere else, or None

navigationVars == <<frame, from>>

Entries == [Page : Handles, Position : Positions \cup {None}]

NavigationInit ==
  /\ frame = [ m_Pages |-> <<>>, m_Active |-> 0,
               m_Views |-> [t \in Types |-> None], m_Views2 |-> [h \in Handles |-> None],
               position |-> [h \in Handles |-> None],
               m_History |-> <<>>, m_HistoryIndex |-> 0 ]
  /\ from = None

-----------------------------------------------------------------------------
(* The history *)

IsOpen(f, h) == h \in ToSet(f.m_Pages)

\* GetNavigationPosition of the view in a page, if the maps have the view
PositionOf(f, h) ==
  IF f.m_Views2[h] # None /\ f.m_Views[f.m_Views2[h]] # None
  THEN f.position[f.m_Views[f.m_Views2[h]]] ELSE None

Place(f) == LET h == f.m_Pages[f.m_Active] IN [Page |-> h, Position |-> PositionOf(f, h)]

IsCurrent(f, place) == f.m_HistoryIndex # 0 /\ f.m_History[f.m_HistoryIndex] = place

ResetNavigation(f) == [f EXCEPT !.m_History = <<>>, !.m_HistoryIndex = 0]

\* going somewhere new discards what was "forward"
Discarded_Not(f) == f.m_History                          \* (mutant: it is kept)
Discarded(f) == SubSeq(f.m_History, 1, f.m_HistoryIndex)

RecordNavigation(f) ==
  IF f.m_Active = 0 \/ IsCurrent(f, Place(f)) THEN f
  ELSE LET longer == Append(Discarded(f), Place(f))
           kept == IF Len(longer) > MaxHistory THEN Tail(longer) ELSE longer
       IN [f EXCEPT !.m_History = kept, !.m_HistoryIndex = Len(kept)]

\* NavigateHistory arrives at an entry (m_Navigating: nothing is recorded)
Arrive(f, history, index) ==
  LET entry == history[index]
  IN [f EXCEPT !.m_History = history, !.m_HistoryIndex = index,
               !.m_Active = CHOOSE p \in 1..Len(f.m_Pages) : f.m_Pages[p] = entry.Page,
               !.position[entry.Page] = IF entry.Position = None THEN @ ELSE entry.Position]

\* It goes from entry to entry; those whose tab was closed are forgotten on the way.
IndexAfter_Stays(f, skipped) == f.m_HistoryIndex        \* (mutant: it does not go down with them)
IndexAfter(f, skipped) == f.m_HistoryIndex - skipped

GoBack(f) ==
  LET before == {i \in 1..(f.m_HistoryIndex - 1) : IsOpen(f, f.m_History[i].Page)}
      target == IF before = {} THEN 0 ELSE CHOOSE i \in before : \A j \in before : j <= i
      history == SubSeq(f.m_History, 1, target)
                   \o SubSeq(f.m_History, f.m_HistoryIndex, Len(f.m_History))
  IN IF f.m_HistoryIndex = 0 THEN f
     ELSE IF target # 0 THEN Arrive(f, history, target)
     ELSE [f EXCEPT !.m_History = history,
                    !.m_HistoryIndex = IndexAfter(f, f.m_HistoryIndex - 1)]

GoForward(f) ==
  LET after == {i \in (f.m_HistoryIndex + 1)..Len(f.m_History) : IsOpen(f, f.m_History[i].Page)}
      target == IF after = {} THEN Len(f.m_History) + 1
                ELSE CHOOSE i \in after : \A j \in after : i <= j
      history == SubSeq(f.m_History, 1, f.m_HistoryIndex)
                   \o SubSeq(f.m_History, target, Len(f.m_History))
  IN IF after = {} THEN [f EXCEPT !.m_History = history]
     ELSE Arrive(f, history, f.m_HistoryIndex + 1)

-----------------------------------------------------------------------------
(* The tabs: they notify the frame (OnPageActivated) before they return *)

SetActivePage_Silent(f, page) == [f EXCEPT !.m_Active = page]    \* (mutant: no notification)
SetActivePage(f, page) ==
  IF page = f.m_Active THEN f ELSE RecordNavigation([f EXCEPT !.m_Active = page])

AddPage(f, h) ==
  SetActivePage([f EXCEPT !.m_Pages = Append(@, h)], Len(f.m_Pages) + 1)

\* ActivateAfterRemoval: the page the dock made active, or else the last one
RemovePage(f, page, next) ==
  LET pages == RemoveAt(f.m_Pages, page)
      rest == [f EXCEPT !.m_Pages = pages]
  IN IF f.m_Active < page THEN rest
     ELSE IF f.m_Active > page THEN [rest EXCEPT !.m_Active = @ - 1]
     ELSE RecordNavigation([rest EXCEPT !.m_Active = next])

\* what may be active when a page was removed
AfterRemoval(f) == IF Len(f.m_Pages) = 1 THEN {0} ELSE 1..(Len(f.m_Pages) - 1)

-----------------------------------------------------------------------------
(* The frame's views *)

\* a window that is neither open nor in the history
Used(f) == ToSet(f.m_Pages) \cup {entry.Page : entry \in ToSet(f.m_History)}
New(f) == CHOOSE h \in Handles : h \notin Used(f)

FirstPosition(t) == IF t \in Positioned THEN CHOOSE p \in Positions : TRUE ELSE None

\* a view that was created gets its page, and goes into the maps after it
Insert(f, t, h) ==
  LET opened == AddPage([f EXCEPT !.position[h] = FirstPosition(t)], h)
  IN [opened EXCEPT !.m_Views[t] = h, !.m_Views2[h] = t]

PageOf(f, t) == CHOOSE p \in 1..Len(f.m_Pages) : f.m_Pages[p] = f.m_Views[t]

ShowView(f, t) ==
  IF f.m_Views[t] # None THEN SetActivePage(f, PageOf(f, t)) ELSE Insert(f, t, New(f))

SetNavigationPosition(f, t, position) ==
  IF t \in Positioned THEN [f EXCEPT !.position[f.m_Views[t]] = position] ELSE f

CloseTab_One(f, page) ==                              \* (mutant: only one of the maps lets go)
  [f EXCEPT !.m_Views2[f.m_Pages[page]] = None]
CloseTab(f, page) ==
  LET h == f.m_Pages[page]
  IN [f EXCEPT !.m_Views[f.m_Views2[h]] = None, !.m_Views2[h] = None, !.position[h] = None]

\* OnPageCloseButton (then OnPaneClosed removes the page), OnWindowClose, OnYaraClear
Closed(f, page, next) == RemovePage(CloseTab(f, page), page, next)

\* CloseFileViews, OnWindowCloseAll: RemoveAllPages notifies nobody
CloseFileViews(f) ==
  [f EXCEPT !.m_Pages = <<>>, !.m_Active = 0,
            !.m_Views = [t \in Types |-> None], !.m_Views2 = [h \in Handles |-> None],
            !.position = [h \in Handles |-> None]]

-----------------------------------------------------------------------------
(* The handlers *)

HasRoom == Used(frame) # Handles            \* (there is always a window to be had)
Step(f) == frame' = f /\ from' = None

\* OpenPE and the others, or OnFileClose
OpenFile == HasRoom /\ Step(ShowView(CloseFileViews(ResetNavigation(frame)), Root))
OnFileClose == Step(ResetNavigation(CloseFileViews(frame)))

\* a view from the tree or from a menu
OnView(t) == HasRoom /\ Step(ShowView(frame, t))

\* the user goes to another place in the view
MoveTo(position) ==
  LET h == frame.m_Pages[frame.m_Active]
  IN /\ frame.m_Active # 0
     /\ frame.position[h] # None
     /\ Step([frame EXCEPT !.position[h] = position])

\* a tab is clicked, a view has the focus: OnActivePaneChanged, OnWindowActivate
Focus(page) == Step(SetActivePage(frame, page))

\* GoToFileOffset, GoToVa, ShowElfFileOffset and the others that go to a position in a view;
\* DecompileFunction, ShowType and the others that go to a view of their own.  The view may
\* not be had.
CameFrom_Not(f) == f                                           \* (mutant)
CameFrom(f) == RecordNavigation(f)   \* so that Back returns to where the user was

GoTo(t, position) ==
  LET gone == RecordNavigation(SetNavigationPosition(ShowView(CameFrom(frame), t), t, position))
  IN /\ HasRoom /\ Used(CameFrom(frame)) # Handles
     /\ frame' = gone
     /\ from' = IF frame.m_Active # 0 /\ Place(gone) # Place(frame) THEN Place(frame) ELSE None
GoToNothing == Step(CameFrom(frame))

ClosePage(page) == \E next \in AfterRemoval(frame) : Step(Closed(frame, page, next))

\* from the last page to the first, all but the active one
OnWindowCloseOthers ==
  LET h == frame.m_Pages[frame.m_Active]
      t == frame.m_Views2[h]
  IN /\ frame.m_Active # 0
     /\ Step([frame EXCEPT !.m_Pages = <<h>>, !.m_Active = 1,
                           !.m_Views = [u \in Types |-> IF u = t THEN h ELSE None],
                           !.m_Views2 = [g \in Handles |-> IF g = h THEN t ELSE None],
                           !.position = [g \in Handles |-> IF g = h THEN @[g] ELSE None]])

OnWindowCloseAll == Step(CloseFileViews(frame))

\* ReopenView: what a view shows has changed
ReopenView(page) == \E next \in AfterRemoval(frame) :
  HasRoom /\ Used(Closed(frame, page, next)) # Handles
          /\ Step(ShowView(Closed(frame, page, next), frame.m_Views2[frame.m_Pages[page]]))

\* A view is replaced by the one that 'open' brings up (MoveToPlaceOf changes where the docking
\* shows it, and not m_Pages).
ReplaceView(page, t) ==
  LET opened == RecordNavigation(ShowView(CameFrom(frame), t))
  IN /\ HasRoom /\ Used(CameFrom(frame)) # Handles
     /\ \E next \in AfterRemoval(opened) :
          Step(IF opened.m_Active = page THEN opened ELSE Closed(opened, page, next))

\* RefreshViews: the views of the tree are closed and shown again, in new windows (the history
\* is reset, and nothing tells a new window from the one before); those that were created on
\* request stay before them.
Again(f) == Sublist(f.m_Pages, {h \in Handles : f.m_Views2[h] \notin OnRequest})
Stay(f) == Sublist(f.m_Pages, {h \in Handles : f.m_Views2[h] \in OnRequest})

RefreshActive(f, pages) ==
  IF f.m_Views2[f.m_Pages[f.m_Active]] \in OnRequest THEN Len(pages)
  ELSE CHOOSE p \in 1..Len(pages) : pages[p] = f.m_Pages[f.m_Active]

RefreshEnds_NotRecorded(f) == ResetNavigation(f)                \* (mutant)
RefreshEnds(f) == RecordNavigation(ResetNavigation(f))

RefreshViews ==
  LET pages == Stay(frame) \o Again(frame)
      shown == [h \in Handles |-> IF h \in ToSet(Again(frame))
                                  THEN FirstPosition(frame.m_Views2[h]) ELSE frame.position[h]]
  IN /\ Again(frame) # <<>>
     /\ Step(RefreshEnds([frame EXCEPT !.m_Pages = pages, !.position = shown,
                                       !.m_Active = RefreshActive(frame, pages)]))

OnNavBack == Step(GoBack(frame))
OnNavForward == Step(GoForward(frame))

NavigationNext ==
  \/ OpenFile \/ OnFileClose
  \/ \E t \in Types : OnView(t) \/ \E position \in Positions : GoTo(t, position)
  \/ GoToNothing
  \/ \E position \in Positions : MoveTo(position)
  \/ \E page \in 1..Len(frame.m_Pages) :
       Focus(page) \/ ClosePage(page) \/ ReopenView(page) \/ \E t \in Types : ReplaceView(page, t)
  \/ OnWindowCloseOthers \/ OnWindowCloseAll \/ RefreshViews
  \/ OnNavBack \/ OnNavForward

NavigationSpec == NavigationInit /\ [][NavigationNext]_navigationVars

-----------------------------------------------------------------------------
(* Properties *)

NavigationTypeOK ==
  /\ frame.m_Pages \in Seq(Handles)
  /\ frame.m_Active \in 0..Len(frame.m_Pages)
  /\ frame.m_Views \in [Types -> Handles \cup {None}]
  /\ frame.m_Views2 \in [Handles -> Types \cup {None}]
  /\ frame.position \in [Handles -> Positions \cup {None}]
  /\ frame.m_History \in Seq(Entries) /\ Len(frame.m_History) <= MaxHistory
  /\ frame.m_HistoryIndex \in 0..Len(frame.m_History)
  /\ from \in Entries \cup {None}

\* The tabs and the two maps of the views, each of which the handlers that open or close one
\* change by itself, agree: CloseTab's at() finds the view of any page, and no view is left
\* without one.
Agree(f) ==
  /\ \A h \in Handles : IsOpen(f, h) <=> f.m_Views2[h] # None
  /\ \A h \in Handles, t \in Types : f.m_Views2[h] = t <=> f.m_Views[t] = h
  /\ IsInjective(f.m_Pages)

MapsAgree == Agree(frame)

\* The history knows the view the user is in, however it became active: opened, focused,
\* navigated to, or left over when another one was closed.
Knows(f) ==
  /\ f.m_Active = 0 <=> f.m_Pages = <<>>
  /\ f.m_Active # 0 =>
       f.m_HistoryIndex # 0 /\ f.m_History[f.m_HistoryIndex].Page = f.m_Pages[f.m_Active]

KnowsWhereTheUserIs == Knows(frame)

\* the entries Back and Forward would go to, in the order of the visits
OpenEntries == [Page : ToSet(frame.m_Pages), Position : Positions \cup {None}]
Before == Sublist(SubSeq(frame.m_History, 1, frame.m_HistoryIndex - 1), OpenEntries)
After == Sublist(SubSeq(frame.m_History, frame.m_HistoryIndex + 1, Len(frame.m_History)), OpenEntries)

\* MainFrm.cpp:5618: "so that Back returns to where the user was" when a command has gone
\* somewhere else.
BackReturnsToWhereTheUserWas == from # None => Before # <<>> /\ Last(Before) = from

\* What is true of it: Back, pressed twice at most, does.
BackComesToWhereTheUserWas ==
  from # None => \E i \in 1..Len(Before) : i >= Len(Before) - 1 /\ Before[i] = from

\* Refinement: entries of closed tabs, which stay in the history until Back or Forward meets
\* them, are no more than a detail of a trail of places.
NT == INSTANCE NavigationTrail WITH
        past <- Before,
        now <- IF frame.m_HistoryIndex = 0 THEN <<>> ELSE <<frame.m_History[frame.m_HistoryIndex]>>,
        ahead <- After,
        open <- ToSet(frame.m_Pages)

ImplementsTrail == NT!TrailSpec
=============================================================================
