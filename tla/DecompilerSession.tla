------------------------- MODULE DecompilerSession --------------------------
(***************************************************************************)
(* The decompiler of the open PE file (TotalPE/MainFrm.cpp, from           *)
(* CMainFrame::Decompiler to RenameFunction): the frame's thread makes a   *)
(* session, posts work to the decompiler's thread and takes the results as *)
(* window messages; the work reads the image under the session's Image     *)
(* lock and asks the frame's thread with SendMessage.  The file may be     *)
(* closed, replaced, or the session made again ("stale") at any moment.    *)
(* The decompiler's thread is the serial executor that DecompilerThread    *)
(* implements.                                                             *)
(***************************************************************************)
EXTENDS Naturals, Sequences, FiniteSets

CONSTANTS Views,         \* the windows of decompiled functions (a handle is not used again)
          MaxFiles,      \* bound: files opened
          MaxSessions,   \* bound: sessions made
          MaxRequests,   \* bound: decompilations asked for
          MaxNames       \* bound: renames by the user

ASSUME BoundsAreNat == {MaxFiles, MaxSessions, MaxRequests, MaxNames} \subseteq Nat

Sessions == 1..MaxSessions
Requests == 1..MaxRequests

\* A posted closure: what it does, the session it holds a reference of, and its
\* argument (the request's id, the names' version, the driver generation).
Kinds == {"decompile", "driver", "rename", "drop"}
WorkItems == [kind : Kinds, s : Sessions, arg : Nat]
NoWork == [kind |-> "none", s |-> 0, arg |-> 0]

VARIABLES
  \* --- the decompiler's thread
  todo, now, ended,   \* SerialExecutor's
  phase,              \* of the work in progress: "begin", "open", "use" or "post"
  io,                 \* what that work waits for: "none", "reading", "asking", "names"
  \* --- the sessions
  sess,               \* [file, state, Closed, Stale, names] of each
  made,               \* how many were made
  \* --- the frame
  window,             \* the frame's window exists
  file,               \* the open PE file; 0 if there is none
  files,              \* how many were opened, of any kind
  m_Decompiler,       \* the session of the file; 0 if there is none
  closing,            \* why the frame is in CloseDecompiler(true); "no" if it is not
  refresh,            \* the views RedecompileViews still has to ask for
  pending,            \* the ids of m_PendingDecompiles
  cancelled,          \* the ids whose Cancel flag is set
  reqs,               \* of each id up to m_LastDecompile: its view, and the file and names then
  views,              \* the decompiled views that are open (m_Views2)
  used,               \* those ever opened
  shown,              \* what each view shows: the request, and the names it was decompiled with
  names,              \* the version of the user's names (m_Annotations)
  told,               \* what arrived of the open file: "symbols", "xrefs"
  driver,             \* [state, generation, of] of m_Driver ("of": the file it describes)
  inbox               \* messages posted to the frame

threadVars == <<todo, now, ended, phase, io>>
viewVars == <<views, used, shown>>
requestVars == <<pending, cancelled, reqs>>
fileVars == <<window, file, files, told>>
vars == <<todo, now, ended, phase, io, sess, made, window, file, files, m_Decompiler, closing,
          refresh, pending, cancelled, reqs, views, used, shown, names, told, driver, inbox>>

SE == INSTANCE SerialExecutor WITH Work <- WorkItems, Idle <- NoWork

-----------------------------------------------------------------------------
SessionStates == {"new", "made", "failed"}
NoSession == [file |-> 0, state |-> "new", Closed |-> FALSE, Stale |-> FALSE, names |-> 0]
Nothing == [id |-> 0, names |-> 0]
CloseReasons == {"open", "fail", "close", "other", "destroy"}
DriverStates == {"none", "analyzing", "done"}
Messages == [kind : {"decompiled"}, arg : Requests, names : Nat, ok : BOOLEAN, file : Nat]
            \cup [kind : {"driver"}, arg : Nat, names : Nat, ok : BOOLEAN, file : Nat]

TypeOK ==
  /\ SE!ExecutorTypeOK
  /\ phase \in {"idle", "begin", "open", "use", "post"}
  /\ io \in {"none", "reading", "asking", "names"}
  /\ sess \in [Sessions -> [file : 0..MaxFiles, state : SessionStates, Closed : BOOLEAN,
                            Stale : BOOLEAN, names : Nat]]
  /\ made \in 0..MaxSessions
  /\ window \in BOOLEAN
  /\ files \in 0..MaxFiles
  /\ file \in 0..files
  /\ m_Decompiler \in 0..made
  /\ closing \in CloseReasons \cup {"no"}
  /\ refresh \subseteq Views
  /\ reqs \in Seq([view : Views, file : 1..MaxFiles, names : Nat]) /\ Len(reqs) <= MaxRequests
  /\ pending \subseteq DOMAIN reqs
  /\ cancelled \subseteq DOMAIN reqs
  /\ views \subseteq used
  /\ used \subseteq Views
  /\ shown \in [Views -> [id : 0..MaxRequests, names : Nat]]
  /\ names \in 0..MaxNames
  /\ told \subseteq {"symbols", "xrefs"}
  /\ driver \in [state : DriverStates, generation : Nat, of : 0..MaxFiles]
  /\ inbox \in Seq(Messages)

Init ==
  /\ SE!ExecutorInit
  /\ phase = "idle" /\ io = "none"
  /\ sess = [s \in Sessions |-> NoSession] /\ made = 0
  /\ window = TRUE /\ file = 0 /\ files = 0 /\ m_Decompiler = 0
  /\ closing = "no" /\ refresh = {}
  /\ pending = {} /\ cancelled = {} /\ reqs = <<>>
  /\ views = {} /\ used = {} /\ shown = [v \in Views |-> Nothing]
  /\ names = 0 /\ told = {}
  /\ driver = [state |-> "none", generation |-> 0, of |-> 0]
  /\ inbox = <<>>

-----------------------------------------------------------------------------
(* The frame's thread.  Its handlers run one at a time, from the message loop. *)
InLoop == window /\ closing = "no" /\ refresh = {}

\* (bound: RedecompileViews is started only where the bounds let it end)
RoomToRedecompile == Len(reqs) + Cardinality(views) <= MaxRequests /\ made < MaxSessions

\* CMainFrame::Decompiler: the session there is, else a new one, of the open file.
\* 'current' is m_Decompiler as the handler has left it so far.
Decompiler(current, s) ==
  /\ IF current # 0
     THEN s = current /\ UNCHANGED <<sess, made>>
     ELSE /\ made < MaxSessions
          /\ s = made + 1
          /\ made' = s
          /\ sess' = [sess EXCEPT ![s] = [NoSession EXCEPT !.file = file]]
  /\ m_Decompiler' = s

NewRequest_NotCounted(v) == UNCHANGED reqs /\ pending' = pending \cup {Len(reqs) + 1}   \* (mutant)
NewRequest(v) == /\ reqs' = Append(reqs, [view |-> v, file |-> file, names |-> names])
                 /\ pending' = pending \cup {Len(reqs')}

\* DecompileAsync: a new id, pending for its view, and the work posted.
DecompileAsync(v) ==
  /\ Len(reqs) < MaxRequests
  /\ \E s \in Sessions :
       /\ Decompiler(m_Decompiler, s)
       /\ SE!Submit([kind |-> "decompile", s |-> s, arg |-> Len(reqs) + 1])
  /\ NewRequest(v)
  /\ UNCHANGED cancelled

\* DecompileFunction: a function without a view gets one, and its code is asked for.
DecompileFunction(v) ==
  /\ InLoop /\ file # 0
  /\ v \notin used
  /\ DecompileAsync(v)
  /\ views' = views \cup {v} /\ used' = used \cup {v}
  /\ UNCHANGED <<phase, io, fileVars, closing, refresh, shown, names, driver, inbox>>

\* RedecompileViews, one view of it.  Without a file there is no decompiler, and
\* the view shows that at once.
Redecompile(v) ==
  /\ v \in refresh
  /\ refresh' = refresh \ {v}
  /\ \/ /\ file # 0
        /\ DecompileAsync(v)
        /\ UNCHANGED shown
     \/ /\ file = 0
        /\ shown' = [shown EXCEPT ![v] = Nothing]
        /\ UNCHANGED <<todo, now, ended, sess, made, m_Decompiler, requestVars>>
  /\ UNCHANGED <<phase, io, fileVars, closing, views, used, names, driver, inbox>>

\* (mutants: nothing is withdrawn; every request is)
Cancel_None(ids) == UNCHANGED <<pending, cancelled, reqs>>
Cancel_All(ids) == cancelled' = cancelled \cup pending /\ pending' = {} /\ UNCHANGED reqs
\* Requests are withdrawn: what was not started will not be, what was is not shown.
Cancel(ids) == /\ cancelled' = cancelled \cup ids
               /\ pending' = pending \ ids
               /\ UNCHANGED reqs

\* CloseTab: CancelDecompiles of the view, and the view is gone.
CloseTab(v) ==
  /\ InLoop
  /\ v \in views
  /\ Cancel({r \in pending : reqs[r].view = v})
  /\ views' = views \ {v}
  /\ UNCHANGED <<threadVars, sess, made, fileVars, m_Decompiler, closing, refresh,
                 used, shown, names, driver, inbox>>

\* OnWindowCloseAll: the views are gone; what is pending for them is not cancelled.
OnWindowCloseAll ==
  /\ InLoop
  /\ views # {}
  /\ views' = {}
  /\ UNCHANGED <<threadVars, sess, made, fileVars, m_Decompiler, closing, refresh, requestVars,
                 used, shown, names, driver, inbox>>

\* the work that tells the decompiler there is of the new name
TellDecompiler_Not == UNCHANGED <<todo, now, ended>>     \* (mutant: it is not told)
TellDecompiler ==
  IF m_Decompiler # 0
  THEN SE!Submit([kind |-> "rename", s |-> m_Decompiler, arg |-> names'])
  ELSE UNCHANGED <<todo, now, ended>>

\* RenameFunction (and ChangeVariable of a global variable): the annotations, the
\* decompiler there is, and then every view again.
RenameFunction ==
  /\ InLoop /\ file # 0
  /\ names < MaxNames /\ RoomToRedecompile
  /\ names' = names + 1
  /\ TellDecompiler
  /\ refresh' = views
  /\ UNCHANGED <<phase, io, sess, made, fileVars, m_Decompiler, closing, requestVars, viewVars,
                 driver, inbox>>

\* The frame's reference to the session goes to the decompiler's thread.
LetGo_Here == m_Decompiler' = 0 /\ UNCHANGED <<todo, now, ended>>   \* (mutant: on the frame's thread)
LetGo == /\ SE!Submit([kind |-> "drop", s |-> m_Decompiler, arg |-> 0])
         /\ m_Decompiler' = 0

\* CloseDecompiler(false): the session is stale, and let go.
MakeAgain ==
  IF m_Decompiler = 0
  THEN UNCHANGED <<todo, now, ended, sess, m_Decompiler>>
  ELSE /\ sess' = [sess EXCEPT ![m_Decompiler].Stale = TRUE]
       /\ LetGo

\* PreferConstantName (from a decompiled view)
PreferConstantName ==
  /\ InLoop
  /\ views # {} /\ RoomToRedecompile
  /\ MakeAgain
  /\ refresh' = views
  /\ UNCHANGED <<phase, io, made, fileVars, closing, requestVars, viewVars, names, driver, inbox>>

\* OnSymbolsLoaded, with the symbols of the open file (views of functions keep what they show)
OnSymbolsLoaded ==
  /\ InLoop /\ file # 0
  /\ "symbols" \notin told
  /\ told' = told \cup {"symbols"}
  /\ MakeAgain
  /\ UNCHANGED <<phase, io, made, window, file, files, closing, refresh, requestVars, viewVars,
                 names, driver, inbox>>

\* OnXrefsBuilt, with those of the open file: new names make the session stale, and
\* a driver is analyzed (AnalyzeDriverAsync) by the session there is then.
OnXrefsBuilt ==
  /\ InLoop /\ file # 0
  /\ "xrefs" \notin told
  /\ told' = told \cup {"xrefs"}
  /\ \/ MakeAgain /\ UNCHANGED <<made, driver>>
     \/ /\ driver.state = "none"
        /\ \E again \in BOOLEAN, s \in Sessions :
             LET drop == again /\ m_Decompiler # 0
             IN /\ IF drop
                   THEN /\ made < MaxSessions
                        /\ s = made + 1
                        /\ made' = s
                        /\ sess' = [sess EXCEPT ![m_Decompiler].Stale = TRUE,
                                                ![s] = [NoSession EXCEPT !.file = file]]
                        /\ m_Decompiler' = s
                   ELSE Decompiler(m_Decompiler, s)
                /\ SE!SubmitAll((IF drop THEN <<[kind |-> "drop", s |-> m_Decompiler, arg |-> 0]>> ELSE <<>>)
                                \o <<[kind |-> "driver", s |-> s, arg |-> driver.generation]>>)
        /\ driver' = [driver EXCEPT !.state = "analyzing"]
  /\ UNCHANGED <<phase, io, window, file, files, closing, refresh, requestVars, viewVars, names, inbox>>

-----------------------------------------------------------------------------
\* OpenPE (the file opens, or fails to), OnFileClose, ResetFileState (a library, an
\* object or an ELF file is opened) and OnDestroy all close the decompiler:
\* CloseDecompiler(true) up to the Image lock ...
CloseDecompilerBegin(why) ==
  /\ InLoop
  /\ why \in {"open", "other"} => files < MaxFiles
  /\ closing' = why
  /\ Cancel(pending)
  /\ views' = IF why \in {"close", "other"} THEN {} ELSE views
  /\ UNCHANGED <<threadVars, sess, made, fileVars, m_Decompiler, refresh, used, shown,
                 names, driver, inbox>>

\* ... and from there, once no work reads through this session, to the end of the handler.
ImageFree_Unlocked(s) == TRUE                          \* (mutant: the lock is not taken)
ImageFree(s) == ~(io = "reading" /\ now.s = s)

CloseDecompilerEnd ==
  /\ closing # "no"
  /\ IF m_Decompiler = 0
     THEN UNCHANGED <<todo, now, ended, sess, m_Decompiler>>
     ELSE /\ ImageFree(m_Decompiler)
          /\ sess' = [sess EXCEPT ![m_Decompiler].Closed = TRUE]
          /\ LetGo
  /\ files' = IF closing \in {"open", "other"} THEN files + 1 ELSE files
  /\ file' = IF closing = "open" THEN files' ELSE 0
  /\ views' = IF closing = "fail" THEN views ELSE {}
  /\ driver' = IF closing \in {"open", "other"}
               THEN [state |-> "none", generation |-> driver.generation + 1, of |-> 0]
               ELSE driver
  /\ window' = (closing # "destroy")
  /\ told' = {}
  /\ closing' = "no"
  /\ UNCHANGED <<phase, io, made, refresh, requestVars, used, shown, names, inbox>>

-----------------------------------------------------------------------------
\* OnDecompilerAsk: what the decompiler's thread asks runs here, unless its file was closed.
Asked == now.s

AskArrives_IfOpen == InLoop /\ io \in {"asking", "names"} /\ ~sess[Asked].Closed  \* (mutant: else no answer)
AskArrives == InLoop /\ io \in {"asking", "names"}
AskRuns == AskArrives /\ ~sess[Asked].Closed

\* (the user's names are the last thing Open asks for: the decompiler is made then)
OnDecompilerAsk ==
  /\ AskArrives
  /\ io' = "none"
  /\ IF io = "names"
     THEN /\ phase' = "use"
          /\ sess' = [sess EXCEPT ![Asked].state = "made",
                                  ![Asked].names = IF AskRuns THEN names ELSE @]
     ELSE UNCHANGED <<phase, sess>>
  /\ UNCHANGED <<todo, now, ended, made, fileVars, m_Decompiler, closing, refresh, requestVars,
                 viewVars, names, driver, inbox>>

\* SendMessage to a window that is gone fails, and what waited for it goes on.
AskWindowGone ==
  /\ ~window
  /\ io \in {"asking", "names"}
  /\ io' = "none"
  /\ IF io = "names"
     THEN phase' = "use" /\ sess' = [sess EXCEPT ![Asked].state = "made"]
     ELSE UNCHANGED <<phase, sess>>
  /\ UNCHANGED <<todo, now, ended, made, fileVars, m_Decompiler, closing, refresh, requestVars,
                 viewVars, names, driver, inbox>>

\* OnDecompiled: the result goes to its view, if both are still wanted.
Answered_IfOpen(id) == pending' = IF reqs[id].view \in views THEN pending \ {id} ELSE pending  \* (mutant)
Answered(id) == pending' = pending \ {id}

OnDecompiled ==
  /\ InLoop
  /\ inbox # <<>> /\ Head(inbox).kind = "decompiled"
  /\ inbox' = Tail(inbox)
  /\ LET m == Head(inbox)
     IN /\ Answered(m.arg)
        /\ shown' = IF m.arg \in pending
                    THEN [v \in Views |-> IF reqs[m.arg].view = v /\ v \in views
                                          THEN [id |-> m.arg, names |-> m.names] ELSE shown[v]]
                    ELSE shown
  /\ UNCHANGED <<threadVars, sess, made, fileVars, m_Decompiler, closing, refresh, cancelled, reqs,
                 views, used, names, driver>>

\* OnDriverAnalyzed: taken if the generation is this one; the routines' names, if there
\* are any, make the session stale.
OnDriverAnalyzed ==
  /\ InLoop
  /\ inbox # <<>> /\ Head(inbox).kind = "driver"
  /\ inbox' = Tail(inbox)
  /\ IF Head(inbox).arg = driver.generation
     THEN /\ driver' = [driver EXCEPT !.state = "done", !.of = Head(inbox).file]
          /\ \/ MakeAgain
             \/ UNCHANGED <<todo, now, ended, sess, m_Decompiler>>
     ELSE UNCHANGED <<driver, todo, now, ended, sess, m_Decompiler>>
  /\ UNCHANGED <<phase, io, made, fileVars, closing, refresh, requestVars, viewVars, names>>

-----------------------------------------------------------------------------
(* The decompiler's thread *)
frameVars == <<made, fileVars, m_Decompiler, closing, refresh, requestVars, viewVars, names, driver>>
Running == now.kind \in {"decompile", "driver"}

\* (mutant: the newest work is taken first)
Take_Newest ==
  /\ ~ended /\ now = NoWork /\ todo # <<>>
  /\ now' = todo[Len(todo)] /\ todo' = SubSeq(todo, 1, Len(todo) - 1)
  /\ phase' = "begin"
  /\ UNCHANGED <<ended, frameVars, io, sess, inbox>>
Take ==
  /\ SE!Start
  /\ phase' = "begin"
  /\ UNCHANGED <<frameVars, io, sess, inbox>>

EndOfWork == SE!Finish /\ phase' = "idle"

\* DecompileAsync's work, cancelled while it waited
SkipCancelled ==
  /\ phase = "begin"
  /\ now.kind = "decompile"
  /\ now.arg \in cancelled
  /\ EndOfWork
  /\ UNCHANGED <<frameVars, io, sess, inbox>>

\* session->Open: the decompiler there is, why there is none, or a new one
Open ==
  /\ phase = "begin"
  /\ Running
  /\ ~(now.kind = "decompile" /\ now.arg \in cancelled)
  /\ phase' = CASE sess[now.s].state = "made" -> "use"
                [] sess[now.s].state = "failed" -> "post"
                [] sess[now.s].state = "new" -> "open"
  /\ UNCHANGED <<todo, now, ended, frameVars, io, sess, inbox>>

OpenFails ==
  /\ phase = "open" /\ io = "none"
  /\ sess' = [sess EXCEPT ![now.s].state = "failed"]
  /\ phase' = "post"
  /\ UNCHANGED <<todo, now, ended, frameVars, io, inbox>>

\* Ask(UserNames), the last question of Open
OpenAsksNames ==
  /\ phase = "open" /\ io = "none"
  /\ IF sess[now.s].Closed
     THEN /\ sess' = [sess EXCEPT ![now.s].state = "made"]
          /\ phase' = "use"
          /\ UNCHANGED io
     ELSE io' = "names" /\ UNCHANGED <<phase, sess>>
  /\ UNCHANGED <<todo, now, ended, frameVars, inbox>>

\* the image is read under the lock, unless the file was closed
ReadBegin ==
  /\ phase \in {"open", "use"} /\ io = "none"
  /\ ~sess[now.s].Closed
  /\ io' = "reading"
  /\ UNCHANGED <<todo, now, ended, phase, frameVars, sess, inbox>>

ReadEnds_Asking == InLoop /\ io = "reading"             \* (mutant: the lock is held while asking)
ReadEnds == io = "reading"

ReadEnd ==
  /\ ReadEnds
  /\ io' = "none"
  /\ UNCHANGED <<todo, now, ended, phase, frameVars, sess, inbox>>

\* Ask: nothing is sent once the file was closed
Ask ==
  /\ phase \in {"open", "use"} /\ io = "none"
  /\ ~sess[now.s].Closed
  /\ io' = "asking"
  /\ UNCHANGED <<todo, now, ended, phase, frameVars, sess, inbox>>

Decompile ==
  /\ phase = "use" /\ io = "none"
  /\ phase' = "post"
  /\ UNCHANGED <<todo, now, ended, frameVars, io, sess, inbox>>

\* The result is posted, unless the file was closed (or the window is gone).
PostResult ==
  /\ phase = "post"
  /\ inbox' = IF sess[now.s].Closed \/ ~window THEN inbox
              ELSE Append(inbox, [kind |-> IF now.kind = "driver" THEN "driver" ELSE "decompiled",
                                  arg |-> now.arg, names |-> sess[now.s].names,
                                  ok |-> sess[now.s].state = "made", file |-> sess[now.s].file])
  /\ EndOfWork
  /\ UNCHANGED <<frameVars, io, sess>>

\* RenameFunction's work (a decompiler that is not made yet takes the names when it is)
ApplyRename ==
  /\ phase = "begin"
  /\ now.kind = "rename"
  /\ sess' = IF sess[now.s].state = "made" /\ ~sess[now.s].Closed
             THEN [sess EXCEPT ![now.s].names = now.arg]
             ELSE sess
  /\ EndOfWork
  /\ UNCHANGED <<frameVars, io, inbox>>

\* CloseDecompiler's work: its reference goes
DropSession ==
  /\ phase = "begin"
  /\ now.kind = "drop"
  /\ EndOfWork
  /\ UNCHANGED <<frameVars, io, sess, inbox>>

\* DecompilerThread::Shutdown, after the last window: the work not started is dropped.
Shutdown ==
  /\ ~window
  /\ SE!End
  /\ UNCHANGED <<phase, io, frameVars, sess, inbox>>

-----------------------------------------------------------------------------
Over == ended /\ UNCHANGED vars

FrameStep == \/ \E v \in Views : DecompileFunction(v) \/ Redecompile(v) \/ CloseTab(v)
             \/ OnWindowCloseAll \/ RenameFunction \/ PreferConstantName
             \/ OnSymbolsLoaded \/ OnXrefsBuilt
             \/ \E why \in CloseReasons : CloseDecompilerBegin(why)
             \/ CloseDecompilerEnd
             \/ OnDecompilerAsk \/ OnDecompiled \/ OnDriverAnalyzed

ThreadStep == \/ Take \/ SkipCancelled \/ Open \/ OpenFails \/ OpenAsksNames
              \/ ReadBegin \/ ReadEnd \/ Ask \/ Decompile \/ PostResult
              \/ ApplyRename \/ DropSession

Next == FrameStep \/ ThreadStep \/ AskWindowGone \/ Shutdown \/ Over

\* The thread takes work and its steps end (a decompilation reads and asks finitely
\* often); the frame's loop takes its messages and its handlers end.
Fairness == /\ WF_vars(Take) /\ WF_vars(SkipCancelled) /\ WF_vars(Open) /\ WF_vars(ReadEnd)
            /\ SF_vars(OpenAsksNames) /\ SF_vars(Decompile)
            /\ WF_vars(PostResult) /\ WF_vars(ApplyRename) /\ WF_vars(DropSession)
            /\ WF_vars(AskWindowGone)
            /\ SF_vars(OnDecompilerAsk)
            /\ WF_vars(OnDecompiled) /\ WF_vars(OnDriverAnalyzed)
            /\ WF_vars(CloseDecompilerEnd)
            /\ \A v \in Views : WF_vars(Redecompile(v))

Spec == Init /\ [][Next]_vars
FairSpec == Spec /\ Fairness

-----------------------------------------------------------------------------
(* Properties *)

\* The image is read only while the file it is of is open: the lock that CloseDecompiler
\* takes keeps a read in progress from losing its file (MainFrm.h:438).  Of a session
\* that was not made stale before.
ImageReadOfOpenFile == io = "reading" /\ ~sess[now.s].Stale => sess[now.s].file = file

\* What the decompiler's thread asks runs on the frame's thread with the file it is about
\* still open, although the question waits in SendMessage while handlers run.
AskOfOpenFile == AskRuns /\ ~sess[Asked].Stale => sess[Asked].file = file

\* What the decompiler's work reads and asks is of the file that is open.
WorkIsOfOpenFile == ImageReadOfOpenFile /\ AskOfOpenFile

\* As the declarations say it (MainFrm.h:436-438: once Closed "nothing more is read or
\* asked"; the lock is held exclusively "when the file is closed"): no exception for a
\* session that became stale.
NothingReadOfClosedFile == io = "reading" => sess[now.s].file = file

\* What a view is given is code of the file it was opened for, never of the file before, and
\* newer than what it shows.
ViewMovesOn ==
  [][\A v \in Views : shown'[v] # shown[v] /\ shown'[v] # Nothing
                        => reqs[shown'[v].id].file = file /\ shown'[v].id > shown[v].id]_vars

\* With nothing pending for it, an open view shows what was last asked for it.
IsLatest(r, v) == reqs[r].view = v /\ \A q \in DOMAIN reqs : reqs[q].view = v => q <= r
SettledViewShowsLatest ==
  file # 0 /\ InLoop =>
    \A v \in views : \E r \in DOMAIN reqs : IsLatest(r, v) /\ (r \in pending \/ shown[v].id = r)

\* A decompilation asked for after a rename has the new name, whether the decompiler was
\* made already (the rename's own work comes first) or not (it asks for the names).
RenameIsSeen ==
  \A i \in 1..Len(inbox) :
    inbox[i].kind = "decompiled" /\ inbox[i].ok => inbox[i].names >= reqs[inbox[i].arg].names

\* Decompilers are destroyed on the decompiler's thread (DecompilerThread.h:10-12): the
\* last reference to a session with one goes when that thread ends a piece of work, or
\* drops the work left.
Referenced(s) == \/ m_Decompiler = s
                 \/ now.s = s
                 \/ \E i \in 1..Len(todo) : todo[i].s = s
LastReferenceGoesOnThread ==
  [][\A s \in Sessions : Referenced(s) /\ ~Referenced(s)'
                           => now.s = s \/ ended' # ended]_vars

\* The status line's "Decompiling..." ends: every request is answered or withdrawn.
PendingSettles == \A r \in Requests : r \in pending ~> r \notin pending

\* Closing a file does not hang the window, whatever is being decompiled.
CloseCompletes == closing # "no" ~> closing = "no"

\* A session that was closed or replaced is let go.
OldSessionGoes == \A s \in Sessions : s <= made /\ m_Decompiler # s ~> ~Referenced(s)
=============================================================================
