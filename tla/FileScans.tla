------------------------------ MODULE FileScans ------------------------------
(***************************************************************************)
(* The scans of a file in a window (TotalPE/MainFrm.cpp): the VirusTotal    *)
(* scan that the user starts (PECore/VirusTotal.cpp), and the YARA rules    *)
(* of the settings, loaded and matched when a file is opened or the rules  *)
(* are chosen.  Their threads are detached and have copies of what they     *)
(* need: what they post carries a generation.  The settings are those of    *)
(* all the windows.                                                        *)
(*                                                                         *)
(* The message boxes of these handlers disable the window: none of its      *)
(* commands runs in them.  In that of OpenPE (see OpenFile) a status or a   *)
(* result of the file before may be taken, but CancelVirusTotal and        *)
(* StartYara, which come after it, undo that.  A scan goes on when the window is destroyed, and *)
(* nothing is left to tell: the destroyed window is left out.              *)
(***************************************************************************)
EXTENDS Naturals, Sequences, FiniteSets

CONSTANTS
  Paths,              \* of rules
  None,               \* no rules
  MaxOpens,           \* bound: how many files are opened
  MaxScans,           \* bound: how many VirusTotal scans are started
  MaxChoices,         \* bound: how often rules are chosen or cleared
  MaxPolls            \* how often the analysis is asked for in 15 minutes

ASSUME NoneIsNoPath == None \notin Paths
ASSUME ScanBoundsAreNat == {MaxOpens, MaxScans, MaxChoices, MaxPolls} \subseteq Nat

VARIABLES
  m_PE,               \* the number of the file opened, or 0 (closed)
  opened,             \* the files opened
  m_Vt,               \* the status shown, and the file it is of
  m_VtGeneration,
  m_VtCancel,         \* the scan whose flag the frame has, or 0
  scans,              \* the threads in vt::Scan, one for each generation they were started with
  started,            \* the scans started (bounds the model)
  statuses,           \* the WM_VT_STATUS posted
  YaraRules,          \* AppSettings: the path of the rules, or None
  m_Yara,             \* the rules loaded, or None
  m_YaraMatches,      \* the file they are of, and the rules that matched; or none
  m_YaraGeneration,
  matchers,           \* the threads that load and match
  found,              \* the WM_YARA_DONE posted
  choices,            \* the rules chosen or cleared (bounds the model)
  user                \* bound: a behaviour has VirusTotal scans, or YARA rules (they share only the file)

openVars == <<m_PE, opened>>
vtVars == <<m_Vt, m_VtGeneration, m_VtCancel, scans, started, statuses>>
yaraVars == <<YaraRules, m_Yara, m_YaraMatches, m_YaraGeneration, matchers, found, choices>>
scanVars == <<openVars, vtVars, yaraVars, user>>

RunningPhases == {"Hashing", "Lookup", "Uploading", "Queued", "Analyzing"}
Phases == {"Idle", "Done", "Failed"} \cup RunningPhases
Rules == Paths \cup {None}

NoStatus == [Step |-> "Idle", of |-> 0]
NoMatches == [of |-> 0, rules |-> None]

ScansTypeOK ==
  /\ m_PE \in 0..MaxOpens
  /\ opened \in 0..MaxOpens
  /\ m_Vt \in [Step : Phases, of : 0..MaxOpens]
  /\ m_VtGeneration \in Nat
  /\ m_VtCancel \in Nat
  /\ scans \subseteq [gen : Nat, of : 1..MaxOpens, Step : Phases \ {"Idle"}, at : {"tell", "post", "work"},
                      cancel : BOOLEAN, polls : 0..MaxPolls]
  /\ started \in 0..MaxScans
  /\ statuses \in Seq([gen : Nat, of : 1..MaxOpens, Step : Phases \ {"Idle"}])
  /\ YaraRules \in Rules
  /\ m_Yara \in Rules
  /\ m_YaraMatches \in [of : 0..MaxOpens, rules : Rules]
  /\ m_YaraGeneration \in Nat
  /\ matchers \subseteq [gen : Nat, path : Paths, rules : Rules, of : 0..MaxOpens]
  /\ found \subseteq [gen : Nat, loaded : BOOLEAN, rules : Rules, of : 0..MaxOpens]
  /\ choices \in 0..MaxChoices
  /\ user \in {"scans", "rules"}

ScansInit ==
  /\ m_PE = 0
  /\ opened = 0
  /\ m_Vt = NoStatus
  /\ m_VtGeneration = 0
  /\ m_VtCancel = 0
  /\ scans = {}
  /\ started = 0
  /\ statuses = <<>>
  /\ user \in {"scans", "rules"}
  /\ YaraRules \in IF user = "rules" THEN Rules ELSE {None}
  /\ m_Yara = None
  /\ m_YaraMatches = NoMatches
  /\ m_YaraGeneration = 0
  /\ matchers = {}
  /\ found = {}
  /\ choices = 0

IsRunning(step) == step \in RunningPhases

-----------------------------------------------------------------------------
(* The VirusTotal scan: the window *)

\* the flag of the scan that the window knows
WithFlag_Not == scans                                          \* (mutant: the scan is not told)
WithFlag == {[s EXCEPT !.cancel = @ \/ s.gen = m_VtCancel] : s \in scans}

CancelVirusTotal ==
  /\ scans' = WithFlag
  /\ m_VtCancel' = 0
  /\ m_VtGeneration' = m_VtGeneration + 1
  /\ m_Vt' = NoStatus

NewScan(g) == [gen |-> g, of |-> m_PE, Step |-> "Hashing", at |-> "tell", cancel |-> FALSE, polls |-> 0]

\* OnVirusTotal, when the user agrees and there is a key
OnVirusTotal ==
  /\ m_PE # 0 /\ ~IsRunning(m_Vt.Step)
  /\ user = "scans" /\ started < MaxScans
  /\ started' = started + 1
  /\ scans' = WithFlag \cup {NewScan(m_VtGeneration + 1)}
  /\ m_VtGeneration' = m_VtGeneration + 1
  /\ m_VtCancel' = m_VtGeneration + 1
  /\ m_Vt' = [Step |-> "Hashing", of |-> m_PE]
  /\ UNCHANGED <<openVars, statuses, yaraVars, user>>

StatusTaken(m) == m.gen = m_VtGeneration /\ m_PE # 0

OnVirusTotalStatus ==
  /\ statuses # <<>>
  /\ statuses' = Tail(statuses)
  /\ LET m == Head(statuses)
     IN IF StatusTaken(m)
        THEN /\ m_Vt' = [Step |-> m.Step, of |-> m.of]
             /\ m_VtCancel' = IF IsRunning(m.Step) THEN m_VtCancel ELSE 0
        ELSE UNCHANGED <<m_Vt, m_VtCancel>>
  /\ UNCHANGED <<openVars, m_VtGeneration, scans, started, yaraVars, user>>

-----------------------------------------------------------------------------
(* The VirusTotal scan: its thread *)

\* (a thread that ended is gone)
Becomes(s, t) == scans' = (scans \ {s}) \cup IF t.at = "ended" THEN {} ELSE {t}

\* publish: if (!cancel.load()) ...
Tell(s) ==
  /\ s.at = "tell"
  /\ Becomes(s, [s EXCEPT !.at = IF ~s.cancel THEN "post" ELSE IF IsRunning(s.Step) THEN "work" ELSE "ended"])
  /\ UNCHANGED <<openVars, m_Vt, m_VtGeneration, m_VtCancel, started, statuses, yaraVars, user>>

\* ... notify(status): cancelled or not, by now.  (The percents of an upload are left out.)
Post(s) ==
  /\ s.at = "post"
  /\ Becomes(s, [s EXCEPT !.at = IF IsRunning(s.Step) THEN "work" ELSE "ended"])
  /\ statuses' = Append(statuses, [gen |-> s.gen, of |-> s.of, Step |-> s.Step])
  /\ UNCHANGED <<openVars, m_Vt, m_VtGeneration, m_VtCancel, started, yaraVars, user>>

\* The phase after what is done in a phase: a file that VirusTotal knows is not uploaded
After(step) ==
  CASE step = "Hashing" -> {"Lookup", "Failed"}
    [] step = "Lookup" -> {"Done", "Uploading", "Failed"}
    [] step = "Uploading" -> {"Queued", "Failed"}
    [] OTHER -> {"Queued", "Analyzing", "Done", "Failed"}

Polls(step) == step \in {"Queued", "Analyzing"}

TimeIsUp_Late(s) == Polls(s.Step) /\ s.polls > MaxPolls       \* (mutant)
TimeIsUp(s) == Polls(s.Step) /\ s.polls = MaxPolls

\* if (cancel.load()) return, after a request, a hash or a wait ended
Cancelled(s) ==
  /\ s.at = "work" /\ s.cancel
  /\ Becomes(s, [s EXCEPT !.at = "ended"])
  /\ UNCHANGED <<openVars, m_Vt, m_VtGeneration, m_VtCancel, started, statuses, yaraVars, user>>

\* the hash, the request, or the wait and the request
Work(s) ==
  /\ s.at = "work" /\ ~s.cancel
  /\ ~TimeIsUp(s)
  /\ \E step \in After(s.Step) :
       Becomes(s, [s EXCEPT !.at = "tell", !.Step = step, !.polls = IF Polls(s.Step) THEN @ + 1 ELSE @])
  /\ UNCHANGED <<openVars, m_Vt, m_VtGeneration, m_VtCancel, started, statuses, yaraVars, user>>

\* status 429: it is asked again, after a longer wait
AskAgain(s) ==
  /\ s.at = "work" /\ ~s.cancel
  /\ Polls(s.Step) /\ ~TimeIsUp(s)
  /\ Becomes(s, [s EXCEPT !.polls = @ + 1])
  /\ UNCHANGED <<openVars, m_Vt, m_VtGeneration, m_VtCancel, started, statuses, yaraVars, user>>

\* 15 minutes are over
GivesUp_Silently(s) == Becomes(s, [s EXCEPT !.at = "ended"])   \* (mutant)
GivesUp(s) == Becomes(s, [s EXCEPT !.at = "tell", !.Step = "Failed"])

TimeOut(s) ==
  /\ s.at = "work"
  /\ TimeIsUp(s)
  /\ GivesUp(s)
  /\ UNCHANGED <<openVars, m_Vt, m_VtGeneration, m_VtCancel, started, statuses, yaraVars, user>>

ScanStep(s) == Tell(s) \/ Post(s) \/ Cancelled(s) \/ Work(s) \/ AskAgain(s) \/ TimeOut(s)

-----------------------------------------------------------------------------
(* The YARA rules *)

\* StartYara, with the open file f: a thread, unless there is nothing to load or to match
StartYara(path, rules, f) ==
  /\ m_YaraGeneration' = m_YaraGeneration + 1
  /\ m_YaraMatches' = NoMatches
  /\ matchers' = IF path = None \/ (rules # None /\ f = 0) THEN matchers
                 ELSE matchers \cup {[gen |-> m_YaraGeneration + 1, path |-> path, rules |-> rules, of |-> f]}

ResetYara ==
  /\ m_YaraGeneration' = m_YaraGeneration + 1
  /\ m_YaraMatches' = NoMatches

\* OnYaraRules: loaded again, from the path that was chosen
ChooseRules(path) ==
  /\ user = "rules" /\ choices < MaxChoices
  /\ choices' = choices + 1
  /\ YaraRules' = path
  /\ m_Yara' = None
  /\ StartYara(path, None, m_PE)
  /\ UNCHANGED <<openVars, vtVars, found, user>>

\* OnYaraClear
ClearRules ==
  /\ user = "rules" /\ choices < MaxChoices
  /\ choices' = choices + 1
  /\ YaraRules' = None
  /\ m_Yara' = None
  /\ ResetYara
  /\ UNCHANGED <<openVars, vtVars, matchers, found, user>>

\* OnYaraRules, OnYaraClear or OnYaraDone of another window: the settings are the same
OtherWindow ==
  /\ user = "rules"
  /\ YaraRules' \in Rules \ {YaraRules}
  /\ UNCHANGED <<openVars, vtVars, m_Yara, m_YaraMatches, m_YaraGeneration, matchers, found, choices, user>>

\* The thread ends: rules that are not there yet are loaded, or cannot be; then they are matched
\* (no file is named in the result if there are none)
MatcherEnds(y) ==
  /\ matchers' = matchers \ {y}
  /\ \E rules \in IF y.rules # None THEN {y.rules} ELSE {y.path, None} :
       found' = found \cup {[gen |-> y.gen, loaded |-> y.rules = None, rules |-> rules,
                            of |-> IF rules = None THEN 0 ELSE y.of]}
  /\ UNCHANGED <<openVars, vtVars, YaraRules, m_Yara, m_YaraMatches, m_YaraGeneration, choices, user>>

MatchTaken_Any(m) == TRUE                                      \* (mutant: of any generation)
MatchTaken(m) == m.gen = m_YaraGeneration

OnYaraDone(m) ==
  /\ found' = found \ {m}
  /\ IF MatchTaken(m)
     THEN LET rules == IF m.loaded THEN m.rules ELSE m_Yara
          IN /\ m_Yara' = rules
             /\ YaraRules' = IF rules = None THEN None ELSE YaraRules     \* so that the next file does not try again
             /\ m_YaraMatches' = IF rules # None /\ m.of # 0 /\ m.of = m_PE
                                 THEN [of |-> m.of, rules |-> m.rules] ELSE m_YaraMatches
     ELSE UNCHANGED <<m_Yara, YaraRules, m_YaraMatches>>
  /\ UNCHANGED <<openVars, vtVars, m_YaraGeneration, matchers, choices, user>>

-----------------------------------------------------------------------------
(* The file *)

\* OpenPE, when the file can be opened
OpenSucceeds ==
  /\ opened < MaxOpens
  /\ opened' = opened + 1
  /\ m_PE' = opened + 1
  /\ CancelVirusTotal
  /\ StartYara(YaraRules, m_Yara, opened + 1)
  /\ UNCHANGED <<started, statuses, YaraRules, m_Yara, found, choices, user>>

\* OpenPE, when it cannot: the file before is closed, its scans go on
OpenCannot ==
  /\ m_PE # 0                      \* (bound: failing over no file changes nothing)
  /\ m_PE' = 0
  /\ UNCHANGED <<opened, vtVars, yaraVars, user>>

\* There is something to close (bound: closing nothing again only counts generations)
SomethingOpen ==
  \/ m_PE # 0 \/ m_Vt.Step # "Idle" \/ m_YaraMatches.of # 0
  \/ \E y \in matchers \cup found : y.gen = m_YaraGeneration

\* OnFileClose; ResetFileState, before a library, an object file or an ELF file is shown
Close ==
  /\ SomethingOpen
  /\ m_PE' = 0
  /\ CancelVirusTotal
  /\ ResetYara
  /\ UNCHANGED <<opened, started, statuses, YaraRules, m_Yara, matchers, found, choices, user>>

-----------------------------------------------------------------------------
\* The window waits for the user
Waits == scans = {} /\ matchers = {} /\ UNCHANGED scanVars

ScanSteps == \E s \in scans : ScanStep(s)

ScansNext ==
  \/ OpenSucceeds \/ OpenCannot \/ Close
  \/ OnVirusTotal \/ OnVirusTotalStatus \/ ScanSteps
  \/ \E path \in Paths : ChooseRules(path)
  \/ ClearRules \/ OtherWindow
  \/ \E y \in matchers : MatcherEnds(y)
  \/ \E m \in found : OnYaraDone(m)
  \/ Waits

ScansSpec == ScansInit /\ [][ScansNext]_scanVars

\* A thread runs (its requests and waits have time limits: each takes finitely many steps), and
\* the loop dispatches what is posted.
ScansFairness == WF_scanVars(ScanSteps) /\ WF_scanVars(OnVirusTotalStatus)
FairScansSpec == ScansSpec /\ ScansFairness

-----------------------------------------------------------------------------
(* Properties *)

\* What is shown of a scan is of the file that is open, and the matches are those of the rules
\* that are loaded (whose number is told with them), whatever was posted before.
ScansAreOfOpenFile ==
  m_PE # 0 => /\ m_Vt.of \in {0, m_PE}
              /\ m_YaraMatches.of \in {0, m_PE}
              /\ m_YaraMatches.of # 0 => m_YaraMatches.rules = m_Yara

\* A scan that is shown as running (no other can be started) has one thread that is not
\* cancelled and tells how it ends, or told it; and no other thread goes on.
Telling == {s \in scans : ~s.cancel}
ToldEnd == {i \in DOMAIN statuses : statuses[i].gen = m_VtGeneration /\ ~IsRunning(statuses[i].Step)}
RunningScanIsTold ==
  m_PE # 0 => Cardinality(Telling) + Cardinality(ToldEnd) = IF IsRunning(m_Vt.Step) THEN 1 ELSE 0

\* A scan ends: the user can start another.
ScanEnds == IsRunning(m_Vt.Step) /\ m_PE # 0 ~> ~IsRunning(m_Vt.Step) \/ m_PE = 0
=============================================================================
