------------------------------ MODULE Commands -------------------------------
(***************************************************************************)
(* The commands of tpe (TotalPE.Cli/main.cpp): info, scan, check, cluster   *)
(* and diff.  All but info and the diff of two files give their files to    *)
(* RunOrdered, of which OrderedOutput is the specification (RunOrdered      *)
(* implements it), and decide from what was counted, from the problems of   *)
(* listing the files, and from whether the run was complete, with which     *)
(* code the process exits.  Ctrl+C comes at any moment.                     *)
(*                                                                         *)
(* A file is what can be said of it: an item of the input.  What a report   *)
(* contains, what cluster writes (MakeClusters is in Clusters), and that a  *)
(* write may fail, are left out.                                            *)
(***************************************************************************)
EXTENDS OrderedOutput, Integers, FiniteSetsExt

ASSUME SomeItems == Count > 0

VARIABLES
  command,
  item,         \* of each item of the input: its file, or the two files of its name
  problems,     \* something of the input was not found, or could not be listed
  full,         \* info --text: each as it comes; check --json or -v, diff without --text: the right ones too
  wants,        \* where reports go: "main" (standard output, -o, --jsonl) and "csv"
  at,           \* "start", "pair" (diff), "run", "finish" or "exited"
  left, right,  \* diff: the names of each directory that are not in a pair yet
  pairs,        \* diff: the relative paths of both directories
  counts,       \* the results consumed, of each kind
  written,      \* what was written to each
  code          \* the exit code, or -1

worldVars == <<command, item, problems, full, wants>>
vars == <<out, g_Cancel, verdict, worldVars, at, left, right, pairs, counts, written, code>>
pairVars == <<left, right, pairs>>

\* ExitCode
Success == 0
SomeFailed == 1
UsageError == 2
CheckFailed == 3

Items == 0..(Count - 1)
FileStatus == {"Ok", "NotPE", "Failed"}
Results == {"ok", "unmet", "failed", "skipped", "changed", "oneSided"}

\* What a file, or a pair of files, can be.  'good': it meets the requirements (check); the two are
\* identical (diff).  "absent": it is in one of the two directories only.
One == [left : FileStatus, right : {"absent"}, good : BOOLEAN]
Two == [left : FileStatus, right : FileStatus, good : BOOLEAN]
OneSided == [left : FileStatus, right : {"absent"}, good : {FALSE}] \cup [left : {"absent"}, right : FileStatus, good : {FALSE}]
Readable(f) == f.left \in {"Ok", "absent"} /\ f.right \in {"Ok", "absent"}

Inputs(c) == {f \in IF c = "diff" THEN Two \cup OneSided ELSE IF c = "diff2" THEN Two ELSE One :
                 f.good => Readable(f) /\ c \in {"check", "diff", "diff2"}}   \* (else it says nothing)

\* "diff2": diff of two files, the first item; "diff": of two directories
CommandNames == {"info", "scan", "check", "cluster", "diff", "diff2"}
Wants(c) == IF c = "scan" THEN SUBSET {"main", "csv"} \ {{}} ELSE {{"main"}}

Pairs == [name : Items, Left : BOOLEAN, Right : BOOLEAN]
Lines == [name : Items, result : Results]

TypeOK ==
  /\ out \in Seq(Items) /\ Len(out) <= Count
  /\ g_Cancel \in BOOLEAN
  /\ verdict \in {"none", "complete", "cancelled"}
  /\ command \in CommandNames
  /\ item \in [Items -> Inputs(command)]
  /\ problems \in BOOLEAN
  /\ full \in BOOLEAN
  /\ wants \in Wants(command)
  /\ at \in {"start", "pair", "run", "finish", "exited"}
  /\ left \subseteq Items /\ right \subseteq Items
  /\ pairs \in Seq(Pairs) /\ Len(pairs) <= Count
  /\ counts \in [Results -> 0..Count]
  /\ written \in [{"main", "csv"} -> Seq(Lines)]
  /\ code \in {-1, Success, SomeFailed, UsageError, CheckFailed}

Init ==
  /\ OutputInit
  /\ command \in CommandNames
  /\ item \in [Items -> Inputs(command)]
  /\ problems \in BOOLEAN
  /\ command = "diff2" => ~problems /\ \A k \in Items : item[k] = item[0]    \* (only item 0 is given)
  /\ full \in BOOLEAN
  /\ wants \in Wants(command)
  /\ at = "start"
  /\ left = {} /\ right = {}
  /\ pairs = <<>>
  /\ counts = [r \in Results |-> 0]
  /\ written = [o \in {"main", "csv"} |-> <<>>]
  /\ code = -1

-----------------------------------------------------------------------------
Exit(c) == at' = "exited" /\ code' = c

\* ListDirectory: the names there, sorted: the least is the next
InLeft(k) == item[k].left # "absent"
InRight(k) == item[k].right # "absent"
LeftNames == {k \in Items : InLeft(k)}
RightNames == {k \in Items : InRight(k)}

\* ParseArguments, or an output or the rules, fail: nothing was read
CannotStart == Exit(UsageError) /\ UNCHANGED <<left, right>>

\* wmain and the beginning of a command (--version and --help, which end at once, are left out)
Start ==
  /\ at = "start"
  /\ \/ CannotStart
     \/ /\ at' = IF command = "diff" THEN "pair" ELSE "run"
        /\ left' = IF command = "diff" THEN LeftNames ELSE {}
        /\ right' = IF command = "diff" THEN RightNames ELSE {}
        /\ UNCHANGED code
  /\ UNCHANGED <<out, g_Cancel, verdict, worldVars, pairs, counts, written>>

\* DiffDirectories: the names of both, in order, those that are equal together
NextOf(these, others) == these # {} /\ (others = {} \/ Min(these) <= Min(others))
Past(names, next) == IF next THEN names \ {Min(names)} ELSE names

PairNames ==
  /\ at = "pair" /\ (left # {} \/ right # {})
  /\ LET l == NextOf(left, right)
         r == NextOf(right, left)
     IN /\ pairs' = Append(pairs, [name |-> IF l THEN Min(left) ELSE Min(right), Left |-> l, Right |-> r])
        /\ left' = Past(left, l)
        /\ right' = Past(right, r)
  /\ UNCHANGED <<out, g_Cancel, verdict, worldVars, at, counts, written, code>>

AllPaired ==
  /\ at = "pair" /\ left = {} /\ right = {}
  /\ at' = "run"
  /\ UNCHANGED <<out, g_Cancel, verdict, worldVars, left, right, pairs, counts, written, code>>

\* DiffFiles
DiffFiles(f) ==
  CASE f.left = "NotPE" /\ f.right = "NotPE" -> "skipped"
    [] ~Readable(f) /\ ~(f.left = "NotPE" /\ f.right = "NotPE") -> "failed"
    [] Readable(f) -> IF f.good THEN "ok" ELSE "changed"

\* AnalyzeFile, and what the command makes of it
Analyzed(f) == CASE f.left = "Ok" -> IF command = "check" /\ ~f.good THEN "unmet" ELSE "ok"
                 [] f.left = "NotPE" -> IF command = "info" THEN "failed" ELSE "skipped"
                 [] f.left = "Failed" -> "failed"

Result(k) == CASE command = "diff" -> LET p == pairs[k + 1]
                                      IN IF p.Left /\ p.Right THEN DiffFiles(item[p.name]) ELSE "oneSided"
               [] command = "diff2" -> DiffFiles(item[k])
               [] OTHER -> Analyzed(item[k])

Name(k) == IF command = "diff" THEN pairs[k + 1].name ELSE k

\* What is written of a result as it is consumed.  (info writes JSON at the end)
Listed(r) == CASE command = "info" -> full
               [] command = "cluster" -> FALSE
               [] command = "scan" -> r # "skipped"
               [] command = "check" -> r \in {"unmet", "failed"} \/ (full /\ r = "ok")
               [] command \in {"diff", "diff2"} -> r # "skipped" /\ (full \/ r # "ok" \/ command = "diff2")

Line(k) == [name |-> Name(k), result |-> Result(k)]
\* (mutant: only one of the two outputs is written)
Write_Either(lines) == written' = IF "main" \in wants THEN [written EXCEPT !["main"] = @ \o lines]
                                                      ELSE [written EXCEPT !["csv"] = @ \o lines]
Write(lines) == written' = [o \in {"main", "csv"} |-> IF o \in wants THEN written[o] \o lines ELSE written[o]]

\* the function given to RunOrdered, for item k; or the body of info's loop
Consume(k) ==
  /\ counts' = [counts EXCEPT ![Result(k)] = @ + 1]
  /\ Write(IF Listed(Result(k)) THEN <<Line(k)>> ELSE <<>>)

Ordered == {"scan", "check", "cluster", "diff"}

RunDelivers ==
  /\ at = "run" /\ command \in Ordered
  /\ Deliver
  /\ Consume(Len(out))
  /\ UNCHANGED <<worldVars, at, pairVars, code>>

RunReturns ==
  /\ at = "run" /\ command \in Ordered
  /\ Return
  /\ at' = "finish"
  /\ UNCHANGED <<worldVars, pairVars, counts, written, code>>

Info ==
  /\ at = "run" /\ command = "info"
  /\ IF g_Cancel \/ Len(out) = Count
     THEN at' = "finish" /\ UNCHANGED <<out, g_Cancel, verdict, counts, written>>
     ELSE Deliver /\ Consume(Len(out)) /\ UNCHANGED at
  /\ UNCHANGED <<worldVars, pairVars, code>>

DiffTwoFiles ==
  /\ at = "run" /\ command = "diff2"
  /\ Consume(0)
  /\ out' = <<0>>
  /\ Exit(CASE Result(0) \in {"skipped", "failed"} -> UsageError
            [] Result(0) = "ok" -> Success
            [] Result(0) = "changed" -> SomeFailed)
  /\ UNCHANGED <<g_Cancel, verdict, worldVars, pairVars>>

-----------------------------------------------------------------------------
Complete == verdict = "complete"

ScanCode == IF counts["failed"] > 0 \/ problems \/ ~Complete THEN SomeFailed ELSE Success
ClusterCode == IF ~Complete \/ counts["failed"] > 0 \/ problems THEN SomeFailed ELSE Success
InfoCode == IF counts["failed"] > 0 \/ problems THEN SomeFailed ELSE Success
CheckCode_Errors ==                                   \* (mutant: what was not analyzed hides what failed)
  IF counts["failed"] > 0 \/ problems \/ ~Complete THEN SomeFailed
  ELSE IF counts["unmet"] > 0 THEN CheckFailed ELSE Success
CheckCode == IF counts["unmet"] > 0 THEN CheckFailed ELSE ScanCode
DiffCode == IF counts["failed"] > 0 \/ problems \/ ~Complete THEN UsageError
            ELSE IF counts["changed"] > 0 \/ counts["oneSided"] > 0 THEN SomeFailed ELSE Success

\* After the run: info's JSON, of every file read, and the code.
Finish ==
  /\ at = "finish"
  /\ Write(IF command = "info" /\ ~full THEN [n \in DOMAIN out |-> Line(out[n])] ELSE <<>>)
  /\ Exit(CASE command = "info" -> InfoCode
            [] command = "scan" -> ScanCode
            [] command = "check" -> CheckCode
            [] command = "cluster" -> ClusterCode
            [] command = "diff" -> DiffCode)
  /\ UNCHANGED <<out, g_Cancel, verdict, worldVars, pairVars, counts>>

\* Ctrl+C or Ctrl+Break
CtrlHandler == /\ at # "exited" /\ ~g_Cancel
               /\ CtrlC
               /\ UNCHANGED <<worldVars, at, pairVars, counts, written, code>>

Over == at = "exited" /\ UNCHANGED vars

Next == Start \/ PairNames \/ AllPaired \/ RunDelivers \/ RunReturns \/ Info \/ DiffTwoFiles \/ Finish \/ CtrlHandler \/ Over

Spec == Init /\ [][Next]_vars

-----------------------------------------------------------------------------
(* Properties *)

\* What is right with an item of the input, for the command: of itself, not of how it was handled
BothNotPE(f) == f.left = "NotPE" /\ f.right = "NotPE"
Differs(f) == f.left = "absent" \/ f.right = "absent" \/ (Readable(f) /\ ~f.good)
Right(k) == CASE command = "info" -> item[k].left = "Ok"
              [] command \in {"scan", "cluster"} -> item[k].left # "Failed"
              [] command = "check" -> item[k].left = "NotPE" \/ (item[k].left = "Ok" /\ item[k].good)
              [] command = "diff" -> BothNotPE(item[k]) \/ (Readable(item[k]) /\ ~Differs(item[k]))
              [] command = "diff2" -> Readable(item[k]) /\ ~Differs(item[k])

Given == IF command = "diff2" THEN {0} ELSE Items
Handled == {k \in Given : k < Len(out)}

\* The exit code says what happened (main.cpp:29-33, 86, 95, 117): 0 only if every file given was
\* handled and nothing was wrong, in whatever order the files and Ctrl+C came; 1, 2 and 3 only for
\* their reasons.  (info, when it is cancelled, exits with 0 or 1 for the files before.)
Interrupted == problems \/ g_Cancel
ExitCodeTells ==
  at = "exited" =>
    /\ code = Success /\ ~(command = "info" /\ g_Cancel)
         => ~problems /\ \A k \in Given : k \in Handled /\ Right(k)
    /\ code = SomeFailed => Interrupted \/ \E k \in Handled : ~Right(k)
    /\ code = SomeFailed /\ command \in {"diff", "diff2"}
         => \A k \in Given : k \in Handled /\ (Right(k) \/ Differs(item[k]))
    /\ code = UsageError /\ out # <<>>
         => \/ command = "diff" /\ Interrupted
            \/ command \in {"diff", "diff2"} /\ \E k \in Handled : ~Right(k) /\ ~Differs(item[k])
    /\ code = CheckFailed <=> command = "check" /\ \E k \in Handled : item[k].left = "Ok" /\ ~item[k].good

\* What was found wrong is in every output of the command, in the order of the input and once, and
\* so is all that is reported: a CSV summary has the rows of the JSON lines.
Reports(o) == [n \in DOMAIN written[o] |-> written[o][n].name]
WrongIsWritten ==
  at = "exited" /\ out # <<>> /\ command # "cluster" =>
    \A o \in wants :
      /\ \A m, n \in DOMAIN written[o] : m < n => Reports(o)[m] < Reports(o)[n]
      /\ \A k \in Handled : ~Right(k) /\ ~(command = "diff2" /\ BothNotPE(item[k]))
                              => \E n \in DOMAIN written[o] : Reports(o)[n] = k
      /\ \A n \in DOMAIN written[o] : written[o][n].result # "skipped" /\ Reports(o)[n] \in Handled
=============================================================================
