--------------------------- MODULE Programs_Proofs ---------------------------
(* Proofs about the programs beside TotalPE: the commands of the command    *)
(* line, for any number of files, of any kind (Spec, of Commands), its      *)
(* clusters, for any number of files and threads and any distances          *)
(* (ClustersSpec), and the API explorer, for any number of processes and of *)
(* versions of the metadata (ExplorerSpec).                                 *)
EXTENDS Commands, Clusters, ApiExplorer, FiniteSetTheorems, WellFoundedInduction, TLAPS

-----------------------------------------------------------------------------
(* The commands *)

\* What an item gives, by the file, or the two, that it is.
ResultOf(k) ==
  CASE command = "diff" -> IF InLeft(k) /\ InRight(k) THEN DiffFiles(item[k]) ELSE "oneSided"
    [] command = "diff2" -> DiffFiles(item[k])
    [] OTHER -> Analyzed(item[k])

\* The pairs are the names of both directories, each once and in order, with where it is; those that
\* are not in a pair yet are left.
PairsAreNames ==
  /\ \A n \in 1..Len(pairs) : pairs[n] = [name |-> n - 1, Left |-> InLeft(n - 1), Right |-> InRight(n - 1)]
  /\ at = "start" => pairs = <<>>
  /\ at = "pair" => /\ left = {k \in LeftNames : k >= Len(pairs)}
                    /\ right = {k \in RightNames : k >= Len(pairs)}
  /\ command = "diff" /\ (at \in {"run", "finish"} \/ out # <<>>) => Len(pairs) = Count

\* The results come in order; before a run there are none, and it is over as its verdict says.
Ran == /\ command \in Ordered => verdict # "none"
       /\ command = "info" => g_Cancel \/ Len(out) = Count
       /\ command # "diff2"
ResultsInOrder ==
  /\ \A n \in 1..Len(out) : out[n] = n - 1
  /\ at = "pair" => command = "diff"
  /\ at \in {"start", "pair"} \/ (command = "diff2" /\ at = "run") => out = <<>>
  /\ verdict = "complete" => Len(out) = Count
  /\ verdict = "cancelled" => g_Cancel
  /\ at = "finish" => Ran
  /\ command = "diff2" => ~problems

\* What was counted is what the items consumed give.
Done == {k \in Items : k < Len(out)}
CountsAreOfDone ==
  \A r \in Results : /\ counts[r] <= Len(out)
                     /\ counts[r] > 0 <=> \E k \in Done : ResultOf(k) = r

\* Each output has what is listed of them, in their order.
IsIn(k, lines) == \E n \in 1..Len(lines) : lines[n].name = k
LinesAreOfDone(lines) ==
  /\ \A n \in 1..Len(lines) : /\ lines[n].name \in Done
                              /\ lines[n].result = ResultOf(lines[n].name)
                              /\ lines[n].result # "skipped"
  /\ \A m, n \in 1..Len(lines) : m < n => lines[m].name < lines[n].name
ListedIsWritten ==
  \A o \in {"main", "csv"} :
    /\ LinesAreOfDone(written[o])
    /\ o \in wants => \A k \in Done : Listed(ResultOf(k)) => IsIn(k, written[o])
    /\ o \in wants /\ command = "info" /\ at = "exited" => \A k \in Done : IsIn(k, written[o])
    /\ command = "info" /\ ~full /\ at # "exited" => written[o] = <<>>

\* The process ends before anything is read, or with the code that its command makes of the counts.
CodeOf ==
  CASE command = "info" -> InfoCode
    [] command = "scan" -> ScanCode
    [] command = "check" -> CheckCode
    [] command = "cluster" -> ClusterCode
    [] command = "diff" -> DiffCode
    [] command = "diff2" -> IF ResultOf(0) \in {"skipped", "failed"} THEN UsageError
                            ELSE IF ResultOf(0) = "ok" THEN Success ELSE SomeFailed
CodeIsOfDone ==
  at = "exited" => \/ code = UsageError /\ out = <<>>
                   \/ code = CodeOf /\ Ran
                   \/ code = CodeOf /\ command = "diff2" /\ Len(out) = 1

CommandsInv ==
  TypeOK /\ PairsAreNames /\ ResultsInOrder /\ CountsAreOfDone /\ ListedIsWritten /\ CodeIsOfDone

\* The least of a set of names
LEMMA MinIsLeast ==
  ASSUME NEW T, T \subseteq Nat, T # {}
  PROVE Min(T) \in T /\ \A m \in T : Min(T) <= m
<1> DEFINE R == {p \in Nat \X Nat : p[1] < p[2]}
<1>1. IsWellFoundedOn(R, Nat)
  BY NatLessThanWellFounded DEF OpToRel
<1>2. PICK n \in T : \A m \in T : <<m, n>> \notin R
  <2> HIDE DEF R
  <2> QED BY <1>1, WFMin
<1>3. \A m \in T : n <= m
  <2> SUFFICES ASSUME NEW m \in T, ~(n <= m) PROVE FALSE
    OBVIOUS
  <2>1. m \in Nat /\ n \in Nat
    OBVIOUS
  <2>2. <<m, n>> \in R
    BY <2>1
  <2> QED
    BY <1>2, <2>2
<1> QED
  BY <1>3 DEF Min

LEMMA ItemsAreNat == Items \subseteq Nat /\ 0 \in Items /\ \A k \in Nat : k \in Items <=> k < Count
  BY CountIsNat, SomeItems DEF Items

\* What an item is, by the command
LEMMA ItemIs ==
  ASSUME TypeOK, NEW k \in Items
  PROVE /\ command \in CommandNames
        /\ item[k].left \in FileStatus \cup {"absent"} /\ item[k].right \in FileStatus \cup {"absent"}
        /\ item[k].good \in BOOLEAN
        /\ command = "diff" => InLeft(k) \/ InRight(k)
        /\ command = "diff2" => InLeft(k) /\ InRight(k)
        /\ command \notin {"diff", "diff2"} => item[k].left \in FileStatus /\ item[k].right = "absent"
        /\ item[k].good => Readable(item[k])
<1> DEFINE f == item[k]
<1>1. f \in Inputs(command) /\ command \in CommandNames
  BY DEF TypeOK
<1>2. /\ f \in IF command = "diff" THEN Two \cup OneSided ELSE IF command = "diff2" THEN Two ELSE One
      /\ f.good => Readable(f)
  BY <1>1, Zenon DEF Inputs
<1>3. f \in Two => f.left \in FileStatus /\ f.right \in FileStatus /\ f.good \in BOOLEAN
  BY DEF Two
<1>4. f \in One => f.left \in FileStatus /\ f.right = "absent" /\ f.good \in BOOLEAN
  BY DEF One
<1>5. f \in OneSided => /\ \/ f.left \in FileStatus /\ f.right = "absent"
                           \/ f.left = "absent" /\ f.right \in FileStatus
                        /\ f.good \in BOOLEAN
  BY DEF OneSided
<1>6. "absent" \notin FileStatus
  BY DEF FileStatus
<1>7. CASE command = "diff"
  <2>1. \/ f.left \in FileStatus /\ f.right \in FileStatus
        \/ f.left \in FileStatus /\ f.right = "absent"
        \/ f.left = "absent" /\ f.right \in FileStatus
    BY <1>2, <1>3, <1>5, <1>7, Zenon
  <2>2. f.good \in BOOLEAN
    BY <1>2, <1>3, <1>5, <1>7, Zenon
  <2>3. InLeft(k) \/ InRight(k)
    BY <1>6, <2>1 DEF InLeft, InRight
  <2> HIDE DEF f
  <2>4. f.left \in FileStatus \cup {"absent"} /\ f.right \in FileStatus \cup {"absent"}
    BY <2>1
  <2> QED
    BY <1>1, <1>2, <1>7, <2>2, <2>3, <2>4, Zenon DEF f
<1>8. CASE command = "diff2"
  <2>1. f.left \in FileStatus /\ f.right \in FileStatus /\ f.good \in BOOLEAN
    BY <1>2, <1>3, <1>8
  <2>2. InLeft(k) /\ InRight(k)
    BY <1>6, <2>1 DEF InLeft, InRight
  <2> QED
    BY <1>1, <1>2, <1>8, <2>1, <2>2, Zenon
<1>9. CASE command \notin {"diff", "diff2"}
  <2>1. f.left \in FileStatus /\ f.right = "absent" /\ f.good \in BOOLEAN
    BY <1>2, <1>4, <1>9
  <2> QED
    BY <1>1, <1>2, <1>9, <2>1, Zenon
<1> QED
  BY <1>7, <1>8, <1>9

\* DiffFiles of two files that are there, and AnalyzeFile of one
LEMMA DiffFilesIs ==
  ASSUME NEW f, f.left \in FileStatus, f.right \in FileStatus, f.good => Readable(f)
  PROVE /\ BothNotPE(f) => DiffFiles(f) = "skipped"
        /\ ~BothNotPE(f) /\ ~Readable(f) => DiffFiles(f) = "failed"
        /\ Readable(f) /\ f.good => DiffFiles(f) = "ok"
        /\ Readable(f) /\ ~f.good => DiffFiles(f) = "changed"
<1>1. Readable(f) => ~(f.left = "NotPE" /\ f.right = "NotPE")
  BY DEF Readable
<1>2. CASE f.left = "NotPE" /\ f.right = "NotPE"
  BY <1>1, <1>2 DEF DiffFiles, BothNotPE
<1>3. CASE ~(f.left = "NotPE" /\ f.right = "NotPE") /\ ~Readable(f)
  BY <1>3 DEF DiffFiles, BothNotPE
<1>4. CASE Readable(f)
  <2>1. DiffFiles(f) = IF f.good THEN "ok" ELSE "changed"
    BY <1>1, <1>4 DEF DiffFiles
  <2> QED
    BY <1>1, <1>4, <2>1 DEF BothNotPE
<1> QED
  BY <1>2, <1>3, <1>4

LEMMA AnalyzedIs ==
  ASSUME NEW f
  PROVE /\ f.left = "Ok" => Analyzed(f) = IF command = "check" /\ ~f.good THEN "unmet" ELSE "ok"
        /\ f.left = "NotPE" => Analyzed(f) = IF command = "info" THEN "failed" ELSE "skipped"
        /\ f.left = "Failed" => Analyzed(f) = "failed"
<1>1. CASE f.left = "Ok"
  BY <1>1 DEF Analyzed
<1>2. CASE f.left = "NotPE"
  BY <1>2 DEF Analyzed
<1>3. CASE f.left = "Failed"
  BY <1>3 DEF Analyzed
<1> QED
  BY <1>1, <1>2, <1>3

\* What the result of an item says of it
LEMMA ResultTells ==
  ASSUME TypeOK, NEW k \in Items
  PROVE /\ ResultOf(k) \in Results
        /\ command = "info" => ResultOf(k) = IF Right(k) THEN "ok" ELSE "failed"
        /\ command \in {"scan", "cluster"} => /\ ResultOf(k) \in {"ok", "skipped", "failed"}
                                              /\ Right(k) <=> ResultOf(k) # "failed"
        /\ command = "check" =>
             /\ ResultOf(k) \in {"ok", "skipped", "failed", "unmet"}
             /\ Right(k) <=> ResultOf(k) \in {"ok", "skipped"}
             /\ item[k].left = "Ok" /\ ~item[k].good <=> ResultOf(k) = "unmet"
        /\ command = "diff" =>
             /\ ResultOf(k) \in {"ok", "skipped", "failed", "changed", "oneSided"}
             /\ Right(k) <=> ResultOf(k) \in {"ok", "skipped"}
             /\ Differs(item[k]) <=> ResultOf(k) \in {"changed", "oneSided"}
        /\ command = "diff2" =>
             /\ ResultOf(k) \in {"ok", "skipped", "failed", "changed"}
             /\ Right(k) <=> ResultOf(k) = "ok"
             /\ Differs(item[k]) <=> ResultOf(k) = "changed"
             /\ BothNotPE(item[k]) <=> ResultOf(k) = "skipped"
<1> DEFINE f == item[k]
<1>1. f.left \in FileStatus \/ f.left = "absent"
  BY ItemIs
<1>2. f.good => Readable(f)
  BY ItemIs
<1>3. CASE command \notin {"diff", "diff2"}
  <2>1. ResultOf(k) = Analyzed(f)
    BY <1>3 DEF ResultOf
  <2>2. f.left \in {"Ok", "NotPE", "Failed"} /\ command \in CommandNames /\ f.good \in BOOLEAN
    BY <1>3, ItemIs DEF FileStatus
  <2>3. /\ command = "info" => (Right(k) <=> f.left = "Ok")
        /\ command \in {"scan", "cluster"} => (Right(k) <=> f.left # "Failed")
        /\ command = "check" => (Right(k) <=> f.left = "NotPE" \/ (f.left = "Ok" /\ f.good))
    BY <2>2, Zenon DEF Right
  <2>4. CASE f.left = "Ok"
    <3>1. ResultOf(k) = IF command = "check" /\ ~f.good THEN "unmet" ELSE "ok"
      BY <2>1, <2>4, AnalyzedIs
    <3> HIDE DEF f
    <3>2. QED
      BY <1>3, <2>3, <2>4, <3>1 DEF Results, f
  <2>5. CASE f.left = "NotPE"
    <3>1. ResultOf(k) = IF command = "info" THEN "failed" ELSE "skipped"
      BY <2>1, <2>5, AnalyzedIs
    <3> QED
      BY <1>3, <2>3, <2>5, <3>1 DEF Results
  <2>6. CASE f.left = "Failed"
    <3>1. ResultOf(k) = "failed"
      BY <2>1, <2>6, AnalyzedIs
    <3> QED
      BY <1>3, <2>3, <2>6, <3>1 DEF Results
  <2> QED
    BY <2>2, <2>4, <2>5, <2>6
<1>4. CASE command \in {"diff", "diff2"}
  <2>1. Right(k) <=> (command = "diff" /\ BothNotPE(f)) \/ (Readable(f) /\ ~Differs(f))
    BY <1>4 DEF Right
  <2>2. CASE InLeft(k) /\ InRight(k)
    <3>1. f.left \in FileStatus /\ f.right \in FileStatus /\ f.left # "absent" /\ f.right # "absent"
      BY <2>2, ItemIs DEF InLeft, InRight
    <3>2. ResultOf(k) = DiffFiles(f)
      BY <1>4, <2>2 DEF ResultOf
    <3>3. /\ BothNotPE(f) => ResultOf(k) = "skipped"
          /\ ~BothNotPE(f) /\ ~Readable(f) => ResultOf(k) = "failed"
          /\ Readable(f) /\ f.good => ResultOf(k) = "ok"
          /\ Readable(f) /\ ~f.good => ResultOf(k) = "changed"
      BY <1>2, <3>1, <3>2, DiffFilesIs
    <3>4. Differs(f) <=> Readable(f) /\ ~f.good
      BY <3>1, Zenon DEF Differs
    <3>5. BothNotPE(f) => ~Readable(f)
      BY DEF BothNotPE, Readable
    <3>6. CASE BothNotPE(f)
      BY <1>4, <2>1, <3>3, <3>4, <3>5, <3>6 DEF Results
    <3>7. CASE ~BothNotPE(f) /\ ~Readable(f)
      BY <1>4, <2>1, <3>3, <3>4, <3>7 DEF Results
    <3>8. CASE Readable(f) /\ f.good
      BY <1>4, <2>1, <3>3, <3>4, <3>5, <3>8 DEF Results
    <3>9. CASE Readable(f) /\ ~f.good
      BY <1>4, <2>1, <3>3, <3>4, <3>5, <3>9 DEF Results
    <3> QED
      BY <3>6, <3>7, <3>8, <3>9
  <2>3. CASE ~(InLeft(k) /\ InRight(k))
    <3>1. command = "diff" /\ (f.left = "absent" \/ f.right = "absent")
      BY <1>4, <2>3, ItemIs DEF InLeft, InRight
    <3>2. ResultOf(k) = "oneSided"
      BY <2>3, <3>1 DEF ResultOf
    <3>3. Differs(f) /\ ~BothNotPE(f)
      BY <3>1 DEF Differs, BothNotPE
    <3> QED
      BY <2>1, <3>1, <3>2, <3>3 DEF Results
  <2> QED
    BY <2>2, <2>3
<1> QED
  BY <1>3, <1>4

LEMMA CommandsInitEstablishes == Init => CommandsInv
<1> SUFFICES ASSUME Init PROVE CommandsInv
  OBVIOUS
<1>1. /\ out = <<>> /\ g_Cancel = FALSE /\ verdict = "none" /\ at = "start" /\ left = {} /\ right = {}
      /\ pairs = <<>> /\ code = -1
      /\ counts = [r \in Results |-> 0] /\ written = [o \in {"main", "csv"} |-> <<>>]
      /\ command \in CommandNames /\ item \in [Items -> Inputs(command)]
      /\ problems \in BOOLEAN /\ full \in BOOLEAN /\ wants \in Wants(command)
  BY DEF Init, OutputInit
<1>2. Len(out) = 0 /\ Len(pairs) = 0 /\ Count \in Nat /\ Done = {}
  BY <1>1, CountIsNat DEF Done, Items
<1>3. TypeOK
  <2>1. /\ out \in Seq(Items) /\ Len(out) <= Count /\ pairs \in Seq(Pairs) /\ Len(pairs) <= Count
        /\ counts \in [Results -> 0..Count]
    BY <1>1, <1>2
  <2>2. written \in [{"main", "csv"} -> Seq(Lines)]
    BY <1>1
  <2>3. code \in {-1, Success, SomeFailed, UsageError, CheckFailed}
    BY <1>1
  <2> QED
    BY <1>1, <2>1, <2>2, <2>3, Zenon DEF TypeOK
<1>4. PairsAreNames
  BY <1>1, <1>2 DEF PairsAreNames
<1>5. ResultsInOrder
  BY <1>1, <1>2 DEF Init, ResultsInOrder
<1>6. CountsAreOfDone
  BY <1>1, <1>2 DEF CountsAreOfDone
<1>7. ListedIsWritten
  <2>1. \A o \in {"main", "csv"} : written[o] = <<>>
    BY <1>1
  <2> QED
    BY <1>1, <1>2, <2>1 DEF ListedIsWritten, LinesAreOfDone, IsIn
<1>8. CodeIsOfDone
  BY <1>1 DEF CodeIsOfDone
<1> QED
  BY <1>3, <1>4, <1>5, <1>6, <1>7, <1>8 DEF CommandsInv

\* What an item gives, and how the results are counted and written, depends on no more than this.
LEMMA SameResults ==
  ASSUME UNCHANGED <<out, worldVars, counts, written>>
  PROVE /\ Done' = Done
        /\ \A k : ResultOf(k)' = ResultOf(k)
        /\ CountsAreOfDone => CountsAreOfDone'
        /\ ListedIsWritten /\ at # "exited" /\ (at' = "exited" => out = <<>>) => ListedIsWritten'
<1>1. /\ out' = out /\ command' = command /\ item' = item /\ full' = full /\ wants' = wants
      /\ counts' = counts /\ written' = written
  BY DEF worldVars
<1>2. Done' = Done
  BY <1>1 DEF Done
<1>3. \A k : ResultOf(k)' = ResultOf(k)
  BY <1>1 DEF ResultOf, InLeft, InRight, Analyzed
<1>4. \A r : Listed(r)' <=> Listed(r)
  BY <1>1 DEF Listed
<1>5. CountsAreOfDone => CountsAreOfDone'
  BY <1>1, <1>2, <1>3 DEF CountsAreOfDone
<1>6. \A o : LinesAreOfDone(written[o]) => LinesAreOfDone(written[o])'
  BY <1>1, <1>2, <1>3 DEF LinesAreOfDone
<1>7. out = <<>> => Done = {}
  BY DEF Done, Items
<1>8. ASSUME ListedIsWritten, at # "exited", at' = "exited" => out = <<>>
      PROVE ListedIsWritten'
  <2> SUFFICES ASSUME NEW o \in {"main", "csv"}
               PROVE (/\ LinesAreOfDone(written[o])
                      /\ o \in wants => \A k \in Done : Listed(ResultOf(k)) => IsIn(k, written[o])
                      /\ o \in wants /\ command = "info" /\ at = "exited" => \A k \in Done : IsIn(k, written[o])
                      /\ command = "info" /\ ~full /\ at # "exited" => written[o] = <<>>)'
    BY DEF ListedIsWritten
  <2>1. LinesAreOfDone(written[o])'
    BY <1>6, <1>8 DEF ListedIsWritten
  <2>2. \A k : IsIn(k, written[o])' <=> IsIn(k, written[o])
    BY <1>1 DEF IsIn
  <2>3. (o \in wants => \A k \in Done : Listed(ResultOf(k)) => IsIn(k, written[o]))'
    BY <1>1, <1>2, <1>3, <1>4, <1>8, <2>2 DEF ListedIsWritten
  <2>4. (o \in wants /\ command = "info" /\ at = "exited" => \A k \in Done : IsIn(k, written[o]))'
    BY <1>1, <1>2, <1>7, <1>8, <2>2 DEF ListedIsWritten
  <2>5. (command = "info" /\ ~full /\ at # "exited" => written[o] = <<>>)'
    BY <1>1, <1>8 DEF ListedIsWritten
  <2> QED
    BY <2>1, <2>3, <2>4, <2>5
<1> QED
  BY <1>2, <1>3, <1>5, <1>8

LEMMA StartKeeps ==
  ASSUME CommandsInv, Start PROVE CommandsInv'
<1>1. /\ UNCHANGED <<out, g_Cancel, verdict, worldVars, pairs, counts, written>> /\ at = "start"
      /\ \/ at' = "exited" /\ code' = UsageError /\ left' = left /\ right' = right
         \/ /\ at' = IF command = "diff" THEN "pair" ELSE "run"
            /\ left' = IF command = "diff" THEN LeftNames ELSE {}
            /\ right' = IF command = "diff" THEN RightNames ELSE {}
            /\ code' = code
  BY DEF Start, CannotStart, Exit
<1>2. /\ out' = out /\ command' = command /\ item' = item /\ full' = full /\ wants' = wants
      /\ problems' = problems /\ g_Cancel' = g_Cancel /\ verdict' = verdict
      /\ pairs' = pairs /\ counts' = counts /\ written' = written
  BY <1>1 DEF worldVars
<1>3. out = <<>>
  BY <1>1 DEF CommandsInv, ResultsInOrder
<1>4. Len(pairs) = 0 /\ pairs = <<>> /\ Len(out) = 0
  BY <1>1, <1>3 DEF CommandsInv, PairsAreNames
<1>5. TypeOK'
  <2>1. left' \subseteq Items /\ right' \subseteq Items
    BY <1>1 DEF CommandsInv, TypeOK, LeftNames, RightNames
  <2>2. /\ at' \in {"start", "pair", "run", "finish", "exited"}
        /\ code' \in {-1, Success, SomeFailed, UsageError, CheckFailed}
    BY <1>1 DEF CommandsInv, TypeOK
  <2> QED
    BY <1>2, <2>1, <2>2 DEF CommandsInv, TypeOK
<1>6. PairsAreNames'
  <2>1. LeftNames' = LeftNames /\ RightNames' = RightNames
    BY <1>2 DEF LeftNames, RightNames, InLeft, InRight
  <2>2. LeftNames = {k \in LeftNames : k >= 0} /\ RightNames = {k \in RightNames : k >= 0}
    <3>1. \A k \in Items : k >= 0
      BY ItemsAreNat
    <3> QED
      BY <3>1 DEF LeftNames, RightNames
  <2>3. at' = "pair" => left' = LeftNames /\ right' = RightNames
    BY <1>1
  <2> QED
    BY <1>1, <1>2, <1>3, <1>4, <2>1, <2>2, <2>3 DEF PairsAreNames
<1>7. ResultsInOrder'
  BY <1>1, <1>2, <1>3, <1>4 DEF CommandsInv, ResultsInOrder
<1>8. CountsAreOfDone' /\ ListedIsWritten'
  BY <1>1, <1>3, SameResults DEF CommandsInv
<1>9. CodeIsOfDone'
  BY <1>1, <1>2, <1>3 DEF CodeIsOfDone
<1> QED
  BY <1>5, <1>6, <1>7, <1>8, <1>9 DEF CommandsInv

\* The next name is the next item: it is in one directory or in both.
LEMMA PairNamesKeeps ==
  ASSUME CommandsInv, PairNames PROVE CommandsInv'
<1> DEFINE n == Len(pairs)
           l == NextOf(left, right)
           r == NextOf(right, left)
           p == [name |-> IF l THEN Min(left) ELSE Min(right), Left |-> l, Right |-> r]
<1>1. /\ at = "pair" /\ (left # {} \/ right # {})
      /\ pairs' = Append(pairs, p) /\ left' = Past(left, l) /\ right' = Past(right, r)
      /\ UNCHANGED <<out, g_Cancel, verdict, worldVars, at, counts, written, code>>
  BY DEF PairNames
<1>2. /\ n \in Nat /\ pairs \in Seq(Pairs) /\ command = "diff" /\ out = <<>>
      /\ left = {k \in Items : InLeft(k) /\ k >= n}
      /\ right = {k \in Items : InRight(k) /\ k >= n}
  <2>1. pairs \in Seq(Pairs) /\ command = "diff" /\ out = <<>>
    BY <1>1 DEF CommandsInv, TypeOK, ResultsInOrder
  <2>2. left = {k \in LeftNames : k >= n} /\ right = {k \in RightNames : k >= n}
    BY <1>1 DEF CommandsInv, PairsAreNames
  <2> QED
    BY <2>1, <2>2 DEF LeftNames, RightNames
<1>3. n \in Items
  <2>1. PICK k \in Items : k >= n
    BY <1>1, <1>2
  <2>2. k \in Nat /\ k < Count
    BY ItemsAreNat
  <2> QED
    BY <1>2, <2>1, <2>2, CountIsNat, ItemsAreNat
<1> HIDE DEF n
<1>4. InLeft(n) \/ InRight(n)
  BY <1>2, <1>3, ItemIs DEF CommandsInv
<1>5. left \subseteq Nat /\ right \subseteq Nat /\ n \in Nat
  BY <1>2, ItemsAreNat
<1>6. InLeft(n) => left # {} /\ Min(left) = n
  <2> SUFFICES ASSUME InLeft(n) PROVE left # {} /\ Min(left) = n
    OBVIOUS
  <2>1. n \in left
    BY <1>2, <1>3
  <2>2. Min(left) \in left /\ Min(left) <= n
    BY <1>5, <2>1, MinIsLeast
  <2> QED
    BY <1>2, <1>5, <2>1, <2>2
<1>7. InRight(n) => right # {} /\ Min(right) = n
  <2> SUFFICES ASSUME InRight(n) PROVE right # {} /\ Min(right) = n
    OBVIOUS
  <2>1. n \in right
    BY <1>2, <1>3
  <2>2. Min(right) \in right /\ Min(right) <= n
    BY <1>5, <2>1, MinIsLeast
  <2> QED
    BY <1>2, <1>5, <2>1, <2>2
<1>8. ~InLeft(n) /\ left # {} => Min(left) \in Nat /\ Min(left) > n
  <2> SUFFICES ASSUME ~InLeft(n), left # {} PROVE Min(left) \in Nat /\ Min(left) > n
    OBVIOUS
  <2>1. Min(left) \in left
    BY <1>5, MinIsLeast
  <2> QED
    BY <1>2, <1>5, <2>1
<1>9. ~InRight(n) /\ right # {} => Min(right) \in Nat /\ Min(right) > n
  <2> SUFFICES ASSUME ~InRight(n), right # {} PROVE Min(right) \in Nat /\ Min(right) > n
    OBVIOUS
  <2>1. Min(right) \in right
    BY <1>5, MinIsLeast
  <2> QED
    BY <1>2, <1>5, <2>1
<1>10. l <=> InLeft(n)
  <2>1. CASE InLeft(n)
    <3>1. CASE right = {}
      BY <1>6, <2>1, <3>1 DEF NextOf
    <3>2. CASE right # {}
      <4>1. n <= Min(right)
        BY <1>5, <1>7, <1>9, <3>2
      <4> QED
        BY <1>6, <2>1, <4>1 DEF NextOf
    <3> QED
      BY <3>1, <3>2
  <2>2. CASE ~InLeft(n)
    <3>1. right # {} /\ Min(right) = n
      BY <1>4, <1>7, <2>2
    <3>2. left # {} => ~(Min(left) <= Min(right))
      BY <1>5, <1>8, <2>2, <3>1
    <3> QED
      BY <2>2, <3>1, <3>2 DEF NextOf
  <2> QED
    BY <2>1, <2>2
<1>11. r <=> InRight(n)
  <2>1. CASE InRight(n)
    <3>1. CASE left = {}
      BY <1>7, <2>1, <3>1 DEF NextOf
    <3>2. CASE left # {}
      <4>1. n <= Min(left)
        BY <1>5, <1>6, <1>8, <3>2
      <4> QED
        BY <1>7, <2>1, <4>1 DEF NextOf
    <3> QED
      BY <3>1, <3>2
  <2>2. CASE ~InRight(n)
    <3>1. left # {} /\ Min(left) = n
      BY <1>4, <1>6, <2>2
    <3>2. right # {} => ~(Min(right) <= Min(left))
      BY <1>5, <1>9, <2>2, <3>1
    <3> QED
      BY <2>2, <3>1, <3>2 DEF NextOf
  <2> QED
    BY <2>1, <2>2
<1>12. p = [name |-> n, Left |-> InLeft(n), Right |-> InRight(n)]
  <2>1. (IF l THEN Min(left) ELSE Min(right)) = n
    BY <1>4, <1>6, <1>7, <1>10
  <2>2. l = InLeft(n) /\ r = InRight(n)
    BY <1>10, <1>11, Zenon DEF NextOf, InLeft, InRight
  <2> QED
    BY <2>1, <2>2, Zenon
<1>13. p \in Pairs
  <2>1. InLeft(n) \in BOOLEAN /\ InRight(n) \in BOOLEAN
    BY Zenon DEF InLeft, InRight
  <2> HIDE DEF p
  <2> QED
    BY <1>3, <1>12, <2>1, Zenon DEF Pairs
<1>14. left' = {k \in left : k >= n + 1} /\ right' = {k \in right : k >= n + 1}
  <2>1. left' = left \ {n}
    BY <1>1, <1>2, <1>5, <1>6, <1>10 DEF Past
  <2>2. right' = right \ {n}
    BY <1>1, <1>2, <1>5, <1>7, <1>11 DEF Past
  <2>3. \A k \in left \cup right : k >= n + 1 <=> k # n
    <3>1. \A k \in left \cup right : k \in Nat /\ k >= n
      BY <1>2, <1>5
    <3> QED
      BY <1>5, <3>1
  <2> QED
    BY <2>1, <2>2, <2>3
<1>15. /\ Len(pairs') = n + 1 /\ pairs' \in Seq(Pairs) /\ n + 1 <= Count
       /\ \A i \in 1..(n + 1) : pairs'[i] = IF i = n + 1 THEN p ELSE pairs[i]
  <2>1. n + 1 <= Count
    BY <1>3, CountIsNat DEF Items
  <2> HIDE DEF p
  <2> QED
    BY <1>1, <1>2, <1>13, <2>1 DEF n
<1> HIDE DEF l, r, p
<1>16. /\ out' = out /\ command' = command /\ item' = item /\ full' = full /\ wants' = wants
       /\ problems' = problems /\ g_Cancel' = g_Cancel /\ verdict' = verdict
       /\ counts' = counts /\ written' = written /\ at' = at /\ code' = code
  BY <1>1 DEF worldVars
<1>17. TypeOK'
  <2>1. left' \subseteq Items /\ right' \subseteq Items
    BY <1>2, <1>14
  <2>2. pairs' \in Seq(Pairs) /\ Len(pairs') <= Count
    BY <1>15
  <2> QED
    BY <1>16, <2>1, <2>2 DEF CommandsInv, TypeOK
<1>18. PairsAreNames'
  <2>1. \A k : (InLeft(k)' <=> InLeft(k)) /\ (InRight(k)' <=> InRight(k))
    BY <1>16 DEF InLeft, InRight
  <2>2. \A i \in 1..Len(pairs') : pairs'[i] = [name |-> i - 1, Left |-> InLeft(i - 1), Right |-> InRight(i - 1)]
    <3> TAKE i \in 1..Len(pairs')
    <3>1. i \in 1..(n + 1)
      BY <1>15
    <3>2. CASE i = n + 1
      <4>1. i - 1 = n
        BY <1>5, <3>2
      <4> QED
        BY <1>12, <1>15, <3>1, <3>2, <4>1
    <3>3. CASE i # n + 1
      <4>1. i \in 1..n
        BY <1>5, <3>1, <3>3
      <4> QED
        BY <1>15, <3>1, <3>3, <4>1 DEF CommandsInv, PairsAreNames, n
    <3> QED
      BY <3>2, <3>3
  <2>3. \A i : InLeft(i)' = InLeft(i) /\ InRight(i)' = InRight(i)
    BY <1>16, Zenon DEF InLeft, InRight
  <2>4. \A i \in 1..Len(pairs') :
          pairs'[i] = [name |-> i - 1, Left |-> InLeft(i - 1)', Right |-> InRight(i - 1)']
    BY <2>2, <2>3
  <2>5. /\ left' = {k \in LeftNames' : k >= Len(pairs')}
        /\ right' = {k \in RightNames' : k >= Len(pairs')}
    <3>1. /\ LeftNames' = {k \in Items : InLeft(k)} /\ RightNames' = {k \in Items : InRight(k)}
      BY <1>16 DEF LeftNames, RightNames, InLeft, InRight
    <3>2. \A k \in Items : k >= n + 1 => k >= n
      BY <1>5, ItemsAreNat
    <3> QED
      BY <1>2, <1>14, <1>15, <3>1, <3>2
  <2> QED
    BY <1>1, <1>2, <1>16, <2>4, <2>5 DEF PairsAreNames
<1>19. ResultsInOrder'
  BY <1>1, <1>16 DEF CommandsInv, ResultsInOrder
<1>20. CountsAreOfDone' /\ ListedIsWritten'
  BY <1>1, SameResults DEF CommandsInv
<1>21. CodeIsOfDone'
  BY <1>1, <1>16 DEF CodeIsOfDone
<1> QED
  BY <1>17, <1>18, <1>19, <1>20, <1>21 DEF CommandsInv

LEMMA AllPairedKeeps ==
  ASSUME CommandsInv, AllPaired PROVE CommandsInv'
<1> DEFINE n == Len(pairs)
<1>1. /\ at = "pair" /\ left = {} /\ right = {} /\ at' = "run"
      /\ UNCHANGED <<out, g_Cancel, verdict, worldVars, left, right, pairs, counts, written, code>>
  BY DEF AllPaired
<1>2. /\ out' = out /\ command' = command /\ item' = item /\ full' = full /\ wants' = wants
      /\ problems' = problems /\ g_Cancel' = g_Cancel /\ verdict' = verdict
      /\ left' = left /\ right' = right /\ pairs' = pairs
      /\ counts' = counts /\ written' = written /\ code' = code
  BY <1>1 DEF worldVars
<1>3. n \in Nat /\ n <= Count /\ command = "diff" /\ out = <<>>
  BY <1>1 DEF CommandsInv, TypeOK, ResultsInOrder
<1>4. n = Count
  <2> SUFFICES ASSUME n # Count PROVE FALSE
    OBVIOUS
  <2>1. n \in Items
    BY <1>3, CountIsNat, ItemsAreNat
  <2>2. InLeft(n) \/ InRight(n)
    BY <1>3, <2>1, ItemIs DEF CommandsInv
  <2>3. left = {k \in LeftNames : k >= n} /\ right = {k \in RightNames : k >= n}
    BY <1>1 DEF CommandsInv, PairsAreNames
  <2>4. n \in LeftNames \/ n \in RightNames
    BY <2>1, <2>2 DEF LeftNames, RightNames
  <2> QED
    BY <1>1, <1>3, <2>3, <2>4
<1>5. TypeOK'
  BY <1>1, <1>2 DEF CommandsInv, TypeOK
<1>6. PairsAreNames'
  <2>1. \A i : InLeft(i)' = InLeft(i) /\ InRight(i)' = InRight(i)
    BY <1>2, Zenon DEF InLeft, InRight
  <2> QED
    BY <1>1, <1>2, <1>4, <2>1 DEF CommandsInv, PairsAreNames
<1>7. ResultsInOrder'
  BY <1>1, <1>2, <1>3 DEF CommandsInv, ResultsInOrder
<1>8. CountsAreOfDone' /\ ListedIsWritten'
  BY <1>1, SameResults DEF CommandsInv
<1>9. CodeIsOfDone'
  BY <1>1 DEF CodeIsOfDone
<1> QED
  BY <1>5, <1>6, <1>7, <1>8, <1>9 DEF CommandsInv

LEMMA LineAppended ==
  ASSUME NEW s \in Seq(Lines), NEW w \in Lines
  PROVE /\ s \o <<>> = s
        /\ s \o <<w>> \in Seq(Lines) /\ Len(s \o <<w>>) = Len(s) + 1
        /\ \A i \in 1..(Len(s) + 1) : (s \o <<w>>)[i] = IF i = Len(s) + 1 THEN w ELSE s[i]
<1>1. <<w>> \in Seq(Lines) /\ Len(<<w>>) = 1 /\ <<w>>[1] = w
  OBVIOUS
<1> QED
  BY <1>1

\* What Consume is called with: the next item, whose result is what it gives
LEMMA NextResult ==
  ASSUME TypeOK, PairsAreNames, Len(out) < Count, command = "diff" => Len(pairs) = Count
  PROVE /\ Len(out) \in Items
        /\ Result(Len(out)) = ResultOf(Len(out)) /\ Name(Len(out)) = Len(out)
        /\ Line(Len(out)) = [name |-> Len(out), result |-> ResultOf(Len(out))]
<1> DEFINE n == Len(out)
<1>1. n \in Nat /\ n \in Items
  BY ItemsAreNat DEF TypeOK
<1> HIDE DEF n
<1>2. CASE command = "diff"
  <2>1. n + 1 \in 1..Len(pairs) /\ n + 1 - 1 = n
    BY <1>1, <1>2, CountIsNat DEF n
  <2>2. pairs[n + 1] = [name |-> n, Left |-> InLeft(n), Right |-> InRight(n)]
    <3> DEFINE j == n + 1
    <3>1. j \in 1..Len(pairs) /\ j - 1 = n
      BY <1>1, <2>1
    <3> HIDE DEF j
    <3>2. pairs[j] = [name |-> j - 1, Left |-> InLeft(j - 1), Right |-> InRight(j - 1)]
      BY <3>1 DEF PairsAreNames
    <3>3. pairs[j] = [name |-> n, Left |-> InLeft(n), Right |-> InRight(n)]
      BY <3>1, <3>2, Zenon
    <3> QED
      BY <3>3 DEF j
  <2> DEFINE p == pairs[n + 1]
  <2>3. p.name = n /\ (p.Left <=> InLeft(n)) /\ (p.Right <=> InRight(n))
    <3> HIDE DEF p
    <3>1. p = [name |-> n, Left |-> InLeft(n), Right |-> InRight(n)]
      BY <2>2 DEF p
    <3>2. p.name = n
      BY <3>1
    <3>3. p.Left = InLeft(n) /\ p.Right = InRight(n)
      BY <3>1
    <3> QED
      BY <3>2, <3>3
  <2>4. Result(n) = IF p.Left /\ p.Right THEN DiffFiles(item[p.name]) ELSE "oneSided"
    BY <1>2 DEF Result
  <2>5. ResultOf(n) = IF InLeft(n) /\ InRight(n) THEN DiffFiles(item[n]) ELSE "oneSided"
    BY <1>2 DEF ResultOf
  <2> HIDE DEF p
  <2>6. Result(n) = ResultOf(n)
    BY <2>3, <2>4, <2>5
  <2>7. Name(n) = n
    BY <1>2, <2>3 DEF Name, p
  <2> QED
    BY <1>1, <2>6, <2>7 DEF Line, n
<1>3. CASE command # "diff"
  <2>1. Result(n) = ResultOf(n) /\ Name(n) = n
    BY <1>3 DEF Result, ResultOf, Name
  <2> QED
    BY <1>1, <2>1 DEF Line, n
<1> QED
  BY <1>2, <1>3

\* A result is consumed: it is counted, and written where it is listed.
LEMMA ConsumeKeeps ==
  ASSUME CommandsInv, Len(out) < Count, command = "diff" => Len(pairs) = Count,
         out' = Append(out, Len(out)), Consume(Len(out)), UNCHANGED worldVars,
         at # "exited", at' = "exited" => command # "info"
  PROVE /\ out' \in Seq(Items) /\ Len(out') = Len(out) + 1 /\ Len(out') <= Count
        /\ \A i \in 1..Len(out') : out'[i] = i - 1
        /\ counts' \in [Results -> 0..Count]
        /\ written' \in [{"main", "csv"} -> Seq(Lines)]
        /\ CountsAreOfDone' /\ ListedIsWritten'
        /\ \A k : ResultOf(k)' = ResultOf(k)
<1> DEFINE n == Len(out)
           r == ResultOf(n)
           w == [name |-> n, result |-> r]
<1>1. /\ command' = command /\ item' = item /\ full' = full /\ wants' = wants
  BY DEF worldVars
<1>2. /\ out \in Seq(Items) /\ n \in Nat /\ n \in Items /\ n < Count /\ Count \in Nat
      /\ counts \in [Results -> 0..Count] /\ written \in [{"main", "csv"} -> Seq(Lines)]
      /\ wants \subseteq {"main", "csv"}
  <2>1. wants \subseteq {"main", "csv"}
    BY DEF CommandsInv, TypeOK, Wants
  <2> QED
    BY <2>1, CountIsNat, NextResult DEF CommandsInv, TypeOK
<1>3. Result(n) = r /\ Line(n) = w
  BY NextResult DEF CommandsInv
<1>4. r \in Results
  BY <1>2, ResultTells DEF CommandsInv
<1>5. w \in Lines /\ w.name = n /\ w.result = r
  BY <1>2, <1>4 DEF Lines
<1>6. /\ counts' = [counts EXCEPT ![r] = @ + 1]
      /\ written' = [o \in {"main", "csv"} |->
                       IF o \in wants THEN written[o] \o (IF Listed(r) THEN <<w>> ELSE <<>>) ELSE written[o]]
  BY <1>3 DEF Consume, Write
<1>7. (\A k : ResultOf(k)' = ResultOf(k)) /\ (\A x : Listed(x)' <=> Listed(x))
  BY <1>1 DEF ResultOf, InLeft, InRight, Analyzed, Listed
<1> HIDE DEF n, r, w
<1>8. /\ out' \in Seq(Items) /\ Len(out') = n + 1 /\ n + 1 <= Count
      /\ \A i \in 1..(n + 1) : out'[i] = i - 1
  <2>1. \A i \in 1..n : out[i] = i - 1
    BY DEF CommandsInv, ResultsInOrder, n
  <2>2. out' = Append(out, n)
    BY DEF n
  <2>3. Len(out) = n
    BY DEF n
  <2>4. Len(out') = n + 1 /\ out' \in Seq(Items) /\ \A i \in 1..(n + 1) : out'[i] = IF i = n + 1 THEN n ELSE out[i]
    BY <1>2, <2>2, <2>3
  <2> QED
    BY <1>2, <2>1, <2>4
<1>9. Done' = Done \cup {n} /\ n \notin Done /\ \A k \in Done : k < n /\ k \in Nat
  <2>1. Done = {k \in Items : k < n}
    BY DEF Done, n
  <2>2. Done' = {k \in Items : k < n + 1}
    BY <1>8 DEF Done
  <2>3. \A k \in Items : k \in Nat /\ (k < n + 1 <=> k < n \/ k = n)
    <3>1. \A k \in Items : k \in Nat
      BY ItemsAreNat
    <3> QED
      BY <1>2, <3>1
  <2>4. Done' = Done \cup {n}
    BY <1>2, <2>1, <2>2, <2>3
  <2>5. n \notin Done /\ \A k \in Done : k < n /\ k \in Nat
    BY <1>2, <2>1, <2>3
  <2> QED
    BY <2>4, <2>5
<1>10. /\ counts' \in [Results -> 0..Count] /\ CountsAreOfDone'
  <2>1. \A x \in Results : /\ counts[x] \in Nat /\ counts[x] <= n
                           /\ counts[x] > 0 <=> \E k \in Done : ResultOf(k) = x
    BY <1>2 DEF CommandsInv, CountsAreOfDone, n
  <2>2. \A x \in Results : counts'[x] = IF x = r THEN counts[x] + 1 ELSE counts[x]
    BY <1>2, <1>6
  <2>3. counts' \in [Results -> Nat]
    BY <1>2, <1>4, <1>6
  <2>4. \A x \in Results : counts'[x] <= n + 1 /\ counts'[x] \in Nat
    BY <1>2, <2>1, <2>2
  <2>5. \A x \in Results : counts'[x] \in 0..Count
    BY <1>2, <1>8, <2>4
  <2>6. ResultOf(n) = r
    BY DEF r
  <2>7. \A x \in Results : counts'[x] > 0 <=> \E k \in Done' : ResultOf(k) = x
    <3> TAKE x \in Results
    <3>1. CASE x = r
      BY <1>9, <2>1, <2>2, <2>6, <3>1
    <3>2. CASE x # r
      BY <1>9, <2>1, <2>2, <2>6, <3>2
    <3> QED
      BY <3>1, <3>2
  <2>8. counts' \in [Results -> 0..Count]
    BY <2>3, <2>5
  <2>9. \A x \in Results : (\E k \in Done' : ResultOf(k)' = x) <=> \E k \in Done' : ResultOf(k) = x
    BY <1>7
  <2>10. CountsAreOfDone'
    BY <1>8, <2>4, <2>7, <2>9 DEF CountsAreOfDone
  <2> QED
    BY <2>8, <2>10
<1>11. command = "info" /\ ~full => ~Listed(r)
  BY DEF Listed
<1>12. Listed(r) => r # "skipped"
  <2>1. command = "info" => r # "skipped"
    BY <1>2, ResultTells DEF CommandsInv, r
  <2>2. command \in CommandNames
    BY DEF CommandsInv, TypeOK
  <2> QED
    BY <2>1, <2>2 DEF Listed, CommandNames
<1>13. \A o \in {"main", "csv"} :
         /\ written'[o] \in Seq(Lines)
         /\ (/\ LinesAreOfDone(written[o])
             /\ o \in wants => \A k \in Done : Listed(ResultOf(k)) => IsIn(k, written[o])
             /\ o \in wants /\ command = "info" /\ at = "exited" => \A k \in Done : IsIn(k, written[o])
             /\ command = "info" /\ ~full /\ at # "exited" => written[o] = <<>>)'
  <2> TAKE o \in {"main", "csv"}
  <2> DEFINE s == written[o]
             t == written'[o]
             m == Len(s)
  <2>1. /\ s \in Seq(Lines) /\ m \in Nat /\ LinesAreOfDone(s)
        /\ o \in wants => \A k \in Done : Listed(ResultOf(k)) => IsIn(k, s)
        /\ command = "info" /\ ~full => s = <<>>
    BY <1>2 DEF CommandsInv, ListedIsWritten
  <2>2. t = IF o \in wants THEN s \o (IF Listed(r) THEN <<w>> ELSE <<>>) ELSE s
    BY <1>6
  <2> HIDE DEF s, t
  <2>3. CASE o \notin wants \/ ~Listed(r)
    <3>1. t = s
      BY <1>5, <2>1, <2>2, <2>3, LineAppended
    <3>2. LinesAreOfDone(written[o])'
      BY <1>7, <1>9, <2>1, <3>1 DEF LinesAreOfDone, t
    <3>3. (o \in wants => \A k \in Done : Listed(ResultOf(k)) => IsIn(k, written[o]))'
      <4>1. o \in wants => \A k \in Done \cup {n} : Listed(ResultOf(k)) => IsIn(k, s)
        BY <2>1, <2>3 DEF r
      <4> QED
        BY <1>1, <1>7, <1>9, <3>1, <4>1 DEF IsIn, t
    <3> QED
      BY <1>1, <2>1, <3>1, <3>2, <3>3 DEF t
  <2>4. CASE o \in wants /\ Listed(r)
    <3>1. t = s \o <<w>>
      BY <2>2, <2>4
    <3>2. /\ t \in Seq(Lines) /\ Len(t) = m + 1
          /\ \A i \in 1..(m + 1) : t[i] = IF i = m + 1 THEN w ELSE s[i]
      BY <1>5, <2>1, <3>1, LineAppended
    <3>3. \A i \in 1..m : /\ i \in 1..(m + 1) /\ i # m + 1
                          /\ s[i].name \in Done /\ s[i].result = ResultOf(s[i].name) /\ s[i].result # "skipped"
      <4> HIDE DEF m
      <4>1. \A i \in 1..m : i \in 1..(m + 1) /\ i # m + 1
        BY <2>1
      <4> QED
        BY <2>1, <4>1 DEF LinesAreOfDone, m
    <3>4. \A i, j \in 1..m : i < j => s[i].name < s[j].name
      BY <2>1 DEF LinesAreOfDone
    <3> HIDE DEF m
    <3>5. \A i \in 1..(m + 1) : /\ t[i].name \in Done \cup {n}
                                /\ t[i].result = ResultOf(t[i].name)
                                /\ t[i].result # "skipped"
      <4> TAKE i \in 1..(m + 1)
      <4>1. CASE i = m + 1
        BY <1>5, <1>12, <2>4, <3>2, <4>1 DEF r
      <4>2. CASE i # m + 1
        <5>1. i \in 1..m
          BY <2>1, <4>2
        <5> QED
          BY <3>2, <3>3, <4>2, <5>1
      <4> QED
        BY <4>1, <4>2
    <3>6. \A i, j \in 1..(m + 1) : i < j => t[i].name < t[j].name
      <4> TAKE i, j \in 1..(m + 1)
      <4> HAVE i < j
      <4>1. i \in 1..m /\ t[i] = s[i]
        BY <2>1, <3>2
      <4>2. CASE j = m + 1
        <5>1. t[j] = w
          BY <3>2, <4>2
        <5> QED
          BY <1>5, <1>9, <3>3, <4>1, <5>1
      <4>3. CASE j # m + 1
        <5>1. j \in 1..m /\ t[j] = s[j]
          BY <2>1, <3>2, <4>3
        <5> QED
          BY <3>4, <4>1, <5>1
      <4> QED
        BY <4>2, <4>3
    <3>7. LinesAreOfDone(written[o])'
      BY <1>7, <1>9, <3>2, <3>5, <3>6 DEF LinesAreOfDone, t
    <3>8. \A k \in Done \cup {n} : Listed(ResultOf(k)) => IsIn(k, t)
      <4> TAKE k \in Done \cup {n}
      <4> HAVE Listed(ResultOf(k))
      <4>1. CASE k = n
        <5>1. m + 1 \in 1..Len(t) /\ t[m + 1] = w
          BY <2>1, <3>2
        <5> QED
          BY <1>5, <4>1, <5>1 DEF IsIn
      <4>2. CASE k # n
        <5>1. PICK i \in 1..m : s[i].name = k
          BY <2>1, <2>4, <4>2 DEF IsIn, m
        <5>2. i \in 1..Len(t) /\ t[i] = s[i]
          BY <3>2, <3>3, <5>1
        <5> QED
          BY <5>1, <5>2 DEF IsIn
      <4> QED
        BY <4>1, <4>2
    <3>9. (o \in wants => \A k \in Done : Listed(ResultOf(k)) => IsIn(k, written[o]))'
      BY <1>7, <1>9, <3>8 DEF IsIn, t
    <3> QED
      BY <1>1, <1>11, <2>4, <3>2, <3>7, <3>9 DEF t
  <2> QED
    BY <2>3, <2>4
<1>14. written' \in [{"main", "csv"} -> Seq(Lines)] /\ ListedIsWritten'
  <2>1. \E F : written' = [o \in {"main", "csv"} |-> F[o]]
    <3> WITNESS written'
    <3> QED
      BY <1>6
  <2>2. written' \in [{"main", "csv"} -> Seq(Lines)]
    BY <1>13, <2>1
  <2> QED
    BY <1>13, <2>2 DEF ListedIsWritten
<1> QED
  BY <1>7, <1>8, <1>10, <1>14 DEF n

\* A run of OrderedOutput goes on: the command's, or the loop of info.
LEMMA RunDeliversKeeps ==
  ASSUME CommandsInv, RunDelivers \/ (Info /\ ~(g_Cancel \/ Len(out) = Count)) PROVE CommandsInv'
<1>1. /\ at = "run" /\ command # "diff2" /\ Deliver /\ Consume(Len(out)) /\ at' = at
      /\ UNCHANGED <<worldVars, pairVars, code>>
  BY DEF RunDelivers, Info, Ordered
<1>2. /\ Len(out) < Count /\ out' = Append(out, Len(out)) /\ verdict = "none"
      /\ g_Cancel' = g_Cancel /\ verdict' = verdict
      /\ command' = command /\ item' = item /\ full' = full /\ wants' = wants /\ problems' = problems
      /\ left' = left /\ right' = right /\ pairs' = pairs /\ code' = code
  BY <1>1 DEF Deliver, worldVars, pairVars
<1>3. command = "diff" => Len(pairs) = Count
  BY <1>1 DEF CommandsInv, PairsAreNames
<1>4. /\ out' \in Seq(Items) /\ Len(out') = Len(out) + 1 /\ Len(out') <= Count
      /\ \A i \in 1..Len(out') : out'[i] = i - 1
      /\ counts' \in [Results -> 0..Count]
      /\ written' \in [{"main", "csv"} -> Seq(Lines)]
      /\ CountsAreOfDone' /\ ListedIsWritten'
  BY <1>1, <1>2, <1>3, ConsumeKeeps
<1>5. TypeOK'
  BY <1>1, <1>2, <1>4 DEF CommandsInv, TypeOK
<1>6. PairsAreNames'
  <2>1. \A i : InLeft(i)' = InLeft(i) /\ InRight(i)' = InRight(i)
    BY <1>2, Zenon DEF InLeft, InRight
  <2> QED
    BY <1>1, <1>2, <1>3, <2>1 DEF CommandsInv, PairsAreNames
<1>7. ResultsInOrder'
  BY <1>1, <1>2, <1>4 DEF CommandsInv, ResultsInOrder
<1>8. CodeIsOfDone'
  BY <1>1 DEF CodeIsOfDone
<1> QED
  BY <1>4, <1>5, <1>6, <1>7, <1>8 DEF CommandsInv

\* The run returns, or info has read the last file, or was cancelled.
LEMMA RunReturnsKeeps ==
  ASSUME CommandsInv, RunReturns \/ (Info /\ (g_Cancel \/ Len(out) = Count)) PROVE CommandsInv'
<1>1. /\ at = "run" /\ at' = "finish" /\ command # "diff2"
      /\ UNCHANGED <<out, g_Cancel, worldVars, pairVars, counts, written, code>>
      /\ \/ command \in Ordered /\ Return
         \/ command = "info" /\ (g_Cancel \/ Len(out) = Count) /\ verdict' = verdict
  BY DEF RunReturns, Info, Ordered, Return
<1>2. /\ out' = out /\ command' = command /\ item' = item /\ full' = full /\ wants' = wants
      /\ problems' = problems /\ g_Cancel' = g_Cancel
      /\ left' = left /\ right' = right /\ pairs' = pairs
      /\ counts' = counts /\ written' = written /\ code' = code
  BY <1>1 DEF worldVars, pairVars
<1>3. /\ verdict' \in {"none", "complete", "cancelled"}
      /\ verdict' = "complete" => Len(out) = Count
      /\ verdict' = "cancelled" => g_Cancel
      /\ command \in Ordered => verdict' # "none"
      /\ command = "info" => g_Cancel \/ Len(out) = Count
  BY <1>1 DEF Return, CommandsInv, TypeOK, ResultsInOrder, Ordered
<1>4. TypeOK'
  BY <1>1, <1>2, <1>3 DEF CommandsInv, TypeOK
<1>5. PairsAreNames'
  <2>1. \A i : InLeft(i)' = InLeft(i) /\ InRight(i)' = InRight(i)
    BY <1>2, Zenon DEF InLeft, InRight
  <2> QED
    BY <1>1, <1>2, <2>1 DEF CommandsInv, PairsAreNames
<1>6. ResultsInOrder'
  BY <1>1, <1>2, <1>3 DEF CommandsInv, ResultsInOrder, Ran
<1>7. CountsAreOfDone' /\ ListedIsWritten'
  BY <1>1, SameResults DEF CommandsInv
<1>8. CodeIsOfDone'
  BY <1>1 DEF CodeIsOfDone
<1> QED
  BY <1>4, <1>5, <1>6, <1>7, <1>8 DEF CommandsInv

\* diff of two files: the one item, and the code at once
LEMMA DiffTwoFilesKeeps ==
  ASSUME CommandsInv, DiffTwoFiles PROVE CommandsInv'
<1>1. /\ at = "run" /\ command = "diff2" /\ Consume(0) /\ out' = <<0>> /\ at' = "exited"
      /\ code' = CASE Result(0) \in {"skipped", "failed"} -> UsageError
                   [] Result(0) = "ok" -> Success
                   [] Result(0) = "changed" -> SomeFailed
      /\ UNCHANGED <<g_Cancel, verdict, worldVars, pairVars>>
  BY DEF DiffTwoFiles, Exit
<1>2. /\ g_Cancel' = g_Cancel /\ verdict' = verdict
      /\ command' = command /\ item' = item /\ full' = full /\ wants' = wants /\ problems' = problems
      /\ left' = left /\ right' = right /\ pairs' = pairs
  BY <1>1 DEF worldVars, pairVars
<1>3. out = <<>> /\ Len(out) = 0 /\ Len(out) < Count /\ out' = Append(out, Len(out))
  <2>1. out = <<>>
    BY <1>1 DEF CommandsInv, ResultsInOrder
  <2> QED
    BY <1>1, <2>1, SomeItems
<1>4. /\ out' \in Seq(Items) /\ Len(out') = 1 /\ Len(out') <= Count
      /\ \A i \in 1..Len(out') : out'[i] = i - 1
      /\ counts' \in [Results -> 0..Count]
      /\ written' \in [{"main", "csv"} -> Seq(Lines)]
      /\ CountsAreOfDone' /\ ListedIsWritten'
      /\ \A k : ResultOf(k)' = ResultOf(k)
  <2>1. /\ Len(out) < Count /\ (command = "diff" => Len(pairs) = Count)
        /\ Consume(Len(out)) /\ at # "exited" /\ (at' = "exited" => command # "info")
    BY <1>1, <1>3
  <2>2. UNCHANGED worldVars
    BY <1>1
  <2> QED
    BY <1>3, <2>1, <2>2, ConsumeKeeps
<1>5. code' = IF ResultOf(0) \in {"skipped", "failed"} THEN UsageError
              ELSE IF ResultOf(0) = "ok" THEN Success ELSE SomeFailed
  <2>1. Result(0) = ResultOf(0)
    BY <1>1 DEF Result, ResultOf
  <2>2. ResultOf(0) \in {"ok", "skipped", "failed", "changed"}
    BY <1>1, ItemsAreNat, ResultTells DEF CommandsInv
  <2> QED
    BY <1>1, <2>1, <2>2
<1>6. TypeOK'
  <2>1. code' \in {-1, Success, SomeFailed, UsageError, CheckFailed}
    BY <1>5
  <2> QED
    BY <1>1, <1>2, <1>4, <2>1 DEF CommandsInv, TypeOK
<1>7. PairsAreNames'
  <2>1. \A i : InLeft(i)' = InLeft(i) /\ InRight(i)' = InRight(i)
    BY <1>2, Zenon DEF InLeft, InRight
  <2> QED
    BY <1>1, <1>2, <2>1 DEF CommandsInv, PairsAreNames
<1>8. ResultsInOrder'
  <2>1. verdict # "complete"
    BY <1>3 DEF CommandsInv, ResultsInOrder
  <2> QED
    BY <1>1, <1>2, <1>4, <2>1 DEF CommandsInv, ResultsInOrder
<1>9. CodeIsOfDone'
  <2>1. CodeOf' = code'
    BY <1>1, <1>2, <1>4, <1>5 DEF CodeOf, Success, SomeFailed, UsageError
  <2> QED
    BY <1>1, <1>2, <1>4, <2>1 DEF CodeIsOfDone
<1> QED
  BY <1>4, <1>6, <1>7, <1>8, <1>9 DEF CommandsInv

LEMMA CtrlHandlerKeeps ==
  ASSUME CommandsInv, CtrlHandler PROVE CommandsInv'
<1>1. /\ at # "exited" /\ g_Cancel' = TRUE
      /\ UNCHANGED <<out, verdict, worldVars, at, pairVars, counts, written, code>>
  BY DEF CtrlHandler, CtrlC
<1>2. /\ out' = out /\ command' = command /\ item' = item /\ full' = full /\ wants' = wants
      /\ problems' = problems /\ verdict' = verdict /\ at' = at
      /\ left' = left /\ right' = right /\ pairs' = pairs
      /\ counts' = counts /\ written' = written /\ code' = code
  BY <1>1 DEF worldVars, pairVars
<1>3. TypeOK'
  BY <1>1, <1>2 DEF CommandsInv, TypeOK
<1>4. PairsAreNames'
  <2>1. \A i : InLeft(i)' = InLeft(i) /\ InRight(i)' = InRight(i)
    BY <1>2, Zenon DEF InLeft, InRight
  <2>2. LeftNames' = LeftNames /\ RightNames' = RightNames
    BY <1>2 DEF LeftNames, RightNames, InLeft, InRight
  <2> QED
    BY <1>2, <2>1, <2>2 DEF CommandsInv, PairsAreNames
<1>5. ResultsInOrder'
  BY <1>1, <1>2 DEF CommandsInv, ResultsInOrder, Ran
<1>6. CountsAreOfDone' /\ ListedIsWritten'
  BY <1>1, <1>2, SameResults DEF CommandsInv
<1>7. CodeIsOfDone'
  BY <1>1, <1>2 DEF CodeIsOfDone
<1> QED
  BY <1>3, <1>4, <1>5, <1>6, <1>7 DEF CommandsInv

\* info writes its JSON at the end: of every file that was read.
LEMMA FinishWrites ==
  ASSUME CommandsInv, Finish
  PROVE written' \in [{"main", "csv"} -> Seq(Lines)] /\ ListedIsWritten'
<1> DEFINE last == IF command = "info" /\ ~full THEN [n \in DOMAIN out |-> Line(out[n])] ELSE <<>>
<1>1. /\ at = "finish" /\ at' = "exited"
      /\ written' = [o \in {"main", "csv"} |-> IF o \in wants THEN written[o] \o last ELSE written[o]]
      /\ UNCHANGED <<out, worldVars>>
  BY DEF Finish, Write, Exit
<1>2. /\ out' = out /\ command' = command /\ item' = item /\ full' = full /\ wants' = wants
  BY <1>1 DEF worldVars
<1>3. Done' = Done
  BY <1>2 DEF Done
<1>4. (\A k : ResultOf(k)' = ResultOf(k)) /\ (\A x : Listed(x)' <=> Listed(x))
  BY <1>2 DEF ResultOf, InLeft, InRight, Analyzed, Listed
<1>5. \A o \in {"main", "csv"} :
        /\ written[o] \in Seq(Lines) /\ LinesAreOfDone(written[o])
        /\ o \in wants => \A k \in Done : Listed(ResultOf(k)) => IsIn(k, written[o])
        /\ command = "info" /\ ~full => written[o] = <<>>
  BY <1>1 DEF CommandsInv, TypeOK, ListedIsWritten
<1>6. CASE command = "info" /\ ~full
  <2> DEFINE m == Len(out)
  <2>1. m \in Nat /\ m <= Count /\ DOMAIN out = 1..m /\ \A n \in 1..m : out[n] = n - 1
    BY DEF CommandsInv, TypeOK, ResultsInOrder
  <2>2. \A k : Line(k) = [name |-> k, result |-> ResultOf(k)]
    BY <1>6 DEF Line, Name, Result, ResultOf
  <2>3. \A n \in 1..m : n - 1 \in Items /\ n - 1 \in Done /\ n - 1 \in Nat
    BY <2>1, CountIsNat DEF Done, Items
  <2>4. \A k \in Items : ResultOf(k) \in Results /\ ResultOf(k) # "skipped"
    BY <1>6, ResultTells DEF CommandsInv
  <2>5. last = [n \in 1..m |-> [name |-> n - 1, result |-> ResultOf(n - 1)]]
    BY <1>6, <2>1, <2>2
  <2> HIDE DEF last
  <2>6. \A n \in 1..m : [name |-> n - 1, result |-> ResultOf(n - 1)] \in Lines
    BY <2>3, <2>4 DEF Lines
  <2>7. last \in Seq(Lines) /\ Len(last) = m
    BY <2>1, <2>5, <2>6
  <2>8. \A n \in 1..m : last[n].name = n - 1 /\ last[n].result = ResultOf(n - 1)
    BY <2>5
  <2>9. \A k \in Done : IsIn(k, last)
    <3> TAKE k \in Done
    <3>1. k \in Nat /\ k < m
      BY ItemsAreNat DEF Done
    <3> DEFINE j == k + 1
    <3>2. j \in 1..m /\ j - 1 = k
      BY <2>1, <3>1
    <3> HIDE DEF j
    <3>3. j \in 1..Len(last) /\ last[j].name = k
      BY <2>7, <2>8, <3>2
    <3> QED
      BY <3>3 DEF IsIn
  <2> HIDE DEF m
  <2>10. \A o \in {"main", "csv"} : written'[o] = IF o \in wants THEN last ELSE <<>>
    <3>1. <<>> \o last = last
      BY <2>7
    <3> QED
      BY <1>1, <1>5, <1>6, <3>1
  <2>11. \A n \in 1..m : /\ last[n].name \in Done /\ last[n].result = ResultOf(last[n].name)
                         /\ last[n].result # "skipped"
    BY <2>3, <2>4, <2>8
  <2>12. \A i, j \in 1..m : i < j => last[i].name < last[j].name
    <3>1. \A i, j \in 1..m : i < j => i - 1 < j - 1
      BY <2>1
    <3> QED
      BY <2>8, <3>1
  <2>13. written' \in [{"main", "csv"} -> Seq(Lines)]
    BY <1>1, <1>5, <1>6, <2>7, <2>10
  <2>14. ListedIsWritten'
    <3> SUFFICES ASSUME NEW o \in {"main", "csv"}
                 PROVE (/\ LinesAreOfDone(written[o])
                        /\ o \in wants => \A k \in Done : Listed(ResultOf(k)) => IsIn(k, written[o])
                        /\ o \in wants /\ command = "info" /\ at = "exited" => \A k \in Done : IsIn(k, written[o])
                        /\ command = "info" /\ ~full /\ at # "exited" => written[o] = <<>>)'
      BY DEF ListedIsWritten
    <3>1. CASE o \in wants
      <4>1. written'[o] = last
        BY <2>10, <3>1
      <4>2. LinesAreOfDone(written[o])'
        BY <1>3, <1>4, <2>7, <2>11, <2>12, <4>1 DEF LinesAreOfDone
      <4>3. (\A k \in Done : IsIn(k, written[o]))'
        BY <1>3, <2>9, <4>1 DEF IsIn
      <4> QED
        BY <1>1, <4>2, <4>3
    <3>2. CASE o \notin wants
      <4>1. written'[o] = <<>>
        BY <2>10, <3>2
      <4>2. LinesAreOfDone(written[o])'
        BY <4>1 DEF LinesAreOfDone
      <4> QED
        BY <1>1, <1>2, <3>2, <4>2
    <3> QED
      BY <3>1, <3>2
  <2> QED
    BY <2>13, <2>14
<1>7. CASE ~(command = "info" /\ ~full)
  <2>1. \A o \in {"main", "csv"} : written'[o] = written[o]
    <3>1. last = <<>>
      BY <1>7
    <3> HIDE DEF last
    <3>2. \A o \in {"main", "csv"} : written[o] \o last = written[o]
      BY <1>5, <3>1
    <3> QED
      BY <1>1, <3>2
  <2>2. written' \in [{"main", "csv"} -> Seq(Lines)]
    BY <1>1, <1>5, <2>1
  <2>3. command = "info" => \A x : Listed(x)
    BY <1>7 DEF Listed
  <2>4. ListedIsWritten'
    <3> SUFFICES ASSUME NEW o \in {"main", "csv"}
                 PROVE (/\ LinesAreOfDone(written[o])
                        /\ o \in wants => \A k \in Done : Listed(ResultOf(k)) => IsIn(k, written[o])
                        /\ o \in wants /\ command = "info" /\ at = "exited" => \A k \in Done : IsIn(k, written[o])
                        /\ command = "info" /\ ~full /\ at # "exited" => written[o] = <<>>)'
      BY DEF ListedIsWritten
    <3>1. LinesAreOfDone(written[o])'
      BY <1>3, <1>4, <1>5, <2>1 DEF LinesAreOfDone
    <3>2. \A k : IsIn(k, written[o])' <=> IsIn(k, written[o])
      BY <2>1 DEF IsIn
    <3>3. (o \in wants => \A k \in Done : Listed(ResultOf(k)) => IsIn(k, written[o]))'
      BY <1>2, <1>3, <1>4, <1>5, <3>2
    <3>4. (o \in wants /\ command = "info" => \A k \in Done : IsIn(k, written[o]))'
      BY <1>2, <1>3, <1>5, <2>3, <3>2
    <3> QED
      BY <1>1, <3>1, <3>3, <3>4
  <2> QED
    BY <2>2, <2>4
<1> QED
  BY <1>6, <1>7

LEMMA FinishKeeps ==
  ASSUME CommandsInv, Finish PROVE CommandsInv'
<1>1. /\ at = "finish" /\ at' = "exited"
      /\ code' = CASE command = "info" -> InfoCode
                   [] command = "scan" -> ScanCode
                   [] command = "check" -> CheckCode
                   [] command = "cluster" -> ClusterCode
                   [] command = "diff" -> DiffCode
      /\ UNCHANGED <<out, g_Cancel, verdict, worldVars, pairVars, counts>>
  BY DEF Finish, Exit
<1>2. /\ out' = out /\ command' = command /\ item' = item /\ full' = full /\ wants' = wants
      /\ problems' = problems /\ g_Cancel' = g_Cancel /\ verdict' = verdict
      /\ left' = left /\ right' = right /\ pairs' = pairs /\ counts' = counts
  BY <1>1 DEF worldVars, pairVars
<1>3. written' \in [{"main", "csv"} -> Seq(Lines)] /\ ListedIsWritten'
  BY FinishWrites
<1>4. Ran /\ command \in {"info", "scan", "check", "cluster", "diff"}
  BY <1>1 DEF CommandsInv, TypeOK, ResultsInOrder, Ran, CommandNames
<1>5. code' = CodeOf
  BY <1>1, <1>4 DEF CodeOf
<1>6. CodeOf' = CodeOf
  <2>1. /\ InfoCode' = InfoCode /\ ScanCode' = ScanCode /\ CheckCode' = CheckCode
        /\ ClusterCode' = ClusterCode /\ DiffCode' = DiffCode
    BY <1>2 DEF InfoCode, ScanCode, CheckCode, ClusterCode, DiffCode, Complete
  <2> QED
    BY <1>2, <1>4, <2>1 DEF CodeOf
<1>7. TypeOK'
  <2>1. code' \in {Success, SomeFailed, UsageError, CheckFailed}
    BY <1>4, <1>5 DEF CodeOf, InfoCode, ScanCode, CheckCode, ClusterCode, DiffCode
  <2> QED
    BY <1>1, <1>2, <1>3, <2>1 DEF CommandsInv, TypeOK
<1>8. PairsAreNames'
  <2>1. \A i : InLeft(i)' = InLeft(i) /\ InRight(i)' = InRight(i)
    BY <1>2, Zenon DEF InLeft, InRight
  <2> QED
    BY <1>1, <1>2, <2>1 DEF CommandsInv, PairsAreNames
<1>9. ResultsInOrder'
  BY <1>1, <1>2 DEF CommandsInv, ResultsInOrder
<1>10. CountsAreOfDone'
  <2>1. Done' = Done /\ \A k : ResultOf(k)' = ResultOf(k)
    BY <1>2 DEF Done, ResultOf, InLeft, InRight, Analyzed
  <2> QED
    BY <1>2, <2>1 DEF CommandsInv, CountsAreOfDone
<1>11. CodeIsOfDone'
  <2>1. Ran'
    BY <1>2, <1>4 DEF Ran
  <2> QED
    BY <1>5, <1>6, <2>1 DEF CodeIsOfDone
<1> QED
  BY <1>3, <1>7, <1>8, <1>9, <1>10, <1>11 DEF CommandsInv

LEMMA CommandsNextKeeps == CommandsInv /\ [Next]_vars => CommandsInv'
<1> SUFFICES ASSUME CommandsInv, [Next]_vars PROVE CommandsInv'
  OBVIOUS
<1>1. CASE UNCHANGED vars
  <2>1. UNCHANGED <<out, g_Cancel, verdict, command, item, problems, full, wants, at, left, right, pairs, counts,
                    written, code>>
    BY <1>1 DEF vars, worldVars
  <2>2. TypeOK'
    BY <2>1 DEF CommandsInv, TypeOK
  <2>3. PairsAreNames'
    BY <2>1 DEF CommandsInv, PairsAreNames, LeftNames, RightNames, InLeft, InRight
  <2>4. ResultsInOrder' /\ CodeIsOfDone'
    <3>1. Ran' = Ran
      BY <2>1 DEF Ran
    <3>2. CodeOf' = CodeOf
      BY <2>1 DEF CodeOf, ResultOf, InLeft, InRight, Analyzed, InfoCode, ScanCode, CheckCode, ClusterCode, DiffCode,
                  Complete
    <3> QED
      BY <2>1, <3>1, <3>2 DEF CommandsInv, ResultsInOrder, CodeIsOfDone
  <2>5. Done' = Done /\ (\A k : ResultOf(k)' = ResultOf(k)) /\ (\A x : Listed(x)' <=> Listed(x))
    BY <2>1 DEF Done, ResultOf, InLeft, InRight, Analyzed, Listed
  <2>6. CountsAreOfDone'
    BY <2>1, <2>5 DEF CommandsInv, CountsAreOfDone
  <2>7. ListedIsWritten'
    BY <2>1, <2>5 DEF CommandsInv, ListedIsWritten, LinesAreOfDone, IsIn
  <2> QED
    BY <2>2, <2>3, <2>4, <2>6, <2>7 DEF CommandsInv
<1>2. CASE Info
  BY <1>2, RunDeliversKeeps, RunReturnsKeeps
<1>3. CASE Start \/ PairNames \/ AllPaired
  BY <1>3, StartKeeps, PairNamesKeeps, AllPairedKeeps
<1>4. CASE RunDelivers \/ RunReturns \/ DiffTwoFiles \/ Finish \/ CtrlHandler
  BY <1>4, RunDeliversKeeps, RunReturnsKeeps, DiffTwoFilesKeeps, FinishKeeps, CtrlHandlerKeeps
<1> QED
  BY <1>1, <1>2, <1>3, <1>4 DEF Next, Over

\* The invariant of the commands.
THEOREM CommandsInvariance == Spec => []CommandsInv
  BY CommandsInitEstablishes, CommandsNextKeeps, PTL DEF Spec

\* The state of a command has its types: no count is more than the files of the input.
THEOREM CommandsTypeCorrect == Spec => []TypeOK
<1>1. CommandsInv => TypeOK
  BY DEF CommandsInv
<1> QED
  BY <1>1, CommandsInvariance, PTL

\* When all was handled, all is done; the codes that say so.
LEMMA AllIsDone ==
  ASSUME CommandsInv, Len(out) = Count
  PROVE Done = Items
  BY ItemsAreNat DEF Done

LEMMA GivenIsDone ==
  ASSUME CommandsInv, command # "diff2"
  PROVE Given = Items /\ Handled = Done
  BY DEF Given, Handled, Done

\* info, scan, cluster and check: the counts of what is wrong, and the codes that are made of them
LEMMA OneFileCodes ==
  ASSUME CommandsInv, at = "exited", code = CodeOf, Ran, command \in {"info", "scan", "cluster", "check"}
  PROVE ExitCodeTells
<1>1. /\ counts["failed"] > 0 <=> \E k \in Done : ResultOf(k) = "failed"
      /\ counts["unmet"] > 0 <=> \E k \in Done : ResultOf(k) = "unmet"
  BY DEF CommandsInv, CountsAreOfDone, Results
<1>2. Given = Items /\ Handled = Done /\ Done \subseteq Items
  BY GivenIsDone DEF Done
<1>3. /\ command \in Ordered => (Complete => Len(out) = Count) /\ (~Complete => g_Cancel)
      /\ command = "info" => g_Cancel \/ Len(out) = Count
  BY DEF Ran, Complete, CommandsInv, TypeOK, ResultsInOrder
<1>4. Len(out) = Count => Done = Items
  BY AllIsDone
<1>5. CASE command = "info"
  <2>1. code = IF counts["failed"] > 0 \/ problems THEN 1 ELSE 0
    BY <1>5 DEF CodeOf, InfoCode, SomeFailed, Success
  <2>2. \A k \in Items : Right(k) <=> ResultOf(k) # "failed"
    BY <1>5, ResultTells DEF CommandsInv
  <2> QED
    BY <1>1, <1>2, <1>3, <1>4, <1>5, <2>1, <2>2
       DEF ExitCodeTells, Interrupted, Success, SomeFailed, UsageError, CheckFailed
<1>6. CASE command \in {"scan", "cluster"}
  <2>1. code = IF counts["failed"] > 0 \/ problems \/ ~Complete THEN 1 ELSE 0
    BY <1>6 DEF CodeOf, ScanCode, ClusterCode, SomeFailed, Success
  <2>2. \A k \in Items : Right(k) <=> ResultOf(k) # "failed"
    BY <1>6, ResultTells DEF CommandsInv
  <2>3. command \in Ordered
    BY <1>6 DEF Ordered
  <2> QED
    BY <1>1, <1>2, <1>3, <1>4, <1>6, <2>1, <2>2, <2>3
       DEF ExitCodeTells, Interrupted, Success, SomeFailed, UsageError, CheckFailed
<1>7. CASE command = "check"
  <2>1. code = IF counts["unmet"] > 0 THEN 3
               ELSE IF counts["failed"] > 0 \/ problems \/ ~Complete THEN 1 ELSE 0
    BY <1>7 DEF CodeOf, CheckCode, ScanCode, SomeFailed, Success, CheckFailed
  <2>2. \A k \in Items : /\ Right(k) <=> ResultOf(k) \notin {"failed", "unmet"}
                         /\ item[k].left = "Ok" /\ ~item[k].good <=> ResultOf(k) = "unmet"
    BY <1>7, ResultTells DEF CommandsInv
  <2>3. command \in Ordered
    BY <1>7 DEF Ordered
  <2> QED
    BY <1>1, <1>2, <1>3, <1>4, <1>7, <2>1, <2>2, <2>3
       DEF ExitCodeTells, Interrupted, Success, SomeFailed, UsageError, CheckFailed
<1> QED
  BY <1>5, <1>6, <1>7

\* diff of directories: 2 says that something was not compared, 1 that all was, and differs
LEMMA DirectoriesCodes ==
  ASSUME CommandsInv, at = "exited", code = CodeOf, Ran, command = "diff"
  PROVE ExitCodeTells
<1>1. /\ counts["failed"] > 0 <=> \E k \in Done : ResultOf(k) = "failed"
      /\ counts["changed"] > 0 <=> \E k \in Done : ResultOf(k) = "changed"
      /\ counts["oneSided"] > 0 <=> \E k \in Done : ResultOf(k) = "oneSided"
  BY DEF CommandsInv, CountsAreOfDone, Results
<1>2. Given = Items /\ Handled = Done /\ Done \subseteq Items
  BY GivenIsDone DEF Done
<1>3. (Complete => Done = Items) /\ (~Complete => g_Cancel)
  BY AllIsDone DEF Ran, Ordered, Complete, CommandsInv, TypeOK, ResultsInOrder
<1>4. code = IF counts["failed"] > 0 \/ problems \/ ~Complete THEN 2
             ELSE IF counts["changed"] > 0 \/ counts["oneSided"] > 0 THEN 1 ELSE 0
  BY DEF CodeOf, DiffCode, SomeFailed, Success, UsageError
<1>5. \A k \in Items : /\ ResultOf(k) \in {"ok", "skipped", "failed", "changed", "oneSided"}
                       /\ Right(k) <=> ResultOf(k) \in {"ok", "skipped"}
                       /\ Differs(item[k]) <=> ResultOf(k) \in {"changed", "oneSided"}
  BY ResultTells DEF CommandsInv
<1>6. CASE counts["failed"] > 0 \/ problems \/ ~Complete
  BY <1>1, <1>2, <1>3, <1>4, <1>5, <1>6
     DEF ExitCodeTells, Interrupted, Success, SomeFailed, UsageError, CheckFailed
<1>7. CASE ~(counts["failed"] > 0 \/ problems \/ ~Complete) /\ (counts["changed"] > 0 \/ counts["oneSided"] > 0)
  BY <1>1, <1>2, <1>3, <1>4, <1>5, <1>7
     DEF ExitCodeTells, Interrupted, Success, SomeFailed, UsageError, CheckFailed
<1>8. CASE ~(counts["failed"] > 0 \/ problems \/ ~Complete) /\ ~(counts["changed"] > 0 \/ counts["oneSided"] > 0)
  BY <1>1, <1>2, <1>3, <1>4, <1>5, <1>8
     DEF ExitCodeTells, Interrupted, Success, SomeFailed, UsageError, CheckFailed
<1> QED
  BY <1>6, <1>7, <1>8

LEMMA TwoFilesCodes ==
  ASSUME CommandsInv, at = "exited", code = CodeOf, command = "diff2", Len(out) = 1
  PROVE ExitCodeTells
<1>1. Given = {0} /\ Handled = {0} /\ 0 \in Items
  BY ItemsAreNat DEF Given, Handled
<1>2. code = IF ResultOf(0) \in {"skipped", "failed"} THEN 2 ELSE IF ResultOf(0) = "ok" THEN 0 ELSE 1
  BY DEF CodeOf, SomeFailed, Success, UsageError
<1>3. /\ ResultOf(0) \in {"ok", "skipped", "failed", "changed"}
      /\ Right(0) <=> ResultOf(0) = "ok"
      /\ Differs(item[0]) <=> ResultOf(0) = "changed"
  BY <1>1, ResultTells DEF CommandsInv
<1>4. ~problems
  BY DEF CommandsInv, ResultsInOrder
<1> QED
  BY <1>1, <1>2, <1>3, <1>4 DEF ExitCodeTells, Interrupted, Success, SomeFailed, UsageError, CheckFailed

LEMMA NothingReadCodes ==
  ASSUME CommandsInv, code = UsageError, out = <<>>
  PROVE ExitCodeTells
<1>1. Handled = {}
  <2>1. \A k \in Items : ~(k < 0)
    BY ItemsAreNat
  <2>2. Given \subseteq Items
    BY ItemsAreNat DEF Given
  <2> QED
    BY <2>1, <2>2 DEF Handled
<1> QED
  BY <1>1 DEF ExitCodeTells, Success, SomeFailed, UsageError, CheckFailed

\* The exit code says what happened (main.cpp:29-33), for any number of files, of any kind and in any
\* order, and whenever Ctrl+C comes: 0 only when every file given was handled and nothing was wrong;
\* 1, 2 and 3 only for their reasons.
THEOREM ExitCodeAlwaysTells == Spec => []ExitCodeTells
<1>1. CommandsInv => ExitCodeTells
  <2> SUFFICES ASSUME CommandsInv PROVE ExitCodeTells
    OBVIOUS
  <2>1. CASE at # "exited"
    BY <2>1 DEF ExitCodeTells
  <2>2. CASE at = "exited"
    <3>1. \/ code = UsageError /\ out = <<>>
          \/ code = CodeOf /\ Ran
          \/ code = CodeOf /\ command = "diff2" /\ Len(out) = 1
      BY <2>2 DEF CommandsInv, CodeIsOfDone
    <3>2. Ran => command \in {"info", "scan", "cluster", "check", "diff"}
      BY DEF Ran, CommandsInv, TypeOK, CommandNames
    <3> QED
      BY <2>2, <3>1, <3>2, NothingReadCodes, OneFileCodes, DirectoriesCodes, TwoFilesCodes
  <2> QED
    BY <2>1, <2>2
<1> QED
  BY <1>1, CommandsInvariance, PTL

\* What is wrong is listed, by every command that lists what it finds.
LEMMA WrongIsListed ==
  ASSUME CommandsInv, NEW k \in Items, ~Right(k), ~(command = "diff2" /\ BothNotPE(item[k])),
         command \notin {"info", "cluster"}
  PROVE Listed(ResultOf(k))
<1>1. command \in {"scan", "check", "diff", "diff2"}
  BY DEF CommandsInv, TypeOK, CommandNames
<1>2. CASE command = "scan"
  <2>1. ResultOf(k) = "failed"
    BY <1>2, ResultTells DEF CommandsInv
  <2> QED
    BY <1>2, <2>1 DEF Listed
<1>3. CASE command = "check"
  <2>1. ResultOf(k) \in {"failed", "unmet"}
    BY <1>3, ResultTells DEF CommandsInv
  <2> QED
    BY <1>3, <2>1 DEF Listed
<1>4. CASE command = "diff"
  <2>1. ResultOf(k) \in {"failed", "changed", "oneSided"}
    BY <1>4, ResultTells DEF CommandsInv
  <2> QED
    BY <1>4, <2>1 DEF Listed
<1>5. CASE command = "diff2"
  <2>1. ResultOf(k) \in {"failed", "changed"}
    BY <1>5, ResultTells DEF CommandsInv
  <2> QED
    BY <1>5, <2>1 DEF Listed
<1> QED
  BY <1>1, <1>2, <1>3, <1>4, <1>5

\* What was found wrong is in every output of the command, in the order of the input and once, and so
\* is all that is reported: a CSV summary has the rows of the JSON lines.
THEOREM WrongIsAlwaysWritten == Spec => []WrongIsWritten
<1>1. CommandsInv => WrongIsWritten
  <2> SUFFICES ASSUME CommandsInv, at = "exited", out # <<>>, command # "cluster", NEW o \in wants
               PROVE /\ \A m, n \in DOMAIN written[o] : m < n => Reports(o)[m] < Reports(o)[n]
                     /\ \A k \in Handled : ~Right(k) /\ ~(command = "diff2" /\ BothNotPE(item[k]))
                          => \E n \in DOMAIN written[o] : Reports(o)[n] = k
                     /\ \A n \in DOMAIN written[o] :
                          written[o][n].result # "skipped" /\ Reports(o)[n] \in Handled
    BY DEF WrongIsWritten
  <2>1. o \in {"main", "csv"}
    BY DEF CommandsInv, TypeOK, Wants
  <2>2. /\ written[o] \in Seq(Lines) /\ LinesAreOfDone(written[o])
        /\ \A k \in Done : Listed(ResultOf(k)) => IsIn(k, written[o])
        /\ command = "info" => \A k \in Done : IsIn(k, written[o])
    BY <2>1 DEF CommandsInv, TypeOK, ListedIsWritten
  <2> DEFINE s == written[o]
  <2>3. DOMAIN s = 1..Len(s) /\ \A n \in 1..Len(s) : Reports(o)[n] = s[n].name
    BY <2>2 DEF Reports
  <2>4. Handled = Done /\ Done \subseteq Items
    <3>1. CASE command = "diff2"
      <4>1. Len(out) = 1
        BY <3>1 DEF CommandsInv, CodeIsOfDone, Ran
      <4>2. Given = {0} /\ Handled = {0}
        BY <3>1, <4>1 DEF Given, Handled
      <4>3. \A k \in Items : k < 1 <=> k = 0
        BY ItemsAreNat
      <4>4. Done = {0}
        BY <4>1, <4>3, ItemsAreNat DEF Done
      <4> QED
        BY <4>2, <4>4, ItemsAreNat
    <3>2. CASE command # "diff2"
      BY <3>2, GivenIsDone DEF Done
    <3> QED
      BY <3>1, <3>2
  <2> HIDE DEF s
  <2>5. \A m, n \in DOMAIN s : m < n => Reports(o)[m] < Reports(o)[n]
    BY <2>2, <2>3 DEF LinesAreOfDone, s
  <2>6. \A n \in DOMAIN s : s[n].result # "skipped" /\ Reports(o)[n] \in Handled
    BY <2>2, <2>3, <2>4 DEF LinesAreOfDone, s
  <2>7. ASSUME NEW k \in Handled, ~Right(k), ~(command = "diff2" /\ BothNotPE(item[k]))
        PROVE \E n \in DOMAIN s : Reports(o)[n] = k
    <3>1. k \in Done /\ k \in Items
      BY <2>4
    <3>2. IsIn(k, s)
      <4>1. CASE command = "info"
        BY <2>2, <3>1, <4>1 DEF s
      <4>2. CASE command # "info"
        <5>1. Listed(ResultOf(k))
          BY <2>7, <3>1, <4>2, WrongIsListed
        <5> QED
          BY <2>2, <3>1, <5>1 DEF s
      <4> QED
        BY <4>1, <4>2
    <3> QED
      BY <2>3, <3>2 DEF IsIn
  <2> QED
    BY <2>5, <2>6, <2>7 DEF s
<1> QED
  BY <1>1, CommandsInvariance, PTL

-----------------------------------------------------------------------------
(* The clusters *)

\* The pairs of close files
AllClose == {p \in FilePairs : IsClose(score[p])}

\* The types, of all but what is written (rows)
FindingTypeOK ==
  /\ score \in [FilePairs -> Scores]
  /\ cancel \in BOOLEAN
  /\ next \in Nat
  /\ worker \in [Threads -> [at : WorkerPlaces, row : Nat]]
  /\ found \in [Threads -> SUBSET FilePairs]
  /\ closePairs \in SUBSET FilePairs
MakingTypeOK ==
  /\ step \in {"pairs", "cluster", "write", "done"}
  /\ taken \in SUBSET Files
  /\ open \in [Files -> Nat]
  /\ clusters \in Seq([center : Files, members : SUBSET Files])

\* Only pairs that are close are found, and the row of each number that was taken is being compared, is
\* in what a worker found, or was handed over; a worker leaves when no row is left, or by Ctrl+C.
Held(r, t) ==
  \/ worker[t].at = "compare" /\ worker[t].row = r
  \/ worker[t].at # "ended" /\ RowPairs(r) \subseteq found[t]
RowsAreFound ==
  /\ closePairs \subseteq AllClose /\ \A t \in Threads : found[t] \subseteq AllClose
  /\ \A r \in Files : r < next => RowPairs(r) \subseteq closePairs \/ \E t \in Threads : Held(r, t)
  /\ \A t \in Threads : worker[t].at \in {"handover", "ended"} /\ ~cancel => next >= N
AllFound ==
  step # "pairs" => /\ \A t \in Threads : worker[t].at = "ended"
                    /\ ~cancel => closePairs = AllClose

\* What is open of a file is what is close to it and in no cluster; a center is close to its members.
OpenIsCounted ==
  /\ step = "pairs" => taken = {} /\ clusters = <<>>
  /\ step # "pairs" => \A f \in Files : open[f] = Cardinality(CloseOf(f) \ taken)
MembersAreClose ==
  \A k \in 1..Len(clusters) :
    \A m \in clusters[k].members \ {clusters[k].center} : IsClose(Score(clusters[k].center, m))
SinglesAreAlone ==
  step \in {"write", "done"} => \A f \in Files \ taken : CloseOf(f) \ taken = {}

ClustersInv ==
  FindingTypeOK /\ RowsAreFound /\ AllFound /\ MakingTypeOK /\ OpenIsCounted /\ MembersAreClose /\ SinglesAreAlone

LEMMA FilesAreFinite ==
  /\ Files \subseteq Nat /\ IsFiniteSet(Files) /\ N \in Nat
  /\ \A r \in Nat : r \in Files <=> r < N
  /\ \A f \in Files : IsFiniteSet(CloseOf(f)) /\ CloseOf(f) \subseteq Files
<1>1. N \in Nat
  BY ClusterAssumptions
<1>2. Files \subseteq Nat /\ IsFiniteSet(Files) /\ \A r \in Nat : r \in Files <=> r < N
  BY <1>1, FS_Interval DEF Files
<1>3. \A f \in Files : CloseOf(f) \subseteq Files
  BY DEF CloseOf
<1>4. \A f \in Files : IsFiniteSet(CloseOf(f))
  BY <1>2, <1>3, FS_Subset
<1> QED
  BY <1>1, <1>2, <1>3, <1>4

LEMMA ClustersInitEstablishes == ClustersInit => ClustersInv
<1> SUFFICES ASSUME ClustersInit PROVE ClustersInv
  OBVIOUS
<1> USE DEF ClustersInit
<1>1. FindingTypeOK
  BY DEF FindingTypeOK, WorkerPlaces
<1>2. RowsAreFound
  <2>1. \A r \in Files : ~(r < next)
    BY FilesAreFinite
  <2> QED
    BY <2>1 DEF RowsAreFound
<1>3. MakingTypeOK
  BY DEF MakingTypeOK
<1>4. AllFound /\ OpenIsCounted /\ MembersAreClose /\ SinglesAreAlone
  BY DEF AllFound, OpenIsCounted, MembersAreClose, SinglesAreAlone
<1> QED
  BY <1>1, <1>2, <1>3, <1>4 DEF ClustersInv

\* While pairs are found there are no clusters.
LEMMA NoClustersYet ==
  ASSUME ClustersInv, step = "pairs", UNCHANGED clusterVars
  PROVE AllFound' /\ MakingTypeOK' /\ OpenIsCounted' /\ MembersAreClose' /\ SinglesAreAlone'
<1>1. step' = step /\ taken' = taken /\ open' = open /\ clusters' = clusters
  BY DEF clusterVars
<1>2. taken = {} /\ clusters = <<>> /\ Len(clusters) = 0
  BY DEF ClustersInv, OpenIsCounted
<1>3. MakingTypeOK'
  BY <1>1 DEF ClustersInv, MakingTypeOK
<1>4. AllFound' /\ OpenIsCounted' /\ SinglesAreAlone'
  BY <1>1, <1>2 DEF AllFound, OpenIsCounted, SinglesAreAlone
<1>5. MembersAreClose'
  BY <1>1, <1>2 DEF MembersAreClose
<1> QED
  BY <1>3, <1>4, <1>5

\* A worker that is still there: pairs are being found.
LEMMA StillFinding ==
  ASSUME ClustersInv, NEW t \in Threads, worker[t].at # "ended"
  PROVE step = "pairs"
  BY DEF ClustersInv, AllFound, MakingTypeOK

\* What is found depends on no more than this.
LEMMA RowPairsOf ==
  ASSUME UNCHANGED score
  PROVE AllClose' = AllClose /\ \A r : RowPairs(r)' = RowPairs(r)
  BY DEF AllClose, RowPairs

LEMMA ClustersCtrlHandlerKeeps ==
  ASSUME ClustersInv, ClustersCtrlHandler PROVE ClustersInv'
<1> USE DEF ClustersCtrlHandler, clusterVars
<1>1. FindingTypeOK'
  BY DEF ClustersInv, FindingTypeOK
<1>2. RowsAreFound'
  <2>1. \A r, t : Held(r, t)' <=> Held(r, t)
    BY DEF Held, RowPairs
  <2> QED
    BY <2>1, RowPairsOf DEF ClustersInv, RowsAreFound
<1>3. AllFound'
  BY RowPairsOf DEF ClustersInv, AllFound
<1>4. MakingTypeOK'
  BY DEF ClustersInv, MakingTypeOK
<1>5. \A f : CloseOf(f)' = CloseOf(f)
  BY DEF CloseOf
<1>6. OpenIsCounted' /\ SinglesAreAlone'
  BY <1>5 DEF ClustersInv, OpenIsCounted, SinglesAreAlone
<1>7. MembersAreClose'
  BY DEF ClustersInv, MembersAreClose, Score
<1> QED
  BY <1>1, <1>2, <1>3, <1>4, <1>6, <1>7 DEF ClustersInv

LEMMA TestCancelKeeps ==
  ASSUME ClustersInv, NEW t \in Threads, TestCancel(t) PROVE ClustersInv'
<1> DEFINE place == IF cancel THEN "handover" ELSE "take"
<1>1. /\ worker[t].at = "test" /\ worker' = [worker EXCEPT ![t].at = place]
      /\ UNCHANGED <<score, cancel, next, found, closePairs, clusterVars>>
  BY DEF TestCancel
<1>2. worker \in [Threads -> [at : WorkerPlaces, row : Nat]]
  BY DEF ClustersInv, FindingTypeOK
<1>3. worker' \in [Threads -> [at : WorkerPlaces, row : Nat]]
  BY <1>1, <1>2 DEF WorkerPlaces
<1>4. worker'[t].at = place /\ \A u \in Threads : u # t => worker'[u] = worker[u]
  BY <1>1, <1>2
<1>5. FindingTypeOK'
  BY <1>1, <1>3 DEF ClustersInv, FindingTypeOK
<1>6. RowsAreFound'
  <2>1. \A r : \A u \in Threads : Held(r, u) => Held(r, u)'
    BY <1>1, <1>4, RowPairsOf DEF Held
  <2>2. \A u \in Threads : worker'[u].at \in {"handover", "ended"} /\ ~cancel => next >= N
    BY <1>4 DEF ClustersInv, RowsAreFound
  <2> QED
    BY <1>1, <2>1, <2>2, RowPairsOf DEF ClustersInv, RowsAreFound
<1> QED
  BY <1>1, <1>5, <1>6, StillFinding, NoClustersYet DEF ClustersInv

\* A row is taken, or there is none left.
LEMMA TakeRowKeeps ==
  ASSUME ClustersInv, NEW t \in Threads, TakeRow(t) PROVE ClustersInv'
<1> DEFINE new == [at |-> AfterTake(next), row |-> next]
<1>1. /\ worker[t].at = "take" /\ next' = next + 1 /\ worker' = [worker EXCEPT ![t] = new]
      /\ UNCHANGED <<score, cancel, found, closePairs, clusterVars>>
  BY DEF TakeRow, Claim
<1>2. worker \in [Threads -> [at : WorkerPlaces, row : Nat]] /\ next \in Nat
  BY DEF ClustersInv, FindingTypeOK
<1>3. new \in [at : WorkerPlaces, row : Nat]
  BY <1>2 DEF AfterTake, WorkerPlaces
<1>4. new.row = next /\ new.at = IF next < N THEN "compare" ELSE "handover"
  BY DEF AfterTake
<1> HIDE DEF new
<1>5. worker' \in [Threads -> [at : WorkerPlaces, row : Nat]]
  BY <1>1, <1>2, <1>3
<1>6. worker'[t] = new /\ \A u \in Threads : u # t => worker'[u] = worker[u]
  BY <1>1, <1>2
<1>7. FindingTypeOK'
  BY <1>1, <1>2, <1>5 DEF ClustersInv, FindingTypeOK
<1>8. RowsAreFound'
  <2>1. \A r : \A u \in Threads : Held(r, u) => u = t \/ Held(r, u)'
    BY <1>1, <1>6, RowPairsOf DEF Held
  <2>2. \A r : RowPairs(r) \subseteq found[t] => Held(r, t)'
    <3>1. worker'[t].at # "ended"
      BY <1>4, <1>6
    <3> QED
      BY <1>1, <3>1, RowPairsOf DEF Held
  <2>3. \A r : Held(r, t) => RowPairs(r) \subseteq found[t]
    BY <1>1 DEF Held
  <2>4. \A r \in Files : r = next => Held(r, t)'
    <3> SUFFICES ASSUME NEW r \in Files, r = next PROVE Held(r, t)'
      OBVIOUS
    <3>1. worker'[t].at = "compare" /\ worker'[t].row = r
      BY <1>2, <1>4, <1>6, FilesAreFinite
    <3> QED
      BY <3>1 DEF Held
  <2>5. \A r \in Files : r < next' => RowPairs(r) \subseteq closePairs \/ \E u \in Threads : Held(r, u)'
    <3> TAKE r \in Files
    <3> HAVE r < next'
    <3>1. r \in Nat
      BY FilesAreFinite
    <3>2. CASE r = next
      BY <2>4, <3>2
    <3>3. CASE r < next
      <4>1. RowPairs(r) \subseteq closePairs \/ \E u \in Threads : Held(r, u)
        BY <3>3 DEF ClustersInv, RowsAreFound
      <4> QED
        BY <2>1, <2>2, <2>3, <4>1
    <3> QED
      BY <1>1, <1>2, <3>1, <3>2, <3>3
  <2>6. \A u \in Threads : worker'[u].at \in {"handover", "ended"} /\ ~cancel => next' >= N
    <3> SUFFICES ASSUME NEW u \in Threads, worker'[u].at \in {"handover", "ended"}, ~cancel
                 PROVE next >= N
      BY <1>1, <1>2, FilesAreFinite
    <3>1. CASE u = t
      BY <1>2, <1>4, <1>6, <3>1, FilesAreFinite
    <3>2. CASE u # t
      BY <1>6, <3>2 DEF ClustersInv, RowsAreFound
    <3> QED
      BY <3>1, <3>2
  <2> QED
    BY <1>1, <2>5, <2>6, RowPairsOf DEF ClustersInv, RowsAreFound
<1> QED
  BY <1>1, <1>7, <1>8, StillFinding, NoClustersYet DEF ClustersInv

\* The row that was taken is in what its worker found.
LEMMA CompareRowKeeps ==
  ASSUME ClustersInv, NEW t \in Threads, CompareRow(t) PROVE ClustersInv'
<1> DEFINE row == worker[t].row
<1>1. /\ worker[t].at = "compare" /\ found' = [found EXCEPT ![t] = @ \cup RowPairs(row)]
      /\ worker' = [worker EXCEPT ![t].at = "test"]
      /\ UNCHANGED <<score, cancel, next, closePairs, clusterVars>>
  BY DEF CompareRow
<1>2. worker \in [Threads -> [at : WorkerPlaces, row : Nat]] /\ found \in [Threads -> SUBSET FilePairs]
  BY DEF ClustersInv, FindingTypeOK
<1>3. RowPairs(row) \subseteq FilePairs /\ RowPairs(row) \subseteq AllClose
  BY DEF RowPairs, AllClose
<1>4. /\ worker' \in [Threads -> [at : WorkerPlaces, row : Nat]]
      /\ worker'[t].at = "test" /\ \A u \in Threads : u # t => worker'[u] = worker[u]
  BY <1>1, <1>2 DEF WorkerPlaces
<1> HIDE DEF row
<1>5. /\ found' \in [Threads -> SUBSET FilePairs]
      /\ found'[t] = found[t] \cup RowPairs(row) /\ \A u \in Threads : u # t => found'[u] = found[u]
  BY <1>1, <1>2, <1>3
<1>6. FindingTypeOK'
  BY <1>1, <1>4, <1>5 DEF ClustersInv, FindingTypeOK
<1>7. RowsAreFound'
  <2>1. \A r : \A u \in Threads : u # t /\ Held(r, u) => Held(r, u)'
    BY <1>1, <1>4, <1>5, RowPairsOf DEF Held
  <2>2. \A r : Held(r, t) => Held(r, t)'
    <3> SUFFICES ASSUME NEW r, Held(r, t) PROVE Held(r, t)'
      OBVIOUS
    <3>1. RowPairs(r) \subseteq found'[t]
      BY <1>5 DEF Held, row
    <3> QED
      BY <1>1, <1>4, <3>1, RowPairsOf DEF Held
  <2>3. \A u \in Threads : found'[u] \subseteq AllClose
    BY <1>3, <1>5 DEF ClustersInv, RowsAreFound
  <2>4. \A u \in Threads : worker'[u].at \in {"handover", "ended"} /\ ~cancel => next >= N
    BY <1>4 DEF ClustersInv, RowsAreFound
  <2> QED
    BY <1>1, <2>1, <2>2, <2>3, <2>4, RowPairsOf DEF ClustersInv, RowsAreFound
<1> QED
  BY <1>1, <1>6, <1>7, StillFinding, NoClustersYet DEF ClustersInv

LEMMA HandOverKeeps ==
  ASSUME ClustersInv, NEW t \in Threads, HandOver(t) PROVE ClustersInv'
<1>1. /\ worker[t].at = "handover" /\ closePairs' = closePairs \cup found[t]
      /\ worker' = [worker EXCEPT ![t].at = "ended"]
      /\ UNCHANGED <<score, cancel, next, found, clusterVars>>
  BY DEF HandOver
<1>2. worker \in [Threads -> [at : WorkerPlaces, row : Nat]] /\ found \in [Threads -> SUBSET FilePairs]
  BY DEF ClustersInv, FindingTypeOK
<1>3. /\ worker' \in [Threads -> [at : WorkerPlaces, row : Nat]]
      /\ worker'[t].at = "ended" /\ \A u \in Threads : u # t => worker'[u] = worker[u]
  BY <1>1, <1>2 DEF WorkerPlaces
<1>4. FindingTypeOK'
  BY <1>1, <1>2, <1>3 DEF ClustersInv, FindingTypeOK
<1>5. RowsAreFound'
  <2>1. \A r : \A u \in Threads : u # t /\ Held(r, u) => Held(r, u)'
    BY <1>1, <1>3, RowPairsOf DEF Held
  <2>2. \A r : Held(r, t) => RowPairs(r) \subseteq closePairs'
    BY <1>1 DEF Held
  <2>3. \A r \in Files : r < next => RowPairs(r) \subseteq closePairs' \/ \E u \in Threads : Held(r, u)'
    <3> TAKE r \in Files
    <3> HAVE r < next
    <3>1. RowPairs(r) \subseteq closePairs \/ \E u \in Threads : Held(r, u)
      BY DEF ClustersInv, RowsAreFound
    <3> QED
      BY <1>1, <2>1, <2>2, <3>1
  <2>4. closePairs' \subseteq AllClose
    BY <1>1 DEF ClustersInv, RowsAreFound
  <2>5. \A u \in Threads : worker'[u].at \in {"handover", "ended"} /\ ~cancel => next >= N
    <3>1. \A u \in Threads : worker'[u].at \in {"handover", "ended"} => worker[u].at \in {"handover", "ended"}
      BY <1>1, <1>3
    <3> QED
      BY <3>1 DEF ClustersInv, RowsAreFound
  <2> QED
    BY <1>1, <2>3, <2>4, <2>5, RowPairsOf DEF ClustersInv, RowsAreFound
<1> QED
  BY <1>1, <1>4, <1>5, StillFinding, NoClustersYet DEF ClustersInv

\* The threads have ended: the rows are all found, but for Ctrl+C.
LEMMA StartClustersKeeps ==
  ASSUME ClustersInv, StartClusters PROVE ClustersInv'
<1>1. /\ \A u \in Threads : worker[u].at = "ended"
      /\ step = "pairs" /\ step' = "cluster" /\ open' = [f \in Files |-> Cardinality(CloseOf(f))]
      /\ UNCHANGED <<score, cancel, next, worker, found, closePairs, taken, clusters, rows>>
  BY DEF StartClusters, AllJoined
<1>2. AllClose' = AllClose /\ (\A r : RowPairs(r)' = RowPairs(r)) /\ \A f : CloseOf(f)' = CloseOf(f)
  BY <1>1, RowPairsOf DEF CloseOf
<1>3. \A f \in Files : Cardinality(CloseOf(f)) \in Nat
  BY FilesAreFinite, FS_CardinalityType
<1>4. FindingTypeOK' /\ MakingTypeOK'
  BY <1>1, <1>3 DEF ClustersInv, FindingTypeOK, MakingTypeOK
<1>5. RowsAreFound'
  <2>1. \A r, u : Held(r, u)' <=> Held(r, u)
    BY <1>1, <1>2 DEF Held
  <2> QED
    BY <1>1, <1>2, <2>1 DEF ClustersInv, RowsAreFound
<1>6. ~cancel => closePairs = AllClose
  <2> SUFFICES ASSUME ~cancel PROVE AllClose \subseteq closePairs
    BY DEF ClustersInv, RowsAreFound
  <2>1. PICK u : u \in Threads
    BY ClusterAssumptions
  <2>2. next \in Nat /\ next >= N
    BY <1>1, <2>1 DEF ClustersInv, RowsAreFound, FindingTypeOK
  <2>3. \A r \in Files : r < next
    BY <2>2, FilesAreFinite
  <2>4. \A r : \A v \in Threads : ~Held(r, v)
    BY <1>1 DEF Held
  <2>5. \A r \in Files : RowPairs(r) \subseteq closePairs
    BY <2>3, <2>4 DEF ClustersInv, RowsAreFound
  <2>6. \A p \in AllClose : p[1] \in Files /\ p \in RowPairs(p[1])
    BY DEF AllClose, RowPairs, FilePairs
  <2> QED
    BY <2>5, <2>6
<1>7. AllFound'
  BY <1>1, <1>2, <1>6 DEF AllFound
<1>8. OpenIsCounted'
  <2>1. taken = {} /\ \A f : CloseOf(f) \ taken = CloseOf(f)
    BY <1>1 DEF ClustersInv, OpenIsCounted
  <2> QED
    BY <1>1, <1>2, <2>1 DEF OpenIsCounted
<1>9. MembersAreClose' /\ SinglesAreAlone'
  <2>1. Len(clusters) = 0
    BY <1>1 DEF ClustersInv, OpenIsCounted
  <2> QED
    BY <1>1, <2>1 DEF MembersAreClose, SinglesAreAlone
<1> QED
  BY <1>4, <1>5, <1>7, <1>8, <1>9 DEF ClustersInv

\* The pairs that were handed over are of two files that are close, of which each is close to the other.
LEMMA CloseIsClose ==
  ASSUME ClustersInv, NEW a \in Files, NEW b \in CloseOf(a)
  PROVE b \in Files /\ b # a /\ IsClose(Score(a, b)) /\ a \in CloseOf(b)
<1>1. b \in Files /\ (<<a, b>> \in AllClose \/ <<b, a>> \in AllClose)
  BY DEF CloseOf, ClustersInv, RowsAreFound
<1>2. a \in Nat /\ b \in Nat
  BY <1>1, FilesAreFinite
<1>3. CASE <<a, b>> \in AllClose
  BY <1>1, <1>2, <1>3 DEF AllClose, FilePairs, Score, CloseOf
<1>4. CASE <<b, a>> \in AllClose
  BY <1>1, <1>2, <1>4 DEF AllClose, FilePairs, Score, CloseOf
<1> QED
  BY <1>1, <1>3, <1>4

\* The center is a file that is in no cluster, to which no fewer are close than to any other.
LEMMA CenterIsMost ==
  ASSUME ClustersInv, CentersNow # {}
  PROVE /\ Center \in Files \ taken /\ open[Center] > 0
        /\ \A g \in Files \ taken : open[g] <= open[Center]
<1>1. CentersNow \in SUBSET Nat
  BY FilesAreFinite DEF CentersNow
<1>2. Center \in CentersNow
  BY <1>1, MinIsLeast DEF Center
<1> QED
  BY <1>2 DEF CentersNow

\* A cluster has one member more than its center had open ones.
LEMMA MembersOf ==
  ASSUME ClustersInv, step = "cluster", CentersNow # {}
  PROVE /\ Members(Center) \subseteq Files \ taken /\ IsFiniteSet(Members(Center))
        /\ Cardinality(Members(Center)) = open[Center] + 1
<1> DEFINE c == Center
           others == CloseOf(Center) \ taken
<1>1. c \in Files \ taken
  BY CenterIsMost
<1>2. others \subseteq Files \ taken /\ c \notin others
  BY <1>1, CloseIsClose
<1>3. IsFiniteSet(others)
  BY <1>1, FilesAreFinite, FS_Subset
<1>4. Cardinality(others) = open[c]
  BY <1>1 DEF ClustersInv, OpenIsCounted
<1>5. Members(Center) = others \cup {c}
  BY DEF Members
<1> HIDE DEF c, others
<1>6. IsFiniteSet(others \cup {c}) /\ Cardinality(others \cup {c}) = Cardinality(others) + 1
  BY <1>2, <1>3, FS_AddElement
<1>7. Center = c
  BY DEF c
<1> QED
  BY <1>1, <1>2, <1>4, <1>5, <1>6, <1>7

\* The members of a cluster are open no more.
LEMMA StillOpenCounts ==
  ASSUME ClustersInv, step = "cluster", NEW members, members \subseteq Files \ taken, NEW f \in Files
  PROVE /\ StillOpen(members)[f] = Cardinality(CloseOf(f) \ (taken \cup members))
        /\ StillOpen(members)[f] \in Nat
<1> DEFINE before == CloseOf(f) \ taken
<1>1. IsFiniteSet(before)
  BY FilesAreFinite, FS_Subset
<1>2. /\ before \cap members = CloseOf(f) \cap members
      /\ before \ members = CloseOf(f) \ (taken \cup members)
  OBVIOUS
<1>3. open[f] = Cardinality(before)
  BY DEF ClustersInv, OpenIsCounted
<1> HIDE DEF before
<1>4. /\ IsFiniteSet(before \ members)
      /\ Cardinality(before \ members) = Cardinality(before) - Cardinality(before \cap members)
  BY <1>1, FS_Difference
<1>5. Cardinality(before \ members) \in Nat
  BY <1>4, FS_CardinalityType
<1>6. StillOpen(members)[f] = open[f] - Cardinality(CloseOf(f) \cap members)
  BY DEF StillOpen
<1> QED
  BY <1>2, <1>3, <1>4, <1>5, <1>6

LEMMA MakeClusterKeeps ==
  ASSUME ClustersInv, MakeCluster PROVE ClustersInv'
<1> DEFINE c == Center
           members == Members(Center)
           new == [center |-> c, members |-> members]
<1>1. /\ step = "cluster" /\ CentersNow # {} /\ clusters' = Append(clusters, new)
      /\ taken' = taken \cup members /\ open' = StillOpen(members)
      /\ UNCHANGED <<score, cancel, next, worker, found, closePairs, step, rows>>
  BY DEF MakeCluster
<1>2. c \in Files /\ members \subseteq Files \ taken
  BY <1>1, CenterIsMost, MembersOf
<1>3. \A m \in members \ {c} : IsClose(Score(c, m))
  <2>1. members = {c} \cup (CloseOf(c) \ taken)
    BY DEF Members
  <2> QED
    BY <1>2, <2>1, CloseIsClose
<1> HIDE DEF c, members
<1>4. AllClose' = AllClose /\ (\A r : RowPairs(r)' = RowPairs(r)) /\ \A f : CloseOf(f)' = CloseOf(f)
  BY <1>1, RowPairsOf DEF CloseOf
<1>5. FindingTypeOK'
  BY <1>1 DEF ClustersInv, FindingTypeOK
<1>6. RowsAreFound' /\ AllFound'
  <2>1. \A r, u : Held(r, u)' <=> Held(r, u)
    BY <1>1, <1>4 DEF Held
  <2> QED
    BY <1>1, <1>4, <2>1 DEF ClustersInv, RowsAreFound, AllFound
<1>7. \A f \in Files : open'[f] = Cardinality(CloseOf(f) \ taken') /\ open'[f] \in Nat
  BY <1>1, <1>2, StillOpenCounts
<1>8. open' \in [Files -> Nat]
  <2>1. open' = [f \in Files |-> open'[f]]
    BY <1>1 DEF StillOpen
  <2> QED
    BY <1>7, <2>1
<1>9. clusters \in Seq([center : Files, members : SUBSET Files]) /\ new \in [center : Files, members : SUBSET Files]
  BY <1>2 DEF ClustersInv, MakingTypeOK
<1>10. MakingTypeOK'
  <2>1. clusters' \in Seq([center : Files, members : SUBSET Files])
    BY <1>1, <1>9
  <2>2. taken' \in SUBSET Files
    BY <1>1, <1>2 DEF ClustersInv, MakingTypeOK
  <2> QED
    BY <1>1, <1>8, <2>1, <2>2 DEF MakingTypeOK
<1>11. OpenIsCounted' /\ SinglesAreAlone'
  BY <1>1, <1>4, <1>7 DEF OpenIsCounted, SinglesAreAlone
<1>12. MembersAreClose'
  <2>1. \A k \in 1..Len(clusters) :
          \A m \in clusters[k].members \ {clusters[k].center} : IsClose(Score(clusters[k].center, m))
    BY DEF ClustersInv, MembersAreClose
  <2>2. /\ Len(clusters') = Len(clusters) + 1 /\ Len(clusters) \in Nat
        /\ \A k \in 1..Len(clusters) : clusters'[k] = clusters[k]
        /\ clusters'[Len(clusters) + 1] = new
    BY <1>1, <1>9
  <2>3. new.center = c /\ new.members = members
    OBVIOUS
  <2> HIDE DEF new
  <2>4. \A k \in 1..Len(clusters') :
          \A m \in clusters'[k].members \ {clusters'[k].center} : IsClose(Score(clusters'[k].center, m))
    <3> TAKE k \in 1..Len(clusters')
    <3>1. k \in 1..Len(clusters) \/ k = Len(clusters) + 1
      BY <2>2
    <3>2. CASE k \in 1..Len(clusters)
      BY <2>1, <2>2, <3>2
    <3>3. CASE k = Len(clusters) + 1
      BY <1>3, <2>2, <2>3, <3>3
    <3> QED
      BY <3>1, <3>2, <3>3
  <2>5. \A a, b : Score(a, b)' = Score(a, b)
    BY <1>1 DEF Score
  <2> QED
    BY <2>4, <2>5 DEF MembersAreClose
<1> QED
  BY <1>5, <1>6, <1>10, <1>11, <1>12 DEF ClustersInv

\* There is no center only when no file is close to another that is in no cluster.
LEMMA NoneIsOpen ==
  ASSUME ClustersInv, step = "cluster", CentersNow = {}
  PROVE \A f \in Files \ taken : CloseOf(f) \ taken = {}
<1>1. \A f \in Files : IsFiniteSet(CloseOf(f) \ taken) /\ open[f] = Cardinality(CloseOf(f) \ taken)
  BY FilesAreFinite, FS_Subset DEF ClustersInv, OpenIsCounted
<1>2. \A f \in Files : open[f] \in Nat /\ open[f] <= N
  <2>1. IsFiniteSet(Files) /\ Cardinality(Files) = N
    <3>1. Cardinality(0..(N - 1)) = IF 0 > N - 1 THEN 0 ELSE N - 1 - 0 + 1
      BY FilesAreFinite, FS_Interval
    <3> QED
      BY <3>1, FilesAreFinite DEF Files
  <2>2. \A f \in Files : CloseOf(f) \ taken \subseteq Files
    BY FilesAreFinite
  <2> QED
    BY <1>1, <2>1, <2>2, FS_Subset, FS_CardinalityType
<1>3. \A f \in Files \ taken : open[f] = 0
  <2> SUFFICES ASSUME NEW f \in Files \ taken, open[f] > 0 PROVE FALSE
    BY <1>2
  <2> DEFINE lacks == {N - open[g] : g \in Files \ taken}
  <2>1. lacks \in SUBSET Nat /\ lacks # {}
    BY <1>2, FilesAreFinite
  <2>2. Min(lacks) \in lacks /\ \A l \in lacks : Min(lacks) <= l
    BY <2>1, MinIsLeast
  <2>3. PICK g \in Files \ taken : Min(lacks) = N - open[g]
    BY <2>2
  <2>4. \A h \in Files \ taken : N - open[g] <= N - open[h]
    BY <2>2, <2>3
  <2>5. \A h \in Files \ taken : open[h] <= open[g]
    BY <1>2, <2>4, FilesAreFinite
  <2>6. g \in CentersNow
    BY <1>2, <2>5 DEF CentersNow
  <2> QED
    BY <2>6
<1> QED
  BY <1>1, <1>3, FS_EmptySet

LEMMA ClustersMadeKeeps ==
  ASSUME ClustersInv, ClustersMade \/ WriteRow \/ AllWritten PROVE ClustersInv'
<1>1. /\ UNCHANGED <<score, cancel, next, worker, found, closePairs, taken, open, clusters>>
      /\ step # "pairs" /\ step' \in {"write", "done"}
      /\ (step = "cluster" /\ CentersNow = {}) \/ step = "write"
  BY DEF ClustersMade, WriteRow, AllWritten
<1>2. AllClose' = AllClose /\ (\A r : RowPairs(r)' = RowPairs(r)) /\ \A f : CloseOf(f)' = CloseOf(f)
  BY <1>1, RowPairsOf DEF CloseOf
<1>3. \A r, u : Held(r, u)' <=> Held(r, u)
  BY <1>1, <1>2 DEF Held
<1>4. FindingTypeOK' /\ MakingTypeOK'
  BY <1>1 DEF ClustersInv, FindingTypeOK, MakingTypeOK
<1>5. RowsAreFound'
  BY <1>1, <1>2, <1>3 DEF ClustersInv, RowsAreFound
<1>6. AllFound' /\ OpenIsCounted'
  BY <1>1, <1>2 DEF ClustersInv, AllFound, OpenIsCounted
<1>7. SinglesAreAlone'
  <2>1. \A f \in Files \ taken : CloseOf(f) \ taken = {}
    BY <1>1, NoneIsOpen DEF ClustersInv, SinglesAreAlone
  <2> QED
    BY <1>1, <1>2, <2>1 DEF SinglesAreAlone
<1>8. MembersAreClose'
  BY <1>1 DEF ClustersInv, MembersAreClose, Score
<1> QED
  BY <1>4, <1>5, <1>6, <1>7, <1>8 DEF ClustersInv

LEMMA ClustersSame ==
  ASSUME ClustersInv, UNCHANGED clusteringVars PROVE ClustersInv'
<1> USE DEF clusteringVars
<1>1. AllClose' = AllClose /\ (\A r : RowPairs(r)' = RowPairs(r)) /\ \A f : CloseOf(f)' = CloseOf(f)
  BY RowPairsOf DEF CloseOf
<1>2. \A r, u : Held(r, u)' <=> Held(r, u)
  BY <1>1 DEF Held
<1>3. FindingTypeOK' /\ MakingTypeOK' /\ MembersAreClose'
  BY DEF ClustersInv, FindingTypeOK, MakingTypeOK, MembersAreClose, Score
<1>4. RowsAreFound'
  BY <1>1, <1>2 DEF ClustersInv, RowsAreFound
<1>5. AllFound' /\ OpenIsCounted' /\ SinglesAreAlone'
  BY <1>1 DEF ClustersInv, AllFound, OpenIsCounted, SinglesAreAlone
<1> QED
  BY <1>3, <1>4, <1>5 DEF ClustersInv

\* ClustersInv holds in every state: the worker threads between them find all the close pairs
\* (FindClosePairs), and MakeClusters counts for each file those not yet in a cluster.
THEOREM ClustersInvariance == ClustersSpec => []ClustersInv
<1>1. ClustersInv /\ [ClustersNext]_clusteringVars => ClustersInv'
  <2> SUFFICES ASSUME ClustersInv, [ClustersNext]_clusteringVars PROVE ClustersInv'
    OBVIOUS
  <2>1. ASSUME NEW t \in Threads, WorkerStep(t) PROVE ClustersInv'
    BY <2>1, TestCancelKeeps, TakeRowKeeps, CompareRowKeeps, HandOverKeeps DEF WorkerStep
  <2>2. CASE ClustersCtrlHandler
    BY <2>2, ClustersCtrlHandlerKeeps
  <2>3. CASE StartClusters
    BY <2>3, StartClustersKeeps
  <2>4. CASE MakeCluster
    BY <2>4, MakeClusterKeeps
  <2>5. CASE ClustersMade \/ WriteRow \/ AllWritten
    BY <2>5, ClustersMadeKeeps
  <2>6. CASE UNCHANGED clusteringVars
    BY <2>6, ClustersSame
  <2> QED
    BY <2>1, <2>2, <2>3, <2>4, <2>5, <2>6 DEF ClustersNext, ClustersOver
<1> QED
  BY ClustersInitEstablishes, <1>1, PTL DEF ClustersSpec

\* Stars (main.cpp:807): each cluster is a star from when it is made, and without Ctrl+C no two files
\* that are close are both left out of the clusters.
THEOREM ClustersAreAlwaysStars == ClustersSpec => []Stars
<1>1. ClustersInv => Stars
  <2> SUFFICES ASSUME ClustersInv PROVE Stars
    OBVIOUS
  <2>1. ASSUME step \in {"write", "done"}, ~cancel, NEW a \in Files \ taken, NEW b \in Files \ taken, a # b
        PROVE ~IsClose(Score(a, b))
    <3>1. b \notin CloseOf(a) /\ a \notin CloseOf(b)
      BY <2>1 DEF ClustersInv, SinglesAreAlone
    <3>2. <<a, b>> \notin AllClose /\ <<b, a>> \notin AllClose
      BY <2>1, <3>1 DEF CloseOf, ClustersInv, AllFound
    <3>3. a \in Nat /\ b \in Nat
      BY FilesAreFinite
    <3> QED
      BY <2>1, <3>2, <3>3 DEF AllClose, FilePairs, Score
  <2> QED
    BY <2>1 DEF Stars, ClustersInv, MembersAreClose
<1> QED
  BY <1>1, ClustersInvariance, PTL

\* CenterIsClosestToMost (main.cpp:806): of the files that are in no cluster, none is close to more of
\* them than the one that becomes a center.
THEOREM CentersAreClosestToMost == ClustersSpec => CenterIsClosestToMost
<1> DEFINE MostOf == Len(clusters') > Len(clusters) =>
             LET new == clusters'[Len(clusters')]
             IN \A f \in Files \ taken : Cardinality(CloseOf(f) \ taken) < Cardinality(new.members)
<1>1. ClustersInv /\ [ClustersNext]_clusteringVars => [MostOf]_clusteringVars
  <2> SUFFICES ASSUME ClustersInv, ClustersNext PROVE MostOf
    OBVIOUS
  <2>0. Len(clusters) \in Nat
    BY DEF ClustersInv, MakingTypeOK
  <2>1. CASE MakeCluster
    <3> DEFINE new == [center |-> Center, members |-> Members(Center)]
    <3>1. step = "cluster" /\ CentersNow # {} /\ clusters' = Append(clusters, new)
      BY <2>1 DEF MakeCluster
    <3>2. clusters'[Len(clusters')] = new
      BY <3>1 DEF ClustersInv, MakingTypeOK
    <3>3. Cardinality(new.members) = open[Center] + 1
      BY <3>1, MembersOf
    <3>4. \A f \in Files \ taken : open[f] = Cardinality(CloseOf(f) \ taken) /\ open[f] <= open[Center]
      BY <3>1, CenterIsMost DEF ClustersInv, OpenIsCounted
    <3>5. \A f \in Files : open[f] \in Nat
      BY DEF ClustersInv, MakingTypeOK
    <3>6. open[Center] \in Nat
      BY <3>1, <3>5, CenterIsMost
    <3> HIDE DEF new
    <3>7. \A f \in Files \ taken : Cardinality(CloseOf(f) \ taken) < Cardinality(new.members)
      BY <3>3, <3>4, <3>5, <3>6
    <3> QED
      BY <3>2, <3>7
  <2>2. CASE ~MakeCluster
    <3>1. clusters' = clusters
      BY <2>2 DEF ClustersNext, WorkerStep, TestCancel, TakeRow, CompareRow, HandOver, ClustersCtrlHandler,
                  StartClusters, ClustersMade, WriteRow, AllWritten, ClustersOver, clusterVars, clusteringVars
    <3> QED
      BY <2>0, <3>1
  <2> QED
    BY <2>1, <2>2
<1> QED
  BY <1>1, ClustersInvariance, PTL DEF ClustersSpec, CenterIsClosestToMost

-----------------------------------------------------------------------------
(* What is written of the clusters: they are sorted by their sizes, which    *)
(* is the order they were made in.                                          *)

\* The clusters are apart, and make up what is taken.
TakenAreMembers ==
  /\ \A f \in Files : f \in taken <=> \E k \in 1..Len(clusters) : f \in clusters[k].members
  /\ \A j, k \in 1..Len(clusters) : clusters[j].members \cap clusters[k].members # {} => j = k
  /\ \A k \in 1..Len(clusters) : clusters[k].center \in clusters[k].members

\* None is larger than one made before it: of the files left, none has so many that are close.
SizesFall ==
  /\ \A k \in 1..Len(clusters) : SizeOf(k) \in Nat
  /\ \A j, k \in 1..Len(clusters) : j < k => SizeOf(j) >= SizeOf(k)
  /\ step # "pairs" =>
       \A k \in 1..Len(clusters), f \in Files \ taken : Cardinality(CloseOf(f) \ taken) < SizeOf(k)

\* What is written comes before what is not.
RowsInOrder ==
  /\ step \in {"pairs", "cluster"} => rows = <<>>
  /\ rows \in Seq([cluster : Nat, file : Files])
  /\ Len(rows) + Cardinality(NotWritten) = N
  /\ \A n \in 1..Len(rows), f \in Files : f = rows[n].file => rows[n] = RowOf(f)
  /\ \A m, n \in 1..Len(rows) : m < n => RowBefore(rows[m].file, rows[n].file)
  /\ \A n \in 1..Len(rows), g \in NotWritten : RowBefore(rows[n].file, g)
  /\ step = "done" => NotWritten = {}

WritingInv == TakenAreMembers /\ SizesFall /\ RowsInOrder

LEMMA FilesAreN == IsFiniteSet(Files) /\ Cardinality(Files) = N
<1>1. IsFiniteSet(0..(N - 1)) /\ Cardinality(0..(N - 1)) = IF 0 > N - 1 THEN 0 ELSE N - 1 - 0 + 1
  BY FilesAreFinite, FS_Interval
<1> QED
  BY <1>1, FilesAreFinite DEF Files

LEMMA ElementsOf ==
  ASSUME NEW R, NEW s \in Seq(R)
  PROVE Len(s) \in Nat /\ DOMAIN s = 1..Len(s) /\ \A n \in 1..Len(s) : s[n] \in R
  OBVIOUS

\* A file that is taken is in one cluster.
LEMMA ClusterIs ==
  ASSUME ClustersInv, TakenAreMembers, NEW f \in Files
  PROVE /\ ClusterOf(f) \in 0..Len(clusters)
        /\ ClusterOf(f) = 0 <=> f \notin taken
        /\ \A k \in 1..Len(clusters) : f \in clusters[k].members <=> ClusterOf(f) = k
<1>1. Len(clusters) \in Nat
  BY DEF ClustersInv, MakingTypeOK
<1> DEFINE Its(k) == IF k = 0 THEN f \notin taken ELSE f \in clusters[k].members
<1>2. \E k \in 0..Len(clusters) : Its(k)
  <2>1. CASE f \in taken
    <3>1. PICK k \in 1..Len(clusters) : f \in clusters[k].members
      BY <2>1 DEF TakenAreMembers
    <3>2. k \in 0..Len(clusters) /\ k # 0
      BY <1>1
    <3> QED
      BY <3>1, <3>2
  <2>2. CASE f \notin taken
    <3>1. 0 \in 0..Len(clusters)
      BY <1>1
    <3> QED
      BY <2>2, <3>1
  <2> QED
    BY <2>1, <2>2
<1>3. ClusterOf(f) = CHOOSE k \in 0..Len(clusters) : Its(k)
  BY DEF ClusterOf
<1>4. ClusterOf(f) \in 0..Len(clusters) /\ Its(ClusterOf(f))
  <2> HIDE DEF Its
  <2> QED BY <1>2, <1>3
<1>5. ClusterOf(f) # 0 => ClusterOf(f) \in 1..Len(clusters)
  BY <1>1, <1>4
<1>6. \A k \in 1..Len(clusters) : k # 0
  BY <1>1
<1> QED
  BY <1>4, <1>5, <1>6 DEF TakenAreMembers

\* The sort by size leaves the clusters where they are.
LEMMA PlaceIs ==
  ASSUME ClustersInv, SizesFall, NEW k \in 1..Len(clusters)
  PROVE /\ \A j \in 1..Len(clusters) : Larger(j, k) <=> j < k
        /\ PlaceOf(k) = k
<1>1. Len(clusters) \in Nat
  BY DEF ClustersInv, MakingTypeOK
<1>2. \A j \in 1..Len(clusters) : Larger(j, k) <=> j < k
  <2> TAKE j \in 1..Len(clusters)
  <2>1. SizeOf(j) \in Nat /\ SizeOf(k) \in Nat
    BY DEF SizesFall
  <2>2. (j < k => SizeOf(j) >= SizeOf(k)) /\ (k < j => SizeOf(k) >= SizeOf(j))
    BY DEF SizesFall
  <2> QED
    BY <1>1, <2>1, <2>2 DEF Larger
<1>3. {j \in 1..Len(clusters) : Larger(j, k)} = 1..(k - 1)
  BY <1>1, <1>2
<1>4. Cardinality(1..(k - 1)) = k - 1
  <2>1. Cardinality(1..(k - 1)) = IF 1 > k - 1 THEN 0 ELSE k - 1 - 1 + 1
    BY <1>1, FS_Interval
  <2> QED
    BY <1>1, <2>1
<1>5. PlaceOf(k) = 1 + Cardinality({j \in 1..Len(clusters) : Larger(j, k)})
  BY DEF PlaceOf
<1>6. PlaceOf(k) = 1 + (k - 1)
  BY <1>3, <1>4, <1>5
<1> QED
  BY <1>1, <1>2, <1>6

\* Before a cluster is made nothing is written.
LEMMA NothingMade ==
  ASSUME step' \in {"pairs", "cluster"}, taken' = {}, clusters' = <<>>, rows' = <<>>
  PROVE WritingInv'
<1>1. Len(clusters') = 0 /\ Len(rows') = 0 /\ DOMAIN rows' = {}
  OBVIOUS
<1>2. TakenAreMembers' /\ SizesFall'
  BY <1>1 DEF TakenAreMembers, SizesFall
<1>3. NotWritten' = Files
  BY <1>1 DEF NotWritten
<1>4. RowsInOrder'
  BY <1>1, <1>3, FilesAreN, FilesAreFinite DEF RowsInOrder
<1> QED
  BY <1>2, <1>4 DEF WritingInv

\* What is said of rows depends on no more than this.
LEMMA RowsSame ==
  ASSUME UNCHANGED <<score, taken, clusters>>
  PROVE /\ \A k : SizeOf(k)' = SizeOf(k)
        /\ \A a, b : RowBefore(a, b)' <=> RowBefore(a, b)
        /\ \A f : RowOf(f)' = RowOf(f)
<1>1. \A f : ClusterOf(f)' = ClusterOf(f)
  BY DEF ClusterOf
<1>2. \A k : SizeOf(k)' = SizeOf(k)
  BY DEF SizeOf
<1>3. \A j, k : Larger(j, k)' <=> Larger(j, k)
  BY <1>2 DEF Larger
<1>4. \A k : PlaceOf(k)' = PlaceOf(k)
  BY <1>3 DEF PlaceOf
<1>5. \A c, a, b : Closer(c, a, b)' <=> Closer(c, a, b)
  BY DEF Closer, Score
<1>6. \A a, b : RowBefore(a, b)' <=> RowBefore(a, b)
  BY <1>1, <1>3, <1>5 DEF RowBefore
<1>7. \A f : RowOf(f)' = RowOf(f)
  BY <1>1, <1>4 DEF RowOf
<1> QED
  BY <1>2, <1>6, <1>7

\* A step that makes no cluster and finds no pair
LEMMA MadeSame ==
  ASSUME WritingInv, UNCHANGED <<score, taken, clusters, closePairs>>, step' # "pairs" => step # "pairs"
  PROVE TakenAreMembers' /\ SizesFall'
<1>1. \A f : CloseOf(f)' = CloseOf(f)
  BY DEF CloseOf
<1>2. TakenAreMembers'
  BY DEF WritingInv, TakenAreMembers
<1>3. SizesFall'
  BY <1>1, RowsSame DEF WritingInv, SizesFall
<1> QED
  BY <1>2, <1>3

LEMMA WritingSame ==
  ASSUME WritingInv, UNCHANGED <<score, taken, clusters, closePairs, rows>>,
         step' # "pairs" => step # "pairs", step' \in {"pairs", "cluster"} => step \in {"pairs", "cluster"},
         step' = "done" => NotWritten = {}
  PROVE WritingInv'
<1>1. NotWritten' = NotWritten
  BY DEF NotWritten
<1>2. RowsInOrder'
  BY <1>1, RowsSame DEF WritingInv, RowsInOrder
<1> QED
  BY <1>2, MadeSame DEF WritingInv

LEMMA MakeClusterFalls ==
  ASSUME ClustersInv, WritingInv, MakeCluster PROVE WritingInv'
<1> DEFINE c == Center
           members == Members(Center)
           new == [center |-> c, members |-> members]
<1>1. /\ step = "cluster" /\ CentersNow # {} /\ clusters' = Append(clusters, new)
      /\ taken' = taken \cup members
      /\ UNCHANGED <<score, closePairs, step, rows>>
  BY DEF MakeCluster
<1>2. /\ c \in members /\ c \in Files \ taken /\ members \subseteq Files \ taken /\ IsFiniteSet(members)
      /\ Cardinality(members) = open[c] + 1
  BY <1>1, CenterIsMost, MembersOf DEF Members
<1>3. \A f \in Files \ taken : /\ open[f] \in Nat /\ open[f] <= open[c]
                               /\ open[f] = Cardinality(CloseOf(f) \ taken)
  BY <1>1, CenterIsMost DEF ClustersInv, OpenIsCounted, MakingTypeOK
<1>4. /\ Len(clusters') = Len(clusters) + 1 /\ Len(clusters) \in Nat
      /\ \A k \in 1..Len(clusters) : clusters'[k] = clusters[k]
      /\ clusters'[Len(clusters) + 1] = new
  BY <1>1 DEF ClustersInv, MakingTypeOK
<1>5. new.center = c /\ new.members = members
  OBVIOUS
<1> HIDE DEF c, members, new
<1> DEFINE L == Len(clusters)
<1>6. \A k \in 1..Len(clusters') : k \in 1..L \/ k = L + 1
  BY <1>4
<1>7. \A k \in 1..L : k \in 1..Len(clusters') /\ k # L + 1
  BY <1>4
<1>8. L + 1 \in 1..Len(clusters')
  BY <1>4
<1>9. \A k \in 1..L : clusters[k].members \cap members = {}
  <2> SUFFICES ASSUME NEW k \in 1..L, NEW f \in clusters[k].members, f \in members PROVE FALSE
    OBVIOUS
  <2>1. f \in Files \ taken
    BY <1>2
  <2> QED
    BY <2>1 DEF WritingInv, TakenAreMembers
<1>10. TakenAreMembers'
  <2>1. \A f \in Files : f \in taken' <=> \E k \in 1..Len(clusters') : f \in clusters'[k].members
    <3> TAKE f \in Files
    <3>1. f \in taken <=> \E k \in 1..L : f \in clusters[k].members
      BY DEF WritingInv, TakenAreMembers
    <3> QED
      BY <1>1, <1>4, <1>5, <1>6, <1>7, <1>8, <3>1
  <2>2. \A j, k \in 1..Len(clusters') : clusters'[j].members \cap clusters'[k].members # {} => j = k
    <3> TAKE j, k \in 1..Len(clusters')
    <3>1. j \in 1..L /\ k \in 1..L => (clusters[j].members \cap clusters[k].members # {} => j = k)
      BY DEF WritingInv, TakenAreMembers
    <3> QED
      BY <1>4, <1>5, <1>6, <1>9, <3>1
  <2>3. \A k \in 1..Len(clusters') : clusters'[k].center \in clusters'[k].members
    BY <1>2, <1>4, <1>5, <1>6 DEF WritingInv, TakenAreMembers
  <2> QED
    BY <2>1, <2>2, <2>3 DEF TakenAreMembers
<1>11. /\ \A k \in 1..L : SizeOf(k)' = SizeOf(k) /\ SizeOf(k) \in Nat
       /\ Cardinality(clusters'[L + 1].members) = open[c] + 1
  BY <1>2, <1>4, <1>5 DEF WritingInv, SizesFall, SizeOf
<1>12. \A k \in 1..L, f \in Files \ taken : Cardinality(CloseOf(f) \ taken) < SizeOf(k)
  BY <1>1 DEF WritingInv, SizesFall
<1>13. \A k \in 1..L : open[c] + 1 <= SizeOf(k)
  <2> TAKE k \in 1..L
  <2>1. Cardinality(CloseOf(c) \ taken) < SizeOf(k) /\ SizeOf(k) \in Nat
    BY <1>2, <1>11, <1>12
  <2>2. Cardinality(CloseOf(c) \ taken) = open[c] /\ open[c] \in Nat
    BY <1>2, <1>3
  <2> QED
    BY <2>1, <2>2
<1>14. \A k \in 1..Len(clusters') : SizeOf(k)' = IF k = L + 1 THEN open[c] + 1 ELSE SizeOf(k)
  BY <1>6, <1>7, <1>11 DEF SizeOf
<1>15. open[c] \in Nat
  BY <1>2, <1>3
<1>16. \A k \in 1..Len(clusters') : SizeOf(k)' \in Nat
  BY <1>6, <1>7, <1>11, <1>14, <1>15
<1>17. \A j, k \in 1..Len(clusters') : j < k => SizeOf(j)' >= SizeOf(k)'
  <2> TAKE j, k \in 1..Len(clusters')
  <2> HAVE j < k
  <2>1. j \in 1..L
    BY <1>4
  <2>2. CASE k \in 1..L
    <3>1. SizeOf(j) >= SizeOf(k)
      BY <2>1, <2>2 DEF WritingInv, SizesFall
    <3> QED
      BY <1>7, <1>14, <2>1, <2>2, <3>1
  <2>3. CASE k = L + 1
    BY <1>7, <1>13, <1>14, <1>15, <1>11, <2>1, <2>3
  <2> QED
    BY <1>6, <2>2, <2>3
<1>18. \A k \in 1..Len(clusters'), f \in Files \ taken' : Cardinality(CloseOf(f)' \ taken') < SizeOf(k)'
  <2> TAKE k \in 1..Len(clusters'), f \in Files \ taken'
  <2>1. f \in Files \ taken /\ CloseOf(f)' = CloseOf(f)
    BY <1>1 DEF CloseOf
  <2> DEFINE less == CloseOf(f) \ taken'
  <2>2. IsFiniteSet(CloseOf(f) \ taken) /\ less \subseteq CloseOf(f) \ taken
    BY <1>1, <2>1, FilesAreFinite, FS_Subset
  <2>3. /\ IsFiniteSet(less) /\ Cardinality(less) <= Cardinality(CloseOf(f) \ taken)
        /\ Cardinality(less) \in Nat
    BY <2>2, FS_Subset, FS_CardinalityType
  <2>4. CASE k \in 1..L
    <3>1. Cardinality(CloseOf(f) \ taken) < SizeOf(k) /\ SizeOf(k) \in Nat
      BY <1>11, <1>12, <2>1, <2>4
    <3>2. Cardinality(CloseOf(f) \ taken) \in Nat
      BY <1>3, <2>1
    <3> QED
      BY <1>11, <2>1, <2>3, <2>4, <3>1, <3>2
  <2>5. CASE k = L + 1
    <3>1. Cardinality(CloseOf(f) \ taken) <= open[c] /\ Cardinality(CloseOf(f) \ taken) \in Nat
      BY <1>3, <2>1
    <3> QED
      BY <1>14, <1>15, <2>1, <2>3, <2>5, <3>1
  <2> QED
    BY <1>6, <2>4, <2>5
<1>19. SizesFall'
  BY <1>16, <1>17, <1>18 DEF SizesFall
<1>20. RowsInOrder'
  <2>1. rows' = <<>> /\ Len(rows') = 0 /\ DOMAIN rows' = {}
    BY <1>1 DEF WritingInv, RowsInOrder
  <2>2. NotWritten' = Files
    BY <2>1 DEF NotWritten
  <2> QED
    BY <1>1, <2>1, <2>2, FilesAreN, FilesAreFinite DEF RowsInOrder
<1> QED
  BY <1>10, <1>19, <1>20 DEF WritingInv

LEMMA WriteRowKeeps ==
  ASSUME ClustersInv, WritingInv, WriteRow PROVE WritingInv'
<1>1. PICK f \in FirstOfThem : rows' = Append(rows, RowOf(f))
  BY DEF WriteRow
<1>2. /\ step = "write" /\ UNCHANGED <<score, closePairs, step, taken, clusters>>
  BY DEF WriteRow
<1>3. f \in NotWritten /\ f \in Files /\ \A g \in NotWritten \ {f} : RowBefore(f, g)
  BY DEF FirstOfThem, NotWritten
<1>4. RowOf(f) \in [cluster : Nat, file : Files] /\ RowOf(f).file = f
  <2>1. ClusterOf(f) \in 0..Len(clusters) /\ Len(clusters) \in Nat
    BY <1>3, ClusterIs DEF ClustersInv, MakingTypeOK, WritingInv
  <2>2. ClusterOf(f) # 0 => ClusterOf(f) \in 1..Len(clusters)
    BY <2>1
  <2>3. ClusterOf(f) # 0 => PlaceOf(ClusterOf(f)) = ClusterOf(f)
    BY <2>2, PlaceIs DEF WritingInv
  <2> QED
    BY <1>3, <2>1, <2>3 DEF RowOf
<1> DEFINE row == RowOf(f)
<1> HIDE DEF row
<1>5. /\ rows \in Seq([cluster : Nat, file : Files]) /\ rows' = Append(rows, row)
      /\ row \in [cluster : Nat, file : Files] /\ row.file = f /\ row = RowOf(f)
  BY <1>1, <1>4 DEF WritingInv, RowsInOrder, row
<1>6. /\ rows' \in Seq([cluster : Nat, file : Files])
      /\ Len(rows') = Len(rows) + 1 /\ Len(rows) \in Nat
      /\ DOMAIN rows = 1..Len(rows) /\ DOMAIN rows' = 1..Len(rows')
      /\ \A n \in 1..Len(rows) : rows'[n] = rows[n]
      /\ rows'[Len(rows) + 1] = row
  BY <1>5
<1>7. \A n \in 1..Len(rows') : n \in 1..Len(rows) \/ n = Len(rows) + 1
  BY <1>6
<1>8. NotWritten' = NotWritten \ {f}
  <2>1. {rows'[n].file : n \in 1..Len(rows')} = {rows[n].file : n \in 1..Len(rows)} \cup {f}
    <3>1. \A n \in 1..Len(rows) : n \in 1..Len(rows')
      BY <1>6
    <3>2. Len(rows) + 1 \in 1..Len(rows')
      BY <1>6
    <3> QED
      BY <1>5, <1>6, <1>7, <3>1, <3>2
  <2> QED
    BY <1>6, <2>1 DEF NotWritten
<1>9. Len(rows') + Cardinality(NotWritten') = N
  <2>1. IsFiniteSet(NotWritten)
    BY FilesAreN, FS_Subset DEF NotWritten
  <2>2. Cardinality(NotWritten \ {f}) = Cardinality(NotWritten) - 1 /\ Cardinality(NotWritten) \in Nat
    BY <1>3, <2>1, FS_RemoveElement, FS_CardinalityType
  <2>3. Len(rows) + Cardinality(NotWritten) = N
    BY DEF WritingInv, RowsInOrder
  <2> QED
    BY <1>6, <1>8, <2>2, <2>3, FilesAreFinite
<1>10. \A n \in 1..Len(rows'), g \in Files : g = rows'[n].file => rows'[n] = RowOf(g)'
  <2> TAKE n \in 1..Len(rows'), g \in Files
  <2> HAVE g = rows'[n].file
  <2>1. CASE n \in 1..Len(rows)
    <3>1. rows'[n] = rows[n] /\ g = rows[n].file
      BY <1>6, <2>1
    <3> QED
      BY <1>2, <2>1, <3>1, RowsSame DEF WritingInv, RowsInOrder
  <2>2. CASE n = Len(rows) + 1
    BY <1>2, <1>5, <1>6, <2>2, RowsSame
  <2> QED
    BY <1>7, <2>1, <2>2
<1>11. \A m, n \in 1..Len(rows') : m < n => RowBefore(rows'[m].file, rows'[n].file)
  <2> TAKE m, n \in 1..Len(rows')
  <2> HAVE m < n
  <2>1. m \in 1..Len(rows)
    BY <1>6
  <2>2. CASE n \in 1..Len(rows)
    BY <1>6, <2>1, <2>2 DEF WritingInv, RowsInOrder
  <2>3. CASE n = Len(rows) + 1
    <3>1. RowBefore(rows[m].file, f)
      BY <1>3, <2>1 DEF WritingInv, RowsInOrder
    <3> QED
      BY <1>5, <1>6, <2>1, <2>3, <3>1
  <2> QED
    BY <1>7, <2>2, <2>3
<1>12. \A n \in 1..Len(rows'), g \in NotWritten' : RowBefore(rows'[n].file, g)
  <2> TAKE n \in 1..Len(rows'), g \in NotWritten'
  <2>1. g \in NotWritten \ {f}
    BY <1>8
  <2>2. CASE n \in 1..Len(rows)
    BY <1>6, <2>1, <2>2 DEF WritingInv, RowsInOrder
  <2>3. CASE n = Len(rows) + 1
    BY <1>3, <1>5, <1>6, <2>1, <2>3
  <2> QED
    BY <1>7, <2>2, <2>3
<1>13. \A a, b : RowBefore(a, b)' <=> RowBefore(a, b)
  BY <1>2, RowsSame
<1>14. RowsInOrder'
  BY <1>2, <1>6, <1>9, <1>10, <1>11, <1>12, <1>13 DEF RowsInOrder
<1>15. TakenAreMembers' /\ SizesFall'
  BY <1>2, MadeSame
<1> QED
  BY <1>14, <1>15 DEF WritingInv

\* The rows keep to the clusters in every state.
THEOREM RowsInvariance == ClustersSpec => [](ClustersInv /\ WritingInv)
<1>1. ClustersInit => WritingInv
  <2> SUFFICES ASSUME ClustersInit PROVE WritingInv
    OBVIOUS
  <2>1. /\ Len(clusters) = 0 /\ Len(rows) = 0 /\ DOMAIN rows = {} /\ rows = <<>> /\ taken = {}
        /\ step = "pairs"
    BY DEF ClustersInit
  <2>2. TakenAreMembers /\ SizesFall
    BY <2>1 DEF TakenAreMembers, SizesFall
  <2>3. NotWritten = Files
    BY <2>1 DEF NotWritten
  <2>4. RowsInOrder
    BY <2>1, <2>3, FilesAreN, FilesAreFinite DEF RowsInOrder
  <2> QED
    BY <2>2, <2>4 DEF WritingInv
<1>2. ClustersInv /\ WritingInv /\ [ClustersNext]_clusteringVars => WritingInv'
  <2> SUFFICES ASSUME ClustersInv, WritingInv, [ClustersNext]_clusteringVars PROVE WritingInv'
    OBVIOUS
  <2>0. step = "pairs" => taken = {} /\ clusters = <<>> /\ rows = <<>>
    BY DEF ClustersInv, OpenIsCounted, WritingInv, RowsInOrder
  <2>1. ASSUME NEW t \in Threads, WorkerStep(t) PROVE WritingInv'
    <3>1. worker[t].at # "ended" /\ UNCHANGED clusterVars
      BY <2>1 DEF WorkerStep, TestCancel, TakeRow, CompareRow, HandOver
    <3>2. step = "pairs"
      BY <3>1, StillFinding
    <3> QED
      BY <2>0, <3>1, <3>2, NothingMade DEF clusterVars
  <2>2. CASE ClustersCtrlHandler \/ UNCHANGED clusteringVars
    <3>1. UNCHANGED <<score, taken, clusters, closePairs, rows, step>>
      BY <2>2 DEF ClustersCtrlHandler, clusterVars, clusteringVars
    <3> QED
      BY <3>1, WritingSame DEF WritingInv, RowsInOrder
  <2>3. CASE StartClusters
    BY <2>0, <2>3, NothingMade DEF StartClusters
  <2>4. CASE MakeCluster
    BY <2>4, MakeClusterFalls
  <2>5. CASE ClustersMade \/ AllWritten
    <3>1. /\ UNCHANGED <<score, taken, clusters, closePairs, rows>> /\ step # "pairs"
          /\ step' = "write" \/ (step' = "done" /\ NotWritten = {})
      BY <2>5 DEF ClustersMade, AllWritten
    <3> QED
      BY <3>1, WritingSame
  <2>6. CASE WriteRow
    BY <2>6, WriteRowKeeps
  <2> QED
    BY <2>1, <2>2, <2>3, <2>4, <2>5, <2>6 DEF ClustersNext, ClustersOver
<1> QED
  BY <1>1, <1>2, ClustersInvariance, PTL DEF ClustersSpec

\* ClustersAreStars (main.cpp:113): in addition to Stars, each file is in one row, with its cluster and
\* after its center, and the clusters are written in the order they were made: the sort by
\* size (main.cpp:868) does not change it.
THEOREM WrittenAreStars == ClustersSpec => []ClustersAreStars
<1>1. ClustersInv /\ WritingInv => RowsTell
  <2> SUFFICES ASSUME ClustersInv, WritingInv, step = "done" PROVE RowsTell
    BY DEF RowsTell
  <2>1. NotWritten = {} /\ Len(rows) = N /\ DOMAIN rows = 1..N
        /\ \A n \in 1..N : rows[n].file \in Files
    <3>1. NotWritten = {} /\ rows \in Seq([cluster : Nat, file : Files])
      BY DEF WritingInv, RowsInOrder
    <3>2. Len(rows) + Cardinality(NotWritten) = N /\ Cardinality(NotWritten) = 0
      <4>1. Cardinality(NotWritten) = 0
        BY <3>1, FS_EmptySet
      <4>2. Len(rows) + Cardinality(NotWritten) = N
        BY DEF WritingInv, RowsInOrder
      <4> QED
        BY <4>1, <4>2
    <3>3. Len(rows) \in Nat /\ DOMAIN rows = 1..Len(rows) /\ \A n \in 1..Len(rows) : rows[n].file \in Files
      <4>1. /\ Len(rows) \in Nat /\ DOMAIN rows = 1..Len(rows)
            /\ \A n \in 1..Len(rows) : rows[n] \in [cluster : Nat, file : Files]
        BY <3>1, ElementsOf
      <4> QED
        BY <4>1
    <3>4. Len(rows) = N
      BY <3>2, <3>3
    <3> QED
      BY <3>1, <3>3, <3>4
  <2>2. \A f \in Files : \E n \in 1..N : rows[n].file = f
    BY <2>1 DEF NotWritten
  <2>3. Len(clusters) \in Nat
    BY DEF ClustersInv, MakingTypeOK
  <2>4. \A n \in 1..N : rows[n].cluster = ClusterOf(rows[n].file)
    <3> TAKE n \in 1..N
    <3>1. rows[n] = RowOf(rows[n].file)
      BY <2>1 DEF WritingInv, RowsInOrder
    <3> DEFINE k == ClusterOf(rows[n].file)
    <3>2. k \in 0..Len(clusters)
      BY <2>1, ClusterIs DEF WritingInv
    <3>3. k # 0 => PlaceOf(k) = k
      <4> HIDE DEF k
      <4> QED BY <2>3, <3>2, PlaceIs DEF WritingInv
    <3> QED
      BY <3>1, <3>3 DEF RowOf
  <2>5. \A m, n \in 1..N : m < n => RowBefore(rows[m].file, rows[n].file)
    BY <2>1 DEF WritingInv, RowsInOrder
  <2>6. \A n \in 1..N : rows[n].cluster # 0 =>
          /\ rows[n].cluster \in 1..Len(clusters) /\ rows[n].file \in clusters[rows[n].cluster].members
    <3> TAKE n \in 1..N
    <3> DEFINE k == rows[n].cluster
    <3>1. k = ClusterOf(rows[n].file) /\ rows[n].file \in Files
      BY <2>1, <2>4
    <3>2. /\ k \in 0..Len(clusters)
          /\ \A j \in 1..Len(clusters) : rows[n].file \in clusters[j].members <=> k = j
      BY <3>1, ClusterIs DEF WritingInv
    <3> HIDE DEF k
    <3>3. k # 0 => k \in 1..Len(clusters)
      BY <2>3, <3>2
    <3> QED
      BY <3>2, <3>3 DEF k
  <2>7. \A n \in 1..N : rows[n].cluster = 0 => rows[n].file \notin taken
    BY <2>1, <2>4, ClusterIs DEF WritingInv
  <2>8. \A n \in 1..N : rows[n].cluster # 0 =>
          \E m \in 1..n : rows[m].file = clusters[rows[n].cluster].center
    <3> SUFFICES ASSUME NEW n \in 1..N, rows[n].cluster # 0
                 PROVE \E m \in 1..n : rows[m].file = clusters[rows[n].cluster].center
      OBVIOUS
    <3> DEFINE k == rows[n].cluster
               c == clusters[k].center
    <3>0. k \in 1..Len(clusters)
      BY <2>6
    <3>1. k \in 1..Len(clusters) /\ c \in clusters[k].members /\ c \in Files
      <4>1. c \in clusters[k].members
        BY <3>0 DEF WritingInv, TakenAreMembers
      <4>2. clusters[k] \in [center : Files, members : SUBSET Files]
        <5>1. clusters \in Seq([center : Files, members : SUBSET Files])
          BY DEF ClustersInv, MakingTypeOK
        <5>2. \A i \in 1..Len(clusters) : clusters[i] \in [center : Files, members : SUBSET Files]
          BY <5>1, ElementsOf
        <5> QED
          BY <3>0, <5>2
      <4> QED
        BY <3>0, <4>1, <4>2
    <3>2. PICK m \in 1..N : rows[m].file = c
      BY <2>2, <3>1
    <3>3. CASE m <= n
      <4>1. m \in 1..n
        BY <3>3
      <4> QED
        BY <3>2, <4>1
    <3>4. CASE m > n
      <4>1. RowBefore(rows[n].file, c)
        BY <2>5, <3>2, <3>4
      <4>2. ClusterOf(rows[n].file) = k /\ ClusterOf(c) = k /\ k # 0
        <5>1. ClusterOf(c) = k
          BY <3>1, ClusterIs DEF WritingInv
        <5> QED
          BY <2>4, <5>1
      <4>3. ~Larger(k, k)
        BY <3>1, PlaceIs, <2>3 DEF WritingInv
      <4>4. Closer(c, rows[n].file, c)
        <5> HIDE DEF k
        <5> QED BY <4>1, <4>2, <4>3 DEF RowBefore
      <4>5. rows[n].file = c
        BY <4>4 DEF Closer
      <4>6. n \in 1..n
        OBVIOUS
      <4> QED
        BY <4>5, <4>6
    <3> QED
      BY <3>3, <3>4, FilesAreFinite
  <2>9. \A m, n \in 1..N : m < n /\ rows[n].cluster # 0 => rows[m].cluster \in 1..rows[n].cluster
    <3> SUFFICES ASSUME NEW m \in 1..N, NEW n \in 1..N, m < n, rows[n].cluster # 0
                 PROVE rows[m].cluster \in 1..rows[n].cluster
      OBVIOUS
    <3> DEFINE j == rows[m].cluster
               k == rows[n].cluster
    <3>1. RowBefore(rows[m].file, rows[n].file) /\ j = ClusterOf(rows[m].file) /\ k = ClusterOf(rows[n].file)
      BY <2>4, <2>5
    <3>2. k # 0 /\ k \in 1..Len(clusters) /\ (j # 0 => j \in 1..Len(clusters))
      BY <2>6
    <3> HIDE DEF j, k
    <3>3. j # 0 /\ (Larger(j, k) \/ j = k)
      BY <3>1, <3>2 DEF RowBefore
    <3>4. Larger(j, k) <=> j < k
      BY <3>2, <3>3, PlaceIs DEF WritingInv
    <3>5. j \in 1..k
      BY <2>3, <3>2, <3>3, <3>4
    <3> QED
      BY <3>5 DEF j, k
  <2>10. \A n \in 1..N : rows[n].cluster # 0 => rows[n].cluster <= Len(clusters)
    BY <2>3, <2>6
  <2> QED
    BY <2>1, <2>2, <2>6, <2>7, <2>8, <2>9, <2>10 DEF RowsTell
<1> QED
  BY <1>1, RowsInvariance, ClustersAreAlwaysStars, PTL DEF ClustersAreStars

-----------------------------------------------------------------------------
(* The API explorer *)


\* what a thread does, and what it posts
ThreadStates ==
  {NoThread} \cup {[does |-> "checks"]} \cup [does : {"downloads"}, what : Found]
  \cup [does : {"writes"}, what : Found, alone : BOOLEAN]
Messages ==
  {NoMessage} \cup [is : {"checked"}, found : SUBSET Found]
  \cup [is : {"installed"}, ok : BOOLEAN, what : Found]
Boxes ==
  [asks : {"folder", "restart"}] \cup [asks : {"install"}, found : SUBSET Found]

ThreadsTypeOK ==
  /\ thread \in [Explorers -> ThreadStates]
  /\ message \in [Explorers -> Messages]
  /\ boxes \in [Explorers -> Seq(Boxes)]

\* The versions whose metadata can be read, or was written as no process can know
ReadableVersions == {v \in Versions : file[v] = "whole"} \cup doubtful

\* A thread that is not the only one that writes the files of a version knows it, and they are doubtful.
WritersKnow ==
  \A p \in Explorers : thread[p].does = "writes" =>
    thread[p].alone \/ thread[p].what.version \in doubtful

InstalledIsWhole ==
  \A p \in Explorers : message[p].is = "installed" /\ message[p].ok =>
    message[p].what.version \in ReadableVersions

SettingsAreWhole ==
  /\ saved.folder \in Versions => saved.folder \in ReadableVersions
  /\ \A p \in Explorers : settings[p].folder \in Versions => settings[p].folder \in ReadableVersions

ExplorerInv ==
  ExplorerTypeOK /\ ThreadsTypeOK /\ WritersKnow /\ InstalledIsWhole /\ SettingsAreWhole

\* The threads, by what they do
LEMMA ThreadIs ==
  ASSUME ThreadsTypeOK, NEW p \in Explorers
  PROVE /\ thread[p] \in ThreadStates
        /\ thread[p].does \in {"downloads", "writes"} =>
             /\ thread[p].what \in Found /\ thread[p].what.version \in Versions
             /\ thread[p].what.wdk \in BOOLEAN
        /\ thread[p].does = "writes" => thread[p] \in [does : {"writes"}, what : Found, alone : BOOLEAN]
<1>1. thread[p] \in ThreadStates
  BY DEF ThreadsTypeOK
<1>2. CASE thread[p] = NoThread
  BY <1>1, <1>2 DEF NoThread
<1>3. CASE thread[p] = [does |-> "checks"]
  BY <1>1, <1>3
<1>4. CASE thread[p] \in [does : {"downloads"}, what : Found]
  <2>1. thread[p].what \in Found /\ thread[p].does = "downloads"
    BY <1>4
  <2> QED
    BY <1>1, <2>1 DEF Found
<1>5. CASE thread[p] \in [does : {"writes"}, what : Found, alone : BOOLEAN]
  <2>1. thread[p].what \in Found /\ thread[p].does = "writes"
    BY <1>5
  <2> QED
    BY <1>1, <1>5, <2>1 DEF Found
<1> QED
  BY <1>1, <1>2, <1>3, <1>4, <1>5 DEF ThreadStates

LEMMA MessageIs ==
  ASSUME ThreadsTypeOK, NEW p \in Explorers
  PROVE /\ message[p].is = "checked" => message[p].found \in SUBSET Found
        /\ message[p].is = "installed" =>
             /\ message[p].what \in Found /\ message[p].what.version \in Versions
             /\ message[p].ok \in BOOLEAN
<1>1. message[p] \in Messages
  BY DEF ThreadsTypeOK
<1>2. CASE message[p] = NoMessage
  BY <1>2 DEF NoMessage
<1>3. CASE message[p] \in [is : {"checked"}, found : SUBSET Found]
  BY <1>3
<1>4. CASE message[p] \in [is : {"installed"}, ok : BOOLEAN, what : Found]
  <2>1. /\ message[p].what \in Found /\ message[p].ok \in BOOLEAN /\ message[p].is = "installed"
    BY <1>4
  <2> QED
    BY <2>1 DEF Found
<1> QED
  BY <1>1, <1>2, <1>3, <1>4 DEF Messages

LEMMA NoneAreStates == NoThread \in ThreadStates /\ NoMessage \in Messages
  BY DEF ThreadStates, Messages

LEMMA ExplorerInitEstablishes == ExplorerInit => ExplorerInv
<1> SUFFICES ASSUME ExplorerInit PROVE ExplorerInv
  OBVIOUS
<1>1. saved = [folder |-> Default, known |-> {}] /\ saved \in Settings /\ saved.folder = Default
  BY DEF ExplorerInit, Settings
<1>2. ExplorerTypeOK
  <2>1. m_MetadataBusy \in [Explorers -> BOOLEAN]
    BY Zenon DEF ExplorerInit
  <2>2. /\ file \in [Versions -> {"none", "cut", "whole"}] /\ doubtful \subseteq Versions
        /\ settings \in [Explorers -> Settings] /\ checks \in 0..MaxChecks
    BY <1>1, MaxChecksIsNat DEF ExplorerInit
  <2>3. /\ runs \in [Explorers -> {"not", "loads", "shows", "closes"}]
        /\ uses \in [Explorers -> SUBSET (Versions \cup {Default, Other})]
    BY DEF ExplorerInit
  <2> QED
    BY <1>1, <2>1, <2>2, <2>3 DEF ExplorerTypeOK
<1>3. ThreadsTypeOK
  BY NoneAreStates DEF ExplorerInit, ThreadsTypeOK
<1>4. WritersKnow
  BY DEF ExplorerInit, WritersKnow, NoThread
<1>5. InstalledIsWhole
  BY DEF ExplorerInit, InstalledIsWhole, NoMessage
<1>6. SettingsAreWhole
  BY <1>1, FoldersDiffer DEF ExplorerInit, SettingsAreWhole
<1> QED
  BY <1>2, <1>3, <1>4, <1>5, <1>6 DEF ExplorerInv

\* What no step may do: a version that can be read, or is doubtful, stays so.  Then the settings and
\* the messages that are kept, or copied, are whole as they were.
LEMMA WholeStaysWhole ==
  ASSUME ExplorerInv, ExplorerTypeOK', ThreadsTypeOK',
         \A v \in Versions : v \in ReadableVersions => v \in ReadableVersions',
         WritersKnow',
         \A p \in Explorers : message'[p].is = "installed" /\ message'[p].ok =>
           message'[p] = message[p] \/ message'[p].what.version \in ReadableVersions',
         \A p \in Explorers :
           \/ settings'[p] \in {settings[p], saved}
           \/ settings'[p].folder \in Versions => settings'[p].folder \in ReadableVersions',
         saved' = saved \/ \E p \in Explorers : saved' = settings[p]
  PROVE ExplorerInv'
<1>1. InstalledIsWhole'
  <2> SUFFICES ASSUME NEW p \in Explorers, message'[p].is = "installed", message'[p].ok
               PROVE message'[p].what.version \in ReadableVersions'
    BY DEF InstalledIsWhole
  <2>1. CASE message'[p] = message[p]
    <3>1. message[p].what.version \in Versions
      BY <2>1, MessageIs DEF ExplorerInv
    <3> QED
      BY <2>1, <3>1 DEF ExplorerInv, InstalledIsWhole
  <2> QED
    BY <2>1
<1>2. SettingsAreWhole'
  BY DEF ExplorerInv, SettingsAreWhole
<1> QED
  BY <1>1, <1>2 DEF ExplorerInv

\* A step that writes no file, starts no writer and posts no message that a version is installed.
LEMMA NoFileWritten ==
  ASSUME ExplorerInv, UNCHANGED <<file, doubtful>>, ExplorerTypeOK', ThreadsTypeOK',
         \A p \in Explorers : thread'[p].does = "writes" => thread'[p] = thread[p],
         \A p \in Explorers : message'[p].is = "installed" /\ message'[p].ok => message'[p] = message[p],
         \A p \in Explorers :
           \/ settings'[p] \in {settings[p], saved}
           \/ settings'[p].folder \in Versions => settings'[p].folder \in ReadableVersions,
         saved' = saved \/ \E p \in Explorers : saved' = settings[p]
  PROVE ExplorerInv'
<1>1. ReadableVersions' = ReadableVersions
  BY DEF ReadableVersions
<1>2. WritersKnow'
  BY DEF ExplorerInv, WritersKnow
<1>3. \A v \in Versions : v \in ReadableVersions => v \in ReadableVersions'
  BY <1>1
<1>4. \A p \in Explorers :
        \/ settings'[p] \in {settings[p], saved}
        \/ settings'[p].folder \in Versions => settings'[p].folder \in ReadableVersions'
  BY <1>1
<1> QED
  BY <1>2, <1>3, <1>4, WholeStaysWhole

LEMMA AppendIsBoxes ==
  ASSUME NEW s \in Seq(Boxes), NEW b \in Boxes
  PROVE Append(s, b) \in Seq(Boxes)
  OBVIOUS

LEMMA FrontIsBoxes ==
  ASSUME NEW s \in Seq(Boxes), s # <<>>
  PROVE Front(s) \in Seq(Boxes) /\ Last(s) \in Boxes
  BY DEF Front, Last

LEMMA AskedBoxes ==
  /\ [asks |-> "folder"] \in Boxes /\ [asks |-> "restart"] \in Boxes
  /\ \A f \in SUBSET Found : [asks |-> "install", found |-> f] \in Boxes
  BY DEF Boxes

\* What the newest box offers
LEMMA OfferedIsFound ==
  ASSUME NEW b \in Boxes, b.asks = "install"
  PROVE b.found \in SUBSET Found
<1>1. CASE b \in [asks : {"folder", "restart"}]
  BY <1>1
<1>2. CASE b \in [asks : {"install"}, found : SUBSET Found]
  BY <1>2
<1> QED
  BY <1>1, <1>2 DEF Boxes

LEMMA StartExplorerKeeps ==
  ASSUME ExplorerInv, NEW p \in Explorers, StartExplorer(p) PROVE ExplorerInv'
<1> USE DEF StartExplorer, metadataVars
<1>1. ExplorerTypeOK'
  BY DEF ExplorerInv, ExplorerTypeOK
<1>2. ThreadsTypeOK'
  BY DEF ExplorerInv, ThreadsTypeOK
<1>3. \A q \in Explorers : settings'[q] \in {settings[q], saved}
  BY DEF ExplorerInv, ExplorerTypeOK
<1> QED
  BY <1>1, <1>2, <1>3, NoFileWritten

LEMMA OnLoadedKeeps ==
  ASSUME ExplorerInv, NEW p \in Explorers, OnLoaded(p) PROVE ExplorerInv'
<1>1. FolderRead(p) \in Versions \cup {Default, Other}
  BY DEF ExplorerInv, ExplorerTypeOK, Settings, FolderRead
<1>2. /\ runs' \in [Explorers -> {"not", "loads", "shows", "closes"}]
      /\ uses' \in [Explorers -> SUBSET (Versions \cup {Default, Other})]
      /\ UNCHANGED <<file, doubtful, saved, settings, m_MetadataBusy, thread, message, boxes, checks>>
  BY <1>1 DEF OnLoaded, metadataVars, ExplorerInv, ExplorerTypeOK
<1>3. ExplorerTypeOK'
  BY <1>2 DEF ExplorerInv, ExplorerTypeOK
<1>4. ThreadsTypeOK'
  BY <1>2 DEF ExplorerInv, ThreadsTypeOK
<1> QED
  BY <1>2, <1>3, <1>4, NoFileWritten

\* A process ends, with what its settings were, or without: its thread and its messages end with it.
LEMMA ProcessEndsKeeps ==
  ASSUME ExplorerInv, NEW p \in Explorers, ProcessEnds(p), saved' \in {saved, settings[p]}
  PROVE ExplorerInv'
<1> USE DEF ProcessEnds
<1>1. ExplorerTypeOK'
  <2>1. m_MetadataBusy' \in [Explorers -> BOOLEAN]
    BY Zenon DEF ExplorerInv, ExplorerTypeOK
  <2>2. saved' \in Settings
    BY DEF ExplorerInv, ExplorerTypeOK
  <2>3. /\ runs' \in [Explorers -> {"not", "loads", "shows", "closes"}]
        /\ uses' \in [Explorers -> SUBSET (Versions \cup {Default, Other})]
    BY DEF ExplorerInv, ExplorerTypeOK
  <2> QED
    BY <2>1, <2>2, <2>3 DEF ExplorerInv, ExplorerTypeOK
<1>2. ThreadsTypeOK'
  BY NoneAreStates DEF ExplorerInv, ThreadsTypeOK
<1>3. \A q \in Explorers : thread'[q].does = "writes" => thread'[q] = thread[q]
  BY DEF ExplorerInv, ThreadsTypeOK, NoThread
<1>4. \A q \in Explorers : message'[q].is = "installed" => message'[q] = message[q]
  BY DEF ExplorerInv, ThreadsTypeOK, NoMessage
<1> QED
  BY <1>1, <1>2, <1>3, <1>4, NoFileWritten

LEMMA OnMetadataFolderKeeps ==
  ASSUME ExplorerInv, NEW p \in Explorers, OnMetadataFolder(p) PROVE ExplorerInv'
<1> USE DEF OnMetadataFolder, Opens
<1>1. ExplorerTypeOK'
  BY DEF ExplorerInv, ExplorerTypeOK
<1>2. ThreadsTypeOK'
  BY AskedBoxes, AppendIsBoxes DEF ExplorerInv, ThreadsTypeOK
<1> QED
  BY <1>1, <1>2, NoFileWritten

LEMMA OnDefaultMetadataKeeps ==
  ASSUME ExplorerInv, NEW p \in Explorers, OnDefaultMetadata(p) PROVE ExplorerInv'
<1> USE DEF OnDefaultMetadata, Opens, Chosen
<1>1. [folder |-> Default, known |-> {}] \in Settings
  BY DEF Settings
<1>2. ExplorerTypeOK'
  BY <1>1 DEF ExplorerInv, ExplorerTypeOK
<1>3. ThreadsTypeOK'
  BY AskedBoxes, AppendIsBoxes DEF ExplorerInv, ThreadsTypeOK
<1>4. \A q \in Explorers : settings'[q] = settings[q] \/ settings'[q].folder \notin Versions
  BY FoldersDiffer DEF ExplorerInv, ExplorerTypeOK
<1> QED
  BY <1>2, <1>3, <1>4, NoFileWritten

LEMMA OnCheckMetadataKeeps ==
  ASSUME ExplorerInv, NEW p \in Explorers, OnCheckMetadata(p) PROVE ExplorerInv'
<1> USE DEF OnCheckMetadata
<1>1. ExplorerTypeOK'
  <2>1. m_MetadataBusy' \in [Explorers -> BOOLEAN]
    BY Zenon DEF ExplorerInv, ExplorerTypeOK
  <2>2. checks' \in 0..MaxChecks
    BY MaxChecksIsNat DEF ExplorerInv, ExplorerTypeOK
  <2> QED
    BY <2>1, <2>2 DEF ExplorerInv, ExplorerTypeOK
<1>2. [does |-> "checks"] \in ThreadStates
  BY DEF ThreadStates
<1>3. ThreadsTypeOK'
  BY <1>2 DEF ExplorerInv, ThreadsTypeOK
<1>4. \A q \in Explorers : thread'[q].does = "writes" => thread'[q] = thread[q]
  BY DEF ExplorerInv, ThreadsTypeOK
<1> QED
  BY <1>1, <1>3, <1>4, NoFileWritten

LEMMA CheckEndsKeeps ==
  ASSUME ExplorerInv, NEW p \in Explorers, CheckEnds(p) PROVE ExplorerInv'
<1>1. PICK offered \in SUBSET Found : Ends(p, [is |-> "checked", found |-> offered])
  BY DEF CheckEnds
<1>2. UNCHANGED <<file, doubtful, saved, settings, runs, uses, m_MetadataBusy, boxes, checks>>
  BY DEF CheckEnds
<1> DEFINE m == [is |-> "checked", found |-> offered]
<1>3. m \in Messages /\ m.is = "checked"
  BY DEF Messages
<1>4. /\ thread' = [thread EXCEPT ![p] = NoThread]
      /\ message' = [message EXCEPT ![p] = m]
  BY <1>1 DEF Ends
<1> HIDE DEF m
<1>5. ExplorerTypeOK'
  BY <1>2 DEF ExplorerInv, ExplorerTypeOK
<1>6. ThreadsTypeOK'
  BY <1>2, <1>3, <1>4, NoneAreStates DEF ExplorerInv, ThreadsTypeOK
<1>7. \A q \in Explorers : thread'[q].does = "writes" => thread'[q] = thread[q]
  BY <1>4 DEF ExplorerInv, ThreadsTypeOK, NoThread
<1>8. \A q \in Explorers : message'[q].is = "installed" => message'[q] = message[q]
  BY <1>3, <1>4 DEF ExplorerInv, ThreadsTypeOK
<1> QED
  BY <1>2, <1>5, <1>6, <1>7, <1>8, NoFileWritten

\* What is posted as an installation ends
LEMMA InstalledKeepsTypes ==
  ASSUME ThreadsTypeOK, NEW p \in Explorers, thread[p].does \in {"downloads", "writes"},
         NEW ok \in BOOLEAN, Installed(p, ok), UNCHANGED boxes
  PROVE /\ ThreadsTypeOK'
        /\ \A q \in Explorers : thread'[q].does = "writes" => thread'[q] = thread[q]
        /\ message'[p].ok = ok /\ message'[p].what = thread[p].what
        /\ \A q \in Explorers : q # p => message'[q] = message[q]
<1> DEFINE m == [is |-> "installed", ok |-> ok, what |-> thread[p].what]
<1>1. thread[p].what \in Found
  BY ThreadIs
<1>2. m \in Messages /\ m.is = "installed" /\ m.ok = ok /\ m.what = thread[p].what
  BY <1>1, Zenon DEF Messages
<1>3. /\ thread' = [thread EXCEPT ![p] = NoThread]
      /\ message' = [message EXCEPT ![p] = m]
  BY DEF Installed, Ends
<1> HIDE DEF m
<1>4. ThreadsTypeOK'
  BY <1>2, <1>3, NoneAreStates DEF ThreadsTypeOK
<1>5. \A q \in Explorers : thread'[q].does = "writes" => thread'[q] = thread[q]
  BY <1>3 DEF ThreadsTypeOK, NoThread
<1>6. message'[p] = m /\ \A q \in Explorers : q # p => message'[q] = message[q]
  BY <1>3 DEF ThreadsTypeOK
<1> QED
  BY <1>2, <1>4, <1>5, <1>6

LEMMA NothingInstalledKeeps ==
  ASSUME ExplorerInv, NEW p \in Explorers, thread[p].does \in {"downloads", "writes"},
         Installed(p, FALSE),
         UNCHANGED <<file, doubtful, saved, settings, runs, uses, m_MetadataBusy, boxes, checks>>
  PROVE ExplorerInv'
<1>1. /\ ThreadsTypeOK'
      /\ \A q \in Explorers : thread'[q].does = "writes" => thread'[q] = thread[q]
      /\ message'[p].ok = FALSE
      /\ \A q \in Explorers : q # p => message'[q] = message[q]
  BY InstalledKeepsTypes DEF ExplorerInv
<1>2. ExplorerTypeOK'
  BY DEF ExplorerInv, ExplorerTypeOK
<1> QED
  BY <1>1, <1>2, NoFileWritten

\* The file is opened to be written: that of a version that was whole, or that another writes, is
\* doubtful from then on, and who writes it is not alone.
LEMMA ExtractOpensKeeps ==
  ASSUME ExplorerInv, NEW p \in Explorers, ExtractOpens(p) PROVE ExplorerInv'
<1> DEFINE v == thread[p].what.version
           alone == \A q \in Explorers : ~Writes(q, v)
           new == [does |-> "writes", what |-> thread[p].what, alone |-> alone]
<1>1. v \in Versions /\ thread[p].what \in Found
  BY ThreadIs DEF ExplorerInv, ExtractOpens
<1>2. /\ thread[p].does = "downloads"
      /\ UNCHANGED <<saved, settings, runs, uses, m_MetadataBusy, boxes, checks>>
  BY DEF ExtractOpens
<1>3. CASE Installed(p, FALSE) /\ UNCHANGED <<file, doubtful>>
  BY <1>2, <1>3, NothingInstalledKeeps
<1>4. CASE /\ file' = [file EXCEPT ![v] = "cut"]
           /\ doubtful' = IF alone /\ file[v] # "whole" THEN doubtful ELSE doubtful \cup {v}
           /\ thread' = [q \in Explorers |->
                           IF q = p THEN new
                           ELSE IF Writes(q, v) THEN [thread[q] EXCEPT !.alone = FALSE] ELSE thread[q]]
           /\ UNCHANGED message
  <2>1. alone \in BOOLEAN /\ alone = \A q \in Explorers : ~Writes(q, v)
    BY Zenon
  <2>2. new \in ThreadStates /\ new.does = "writes" /\ new.alone = alone /\ new.what.version = v
    BY <1>1, <2>1, Zenon DEF ThreadStates
  <2> HIDE DEF new, alone
  <2>3. \A q \in Explorers : Writes(q, v) =>
          LET t == [thread[q] EXCEPT !.alone = FALSE]
          IN t \in ThreadStates /\ t.does = "writes" /\ t.what = thread[q].what
    <3> TAKE q \in Explorers
    <3> HAVE Writes(q, v)
    <3>1. thread[q] \in [does : {"writes"}, what : Found, alone : BOOLEAN]
      BY ThreadIs DEF ExplorerInv, Writes
    <3>2. [thread[q] EXCEPT !.alone = FALSE] \in [does : {"writes"}, what : Found, alone : BOOLEAN]
      BY <3>1
    <3>3. [thread[q] EXCEPT !.alone = FALSE].what = thread[q].what
      BY <3>1
    <3> QED
      BY <3>2, <3>3 DEF ThreadStates
  <2>4. thread' \in [Explorers -> ThreadStates]
    BY <1>4, <2>2, <2>3 DEF ExplorerInv, ThreadsTypeOK
  <2>5. ThreadsTypeOK'
    BY <1>2, <1>4, <2>4 DEF ExplorerInv, ThreadsTypeOK
  <2>6. ExplorerTypeOK'
    <3>1. file' \in [Versions -> {"none", "cut", "whole"}] /\ doubtful' \subseteq Versions
      BY <1>1, <1>4 DEF ExplorerInv, ExplorerTypeOK
    <3> QED
      BY <1>2, <3>1 DEF ExplorerInv, ExplorerTypeOK
  <2>7. \A u \in Versions : u \in ReadableVersions => u \in ReadableVersions'
    BY <1>1, <1>4 DEF ReadableVersions, ExplorerInv, ExplorerTypeOK
  <2>8. doubtful \subseteq doubtful' /\ (alone \/ v \in doubtful')
    BY <1>4
  <2>9. WritersKnow'
    <3> SUFFICES ASSUME NEW q \in Explorers, thread'[q].does = "writes"
                 PROVE thread'[q].alone \/ thread'[q].what.version \in doubtful'
      BY DEF WritersKnow
    <3>1. CASE q = p
      <4>1. thread'[q] = new
        BY <1>4, <3>1
      <4> QED
        BY <2>2, <2>8, <4>1
    <3>2. CASE q # p /\ Writes(q, v)
      <4>1. ~alone
        BY <2>1, <3>2
      <4>2. thread'[q].what = thread[q].what /\ thread[q].what.version = v
        BY <1>4, <2>3, <3>2 DEF Writes
      <4> QED
        BY <2>8, <4>1, <4>2
    <3>3. CASE q # p /\ ~Writes(q, v)
      <4>1. thread'[q] = thread[q]
        BY <1>4, <3>3
      <4> QED
        BY <2>8, <4>1 DEF ExplorerInv, WritersKnow
    <3> QED
      BY <3>1, <3>2, <3>3
  <2> QED
    BY <1>2, <1>4, <2>5, <2>6, <2>7, <2>9, WholeStaysWhole
<1> QED
  BY <1>3, <1>4 DEF ExtractOpens

\* What was written is whole if one wrote it, and known to be doubtful if it is not.
LEMMA ExtractEndsKeeps ==
  ASSUME ExplorerInv, NEW p \in Explorers, ExtractEnds(p) PROVE ExplorerInv'
<1> DEFINE v == thread[p].what.version
<1>1. v \in Versions
  BY ThreadIs DEF ExplorerInv, ExtractEnds
<1>2. /\ thread[p].does = "writes"
      /\ UNCHANGED <<saved, settings, runs, uses, m_MetadataBusy, boxes, checks>>
  BY DEF ExtractEnds
<1>3. CASE Installed(p, FALSE) /\ UNCHANGED <<file, doubtful>>
  BY <1>2, <1>3, NothingInstalledKeeps
<1>4. CASE (WrittenOut(p) \/ CutAtClose(p)) /\ \E ok \in BOOLEAN : Installed(p, ok)
  <2>1. PICK ok \in BOOLEAN : Installed(p, ok)
    BY <1>4
  <2>2. /\ ThreadsTypeOK'
        /\ \A q \in Explorers : thread'[q].does = "writes" => thread'[q] = thread[q]
        /\ message'[p].what = thread[p].what
        /\ \A q \in Explorers : q # p => message'[q] = message[q]
    BY <1>2, <2>1, InstalledKeepsTypes DEF ExplorerInv
  <2>3. /\ file' \in [Versions -> {"none", "cut", "whole"}]
        /\ doubtful \subseteq doubtful' /\ doubtful' \subseteq Versions
        /\ \A u \in Versions : u # v => file'[u] = file[u]
        /\ v \in ReadableVersions'
    <3>1. CASE WrittenOut(p)
      <4>1. PICK f \in {"cut", "whole"} :
              (thread[p].alone => f = "whole") /\ file' = [file EXCEPT ![v] = f]
        BY <3>1 DEF WrittenOut
      <4>2. doubtful' = doubtful
        BY <3>1 DEF WrittenOut
      <4>3. thread[p].alone \/ v \in doubtful
        BY <1>2 DEF ExplorerInv, WritersKnow
      <4>4. file'[v] = f
        BY <1>1, <4>1 DEF ExplorerInv, ExplorerTypeOK
      <4>5. v \in ReadableVersions'
        BY <1>1, <4>1, <4>2, <4>3, <4>4 DEF ReadableVersions
      <4>6. /\ file' \in [Versions -> {"none", "cut", "whole"}]
            /\ \A u \in Versions : u # v => file'[u] = file[u]
        BY <4>1 DEF ExplorerInv, ExplorerTypeOK
      <4> QED
        BY <4>2, <4>5, <4>6 DEF ExplorerInv, ExplorerTypeOK
    <3>2. CASE CutAtClose(p)
      <4>1. doubtful' = doubtful \cup {v} /\ file' = file
        BY <3>2 DEF CutAtClose
      <4> QED
        BY <1>1, <4>1 DEF ExplorerInv, ExplorerTypeOK, ReadableVersions
    <3> QED
      BY <1>4, <3>1, <3>2
  <2>4. ExplorerTypeOK'
    BY <1>2, <2>3 DEF ExplorerInv, ExplorerTypeOK
  <2>5. \A u \in Versions : u \in ReadableVersions => u \in ReadableVersions'
    BY <2>3 DEF ReadableVersions
  <2>6. WritersKnow'
    BY <2>2, <2>3 DEF ExplorerInv, WritersKnow
  <2>7. \A q \in Explorers : message'[q] = message[q] \/ message'[q].what.version \in ReadableVersions'
    BY <2>2, <2>3
  <2> QED
    BY <1>2, <2>2, <2>4, <2>5, <2>6, <2>7, WholeStaysWhole
<1> QED
  BY <1>3, <1>4 DEF ExtractEnds

\* A message is taken: no other is, and nothing of the disk changes.
LEMMA TakenKeeps ==
  ASSUME ExplorerInv, NEW p \in Explorers, NEW is, Taken(p, is),
         settings' \in [Explorers -> Settings], boxes' \in [Explorers -> Seq(Boxes)],
         \A q \in Explorers :
           \/ settings'[q] = settings[q]
           \/ settings'[q].folder \in Versions => settings'[q].folder \in ReadableVersions
  PROVE ExplorerInv'
<1> USE DEF Taken
<1>1. ExplorerTypeOK'
  <2>1. m_MetadataBusy' \in [Explorers -> BOOLEAN]
    BY Zenon DEF ExplorerInv, ExplorerTypeOK
  <2> QED
    BY <2>1 DEF ExplorerInv, ExplorerTypeOK
<1>2. ThreadsTypeOK'
  BY NoneAreStates DEF ExplorerInv, ThreadsTypeOK
<1>3. \A q \in Explorers : message'[q].is = "installed" => message'[q] = message[q]
  BY DEF ExplorerInv, ThreadsTypeOK, NoMessage
<1> QED
  BY <1>1, <1>2, <1>3, NoFileWritten

LEMMA OnMetadataCheckedKeeps ==
  ASSUME ExplorerInv, NEW p \in Explorers, OnMetadataChecked(p) PROVE ExplorerInv'
<1> DEFINE b == [asks |-> "install", found |-> message[p].found]
<1>1. Taken(p, "checked") /\ settings' = settings /\ message[p].is = "checked"
  BY DEF OnMetadataChecked, Taken
<1>2. b \in Boxes
  BY <1>1, MessageIs, AskedBoxes DEF ExplorerInv
<1>3. boxes' = boxes \/ boxes' = [boxes EXCEPT ![p] = Append(boxes[p], b)]
  BY DEF OnMetadataChecked, Opens
<1> HIDE DEF b
<1>4. boxes' \in [Explorers -> Seq(Boxes)]
  <2>1. boxes \in [Explorers -> Seq(Boxes)]
    BY DEF ExplorerInv, ThreadsTypeOK
  <2>2. Append(boxes[p], b) \in Seq(Boxes)
    BY <1>2, <2>1, AppendIsBoxes
  <2> QED
    BY <1>3, <2>1, <2>2
<1>5. settings' \in [Explorers -> Settings]
  BY <1>1 DEF ExplorerInv, ExplorerTypeOK
<1> QED
  BY <1>1, <1>4, <1>5, TakenKeeps

\* The version that is chosen is the one whose installation was told to have succeeded.
LEMMA OnMetadataInstalledKeeps ==
  ASSUME ExplorerInv, NEW p \in Explorers, OnMetadataInstalled(p) PROVE ExplorerInv'
<1> DEFINE new == [folder |-> message[p].what.version, known |-> {message[p].what}]
<1>1. Taken(p, "installed") /\ message[p].is = "installed"
  BY DEF OnMetadataInstalled, Taken
<1>2. message[p].what \in Found /\ message[p].what.version \in Versions
  BY <1>1, MessageIs DEF ExplorerInv
<1>3. new \in Settings /\ new.folder = message[p].what.version
  BY <1>2 DEF Settings
<1>4. CASE ~message[p].ok
  <2>1. UNCHANGED <<settings, boxes>>
    BY <1>4 DEF OnMetadataInstalled, IsInstalled
  <2>2. settings' \in [Explorers -> Settings] /\ boxes' \in [Explorers -> Seq(Boxes)]
    BY <2>1 DEF ExplorerInv, ExplorerTypeOK, ThreadsTypeOK
  <2> QED
    BY <1>1, <2>1, <2>2, TakenKeeps
<1>5. CASE message[p].ok
  <2>1. /\ settings' = [settings EXCEPT ![p] = new]
        /\ boxes' = [boxes EXCEPT ![p] = Append(@, [asks |-> "restart"])]
    BY <1>5 DEF OnMetadataInstalled, IsInstalled, Chosen, Opens
  <2>2. new.folder \in ReadableVersions
    BY <1>1, <1>3, <1>5 DEF ExplorerInv, InstalledIsWhole
  <2> HIDE DEF new
  <2>3. boxes' \in [Explorers -> Seq(Boxes)]
    BY <2>1, AskedBoxes, AppendIsBoxes DEF ExplorerInv, ThreadsTypeOK
  <2>4. settings' \in [Explorers -> Settings]
    BY <1>3, <2>1 DEF ExplorerInv, ExplorerTypeOK
  <2>5. \A q \in Explorers : settings'[q] = settings[q] \/ settings'[q] = new
    BY <2>1 DEF ExplorerInv, ExplorerTypeOK
  <2> QED
    BY <1>1, <2>2, <2>3, <2>4, <2>5, TakenKeeps
<1> QED
  BY <1>4, <1>5

LEMMA NoKeeps ==
  ASSUME ExplorerInv, NEW p \in Explorers, No(p) PROVE ExplorerInv'
<1> USE DEF No, BoxClosed
<1>1. ExplorerTypeOK'
  BY DEF ExplorerInv, ExplorerTypeOK
<1>2. ThreadsTypeOK'
  BY FrontIsBoxes DEF ExplorerInv, ThreadsTypeOK
<1> QED
  BY <1>1, <1>2, NoFileWritten

LEMMA FolderChosenKeeps ==
  ASSUME ExplorerInv, NEW p \in Explorers, FolderChosen(p) PROVE ExplorerInv'
<1> USE DEF FolderChosen, Chosen, Answer
<1>1. [folder |-> Other, known |-> {}] \in Settings
  BY DEF Settings
<1>2. ExplorerTypeOK'
  BY <1>1 DEF ExplorerInv, ExplorerTypeOK
<1>3. Front(boxes[p]) \in Seq(Boxes)
  BY FrontIsBoxes DEF ExplorerInv, ThreadsTypeOK
<1>4. ThreadsTypeOK'
  BY <1>3, AskedBoxes, AppendIsBoxes DEF ExplorerInv, ThreadsTypeOK
<1>5. \A q \in Explorers : settings'[q] = settings[q] \/ settings'[q].folder \notin Versions
  BY FoldersDiffer DEF ExplorerInv, ExplorerTypeOK
<1> QED
  BY <1>2, <1>4, <1>5, NoFileWritten

LEMMA InstallKeeps ==
  ASSUME ExplorerInv, NEW p \in Explorers, Install(p) PROVE ExplorerInv'
<1>1. /\ boxes[p] # <<>> /\ Last(boxes[p]).asks = "install"
      /\ boxes' = [boxes EXCEPT ![p] = Front(@)]
      /\ m_MetadataBusy' = [m_MetadataBusy EXCEPT ![p] = TRUE]
      /\ UNCHANGED <<file, doubtful, saved, settings, runs, uses, message, checks>>
  BY DEF Install, Answer, BoxClosed
<1>2. Front(boxes[p]) \in Seq(Boxes) /\ Last(boxes[p]).found \in SUBSET Found
  BY <1>1, FrontIsBoxes, OfferedIsFound DEF ExplorerInv, ThreadsTypeOK
<1>3. PICK chosen \in Found : thread' = [thread EXCEPT ![p] = [does |-> "downloads", what |-> chosen]]
  BY <1>2 DEF Install
<1>4. [does |-> "downloads", what |-> chosen] \in ThreadStates
  BY DEF ThreadStates
<1>5. ThreadsTypeOK'
  BY <1>1, <1>2, <1>3, <1>4 DEF ExplorerInv, ThreadsTypeOK
<1>6. ExplorerTypeOK'
  <2>1. m_MetadataBusy' \in [Explorers -> BOOLEAN]
    BY <1>1, Zenon DEF ExplorerInv, ExplorerTypeOK
  <2> QED
    BY <1>1, <2>1 DEF ExplorerInv, ExplorerTypeOK
<1>7. \A q \in Explorers : thread'[q].does = "writes" => thread'[q] = thread[q]
  BY <1>3 DEF ExplorerInv, ThreadsTypeOK
<1> QED
  BY <1>1, <1>5, <1>6, <1>7, NoFileWritten

LEMMA RestartKeeps ==
  ASSUME ExplorerInv, NEW p \in Explorers, Restart(p) PROVE ExplorerInv'
<1> USE DEF Restart, BoxClosed, Answer
<1>1. ExplorerTypeOK'
  <2>1. /\ runs' \in [Explorers -> {"not", "loads", "shows", "closes"}]
        /\ saved' \in Settings
    BY DEF ExplorerInv, ExplorerTypeOK
  <2> QED
    BY <2>1 DEF ExplorerInv, ExplorerTypeOK
<1>2. ThreadsTypeOK'
  BY FrontIsBoxes DEF ExplorerInv, ThreadsTypeOK
<1> QED
  BY <1>1, <1>2, NoFileWritten

LEMMA ExplorerNextKeeps == ExplorerInv /\ [ExplorerNext]_explorerVars => ExplorerInv'
<1> SUFFICES ASSUME ExplorerInv, [ExplorerNext]_explorerVars PROVE ExplorerInv'
  OBVIOUS
<1>1. CASE UNCHANGED explorerVars
  BY <1>1 DEF explorerVars, ExplorerInv, ExplorerTypeOK, ThreadsTypeOK, WritersKnow, InstalledIsWhole,
              SettingsAreWhole, ReadableVersions
<1>2. CASE ExplorerNext
  <2> PICK p \in Explorers :
      \/ StartExplorer(p) \/ OnLoaded(p) \/ CloseExplorer(p) \/ CrashExplorer(p)
      \/ OnMetadataFolder(p) \/ OnDefaultMetadata(p) \/ OnCheckMetadata(p)
      \/ CheckEnds(p) \/ ExtractOpens(p) \/ ExtractEnds(p)
      \/ OnMetadataChecked(p) \/ OnMetadataInstalled(p)
      \/ No(p) \/ FolderChosen(p) \/ Install(p) \/ Restart(p)
    BY <1>2 DEF ExplorerNext
  <2>1. CASE CloseExplorer(p)
    BY <2>1, ProcessEndsKeeps DEF CloseExplorer
  <2>2. CASE CrashExplorer(p)
    BY <2>2, ProcessEndsKeeps DEF CrashExplorer
  <2>3. CASE StartExplorer(p) \/ OnLoaded(p) \/ OnMetadataFolder(p) \/ OnDefaultMetadata(p) \/ OnCheckMetadata(p)
    BY <2>3, StartExplorerKeeps, OnLoadedKeeps, OnMetadataFolderKeeps, OnDefaultMetadataKeeps, OnCheckMetadataKeeps
  <2>4. CASE CheckEnds(p) \/ ExtractOpens(p) \/ ExtractEnds(p)
    BY <2>4, CheckEndsKeeps, ExtractOpensKeeps, ExtractEndsKeeps
  <2>5. CASE OnMetadataChecked(p) \/ OnMetadataInstalled(p)
    BY <2>5, OnMetadataCheckedKeeps, OnMetadataInstalledKeeps
  <2>6. CASE No(p) \/ FolderChosen(p) \/ Install(p) \/ Restart(p)
    BY <2>6, NoKeeps, FolderChosenKeeps, InstallKeeps, RestartKeeps
  <2> QED
    BY <2>1, <2>2, <2>3, <2>4, <2>5, <2>6
<1> QED
  BY <1>1, <1>2

\* The invariant of the explorers.
THEOREM ExplorerInvariance == ExplorerSpec => []ExplorerInv
  BY ExplorerInitEstablishes, ExplorerNextKeeps, PTL DEF ExplorerSpec

\* The state of the explorers has its types.
THEOREM ExplorerTypeCorrect == ExplorerSpec => []ExplorerTypeOK
<1>1. ExplorerInv => ExplorerTypeOK
  BY DEF ExplorerInv
<1> QED
  BY <1>1, ExplorerInvariance, PTL

\* The settings never name a version of the metadata whose file is not whole (MetadataPackages::Install,
\* OnMetadataInstalled), however many processes choose, install, save and end, and whenever, unless
\* that version was written again over its files, by two at once, or with an error nobody saw.
THEOREM ChosenIsAlwaysWhole == ExplorerSpec => []ChosenIsWhole
<1>1. ExplorerInv => ChosenIsWhole
  BY DEF ExplorerInv, SettingsAreWhole, ChosenIsWhole, ReadableVersions
<1> QED
  BY <1>1, ExplorerInvariance, PTL
=============================================================================
