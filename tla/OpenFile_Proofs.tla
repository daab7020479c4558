--------------------------- MODULE OpenFile_Proofs ----------------------------
(***************************************************************************)
(* Theorems about OpenFile, for any number of files.                       *)
(***************************************************************************)
EXTENDS OpenFile, FiniteSetTheorems, TLAPS

Live == thread.at \in {"build", "check", "post"}

\* The thread is of the open file and of the current generation until it posted.
ThreadOfFile ==
  Live => window /\ file # 0 /\ thread.of = file /\ thread.gen = m_XrefGeneration

\* No message is of a generation to come, and one of the current generation is of the open file.
MessagesOfFile ==
  \A m \in inbox : m.kind = "xrefs" => /\ m.gen <= m_XrefGeneration
                                       /\ m.gen = m_XrefGeneration => m.of \in {0, file}

\* One of the thread, its message, and the map that was taken.
OneOfThem ==
  /\ frame \in {"loop", "box"} => ~thread.cancel
  /\ frame # "loop" => window
  /\ frame \in Opening => file # 0
  /\ Live => PostedNow = {} /\ ~m_XrefsReady
  /\ PostedNow # {} => ~m_XrefsReady /\ thread.at = "ended" /\ file # 0
  /\ \A m, n \in PostedNow : m = n
  /\ Idle /\ file # 0 /\ ~m_XrefsReady => Live \/ PostedNow # {}
  /\ m_XrefsReady => file # 0
  /\ ~m_XrefsReady => m_Xrefs = 0

MapOfFile ==
  /\ m_Xrefs \in {0, file}
  /\ m_AfterXrefs \subseteq {file} \ {0}
  /\ m_XrefsReady => m_AfterXrefs = {}

XrefsInv == ThreadOfFile /\ MessagesOfFile /\ OneOfThem /\ MapOfFile

\* What a detached thread has, and has posted, of the current generation is the open file's
\* when OpenPE is over.
LoadsInv ==
  /\ file <= opened
  /\ \A l \in loading : /\ l.gen <= generation[l.kind]
                        /\ l.gen = generation[l.kind] /\ file # 0 /\ frame \notin Opening => l.of = file
  /\ \A m \in inbox : m.kind \in Loads => /\ m.gen <= generation[m.kind]
                                          /\ m.gen = generation[m.kind] /\ file # 0 /\ frame \notin Opening => m.of = file
  /\ frame = "box" => boxed
  /\ file # 0 /\ ~boxed => result["symbols"] \in {0, file}
  /\ file # 0 /\ frame \notin Opening => result["catalog"] \in {0, file}

\* Nothing is found of the file that OpenPE reads before OpenPE is over.
NotYet ==
  /\ \A l \in loading : l.of <= opened /\ (frame \in Opening => l.of # file)
  /\ \A m \in inbox : m.kind \in Loads => m.of <= opened /\ (frame \in Opening => m.of # file)
  /\ frame \in Opening => result["symbols"] # file

IInv == TypeOK /\ XrefsInv /\ LoadsInv /\ NotYet

-----------------------------------------------------------------------------
LEMMA InitEstablishes == Init => IInv
<1> SUFFICES ASSUME Init PROVE IInv
  OBVIOUS
<1> USE DEF Init
<1>1. TypeOK
  <2>1. 0 \in 0..MaxOpens
    BY MaxOpensIsNat
  <2>2. thread \in [at : Places, of : 0..MaxOpens, gen : Nat, cancel : BOOLEAN, built : BOOLEAN]
    BY <2>1 DEF NoThread, Places
  <2>3. generation \in [Loads -> Nat] /\ result \in [Loads -> 0..MaxOpens]
    BY <2>1
  <2> QED
    BY <2>1, <2>2, <2>3 DEF TypeOK
<1>2. XrefsInv
  BY DEF XrefsInv, ThreadOfFile, MessagesOfFile, OneOfThem, MapOfFile, Live, PostedNow, NoThread, Opening
<1>3. LoadsInv /\ NotYet
  BY DEF LoadsInv, NotYet, Opening
<1> QED
  BY <1>1, <1>2, <1>3 DEF IInv

LEMMA CancelBeginPreserves == ASSUME IInv, NEW h \in Handlers, CancelBegin(h) PROVE IInv'
<1> USE DEF IInv, CancelBegin, FileUntilJoined, xrefVars, loadVars
<1>1. TypeOK'
  BY DEF TypeOK, Joinable, Handlers, Opening
<1>2. thread'.at = thread.at /\ thread'.of = thread.of /\ thread'.gen = thread.gen
  BY DEF TypeOK
<1>3. PostedNow' = PostedNow /\ Live' = Live
  BY <1>2 DEF PostedNow, Live
<1>4. XrefsInv'
  BY <1>2, <1>3 DEF XrefsInv, ThreadOfFile, MessagesOfFile, OneOfThem, MapOfFile, Idle, Handlers, Opening
<1>5. (LoadsInv /\ NotYet)'
  BY DEF LoadsInv, NotYet, Idle, Handlers, Opening
<1> QED
  BY <1>1, <1>4, <1>5

LEMMA OpenReadsPreserves == ASSUME IInv, OpenReads PROVE IInv'
<1> USE DEF IInv, OpenReads, Cleared, ClearAfter, NextGeneration
<1>1. opened + 1 \in 1..MaxOpens /\ opened \in Nat
  BY MaxOpensIsNat DEF TypeOK
<1>2. TypeOK'
  <2>1. thread' \in [at : Places, of : 0..MaxOpens, gen : Nat, cancel : BOOLEAN, built : BOOLEAN]
    BY MaxOpensIsNat DEF NoThread, Places
  <2>2. result' \in [Loads -> 0..MaxOpens]
    <3>1. 0 \in 0..MaxOpens /\ result \in [Loads -> 0..MaxOpens]
      BY MaxOpensIsNat DEF TypeOK
    <3> QED
      BY <3>1
  <2>3. m_Xrefs' \in 0..MaxOpens /\ file' \in 0..MaxOpens /\ opened' \in 0..MaxOpens /\ m_XrefGeneration' \in Nat
    BY <1>1, MaxOpensIsNat DEF TypeOK
  <2> QED
    BY <2>1, <2>2, <2>3 DEF TypeOK
<1>3. PostedNow' = {}
  BY DEF PostedNow, XrefsInv, MessagesOfFile, TypeOK
<1>4. XrefsInv'
  BY <1>1, <1>3 DEF XrefsInv, ThreadOfFile, MessagesOfFile, OneOfThem, MapOfFile, Live, NoThread, Idle, Opening, TypeOK
<1>5. (LoadsInv /\ NotYet)'
  <2>1. result'["symbols"] = 0
    BY DEF TypeOK, Loads
  <2>2. frame' = "box" => boxed'
    OBVIOUS
  <2>3. \A l \in loading \cup {m \in inbox : m.kind \in Loads} : l.of \in Nat /\ l.of <= opened
    BY DEF NotYet, TypeOK
  <2>4. LoadsInv'
    BY <1>1, <2>1, <2>2 DEF LoadsInv
  <2>5. NotYet'
    BY <1>1, <2>1, <2>3 DEF NotYet
  <2> QED
    BY <2>4, <2>5
<1> QED
  BY <1>2, <1>4, <1>5

LEMMA BoxClosesPreserves == ASSUME IInv, BoxCloses PROVE IInv'
<1> USE DEF IInv, BoxCloses, xrefVars, loadVars
<1>1. TypeOK'
  BY DEF TypeOK, Joinable, Opening
<1>2. thread'.at = thread.at /\ thread'.of = thread.of /\ thread'.gen = thread.gen
  BY DEF TypeOK
<1>3. PostedNow' = PostedNow /\ Live' = Live
  BY <1>2 DEF PostedNow, Live
<1>4. XrefsInv'
  BY <1>2, <1>3 DEF XrefsInv, ThreadOfFile, MessagesOfFile, OneOfThem, MapOfFile, Idle, Opening
<1>5. (LoadsInv /\ NotYet)'
  BY DEF LoadsInv, NotYet, Opening
<1> QED
  BY <1>1, <1>4, <1>5

LEMMA OpenEndsPreserves == ASSUME IInv, OpenEnds PROVE IInv'
<1> USE DEF IInv, OpenEnds, Cleared, ClearAfter, StartThread, NextGeneration
<1>1. /\ m_XrefGeneration' = m_XrefGeneration + 2
      /\ thread' = [at |-> "build", of |-> file, gen |-> m_XrefGeneration + 2, cancel |-> FALSE, built |-> FALSE]
  BY DEF TypeOK
<1>2. window /\ file # 0 /\ file \in 1..MaxOpens
  BY MaxOpensIsNat DEF TypeOK, XrefsInv, OneOfThem, Opening
<1>3. PICK started \in {Loads, {"symbols"}} : loading' = loading \cup {NewLoad(k) : k \in started}
  OBVIOUS
<1>4. \A k \in started : NewLoad(k) \in [kind : Loads, gen : Nat, of : 1..MaxOpens]
  BY <1>2, <1>3 DEF NewLoad, TypeOK, Loads
<1>5. TypeOK'
  <2>1. thread' \in [at : Places, of : 0..MaxOpens, gen : Nat, cancel : BOOLEAN, built : BOOLEAN]
    BY <1>1, <1>2 DEF TypeOK, Places
  <2>2. generation' \in [Loads -> Nat] /\ result' \in [Loads -> 0..MaxOpens]
    <3>1. 0 \in 0..MaxOpens /\ result \in [Loads -> 0..MaxOpens] /\ \A k \in Loads : generation[k] + 1 \in Nat
      BY MaxOpensIsNat DEF TypeOK
    <3> QED
      BY <3>1
  <2>3. loading' \in SUBSET [kind : Loads, gen : Nat, of : 1..MaxOpens]
    BY <1>3, <1>4 DEF TypeOK
  <2>4. m_Xrefs' \in 0..MaxOpens /\ m_XrefGeneration' \in Nat
    BY <1>1, MaxOpensIsNat DEF TypeOK
  <2> QED
    BY <2>1, <2>2, <2>3, <2>4 DEF TypeOK
<1>6. PostedNow' = {}
  BY <1>1 DEF PostedNow, XrefsInv, MessagesOfFile, TypeOK
<1>7. XrefsInv'
  <2>1. MessagesOfFile'
    BY <1>1 DEF XrefsInv, MessagesOfFile, TypeOK
  <2>2. ThreadOfFile'
    BY <1>1, <1>2 DEF ThreadOfFile
  <2>3. MapOfFile'
    BY DEF MapOfFile
  <2>4. OneOfThem'
    BY <1>1, <1>2, <1>6 DEF OneOfThem, Live, Idle, Opening
  <2> QED
    BY <2>1, <2>2, <2>3, <2>4 DEF XrefsInv
<1>8. (LoadsInv /\ NotYet)'
  <2>1. \A l \in loading' : l.gen <= generation'[l.kind] /\ (l.gen = generation'[l.kind] => l.of = file')
    BY <1>2, <1>3, <1>4 DEF LoadsInv, NotYet, NewLoad, TypeOK
  <2>2. \A m \in inbox : m.kind \in Loads => m.gen < generation'[m.kind]
    BY DEF LoadsInv, NotYet, TypeOK
  <2>3. result'["catalog"] = 0 /\ result'["symbols"] = result["symbols"]
    BY DEF TypeOK, Loads
  <2>4. LoadsInv'
    BY <1>2, <2>1, <2>2, <2>3 DEF LoadsInv, TypeOK, Opening
  <2>5. \A l \in loading' : l.of <= opened
    BY <1>2, <1>3, <1>4 DEF NotYet, LoadsInv, NewLoad, TypeOK
  <2>6. NotYet'
    BY <2>5 DEF NotYet, Opening
  <2> QED
    BY <2>4, <2>6
<1> QED
  BY <1>5, <1>7, <1>8

\* The file is closed, and its generations end or not.
LEMMA ClosedPreserves == ASSUME IInv, OpenFails \/ CloseEnds PROVE IInv'
<1> USE DEF IInv, Cleared, ClearAfter, NextGeneration
<1>1. /\ frame' = "loop" /\ file' = 0 /\ m_Xrefs' = 0 /\ m_XrefsReady' = FALSE /\ m_AfterXrefs' = {}
      /\ m_XrefGeneration' = m_XrefGeneration + 1 /\ thread' = NoThread
      /\ boxed' = FALSE /\ UNCHANGED <<window, opened, loading, inbox>>
  BY DEF OpenFails, CloseEnds, loadVars
<1>2. TypeOK'
  <2>1. generation' \in [Loads -> Nat] /\ result' \in [Loads -> 0..MaxOpens]
    BY MaxOpensIsNat DEF TypeOK, OpenFails, CloseEnds, loadVars
  <2>2. thread' \in [at : Places, of : 0..MaxOpens, gen : Nat, cancel : BOOLEAN, built : BOOLEAN]
    BY <1>1, MaxOpensIsNat DEF NoThread, Places
  <2>3. file' \in 0..MaxOpens /\ m_Xrefs' \in 0..MaxOpens /\ m_XrefGeneration' \in Nat
    BY <1>1, MaxOpensIsNat DEF TypeOK
  <2> QED
    BY <1>1, <2>1, <2>2, <2>3 DEF TypeOK
<1>3. PostedNow' = {}
  BY <1>1 DEF PostedNow, XrefsInv, MessagesOfFile, TypeOK
<1>4. XrefsInv'
  BY <1>1, <1>3 DEF XrefsInv, ThreadOfFile, MessagesOfFile, OneOfThem, MapOfFile, Live, NoThread, Opening, TypeOK
<1>5. (LoadsInv /\ NotYet)'
  <2>1. \A k \in Loads : generation[k] \in Nat /\ generation'[k] \in Nat /\ generation[k] <= generation'[k]
    BY DEF TypeOK, OpenFails, CloseEnds, loadVars
  <2>2. \A l \in loading : l.gen <= generation'[l.kind]
    BY <2>1 DEF LoadsInv, NotYet, TypeOK
  <2>3. \A m \in inbox : m.kind \in Loads => m.gen <= generation'[m.kind]
    BY <1>2, <2>1 DEF LoadsInv, NotYet, TypeOK
  <2> QED
    BY <1>1, <2>2, <2>3 DEF LoadsInv, NotYet, TypeOK, Opening
<1> QED
  BY <1>2, <1>4, <1>5

LEMMA DestroyEndsPreserves == ASSUME IInv, DestroyEnds PROVE IInv'
<1> USE DEF IInv, DestroyEnds, Cleared, ClearAfter, NextGeneration
<1>1. TypeOK'
  <2>1. thread' \in [at : Places, of : 0..MaxOpens, gen : Nat, cancel : BOOLEAN, built : BOOLEAN]
    BY MaxOpensIsNat DEF NoThread, Places
  <2>2. m_Xrefs' \in 0..MaxOpens /\ m_XrefGeneration' \in Nat
    BY MaxOpensIsNat DEF TypeOK
  <2> QED
    BY <2>1, <2>2 DEF TypeOK, loadVars
<1>2. PostedNow' = {}
  BY DEF PostedNow
<1>3. XrefsInv'
  BY <1>2 DEF XrefsInv, ThreadOfFile, MessagesOfFile, OneOfThem, MapOfFile, Live, NoThread, Idle, Opening
<1>4. (LoadsInv /\ NotYet)'
  BY DEF LoadsInv, NotYet, Opening, loadVars
<1> QED
  BY <1>1, <1>3, <1>4

LEMMA WithXrefsPreserves == ASSUME IInv, WithXrefs PROVE IInv'
<1> USE DEF IInv, WithXrefs, MayAsk, loadVars
<1>1. ~MustStart
  BY DEF XrefsInv, OneOfThem, MustStart, Joinable, Live
<1>2. m_AfterXrefs' = m_AfterXrefs \cup {file} /\ UNCHANGED <<thread, m_XrefGeneration>>
  BY <1>1
<1>3. TypeOK'
  BY <1>2 DEF TypeOK
<1>4. PostedNow' = PostedNow /\ Live' = Live
  BY <1>2 DEF PostedNow, Live
<1>5. XrefsInv'
  BY <1>2, <1>4 DEF XrefsInv, ThreadOfFile, MessagesOfFile, OneOfThem, MapOfFile, Idle
<1>6. (LoadsInv /\ NotYet)'
  BY DEF LoadsInv, NotYet
<1> QED
  BY <1>3, <1>5, <1>6

LEMMA ThreadEndsPreserves == ASSUME IInv, BuildEnds \/ CheckCancel PROVE IInv'
<1> USE DEF IInv, xrefVars, loadVars
<1>1. UNCHANGED <<window, frame, file, opened, boxed, xrefVars, loadVars, loading, inbox>>
  BY DEF BuildEnds, CheckCancel
<1>2. thread' \in [at : Places, of : 0..MaxOpens, gen : Nat, cancel : BOOLEAN, built : BOOLEAN]
  BY DEF TypeOK, BuildEnds, CheckCancel, Places
<1>3. TypeOK'
  BY <1>1, <1>2 DEF TypeOK
<1>4. /\ thread'.of = thread.of /\ thread'.gen = thread.gen /\ thread'.cancel = thread.cancel
      /\ Live /\ (Live' \/ thread.cancel)
  BY DEF TypeOK, BuildEnds, CheckCancel, Live
<1>5. PostedNow' = PostedNow
  BY <1>1 DEF PostedNow
<1>6. XrefsInv'
  BY <1>1, <1>4, <1>5 DEF XrefsInv, ThreadOfFile, MessagesOfFile, OneOfThem, MapOfFile, Idle
<1>7. (LoadsInv /\ NotYet)'
  BY <1>1 DEF LoadsInv, NotYet
<1> QED
  BY <1>3, <1>6, <1>7

LEMMA PostXrefsPreserves == ASSUME IInv, PostXrefs PROVE IInv'
<1> USE DEF IInv, PostXrefs, xrefVars, loadVars
<1> DEFINE m == [kind |-> "xrefs", gen |-> thread.gen, of |-> IF thread.built THEN thread.of ELSE 0]
<1>1. Live /\ thread.of = file /\ file # 0 /\ thread.gen = m_XrefGeneration
  BY DEF XrefsInv, ThreadOfFile, Live
<1>2. inbox' = inbox \cup {m} /\ m \in [kind : Kinds, gen : Nat, of : 0..MaxOpens] /\ m.of \in {0, file}
  <2>1. (IF thread.built THEN thread.of ELSE 0) \in 0..MaxOpens /\ thread.gen \in Nat
    BY MaxOpensIsNat DEF TypeOK
  <2>2. (IF thread.built THEN thread.of ELSE 0) \in {0, file}
    BY <1>1
  <2> QED
    BY <2>1, <2>2 DEF Kinds
<1>3. /\ thread' \in [at : Places, of : 0..MaxOpens, gen : Nat, cancel : BOOLEAN, built : BOOLEAN]
      /\ thread'.at = "ended" /\ thread'.cancel = thread.cancel
  BY DEF TypeOK, Places
<1>4. TypeOK'
  BY <1>2, <1>3 DEF TypeOK
<1>5. PostedNow' = {m}
  BY <1>1, <1>2 DEF PostedNow, XrefsInv, OneOfThem
<1>6. XrefsInv'
  <2>1. MessagesOfFile'
    BY <1>1, <1>2 DEF XrefsInv, MessagesOfFile, TypeOK
  <2>2. ThreadOfFile' /\ MapOfFile'
    BY <1>3 DEF XrefsInv, ThreadOfFile, MapOfFile, Live
  <2>3. OneOfThem'
    BY <1>1, <1>3, <1>5 DEF XrefsInv, OneOfThem, Live, Idle
  <2> QED
    BY <2>1, <2>2, <2>3 DEF XrefsInv
<1>7. (LoadsInv /\ NotYet)'
  <2>1. m.kind \notin Loads
    BY DEF Loads
  <2> HIDE DEF m
  <2> QED
    BY <1>2, <2>1 DEF LoadsInv, NotYet
<1> QED
  BY <1>4, <1>6, <1>7

LEMMA OnXrefsBuiltPreserves == ASSUME IInv, NEW m \in inbox, OnXrefsBuilt(m) PROVE IInv'
<1> USE DEF IInv, OnXrefsBuilt, loadVars
<1>1. CASE XrefsTaken(m)
  <2>1. /\ thread' = NoThread /\ m_Xrefs' = m.of /\ m_XrefsReady' = TRUE /\ m_AfterXrefs' = {}
        /\ m \in PostedNow /\ m.of \in {0, file} /\ file # 0 /\ m.of \in 0..MaxOpens
    BY <1>1 DEF XrefsTaken, RunActions, PostedNow, XrefsInv, MessagesOfFile, OneOfThem, TypeOK
  <2>2. thread' \in [at : Places, of : 0..MaxOpens, gen : Nat, cancel : BOOLEAN, built : BOOLEAN]
    BY <2>1, MaxOpensIsNat DEF NoThread, Places
  <2>3. TypeOK'
    BY <2>1, <2>2 DEF TypeOK
  <2>4. PostedNow' = {}
    BY <2>1 DEF PostedNow, XrefsInv, OneOfThem
  <2>5. XrefsInv'
    BY <2>1, <2>4 DEF XrefsInv, ThreadOfFile, MessagesOfFile, OneOfThem, MapOfFile, Live, NoThread, Idle
  <2>6. (LoadsInv /\ NotYet)'
    BY DEF LoadsInv, NotYet
  <2> QED
    BY <2>3, <2>5, <2>6
<1>2. CASE ~XrefsTaken(m)
  <2>1. UNCHANGED <<thread, m_Xrefs, m_XrefsReady, m_AfterXrefs>> /\ m \notin PostedNow
    BY <1>2 DEF XrefsTaken, PostedNow
  <2>2. PostedNow' = PostedNow /\ Live' = Live
    BY <2>1 DEF PostedNow, Live
  <2>3. TypeOK'
    BY <2>1 DEF TypeOK
  <2>4. XrefsInv'
    BY <2>1, <2>2 DEF XrefsInv, ThreadOfFile, MessagesOfFile, OneOfThem, MapOfFile, Idle
  <2>5. (LoadsInv /\ NotYet)'
    BY DEF LoadsInv, NotYet
  <2> QED
    BY <2>3, <2>4, <2>5
<1> QED
  BY <1>1, <1>2

LEMMA LoadEndsPreserves == ASSUME IInv, NEW l \in loading, LoadEnds(l) PROVE IInv'
<1> USE DEF IInv, LoadEnds, xrefVars, loadVars
<1>1. l \in [kind : Kinds, gen : Nat, of : 0..MaxOpens] /\ l.kind \in Loads /\ l.kind # "xrefs"
  BY MaxOpensIsNat DEF TypeOK, Kinds, Loads
<1>2. inbox' \subseteq inbox \cup {l} /\ inbox \subseteq inbox'
  OBVIOUS
<1>3. TypeOK'
  BY <1>1, <1>2 DEF TypeOK
<1>4. PostedNow' = PostedNow /\ Live' = Live
  BY <1>1, <1>2 DEF PostedNow, Live
<1>5. XrefsInv'
  BY <1>1, <1>2, <1>4 DEF XrefsInv, ThreadOfFile, MessagesOfFile, OneOfThem, MapOfFile, Idle
<1>6. (LoadsInv /\ NotYet)'
  BY <1>1, <1>2 DEF LoadsInv, NotYet
<1> QED
  BY <1>3, <1>5, <1>6

LEMMA ThreadStarts ==
  ASSUME m_XrefGeneration \in Nat, StartThread(file, m_XrefGeneration)
  PROVE  /\ m_XrefGeneration' = m_XrefGeneration + 2
         /\ thread' = [at |-> "build", of |-> file, gen |-> m_XrefGeneration + 2, cancel |-> FALSE, built |-> FALSE]
<1>1. NextGeneration(m_XrefGeneration) + 1 = m_XrefGeneration + 2
  BY DEF NextGeneration
<1>2. QED
  BY <1>1 DEF StartThread

LEMMA OnLoadedPreserves == ASSUME IInv, NEW m \in inbox, OnLoaded(m) PROVE IInv'
<1> USE DEF IInv, OnLoaded, ViewsAsk
<1>1. m \in [kind : Kinds, gen : Nat, of : 0..MaxOpens] /\ m.kind \in Loads /\ m.kind # "xrefs"
  BY DEF TypeOK, Loads
<1>2. LoadTaken(m) /\ frame \notin Opening => m.of = file
  BY <1>1 DEF LoadTaken, LoadsInv, NotYet
<1>3. result' = (IF LoadTaken(m) THEN [result EXCEPT ![m.kind] = m.of] ELSE result) /\ result' \in [Loads -> 0..MaxOpens]
  BY <1>1 DEF TypeOK
<1>4. (LoadsInv /\ NotYet)'
  BY <1>1, <1>2, <1>3 DEF LoadsInv, NotYet, TypeOK, Dispatches, Opening
<1>5. CASE UNCHANGED <<thread, m_XrefGeneration>>
  <2>1. TypeOK'
    BY <1>3, <1>5 DEF TypeOK
  <2>2. PostedNow' = PostedNow /\ Live' = Live
    BY <1>1, <1>5 DEF PostedNow, Live
  <2>3. XrefsInv'
    BY <1>5, <2>2 DEF XrefsInv, ThreadOfFile, MessagesOfFile, OneOfThem, MapOfFile, Idle
  <2> QED
    BY <1>4, <2>1, <2>3
<1>6. CASE MustStart /\ StartThread(file, m_XrefGeneration) /\ LoadTaken(m)
  <2>1. /\ m_XrefGeneration' = m_XrefGeneration + 2
        /\ thread' = [at |-> "build", of |-> file, gen |-> m_XrefGeneration + 2, cancel |-> FALSE, built |-> FALSE]
    BY <1>6, ThreadStarts DEF TypeOK
  <2>1a. file # 0 /\ window /\ ~m_XrefsReady
    BY <1>6 DEF MustStart, LoadTaken, Dispatches
  <2>2. thread' \in [at : Places, of : 0..MaxOpens, gen : Nat, cancel : BOOLEAN, built : BOOLEAN]
    BY <2>1 DEF TypeOK, Places
  <2>3. TypeOK'
    BY <1>3, <2>1, <2>2 DEF TypeOK
  <2>4. PostedNow' = {}
    BY <2>1 DEF PostedNow, XrefsInv, MessagesOfFile, TypeOK
  <2>5. XrefsInv'
    BY <2>1, <2>1a, <2>4 DEF XrefsInv, ThreadOfFile, MessagesOfFile, OneOfThem, MapOfFile, Live, Idle, Opening, TypeOK
  <2> QED
    BY <1>4, <2>3, <2>5
<1> QED
  BY <1>5, <1>6

LEMMA StutterPreserves == ASSUME IInv, UNCHANGED vars PROVE IInv'
BY DEF IInv, vars, xrefVars, loadVars, TypeOK, XrefsInv, ThreadOfFile, MessagesOfFile, OneOfThem, MapOfFile,
       LoadsInv, NotYet, Live, PostedNow, Idle

LEMMA StepPreserves == IInv /\ [Next]_vars => IInv'
<1> SUFFICES ASSUME IInv, [Next]_vars PROVE IInv'
  OBVIOUS
<1>1. CASE \E h \in Handlers : CancelBegin(h)
  BY <1>1, CancelBeginPreserves
<1>2. CASE HandlerEnds
  BY <1>2, OpenReadsPreserves, OpenEndsPreserves, ClosedPreserves, DestroyEndsPreserves DEF HandlerEnds
<1>3. CASE WithXrefs \/ BoxCloses
  BY <1>3, WithXrefsPreserves, BoxClosesPreserves
<1>4. CASE Dispatch
  BY <1>4, OnXrefsBuiltPreserves, OnLoadedPreserves DEF Dispatch
<1>5. CASE ThreadStep
  BY <1>5, ThreadEndsPreserves, PostXrefsPreserves DEF ThreadStep
<1>6. CASE \E l \in loading : LoadEnds(l)
  BY <1>6, LoadEndsPreserves
<1>7. CASE Waits \/ UNCHANGED vars
  BY <1>7, StutterPreserves DEF Waits
<1> QED
  BY <1>1, <1>2, <1>3, <1>4, <1>5, <1>6, <1>7 DEF Next

\* The invariant the theorems below rest on.
THEOREM Invariance == Spec => []IInv
  BY InitEstablishes, StepPreserves, PTL DEF Spec

-----------------------------------------------------------------------------
\* Every variable keeps its type.
THEOREM TypeCorrect == Spec => []TypeOK
<1>1. IInv => TypeOK
  BY DEF IInv
<1> QED
  BY <1>1, Invariance, PTL

\* m_PE is not closed or replaced under the thread that reads it.
THEOREM ReadsOpenFile == Spec => []ThreadReadsOpenFile
<1>1. IInv => ThreadReadsOpenFile
  BY DEF IInv, XrefsInv, ThreadOfFile, Live, ThreadReadsOpenFile
<1> QED
  BY <1>1, Invariance, PTL

\* No result of a file that was closed is shown for the file that is open (but for symbols taken
\* in the message box of a file whose names cannot be read).
THEOREM ResultsOfOpenFile == Spec => []ResultsAreOfOpenFile
<1>1. IInv => ResultsAreOfOpenFile
  BY DEF IInv, XrefsInv, MapOfFile, LoadsInv, NotYet, ResultsAreOfOpenFile
<1> QED
  BY <1>1, Invariance, PTL

\* No action is run for another file than it was asked of.
THEOREM AsksOfOpenFile == Spec => []AsksAreOfOpenFile
<1>1. IInv => AsksAreOfOpenFile
  BY DEF IInv, XrefsInv, MapOfFile, AsksAreOfOpenFile
<1> QED
  BY <1>1, Invariance, PTL

\* Both.
THEOREM EverythingOfOpenFile == Spec => []AllOfOpenFile
  BY ResultsOfOpenFile, AsksOfOpenFile, PTL DEF AllOfOpenFile

\* The cross-references of a file come once.
THEOREM ComeOnce == Spec => []XrefsComeOnce
<1>1. IInv => XrefsComeOnce
  <2> SUFFICES ASSUME IInv, Idle
               PROVE OnTheirWay + Cardinality(PostedNow) = IF file # 0 /\ ~m_XrefsReady THEN 1 ELSE 0
    BY DEF XrefsComeOnce
  <2>1. OnTheirWay = IF Live THEN 1 ELSE 0
    BY DEF IInv, XrefsInv, OneOfThem, ThreadOfFile, OnTheirWay, Live, Idle
  <2>2. CASE PostedNow = {}
    <3>1. Cardinality(PostedNow) = 0
      BY <2>2, FS_EmptySet
    <3>2. Live <=> file # 0 /\ ~m_XrefsReady
      BY <2>2 DEF IInv, XrefsInv, OneOfThem, ThreadOfFile
    <3> QED
      BY <2>1, <3>1, <3>2
  <2>3. CASE PostedNow # {}
    <3>1. PICK m : PostedNow = {m}
      BY <2>3 DEF IInv, XrefsInv, OneOfThem
    <3>2. Cardinality(PostedNow) = 1
      BY <3>1, FS_Singleton
    <3>3. ~Live /\ file # 0 /\ ~m_XrefsReady
      BY <2>3 DEF IInv, XrefsInv, OneOfThem, Live
    <3> QED
      BY <2>1, <3>2, <3>3
  <2> QED
    BY <2>2, <2>3
<1> QED
  BY <1>1, Invariance, PTL

-----------------------------------------------------------------------------
\* OpenFile implements FileResults: what was found stays until the file is closed, and goes with it.
THEOREM RefinesFileResults == Spec => ImplementsFileResults
<1>1. Init => Results!ResultsInit
  BY DEF Init, Results!ResultsInit, Shown, Found
<1>2. IInv /\ IInv' /\ [Next]_vars => [Results!ResultsNext]_<<Shown, Found>>
  <2> SUFFICES ASSUME IInv, IInv', [Next]_vars PROVE [Results!ResultsNext]_<<Shown, Found>>
    OBVIOUS
  <2> USE DEF Results!ResultsNext
  <2>1. ASSUME UNCHANGED <<window, frame, file, m_Xrefs, result>> PROVE UNCHANGED <<Shown, Found>>
    BY <2>1 DEF Shown, Found
  <2>2. ASSUME NEW h \in Handlers, CancelBegin(h) PROVE UNCHANGED <<Shown, Found>>
    BY <2>2 DEF CancelBegin, FileUntilJoined, xrefVars, loadVars, Idle, Handlers, Opening, Shown, Found
  <2>3. ASSUME OpenReads PROVE Results!Close
    BY <2>3 DEF OpenReads, Shown, Found, Results!Close
  <2>3a. ASSUME BoxCloses PROVE UNCHANGED <<Shown, Found>>
    BY <2>3a DEF BoxCloses, xrefVars, loadVars, Shown, Found, Opening
  <2>3b. ASSUME OpenEnds PROVE Results!Open
    <3>1. Shown = 0 /\ Shown' = file /\ file \in Nat /\ file # 0
      BY <2>3b DEF OpenEnds, Shown, Opening, IInv, TypeOK, XrefsInv, OneOfThem
    <3>2. m_Xrefs' = 0 /\ result'["symbols"] # file /\ result'["catalog"] = 0
      BY <2>3b DEF OpenEnds, Cleared, Opening, IInv, NotYet, TypeOK, Loads
    <3>3. Found' = {}
      BY <3>1, <3>2 DEF Found, Kinds, Loads
    <3> QED
      BY <3>1, <3>3 DEF Results!Open
  <2>4. ASSUME OpenFails \/ CloseEnds \/ DestroyEnds PROVE Results!Close
    BY <2>4 DEF OpenFails, CloseEnds, DestroyEnds, Shown, Found, Results!Close
  <2>5. ASSUME WithXrefs \/ ThreadStep \/ Waits \/ UNCHANGED vars PROVE UNCHANGED <<Shown, Found>>
    BY <2>1, <2>5 DEF WithXrefs, ThreadStep, BuildEnds, CheckCancel, PostXrefs, Waits, vars, xrefVars, loadVars
  <2>6. ASSUME NEW m \in inbox, OnXrefsBuilt(m) PROVE Results!Find \/ UNCHANGED <<Shown, Found>>
    <3>1. CASE XrefsTaken(m) /\ frame = "loop"
      <4>1. m_Xrefs = 0 /\ m_Xrefs' = m.of /\ m.of \in {0, file} /\ file # 0 /\ Shown = file /\ Shown' = file
        BY <2>6, <3>1 DEF OnXrefsBuilt, XrefsTaken, IInv, XrefsInv, OneOfThem, MessagesOfFile, PostedNow, Dispatches, Opening, Shown
      <4>2. Found' = Found \cup (IF m.of = 0 THEN {} ELSE {"xrefs"}) /\ "xrefs" \notin Found
        BY <2>6, <4>1 DEF OnXrefsBuilt, loadVars, Found, Kinds, Loads
      <4> QED
        BY <4>1, <4>2 DEF Results!Find, Kinds
    <3>2. CASE frame = "box"
      BY <2>6, <3>2 DEF OnXrefsBuilt, Shown, Found, Opening
    <3>3. CASE ~XrefsTaken(m)
      BY <2>1, <2>6, <3>3 DEF OnXrefsBuilt, loadVars
    <3> QED
      BY <2>6, <3>1, <3>2, <3>3 DEF OnXrefsBuilt, Dispatches
  <2>7. ASSUME NEW l \in loading, LoadEnds(l) PROVE UNCHANGED <<Shown, Found>>
    BY <2>1, <2>7 DEF LoadEnds, xrefVars, loadVars
  <2>8. ASSUME NEW m \in inbox, OnLoaded(m) PROVE Results!Find \/ UNCHANGED <<Shown, Found>>
    <3>1. CASE LoadTaken(m) /\ frame = "loop"
      <4>1. /\ result' = [result EXCEPT ![m.kind] = file] /\ file # 0 /\ m.kind \in Loads
            /\ Shown = file /\ Shown' = file /\ UNCHANGED m_Xrefs
        BY <2>8, <3>1 DEF OnLoaded, LoadTaken, IInv, LoadsInv, Dispatches, Opening, Shown
      <4>2. Found' = Found \cup {m.kind} /\ m.kind \in Kinds
        BY <4>1 DEF Found, Kinds, Loads, IInv, TypeOK
      <4> QED
        BY <4>1, <4>2 DEF Results!Find
    <3>2. CASE frame = "box"
      BY <2>8, <3>2 DEF OnLoaded, Shown, Found, Opening
    <3>3. CASE ~LoadTaken(m)
      BY <2>1, <2>8, <3>3 DEF OnLoaded
    <3> QED
      BY <2>8, <3>1, <3>2, <3>3 DEF OnLoaded, Dispatches
  <2>9. CASE \E h \in Handlers : CancelBegin(h)
    BY <2>2, <2>9
  <2>10. CASE HandlerEnds
    BY <2>3, <2>3b, <2>4, <2>10 DEF HandlerEnds
  <2>11. CASE Dispatch
    BY <2>6, <2>8, <2>11 DEF Dispatch
  <2>12. CASE \E l \in loading : LoadEnds(l)
    BY <2>7, <2>12
  <2> QED
    BY <2>3a, <2>5, <2>9, <2>10, <2>11, <2>12 DEF Next
<1> QED
  BY <1>1, <1>2, Invariance, PTL DEF Spec, ImplementsFileResults, Results!ResultsSpec
=============================================================================
