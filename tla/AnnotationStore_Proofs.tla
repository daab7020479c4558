----------------------- MODULE AnnotationStore_Proofs -----------------------
(***************************************************************************)
(* Proofs about AnnotationStore, for any windows, any annotations and any   *)
(* number of changes.  The argument: while nothing is spoiled one window at *)
(* most has the new file, and when it is moved it is what that window has.  *)
(***************************************************************************)
EXTENDS AnnotationStore, TLAPS

LEMMA TypeStarts == Init => TypeOK
<1> SUFFICES ASSUME Init
             PROVE  TypeOK
  OBVIOUS
<1> USE DEF Init
<1>1. edits \in 0..MaxEdits
  BY MaxEditsIsNat
<1>2. store \in {NoStore, Cut} \cup SUBSET Items /\ temp \in {NoStore, Cut} \cup SUBSET Items
  OBVIOUS
<1>3. isOpen \in [Windows -> BOOLEAN] /\ told \in [Windows -> BOOLEAN] /\ at \in [Windows -> Places]
  BY DEF Places
<1>4. annotations \in [Windows -> SUBSET Items] /\ removed \in [Windows -> SUBSET Items]
  OBVIOUS
<1> QED
  BY <1>1, <1>2, <1>3, <1>4 DEF TypeOK

LEMMA TypeStep == TypeOK /\ [Next]_vars => TypeOK'
<1> SUFFICES ASSUME TypeOK, [Next]_vars
             PROVE  TypeOK'
  OBVIOUS
<1> USE DEF TypeOK, Places, Has, Returns, StoreIsOf, InFile
<1>1. ASSUME NEW w \in Windows, LoadNothing(w)
      PROVE  TypeOK'
  BY <1>1 DEF LoadNothing, fileVars
<1>2. ASSUME NEW w \in Windows, Load(w)
      PROVE  TypeOK'
  <2>1. Loaded \in SUBSET Items
    BY <1>2 DEF Load, Loaded
  <2> QED
    BY <1>2, <2>1 DEF Load, fileVars
<1>3. ASSUME NEW w \in Windows, LoadFails(w)
      PROVE  TypeOK'
  BY <1>3 DEF LoadFails, fileVars
<1>4. ASSUME NEW w \in Windows, Close(w)
      PROVE  TypeOK'
  BY <1>4 DEF Close, fileVars
<1>5. ASSUME NEW w \in Windows, Crash(w)
      PROVE  TypeOK'
  BY <1>5 DEF Crash
<1>6. ASSUME NEW w \in Windows, NEW i \in Items, Add(w, i)
      PROVE  TypeOK'
  BY <1>6, MaxEditsIsNat DEF Add, fileVars
<1>7. ASSUME NEW w \in Windows, NEW i \in Items, TakeAway(w, i)
      PROVE  TypeOK'
  BY <1>7, MaxEditsIsNat DEF TakeAway, fileVars
<1>8. ASSUME NEW w \in Windows, Delete(w) \/ DeleteFails(w) \/ OpenTempFails(w)
      PROVE  TypeOK'
  BY <1>8 DEF Delete, DeleteFails, OpenTempFails, fileVars, seen
<1>9. ASSUME NEW w \in Windows, OpenTemp(w)
      PROVE  TypeOK'
  BY <1>9 DEF OpenTemp
<1>10. ASSUME NEW w \in Windows, Write(w)
       PROVE  TypeOK'
  BY <1>10 DEF Write, Written, seen
<1>11. ASSUME NEW w \in Windows, WriteFails(w) \/ CloseFails(w)
       PROVE  TypeOK'
  BY <1>11 DEF WriteFails, SeesError, CloseFails, seen
<1>12. ASSUME NEW w \in Windows, Move(w)
       PROVE  TypeOK'
  BY <1>12 DEF Move
<1>13. ASSUME NEW w \in Windows, CannotMove(w)
       PROVE  TypeOK'
  BY <1>13 DEF CannotMove, MoveFails, fileVars
<1>14. CASE UNCHANGED vars
  BY <1>14 DEF vars, fileVars, windowVars, seen
<1> QED
  BY <1>1, <1>2, <1>3, <1>4, <1>5, <1>6, <1>7, <1>8, <1>9, <1>10, <1>11, <1>12, <1>13, <1>14
  DEF Next, Save

\* Everything in the specification has its type, in every state.
THEOREM TypeCorrect == Spec => []TypeOK
  BY TypeStarts, TypeStep, PTL DEF Spec

-----------------------------------------------------------------------------
\* The new file is of the one window that is writing it: empty until it is written, then what
\* that window has, which is something.
FileIsOfOne ==
  \A v, w \in Windows : InFile(v) /\ InFile(w) => v = w

FileIsWhole ==
  \A w \in Windows :
    /\ at[w] # "idle" => isOpen[w]
    /\ InFile(w) => annotations[w] # {}
    /\ at[w] = "write" => temp = {}
    /\ at[w] = "move" => temp = annotations[w]

\* A window that is not stale has all that the store has, but what was taken away in it
FreshHasAll ==
  \A w \in Windows : isOpen[w] /\ w \notin stale => Loaded \subseteq annotations[w] \cup removed[w]

Sound == FileIsOfOne /\ FileIsWhole /\ store # Cut /\ FreshHasAll
IInv == TypeOK /\ (~Spoiled => Sound /\ SavedIsKept)

LEMMA Starts == Init => IInv
<1> SUFFICES ASSUME Init
             PROVE  IInv
  OBVIOUS
<1>1. TypeOK
  BY TypeStarts
<1>2. FileIsOfOne /\ FileIsWhole
  BY DEF Init, FileIsOfOne, FileIsWhole, InFile
<1>3. store # Cut
  BY FilesAreDistinct DEF Init
<1>4. FreshHasAll /\ SavedIsKept
  BY DEF Init, FreshHasAll, SavedIsKept
<1> QED
  BY <1>1, <1>2, <1>3, <1>4 DEF IInv, Sound

\* Once spoiled, always spoiled.
LEMMA SpoiledStays == ASSUME TypeOK, [Next]_vars, ~Spoiled'
                      PROVE  ~Spoiled
  BY DEF Spoiled, Next, Save, vars, fileVars, seen, windowVars, LoadNothing, Load, LoadFails, Close, Crash, Add, TakeAway,
     Delete, DeleteFails, OpenTemp, OpenTempFails, Write, WriteFails, CloseFails, Move, CannotMove

\* What is moved into the store's place is what its window has.
LEMMA MovesAll == ASSUME Sound, NEW w \in Windows, Move(w)
                  PROVE  store' = annotations[w] /\ annotations[w] # {}
<1>1. at[w] = "move" /\ InFile(w)
  BY DEF Move, InFile
<1>2. temp = annotations[w] /\ temp # {}
  BY <1>1 DEF Sound, FileIsWhole
<1>3. store' = IF temp = {} THEN Cut ELSE temp
  BY DEF Move
<1> QED
  BY <1>2, <1>3

LEMMA Keeps == IInv /\ [Next]_vars => IInv'
<1> SUFFICES ASSUME IInv, [Next]_vars, ~Spoiled'
             PROVE  (Sound /\ SavedIsKept)'
  BY TypeStep DEF IInv
<1>0. TypeOK /\ TypeOK' /\ ~Spoiled /\ Sound /\ SavedIsKept
  BY SpoiledStays, TypeStep DEF IInv
<1> USE <1>0 DEF Sound, FileIsOfOne, FileIsWhole, FreshHasAll, SavedIsKept, InFile, Loaded
<1>1. ASSUME NEW w \in Windows,
             LoadNothing(w) \/ LoadFails(w) \/ Close(w)
      PROVE  (Sound /\ SavedIsKept)'
  BY <1>1 DEF TypeOK, Places, LoadNothing, LoadFails, Close, Has, fileVars
<1>2. ASSUME NEW w \in Windows, Load(w)
      PROVE  (Sound /\ SavedIsKept)'
  BY <1>2 DEF TypeOK, Places, Load, Has, fileVars
<1>3. ASSUME NEW w \in Windows, Crash(w)
      PROVE  (Sound /\ SavedIsKept)'
  BY <1>3 DEF TypeOK, Places, Crash, Has
<1>4. ASSUME NEW w \in Windows, NEW i \in Items, Add(w, i) \/ TakeAway(w, i)
      PROVE  (Sound /\ SavedIsKept)'
  BY <1>4 DEF TypeOK, Places, Add, TakeAway, fileVars
<1>5. ASSUME NEW w \in Windows, Delete(w)
      PROVE  (Sound /\ SavedIsKept)'
  BY <1>5, FilesAreDistinct DEF TypeOK, Places, Delete, Empty, StoreIsOf, Returns
<1>6. ASSUME NEW w \in Windows, DeleteFails(w) \/ OpenTempFails(w)
      PROVE  (Sound /\ SavedIsKept)'
  BY <1>6 DEF TypeOK, Places, DeleteFails, OpenTempFails, Empty, Returns, fileVars, seen
<1>7. ASSUME NEW w \in Windows, OpenTemp(w)
      PROVE  (Sound /\ SavedIsKept)'
  <2>1. \A v \in Windows \ {w} : at[v] \notin {"write", "move"}
    BY <1>7 DEF OpenTemp, Spoiled
  <2> QED
    BY <1>7, <2>1 DEF TypeOK, Places, OpenTemp, Empty
<1>8. ASSUME NEW w \in Windows, Write(w)
      PROVE  (Sound /\ SavedIsKept)'
  <2>0. at[w] = "write"
    BY <1>8 DEF Write
  <2>1. temp = {} /\ at[w] = "write"
    BY <2>0
  <2>2. \A v \in Windows \ {w} : at[v] # "write"
    BY <2>1
  <2>3. Written(w) = {annotations[w]}
    BY <2>1, <2>2 DEF Written
  <2>4. temp' = annotations[w]
    BY <1>8, <2>3 DEF Write
  <2> QED
    BY <1>8, <2>4 DEF TypeOK, Places, Write, seen
<1>9. ASSUME NEW w \in Windows, WriteFails(w) \/ CloseFails(w)
      PROVE  (Sound /\ SavedIsKept)'
  BY <1>9 DEF TypeOK, Places, WriteFails, SeesError, CloseFails, Returns, Spoiled, seen
<1>10. ASSUME NEW w \in Windows, Move(w)
       PROVE  (Sound /\ SavedIsKept)'
  <2>1. store' = annotations[w] /\ annotations[w] # {} /\ store' \in SUBSET Items
    BY <1>10, MovesAll DEF TypeOK
  <2> QED
    BY <1>10, <2>1, FilesAreDistinct DEF TypeOK, Places, Move, StoreIsOf, Returns
<1>11. ASSUME NEW w \in Windows, CannotMove(w)
       PROVE  (Sound /\ SavedIsKept)'
  BY <1>11 DEF TypeOK, Places, CannotMove, MoveFails, Returns, fileVars
<1>12. CASE UNCHANGED vars
  BY <1>12 DEF vars, fileVars, windowVars, seen
<1> QED
  BY <1>1, <1>2, <1>3, <1>4, <1>5, <1>6, <1>7, <1>8, <1>9, <1>10, <1>11, <1>12 DEF Next, Save

LEMMA Always == Spec => []IInv
  BY Starts, Keeps, PTL DEF Spec

\* Wherever a process ends in Annotations::Save, and whatever write it sees fail, the store can be
\* read, unless two processes saved at once or an error was met as the file was closed.
THEOREM StoreStaysWhole == Spec => []StoreIsWhole
<1>1. IInv => StoreIsWhole
  BY DEF IInv, Sound, StoreIsWhole
<1> QED
  BY <1>1, Always, PTL

\* What Save returned true for is what the store has, until another window's save.
THEOREM SavedStaysKept == Spec => []SavedIsKept
<1>1. IInv => SavedIsKept
  BY DEF IInv, SavedIsKept
<1> QED
  BY <1>1, Always, PTL

\* A save takes away no name that its window had read and the user did not take away in it.
THEOREM OnlyStaleLoses == Spec => NothingIsLostUnlessStale
<1>1. IInv /\ IInv' /\ [Next]_vars
      => [\A w \in Windows, i \in Items :
            /\ ~Spoiled' /\ store # NoStore /\ at[w] \in {"save", "move"} /\ at'[w] = "idle" /\ isOpen'[w]
            /\ i \in store /\ (store' = NoStore \/ i \notin store')
            => w \in stale \/ i \in removed[w]]_vars
  <2> SUFFICES ASSUME IInv, [Next]_vars, ~Spoiled', store # NoStore,
                      NEW w \in Windows, NEW i \in Items,
                      at[w] \in {"save", "move"}, at'[w] = "idle", isOpen'[w],
                      i \in store, store' = NoStore \/ i \notin store',
                      w \notin stale
               PROVE  i \in removed[w]
    OBVIOUS
  <2>1. TypeOK /\ ~Spoiled /\ Sound
    BY SpoiledStays DEF IInv
  <2>2. store' # store
    BY <2>1 DEF Sound
  <2>3. PICK v \in Windows : Delete(v) \/ Move(v)
    BY <2>2 DEF Next, Save, vars, fileVars, seen, windowVars, LoadNothing, Load, LoadFails, Close, Crash, Add, TakeAway,
       DeleteFails, OpenTemp, OpenTempFails, Write, WriteFails, CloseFails, CannotMove
  <2>4. v = w
    BY <2>3, <2>1 DEF Delete, Move, Returns, TypeOK
  <2>5. i \notin annotations[w] /\ isOpen[w]
    <3>1. CASE Delete(w)
      BY <2>1, <2>3, <2>4, <3>1 DEF Delete, Empty, Returns, TypeOK
    <3>2. CASE Move(w)
      BY <2>1, <3>2, MovesAll, FilesAreDistinct DEF Move, TypeOK
    <3> QED
      BY <2>3, <2>4, <3>1, <3>2
  <2> QED
    BY <2>1, <2>5 DEF Sound, FreshHasAll, Loaded
<1> QED
  BY <1>1, Always, PTL DEF Spec, NothingIsLostUnlessStale

\* Annotations::Save, of many steps that fail or end anywhere, is the one step of KeptNames.
THEOREM Refinement == Spec => ImplementsKeptNames
<1>1. Init => KN!Init
  BY FilesAreDistinct DEF Init, KN!Init, Loaded, Spoiled
<1>2. IInv /\ [Next]_vars => [KN!Next]_KN!vars
  <2> SUFFICES ASSUME IInv, [Next]_vars, ~Spoiled'
               PROVE  KN!Step \/ UNCHANGED KN!vars
    BY SpoiledStays DEF KN!Next, IInv
  <2>0. TypeOK /\ ~Spoiled /\ Sound
    BY SpoiledStays DEF IInv
  <2> USE <2>0 DEF KN!Step, KN!vars, Loaded, TypeOK
  <2>1. ASSUME NEW w \in Windows, LoadNothing(w) \/ LoadFails(w) \/ Close(w) \/ Crash(w)
        PROVE  KN!Leave(w)
    BY <2>1 DEF LoadNothing, LoadFails, Close, Crash, Has, fileVars, KN!Leave
  <2>2. ASSUME NEW w \in Windows, Load(w)
        PROVE  KN!Open(w)
    BY <2>2 DEF Load, Has, fileVars, KN!Open
  <2>3. ASSUME NEW w \in Windows, NEW i \in Items, Add(w, i) \/ TakeAway(w, i)
        PROVE  KN!Change(w)
    <3>1. \E items \in SUBSET Items : annotations' = [annotations EXCEPT ![w] = items]
      <4>1. CASE Add(w, i)
        BY <4>1 DEF Add
      <4>2. CASE TakeAway(w, i)
        BY <4>2 DEF TakeAway
      <4> QED
        BY <4>1, <4>2, <2>3
    <3> QED
      BY <2>3, <3>1 DEF Add, TakeAway, fileVars, KN!Change
  <2>4. ASSUME NEW w \in Windows, Delete(w)
        PROVE  KN!Keep(w)
    BY <2>4 DEF Delete, Empty, KN!Keep
  <2>5. ASSUME NEW w \in Windows, Move(w)
        PROVE  KN!Keep(w)
    <3>1. store' = annotations[w] /\ store' # NoStore
      BY <2>5, FilesAreDistinct, MovesAll
    <3> QED
      BY <2>5, <3>1 DEF Move, KN!Keep
  <2>6. ASSUME NEW w \in Windows,
               DeleteFails(w) \/ OpenTemp(w) \/ OpenTempFails(w) \/ Write(w) \/ WriteFails(w) \/ CloseFails(w) \/ CannotMove(w)
        PROVE  UNCHANGED KN!vars
    BY <2>6 DEF DeleteFails, OpenTemp, OpenTempFails, Write, WriteFails, CloseFails, CannotMove, Spoiled, fileVars, seen
  <2>7. CASE UNCHANGED vars
    BY <2>7 DEF vars, fileVars, windowVars, seen, Spoiled
  <2> QED
    BY <2>1, <2>2, <2>3, <2>4, <2>5, <2>6, <2>7 DEF Next, Save
<1> QED
  BY <1>1, <1>2, Always, PTL DEF Spec, ImplementsKeptNames, KN!Spec
=============================================================================
