---------------------------- MODULE Window_Proofs ----------------------------
(* Proofs about what a user of windows keeps (the parts of MCWindow that     *)
(* AnnotationStore_Proofs is not about): the list of a file's functions, the *)
(* recent files, and the views of a window under Back and Forward.           *)
EXTENDS FunctionsView, RecentFiles, NavigationHistory, Integers, FiniteSetTheorems,
        WellFoundedInduction, TLAPS

-----------------------------------------------------------------------------
(* Lists of which some elements are kept.  Facts about all lists are proved  *)
(* from the least number that contradicts them.                              *)
\* A set of natural numbers that is not empty has a least element.
LEMMA LeastOf ==
  ASSUME NEW T, T \subseteq Nat, T # {}
  PROVE \E n \in T : \A m \in T : n <= m
<1> DEFINE R == {p \in Nat \X Nat : p[1] < p[2]}
<1>1. IsWellFoundedOn(R, Nat)
  BY NatLessThanWellFounded DEF OpToRel
<1>2. PICK n \in T : \A m \in T : <<m, n>> \notin R
  <2> HIDE DEF R
  <2> QED BY <1>1, WFMin
<1>3. \A m \in T : ~(m < n)
  <2> SUFFICES ASSUME NEW m \in T, m < n PROVE FALSE
    OBVIOUS
  <2>1. m \in Nat /\ n \in Nat
    OBVIOUS
  <2>2. <<m, n>> \in R
    BY <2>1
  <2> QED
    BY <1>2, <2>2
<1> QED
  BY <1>3

\* where the elements are that Sublist keeps
KeptAt(s, S) == {i \in 1..Len(s) : s[i] \in S}

\* f goes up.
Increasing(f, n) == \A j, k \in 1..n : j < k => f[j] < f[k]

\* Some of the first numbers can be put in order.
LEMMA InOrder ==
  ASSUME NEW n \in Nat, NEW T \in SUBSET (1..n)
  PROVE \E f \in [1..Cardinality(T) -> T] : Increasing(f, Cardinality(T))
<1> DEFINE Orders(S) == \E f \in [1..Cardinality(S) -> S] : Increasing(f, Cardinality(S))
<1> DEFINE Bad == {m \in Nat : \E S \in SUBSET (1..m) : ~Orders(S)}
<1>1. SUFFICES Bad = {}
  <2>1. n \notin Bad
    BY <1>1
  <2> QED
    BY <2>1
<1>2. SUFFICES ASSUME Bad # {} PROVE FALSE
  OBVIOUS
<1>3. PICK m \in Bad : \A l \in Bad : m <= l
  <2>1. Bad \subseteq Nat
    OBVIOUS
  <2> HIDE DEF Bad
  <2> QED
    BY <1>2, <2>1, LeastOf
<1>4. m \in Nat
  BY <1>3
<1>5. PICK S \in SUBSET (1..m) : ~Orders(S)
  BY <1>3
<1>6. IsFiniteSet(S) /\ Cardinality(S) \in Nat
  <2>1. IsFiniteSet(1..m)
    BY <1>4, FS_Interval
  <2>2. IsFiniteSet(S)
    BY <1>5, <2>1, FS_Subset
  <2> QED
    BY <2>2, FS_CardinalityType
<1>7. S # {}
  <2> SUFFICES ASSUME S = {} PROVE Orders(S)
    BY <1>5
  <2>1. Cardinality(S) = 0
    BY FS_EmptySet
  <2>2. [k \in 1..0 |-> 0] \in [1..0 -> S]
    OBVIOUS
  <2>3. Increasing([k \in 1..0 |-> 0], 0)
    BY DEF Increasing
  <2> QED
    BY <2>1, <2>2, <2>3
<1>8. m # 0 /\ m - 1 \in Nat /\ m - 1 \notin Bad
  <2>1. m # 0
    <3>1. 1..0 = {}
      OBVIOUS
    <3> QED
      BY <1>5, <1>7, <3>1
  <2>2. m - 1 \in Nat /\ m - 1 < m
    BY <1>4, <2>1
  <2> HIDE DEF Bad
  <2>3. m - 1 \notin Bad
    BY <1>3, <1>4, <2>2
  <2> QED
    BY <2>1, <2>2, <2>3
<1>9. CASE m \notin S
  <2>1. S \in SUBSET (1..(m - 1))
    BY <1>4, <1>5, <1>9
  <2> QED
    BY <1>5, <1>8, <2>1
<1>10. CASE m \in S
  <2> DEFINE R == S \ {m}
  <2>1. R \in SUBSET (1..(m - 1))
    BY <1>4, <1>5
  <2>2. Cardinality(R) = Cardinality(S) - 1 /\ Cardinality(R) \in Nat
    <3>1. IsFiniteSet(R) /\ Cardinality(R) = Cardinality(S) - 1
      BY <1>6, <1>10, FS_RemoveElement
    <3> QED
      BY <3>1, FS_CardinalityType
  <2>3. PICK g \in [1..Cardinality(R) -> R] : Increasing(g, Cardinality(R))
    BY <1>8, <2>1
  <2> DEFINE c == Cardinality(S)
             f == [k \in 1..c |-> IF k = c THEN m ELSE g[k]]
  <2>4. Cardinality(R) = c - 1 /\ c \in Nat
    BY <1>6, <2>2
  <2>5. \A k \in 1..c : k # c => k \in 1..Cardinality(R) /\ g[k] \in R
    <3> HIDE DEF R, c
    <3> QED BY <2>3, <2>4
  <2>6. \A k \in 1..c : k # c => g[k] \in S /\ g[k] \in 1..(m - 1)
    BY <2>1, <2>5
  <2>7. f \in [1..c -> S]
    BY <1>10, <2>6
  <2>8. Increasing(f, c)
    <3> SUFFICES ASSUME NEW j \in 1..c, NEW k \in 1..c, j < k PROVE f[j] < f[k]
      BY DEF Increasing
    <3>1. j # c
      BY <2>4
    <3>2. f[j] = g[j] /\ g[j] \in 1..(m - 1)
      BY <2>6, <3>1
    <3>3. CASE k = c
      BY <1>4, <3>2, <3>3
    <3>4. CASE k # c
      <4>1. j \in 1..Cardinality(R) /\ k \in 1..Cardinality(R)
        BY <2>5, <3>1, <3>4
      <4>2. g[j] < g[k]
        BY <2>3, <4>1 DEF Increasing
      <4> QED
        BY <3>2, <3>4, <4>2
    <3> QED
      BY <3>3, <3>4
  <2> QED
    BY <1>5, <2>7, <2>8
<1> QED
  BY <1>9, <1>10

\* An increasing function of numbers has no value twice, and is as large as its argument.
LEMMA IncreasingInjects ==
  ASSUME NEW n \in Nat, NEW f \in [1..n -> Nat], Increasing(f, n),
         NEW j \in 1..n, NEW k \in 1..n
  PROVE /\ f[j] = f[k] => j = k
        /\ f[j] < f[k] <=> j < k
<1>1. f[j] \in Nat /\ f[k] \in Nat
  OBVIOUS
<1>2. (j < k => f[j] < f[k]) /\ (k < j => f[k] < f[j])
  BY DEF Increasing
<1> QED
  BY <1>1, <1>2

\* What is kept, in its order: nothing else, all of it, and no two as one.
LEMMA SublistIs ==
  ASSUME NEW X, NEW s \in Seq(X), NEW S
  PROVE /\ Cardinality(KeptAt(s, S)) \in Nat
        /\ \E f \in [1..Cardinality(KeptAt(s, S)) -> KeptAt(s, S)] :
             /\ Increasing(f, Cardinality(KeptAt(s, S)))
             /\ \A i \in KeptAt(s, S) : \E k \in 1..Cardinality(KeptAt(s, S)) : f[k] = i
             /\ Sublist(s, S) = [k \in 1..Cardinality(KeptAt(s, S)) |-> s[f[k]]]
<1> DEFINE kept == {i \in 1..Len(s) : s[i] \in S}
           c == Cardinality(kept)
           upTo(i) == {j \in kept : j <= i}
<1>1. DOMAIN s = 1..Len(s) /\ Len(s) \in Nat
  OBVIOUS
<1>2. IsFiniteSet(kept) /\ c \in Nat
  <2>1. IsFiniteSet(1..Len(s))
    BY <1>1, FS_Interval
  <2>2. kept \subseteq 1..Len(s)
    OBVIOUS
  <2>3. IsFiniteSet(kept)
    BY <2>1, <2>2, FS_Subset
  <2> QED
    BY <2>3, FS_CardinalityType
<1>3. PICK f \in [1..c -> kept] : Increasing(f, c)
  <2>1. kept \in SUBSET (1..Len(s))
    OBVIOUS
  <2> HIDE DEF kept
  <2> QED
    BY <1>1, <2>1, InOrder
<1>4. kept \subseteq Nat
  BY <1>1
<1>5. Sublist(s, S) = [k \in 1..c |-> s[CHOOSE i \in kept : Cardinality(upTo(i)) = k]]
  BY <1>1 DEF Sublist
<1> HIDE DEF kept, c
<1>6. /\ f \in [1..c -> Nat]
      /\ \A j, k \in 1..c : (f[j] = f[k] => j = k) /\ (f[j] < f[k] <=> j < k)
  <2>1. f \in [1..c -> Nat]
    BY <1>3, <1>4
  <2> QED
    BY <1>2, <1>3, <2>1, IncreasingInjects
<1>7. \A i \in kept : \E k \in 1..c : f[k] = i
  <2>1. f \in Injection(1..c, kept)
    BY <1>3, <1>6 DEF Injection, IsInjective
  <2>2. Cardinality(1..c) = c
    BY <1>2, FS_Interval
  <2>3. f \in Surjection(1..c, kept)
    BY <1>2, <2>1, <2>2, FS_Injection DEF c
  <2> QED
    BY <2>3 DEF Surjection
<1>8. ASSUME NEW k \in 1..c PROVE Cardinality(upTo(f[k])) = k
  <2> DEFINE g == [l \in 1..k |-> f[l]]
             T == upTo(f[k])
  <2>1. k \in Nat /\ \A l \in 1..k : l \in 1..c /\ (l < k \/ l = k)
    BY <1>2
  <2>2. \A l \in 1..k : f[l] \in T
    BY <1>3, <1>6, <2>1
  <2>3. \A j, l \in 1..k : g[j] = g[l] => j = l
    BY <1>6, <2>1
  <2>4. \A i \in T : \E l \in 1..k : g[l] = i
    <3> SUFFICES ASSUME NEW i \in T PROVE \E l \in 1..k : g[l] = i
      OBVIOUS
    <3>1. PICK l \in 1..c : f[l] = i
      BY <1>7
    <3>2. f[l] <= f[k] /\ f[l] \in Nat /\ f[k] \in Nat
      BY <1>6, <3>1
    <3>3. ~(k < l)
      BY <1>6, <3>2
    <3>4. l \in 1..k
      BY <1>2, <3>3
    <3> QED
      BY <3>1, <3>4
  <2>5. g \in Bijection(1..k, T)
    <3> HIDE DEF T
    <3>1. g \in [1..k -> T]
      BY <2>2
    <3>2. g \in Injection(1..k, T)
      BY <2>3, <3>1 DEF Injection, IsInjective
    <3>3. g \in Surjection(1..k, T)
      BY <2>4, <3>1 DEF Surjection
    <3> QED
      BY <3>2, <3>3 DEF Bijection
  <2>6. IsFiniteSet(1..k) /\ Cardinality(1..k) = k
    BY <2>1, FS_Interval
  <2>7. ExistsBijection(1..k, T)
    BY <2>5 DEF ExistsBijection
  <2> QED
    <3> HIDE DEF T
    <3>1. Cardinality(T) = k
      BY <2>6, <2>7, FS_Bijection
    <3> QED
      BY <3>1 DEF T
<1>9. ASSUME NEW k \in 1..c PROVE (CHOOSE i \in kept : Cardinality(upTo(i)) = k) = f[k]
  <2>1. f[k] \in kept /\ Cardinality(upTo(f[k])) = k
    BY <1>3, <1>8
  <2>2. ASSUME NEW i \in kept, Cardinality(upTo(i)) = k PROVE i = f[k]
    <3>1. PICK l \in 1..c : f[l] = i
      BY <1>7
    <3>2. Cardinality(upTo(f[l])) = l
      BY <1>8
    <3> QED
      BY <2>2, <3>1, <3>2
  <2> HIDE DEF upTo
  <2> QED
    BY <2>1, <2>2
<1>10. Sublist(s, S) = [k \in 1..c |-> s[f[k]]]
  BY <1>5, <1>9
<1> QED
  <2>1. /\ c \in Nat
        /\ \E g \in [1..c -> kept] :
             /\ Increasing(g, c)
             /\ \A i \in kept : \E k \in 1..c : g[k] = i
             /\ Sublist(s, S) = [k \in 1..c |-> s[g[k]]]
    BY <1>2, <1>3, <1>7, <1>10
  <2> QED
    BY <2>1 DEF c, kept, KeptAt

\* What is kept is in S, and all of it is; no element is there twice that was not.
LEMMA SublistKeeps ==
  ASSUME NEW X, NEW s \in Seq(X), NEW S
  PROVE /\ Sublist(s, S) \in Seq(X)
        /\ Len(Sublist(s, S)) = Cardinality(KeptAt(s, S))
        /\ ToSet(Sublist(s, S)) = ToSet(s) \cap S
        /\ IsInjective(s) => IsInjective(Sublist(s, S))
<1> DEFINE kept == KeptAt(s, S)
           c == Cardinality(kept)
           t == Sublist(s, S)
<1>1. c \in Nat
  BY SublistIs
<1>2. PICK f \in [1..c -> kept] :
        /\ Increasing(f, c)
        /\ \A i \in kept : \E k \in 1..c : f[k] = i
        /\ t = [k \in 1..c |-> s[f[k]]]
  BY SublistIs
<1>3. \A i \in kept : i \in 1..Len(s) /\ s[i] \in X /\ s[i] \in S
  BY DEF KeptAt
<1>4. \A i \in 1..Len(s) : s[i] \in S => i \in kept
  BY DEF KeptAt
<1>5. DOMAIN s = 1..Len(s) /\ Len(s) \in Nat
  OBVIOUS
<1> HIDE DEF kept, c, t
<1>6. t \in [1..c -> X] /\ Len(t) = c
  BY <1>1, <1>2, <1>3
<1>7. t \in Seq(X)
  BY <1>1, <1>6
<1>8. \A k \in 1..c : t[k] = s[f[k]] /\ f[k] \in kept
  BY <1>2
<1>9. ToSet(t) = ToSet(s) \cap S
  <2>1. \A x \in ToSet(t) : x \in ToSet(s) /\ x \in S
    BY <1>3, <1>5, <1>6, <1>8 DEF ToSet
  <2>2. \A x \in ToSet(s) : x \in S => x \in ToSet(t)
    <3> SUFFICES ASSUME NEW x \in ToSet(s), x \in S PROVE x \in ToSet(t)
      OBVIOUS
    <3>1. PICK i \in 1..Len(s) : s[i] = x
      BY <1>5 DEF ToSet
    <3>2. PICK k \in 1..c : f[k] = i
      BY <1>2, <1>4, <3>1
    <3> QED
      BY <1>6, <1>8, <3>1, <3>2 DEF ToSet
  <2> QED
    BY <2>1, <2>2
<1>10. ASSUME IsInjective(s) PROVE IsInjective(t)
  <2>1. f \in [1..c -> Nat]
    BY <1>2, <1>3, <1>5
  <2> SUFFICES ASSUME NEW j \in 1..c, NEW k \in 1..c, t[j] = t[k] PROVE j = k
    BY <1>6 DEF IsInjective
  <2>2. f[j] = f[k]
    BY <1>3, <1>5, <1>8, <1>10 DEF IsInjective
  <2>3. Increasing(f, c)
    BY <1>2
  <2> QED
    BY <1>1, <2>1, <2>2, <2>3, IncreasingInjects
<1> QED
  BY <1>6, <1>7, <1>9, <1>10 DEF kept, c, t

\* When all of it is in S, it is as it was.
LEMMA SublistOfAll ==
  ASSUME NEW X, NEW s \in Seq(X), NEW S, ToSet(s) \subseteq S
  PROVE Sublist(s, S) = s
<1> DEFINE n == Len(s)
<1>1. n \in Nat /\ DOMAIN s = 1..n
  OBVIOUS
<1>2. KeptAt(s, S) = 1..n
  BY <1>1 DEF ToSet, KeptAt
<1>3. Cardinality(1..n) = n
  <2> HIDE DEF n
  <2> QED BY <1>1, FS_Interval
<1>4. PICK f \in [1..n -> 1..n] :
        /\ Increasing(f, n)
        /\ \A i \in 1..n : \E k \in 1..n : f[k] = i
        /\ Sublist(s, S) = [k \in 1..n |-> s[f[k]]]
  <2>1. Cardinality(KeptAt(s, S)) = n
    BY <1>2, <1>3
  <2> HIDE DEF n
  <2>2. \E f \in [1..Cardinality(KeptAt(s, S)) -> KeptAt(s, S)] :
          /\ Increasing(f, Cardinality(KeptAt(s, S)))
          /\ \A i \in KeptAt(s, S) : \E k \in 1..Cardinality(KeptAt(s, S)) : f[k] = i
          /\ Sublist(s, S) = [k \in 1..Cardinality(KeptAt(s, S)) |-> s[f[k]]]
    BY SublistIs
  <2> QED
    BY <1>2, <2>1, <2>2
<1> DEFINE T == {k \in 1..n : f[k] # k}
<1>5. T = {}
  <2> SUFFICES ASSUME T # {} PROVE FALSE
    OBVIOUS
  <2>1. T \subseteq Nat
    BY <1>1
  <2>2. PICK k \in T : \A m \in T : k <= m
    <3> HIDE DEF T
    <3> QED BY <2>1, LeastOf
  <2>3. k \in 1..n /\ f[k] # k /\ \A m \in 1..n : m < k => f[m] = m
    BY <1>1, <2>2
  <2> HIDE DEF n, T
  <2>4. f \in [1..n -> Nat]
    BY <1>1, <1>4
  <2>5. PICK l \in 1..n : f[l] = k
    BY <1>4, <2>3
  <2>6. f[k] < k \/ f[k] > k
    BY <1>1, <2>3, <2>4
  <2>7. CASE f[k] < k
    <3>1. f[k] \in 1..n /\ f[f[k]] = f[k]
      BY <1>4, <2>3, <2>7
    <3>2. f[k] = k
      BY <1>1, <1>4, <2>3, <2>4, <3>1, IncreasingInjects
    <3> QED
      BY <2>3, <3>2
  <2>8. CASE f[k] > k
    <3>1. f[l] < f[k]
      BY <2>5, <2>8
    <3>2. l < k
      BY <1>1, <1>4, <2>3, <2>4, <2>5, <3>1, IncreasingInjects
    <3> QED
      BY <2>3, <2>5, <3>2
  <2> QED
    BY <2>6, <2>7, <2>8
<1>6. Sublist(s, S) = [k \in 1..n |-> s[k]]
  BY <1>4, <1>5
<1> QED
  BY <1>1, <1>6

-----------------------------------------------------------------------------
(* The list of functions.  A thread that reads symbols, and what it posts,   *)
(* is of a view that was made while there were symbols; the view that is     *)
(* open is not among those that told their threads to stop.                  *)
ReadersKnown ==
  /\ view <= viewsMade
  /\ \A r \in readers : r.view <= viewsMade /\ (r.view = view => symbolsOpen)
  /\ posted \subseteq {view}
  /\ posted # {} => symbolsOpen
  /\ \A v \in cancelled : v <= viewsMade
  /\ view \notin cancelled

FunctionsInv == FunctionsTypeOK /\ ReadersKnown /\ FunctionsAreCurrent

LEMMA FunctionsBounds == MaxViews \in Nat /\ MaxNamings \in Nat
  BY FunctionsBoundsAreNat

LEMMA FunctionsInitEstablishes == FunctionsInit => FunctionsInv
<1> SUFFICES ASSUME FunctionsInit PROVE FunctionsInv
  OBVIOUS
<1> USE FunctionsBounds DEF FunctionsInit
<1>1. FunctionsTypeOK
  <2>1. items \in Built
    BY DEF NotBuilt, Built
  <2>2. symbolsOpen \in BOOLEAN /\ xrefsReady \in BOOLEAN /\ naming \in BOOLEAN /\ known \in BOOLEAN
    OBVIOUS
  <2>3. named \in 0..MaxNamings /\ view \in 0..MaxViews /\ viewsMade \in 0..MaxViews
    OBVIOUS
  <2>4. cancelled = {} /\ readers = {} /\ posted = {}
    OBVIOUS
  <2> QED
    BY <2>1, <2>2, <2>3, <2>4 DEF FunctionsTypeOK
<1>2. ReadersKnown
  BY DEF ReadersKnown
<1>3. FunctionsAreCurrent
  BY DEF FunctionsAreCurrent
<1> QED
  BY <1>1, <1>2, <1>3 DEF FunctionsInv

\* The list is made of what is known
LEMMA ItemsSay ==
  ASSUME NEW s, NEW x, NEW n
  PROVE ItemsOf(s, x, n).symbols = s /\ ItemsOf(s, x, n).xrefs = x /\ ItemsOf(s, x, n).named = n
  BY DEF ItemsOf

\* A view that is made, over symbols or none, after the one before was destroyed
LEMMA CreateMakes ==
  ASSUME FunctionsTypeOK, ReadersKnown, NEW symbols \in BOOLEAN, Create(symbols),
         UNCHANGED <<xrefsReady, named, naming>>, symbolsOpen' \in BOOLEAN, symbolsOpen' <=> symbols,
         cancelled' \subseteq cancelled \cup ({view} \ {0}),
         posted' = {}
  PROVE FunctionsInv'
<1>1. /\ viewsMade \in Nat /\ viewsMade' = viewsMade + 1 /\ view' = viewsMade + 1
      /\ viewsMade' \in 1..MaxViews /\ view' \in 1..MaxViews
      /\ view \in 0..viewsMade
  BY FunctionsBounds DEF FunctionsTypeOK, ReadersKnown, Create
<1>2. /\ items' \in Built /\ items'.symbols = FALSE
      /\ items'.xrefs = xrefsReady' /\ items'.named = named'
  <2>1. items' = ItemsOf(FALSE, xrefsReady, named)
    BY DEF Create
  <2>2. xrefsReady \in BOOLEAN /\ named \in 0..MaxNamings
    BY DEF FunctionsTypeOK
  <2> QED
    BY <2>1, <2>2, FunctionsBounds DEF ItemsOf, Built
<1>3. readers' = readers \cup IF symbols THEN {[view |-> viewsMade + 1, at |-> "read"]} ELSE {}
  BY DEF Create
<1>4. \A r \in readers : r \in [view : MadeViews, at : {"read", "post"}] /\ r.view <= viewsMade
  BY DEF FunctionsTypeOK, ReadersKnown
<1>5. \A v \in cancelled' : v \in MadeViews /\ v <= viewsMade
  BY <1>1, FunctionsBounds DEF FunctionsTypeOK, ReadersKnown, MadeViews
<1>6. known' = FALSE
  BY DEF Create
<1>7. FunctionsTypeOK'
  <2>1. readers' \subseteq [view : MadeViews, at : {"read", "post"}]
    BY <1>1, <1>3, <1>4 DEF MadeViews
  <2>2. xrefsReady' \in BOOLEAN /\ naming' \in BOOLEAN /\ named' \in 0..MaxNamings
    BY DEF FunctionsTypeOK
  <2>3. known' \in BOOLEAN
    BY <1>6
  <2>4. view' \in 0..MaxViews /\ viewsMade' \in 0..MaxViews /\ posted' \subseteq MadeViews
    BY <1>1, FunctionsBounds
  <2> QED
    BY <1>1, <1>2, <1>5, <2>1, <2>2, <2>3, <2>4 DEF FunctionsTypeOK
<1>8. ReadersKnown'
  <2>1. \A r \in readers' : r.view <= viewsMade' /\ (r.view = view' => symbolsOpen')
    BY <1>1, <1>3, <1>4 DEF MadeViews
  <2>2. \A v \in cancelled' : v <= viewsMade' /\ v # view'
    BY <1>1, <1>5 DEF MadeViews
  <2> QED
    BY <1>1, <2>1, <2>2 DEF ReadersKnown
<1>9. FunctionsAreCurrent'
  <2>1. view' \notin cancelled'
    BY <1>1, <1>5 DEF MadeViews
  <2>2. symbolsOpen' => \E r \in readers' : r.view = view'
    <3>1. symbols => [view |-> viewsMade + 1, at |-> "read"] \in readers'
      BY <1>3
    <3> QED
      BY <1>1, <3>1
  <2> QED
    BY <1>2, <1>6, <2>1, <2>2 DEF FunctionsAreCurrent, OnTheWay
<1> QED
  BY <1>7, <1>8, <1>9 DEF FunctionsInv

LEMMA ShowFunctionsPreserves == FunctionsInv /\ ShowFunctions => FunctionsInv'
<1> SUFFICES ASSUME FunctionsInv, ShowFunctions PROVE FunctionsInv'
  OBVIOUS
<1>1. FunctionsTypeOK /\ ReadersKnown /\ symbolsOpen \in BOOLEAN
  BY DEF FunctionsInv, FunctionsTypeOK
<1>2. posted = {}
  BY DEF FunctionsInv, ReadersKnown, FunctionsTypeOK, MadeViews, ShowFunctions
<1> QED
  BY <1>1, <1>2, CreateMakes DEF ShowFunctions, frameKnows

LEMMA SymbolsArrivePreserves == FunctionsInv /\ SymbolsArrive => FunctionsInv'
<1> SUFFICES ASSUME FunctionsInv, SymbolsArrive PROVE FunctionsInv'
  OBVIOUS
<1>1. FunctionsTypeOK /\ ReadersKnown /\ FunctionsAreCurrent
  BY DEF FunctionsInv
<1>2. CASE view = 0
  <2>1. symbolsOpen' = TRUE /\ UNCHANGED <<xrefsReady, named, naming, viewHas, cancelled, readers, posted>>
    BY <1>2 DEF SymbolsArrive, Refresh
  <2>2. FunctionsTypeOK'
    BY <1>1, <2>1 DEF FunctionsTypeOK, viewHas
  <2>3. ReadersKnown' /\ FunctionsAreCurrent'
    BY <1>1, <1>2, <2>1 DEF ReadersKnown, FunctionsAreCurrent, viewHas
  <2> QED
    BY <2>2, <2>3 DEF FunctionsInv
<1>3. CASE view # 0
  <2>1. posted' = {}
    BY <1>1, <1>3 DEF SymbolsArrive, Refresh, Destroyed, ReadersKnown
  <2> QED
    BY <1>1, <1>3, <2>1, CreateMakes DEF SymbolsArrive, Refresh, Destroyed, CancelReader
<1> QED
  BY <1>2, <1>3

\* The view is gone, if there was one
LEMMA GonePreserves ==
  ASSUME FunctionsTypeOK, ReadersKnown, Gone, UNCHANGED <<viewsMade, readers, naming>>,
         symbolsOpen' \in BOOLEAN, xrefsReady' \in BOOLEAN, named' \in 0..MaxNamings,
         cancelled' \subseteq cancelled \cup ({view} \ {0}),
         posted' = {}
  PROVE FunctionsInv'
<1>1. items' \in Built /\ known' = FALSE /\ view' = 0
  BY DEF Gone, NotBuilt, Built
<1>2. \A v \in cancelled' : v \in MadeViews /\ v <= viewsMade
  BY FunctionsBounds DEF FunctionsTypeOK, ReadersKnown, MadeViews
<1>3. viewsMade' \in 0..MaxViews /\ readers' \subseteq [view : MadeViews, at : {"read", "post"}]
      /\ naming' \in BOOLEAN
  BY DEF FunctionsTypeOK
<1>4. FunctionsTypeOK'
  <2>1. known' \in BOOLEAN
    BY <1>1
  <2>2. view' \in 0..MaxViews
    BY <1>1, FunctionsBounds
  <2> QED
    BY <1>1, <1>2, <1>3, <2>1, <2>2 DEF FunctionsTypeOK
<1>5. \A r \in readers' : r.view <= viewsMade /\ r.view # 0
  BY DEF FunctionsTypeOK, ReadersKnown, MadeViews
<1>6. ReadersKnown'
  BY <1>1, <1>2, <1>3, <1>5 DEF ReadersKnown, MadeViews
<1>7. FunctionsAreCurrent'
  BY <1>1 DEF FunctionsAreCurrent
<1> QED
  BY <1>4, <1>6, <1>7 DEF FunctionsInv

LEMMA ClosingPreserves == FunctionsInv /\ (CloseFunctions \/ OtherFile) => FunctionsInv'
<1> SUFFICES ASSUME FunctionsInv, CloseFunctions \/ OtherFile PROVE FunctionsInv'
  OBVIOUS
<1>1. FunctionsTypeOK /\ ReadersKnown
  BY DEF FunctionsInv
<1>2. posted' = {}
  <2>1. posted \subseteq {view} /\ 0 \notin posted
    BY <1>1 DEF ReadersKnown, FunctionsTypeOK, MadeViews
  <2>2. posted' = posted \ {view} \/ (view = 0 /\ posted' = posted)
    BY DEF CloseFunctions, OtherFile, Destroyed
  <2> QED
    BY <2>1, <2>2
<1>3. Gone /\ UNCHANGED <<viewsMade, readers, naming>>
  BY DEF CloseFunctions, OtherFile, frameKnows
<1>4. symbolsOpen' \in BOOLEAN /\ xrefsReady' \in BOOLEAN /\ named' \in 0..MaxNamings
  <2>1. CASE CloseFunctions
    BY <1>1, <2>1 DEF FunctionsTypeOK, CloseFunctions, frameKnows
  <2>2. CASE OtherFile
    <3>1. symbolsOpen' = FALSE /\ xrefsReady' = FALSE /\ named' = 0
      BY <2>2 DEF OtherFile
    <3>2. symbolsOpen' \in BOOLEAN /\ xrefsReady' \in BOOLEAN
      BY <3>1
    <3>3. named' \in 0..MaxNamings
      BY <3>1, FunctionsBounds
    <3> QED
      BY <3>2, <3>3
  <2> QED
    BY <2>1, <2>2
<1>5. cancelled' \subseteq cancelled \cup ({view} \ {0})
  BY DEF CloseFunctions, OtherFile, Destroyed, CancelReader
<1> QED
  BY <1>1, <1>2, <1>3, <1>4, <1>5, GonePreserves

\* The threads, and what they post
LEMMA ReadingPreserves ==
  ASSUME FunctionsInv, NEW r \in readers, ReadEnds(r) \/ PostFunctions(r)
  PROVE FunctionsInv'
<1>1. FunctionsTypeOK /\ ReadersKnown /\ FunctionsAreCurrent
  BY DEF FunctionsInv
<1>2. UNCHANGED <<symbolsOpen, xrefsReady, named, naming, view, viewsMade, known, items, cancelled>>
  BY DEF ReadEnds, PostFunctions, frameKnows, viewHas
<1>3. \A s \in readers' : /\ s \in [view : MadeViews, at : {"read", "post"}]
                          /\ \E q \in readers : s.view = q.view
  BY <1>1 DEF ReadEnds, PostFunctions, FunctionsTypeOK
<1>4. /\ posted' \subseteq {view} /\ posted' \subseteq MadeViews
      /\ posted' # {} => symbolsOpen
  BY <1>1 DEF ReadEnds, PostFunctions, FunctionsTypeOK, ReadersKnown
<1>5. FunctionsTypeOK'
  BY <1>1, <1>2, <1>3, <1>4 DEF FunctionsTypeOK
<1>6. ReadersKnown'
  BY <1>1, <1>2, <1>3, <1>4 DEF ReadersKnown
<1>7. view # 0 /\ OnTheWay => OnTheWay'
  <2>1. ASSUME view # 0, OnTheWay, ReadEnds(r) PROVE OnTheWay'
    <3>1. CASE r.view # view \/ view \in cancelled
      BY <1>2, <2>1, <3>1 DEF OnTheWay, ReadEnds
    <3>2. CASE r.view = view /\ view \notin cancelled
      <4>1. [r EXCEPT !.at = "post"] \in readers' /\ view \notin cancelled'
        BY <1>2, <2>1, <3>2 DEF ReadEnds
      <4>2. [r EXCEPT !.at = "post"].view = view
        BY <1>1, <3>2 DEF FunctionsTypeOK
      <4> QED
        BY <1>2, <4>1, <4>2 DEF OnTheWay
    <3> QED
      BY <3>1, <3>2
  <2>2. ASSUME view # 0, OnTheWay, PostFunctions(r) PROVE OnTheWay'
    BY <1>2, <2>2 DEF OnTheWay, PostFunctions
  <2> QED
    BY <2>1, <2>2
<1>8. FunctionsAreCurrent'
  BY <1>1, <1>2, <1>7 DEF FunctionsAreCurrent
<1> QED
  BY <1>5, <1>6, <1>8 DEF FunctionsInv

LEMMA OnSymbolFunctionsPreserves == FunctionsInv /\ OnSymbolFunctions => FunctionsInv'
<1> SUFFICES ASSUME FunctionsInv, OnSymbolFunctions PROVE FunctionsInv'
  OBVIOUS
<1>1. FunctionsTypeOK /\ ReadersKnown
  BY DEF FunctionsInv
<1>2. /\ items' \in Built /\ items'.symbols = TRUE
      /\ items'.xrefs = xrefsReady /\ items'.named = named
      /\ known' = TRUE
  <2>1. known' = TRUE /\ items' = ItemsOf(TRUE, xrefsReady, named)
    BY DEF OnSymbolFunctions, Learned
  <2>2. xrefsReady \in BOOLEAN /\ named \in 0..MaxNamings
    BY <1>1 DEF FunctionsTypeOK
  <2>3. items' \in Built
    BY <2>1, <2>2, FunctionsBounds DEF ItemsOf, Built
  <2> QED
    BY <2>1, <2>3 DEF ItemsOf
<1>3. symbolsOpen /\ posted' = posted \ {view}
      /\ UNCHANGED <<symbolsOpen, xrefsReady, named, naming, view, viewsMade, cancelled, readers>>
  BY <1>1 DEF OnSymbolFunctions, ReadersKnown, frameKnows
<1>4. FunctionsTypeOK'
  <2>1. known' \in BOOLEAN
    BY <1>2
  <2> QED
    BY <1>1, <1>2, <1>3, <2>1 DEF FunctionsTypeOK
<1>5. ReadersKnown'
  BY <1>1, <1>3 DEF ReadersKnown
<1>6. FunctionsAreCurrent'
  BY <1>2, <1>3 DEF FunctionsAreCurrent
<1> QED
  BY <1>4, <1>5, <1>6 DEF FunctionsInv

\* Cross-references and names: the list is built again, or a box is shown before it is
LEMMA LearningPreserves ==
  FunctionsInv /\ (XrefsArrive \/ RenameFunction \/ NotifyAnnotationsChanged \/ AddSignatures)
    => FunctionsInv'
<1> SUFFICES ASSUME FunctionsInv,
                    XrefsArrive \/ RenameFunction \/ NotifyAnnotationsChanged \/ AddSignatures
             PROVE FunctionsInv'
  OBVIOUS
<1>1. FunctionsTypeOK /\ ReadersKnown /\ FunctionsAreCurrent
  BY DEF FunctionsInv
<1>2. UNCHANGED <<symbolsOpen, view, viewsMade, known, cancelled, readers, posted>>
  BY DEF XrefsArrive, RenameFunction, NotifyAnnotationsChanged, AddSignatures
<1>3. xrefsReady' \in BOOLEAN /\ naming' \in BOOLEAN /\ named' \in 0..MaxNamings
  <2>1. named' \in 0..MaxNamings
    <3>1. named \in 0..MaxNamings
      BY <1>1 DEF FunctionsTypeOK
    <3>2. \/ named' = named
          \/ named' = named + 1 /\ named' <= MaxNamings
          \/ named' = named + 1 /\ named < MaxNamings
      BY DEF XrefsArrive, RenameFunction, NotifyAnnotationsChanged, AddSignatures
    <3> QED
      BY <3>1, <3>2, FunctionsBounds
  <2>2. xrefsReady' \in {TRUE, xrefsReady} /\ naming' \in {TRUE, FALSE, naming}
    BY DEF XrefsArrive, RenameFunction, NotifyAnnotationsChanged, AddSignatures
  <2>3. xrefsReady \in BOOLEAN /\ naming \in BOOLEAN
    BY <1>1 DEF FunctionsTypeOK
  <2> QED
    BY <2>1, <2>2, <2>3
<1>4. \/ Build(xrefsReady', named')
      \/ naming' /\ UNCHANGED <<xrefsReady, items>>
  BY DEF XrefsArrive, RenameFunction, NotifyAnnotationsChanged, AddSignatures
<1>5. /\ items' \in Built
      /\ view # 0 => items'.xrefs = xrefsReady' /\ items'.symbols = known
                     /\ (~naming' => items'.named = named')
  <2>1. CASE Build(xrefsReady', named')
    <3>1. known \in BOOLEAN /\ items \in Built
      BY <1>1 DEF FunctionsTypeOK
    <3>2. items' = IF view = 0 THEN items ELSE ItemsOf(known, xrefsReady', named')
      BY <2>1 DEF Build
    <3>3. ItemsOf(known, xrefsReady', named') \in Built
      BY <1>3, <3>1, FunctionsBounds DEF ItemsOf, Built
    <3> QED
      BY <3>1, <3>2, <3>3, ItemsSay
  <2>2. CASE naming' /\ UNCHANGED <<xrefsReady, items>>
    BY <1>1, <2>2 DEF FunctionsTypeOK, FunctionsAreCurrent
  <2> QED
    BY <1>4, <2>1, <2>2
<1>6. FunctionsTypeOK'
  BY <1>1, <1>2, <1>3, <1>5 DEF FunctionsTypeOK
<1>7. ReadersKnown'
  BY <1>1, <1>2 DEF ReadersKnown
<1>8. FunctionsAreCurrent'
  BY <1>1, <1>2, <1>5 DEF FunctionsAreCurrent, OnTheWay
<1> QED
  BY <1>6, <1>7, <1>8 DEF FunctionsInv

LEMMA FunctionsStepPreserves == FunctionsInv /\ [FunctionsNext]_functionsVars => FunctionsInv'
<1>1. FunctionsInv /\ UNCHANGED functionsVars => FunctionsInv'
  BY DEF FunctionsInv, FunctionsTypeOK, ReadersKnown, FunctionsAreCurrent, OnTheWay,
         functionsVars, frameKnows, viewHas
<1> QED
  BY <1>1, ShowFunctionsPreserves, ClosingPreserves, ReadingPreserves,
     OnSymbolFunctionsPreserves, SymbolsArrivePreserves, LearningPreserves
  DEF FunctionsNext

\* The variables of FunctionsView keep their types, however many views and names there are.
THEOREM FunctionsTypeCorrect == FunctionsSpec => []FunctionsTypeOK
  BY FunctionsInitEstablishes, FunctionsStepPreserves, PTL DEF FunctionsSpec, FunctionsInv

\* An open list is built of all that the frame knows, or its symbols are still on their way to it
\* (FunctionsView.cpp: the threads of views that were closed post to windows that are gone).
THEOREM FunctionsCurrent == FunctionsSpec => []FunctionsAreCurrent
  BY FunctionsInitEstablishes, FunctionsStepPreserves, PTL DEF FunctionsSpec, FunctionsInv

-----------------------------------------------------------------------------
(* The recent files. *)
\* What a process is about to write misses only what it may miss, unless it was overtaken.
MissesNoMore ==
  \A p \in Processes : doing[p] \in {"stores", "saves"} /\ p \notin overtaken =>
    \A path \in ToSet(value) \ ToSet(setting[p]) :
      path \in forgets[p] \/ (Len(value) = MaxFiles /\ path = Last(value))

RecentInv == RecentTypeOK /\ MissesNoMore

LEMMA ListsAre ==
  /\ MaxFiles \in Nat /\ MaxFiles > 0
  /\ \A s : s \in Lists <=> s \in Seq(Paths) /\ Len(s) <= MaxFiles /\ IsInjective(s)
<1>1. MaxFiles \in Nat /\ MaxFiles > 0
  BY MaxFilesIsPositive
<1>2. ASSUME NEW s PROVE s \in BoundedSeq(Paths, MaxFiles) <=> s \in Seq(Paths) /\ Len(s) <= MaxFiles
  <2>1. ASSUME s \in BoundedSeq(Paths, MaxFiles) PROVE s \in Seq(Paths) /\ Len(s) <= MaxFiles
    <3>1. PICK m \in 0..MaxFiles : s \in [1..m -> Paths]
      BY <2>1 DEF BoundedSeq, SeqOf
    <3> QED
      BY <1>1, <3>1
  <2>2. ASSUME s \in Seq(Paths), Len(s) <= MaxFiles PROVE s \in BoundedSeq(Paths, MaxFiles)
    <3>1. s \in [1..Len(s) -> Paths] /\ Len(s) \in 0..MaxFiles
      BY <1>1, <2>2
    <3> QED
      BY <3>1 DEF BoundedSeq, SeqOf
  <2> QED
    BY <2>1, <2>2
<1> QED
  BY <1>1, <1>2 DEF Lists

\* A list without a path it has is shorter by one.
LEMMA ShorterWithout ==
  ASSUME NEW files \in Lists, NEW path \in Paths
  PROVE /\ Without(files, path) \in Lists
        /\ ToSet(Without(files, path)) = ToSet(files) \ {path}
        /\ path \in ToSet(files) => Len(Without(files, path)) = Len(files) - 1
        /\ path \notin ToSet(files) => Without(files, path) = files
<1> DEFINE n == Len(files)
           S == Paths \ {path}
<1>1. /\ files \in Seq(Paths) /\ n <= MaxFiles /\ IsInjective(files)
      /\ n \in Nat /\ DOMAIN files = 1..n /\ ToSet(files) \subseteq Paths
  BY ListsAre DEF ToSet
<1>2. /\ Without(files, path) \in Seq(Paths) /\ IsInjective(Without(files, path))
      /\ Len(Without(files, path)) = Cardinality(KeptAt(files, S))
      /\ ToSet(Without(files, path)) = ToSet(files) \cap S
  BY <1>1, SublistKeeps DEF Without
<1>3. ASSUME path \notin ToSet(files) PROVE Without(files, path) = files
  <2>1. ToSet(files) \subseteq S
    BY <1>1, <1>3
  <2> HIDE DEF S
  <2>2. Sublist(files, S) = files
    BY <1>1, <2>1, SublistOfAll
  <2> QED
    BY <2>2 DEF Without, S
<1>4. ASSUME path \in ToSet(files) PROVE Len(Without(files, path)) = n - 1
  <2>1. PICK i \in 1..n : files[i] = path
    BY <1>1, <1>4 DEF ToSet
  <2>2. \A j \in 1..n : files[j] = path => j = i
    BY <1>1, <2>1 DEF IsInjective
  <2>3. KeptAt(files, S) = (1..n) \ {i}
    BY <1>1, <2>1, <2>2 DEF KeptAt
  <2>4. IsFiniteSet(1..n) /\ Cardinality(1..n) = n
    <3> HIDE DEF n
    <3> QED BY <1>1, FS_Interval
  <2> HIDE DEF n
  <2>5. Cardinality((1..n) \ {i}) = n - 1
    BY <2>1, <2>4, FS_RemoveElement
  <2> QED
    BY <1>2, <2>3, <2>5
<1>5. Len(Without(files, path)) <= MaxFiles
  <2>1. CASE path \in ToSet(files)
    <3>1. Len(Without(files, path)) = n - 1
      BY <1>4, <2>1
    <3> QED
      BY <1>1, <3>1, ListsAre
  <2>2. CASE path \notin ToSet(files)
    <3>1. Without(files, path) = files
      BY <1>3, <2>2
    <3> QED
      BY <1>1, <3>1
  <2> QED
    BY <2>1, <2>2
<1>6. Without(files, path) \in Lists
  BY <1>2, <1>5, ListsAre
<1> QED
  BY <1>1, <1>2, <1>3, <1>4, <1>6

\* A path that comes first drives out the last of a full list that had not this path.
LEMMA AddedFirst ==
  ASSUME NEW files \in Lists, NEW path \in Paths
  PROVE /\ First(<<path>> \o Without(files, path)) \in Lists
        /\ \A other \in ToSet(files) \ ToSet(First(<<path>> \o Without(files, path))) :
             Len(files) = MaxFiles /\ other = Last(files)
<1> DEFINE rest == Without(files, path)
           all == <<path>> \o rest
           first == First(all)
<1>1. /\ files \in Seq(Paths) /\ Len(files) <= MaxFiles /\ IsInjective(files) /\ Len(files) \in Nat
      /\ MaxFiles \in Nat /\ MaxFiles > 0
  BY ListsAre
<1>2. /\ rest \in Lists /\ rest \in Seq(Paths) /\ IsInjective(rest) /\ Len(rest) \in Nat
      /\ Len(rest) <= MaxFiles /\ path \notin ToSet(rest)
      /\ ToSet(rest) = ToSet(files) \ {path}
      /\ path \in ToSet(files) => Len(rest) = Len(files) - 1
      /\ path \notin ToSet(files) => rest = files
  <2>1. /\ rest \in Lists
        /\ ToSet(rest) = ToSet(files) \ {path}
        /\ path \in ToSet(files) => Len(rest) = Len(files) - 1
        /\ path \notin ToSet(files) => rest = files
    BY ShorterWithout
  <2> HIDE DEF rest
  <2>2. /\ rest \in Seq(Paths) /\ IsInjective(rest) /\ Len(rest) <= MaxFiles /\ Len(rest) \in Nat
    BY <2>1, ListsAre
  <2> QED
    BY <2>1, <2>2
<1> HIDE DEF rest
<1>3. /\ all \in Seq(Paths) /\ Len(all) = Len(rest) + 1 /\ all[1] = path
      /\ \A i \in 1..Len(rest) : all[i + 1] = rest[i]
  BY <1>2
<1>4. \A i \in 2..Len(all) : i - 1 \in 1..Len(rest) /\ all[i] = rest[i - 1]
  <2> SUFFICES ASSUME NEW i \in 2..Len(all) PROVE i - 1 \in 1..Len(rest) /\ all[i] = rest[i - 1]
    OBVIOUS
  <2> HIDE DEF all
  <2>1. i - 1 \in 1..Len(rest) /\ (i - 1) + 1 = i
    BY <1>2, <1>3
  <2> QED
    BY <1>3, <2>1
<1> HIDE DEF all
<1> DEFINE n == IF Len(all) < MaxFiles THEN Len(all) ELSE MaxFiles
<1>5. n \in 1..Len(all) /\ n <= MaxFiles
  BY <1>1, <1>2, <1>3
<1>6. first \in Seq(Paths) /\ Len(first) = n /\ \A i \in 1..n : first[i] = all[i]
  <2>1. first = SubSeq(all, 1, n)
    BY DEF First
  <2> HIDE DEF n, first
  <2> QED
    BY <1>3, <1>5, <2>1
<1>7. IsInjective(first)
  <2> SUFFICES ASSUME NEW i \in 1..n, NEW j \in 1..n, first[i] = first[j] PROVE i = j
    BY <1>6 DEF IsInjective
  <2>1. i \in 1..Len(all) /\ j \in 1..Len(all) /\ all[i] = all[j] /\ Len(all) \in Nat
    BY <1>3, <1>5, <1>6
  <2>2. \A k \in 1..Len(rest) : rest[k] # path
    BY <1>2 DEF ToSet
  <2>3. CASE i = 1 /\ j = 1
    BY <2>3
  <2>4. CASE i = 1 /\ j # 1
    BY <1>3, <1>4, <2>1, <2>2, <2>4
  <2>5. CASE i # 1 /\ j = 1
    BY <1>3, <1>4, <2>1, <2>2, <2>5
  <2>6. CASE i # 1 /\ j # 1
    <3>1. /\ i - 1 \in 1..Len(rest) /\ j - 1 \in 1..Len(rest)
          /\ rest[i - 1] = rest[j - 1]
      BY <1>4, <2>1, <2>6
    <3>2. DOMAIN rest = 1..Len(rest)
      BY <1>2
    <3>3. i - 1 = j - 1
      BY <1>2, <3>1, <3>2 DEF IsInjective
    <3> QED
      BY <2>1, <3>3
  <2> QED
    BY <2>3, <2>4, <2>5, <2>6
<1>8. first \in Lists
  BY <1>5, <1>6, <1>7, ListsAre
<1>9. ASSUME NEW other \in ToSet(files) \ ToSet(first)
      PROVE Len(files) = MaxFiles /\ other = Last(files)
  <2>1. DOMAIN first = 1..n /\ DOMAIN rest = 1..Len(rest) /\ DOMAIN files = 1..Len(files)
    BY <1>1, <1>2, <1>6
  <2>2. path \in ToSet(first)
    <3>1. 1 \in 1..n /\ first[1] = path
      BY <1>3, <1>5, <1>6
    <3> QED
      BY <2>1, <3>1 DEF ToSet
  <2>3. other \in ToSet(rest)
    BY <1>2, <1>9, <2>2
  <2>4. PICK k \in 1..Len(rest) : rest[k] = other
    BY <2>1, <2>3 DEF ToSet
  <2>5. k + 1 \in 1..Len(all) /\ all[k + 1] = other
    BY <1>2, <1>3, <2>4
  <2>6. k + 1 \notin 1..n
    <3> SUFFICES ASSUME k + 1 \in 1..n PROVE FALSE
      OBVIOUS
    <3>1. first[k + 1] = other
      BY <1>6, <2>5
    <3> QED
      BY <1>9, <2>1, <3>1 DEF ToSet
  <2>7. n = MaxFiles /\ k + 1 > MaxFiles /\ k <= Len(rest)
    BY <1>1, <1>2, <1>3, <2>4, <2>5, <2>6
  <2>8. k = MaxFiles /\ Len(rest) = MaxFiles
    BY <1>1, <1>2, <2>4, <2>7
  <2>9. path \notin ToSet(files)
    BY <1>1, <1>2, <2>8
  <2>10. rest = files /\ other = files[Len(files)] /\ Len(files) = MaxFiles
    BY <1>2, <2>4, <2>8, <2>9
  <2> QED
    BY <2>10 DEF Last
<1> QED
  BY <1>8, <1>9 DEF all, rest

LEMMA RecentInitEstablishes == RecentInit => RecentInv
<1> SUFFICES ASSUME RecentInit PROVE RecentInv
  OBVIOUS
<1>1. <<>> \in Lists
  <2> DEFINE none == <<>>
  <2>1. none \in Seq(Paths) /\ Len(none) = 0 /\ DOMAIN none = {}
    OBVIOUS
  <2> HIDE DEF none
  <2>2. Len(none) <= MaxFiles
    BY <2>1, ListsAre
  <2>3. IsInjective(none)
    BY <2>1 DEF IsInjective
  <2>4. none \in Lists
    BY <2>1, <2>2, <2>3, ListsAre
  <2> QED
    BY <2>4 DEF none
<1>2. RecentTypeOK
  BY <1>1 DEF RecentInit, RecentTypeOK
<1>3. MissesNoMore
  BY DEF RecentInit, MissesNoMore
<1> QED
  BY <1>2, <1>3 DEF RecentInv

\* A process has read the list, and has what it is about to write.
LEMMA ReadsKeeps ==
  ASSUME RecentInv, NEW p \in Processes, NEW files \in Lists, NEW then \in {"stores", "saves"},
         Reads(p, files, then),
         missing' \in [Processes -> SUBSET Paths], forgets' \in [Processes -> SUBSET Paths],
         \A q \in Processes : q # p => forgets'[q] = forgets[q],
         \A path \in ToSet(value) \ ToSet(files) :
           path \in forgets'[p] \/ (Len(value) = MaxFiles /\ path = Last(value))
  PROVE RecentInv'
<1>1. /\ doing \in [Processes -> {"ended", "runs", "stores", "saves"}]
      /\ setting \in [Processes -> Lists]
      /\ value \in Lists /\ overtaken \subseteq Processes
  BY DEF RecentInv, RecentTypeOK
<1>2. /\ doing' = [doing EXCEPT ![p] = then] /\ setting' = [setting EXCEPT ![p] = files]
      /\ overtaken' = overtaken \ {p} /\ value' = value
  BY DEF Reads
<1>3. RecentTypeOK'
  <2>1. doing' \in [Processes -> {"ended", "runs", "stores", "saves"}]
    BY <1>1, <1>2
  <2>2. setting' \in [Processes -> Lists]
    BY <1>1, <1>2
  <2> QED
    BY <1>1, <1>2, <2>1, <2>2 DEF RecentTypeOK
<1>4. MissesNoMore'
  <2> SUFFICES ASSUME NEW q \in Processes, doing'[q] \in {"stores", "saves"}, q \notin overtaken',
                      NEW path \in ToSet(value') \ ToSet(setting'[q])
               PROVE path \in forgets'[q] \/ (Len(value') = MaxFiles /\ path = Last(value'))
    BY DEF MissesNoMore
  <2>1. CASE q = p
    BY <1>1, <1>2, <2>1
  <2>2. CASE q # p
    BY <1>1, <1>2, <2>2 DEF RecentInv, MissesNoMore
  <2> QED
    BY <2>1, <2>2
<1> QED
  BY <1>3, <1>4 DEF RecentInv

LEMMA StartProcessKeeps ==
  ASSUME RecentInv, NEW p \in Processes, StartProcess(p)
  PROVE RecentInv'
<1> USE DEF RecentInv, RecentTypeOK, StartProcess
<1>1. RecentTypeOK'
  OBVIOUS
<1>2. MissesNoMore'
  BY DEF MissesNoMore
<1> QED
  BY <1>1, <1>2

LEMMA AddFileKeeps ==
  ASSUME RecentInv, NEW p \in Processes, NEW path \in Paths, AddFile(p, path)
  PROVE RecentInv'
<1> DEFINE files == First(<<path>> \o Without(value, path))
<1>1. value \in Lists /\ missing \in [Processes -> SUBSET Paths] /\ forgets \in [Processes -> SUBSET Paths]
  BY DEF RecentInv, RecentTypeOK
<1>2. /\ files \in Lists
      /\ \A other \in ToSet(value) \ ToSet(files) : Len(value) = MaxFiles /\ other = Last(value)
  BY <1>1, AddedFirst
<1>3. Reads(p, files, "stores") /\ missing' = missing /\ forgets' = forgets
  BY DEF AddFile
<1> HIDE DEF files
<1> QED
  BY <1>1, <1>2, <1>3, ReadsKeeps

LEMMA SaysItIsGoneKeeps ==
  ASSUME RecentInv, NEW p \in Processes, NEW path \in Paths, SaysItIsGone(p, path)
  PROVE RecentInv'
<1> USE DEF RecentInv, RecentTypeOK, SaysItIsGone
<1>1. RecentTypeOK'
  OBVIOUS
<1>2. MissesNoMore'
  BY DEF MissesNoMore
<1> QED
  BY <1>1, <1>2

LEMMA RemoveFileKeeps ==
  ASSUME RecentInv, NEW p \in Processes, NEW path \in Paths, RemoveFile(p, path)
  PROVE RecentInv'
<1>1. /\ value \in Lists /\ missing \in [Processes -> SUBSET Paths]
      /\ forgets \in [Processes -> SUBSET Paths]
  BY DEF RecentInv, RecentTypeOK
<1>2. missing' = [missing EXCEPT ![p] = @ \ {path}] /\ missing' \in [Processes -> SUBSET Paths]
  BY <1>1 DEF RemoveFile
<1>3. CASE path \in ToSet(value)
  <2>1. /\ Reads(p, Without(value, path), "stores")
        /\ forgets' = [forgets EXCEPT ![p] = {path}]
    BY <1>3 DEF RemoveFile
  <2>2. /\ forgets' \in [Processes -> SUBSET Paths] /\ forgets'[p] = {path}
        /\ \A q \in Processes : q # p => forgets'[q] = forgets[q]
    BY <1>1, <2>1
  <2>3. Without(value, path) \in Lists /\ ToSet(Without(value, path)) = ToSet(value) \ {path}
    BY <1>1, ShorterWithout
  <2>4. \A other \in ToSet(value) \ ToSet(Without(value, path)) : other \in forgets'[p]
    BY <2>2, <2>3
  <2> QED
    BY <1>2, <2>1, <2>2, <2>3, <2>4, ReadsKeeps
<1>4. CASE path \notin ToSet(value)
  <2>1. UNCHANGED <<value, setting, doing, forgets, overtaken>>
    BY <1>4 DEF RemoveFile
  <2>2. RecentTypeOK'
    BY <1>2, <2>1 DEF RecentInv, RecentTypeOK
  <2>3. MissesNoMore'
    BY <2>1 DEF RecentInv, MissesNoMore
  <2> QED
    BY <2>2, <2>3 DEF RecentInv
<1> QED
  BY <1>3, <1>4

LEMMA EndProcessKeeps ==
  ASSUME RecentInv, NEW p \in Processes, EndProcess(p)
  PROVE RecentInv'
<1>1. /\ value \in Lists /\ missing \in [Processes -> SUBSET Paths]
      /\ forgets \in [Processes -> SUBSET Paths]
  BY DEF RecentInv, RecentTypeOK
<1>2. Reads(p, value, "saves") /\ missing' = missing /\ forgets' = forgets
  BY DEF EndProcess, AsTheyAreNow
<1> QED
  BY <1>1, <1>2, ReadsKeeps

LEMMA StoreKeeps ==
  ASSUME RecentInv, NEW p \in Processes, Store(p)
  PROVE RecentInv'
<1> USE DEF RecentInv, RecentTypeOK
<1>1. /\ value' = setting[p] /\ setting' = setting /\ missing' = missing
      /\ doing' = [doing EXCEPT ![p] = IF @ = "stores" THEN "runs" ELSE "ended"]
      /\ forgets' = [forgets EXCEPT ![p] = {}]
      /\ overtaken' = (overtaken \ {p}) \cup {q \in Processes \ {p} : doing[q] \in {"stores", "saves"}}
  BY DEF Store
<1>2. RecentTypeOK'
  BY <1>1
<1>3. \A q \in Processes : doing'[q] \in {"stores", "saves"} => q \in overtaken'
  BY <1>1
<1>4. MissesNoMore'
  BY <1>3 DEF MissesNoMore
<1> QED
  BY <1>2, <1>4

LEMMA RecentNextKeeps == RecentInv /\ [RecentNext]_recentVars => RecentInv'
<1> SUFFICES ASSUME RecentInv, [RecentNext]_recentVars PROVE RecentInv'
  OBVIOUS
<1>1. ASSUME NEW p \in Processes, StartProcess(p) PROVE RecentInv'
  BY <1>1, StartProcessKeeps
<1>2. ASSUME NEW p \in Processes, EndProcess(p) PROVE RecentInv'
  BY <1>2, EndProcessKeeps
<1>3. ASSUME NEW p \in Processes, Store(p) PROVE RecentInv'
  BY <1>3, StoreKeeps
<1>4. ASSUME NEW p \in Processes, NEW path \in Paths, AddFile(p, path) PROVE RecentInv'
  BY <1>4, AddFileKeeps
<1>5. ASSUME NEW p \in Processes, NEW path \in Paths, SaysItIsGone(p, path) PROVE RecentInv'
  BY <1>5, SaysItIsGoneKeeps
<1>6. ASSUME NEW p \in Processes, NEW path \in Paths, RemoveFile(p, path) PROVE RecentInv'
  BY <1>6, RemoveFileKeeps
<1>7. CASE UNCHANGED recentVars
  BY <1>7 DEF RecentInv, RecentTypeOK, MissesNoMore, recentVars
<1> QED
  BY <1>1, <1>2, <1>3, <1>4, <1>5, <1>6, <1>7 DEF RecentNext

\* The invariant of the recent files holds.
THEOREM RecentInvariance == RecentSpec => []RecentInv
<1> QED
  BY RecentInitEstablishes, RecentNextKeeps, PTL DEF RecentSpec

\* The list in the registry and the setting of each process have no path twice, and no more than
\* MaxFiles (Files, AddFile).
THEOREM RecentTypeCorrect == RecentSpec => []RecentTypeOK
<1>1. RecentInv => RecentTypeOK
  BY DEF RecentInv
<1> QED
  BY <1>1, RecentInvariance, PTL

\* However the processes interleave, a path leaves the list only as the last of a full one, because
\* its file was found gone, or because the process that wrote had read it too early.
THEOREM OnlyStaleWritesForget == RecentSpec => OnlyStaleForgets
<1> DEFINE Allowed ==
      \A path \in ToSet(value) \ ToSet(value') :
       \E p \in Processes :
         /\ doing[p] \in {"stores", "saves"} /\ doing'[p] # doing[p]
         /\ \/ p \in overtaken
            \/ path \in forgets[p]
            \/ Len(value) = MaxFiles /\ path = Last(value)
<1>1. ASSUME RecentInv, RecentNext PROVE Allowed
  <2>1. CASE value' = value
    BY <2>1
  <2>2. CASE value' # value
    <3>1. PICK p \in Processes : Store(p)
      BY <1>1, <2>2 DEF RecentNext, StartProcess, EndProcess, AddFile, SaysItIsGone, RemoveFile, Reads
    <3>2. doing \in [Processes -> {"ended", "runs", "stores", "saves"}]
      BY <1>1 DEF RecentInv, RecentTypeOK
    <3>3. doing[p] \in {"stores", "saves"} /\ value' = setting[p] /\ doing'[p] \in {"runs", "ended"}
      BY <3>1, <3>2 DEF Store
    <3>4. doing'[p] # doing[p]
      BY <3>3
    <3> QED
      BY <1>1, <3>3, <3>4 DEF RecentInv, MissesNoMore
  <2> QED
    BY <2>1, <2>2
<1>2. ASSUME RecentInv, [RecentNext]_recentVars PROVE [Allowed]_recentVars
  BY <1>1, <1>2
<1> QED
  BY <1>2, RecentInvariance, PTL DEF RecentSpec, OnlyStaleForgets

-----------------------------------------------------------------------------
(* The views of a window and the history.  Whole is what every handler finds *)
(* and leaves; inside of it the history may not know the active view yet.    *)
\* the states of the frame
Frames == [m_Pages : Seq(Handles), m_Active : Nat, m_Views : [Types -> Handles \cup {None}],
           m_Views2 : [Handles -> Types \cup {None}],
           position : [Handles -> Positions \cup {None}],
           m_History : Seq(Entries), m_HistoryIndex : Nat]

Typed(f) ==
  /\ f \in Frames
  /\ f.m_Active <= Len(f.m_Pages)
  /\ Len(f.m_History) <= MaxHistory
  /\ f.m_HistoryIndex <= Len(f.m_History)

ActiveIfAny(f) == f.m_Active = 0 <=> f.m_Pages = <<>>

KnowsActive(f) ==
  f.m_Active # 0 =>
    f.m_HistoryIndex # 0 /\ f.m_History[f.m_HistoryIndex].Page = f.m_Pages[f.m_Active]

Whole(f) == Typed(f) /\ Agree(f) /\ Knows(f)

NavigationInv == Whole(frame) /\ from \in Entries \cup {None}

\* What g has of f, when only the history is another one
SameViews(f, g) ==
  /\ g.m_Pages = f.m_Pages /\ g.m_Active = f.m_Active
  /\ g.m_Views = f.m_Views /\ g.m_Views2 = f.m_Views2 /\ g.position = f.position

LEMMA HistoryHolds == MaxHistory \in Nat /\ MaxHistory > 2
  BY HistoryIsKept

LEMMA NoneIsNo == None \notin Types /\ None \notin Positions /\ None \notin Handles
  BY NoneIsNothing

LEMMA FieldsOf ==
  ASSUME NEW f, Typed(f)
  PROVE /\ f.m_Pages \in Seq(Handles) /\ Len(f.m_Pages) \in Nat
        /\ DOMAIN f.m_Pages = 1..Len(f.m_Pages)
        /\ f.m_Active \in 0..Len(f.m_Pages)
        /\ f.m_Views \in [Types -> Handles \cup {None}]
        /\ f.m_Views2 \in [Handles -> Types \cup {None}]
        /\ f.position \in [Handles -> Positions \cup {None}]
        /\ f.m_History \in Seq(Entries) /\ Len(f.m_History) \in Nat
        /\ Len(f.m_History) <= MaxHistory
        /\ f.m_HistoryIndex \in 0..Len(f.m_History)
<1>1. /\ f.m_Pages \in Seq(Handles) /\ f.m_Active \in Nat
      /\ f.m_History \in Seq(Entries) /\ f.m_HistoryIndex \in Nat
      /\ f.m_Views \in [Types -> Handles \cup {None}]
      /\ f.m_Views2 \in [Handles -> Types \cup {None}]
      /\ f.position \in [Handles -> Positions \cup {None}]
  BY DEF Typed, Frames
<1> QED
  BY <1>1 DEF Typed

\* the place the user is at
LEMMA PlaceIsAnEntry ==
  ASSUME NEW f, Typed(f), f.m_Active # 0
  PROVE Place(f) \in Entries /\ Place(f).Page = f.m_Pages[f.m_Active]
<1> DEFINE h == f.m_Pages[f.m_Active]
<1>1. h \in Handles
  BY FieldsOf
<1>2. PositionOf(f, h) \in Positions \cup {None}
  <2>1. /\ f.m_Views \in [Types -> Handles \cup {None}]
        /\ f.m_Views2 \in [Handles -> Types \cup {None}]
        /\ f.position \in [Handles -> Positions \cup {None}]
    BY FieldsOf
  <2> HIDE DEF h
  <2> QED
    BY <1>1, <2>1 DEF PositionOf
<1>3. Place(f) = [Page |-> h, Position |-> PositionOf(f, h)]
  BY DEF Place
<1> HIDE DEF h
<1>4. Place(f) \in Entries /\ Place(f).Page = h
  BY <1>1, <1>2, <1>3 DEF Entries
<1> QED
  BY <1>4 DEF h

\* the same views, with another history
WithHistory(f, history, index) == [f EXCEPT !.m_History = history, !.m_HistoryIndex = index]

LEMMA OtherHistory ==
  ASSUME NEW f, Typed(f), NEW history \in Seq(Entries), Len(history) <= MaxHistory,
         NEW index \in Nat, index <= Len(history)
  PROVE /\ Typed(WithHistory(f, history, index)) /\ SameViews(f, WithHistory(f, history, index))
        /\ WithHistory(f, history, index).m_History = history
        /\ WithHistory(f, history, index).m_HistoryIndex = index
<1> DEFINE g == [f EXCEPT !.m_History = history, !.m_HistoryIndex = index]
<1>1. f \in Frames
  BY DEF Typed
<1>2. /\ g.m_Pages = f.m_Pages /\ g.m_Active = f.m_Active
      /\ g.m_Views = f.m_Views /\ g.m_Views2 = f.m_Views2 /\ g.position = f.position
      /\ g.m_History = history /\ g.m_HistoryIndex = index
  BY <1>1 DEF Frames
<1>3. g \in Frames
  BY <1>1 DEF Frames
<1> HIDE DEF g
<1>4. Typed(g) /\ SameViews(f, g) /\ g.m_History = history /\ g.m_HistoryIndex = index
  BY <1>2, <1>3 DEF Typed, SameViews
<1> QED
  BY <1>4 DEF g, WithHistory

LEMMA RecordNavigationKnows ==
  ASSUME NEW f, Typed(f)
  PROVE /\ Typed(RecordNavigation(f)) /\ SameViews(f, RecordNavigation(f))
        /\ KnowsActive(RecordNavigation(f))
<1>1. CASE f.m_Active = 0
  BY <1>1 DEF RecordNavigation, SameViews, KnowsActive
<1>2. CASE f.m_Active # 0 /\ IsCurrent(f, Place(f))
  <2>1. RecordNavigation(f) = f
    BY <1>2 DEF RecordNavigation
  <2>2. Place(f).Page = f.m_Pages[f.m_Active]
    BY <1>2, PlaceIsAnEntry
  <2> QED
    BY <1>2, <2>1, <2>2 DEF IsCurrent, SameViews, KnowsActive
<1>3. CASE f.m_Active # 0 /\ ~IsCurrent(f, Place(f))
  <2> DEFINE longer == Append(Discarded(f), Place(f))
             kept == IF Len(longer) > MaxHistory THEN Tail(longer) ELSE longer
             g == WithHistory(f, kept, Len(kept))
  <2>1. RecordNavigation(f) = g
    BY <1>3 DEF RecordNavigation, WithHistory
  <2>2. Place(f) \in Entries /\ Place(f).Page = f.m_Pages[f.m_Active]
    BY <1>3, PlaceIsAnEntry
  <2>3. Discarded(f) \in Seq(Entries) /\ Len(Discarded(f)) <= MaxHistory
    <3>1. /\ f.m_History \in Seq(Entries) /\ Len(f.m_History) \in Nat
          /\ Len(f.m_History) <= MaxHistory /\ f.m_HistoryIndex \in 0..Len(f.m_History)
      BY FieldsOf
    <3> QED
      BY <3>1, HistoryHolds DEF Discarded
  <2>4. /\ longer \in Seq(Entries) /\ Len(longer) = Len(Discarded(f)) + 1
        /\ longer[Len(longer)] = Place(f) /\ Len(Discarded(f)) \in Nat
    BY <2>2, <2>3
  <2> HIDE DEF longer
  <2>5. /\ kept \in Seq(Entries) /\ Len(kept) <= MaxHistory /\ Len(kept) \in Nat /\ Len(kept) # 0
        /\ kept[Len(kept)] = Place(f)
    <3>1. CASE Len(longer) > MaxHistory
      <4>1. kept = Tail(longer) /\ Len(longer) \in Nat /\ Len(longer) > 2
        BY <2>4, <3>1, HistoryHolds
      <4>2. /\ Tail(longer) \in Seq(Entries) /\ Len(Tail(longer)) = Len(longer) - 1
            /\ Tail(longer)[Len(longer) - 1] = longer[Len(longer)]
        BY <2>4, <4>1
      <4> QED
        BY <2>3, <2>4, <4>1, <4>2, HistoryHolds
    <3>2. CASE ~(Len(longer) > MaxHistory)
      BY <2>4, <3>2, HistoryHolds
    <3> QED
      BY <3>1, <3>2
  <2> HIDE DEF kept
  <2>6. Typed(g) /\ SameViews(f, g) /\ g.m_History = kept /\ g.m_HistoryIndex = Len(kept)
    BY <2>5, OtherHistory
  <2> HIDE DEF g
  <2>7. KnowsActive(g)
    BY <2>2, <2>5, <2>6 DEF KnowsActive, SameViews
  <2> QED
    BY <2>1, <2>6, <2>7
<1> QED
  BY <1>1, <1>2, <1>3

\* The maps agree as they did when only the history is another one.
LEMMA SameViewsAgree ==
  ASSUME NEW f, NEW g, SameViews(f, g)
  PROVE /\ Agree(f) => Agree(g)
        /\ ActiveIfAny(f) => ActiveIfAny(g)
  BY DEF SameViews, Agree, ActiveIfAny, IsOpen

LEMMA KnowsIs == ASSUME NEW f PROVE Knows(f) <=> ActiveIfAny(f) /\ KnowsActive(f)
  BY DEF Knows, ActiveIfAny, KnowsActive

LEMMA RecordNavigationWhole ==
  ASSUME NEW f, Typed(f), Agree(f), ActiveIfAny(f)
  PROVE Whole(RecordNavigation(f)) /\ SameViews(f, RecordNavigation(f))
  BY RecordNavigationKnows, SameViewsAgree, KnowsIs DEF Whole

LEMMA SetActivePageWhole ==
  ASSUME NEW f, Whole(f), NEW page \in 1..Len(f.m_Pages)
  PROVE /\ Whole(SetActivePage(f, page))
        /\ SetActivePage(f, page).m_Views = f.m_Views
        /\ SetActivePage(f, page).m_Views2 = f.m_Views2
        /\ SetActivePage(f, page).m_Pages = f.m_Pages
<1>1. CASE page = f.m_Active
  BY <1>1 DEF SetActivePage
<1>2. CASE page # f.m_Active
  <2> DEFINE g == [f EXCEPT !.m_Active = page]
  <2>1. SetActivePage(f, page) = RecordNavigation(g)
    BY <1>2 DEF SetActivePage
  <2>2. Typed(f) /\ Agree(f) /\ Knows(f) /\ f \in Frames /\ Len(f.m_Pages) \in Nat
    BY FieldsOf DEF Whole, Typed
  <2>3. /\ g.m_Pages = f.m_Pages /\ g.m_Active = page
        /\ g.m_Views = f.m_Views /\ g.m_Views2 = f.m_Views2 /\ g.position = f.position
        /\ g.m_History = f.m_History /\ g.m_HistoryIndex = f.m_HistoryIndex
    BY <2>2 DEF Frames
  <2>4. g \in Frames
    <3>1. page \in Nat
      BY <2>2
    <3> QED
      BY <2>2, <3>1 DEF Frames
  <2> HIDE DEF g
  <2>5. Typed(g)
    BY <2>2, <2>3, <2>4 DEF Typed
  <2>6. Agree(g)
    BY <2>2, <2>3 DEF Agree, IsOpen
  <2>7. ActiveIfAny(g)
    BY <2>2, <2>3 DEF ActiveIfAny
  <2> QED
    BY <2>1, <2>3, <2>5, <2>6, <2>7, RecordNavigationWhole DEF SameViews
<1> QED
  BY <1>1, <1>2

-----------------------------------------------------------------------------

LEMMA UsedHandles == ASSUME NEW f, Typed(f) PROVE Used(f) \subseteq Handles
<1>1. \A h \in ToSet(f.m_Pages) : h \in Handles
  BY FieldsOf DEF ToSet
<1>2. \A entry \in ToSet(f.m_History) : entry.Page \in Handles
  <2>1. \A entry \in ToSet(f.m_History) : entry \in Entries
    BY FieldsOf DEF ToSet
  <2> QED
    BY <2>1 DEF Entries
<1> QED
  BY <1>1, <1>2 DEF Used

LEMMA FirstPositionIs == ASSUME NEW t PROVE FirstPosition(t) \in Positions \cup {None}
  BY TextsHavePositions DEF FirstPosition

\* A page is added, and is the active one.
LEMMA AddPageOpens ==
  ASSUME NEW f, Typed(f), NEW h \in Handles
  PROVE /\ Typed(AddPage(f, h)) /\ KnowsActive(AddPage(f, h))
        /\ AddPage(f, h).m_Pages = Append(f.m_Pages, h)
        /\ AddPage(f, h).m_Active = Len(f.m_Pages) + 1
        /\ AddPage(f, h).m_Views = f.m_Views /\ AddPage(f, h).m_Views2 = f.m_Views2
        /\ AddPage(f, h).position = f.position
<1> DEFINE pages == Append(f.m_Pages, h)
           page == Len(f.m_Pages) + 1
           longer == [f EXCEPT !.m_Pages = pages]
           g == [longer EXCEPT !.m_Active = page]
<1>1. /\ f \in Frames /\ f.m_Pages \in Seq(Handles) /\ Len(f.m_Pages) \in Nat
      /\ f.m_Active \in 0..Len(f.m_Pages)
  BY FieldsOf DEF Typed
<1>2. /\ pages \in Seq(Handles) /\ Len(pages) = page /\ page \in Nat /\ page # f.m_Active
  BY <1>1
<1> HIDE DEF pages, page
<1>3. longer \in Frames /\ longer.m_Active = f.m_Active
  BY <1>1, <1>2 DEF Frames
<1>4. AddPage(f, h) = RecordNavigation(g)
  <2>1. AddPage(f, h) = SetActivePage(longer, page)
    <3>1. [f EXCEPT !.m_Pages = Append(@, h)] = longer
      BY DEF pages
    <3> QED
      BY <3>1 DEF AddPage, page
  <2> QED
    BY <1>2, <1>3, <2>1 DEF SetActivePage
<1>5. /\ g.m_Pages = pages /\ g.m_Active = page
      /\ g.m_Views = f.m_Views /\ g.m_Views2 = f.m_Views2 /\ g.position = f.position
      /\ g.m_History = f.m_History /\ g.m_HistoryIndex = f.m_HistoryIndex
  BY <1>1 DEF Frames
<1>6. g \in Frames
  BY <1>1, <1>2 DEF Frames
<1> HIDE DEF g
<1>7. Typed(g)
  BY <1>2, <1>5, <1>6 DEF Typed
<1>8. /\ Typed(RecordNavigation(g)) /\ KnowsActive(RecordNavigation(g))
      /\ SameViews(g, RecordNavigation(g))
  BY <1>7, RecordNavigationKnows
<1> QED
  BY <1>4, <1>5, <1>8 DEF SameViews, pages, page

\* A view that is not open opens in a new window.
LEMMA InsertWhole ==
  ASSUME NEW f, Whole(f), NEW t \in Types, f.m_Views[t] = None,
         NEW h \in Handles, h \notin Used(f)
  PROVE /\ Whole(Insert(f, t, h)) /\ Insert(f, t, h).m_Views[t] = h
        /\ Insert(f, t, h).m_Pages = Append(f.m_Pages, h)
<1> DEFINE placed == [f EXCEPT !.position[h] = FirstPosition(t)]
           opened == AddPage(placed, h)
           g == [opened EXCEPT !.m_Views[t] = h, !.m_Views2[h] = t]
<1>1. Typed(f) /\ Agree(f) /\ Knows(f) /\ f \in Frames
  BY DEF Whole, Typed
<1>2. /\ f.m_Pages \in Seq(Handles) /\ Len(f.m_Pages) \in Nat /\ DOMAIN f.m_Pages = 1..Len(f.m_Pages)
      /\ f.m_Views \in [Types -> Handles \cup {None}]
      /\ f.m_Views2 \in [Handles -> Types \cup {None}]
  BY <1>1, FieldsOf
<1>3. /\ Typed(placed) /\ placed.m_Pages = f.m_Pages
      /\ placed.m_Views = f.m_Views /\ placed.m_Views2 = f.m_Views2
  <2>1. /\ placed.m_Pages = f.m_Pages /\ placed.m_Active = f.m_Active
        /\ placed.m_Views = f.m_Views /\ placed.m_Views2 = f.m_Views2
        /\ placed.m_History = f.m_History /\ placed.m_HistoryIndex = f.m_HistoryIndex
    BY <1>1 DEF Frames
  <2>2. placed \in Frames
    BY <1>1, FirstPositionIs DEF Frames
  <2> QED
    BY <1>1, <2>1, <2>2 DEF Typed
<1> HIDE DEF placed
<1>4. /\ Typed(opened) /\ KnowsActive(opened)
      /\ opened.m_Pages = Append(f.m_Pages, h) /\ opened.m_Active = Len(f.m_Pages) + 1
      /\ opened.m_Views = f.m_Views /\ opened.m_Views2 = f.m_Views2
  BY <1>3, AddPageOpens
<1>5. Insert(f, t, h) = g
  BY DEF Insert, placed
<1> HIDE DEF opened
<1>6. /\ g.m_Pages = Append(f.m_Pages, h) /\ g.m_Active = Len(f.m_Pages) + 1
      /\ g.m_Views = [f.m_Views EXCEPT ![t] = h] /\ g.m_Views2 = [f.m_Views2 EXCEPT ![h] = t]
      /\ g.m_History = opened.m_History /\ g.m_HistoryIndex = opened.m_HistoryIndex
  BY <1>4 DEF Typed, Frames
<1>7. g \in Frames
  BY <1>4 DEF Typed, Frames
<1> HIDE DEF g
<1>8. Typed(g)
  BY <1>4, <1>6, <1>7 DEF Typed
<1>9. KnowsActive(g) /\ ActiveIfAny(g)
  BY <1>2, <1>4, <1>6 DEF KnowsActive, ActiveIfAny
<1>10. /\ Len(g.m_Pages) = Len(f.m_Pages) + 1 /\ DOMAIN g.m_Pages = 1..(Len(f.m_Pages) + 1)
       /\ g.m_Pages[Len(f.m_Pages) + 1] = h
       /\ \A i \in 1..Len(f.m_Pages) : g.m_Pages[i] = f.m_Pages[i]
  BY <1>2, <1>6
<1>11. h \notin ToSet(f.m_Pages) /\ \A i \in 1..Len(f.m_Pages) : f.m_Pages[i] # h
  BY <1>2 DEF Used, ToSet
<1>12. \A other : other \in ToSet(g.m_Pages) <=> other \in ToSet(f.m_Pages) \/ other = h
  <2>1. Len(f.m_Pages) + 1 \in 1..(Len(f.m_Pages) + 1)
    BY <1>2
  <2>2. \A i \in 1..(Len(f.m_Pages) + 1) : i \in 1..Len(f.m_Pages) \/ i = Len(f.m_Pages) + 1
    BY <1>2
  <2> QED
    BY <1>2, <1>10, <2>1, <2>2 DEF ToSet
<1>13. Agree(g)
  <2>1. ASSUME NEW other \in Handles PROVE IsOpen(g, other) <=> g.m_Views2[other] # None
    <3>1. CASE other = h
      BY <1>2, <1>6, <1>12, <3>1, NoneIsNo DEF IsOpen
    <3>2. CASE other # h
      BY <1>1, <1>2, <1>6, <1>12, <3>2 DEF IsOpen, Agree
    <3> QED
      BY <3>1, <3>2
  <2>2. ASSUME NEW other \in Handles, NEW u \in Types
        PROVE g.m_Views2[other] = u <=> g.m_Views[u] = other
    <3>1. f.m_Views2[h] = None
      BY <1>1, <1>11 DEF Agree, IsOpen
    <3>2. f.m_Views2[other] = u <=> f.m_Views[u] = other
      BY <1>1 DEF Agree
    <3>3. f.m_Views2[h] = u <=> f.m_Views[u] = h
      BY <1>1 DEF Agree
    <3>4. f.m_Views2[other] = t <=> f.m_Views[t] = other
      BY <1>1 DEF Agree
    <3> QED
      BY <1>2, <1>6, <3>1, <3>2, <3>3, <3>4, NoneIsNo
  <2>3. IsInjective(g.m_Pages)
    <3> SUFFICES ASSUME NEW i \in 1..(Len(f.m_Pages) + 1), NEW j \in 1..(Len(f.m_Pages) + 1),
                        g.m_Pages[i] = g.m_Pages[j]
                 PROVE i = j
      BY <1>10 DEF IsInjective
    <3>1. \A k \in 1..(Len(f.m_Pages) + 1) : k \in 1..Len(f.m_Pages) \/ k = Len(f.m_Pages) + 1
      BY <1>2
    <3>2. CASE i \in 1..Len(f.m_Pages) /\ j \in 1..Len(f.m_Pages)
      BY <1>1, <1>2, <1>10, <3>2 DEF Agree, IsInjective
    <3>3. CASE i \notin 1..Len(f.m_Pages) \/ j \notin 1..Len(f.m_Pages)
      BY <1>10, <1>11, <3>1, <3>3
    <3> QED
      BY <3>2, <3>3
  <2> QED
    BY <2>1, <2>2, <2>3 DEF Agree
<1>14. Whole(g)
  BY <1>8, <1>9, <1>13, KnowsIs DEF Whole
<1> QED
  BY <1>2, <1>5, <1>6, <1>14

\* A view is shown, in the page it has or in a new one.
LEMMA ShowViewWhole ==
  ASSUME NEW f, Whole(f), NEW t \in Types, Used(f) # Handles
  PROVE /\ Whole(ShowView(f, t)) /\ ShowView(f, t).m_Views[t] \in Handles
        /\ Len(ShowView(f, t).m_Pages) >= Len(f.m_Pages)
<1>1. Typed(f) /\ Agree(f)
  BY DEF Whole
<1>2. CASE f.m_Views[t] # None
  <2> DEFINE h == f.m_Views[t]
  <2>1. h \in Handles
    BY <1>1, <1>2, FieldsOf
  <2>2. f.m_Views2[h] = t
    BY <1>1, <2>1 DEF Agree
  <2>3. h \in ToSet(f.m_Pages)
    BY <1>1, <2>1, <2>2, NoneIsNo DEF Agree, IsOpen
  <2>4. \E p \in 1..Len(f.m_Pages) : f.m_Pages[p] = f.m_Views[t]
    BY <1>1, <2>3, FieldsOf DEF ToSet
  <2>5. PageOf(f, t) \in 1..Len(f.m_Pages)
    BY <2>4 DEF PageOf
  <2>6. ShowView(f, t) = SetActivePage(f, PageOf(f, t))
    BY <1>2 DEF ShowView
  <2> QED
    BY <1>1, <2>1, <2>5, <2>6, SetActivePageWhole, FieldsOf
<1>3. CASE f.m_Views[t] = None
  <2>1. \E h \in Handles : h \notin Used(f)
    BY <1>1, UsedHandles
  <2>2. New(f) \in Handles /\ New(f) \notin Used(f)
    BY <2>1 DEF New
  <2>3. ShowView(f, t) = Insert(f, t, New(f))
    BY <1>3 DEF ShowView
  <2>4. /\ Whole(Insert(f, t, New(f))) /\ Insert(f, t, New(f)).m_Views[t] = New(f)
        /\ Insert(f, t, New(f)).m_Pages = Append(f.m_Pages, New(f))
    BY <1>3, <2>2, InsertWhole
  <2>5. f.m_Pages \in Seq(Handles) /\ Len(f.m_Pages) \in Nat
    BY <1>1, FieldsOf
  <2>6. Len(Append(f.m_Pages, New(f))) = Len(f.m_Pages) + 1
    BY <2>2, <2>5
  <2> QED
    BY <2>2, <2>3, <2>4, <2>5, <2>6
<1> QED
  BY <1>2, <1>3

-----------------------------------------------------------------------------

LEMMA RemoveAtIs ==
  ASSUME NEW X, NEW s \in Seq(X), NEW i \in 1..Len(s)
  PROVE /\ RemoveAt(s, i) \in Seq(X) /\ Len(RemoveAt(s, i)) = Len(s) - 1
        /\ \A k \in 1..(Len(s) - 1) : RemoveAt(s, i)[k] = IF k < i THEN s[k] ELSE s[k + 1]
<1>1. Len(s) \in Nat /\ i \in Nat /\ i >= 1 /\ i <= Len(s)
  OBVIOUS
<1> DEFINE before == SubSeq(s, 1, i - 1)
           after == SubSeq(s, i + 1, Len(s))
<1>2. /\ before \in Seq(X) /\ Len(before) = i - 1
      /\ \A k \in 1..(i - 1) : before[k] = s[k]
  BY <1>1
<1>3. /\ after \in Seq(X) /\ Len(after) = Len(s) - i
      /\ \A k \in 1..(Len(s) - i) : after[k] = s[k + i]
  BY <1>1
<1>4. RemoveAt(s, i) = before \o after
  BY DEF RemoveAt
<1> HIDE DEF before, after
<1>5. before \o after \in Seq(X) /\ Len(before \o after) = Len(s) - 1
  <2>1. before \o after \in Seq(X) /\ Len(before \o after) = Len(before) + Len(after)
    <3>1. before \in Seq(X) /\ after \in Seq(X)
      BY <1>2, <1>3
    <3> QED
      BY <3>1
  <2>2. (i - 1) + (Len(s) - i) = Len(s) - 1
    BY <1>1
  <2> QED
    BY <1>2, <1>3, <2>1, <2>2
<1>6. ASSUME NEW k \in 1..(Len(s) - 1)
      PROVE (before \o after)[k] = IF k < i THEN s[k] ELSE s[k + 1]
  <2>1. CASE k < i
    BY <1>1, <1>2, <1>3, <2>1
  <2>2. CASE ~(k < i)
    <3>1. k - (i - 1) \in 1..(Len(s) - i) /\ (k - (i - 1)) + i = k + 1
      BY <1>1, <2>2
    <3>2. (before \o after)[k] = after[k - (i - 1)]
      BY <1>1, <1>2, <1>3, <2>2
    <3> QED
      BY <1>3, <2>2, <3>1, <3>2
  <2> QED
    BY <2>1, <2>2
<1> QED
  BY <1>4, <1>5, <1>6

\* Without one of the elements of a sequence that has each of them once
LEMMA RemoveAtForgets ==
  ASSUME NEW X, NEW s \in Seq(X), NEW i \in 1..Len(s), IsInjective(s)
  PROVE /\ IsInjective(RemoveAt(s, i))
        /\ \A x : x \in ToSet(RemoveAt(s, i)) <=> x \in ToSet(s) /\ x # s[i]
<1> DEFINE r == RemoveAt(s, i)
           n == Len(s)
<1>1. /\ n \in Nat /\ i \in Nat /\ i >= 1 /\ i <= n /\ DOMAIN s = 1..n
  OBVIOUS
<1>2. /\ r \in Seq(X) /\ Len(r) = n - 1
      /\ \A k \in 1..(n - 1) : r[k] = IF k < i THEN s[k] ELSE s[k + 1]
  BY RemoveAtIs
<1> HIDE DEF r, n
<1>3. DOMAIN r = 1..(n - 1)
  BY <1>2
<1>4. \A j, k \in 1..n : s[j] = s[k] => j = k
  BY <1>1 DEF IsInjective
<1>5. \A k \in 1..(n - 1) :
        /\ k < i => r[k] = s[k] /\ k \in 1..n
        /\ ~(k < i) => r[k] = s[k + 1] /\ k + 1 \in 1..n
  BY <1>1, <1>2
<1>6. IsInjective(r)
  <2> SUFFICES ASSUME NEW j \in 1..(n - 1), NEW k \in 1..(n - 1), r[j] = r[k] PROVE j = k
    BY <1>3 DEF IsInjective
  <2>1. CASE j < i /\ k < i
    BY <1>4, <1>5, <2>1
  <2>2. CASE j < i /\ ~(k < i)
    <3>1. j = k + 1
      BY <1>4, <1>5, <2>2
    <3> QED
      BY <1>1, <2>2, <3>1
  <2>3. CASE ~(j < i) /\ k < i
    <3>1. j + 1 = k
      BY <1>4, <1>5, <2>3
    <3> QED
      BY <1>1, <2>3, <3>1
  <2>4. CASE ~(j < i) /\ ~(k < i)
    <3>1. j + 1 = k + 1
      BY <1>4, <1>5, <2>4
    <3> QED
      BY <1>1, <3>1
  <2> QED
    BY <2>1, <2>2, <2>3, <2>4
<1>7. ASSUME NEW x \in ToSet(r) PROVE x \in ToSet(s) /\ x # s[i]
  <2>1. PICK k \in 1..(n - 1) : r[k] = x
    BY <1>3 DEF ToSet
  <2>2. PICK l \in 1..n : s[l] = x /\ l # i
    <3>1. CASE k < i
      BY <1>1, <1>5, <2>1, <3>1
    <3>2. CASE ~(k < i)
      <4>1. k + 1 # i /\ k + 1 \in 1..n /\ s[k + 1] = x
        BY <1>1, <1>5, <2>1, <3>2
      <4> QED
        BY <4>1
    <3> QED
      BY <3>1, <3>2
  <2>3. i \in 1..n
    BY <1>1
  <2> QED
    BY <1>1, <1>4, <2>2, <2>3 DEF ToSet
<1>8. ASSUME NEW x \in ToSet(s), x # s[i] PROVE x \in ToSet(r)
  <2>1. PICK l \in 1..n : s[l] = x /\ l # i
    BY <1>1, <1>8 DEF ToSet
  <2>2. CASE l < i
    <3>1. l \in 1..(n - 1) /\ r[l] = x
      BY <1>1, <1>2, <2>1, <2>2
    <3> QED
      BY <1>3, <3>1 DEF ToSet
  <2>3. CASE ~(l < i)
    <3>1. l - 1 \in 1..(n - 1) /\ ~(l - 1 < i) /\ (l - 1) + 1 = l
      BY <1>1, <2>1, <2>3
    <3>2. r[l - 1] = x
      BY <1>5, <2>1, <3>1
    <3> QED
      BY <1>3, <3>1, <3>2 DEF ToSet
  <2> QED
    BY <2>2, <2>3
<1> QED
  BY <1>6, <1>7, <1>8 DEF r

\* A view is closed, and its page removed: what is active then is in the history.
LEMMA ClosedWhole ==
  ASSUME NEW f, Whole(f), NEW page \in 1..Len(f.m_Pages), NEW next \in AfterRemoval(f)
  PROVE Whole(Closed(f, page, next))
<1> DEFINE h == f.m_Pages[page]
           t == f.m_Views2[h]
           c == CloseTab(f, page)
           pages == RemoveAt(c.m_Pages, page)
           rest == [c EXCEPT !.m_Pages = pages]
           n == Len(f.m_Pages)
<1>1. /\ Typed(f) /\ Agree(f) /\ f \in Frames /\ ActiveIfAny(f) /\ KnowsActive(f)
  BY KnowsIs DEF Whole, Typed
<1>2. /\ f.m_Pages \in Seq(Handles) /\ n \in Nat /\ DOMAIN f.m_Pages = 1..n
      /\ f.m_Active \in 0..n /\ page \in 1..n
      /\ f.m_Views \in [Types -> Handles \cup {None}]
      /\ f.m_Views2 \in [Handles -> Types \cup {None}]
  BY <1>1, FieldsOf
<1>3. h \in Handles /\ h \in ToSet(f.m_Pages)
  BY <1>2 DEF ToSet
<1>4. t \in Types /\ f.m_Views[t] = h
  <2> HIDE DEF h
  <2>1. f.m_Views2[h] # None
    BY <1>1, <1>3 DEF Agree, IsOpen
  <2>2. t \in Types
    BY <1>2, <1>3, <2>1
  <2> QED
    BY <1>1, <1>3, <2>2 DEF Agree
<1>5. /\ c \in Frames
      /\ c.m_Pages = f.m_Pages /\ c.m_Active = f.m_Active
      /\ c.m_Views = [f.m_Views EXCEPT ![t] = None] /\ c.m_Views2 = [f.m_Views2 EXCEPT ![h] = None]
      /\ c.m_History = f.m_History /\ c.m_HistoryIndex = f.m_HistoryIndex
  <2>1. c = [f EXCEPT !.m_Views[t] = None, !.m_Views2[h] = None, !.position[h] = None]
    BY DEF CloseTab
  <2> HIDE DEF c, h, t
  <2> QED
    BY <1>1, <2>1 DEF Frames
<1> HIDE DEF c
<1>6. /\ pages \in Seq(Handles) /\ Len(pages) = n - 1
      /\ \A k \in 1..(n - 1) : pages[k] = IF k < page THEN f.m_Pages[k] ELSE f.m_Pages[k + 1]
      /\ IsInjective(pages)
      /\ \A x : x \in ToSet(pages) <=> x \in ToSet(f.m_Pages) /\ x # h
  <2>1. pages = RemoveAt(f.m_Pages, page)
    BY <1>5
  <2>2. IsInjective(f.m_Pages)
    BY <1>1 DEF Agree
  <2> HIDE DEF pages
  <2>3. /\ pages \in Seq(Handles) /\ Len(pages) = n - 1
        /\ \A k \in 1..(n - 1) : pages[k] = IF k < page THEN f.m_Pages[k] ELSE f.m_Pages[k + 1]
    BY <1>2, <2>1, RemoveAtIs
  <2>4. IsInjective(pages) /\ \A x : x \in ToSet(pages) <=> x \in ToSet(f.m_Pages) /\ x # h
    BY <1>2, <2>1, <2>2, RemoveAtForgets
  <2> QED
    BY <2>3, <2>4
<1> HIDE DEF pages
<1>7. /\ rest \in Frames /\ rest.m_Pages = pages /\ rest.m_Active = f.m_Active
      /\ rest.m_Views = c.m_Views /\ rest.m_Views2 = c.m_Views2
      /\ rest.m_History = f.m_History /\ rest.m_HistoryIndex = f.m_HistoryIndex
  BY <1>5, <1>6 DEF Frames
<1>8. ASSUME NEW g, g.m_Pages = pages, g.m_Views = c.m_Views, g.m_Views2 = c.m_Views2
      PROVE Agree(g)
  <2> HIDE DEF h, t
  <2>1. ASSUME NEW other \in Handles PROVE IsOpen(g, other) <=> g.m_Views2[other] # None
    BY <1>1, <1>2, <1>3, <1>5, <1>6, <1>8 DEF IsOpen, Agree
  <2>2. ASSUME NEW other \in Handles, NEW u \in Types
        PROVE g.m_Views2[other] = u <=> g.m_Views[u] = other
    <3>1. /\ f.m_Views2[other] = u <=> f.m_Views[u] = other
          /\ f.m_Views2[h] = u <=> f.m_Views[u] = h
          /\ f.m_Views2[other] = t <=> f.m_Views[t] = other
      BY <1>1, <1>3, <1>4 DEF Agree
    <3> QED
      BY <1>2, <1>3, <1>4, <1>5, <1>8, <3>1, NoneIsNo
  <2> QED
    BY <1>6, <1>8, <2>1, <2>2 DEF Agree
<1> HIDE DEF rest
<1>9. Closed(f, page, next) = RemovePage(c, page, next)
  BY DEF Closed, c
<1>10. CASE f.m_Active < page
  <2>1. Closed(f, page, next) = rest
    BY <1>5, <1>9, <1>10 DEF RemovePage, rest, pages
  <2>2. f.m_Active # 0
    BY <1>1, <1>2 DEF ActiveIfAny
  <2>3. Typed(rest)
    BY <1>1, <1>2, <1>6, <1>7, <1>10 DEF Typed
  <2>4. ActiveIfAny(rest)
    BY <1>2, <1>6, <1>7, <1>10, <2>2 DEF ActiveIfAny
  <2>5. pages[f.m_Active] = f.m_Pages[f.m_Active]
    BY <1>2, <1>6, <1>10, <2>2
  <2>6. KnowsActive(rest)
    BY <1>1, <1>7, <2>5 DEF KnowsActive
  <2> QED
    BY <1>7, <1>8, <2>1, <2>3, <2>4, <2>6, KnowsIs DEF Whole
<1>11. CASE f.m_Active > page
  <2> DEFINE g == [rest EXCEPT !.m_Active = @ - 1]
  <2>1. Closed(f, page, next) = g
    BY <1>2, <1>5, <1>9, <1>11 DEF RemovePage, rest, pages
  <2>2. /\ f.m_Active - 1 \in 1..(n - 1) /\ ~(f.m_Active - 1 < page)
        /\ (f.m_Active - 1) + 1 = f.m_Active /\ f.m_Active # 0
    BY <1>2, <1>11
  <2>3. /\ g \in Frames /\ g.m_Pages = pages /\ g.m_Active = f.m_Active - 1
        /\ g.m_Views = c.m_Views /\ g.m_Views2 = c.m_Views2
        /\ g.m_History = f.m_History /\ g.m_HistoryIndex = f.m_HistoryIndex
    <3>1. f.m_Active - 1 \in Nat
      BY <2>2
    <3> QED
      BY <1>7, <3>1 DEF Frames
  <2> HIDE DEF g
  <2>4. Typed(g)
    BY <1>1, <1>2, <1>6, <2>2, <2>3 DEF Typed
  <2>5. ActiveIfAny(g)
    BY <1>2, <1>6, <2>2, <2>3 DEF ActiveIfAny
  <2>6. pages[f.m_Active - 1] = f.m_Pages[f.m_Active]
    BY <1>6, <2>2
  <2>7. KnowsActive(g)
    BY <1>1, <2>2, <2>3, <2>6 DEF KnowsActive
  <2> QED
    BY <1>8, <2>1, <2>3, <2>4, <2>5, <2>7, KnowsIs DEF Whole
<1>12. CASE f.m_Active = page
  <2> DEFINE g == [rest EXCEPT !.m_Active = next]
  <2>1. Closed(f, page, next) = RecordNavigation(g)
    BY <1>2, <1>5, <1>9, <1>12 DEF RemovePage, rest, pages
  <2>2. next \in 0..(n - 1) /\ (next = 0 <=> n = 1)
    BY <1>2 DEF AfterRemoval
  <2>3. /\ g \in Frames /\ g.m_Pages = pages /\ g.m_Active = next
        /\ g.m_Views = c.m_Views /\ g.m_Views2 = c.m_Views2
        /\ g.m_History = f.m_History /\ g.m_HistoryIndex = f.m_HistoryIndex
    <3>1. next \in Nat
      BY <2>2
    <3> QED
      BY <1>7, <3>1 DEF Frames
  <2> HIDE DEF g
  <2>4. Typed(g)
    BY <1>1, <1>2, <1>6, <2>2, <2>3 DEF Typed
  <2>5. ActiveIfAny(g)
    BY <1>2, <1>6, <2>2, <2>3 DEF ActiveIfAny
  <2> QED
    BY <1>8, <2>1, <2>3, <2>4, <2>5, RecordNavigationWhole
<1> QED
  BY <1>2, <1>10, <1>11, <1>12

-----------------------------------------------------------------------------

LEMMA GreatestOf ==
  ASSUME NEW n \in Nat, NEW T, T \subseteq 1..n, T # {}
  PROVE \E i \in T : \A j \in T : j <= i
<1> DEFINE D == {n - j : j \in T}
<1>1. D \subseteq Nat /\ D # {}
  <2>1. \A j \in T : n - j \in Nat
    OBVIOUS
  <2>2. PICK j \in T : TRUE
    OBVIOUS
  <2>3. n - j \in D
    BY <2>2
  <2> QED
    BY <2>1, <2>3
<1>2. PICK d \in D : \A e \in D : d <= e
  <2> HIDE DEF D
  <2> QED
    BY <1>1, LeastOf
<1>3. PICK i \in T : d = n - i
  BY <1>2
<1>4. \A j \in T : n - i <= n - j
  BY <1>2, <1>3
<1> QED
  BY <1>3, <1>4

\* An entry of the history whose page is open is arrived at.
LEMMA ArriveWhole ==
  ASSUME NEW f, Whole(f), NEW history \in Seq(Entries), Len(history) <= MaxHistory,
         NEW index \in 1..Len(history), IsOpen(f, history[index].Page)
  PROVE Whole(Arrive(f, history, index))
<1> DEFINE entry == history[index]
           page == CHOOSE p \in 1..Len(f.m_Pages) : f.m_Pages[p] = entry.Page
           position == [f.position EXCEPT ![entry.Page] =
                          IF entry.Position = None THEN @ ELSE entry.Position]
           g == [f EXCEPT !.m_History = history, !.m_HistoryIndex = index,
                          !.m_Active = page, !.position = position]
<1>1. /\ Typed(f) /\ f \in Frames /\ Agree(f)
      /\ f.m_Pages \in Seq(Handles) /\ Len(f.m_Pages) \in Nat
      /\ DOMAIN f.m_Pages = 1..Len(f.m_Pages)
      /\ f.position \in [Handles -> Positions \cup {None}]
  BY FieldsOf DEF Whole, Typed
<1>2. entry \in Entries /\ index \in Nat /\ index # 0 /\ index <= Len(history)
  OBVIOUS
<1>3. page \in 1..Len(f.m_Pages) /\ f.m_Pages[page] = entry.Page
  <2>1. \E p \in 1..Len(f.m_Pages) : f.m_Pages[p] = entry.Page
    BY <1>1 DEF IsOpen, ToSet
  <2> HIDE DEF entry
  <2> QED
    BY <2>1
<1>4. position \in [Handles -> Positions \cup {None}]
  <2>1. entry.Page \in Handles /\ entry.Position \in Positions \cup {None}
    BY <1>2 DEF Entries
  <2> HIDE DEF entry
  <2> QED
    BY <1>1, <2>1
<1>5. Arrive(f, history, index) = g
  <2>1. g = [f EXCEPT !.m_History = history, !.m_HistoryIndex = index, !.m_Active = page,
                      !.position[entry.Page] = IF entry.Position = None THEN @ ELSE entry.Position]
    BY <1>1 DEF Frames
  <2> QED
    BY <2>1 DEF Arrive
<1> HIDE DEF entry, page, position
<1>6. page \in Nat /\ page # 0 /\ page <= Len(f.m_Pages)
  BY <1>1, <1>3
<1>7. /\ g.m_Pages = f.m_Pages /\ g.m_Active = page
      /\ g.m_Views = f.m_Views /\ g.m_Views2 = f.m_Views2
      /\ g.m_History = history /\ g.m_HistoryIndex = index
  BY <1>1 DEF Frames
<1>8. g \in Frames
  BY <1>1, <1>2, <1>4, <1>6 DEF Frames
<1> HIDE DEF g
<1>9. Typed(g)
  BY <1>2, <1>6, <1>7, <1>8 DEF Typed
<1>10. Agree(g)
  BY <1>1, <1>7 DEF Agree, IsOpen
<1>11. ActiveIfAny(g)
  BY <1>1, <1>6, <1>7 DEF ActiveIfAny
<1>12. KnowsActive(g)
  BY <1>2, <1>3, <1>7 DEF KnowsActive, entry
<1> QED
  BY <1>5, <1>9, <1>10, <1>11, <1>12, KnowsIs DEF Whole

\* The history without what is between two places: what the parts have of it
Joined(f, first, next) ==
  SubSeq(f.m_History, 1, first) \o SubSeq(f.m_History, next, Len(f.m_History))

LEMMA HistoryWithout ==
  ASSUME NEW f, Typed(f), NEW first \in 0..Len(f.m_History),
         NEW next \in 1..(Len(f.m_History) + 1), first < next
  PROVE /\ Joined(f, first, next) \in Seq(Entries)
        /\ Len(Joined(f, first, next)) = first + (Len(f.m_History) + 1 - next)
        /\ Len(Joined(f, first, next)) <= MaxHistory
        /\ \A i \in 1..first : Joined(f, first, next)[i] = f.m_History[i]
        /\ next <= Len(f.m_History) => Joined(f, first, next)[first + 1] = f.m_History[next]
<1> DEFINE s == f.m_History
           n == Len(s)
           before == SubSeq(s, 1, first)
           after == SubSeq(s, next, n)
           history == before \o after
<1>1. s \in Seq(Entries) /\ n \in Nat /\ n <= MaxHistory /\ first \in 0..n /\ next \in 1..(n + 1)
  BY FieldsOf
<1> HIDE DEF s, n
<1>2. before \in Seq(Entries) /\ Len(before) = first /\ \A i \in 1..first : before[i] = s[i]
  BY <1>1 DEF n
<1>3. /\ after \in Seq(Entries) /\ Len(after) = n + 1 - next
      /\ next <= n => after[1] = s[next]
  BY <1>1 DEF n
<1> HIDE DEF before, after
<1>4. history \in Seq(Entries) /\ Len(history) = Len(before) + Len(after)
  <2>1. before \in Seq(Entries) /\ after \in Seq(Entries)
    BY <1>2, <1>3
  <2> QED
    BY <2>1
<1>5. Len(history) = first + (n + 1 - next) /\ Len(history) <= MaxHistory
  BY <1>1, <1>2, <1>3, <1>4, HistoryHolds
<1>6. \A i \in 1..first : history[i] = s[i]
  BY <1>1, <1>2, <1>3
<1>7. ASSUME next <= n PROVE history[first + 1] = s[next]
  <2>1. Len(after) >= 1 /\ first + 1 \in 1..(Len(before) + Len(after)) /\ (first + 1) - Len(before) = 1
    BY <1>1, <1>2, <1>3, <1>7
  <2>2. history[first + 1] = after[1]
    BY <1>1, <1>2, <1>3, <2>1
  <2> QED
    BY <1>3, <1>7, <2>2
<1> QED
  BY <1>4, <1>5, <1>6, <1>7 DEF history, before, after, s, n, Joined

\* The history has other entries, and what is active is still the one the index is at.
LEMMA OtherHistoryWhole ==
  ASSUME NEW f, Whole(f), NEW history \in Seq(Entries), Len(history) <= MaxHistory,
         NEW index \in Nat, index <= Len(history),
         f.m_HistoryIndex # 0 => index # 0 /\ history[index] = f.m_History[f.m_HistoryIndex]
  PROVE Whole(WithHistory(f, history, index))
<1> DEFINE g == WithHistory(f, history, index)
<1>1. Typed(f) /\ Agree(f) /\ ActiveIfAny(f) /\ KnowsActive(f)
  BY KnowsIs DEF Whole
<1>2. Typed(g) /\ SameViews(f, g) /\ g.m_History = history /\ g.m_HistoryIndex = index
  BY <1>1, OtherHistory
<1> HIDE DEF g
<1>3. Agree(g) /\ ActiveIfAny(g)
  BY <1>1, <1>2, SameViewsAgree
<1>4. KnowsActive(g)
  BY <1>1, <1>2 DEF KnowsActive, SameViews
<1>5. Whole(g)
  BY <1>2, <1>3, <1>4, KnowsIs DEF Whole
<1> QED
  BY <1>5 DEF g

\* Back: nothing is before, nothing that is open is, or the last one that is open is.
LEMMA GoBackIs ==
  ASSUME NEW f, Whole(f)
  PROVE \/ f.m_HistoryIndex = 0 /\ GoBack(f) = f
        \/ /\ f.m_HistoryIndex # 0
           /\ \A i \in 1..(f.m_HistoryIndex - 1) : ~IsOpen(f, f.m_History[i].Page)
           /\ GoBack(f) = WithHistory(f, Joined(f, 0, f.m_HistoryIndex), 1)
        \/ \E target \in 1..(f.m_HistoryIndex - 1) :
             /\ IsOpen(f, f.m_History[target].Page)
             /\ \A i \in (target + 1)..(f.m_HistoryIndex - 1) : ~IsOpen(f, f.m_History[i].Page)
             /\ GoBack(f) = Arrive(f, Joined(f, target, f.m_HistoryIndex), target)
<1> DEFINE index == f.m_HistoryIndex
           before == {i \in 1..(index - 1) : IsOpen(f, f.m_History[i].Page)}
           target == IF before = {} THEN 0 ELSE CHOOSE i \in before : \A j \in before : j <= i
           history == Joined(f, target, index)
<1>1. index \in Nat
  BY FieldsOf DEF Whole
<1>2. CASE index = 0
  BY <1>2 DEF GoBack
<1>3. CASE index # 0
  <2>1. CASE before = {}
    <3>1. IndexAfter(f, index - 1) = 1
      BY <1>1 DEF IndexAfter
    <3>2. GoBack(f) = WithHistory(f, history, 1) /\ target = 0
      BY <1>3, <2>1, <3>1 DEF GoBack, Joined, WithHistory
    <3> QED
      BY <1>3, <2>1, <3>2
  <2>2. CASE before # {}
    <3>1. before \subseteq 1..(index - 1) /\ index - 1 \in Nat
      BY <1>1, <1>3
    <3>2. \E i \in before : \A j \in before : j <= i
      <4> HIDE DEF before, index
      <4> QED
        BY <2>2, <3>1, GreatestOf
    <3>3. target \in before /\ \A j \in before : j <= target
      <4> HIDE DEF before
      <4> QED
        BY <2>2, <3>2
    <3>4. target \in 1..(index - 1) /\ IsOpen(f, f.m_History[target].Page) /\ target # 0
      <4> HIDE DEF target
      <4> QED
        BY <1>1, <3>3
    <3>5. GoBack(f) = Arrive(f, history, target)
      BY <1>3, <3>4 DEF GoBack, Joined
    <3>6. \A i \in (target + 1)..(index - 1) : ~IsOpen(f, f.m_History[i].Page)
      <4> HIDE DEF target
      <4> QED
        BY <1>1, <3>3, <3>4
    <3> HIDE DEF target, before
    <3> QED
      BY <3>4, <3>5, <3>6
  <2> QED
    BY <2>1, <2>2
<1> QED
  BY <1>2, <1>3

LEMMA GoBackWhole == ASSUME NEW f, Whole(f) PROVE Whole(GoBack(f))
<1> DEFINE n == Len(f.m_History)
           index == f.m_HistoryIndex
<1>1. Typed(f) /\ n \in Nat /\ index \in 0..n
  BY FieldsOf DEF Whole
<1>2. CASE /\ index # 0
           /\ GoBack(f) = WithHistory(f, Joined(f, 0, index), 1)
  <2> DEFINE history == Joined(f, 0, index)
  <2>1. 0 \in 0..n /\ index \in 1..(n + 1) /\ 0 < index /\ index <= n
    BY <1>1, <1>2
  <2>2. /\ history \in Seq(Entries) /\ Len(history) = 0 + (n + 1 - index)
        /\ Len(history) <= MaxHistory /\ history[0 + 1] = f.m_History[index]
    <3> HIDE DEF index
    <3> QED
      BY <1>1, <2>1, HistoryWithout
  <2> HIDE DEF history
  <2>3. 1 \in Nat /\ 1 <= Len(history) /\ history[1] = f.m_History[index]
    <3> HIDE DEF n, index
    <3> QED
      BY <1>1, <2>1, <2>2
  <2>4. Whole(WithHistory(f, history, 1))
    BY <2>2, <2>3, OtherHistoryWhole
  <2> QED
    BY <1>2, <2>4 DEF history
<1>3. ASSUME NEW target \in 1..(index - 1), IsOpen(f, f.m_History[target].Page),
             GoBack(f) = Arrive(f, Joined(f, target, index), target)
      PROVE Whole(GoBack(f))
  <2> DEFINE history == Joined(f, target, index)
  <2>1. /\ target \in 0..n /\ index \in 1..(n + 1) /\ target < index /\ index <= n
        /\ target \in Nat /\ target >= 1 /\ target \in 1..target
    BY <1>1
  <2>2. /\ history \in Seq(Entries) /\ Len(history) = target + (n + 1 - index)
        /\ Len(history) <= MaxHistory /\ history[target] = f.m_History[target]
    <3> HIDE DEF index
    <3> QED
      BY <1>1, <2>1, HistoryWithout
  <2> HIDE DEF history
  <2>3. target \in 1..Len(history) /\ IsOpen(f, history[target].Page)
    <3>1. IsOpen(f, history[target].Page)
      BY <1>3, <2>2
    <3> HIDE DEF n, index
    <3> QED
      BY <1>1, <2>1, <2>2, <3>1
  <2>4. Whole(Arrive(f, history, target))
    BY <2>2, <2>3, ArriveWhole
  <2> QED
    BY <1>3, <2>4 DEF history
<1> QED
  BY <1>2, <1>3, GoBackIs

\* Forward: nothing that is open is after, or the first one that is open is.
LEMMA GoForwardIs ==
  ASSUME NEW f, Whole(f)
  PROVE \/ /\ \A i \in (f.m_HistoryIndex + 1)..Len(f.m_History) : ~IsOpen(f, f.m_History[i].Page)
           /\ GoForward(f) = WithHistory(f, Joined(f, f.m_HistoryIndex, Len(f.m_History) + 1),
                                         f.m_HistoryIndex)
        \/ \E target \in (f.m_HistoryIndex + 1)..Len(f.m_History) :
             /\ IsOpen(f, f.m_History[target].Page)
             /\ \A i \in (f.m_HistoryIndex + 1)..(target - 1) : ~IsOpen(f, f.m_History[i].Page)
             /\ GoForward(f) = Arrive(f, Joined(f, f.m_HistoryIndex, target), f.m_HistoryIndex + 1)
<1> DEFINE n == Len(f.m_History)
           index == f.m_HistoryIndex
           after == {i \in (index + 1)..n : IsOpen(f, f.m_History[i].Page)}
           target == IF after = {} THEN n + 1 ELSE CHOOSE i \in after : \A j \in after : i <= j
           history == Joined(f, index, target)
<1>1. n \in Nat /\ index \in 0..n /\ f \in Frames
  BY FieldsOf DEF Whole, Typed
<1>2. CASE after = {}
  <2>1. GoForward(f) = [f EXCEPT !.m_History = history] /\ target = n + 1
    BY <1>2 DEF GoForward, Joined
  <2>2. [f EXCEPT !.m_History = history] = WithHistory(f, history, index)
    <3> HIDE DEF history
    <3> QED
      BY <1>1 DEF WithHistory, Frames
  <2> QED
    BY <1>2, <2>1, <2>2
<1>3. CASE after # {}
  <2>1. after \subseteq Nat
    BY <1>1
  <2>2. \E i \in after : \A j \in after : i <= j
    <3> HIDE DEF after
    <3> QED
      BY <1>3, <2>1, LeastOf
  <2>3. target \in after /\ \A j \in after : target <= j
    <3> HIDE DEF after
    <3> QED
      BY <1>3, <2>2
  <2>4. GoForward(f) = Arrive(f, history, index + 1)
    BY <1>3 DEF GoForward, Joined
  <2>5. target \in (index + 1)..n /\ IsOpen(f, f.m_History[target].Page)
    <3> HIDE DEF target
    <3> QED
      BY <2>3
  <2>6. \A i \in (index + 1)..(target - 1) : ~IsOpen(f, f.m_History[i].Page)
    <3> HIDE DEF target
    <3> QED
      BY <1>1, <2>3, <2>5
  <2> HIDE DEF target, after
  <2> QED
    BY <2>4, <2>5, <2>6
<1> QED
  BY <1>2, <1>3

LEMMA GoForwardWhole == ASSUME NEW f, Whole(f) PROVE Whole(GoForward(f))
<1> DEFINE n == Len(f.m_History)
           index == f.m_HistoryIndex
<1>1. Typed(f) /\ n \in Nat /\ index \in 0..n /\ index \in Nat
  BY FieldsOf DEF Whole
<1>2. CASE GoForward(f) = WithHistory(f, Joined(f, index, n + 1), index)
  <2> DEFINE history == Joined(f, index, n + 1)
  <2>1. n + 1 \in 1..(n + 1) /\ index < n + 1 /\ (index # 0 => index \in 1..index)
    BY <1>1
  <2>2. /\ history \in Seq(Entries) /\ Len(history) = index + (n + 1 - (n + 1))
        /\ Len(history) <= MaxHistory
        /\ index # 0 => history[index] = f.m_History[index]
    <3> HIDE DEF index
    <3> QED
      BY <1>1, <2>1, HistoryWithout
  <2> HIDE DEF history
  <2>3. index <= Len(history)
    <3> HIDE DEF n, index
    <3> QED
      BY <1>1, <2>2
  <2>4. Whole(WithHistory(f, history, index))
    BY <1>1, <2>2, <2>3, OtherHistoryWhole
  <2> QED
    BY <1>2, <2>4 DEF history
<1>3. ASSUME NEW target \in (index + 1)..n, IsOpen(f, f.m_History[target].Page),
             GoForward(f) = Arrive(f, Joined(f, index, target), index + 1)
      PROVE Whole(GoForward(f))
  <2> DEFINE history == Joined(f, index, target)
             here == index + 1
  <2>1. target \in 1..(n + 1) /\ index < target /\ target <= n /\ target \in Nat
    BY <1>1
  <2>2. /\ history \in Seq(Entries) /\ Len(history) = index + (n + 1 - target)
        /\ Len(history) <= MaxHistory /\ history[index + 1] = f.m_History[target]
    <3> HIDE DEF index
    <3> QED
      BY <1>1, <2>1, HistoryWithout
  <2> HIDE DEF history
  <2>3. here \in 1..Len(history)
    <3> HIDE DEF n, index
    <3> QED
      BY <1>1, <2>1, <2>2
  <2>4. IsOpen(f, history[here].Page)
    BY <1>3, <2>2
  <2> HIDE DEF here
  <2>5. Whole(Arrive(f, history, here))
    BY <2>2, <2>3, <2>4, ArriveWhole
  <2> QED
    BY <1>3, <2>5 DEF history, here
<1> QED
  BY <1>2, <1>3, GoForwardIs

-----------------------------------------------------------------------------

\* All the views are closed.
LEMMA CloseFileViewsWhole ==
  ASSUME NEW f, Typed(f)
  PROVE /\ Whole(CloseFileViews(f)) /\ CloseFileViews(f).m_Active = 0
        /\ CloseFileViews(f).m_Pages = <<>> /\ CloseFileViews(f).m_History = f.m_History
<1> DEFINE g == CloseFileViews(f)
<1>1. f \in Frames /\ Typed(f)
  BY DEF Typed
<1>2. /\ g.m_Pages = <<>> /\ g.m_Active = 0
      /\ g.m_Views = [t \in Types |-> None] /\ g.m_Views2 = [h \in Handles |-> None]
      /\ g.m_History = f.m_History /\ g.m_HistoryIndex = f.m_HistoryIndex
  BY <1>1 DEF Frames, CloseFileViews
<1>3. g \in Frames
  <2>1. /\ <<>> \in Seq(Handles) /\ 0 \in Nat
        /\ [t \in Types |-> None] \in [Types -> Handles \cup {None}]
        /\ [h \in Handles |-> None] \in [Handles -> Types \cup {None}]
        /\ [h \in Handles |-> None] \in [Handles -> Positions \cup {None}]
    OBVIOUS
  <2> DEFINE views == [t \in Types |-> None]
             none == [h \in Handles |-> None]
             pages == <<>>
  <2>2. g = [f EXCEPT !.m_Pages = pages, !.m_Active = 0, !.m_Views = views, !.m_Views2 = none,
                      !.position = none]
    BY DEF CloseFileViews
  <2> HIDE DEF views, none, pages, g
  <2> QED
    BY <1>1, <2>1, <2>2 DEF Frames, views, none, pages
<1> HIDE DEF g
<1>4. Typed(g)
  BY <1>1, <1>2, <1>3 DEF Typed
<1>5. ToSet(g.m_Pages) = {} /\ IsInjective(g.m_Pages)
  BY <1>2 DEF ToSet, IsInjective
<1>6. Agree(g)
  BY <1>2, <1>5, NoneIsNo DEF Agree, IsOpen
<1>7. ActiveIfAny(g) /\ KnowsActive(g)
  BY <1>2 DEF ActiveIfAny, KnowsActive
<1>8. Whole(g)
  BY <1>4, <1>6, <1>7, KnowsIs DEF Whole
<1> QED
  BY <1>2, <1>8 DEF g

\* The history is forgotten: what is active, if anything is, is not in it.
LEMMA ResetNavigationKeeps ==
  ASSUME NEW f, Typed(f)
  PROVE /\ Typed(ResetNavigation(f)) /\ SameViews(f, ResetNavigation(f))
        /\ ResetNavigation(f).m_History = <<>>
<1> DEFINE none == <<>>
<1>1. none \in Seq(Entries) /\ Len(none) = 0 /\ 0 \in Nat
  OBVIOUS
<1>2. ResetNavigation(f) = WithHistory(f, none, 0)
  BY DEF ResetNavigation, WithHistory
<1> HIDE DEF none
<1>3. Len(none) <= MaxHistory /\ 0 <= Len(none)
  BY <1>1, HistoryHolds
<1>4. /\ Typed(WithHistory(f, none, 0)) /\ SameViews(f, WithHistory(f, none, 0))
      /\ WithHistory(f, none, 0).m_History = none
  BY <1>1, <1>3, OtherHistory
<1> QED
  BY <1>2, <1>4 DEF none

LEMMA OpenFileWhole == ASSUME NavigationInv, OpenFile PROVE Whole(frame')
<1> DEFINE reset == ResetNavigation(frame)
           closed == CloseFileViews(reset)
<1>1. Typed(frame) /\ Used(frame) # Handles /\ frame' = ShowView(closed, Root) /\ Root \in Types
  BY RootIsOfTheTree DEF NavigationInv, Whole, OpenFile, HasRoom, Step
<1>2. Used(frame) \subseteq Handles
  BY <1>1, UsedHandles
<1>3. Typed(reset) /\ reset.m_History = <<>>
  BY <1>1, ResetNavigationKeeps
<1> HIDE DEF reset
<1>4. Whole(closed) /\ closed.m_Pages = <<>> /\ closed.m_History = <<>>
  BY <1>3, CloseFileViewsWhole
<1> HIDE DEF closed
<1>5. Used(closed) = {}
  BY <1>4 DEF Used, ToSet
<1> QED
  BY <1>1, <1>2, <1>4, <1>5, ShowViewWhole

LEMMA OnFileCloseWhole == ASSUME NavigationInv, OnFileClose PROVE Whole(frame')
<1> DEFINE closed == CloseFileViews(frame)
           g == ResetNavigation(closed)
<1>1. Typed(frame) /\ frame' = g
  BY DEF NavigationInv, Whole, OnFileClose, Step
<1>2. Whole(closed) /\ closed.m_Active = 0
  BY <1>1, CloseFileViewsWhole
<1> HIDE DEF closed
<1>3. Typed(closed) /\ Agree(closed) /\ ActiveIfAny(closed)
  BY <1>2, KnowsIs DEF Whole
<1>4. Typed(g) /\ SameViews(closed, g)
  BY <1>3, ResetNavigationKeeps
<1> HIDE DEF g
<1>5. Agree(g) /\ ActiveIfAny(g) /\ KnowsActive(g)
  BY <1>2, <1>3, <1>4, SameViewsAgree DEF SameViews, KnowsActive
<1> QED
  BY <1>1, <1>4, <1>5, KnowsIs DEF Whole

LEMMA OnViewWhole == ASSUME NavigationInv, NEW t \in Types, OnView(t) PROVE Whole(frame')
  BY ShowViewWhole DEF NavigationInv, OnView, HasRoom, Step

\* A position is another one, and what the history has of it is as it was.
LEMMA PlacedWhole ==
  ASSUME NEW f, Whole(f), NEW h, NEW position \in Positions
  PROVE Whole([f EXCEPT !.position[h] = position])
<1> DEFINE g == [f EXCEPT !.position[h] = position]
<1>1. Typed(f) /\ f \in Frames /\ Agree(f) /\ ActiveIfAny(f) /\ KnowsActive(f)
  BY KnowsIs DEF Whole, Typed
<1>2. /\ g.m_Pages = f.m_Pages /\ g.m_Active = f.m_Active
      /\ g.m_Views = f.m_Views /\ g.m_Views2 = f.m_Views2
      /\ g.m_History = f.m_History /\ g.m_HistoryIndex = f.m_HistoryIndex
  BY <1>1 DEF Frames
<1>3. g \in Frames
  BY <1>1 DEF Frames
<1> HIDE DEF g
<1>4. Typed(g)
  BY <1>1, <1>2, <1>3 DEF Typed
<1>5. Agree(g) /\ ActiveIfAny(g) /\ KnowsActive(g)
  BY <1>1, <1>2 DEF Agree, IsOpen, ActiveIfAny, KnowsActive
<1>6. Whole(g)
  BY <1>4, <1>5, KnowsIs DEF Whole
<1> QED
  BY <1>6 DEF g

LEMMA MoveToWhole ==
  ASSUME NavigationInv, NEW position \in Positions, MoveTo(position) PROVE Whole(frame')
  BY PlacedWhole DEF NavigationInv, MoveTo, Step

LEMMA FocusWhole ==
  ASSUME NavigationInv, NEW page \in 1..Len(frame.m_Pages), Focus(page) PROVE Whole(frame')
  BY SetActivePageWhole DEF NavigationInv, Focus, Step

LEMMA CameFromWhole == ASSUME NEW f, Whole(f) PROVE Whole(CameFrom(f))
  BY RecordNavigationWhole, KnowsIs DEF Whole, CameFrom

LEMMA GoToWhole ==
  ASSUME NavigationInv, NEW t \in Types, NEW position \in Positions, GoTo(t, position)
  PROVE Whole(frame') /\ from' \in Entries \cup {None}
<1> DEFINE came == CameFrom(frame)
           shown == ShowView(came, t)
           placed == SetNavigationPosition(shown, t, position)
           gone == RecordNavigation(placed)
<1>1. Whole(frame) /\ Used(came) # Handles /\ frame' = gone
  BY DEF NavigationInv, GoTo
<1>2. Whole(came)
  BY <1>1, CameFromWhole
<1> HIDE DEF came
<1>3. Whole(shown)
  BY <1>1, <1>2, ShowViewWhole
<1> HIDE DEF shown
<1>4. Whole(placed)
  BY <1>3, PlacedWhole DEF SetNavigationPosition
<1> HIDE DEF placed
<1>5. Whole(gone)
  BY <1>4, RecordNavigationWhole, KnowsIs DEF Whole
<1>6. from' \in Entries \cup {None}
  <2>1. from' = IF frame.m_Active # 0 /\ Place(gone) # Place(frame) THEN Place(frame) ELSE None
    BY DEF GoTo, came, shown, placed
  <2>2. frame.m_Active # 0 => Place(frame) \in Entries
    BY <1>1, PlaceIsAnEntry DEF Whole
  <2> QED
    BY <2>1, <2>2
<1> QED
  BY <1>1, <1>5, <1>6

LEMMA GoToNothingWhole == ASSUME NavigationInv, GoToNothing PROVE Whole(frame')
  BY CameFromWhole DEF NavigationInv, GoToNothing, Step

LEMMA ClosePageWhole ==
  ASSUME NavigationInv, NEW page \in 1..Len(frame.m_Pages), ClosePage(page) PROVE Whole(frame')
  BY ClosedWhole DEF NavigationInv, ClosePage, Step

\* The view of a page that is open has a type.
LEMMA TypeOfPage ==
  ASSUME NEW f, Typed(f), Agree(f), NEW page \in 1..Len(f.m_Pages)
  PROVE /\ f.m_Pages[page] \in Handles /\ f.m_Views2[f.m_Pages[page]] \in Types
        /\ f.m_Views[f.m_Views2[f.m_Pages[page]]] = f.m_Pages[page]
<1> DEFINE h == f.m_Pages[page]
<1>1. h \in Handles /\ h \in ToSet(f.m_Pages)
  BY FieldsOf DEF ToSet
<1> HIDE DEF h
<1>2. f.m_Views2[h] # None
  BY <1>1 DEF Agree, IsOpen
<1>3. f.m_Views2[h] \in Types
  BY <1>1, <1>2, FieldsOf
<1>4. f.m_Views[f.m_Views2[h]] = h
  BY <1>1, <1>3 DEF Agree
<1> QED
  BY <1>1, <1>3, <1>4 DEF h

LEMMA ReopenViewWhole ==
  ASSUME NavigationInv, NEW page \in 1..Len(frame.m_Pages), ReopenView(page) PROVE Whole(frame')
<1>1. PICK next \in AfterRemoval(frame) :
        /\ Used(Closed(frame, page, next)) # Handles
        /\ frame' = ShowView(Closed(frame, page, next), frame.m_Views2[frame.m_Pages[page]])
  BY DEF ReopenView, Step
<1>2. Whole(frame) /\ Whole(Closed(frame, page, next))
  BY ClosedWhole DEF NavigationInv
<1>3. frame.m_Views2[frame.m_Pages[page]] \in Types
  BY <1>2, TypeOfPage DEF Whole
<1> QED
  BY <1>1, <1>2, <1>3, ShowViewWhole

LEMMA ReplaceViewWhole ==
  ASSUME NavigationInv, NEW page \in 1..Len(frame.m_Pages), NEW t \in Types, ReplaceView(page, t)
  PROVE Whole(frame')
<1> DEFINE came == CameFrom(frame)
           shown == ShowView(came, t)
           opened == RecordNavigation(shown)
<1>1. /\ Whole(frame) /\ Used(came) # Handles
      /\ \E next \in AfterRemoval(opened) :
           frame' = IF opened.m_Active = page THEN opened ELSE Closed(opened, page, next)
  BY DEF NavigationInv, ReplaceView, Step
<1>2. Whole(came) /\ came.m_Pages = frame.m_Pages
  BY <1>1, CameFromWhole, RecordNavigationKnows DEF Whole, CameFrom, SameViews
<1> HIDE DEF came
<1>3. Whole(shown) /\ Len(shown.m_Pages) >= Len(frame.m_Pages)
  BY <1>1, <1>2, ShowViewWhole
<1> HIDE DEF shown
<1>4. Whole(opened) /\ opened.m_Pages = shown.m_Pages
  BY <1>3, RecordNavigationWhole, KnowsIs DEF Whole, SameViews
<1> HIDE DEF opened
<1>5. page \in 1..Len(opened.m_Pages)
  BY <1>1, <1>3, <1>4, FieldsOf DEF Whole
<1> QED
  BY <1>1, <1>4, <1>5, ClosedWhole

LEMMA CloseOthersWhole ==
  ASSUME NavigationInv, OnWindowCloseOthers
  PROVE Whole(frame')
<1> DEFINE h == frame.m_Pages[frame.m_Active]
           t == frame.m_Views2[h]
           pages == <<h>>
           views == [u \in Types |-> IF u = t THEN h ELSE None]
           views2 == [g \in Handles |-> IF g = h THEN t ELSE None]
           position == [g \in Handles |-> IF g = h THEN frame.position[g] ELSE None]
           g == [frame EXCEPT !.m_Pages = pages, !.m_Active = 1, !.m_Views = views,
                              !.m_Views2 = views2, !.position = position]
<1>1. /\ Typed(frame) /\ frame \in Frames /\ Agree(frame) /\ KnowsActive(frame)
      /\ frame.m_Active # 0
  BY KnowsIs DEF NavigationInv, Whole, Typed, OnWindowCloseOthers
<1>2. frame.m_Active \in 1..Len(frame.m_Pages)
  BY <1>1, FieldsOf
<1>3. h \in Handles /\ t \in Types
  BY <1>1, <1>2, TypeOfPage
<1>4. frame' = g
  BY <1>1 DEF OnWindowCloseOthers, Step, Frames
<1>5. /\ pages \in Seq(Handles) /\ Len(pages) = 1 /\ pages[1] = h /\ DOMAIN pages = 1..1
      /\ pages # <<>>
  <2> HIDE DEF h
  <2> QED
    BY <1>3
<1>6. /\ views \in [Types -> Handles \cup {None}]
      /\ views2 \in [Handles -> Types \cup {None}]
      /\ position \in [Handles -> Positions \cup {None}]
  <2>1. frame.position \in [Handles -> Positions \cup {None}]
    BY <1>1, FieldsOf
  <2> HIDE DEF h, t
  <2> QED
    BY <1>3, <2>1
<1>7. ASSUME NEW other \in Handles, NEW u \in Types
      PROVE /\ views2[other] # None <=> other = h
            /\ views2[other] = u <=> views[u] = other
  <2> HIDE DEF h, t
  <2> QED
    BY <1>3, <1>7, NoneIsNo
<1> HIDE DEF pages, views, views2, position
<1>8. /\ g.m_Pages = pages /\ g.m_Active = 1 /\ g.m_Views = views /\ g.m_Views2 = views2
      /\ g.m_History = frame.m_History /\ g.m_HistoryIndex = frame.m_HistoryIndex
  BY <1>1 DEF Frames
<1>9. g \in Frames
  BY <1>1, <1>5, <1>6 DEF Frames
<1> HIDE DEF g
<1>10. Typed(g)
  BY <1>1, <1>5, <1>8, <1>9 DEF Typed
<1>11. Agree(g)
  <2>1. ASSUME NEW other \in Handles PROVE IsOpen(g, other) <=> g.m_Views2[other] # None
    BY <1>3, <1>5, <1>7, <1>8 DEF IsOpen, ToSet
  <2>2. IsInjective(g.m_Pages)
    BY <1>5, <1>8 DEF IsInjective
  <2> QED
    BY <1>7, <1>8, <2>1, <2>2 DEF Agree
<1>12. ActiveIfAny(g) /\ KnowsActive(g)
  BY <1>1, <1>5, <1>8 DEF ActiveIfAny, KnowsActive
<1> QED
  BY <1>4, <1>10, <1>11, <1>12, KnowsIs DEF Whole

LEMMA CloseAllWhole == ASSUME NavigationInv, OnWindowCloseAll PROVE Whole(frame')
  BY CloseFileViewsWhole DEF NavigationInv, Whole, OnWindowCloseAll, Step

\* The views of the tree come after those that stay: the same pages, in another order.
LEMMA RefreshedPages ==
  ASSUME NEW f, Typed(f), Agree(f)
  PROVE /\ Stay(f) \o Again(f) \in Seq(Handles)
        /\ IsInjective(Stay(f) \o Again(f))
        /\ \A h \in Handles : h \in ToSet(Stay(f) \o Again(f)) <=> h \in ToSet(f.m_Pages)
<1> DEFINE S == {h \in Handles : f.m_Views2[h] \in OnRequest}
           A == {h \in Handles : f.m_Views2[h] \notin OnRequest}
           stay == Stay(f)
           again == Again(f)
           pages == stay \o again
<1>1. f.m_Pages \in Seq(Handles) /\ IsInjective(f.m_Pages)
  BY FieldsOf DEF Agree
<1>2. stay = Sublist(f.m_Pages, S) /\ again = Sublist(f.m_Pages, A)
  BY DEF Stay, Again
<1>3. \A h \in Handles : h \in S <=> h \notin A
  OBVIOUS
<1> HIDE DEF S, A, stay, again
<1>4. /\ stay \in Seq(Handles) /\ IsInjective(stay) /\ ToSet(stay) = ToSet(f.m_Pages) \cap S
      /\ again \in Seq(Handles) /\ IsInjective(again) /\ ToSet(again) = ToSet(f.m_Pages) \cap A
  BY <1>1, <1>2, SublistKeeps
<1> DEFINE m == Len(stay)
           n == Len(again)
<1>5. m \in Nat /\ n \in Nat /\ DOMAIN stay = 1..m /\ DOMAIN again = 1..n
  BY <1>4
<1>6. pages \in Seq(Handles) /\ Len(pages) = m + n
  <2>1. stay \in Seq(Handles) /\ again \in Seq(Handles)
    BY <1>4
  <2> QED
    BY <2>1
<1>7. /\ \A i \in 1..m : pages[i] = stay[i]
      /\ \A i \in 1..n : pages[m + i] = again[i]
  <2>1. stay \in Seq(Handles) /\ again \in Seq(Handles)
    BY <1>4
  <2>2. \A i \in 1..m : pages[i] = stay[i]
    BY <2>1
  <2>3. ASSUME NEW i \in 1..n PROVE pages[m + i] = again[i]
    <3>1. m + i \in 1..(m + n) /\ (m + i) - m = i /\ m + i > m
      BY <1>5
    <3>2. pages[m + i] = again[(m + i) - m]
      BY <1>5, <2>1, <3>1
    <3> QED
      BY <3>1, <3>2
  <2> QED
    BY <2>2, <2>3
<1> HIDE DEF pages, m, n
<1>8. DOMAIN pages = 1..(m + n)
  BY <1>6
<1>9. \A i \in 1..(m + n) : i \in 1..m \/ (i - m \in 1..n /\ m + (i - m) = i)
  BY <1>5
<1>10. /\ \A i \in 1..m : i \in 1..(m + n)
       /\ \A i \in 1..n : m + i \in 1..(m + n)
  BY <1>5
<1>11. /\ \A i \in 1..m : pages[i] \in ToSet(stay) /\ pages[i] \in S
       /\ \A i \in 1..n : pages[m + i] \in ToSet(again) /\ pages[m + i] \in A
  BY <1>4, <1>5, <1>7 DEF ToSet
<1>12. ASSUME NEW i \in 1..(m + n) PROVE pages[i] \in ToSet(stay) \cup ToSet(again)
  BY <1>9, <1>11, <1>12
<1>13. ASSUME NEW h \in ToSet(stay) \cup ToSet(again) PROVE h \in ToSet(pages)
  <2>1. CASE h \in ToSet(stay)
    <3>1. PICK i \in 1..m : stay[i] = h
      BY <1>5, <2>1 DEF ToSet
    <3>2. i \in 1..(m + n) /\ pages[i] = h
      BY <1>7, <1>10, <3>1
    <3> QED
      BY <1>8, <3>2 DEF ToSet
  <2>2. CASE h \in ToSet(again)
    <3>1. PICK i \in 1..n : again[i] = h
      BY <1>5, <2>2 DEF ToSet
    <3>2. m + i \in 1..(m + n) /\ pages[m + i] = h
      BY <1>7, <1>10, <3>1
    <3> QED
      BY <1>8, <3>2 DEF ToSet
  <2> QED
    BY <1>13, <2>1, <2>2
<1>14. ASSUME NEW h \in Handles PROVE h \in ToSet(pages) <=> h \in ToSet(f.m_Pages)
  <2>1. h \in ToSet(pages) => h \in ToSet(stay) \cup ToSet(again)
    BY <1>8, <1>12 DEF ToSet
  <2>2. h \in ToSet(stay) \cup ToSet(again) => h \in ToSet(pages)
    BY <1>13
  <2> QED
    BY <1>3, <1>4, <2>1, <2>2
<1>15. IsInjective(pages)
  <2> SUFFICES ASSUME NEW i \in 1..(m + n), NEW j \in 1..(m + n), pages[i] = pages[j] PROVE i = j
    BY <1>8 DEF IsInjective
  <2>1. CASE i \in 1..m /\ j \in 1..m
    BY <1>4, <1>5, <1>7, <2>1 DEF IsInjective
  <2>2. CASE i \in 1..m /\ j \notin 1..m
    <3>1. pages[i] \in S /\ pages[j] \in A
      BY <1>9, <1>11, <2>2
    <3> QED
      BY <1>3, <3>1 DEF S, A
  <2>3. CASE i \notin 1..m /\ j \in 1..m
    <3>1. pages[j] \in S /\ pages[i] \in A
      BY <1>9, <1>11, <2>3
    <3> QED
      BY <1>3, <3>1 DEF S, A
  <2>4. CASE i \notin 1..m /\ j \notin 1..m
    <3>1. i - m \in 1..n /\ m + (i - m) = i /\ j - m \in 1..n /\ m + (j - m) = j
      BY <1>9, <2>4
    <3>2. again[i - m] = again[j - m]
      BY <1>7, <3>1
    <3>3. i - m = j - m
      BY <1>4, <1>5, <3>1, <3>2 DEF IsInjective
    <3> QED
      BY <1>5, <3>1, <3>3
  <2> QED
    BY <2>1, <2>2, <2>3, <2>4
<1> QED
  BY <1>6, <1>14, <1>15 DEF pages, stay, again

LEMMA RefreshedIs ==
  ASSUME NavigationInv, RefreshViews
  PROVE \E g : /\ Typed(g) /\ Agree(g) /\ ActiveIfAny(g) /\ g.m_History = <<>>
              /\ frame' = RecordNavigation(g)
<1> DEFINE pages == Stay(frame) \o Again(frame)
           shown == [h \in Handles |-> IF h \in ToSet(Again(frame))
                                       THEN FirstPosition(frame.m_Views2[h]) ELSE frame.position[h]]
           active == RefreshActive(frame, pages)
           g == [frame EXCEPT !.m_Pages = pages, !.position = shown, !.m_Active = active]
           reset == ResetNavigation(g)
<1>1. /\ Typed(frame) /\ frame \in Frames /\ Agree(frame) /\ ActiveIfAny(frame)
      /\ Again(frame) # <<>>
      /\ frame' = RecordNavigation(reset)
  BY KnowsIs DEF NavigationInv, Whole, Typed, RefreshViews, Step, RefreshEnds
<1>2. /\ pages \in Seq(Handles) /\ IsInjective(pages)
      /\ \A h \in Handles : h \in ToSet(pages) <=> h \in ToSet(frame.m_Pages)
  BY <1>1, RefreshedPages
<1>3. shown \in [Handles -> Positions \cup {None}]
  <2>1. frame.position \in [Handles -> Positions \cup {None}]
    BY <1>1, FieldsOf
  <2> QED
    BY <2>1, FirstPositionIs
<1>4. frame.m_Active \in 1..Len(frame.m_Pages)
  <2>1. frame.m_Pages # <<>>
    <3> SUFFICES ASSUME frame.m_Pages = <<>> PROVE FALSE
      OBVIOUS
    <3>1. ToSet(frame.m_Pages) = {} /\ frame.m_Pages \in Seq(Handles)
      BY <1>1, FieldsOf DEF ToSet
    <3>2. Again(frame) \in Seq(Handles) /\ ToSet(Again(frame)) = {}
      <4> DEFINE S == {h \in Handles : frame.m_Views2[h] \notin OnRequest}
      <4>1. Again(frame) = Sublist(frame.m_Pages, S)
        BY DEF Again
      <4> HIDE DEF S
      <4>2. /\ Sublist(frame.m_Pages, S) \in Seq(Handles)
            /\ ToSet(Sublist(frame.m_Pages, S)) = ToSet(frame.m_Pages) \cap S
        BY <3>1, SublistKeeps
      <4> QED
        BY <3>1, <4>1, <4>2
    <3>3. Again(frame)[1] \in ToSet(Again(frame))
      BY <1>1, <3>2 DEF ToSet
    <3> QED
      BY <3>2, <3>3
  <2> QED
    BY <1>1, <2>1, FieldsOf DEF ActiveIfAny
<1>5. /\ frame.m_Pages[frame.m_Active] \in Handles
      /\ frame.m_Pages[frame.m_Active] \in ToSet(frame.m_Pages)
  BY <1>1, <1>4, FieldsOf DEF ToSet
<1> HIDE DEF pages, shown
<1>6. Len(pages) \in Nat /\ DOMAIN pages = 1..Len(pages)
  BY <1>2
<1>7. \E p \in 1..Len(pages) : pages[p] = frame.m_Pages[frame.m_Active]
  BY <1>2, <1>5, <1>6 DEF ToSet
<1>8. Len(pages) # 0
  BY <1>6, <1>7
<1>9. active \in 1..Len(pages)
  BY <1>6, <1>7, <1>8 DEF RefreshActive
<1> HIDE DEF active
<1>10. active \in Nat /\ active # 0 /\ active <= Len(pages)
  BY <1>6, <1>9
<1>11. /\ g.m_Pages = pages /\ g.m_Active = active
       /\ g.m_Views = frame.m_Views /\ g.m_Views2 = frame.m_Views2
       /\ g.m_History = frame.m_History /\ g.m_HistoryIndex = frame.m_HistoryIndex
  BY <1>1 DEF Frames
<1>12. g \in Frames
  BY <1>1, <1>2, <1>3, <1>10 DEF Frames
<1> HIDE DEF g
<1>13. Typed(g)
  BY <1>1, <1>10, <1>11, <1>12 DEF Typed
<1>14. Agree(g)
  BY <1>1, <1>2, <1>11 DEF Agree, IsOpen
<1>15. ActiveIfAny(g)
  BY <1>2, <1>8, <1>10, <1>11 DEF ActiveIfAny
<1>16. Typed(reset) /\ Agree(reset) /\ ActiveIfAny(reset) /\ reset.m_History = <<>>
  BY <1>13, <1>14, <1>15, ResetNavigationKeeps, SameViewsAgree
<1> HIDE DEF reset
<1> QED
  BY <1>1, <1>16

LEMMA RefreshViewsWhole == ASSUME NavigationInv, RefreshViews PROVE Whole(frame')
  BY RefreshedIs, RecordNavigationWhole

-----------------------------------------------------------------------------

LEMMA NavigationInitEstablishes == NavigationInit => NavigationInv
<1> SUFFICES ASSUME NavigationInit PROVE NavigationInv
  OBVIOUS
<1> DEFINE none == <<>>
           views == [t \in Types |-> None]
           views2 == [h \in Handles |-> None]
<1>1. frame = [ m_Pages |-> none, m_Active |-> 0, m_Views |-> views, m_Views2 |-> views2,
                position |-> views2, m_History |-> none, m_HistoryIndex |-> 0 ]
  BY DEF NavigationInit
<1>2. /\ none \in Seq(Handles) /\ none \in Seq(Entries) /\ 0 \in Nat /\ Len(none) = 0
      /\ views \in [Types -> Handles \cup {None}]
      /\ views2 \in [Handles -> Types \cup {None}] /\ views2 \in [Handles -> Positions \cup {None}]
      /\ ToSet(none) = {} /\ IsInjective(none)
  BY DEF ToSet, IsInjective
<1>3. (\A h \in Handles : views2[h] = None) /\ (\A t \in Types : views[t] = None)
  OBVIOUS
<1> HIDE DEF none, views, views2
<1>4. /\ frame.m_Pages = none /\ frame.m_Active = 0 /\ frame.m_Views = views
      /\ frame.m_Views2 = views2 /\ frame.m_History = none /\ frame.m_HistoryIndex = 0
  BY <1>1
<1>5. frame \in Frames
  BY <1>1, <1>2 DEF Frames
<1>6. Typed(frame)
  BY <1>2, <1>4, <1>5, HistoryHolds DEF Typed
<1>7. Agree(frame)
  BY <1>2, <1>3, <1>4, NoneIsNo DEF Agree, IsOpen
<1>8. Knows(frame)
  BY <1>4 DEF Knows, none
<1> QED
  BY <1>6, <1>7, <1>8 DEF NavigationInit, NavigationInv, Whole

LEMMA NavigationNextKeeps == NavigationInv /\ [NavigationNext]_navigationVars => NavigationInv'
<1> SUFFICES ASSUME NavigationInv, [NavigationNext]_navigationVars PROVE NavigationInv'
  OBVIOUS
<1>1. SUFFICES Whole(frame') /\ from' \in Entries \cup {None}
  BY DEF NavigationInv, Whole, Typed, Agree, Knows, IsOpen, Frames, Entries
<1>2. ASSUME OpenFile PROVE Whole(frame') /\ from' = None
  BY <1>2, OpenFileWhole DEF OpenFile, Step
<1>3. ASSUME OnFileClose PROVE Whole(frame') /\ from' = None
  BY <1>3, OnFileCloseWhole DEF OnFileClose, Step
<1>4. ASSUME NEW t \in Types, OnView(t) PROVE Whole(frame') /\ from' = None
  BY <1>4, OnViewWhole DEF OnView, Step
<1>5. ASSUME NEW t \in Types, NEW position \in Positions, GoTo(t, position)
      PROVE Whole(frame') /\ from' \in Entries \cup {None}
  BY <1>5, GoToWhole
<1>6. ASSUME GoToNothing PROVE Whole(frame') /\ from' = None
  BY <1>6, GoToNothingWhole DEF GoToNothing, Step
<1>7. ASSUME NEW position \in Positions, MoveTo(position) PROVE Whole(frame') /\ from' = None
  BY <1>7, MoveToWhole DEF MoveTo, Step
<1>8. ASSUME NEW page \in 1..Len(frame.m_Pages), Focus(page) PROVE Whole(frame') /\ from' = None
  BY <1>8, FocusWhole DEF Focus, Step
<1>9. ASSUME NEW page \in 1..Len(frame.m_Pages), ClosePage(page)
      PROVE Whole(frame') /\ from' = None
  BY <1>9, ClosePageWhole DEF ClosePage, Step
<1>10. ASSUME NEW page \in 1..Len(frame.m_Pages), ReopenView(page)
       PROVE Whole(frame') /\ from' = None
  BY <1>10, ReopenViewWhole DEF ReopenView, Step
<1>11. ASSUME NEW page \in 1..Len(frame.m_Pages), NEW t \in Types, ReplaceView(page, t)
       PROVE Whole(frame') /\ from' = None
  BY <1>11, ReplaceViewWhole DEF ReplaceView, Step
<1>12. ASSUME OnWindowCloseOthers PROVE Whole(frame') /\ from' = None
  BY <1>12, CloseOthersWhole DEF OnWindowCloseOthers, Step
<1>13. ASSUME OnWindowCloseAll PROVE Whole(frame') /\ from' = None
  BY <1>13, CloseAllWhole DEF OnWindowCloseAll, Step
<1>14. ASSUME RefreshViews PROVE Whole(frame') /\ from' = None
  BY <1>14, RefreshViewsWhole DEF RefreshViews, Step
<1>15. ASSUME OnNavBack PROVE Whole(frame') /\ from' = None
  BY <1>15, GoBackWhole DEF OnNavBack, Step, NavigationInv
<1>16. ASSUME OnNavForward PROVE Whole(frame') /\ from' = None
  BY <1>16, GoForwardWhole DEF OnNavForward, Step, NavigationInv
<1>17. CASE UNCHANGED navigationVars
  BY <1>17 DEF NavigationInv, navigationVars
<1> QED
  BY <1>2, <1>3, <1>4, <1>5, <1>6, <1>7, <1>8, <1>9, <1>10, <1>11, <1>12, <1>13, <1>14, <1>15,
     <1>16, <1>17 DEF NavigationNext

\* The invariant of the views and of the history holds.
THEOREM NavigationInvariance == NavigationSpec => []NavigationInv
<1> QED
  BY NavigationInitEstablishes, NavigationNextKeeps, PTL DEF NavigationSpec

\* The pages, the maps and the history are what they should be, and the indexes are in them.
THEOREM NavigationTypeCorrect == NavigationSpec => []NavigationTypeOK
<1>1. NavigationInv => NavigationTypeOK
  BY FieldsOf DEF NavigationInv, Whole, NavigationTypeOK
<1> QED
  BY <1>1, NavigationInvariance, PTL

\* After every handler the tabs and the two maps of the views agree, whatever was opened, closed,
\* replaced or refreshed before, and whatever the dock made active.
THEOREM MapsAlwaysAgree == NavigationSpec => []MapsAgree
<1>1. NavigationInv => MapsAgree
  BY DEF NavigationInv, Whole, MapsAgree
<1> QED
  BY <1>1, NavigationInvariance, PTL

\* After every handler the current entry of the history is of the view that is active, also when the
\* tabs made it active by themselves.
THEOREM HistoryKnowsTheActiveView == NavigationSpec => []KnowsWhereTheUserIs
<1>1. NavigationInv => KnowsWhereTheUserIs
  BY DEF NavigationInv, Whole, KnowsWhereTheUserIs
<1> QED
  BY <1>1, NavigationInvariance, PTL

-----------------------------------------------------------------------------

\* Some entries before the one that is current, there is this place.
WasAt(f, place, ago) ==
  f.m_HistoryIndex > ago /\ f.m_History[f.m_HistoryIndex - ago] = place

\* A place that is recorded is the current one.
LEMMA RecordedIsCurrent ==
  ASSUME NEW f, Typed(f), f.m_Active # 0
  PROVE WasAt(RecordNavigation(f), Place(f), 0)
<1>1. CASE IsCurrent(f, Place(f))
  BY <1>1, FieldsOf DEF RecordNavigation, IsCurrent, WasAt
<1>2. CASE ~IsCurrent(f, Place(f))
  <2> DEFINE longer == Append(Discarded(f), Place(f))
             kept == IF Len(longer) > MaxHistory THEN Tail(longer) ELSE longer
             g == WithHistory(f, kept, Len(kept))
  <2>1. RecordNavigation(f) = g
    BY <1>2 DEF RecordNavigation, WithHistory
  <2>2. Place(f) \in Entries
    BY PlaceIsAnEntry
  <2>3. Discarded(f) \in Seq(Entries)
    BY FieldsOf DEF Discarded
  <2>4. longer \in Seq(Entries) /\ Len(longer) \in Nat /\ Len(longer) > 0 /\ longer[Len(longer)] = Place(f)
    BY <2>2, <2>3
  <2> HIDE DEF longer
  <2>5. Len(kept) \in Nat /\ Len(kept) > 0 /\ kept[Len(kept)] = Place(f)
    BY <2>4, HistoryHolds
  <2> HIDE DEF kept
  <2>6. g.m_History = kept /\ g.m_HistoryIndex = Len(kept)
    BY DEF Typed, Frames, WithHistory
  <2> HIDE DEF g
  <2> QED
    BY <2>1, <2>5, <2>6 DEF WasAt
<1> QED
  BY <1>1, <1>2

\* Recording a place moves the ones before it by one at most, and forgets none of the last two.
LEMMA RecordingKeepsWhere ==
  ASSUME NEW f, Typed(f), NEW place, NEW ago \in {0, 1}, WasAt(f, place, ago)
  PROVE \/ WasAt(RecordNavigation(f), place, ago)
        \/ WasAt(RecordNavigation(f), place, ago + 1)
<1>1. CASE f.m_Active = 0 \/ IsCurrent(f, Place(f))
  BY <1>1 DEF RecordNavigation
<1>2. CASE f.m_Active # 0 /\ ~IsCurrent(f, Place(f))
  <2> DEFINE discarded == Discarded(f)
             longer == Append(discarded, Place(f))
             kept == IF Len(longer) > MaxHistory THEN Tail(longer) ELSE longer
             g == WithHistory(f, kept, Len(kept))
             index == f.m_HistoryIndex
  <2>1. RecordNavigation(f) = g
    BY <1>2 DEF RecordNavigation, WithHistory
  <2>2. Place(f) \in Entries
    BY <1>2, PlaceIsAnEntry
  <2>3. /\ f.m_History \in Seq(Entries) /\ Len(f.m_History) \in Nat
        /\ index \in 0..Len(f.m_History) /\ index > ago /\ f.m_History[index - ago] = place
    BY FieldsOf DEF WasAt
  <2>4. discarded \in Seq(Entries) /\ Len(discarded) = index /\ discarded[index - ago] = place
    <3> HIDE DEF index
    <3>1. \A i \in 1..index : SubSeq(f.m_History, 1, index)[i] = f.m_History[i]
      BY <2>3
    <3>2. index - ago \in 1..index
      BY <2>3
    <3>3. discarded = SubSeq(f.m_History, 1, index)
      BY DEF Discarded, index
    <3>4. SubSeq(f.m_History, 1, index) \in Seq(Entries) /\ Len(SubSeq(f.m_History, 1, index)) = index
      BY <2>3
    <3> QED
      BY <2>3, <3>1, <3>2, <3>3, <3>4
  <2> HIDE DEF discarded, index
  <2>5. index \in Nat /\ index - ago \in 1..index
    BY <2>3
  <2>6. longer \in Seq(Entries) /\ Len(longer) = index + 1 /\ longer[index - ago] = place
    BY <2>2, <2>4, <2>5
  <2> HIDE DEF longer
  <2>7. Len(kept) \in Nat /\ Len(kept) > ago + 1 /\ kept[Len(kept) - (ago + 1)] = place
    <3>1. CASE Len(longer) > MaxHistory
      <4>1. kept = Tail(longer) /\ index > 2
        BY <2>5, <2>6, <3>1, HistoryHolds
      <4>2. /\ Len(Tail(longer)) = index
            /\ \A i \in 1..index : Tail(longer)[i] = longer[i + 1]
        BY <2>5, <2>6, <4>1
      <4>3. index - (ago + 1) \in 1..index /\ (index - (ago + 1)) + 1 = index - ago
        BY <2>5, <4>1
      <4>4. Tail(longer)[index - (ago + 1)] = longer[(index - (ago + 1)) + 1]
        BY <4>2, <4>3
      <4> HIDE DEF kept
      <4> QED
        BY <2>5, <2>6, <4>1, <4>2, <4>3, <4>4
    <3>2. CASE ~(Len(longer) > MaxHistory)
      <4>1. kept = longer /\ Len(kept) = index + 1 /\ (index + 1) - (ago + 1) = index - ago
        BY <2>5, <2>6, <3>2
      <4> HIDE DEF kept
      <4> QED
        BY <2>3, <2>5, <2>6, <4>1
    <3> QED
      BY <3>1, <3>2
  <2> HIDE DEF kept
  <2>8. g.m_History = kept /\ g.m_HistoryIndex = Len(kept)
    BY DEF Typed, Frames, WithHistory
  <2> HIDE DEF g
  <2> QED
    BY <2>1, <2>7, <2>8 DEF WasAt
<1> QED
  BY <1>1, <1>2

\* What is kept of the last two elements is among the last two that are kept.
LEMMA SublistEnds ==
  ASSUME NEW X, NEW s \in Seq(X), NEW S, NEW i \in 1..Len(s), i >= Len(s) - 1, s[i] \in S
  PROVE \E k \in 1..Len(Sublist(s, S)) : k >= Len(Sublist(s, S)) - 1 /\ Sublist(s, S)[k] = s[i]
<1> DEFINE kept == KeptAt(s, S)
           c == Cardinality(kept)
           t == Sublist(s, S)
           n == Len(s)
<1>1. c \in Nat /\ Len(t) = c
  BY SublistIs, SublistKeeps
<1>2. PICK f \in [1..c -> kept] :
        /\ Increasing(f, c)
        /\ \A j \in kept : \E k \in 1..c : f[k] = j
        /\ t = [k \in 1..c |-> s[f[k]]]
  BY SublistIs
<1>3. n \in Nat /\ i \in kept /\ i \in Nat /\ i >= n - 1
  BY DEF KeptAt
<1>4. \A j \in kept : j \in 1..n
  BY DEF KeptAt
<1> HIDE DEF kept, c, t, n
<1>5. PICK k \in 1..c : f[k] = i
  BY <1>2, <1>3
<1>6. t[k] = s[i]
  BY <1>2, <1>5
<1>7. k >= c - 1
  <2> SUFFICES ASSUME k < c - 1 PROVE FALSE
    BY <1>1
  <2>1. k + 1 \in 1..c /\ k + 2 \in 1..c /\ k < k + 1 /\ k + 1 < k + 2
    BY <1>1
  <2>2. f[k] < f[k + 1] /\ f[k + 1] < f[k + 2]
    BY <1>2, <2>1 DEF Increasing
  <2>3. f[k + 1] \in 1..n /\ f[k + 2] \in 1..n
    BY <1>2, <1>4, <2>1
  <2> QED
    BY <1>3, <1>5, <2>2, <2>3
<1> QED
  BY <1>1, <1>5, <1>6, <1>7 DEF t

\* A view that is shown moves the place that was current by one at most, and closes no page.
LEMMA ShowViewKeepsWhere ==
  ASSUME NEW f, Whole(f), NEW t \in Types, Used(f) # Handles, NEW place, WasAt(f, place, 0)
  PROVE /\ WasAt(ShowView(f, t), place, 0) \/ WasAt(ShowView(f, t), place, 1)
        /\ ToSet(f.m_Pages) \subseteq ToSet(ShowView(f, t).m_Pages)
<1>1. Typed(f) /\ Agree(f) /\ f \in Frames
  BY DEF Whole, Typed
<1>2. CASE f.m_Views[t] # None
  <2> DEFINE page == PageOf(f, t)
             g == [f EXCEPT !.m_Active = page]
  <2>1. ShowView(f, t) = SetActivePage(f, page)
    BY <1>2 DEF ShowView
  <2>2. page \in 1..Len(f.m_Pages)
    <3>1. f.m_Views[t] \in Handles
      BY <1>1, <1>2, FieldsOf
    <3>2. f.m_Views2[f.m_Views[t]] = t
      BY <1>1, <3>1 DEF Agree
    <3>3. f.m_Views[t] \in ToSet(f.m_Pages)
      BY <1>1, <3>1, <3>2, NoneIsNo DEF Agree, IsOpen
    <3>4. \E p \in 1..Len(f.m_Pages) : f.m_Pages[p] = f.m_Views[t]
      BY <1>1, <3>3, FieldsOf DEF ToSet
    <3> QED
      BY <3>4 DEF PageOf
  <2> HIDE DEF page
  <2>3. SetActivePage(f, page).m_Pages = f.m_Pages
    BY <2>2, SetActivePageWhole
  <2>4. CASE page = f.m_Active
    BY <2>1, <2>4 DEF SetActivePage
  <2>5. CASE page # f.m_Active
    <3>1. SetActivePage(f, page) = RecordNavigation(g)
      BY <2>5 DEF SetActivePage
    <3>2. /\ g.m_Pages = f.m_Pages /\ g.m_Active = page
          /\ g.m_History = f.m_History /\ g.m_HistoryIndex = f.m_HistoryIndex
      BY <1>1 DEF Frames
    <3>3. page \in Nat /\ page <= Len(f.m_Pages)
      BY <1>1, <2>2, FieldsOf
    <3>4. g \in Frames
      BY <1>1, <3>3 DEF Frames
    <3> HIDE DEF g
    <3>5. Typed(g) /\ WasAt(g, place, 0)
      BY <1>1, <3>2, <3>3, <3>4 DEF Typed, WasAt
    <3>6. WasAt(RecordNavigation(g), place, 0) \/ WasAt(RecordNavigation(g), place, 0 + 1)
      BY <3>5, RecordingKeepsWhere
    <3> QED
      BY <2>1, <2>3, <3>1, <3>6
  <2> QED
    BY <2>4, <2>5
<1>3. CASE f.m_Views[t] = None
  <2> DEFINE h == New(f)
             placed == [f EXCEPT !.position[h] = FirstPosition(t)]
             pages == Append(f.m_Pages, h)
             g == [placed EXCEPT !.m_Pages = pages, !.m_Active = Len(f.m_Pages) + 1]
             opened == AddPage(placed, h)
             done == [opened EXCEPT !.m_Views[t] = h, !.m_Views2[h] = t]
  <2>1. \E x \in Handles : x \notin Used(f)
    BY <1>1, UsedHandles
  <2>2. h \in Handles /\ h \notin Used(f)
    BY <2>1 DEF New
  <2>3. ShowView(f, t) = done
    BY <1>3 DEF ShowView, Insert
  <2> HIDE DEF h
  <2>4. /\ placed \in Frames /\ placed.m_Pages = f.m_Pages /\ placed.m_Active = f.m_Active
        /\ placed.m_History = f.m_History /\ placed.m_HistoryIndex = f.m_HistoryIndex
    BY <1>1, FirstPositionIs DEF Frames
  <2> HIDE DEF placed
  <2>5. Typed(placed)
    BY <1>1, <2>4 DEF Typed
  <2>6. /\ f.m_Pages \in Seq(Handles) /\ Len(f.m_Pages) \in Nat /\ DOMAIN f.m_Pages = 1..Len(f.m_Pages)
        /\ f.m_Active \in 0..Len(f.m_Pages)
    BY <1>1, FieldsOf
  <2>7. /\ pages \in Seq(Handles) /\ Len(pages) = Len(f.m_Pages) + 1
        /\ DOMAIN pages = 1..(Len(f.m_Pages) + 1)
        /\ \A i \in 1..Len(f.m_Pages) : pages[i] = f.m_Pages[i] /\ i \in DOMAIN pages
    BY <2>2, <2>6
  <2>8. opened = RecordNavigation(g)
    <3> DEFINE page == Len(f.m_Pages) + 1
               longer == [placed EXCEPT !.m_Pages = pages]
    <3>1. opened = SetActivePage(longer, page)
      <4>1. [placed EXCEPT !.m_Pages = Append(@, h)] = longer
        BY <2>4
      <4> QED
        BY <2>4, <4>1 DEF AddPage
    <3>2. page # f.m_Active
      BY <2>6
    <3> HIDE DEF page, pages
    <3>3. longer.m_Active = f.m_Active
      BY <2>4 DEF Frames
    <3>4. g = [longer EXCEPT !.m_Active = page]
      BY <2>4 DEF Frames, page
    <3> HIDE DEF g, longer, opened
    <3> QED
      BY <3>1, <3>2, <3>3, <3>4 DEF SetActivePage
  <2> HIDE DEF pages
  <2>9. /\ g \in Frames /\ g.m_Pages = pages /\ g.m_Active = Len(f.m_Pages) + 1
        /\ g.m_History = f.m_History /\ g.m_HistoryIndex = f.m_HistoryIndex
    <3>1. Len(f.m_Pages) + 1 \in Nat
      BY <2>6
    <3> QED
      BY <2>4, <2>7, <3>1 DEF Frames
  <2> HIDE DEF g, opened
  <2>10. Typed(g) /\ WasAt(g, place, 0)
    BY <1>1, <2>6, <2>7, <2>9 DEF Typed, WasAt
  <2>11. /\ WasAt(opened, place, 0) \/ WasAt(opened, place, 0 + 1)
         /\ opened.m_Pages = pages /\ opened \in Frames
    BY <2>8, <2>9, <2>10, RecordingKeepsWhere, RecordNavigationKnows DEF SameViews, Typed
  <2>12. /\ done.m_History = opened.m_History /\ done.m_HistoryIndex = opened.m_HistoryIndex
         /\ done.m_Pages = opened.m_Pages
    BY <2>11 DEF Frames
  <2> HIDE DEF done
  <2>13. ToSet(f.m_Pages) \subseteq ToSet(pages)
    BY <2>6, <2>7 DEF ToSet
  <2> QED
    BY <2>3, <2>11, <2>12, <2>13 DEF WasAt
<1> QED
  BY <1>2, <1>3

\* A command that went somewhere else left where it came from one or two entries before.
LEMMA GoToKeepsWhere ==
  ASSUME NavigationInv, NEW t \in Types, NEW position \in Positions, GoTo(t, position), from' # None
  PROVE /\ WasAt(frame', from', 1) \/ WasAt(frame', from', 2)
        /\ from' \in Entries /\ IsOpen(frame', from'.Page)
<1> DEFINE came == CameFrom(frame)
           shown == ShowView(came, t)
           placed == SetNavigationPosition(shown, t, position)
           gone == RecordNavigation(placed)
<1>1. /\ Whole(frame) /\ Used(came) # Handles /\ frame' = gone
      /\ frame.m_Active # 0 /\ Place(gone) # Place(frame) /\ from' = Place(frame)
  BY DEF NavigationInv, GoTo
<1>2. Typed(frame) /\ frame.m_Active \in 1..Len(frame.m_Pages)
  BY <1>1, FieldsOf DEF Whole
<1>3. Place(frame) \in Entries /\ Place(frame).Page = frame.m_Pages[frame.m_Active]
  BY <1>1, <1>2, PlaceIsAnEntry
<1>4. Place(frame).Page \in ToSet(frame.m_Pages)
  BY <1>2, <1>3, FieldsOf DEF ToSet
<1>5. /\ Whole(came) /\ WasAt(came, Place(frame), 0) /\ came.m_Pages = frame.m_Pages
  BY <1>1, <1>2, CameFromWhole, RecordedIsCurrent, RecordNavigationKnows DEF CameFrom, SameViews
<1> HIDE DEF came
<1>6. /\ Whole(shown)
      /\ WasAt(shown, Place(frame), 0) \/ WasAt(shown, Place(frame), 1)
      /\ Place(frame).Page \in ToSet(shown.m_Pages)
  BY <1>1, <1>4, <1>5, ShowViewWhole, ShowViewKeepsWhere
<1>7. Whole(shown)
  BY <1>1, <1>5, ShowViewWhole
<1> HIDE DEF shown
<1>8. Whole(placed)
  BY <1>7, PlacedWhole DEF SetNavigationPosition
<1>9. /\ placed.m_History = shown.m_History /\ placed.m_HistoryIndex = shown.m_HistoryIndex
      /\ placed.m_Pages = shown.m_Pages /\ placed.m_Active = shown.m_Active
  BY <1>7 DEF SetNavigationPosition, Whole, Typed, Frames
<1> HIDE DEF placed
<1>10. Typed(placed) /\ ActiveIfAny(placed)
  BY <1>8, KnowsIs DEF Whole
<1>11. placed.m_Active # 0
  BY <1>6, <1>9, <1>10 DEF ActiveIfAny, ToSet
<1>12. WasAt(gone, Place(placed), 0) /\ SameViews(placed, gone)
  BY <1>10, <1>11, RecordedIsCurrent, RecordNavigationKnows
<1>13. Place(gone) = Place(placed)
  BY <1>12 DEF SameViews, Place, PositionOf
<1>14. WasAt(gone, Place(frame), 0) \/ WasAt(gone, Place(frame), 1) \/ WasAt(gone, Place(frame), 2)
  <2>1. CASE WasAt(placed, Place(frame), 0)
    <3>1. WasAt(gone, Place(frame), 0) \/ WasAt(gone, Place(frame), 0 + 1)
      BY <1>10, <2>1, RecordingKeepsWhere
    <3> QED
      BY <3>1
  <2>2. CASE WasAt(placed, Place(frame), 1)
    <3>1. WasAt(gone, Place(frame), 1) \/ WasAt(gone, Place(frame), 1 + 1)
      BY <1>10, <2>2, RecordingKeepsWhere
    <3> QED
      BY <3>1
  <2> QED
    BY <1>6, <1>9, <2>1, <2>2 DEF WasAt
<1>15. ~WasAt(gone, Place(frame), 0)
  BY <1>1, <1>12, <1>13 DEF WasAt
<1>16. IsOpen(gone, Place(frame).Page)
  BY <1>6, <1>9, <1>12 DEF IsOpen, SameViews
<1> QED
  BY <1>1, <1>3, <1>14, <1>15, <1>16

LEMMA WasAtIsBefore ==
  ASSUME Typed(frame), from \in Entries, IsOpen(frame, from.Page), NEW ago \in {1, 2},
         WasAt(frame, from, ago)
  PROVE \E i \in 1..Len(Before) : i >= Len(Before) - 1 /\ Before[i] = from
<1> DEFINE s == SubSeq(frame.m_History, 1, frame.m_HistoryIndex - 1)
           i == frame.m_HistoryIndex - ago
<1>1. /\ frame.m_History \in Seq(Entries) /\ Len(frame.m_History) \in Nat
      /\ frame.m_HistoryIndex \in 0..Len(frame.m_History)
      /\ frame.m_HistoryIndex > ago /\ frame.m_History[i] = from
  BY FieldsOf DEF WasAt
<1>2. /\ s \in Seq(Entries) /\ Len(s) = frame.m_HistoryIndex - 1
      /\ \A j \in 1..(frame.m_HistoryIndex - 1) : s[j] = frame.m_History[j]
  BY <1>1
<1>3. i \in 1..(frame.m_HistoryIndex - 1) /\ i >= (frame.m_HistoryIndex - 1) - 1
  BY <1>1
<1>4. from \in OpenEntries
  BY DEF OpenEntries, Entries, IsOpen
<1> HIDE DEF s, i
<1>5. i \in 1..Len(s) /\ i >= Len(s) - 1 /\ s[i] = from
  BY <1>1, <1>2, <1>3
<1>6. \E k \in 1..Len(Sublist(s, OpenEntries)) :
        k >= Len(Sublist(s, OpenEntries)) - 1 /\ Sublist(s, OpenEntries)[k] = s[i]
  <2>1. s \in Seq(Entries) /\ s[i] \in OpenEntries
    BY <1>2, <1>4, <1>5
  <2> QED
    BY <1>5, <2>1, SublistEnds
<1> QED
  BY <1>5, <1>6 DEF Before, s

\* Where the user was is among the last two entries that Back would go to.
WasBefore ==
  from # None =>
    /\ IsOpen(frame, from.Page)
    /\ WasAt(frame, from, 1) \/ WasAt(frame, from, 2)

LEMMA NavigationNextKeepsWhere ==
  NavigationInv /\ WasBefore /\ [NavigationNext]_navigationVars => WasBefore'
<1> SUFFICES ASSUME NavigationInv, WasBefore, [NavigationNext]_navigationVars, from' # None
             PROVE WasBefore'
  BY DEF WasBefore
<1>1. CASE UNCHANGED navigationVars
  BY <1>1 DEF WasBefore, WasAt, IsOpen, navigationVars
<1>2. CASE NavigationNext
  <2>1. PICK t \in Types, position \in Positions : GoTo(t, position)
    BY <1>2 DEF NavigationNext, OpenFile, OnFileClose, OnView, GoToNothing, MoveTo, Focus, ClosePage,
                ReopenView, ReplaceView, OnWindowCloseOthers, OnWindowCloseAll, RefreshViews,
                OnNavBack, OnNavForward, Step
  <2>2. /\ WasAt(frame', from', 1) \/ WasAt(frame', from', 2)
        /\ IsOpen(frame', from'.Page)
    BY <2>1, GoToKeepsWhere
  <2> QED
    BY <2>2 DEF WasBefore, WasAt, IsOpen
<1> QED
  BY <1>1, <1>2

\* After a command went somewhere else, where the user was is one of the last two places before that
\* are still open: with a history of three places or more, however many views the command opened.
THEOREM BackComesAfterTwo == NavigationSpec => []BackComesToWhereTheUserWas
<1>1. NavigationInit => NavigationInv /\ WasBefore
  BY NavigationInitEstablishes DEF NavigationInit, WasBefore
<1>2. NavigationInv /\ WasBefore /\ [NavigationNext]_navigationVars => NavigationInv' /\ WasBefore'
  BY NavigationNextKeeps, NavigationNextKeepsWhere
<1>3. NavigationInv /\ WasBefore => BackComesToWhereTheUserWas
  <2> SUFFICES ASSUME NavigationInv, WasBefore, from # None
               PROVE \E i \in 1..Len(Before) : i >= Len(Before) - 1 /\ Before[i] = from
    BY DEF BackComesToWhereTheUserWas
  <2>1. Typed(frame) /\ from \in Entries /\ IsOpen(frame, from.Page)
    BY DEF NavigationInv, Whole, WasBefore
  <2>2. CASE WasAt(frame, from, 1)
    BY <2>1, <2>2, WasAtIsBefore
  <2>3. CASE WasAt(frame, from, 2)
    BY <2>1, <2>3, WasAtIsBefore
  <2> QED
    BY <2>2, <2>3 DEF WasBefore
<1> QED
  BY <1>1, <1>2, <1>3, PTL DEF NavigationSpec
=============================================================================
