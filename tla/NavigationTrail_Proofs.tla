----------------------- MODULE NavigationTrail_Proofs -----------------------
(***************************************************************************)
(* NavigationHistory implements NavigationTrail: for any views, windows and *)
(* positions, and any number of places that are kept.  A step of the frame  *)
(* is one of four things to its trail: it goes on from the current entry    *)
(* (GoesOn), it forgets the trail (TrailForgets), it is Back or Forward, or *)
(* it leaves it alone; TrailSteps says so of two states of the frame, and   *)
(* StepsImplement of the abstract specification.                            *)
(***************************************************************************)
EXTENDS Window_Proofs

-----------------------------------------------------------------------------
(* What Sublist does to two lists in one, to a list that was made by it, and *)
(* for two sets that agree on the list                                      *)
\* f numbers the n places of s whose elements are in S, in their order.
Numbers(f, n, s, S) ==
  /\ n \in Nat /\ f \in [1..n -> KeptAt(s, S)] /\ Increasing(f, n)
  /\ \A i \in KeptAt(s, S) : \E k \in 1..n : f[k] = i

\* the elements at these places
Along(f, n, s) == [k \in 1..n |-> s[f[k]]]

LEMMA SublistNumbered ==
  ASSUME NEW X, NEW s \in Seq(X), NEW S
  PROVE \E f : /\ Numbers(f, Cardinality(KeptAt(s, S)), s, S)
               /\ Sublist(s, S) = Along(f, Cardinality(KeptAt(s, S)), s)
<1>1. PICK f \in [1..Cardinality(KeptAt(s, S)) -> KeptAt(s, S)] :
        /\ Increasing(f, Cardinality(KeptAt(s, S)))
        /\ \A i \in KeptAt(s, S) : \E k \in 1..Cardinality(KeptAt(s, S)) : f[k] = i
        /\ Sublist(s, S) = [k \in 1..Cardinality(KeptAt(s, S)) |-> s[f[k]]]
  BY SublistIs
<1>2. Cardinality(KeptAt(s, S)) \in Nat
  BY SublistIs
<1>3. Numbers(f, Cardinality(KeptAt(s, S)), s, S)
  BY <1>1, <1>2 DEF Numbers
<1>4. Sublist(s, S) = Along(f, Cardinality(KeptAt(s, S)), s)
  BY <1>1 DEF Along
<1> QED
  BY <1>3, <1>4

\* There is one way only to number what is kept.
LEMMA SublistIsOnly ==
  ASSUME NEW X, NEW s \in Seq(X), NEW S, NEW n, NEW g, Numbers(g, n, s, S)
  PROVE Sublist(s, S) = Along(g, n, s)
<1> DEFINE kept == KeptAt(s, S)
           c == Cardinality(kept)
<1>0. PICK f : Numbers(f, c, s, S) /\ Sublist(s, S) = Along(f, c, s)
  BY SublistNumbered
<1>1. c \in Nat /\ n \in Nat
  BY <1>0 DEF Numbers
<1>2. /\ f \in [1..c -> kept] /\ Increasing(f, c)
      /\ \A i \in kept : \E k \in 1..c : f[k] = i
  BY <1>0 DEF Numbers
<1>3. kept \subseteq Nat
  BY DEF KeptAt
<1>4. g \in [1..n -> kept] /\ Increasing(g, n) /\ \A i \in kept : \E k \in 1..n : g[k] = i
  BY DEF Numbers
<1> HIDE DEF kept, c
<1>5. /\ f \in [1..c -> Nat]
      /\ \A j, k \in 1..c : (f[j] = f[k] => j = k) /\ (f[j] < f[k] <=> j < k)
  <2>1. f \in [1..c -> Nat]
    BY <1>2, <1>3
  <2> QED
    BY <1>1, <1>2, <2>1, IncreasingInjects
<1>6. /\ g \in [1..n -> Nat]
      /\ \A j, k \in 1..n : (g[j] = g[k] => j = k) /\ (g[j] < g[k] <=> j < k)
  <2>1. g \in [1..n -> Nat]
    BY <1>3, <1>4
  <2> QED
    BY <1>1, <1>4, <2>1, IncreasingInjects
<1>7. \A k \in 1..c : k \in 1..n => f[k] = g[k]
  <2> DEFINE Differ == {k \in 1..c : k \in 1..n /\ f[k] # g[k]}
  <2> SUFFICES ASSUME Differ # {} PROVE FALSE
    OBVIOUS
  <2>1. Differ \subseteq Nat
    BY <1>1
  <2>2. PICK k \in Differ : \A l \in Differ : k <= l
    <3> HIDE DEF Differ
    <3> QED BY <2>1, LeastOf
  <2>3. k \in 1..c /\ k \in 1..n /\ f[k] # g[k] /\ f[k] \in Nat /\ g[k] \in Nat /\ k \in Nat
    BY <1>5, <1>6
  <2>4. \A l \in 1..c : l < k => l \in 1..n /\ f[l] = g[l]
    <3>1. \A l \in 1..c : l < k => ~(k <= l) /\ l \in 1..n
      BY <1>1, <2>3
    <3> QED
      BY <2>2, <3>1
  <2>5. \A l \in 1..n : l < k => l \in 1..c
    BY <1>1, <2>3
  <2>6. CASE f[k] < g[k]
    <3>1. PICK l \in 1..n : g[l] = f[k]
      BY <1>2, <1>4, <2>3
    <3>2. l < k
      BY <1>6, <2>3, <2>6, <3>1
    <3>3. f[l] = f[k] /\ l \in 1..c
      BY <2>4, <2>5, <3>1, <3>2
    <3>4. l = k
      BY <1>5, <2>3, <3>3
    <3> QED
      BY <2>3, <3>1, <3>4
  <2>7. CASE g[k] < f[k]
    <3>1. PICK l \in 1..c : f[l] = g[k]
      BY <1>2, <1>4, <2>3
    <3>2. l < k
      BY <1>5, <2>3, <2>7, <3>1
    <3>3. g[l] = g[k] /\ l \in 1..n
      BY <2>4, <3>1, <3>2
    <3>4. l = k
      BY <1>6, <2>3, <3>3
    <3> QED
      BY <2>3, <3>1, <3>4
  <2> QED
    BY <2>3, <2>6, <2>7
<1>8. c = n
  <2>1. CASE c < n
    <3>1. c + 1 \in 1..n
      BY <1>1, <2>1
    <3>2. PICK l \in 1..c : f[l] = g[c + 1]
      BY <1>2, <1>4, <3>1
    <3>3. l \in 1..n /\ l # c + 1
      BY <1>1, <2>1
    <3> QED
      BY <1>6, <1>7, <3>1, <3>2, <3>3
  <2>2. CASE n < c
    <3>1. n + 1 \in 1..c
      BY <1>1, <2>2
    <3>2. PICK l \in 1..n : g[l] = f[n + 1]
      BY <1>2, <1>4, <3>1
    <3>3. l \in 1..c /\ l # n + 1
      BY <1>1, <2>2
    <3> QED
      BY <1>5, <1>7, <3>1, <3>2, <3>3
  <2> QED
    BY <1>1, <2>1, <2>2
<1>9. \A k \in 1..n : f[k] = g[k]
  BY <1>7, <1>8
<1>10. Along(f, c, s) = Along(g, n, s)
  BY <1>8, <1>9 DEF Along
<1> QED
  BY <1>0, <1>10

\* What is kept depends on what of S the sequence has.
LEMMA SublistOfSame ==
  ASSUME NEW X, NEW s \in Seq(X), NEW S, NEW T, \A x \in ToSet(s) : x \in S <=> x \in T
  PROVE Sublist(s, S) = Sublist(s, T)
<1>1. \A i \in DOMAIN s : s[i] \in S <=> s[i] \in T
  BY DEF ToSet
<1> DEFINE Kept(kept) ==
             [k \in 1..Cardinality(kept) |->
                s[CHOOSE i \in kept : Cardinality({j \in kept : j <= i}) = k]]
<1>2. {i \in DOMAIN s : s[i] \in S} = {i \in DOMAIN s : s[i] \in T}
  BY <1>1
<1>3. /\ Sublist(s, S) = Kept({i \in DOMAIN s : s[i] \in S})
      /\ Sublist(s, T) = Kept({i \in DOMAIN s : s[i] \in T})
  BY DEF Sublist
<1> HIDE DEF Kept
<1> QED
  BY <1>2, <1>3

LEMMA ConcatIs ==
  ASSUME NEW X, NEW s \in Seq(X), NEW t \in Seq(X)
  PROVE s \o t = [k \in 1..(Len(s) + Len(t)) |-> IF k <= Len(s) THEN s[k] ELSE t[k - Len(s)]]
<1>1. s \o t \in Seq(X) /\ Len(s \o t) = Len(s) + Len(t)
  OBVIOUS
<1>2. \A k \in 1..(Len(s) + Len(t)) : (s \o t)[k] = IF k <= Len(s) THEN s[k] ELSE t[k - Len(s)]
  OBVIOUS
<1> DEFINE st == s \o t
           At(k) == IF k <= Len(s) THEN s[k] ELSE t[k - Len(s)]
<1>3. st \in Seq(X) /\ Len(st) = Len(s) + Len(t)
  BY <1>1
<1> HIDE DEF st
<1>4. st = [k \in 1..(Len(s) + Len(t)) |-> st[k]]
  BY <1>3
<1>5. \A k \in 1..(Len(s) + Len(t)) : st[k] = At(k)
  BY <1>2 DEF st
<1> HIDE DEF At
<1>6. st = [k \in 1..(Len(s) + Len(t)) |-> At(k)]
  BY <1>4, <1>5
<1> QED
  BY <1>6 DEF st, At

\* What is kept of two sequences, one after the other
LEMMA SublistOfBoth ==
  ASSUME NEW X, NEW s \in Seq(X), NEW t \in Seq(X), NEW S
  PROVE Sublist(s \o t, S) = Sublist(s, S) \o Sublist(t, S)
<1> DEFINE kept == KeptAt(s, S)
           also == KeptAt(t, S)
           both == KeptAt(s \o t, S)
           c == Cardinality(kept)
           d == Cardinality(also)
           n == Len(s)
           m == Len(t)
<1>0. /\ \E f : Numbers(f, c, s, S) /\ Sublist(s, S) = Along(f, c, s)
      /\ \E g : Numbers(g, d, t, S) /\ Sublist(t, S) = Along(g, d, t)
  BY SublistNumbered
<1> HIDE DEF c, d
<1>1. c \in Nat /\ d \in Nat /\ n \in Nat /\ m \in Nat
  BY <1>0 DEF Numbers
<1>2. PICK f \in [1..c -> kept] :
        /\ Increasing(f, c)
        /\ \A i \in kept : \E k \in 1..c : f[k] = i
        /\ Sublist(s, S) = [k \in 1..c |-> s[f[k]]]
  BY <1>0 DEF Numbers, Along
<1>3. PICK g \in [1..d -> also] :
        /\ Increasing(g, d)
        /\ \A i \in also : \E k \in 1..d : g[k] = i
        /\ Sublist(t, S) = [k \in 1..d |-> t[g[k]]]
  BY <1>0 DEF Numbers, Along
<1>4. /\ \A i \in kept : i \in 1..n /\ s[i] \in S
      /\ \A i \in 1..n : s[i] \in S => i \in kept
      /\ \A i \in also : i \in 1..m /\ t[i] \in S
      /\ \A i \in 1..m : t[i] \in S => i \in also
  BY DEF KeptAt
<1>5. /\ s \o t \in Seq(X) /\ Len(s \o t) = n + m
      /\ \A i \in 1..n : (s \o t)[i] = s[i]
      /\ \A i \in 1..m : (s \o t)[n + i] = t[i]
  <2>1. s \o t \in Seq(X) /\ Len(s \o t) = n + m
    OBVIOUS
  <2>2. \A i \in 1..(n + m) : (s \o t)[i] = IF i <= n THEN s[i] ELSE t[i - n]
    OBVIOUS
  <2>3. \A i \in 1..m : n + i \in 1..(n + m) /\ ~(n + i <= n) /\ (n + i) - n = i
    BY <1>1
  <2>4. \A i \in 1..n : i \in 1..(n + m) /\ i <= n
    BY <1>1
  <2> HIDE DEF n, m
  <2>5. \A i \in 1..m : (s \o t)[n + i] = t[i]
    <3> TAKE i \in 1..m
    <3>1. (s \o t)[n + i] = t[(n + i) - n]
      BY <2>2, <2>3
    <3> QED
      BY <2>3, <3>1
  <2>6. \A i \in 1..n : (s \o t)[i] = s[i]
    BY <2>2, <2>4
  <2> QED
    BY <2>1, <2>5, <2>6
<1>6. /\ \A i \in both : i \in 1..(n + m) /\ (s \o t)[i] \in S
      /\ \A i \in 1..(n + m) : (s \o t)[i] \in S => i \in both
  BY <1>5 DEF KeptAt
<1> DEFINE h == [k \in 1..(c + d) |-> IF k <= c THEN f[k] ELSE n + g[k - c]]
<1> HIDE DEF kept, also, both, c, d, n, m
<1>7. \A k \in 1..c : k \in 1..(c + d) /\ h[k] = f[k] /\ f[k] \in 1..n
  BY <1>1, <1>2, <1>4
<1>8. \A k \in 1..d : c + k \in 1..(c + d) /\ h[c + k] = n + g[k] /\ g[k] \in 1..m
  <2> TAKE k \in 1..d
  <2>1. c + k \in 1..(c + d) /\ ~(c + k <= c) /\ (c + k) - c = k
    BY <1>1
  <2>2. h[c + k] = n + g[(c + k) - c]
    BY <2>1
  <2> HIDE DEF h
  <2> QED
    BY <1>3, <1>4, <2>1, <2>2
<1>9. \A k \in 1..(c + d) : k \in 1..c \/ (k - c \in 1..d /\ c + (k - c) = k)
  BY <1>1
<1> HIDE DEF h
<1>10. \A k \in 1..(c + d) : h[k] \in both
  <2> TAKE k \in 1..(c + d)
  <2>1. CASE k \in 1..c
    <3>1. h[k] \in 1..n /\ (s \o t)[h[k]] = s[f[k]] /\ s[f[k]] \in S
      BY <1>2, <1>4, <1>5, <1>7, <2>1
    <3>2. h[k] \in 1..(n + m)
      BY <1>1, <3>1
    <3> QED
      BY <1>6, <3>1, <3>2
  <2>2. CASE k - c \in 1..d /\ c + (k - c) = k
    <3>1. h[k] = n + g[k - c] /\ g[k - c] \in 1..m
      BY <1>8, <2>2
    <3>2. t[g[k - c]] \in S
      BY <1>3, <1>4, <2>2
    <3>3. (s \o t)[h[k]] \in S
      BY <1>5, <3>1, <3>2
    <3>4. h[k] \in 1..(n + m)
      BY <1>1, <3>1
    <3> QED
      BY <1>6, <3>3, <3>4
  <2> QED
    BY <1>9, <2>1, <2>2
<1>11. h \in [1..(c + d) -> both]
  BY <1>10 DEF h
<1>12. Increasing(h, c + d)
  <2> SUFFICES ASSUME NEW j \in 1..(c + d), NEW k \in 1..(c + d), j < k PROVE h[j] < h[k]
    BY DEF Increasing
  <2>1. CASE j \in 1..c /\ k \in 1..c
    <3>1. f[j] < f[k]
      BY <1>2, <2>1 DEF Increasing
    <3> QED
      BY <1>7, <2>1, <3>1
  <2>2. CASE j \in 1..c /\ k - c \in 1..d /\ c + (k - c) = k
    <3>1. h[j] \in 1..n
      BY <1>7, <2>2
    <3>2. h[k] = n + g[k - c] /\ g[k - c] \in 1..m
      BY <1>8, <2>2
    <3> QED
      BY <1>1, <3>1, <3>2
  <2>3. CASE j - c \in 1..d /\ c + (j - c) = j /\ k - c \in 1..d /\ c + (k - c) = k
    <3>1. h[j] = n + g[j - c] /\ g[j - c] \in 1..m /\ h[k] = n + g[k - c] /\ g[k - c] \in 1..m
      BY <1>8, <2>3
    <3>2. j - c < k - c
      BY <1>1
    <3>3. g[j - c] < g[k - c]
      BY <1>3, <2>3, <3>2 DEF Increasing
    <3> QED
      BY <1>1, <3>1, <3>3
  <2>4. ~(j - c \in 1..d /\ k \in 1..c)
    BY <1>1
  <2> QED
    BY <1>9, <2>1, <2>2, <2>3, <2>4
<1>13. \A i \in both : \E k \in 1..(c + d) : h[k] = i
  <2> SUFFICES ASSUME NEW i \in both PROVE \E k \in 1..(c + d) : h[k] = i
    OBVIOUS
  <2>1. i \in 1..(n + m) /\ (s \o t)[i] \in S
    BY <1>6
  <2>2. CASE i \in 1..n
    <3>1. i \in kept
      BY <1>4, <1>5, <2>1, <2>2
    <3> QED
      BY <1>2, <1>7, <3>1
  <2>3. CASE ~(i \in 1..n)
    <3>1. i - n \in 1..m /\ n + (i - n) = i
      BY <1>1, <2>1, <2>3
    <3>2. i - n \in also
      BY <1>4, <1>5, <2>1, <3>1
    <3>3. PICK k \in 1..d : g[k] = i - n
      BY <1>3, <3>2
    <3>4. h[c + k] = i
      BY <1>8, <3>1, <3>3
    <3> QED
      BY <1>8, <3>4
  <2> QED
    BY <2>2, <2>3
<1>14. Sublist(s \o t, S) = [k \in 1..(c + d) |-> (s \o t)[h[k]]]
  <2> DEFINE st == s \o t
             e == c + d
  <2>1. e \in Nat /\ st \in Seq(X)
    BY <1>1, <1>5
  <2>2. Numbers(h, e, st, S)
    BY <1>11, <1>12, <1>13, <2>1 DEF both, Numbers
  <2>3. Sublist(st, S) = Along(h, e, st)
    <3> HIDE DEF st, e
    <3> QED
      BY <2>1, <2>2, SublistIsOnly
  <2> QED
    BY <2>3 DEF Along
<1> DEFINE u == Sublist(s, S)
           v == Sublist(t, S)
<1>15. u \in Seq(X) /\ Len(u) = c /\ v \in Seq(X) /\ Len(v) = d
  BY SublistKeeps DEF c, d, kept, also
<1>16. u = [k \in 1..c |-> s[f[k]]] /\ v = [k \in 1..d |-> t[g[k]]]
  BY <1>2, <1>3
<1> HIDE DEF u, v
<1>17. u \o v = [k \in 1..(c + d) |-> IF k <= c THEN u[k] ELSE v[k - c]]
  <2>1. u \o v = [k \in 1..(Len(u) + Len(v)) |-> IF k <= Len(u) THEN u[k] ELSE v[k - Len(u)]]
    <3>1. u \in Seq(X) /\ v \in Seq(X)
      BY <1>15
    <3> QED
      BY ONLY <3>1, ConcatIs
  <2> QED
    BY <1>15, <2>1
<1>18. \A k \in 1..(c + d) : (s \o t)[h[k]] = IF k <= c THEN u[k] ELSE v[k - c]
  <2> TAKE k \in 1..(c + d)
  <2>1. CASE k \in 1..c
    <3>1. k <= c
      BY <1>1, <2>1
    <3> QED
      BY <1>5, <1>7, <1>16, <2>1, <3>1
  <2>2. CASE k - c \in 1..d /\ c + (k - c) = k
    <3>1. ~(k <= c)
      BY <1>1, <2>2
    <3>2. h[k] = n + g[k - c] /\ g[k - c] \in 1..m
      BY <1>8, <2>2
    <3>3. v[k - c] = t[g[k - c]]
      BY <1>16, <2>2
    <3> QED
      BY <1>5, <3>1, <3>2, <3>3
  <2> QED
    BY <1>9, <2>1, <2>2
<1>19. Sublist(s \o t, S) = u \o v
  BY <1>14, <1>17, <1>18
<1> QED
  BY <1>19 DEF u, v

\* What is kept of what was kept
LEMMA SublistOfSublist ==
  ASSUME NEW X, NEW s \in Seq(X), NEW S, NEW T
  PROVE Sublist(Sublist(s, S), T) = Sublist(s, S \cap T)
<1> DEFINE kept == KeptAt(s, S)
           c == Cardinality(kept)
           t == Sublist(s, S)
           again == KeptAt(t, T)
           d == Cardinality(again)
           both == KeptAt(s, S \cap T)
<1>1. c \in Nat /\ t \in Seq(X) /\ Len(t) = c
  BY SublistIs, SublistKeeps
<1>2. PICK f \in [1..c -> kept] :
        /\ Increasing(f, c)
        /\ \A i \in kept : \E k \in 1..c : f[k] = i
        /\ t = [k \in 1..c |-> s[f[k]]]
  BY SublistIs
<1>3. PICK g : Numbers(g, d, t, T) /\ Sublist(t, T) = Along(g, d, t)
  <2> HIDE DEF t
  <2> QED
    BY <1>1, SublistNumbered
<1>4. /\ d \in Nat /\ g \in [1..d -> again] /\ Increasing(g, d)
      /\ \A i \in again : \E k \in 1..d : g[k] = i
      /\ Sublist(t, T) = [k \in 1..d |-> t[g[k]]]
  BY <1>3 DEF Numbers, Along
<1>5. /\ \A i \in kept : i \in 1..Len(s) /\ s[i] \in S
      /\ \A i \in 1..Len(s) : s[i] \in S => i \in kept
      /\ \A k \in again : k \in 1..c /\ t[k] \in T
      /\ \A k \in 1..c : t[k] \in T => k \in again
      /\ \A i \in both : i \in 1..Len(s) /\ s[i] \in S /\ s[i] \in T
      /\ \A i \in 1..Len(s) : s[i] \in S /\ s[i] \in T => i \in both
  BY <1>1 DEF KeptAt
<1> DEFINE h == [k \in 1..d |-> f[g[k]]]
<1> HIDE DEF kept, c, t, again, d, both
<1>6. \A k \in 1..d : g[k] \in 1..c /\ t[g[k]] = s[f[g[k]]] /\ f[g[k]] \in both
  <2> TAKE k \in 1..d
  <2>1. g[k] \in 1..c /\ t[g[k]] \in T
    BY <1>4, <1>5
  <2>2. t[g[k]] = s[f[g[k]]] /\ f[g[k]] \in kept
    BY <1>2, <2>1
  <2> QED
    BY <1>5, <2>1, <2>2
<1>7. h \in [1..d -> both]
  BY <1>6
<1>8. Increasing(h, d)
  <2> SUFFICES ASSUME NEW j \in 1..d, NEW k \in 1..d, j < k PROVE f[g[j]] < f[g[k]]
    BY DEF Increasing
  <2>1. g[j] < g[k] /\ g[j] \in 1..c /\ g[k] \in 1..c
    BY <1>4, <1>6 DEF Increasing
  <2> QED
    BY <1>2, <2>1 DEF Increasing
<1>9. \A i \in both : \E k \in 1..d : h[k] = i
  <2> SUFFICES ASSUME NEW i \in both PROVE \E k \in 1..d : f[g[k]] = i
    OBVIOUS
  <2>1. PICK j \in 1..c : f[j] = i
    BY <1>2, <1>5
  <2>2. j \in again
    BY <1>2, <1>5, <2>1
  <2> QED
    BY <1>4, <2>1, <2>2
<1>10. Sublist(s, S \cap T) = [k \in 1..d |-> s[h[k]]]
  <2> DEFINE U == S \cap T
  <2>1. Numbers(h, d, s, U)
    BY <1>4, <1>7, <1>8, <1>9 DEF both, Numbers
  <2> HIDE DEF h, U
  <2>2. Sublist(s, U) = Along(h, d, s)
    BY <2>1, SublistIsOnly
  <2> QED
    BY <2>2 DEF U, Along
<1>11. \A k \in 1..d : t[g[k]] = s[h[k]]
  BY <1>6
<1>12. Sublist(t, T) = Sublist(s, S \cap T)
  BY <1>4, <1>10, <1>11
<1> QED
  BY <1>12 DEF t

-----------------------------------------------------------------------------
(* Histories: sequences of entries, their parts, and what is kept of them   *)
\* The same three facts, of entries
LEMMA EntriesOfBoth ==
  ASSUME NEW s \in Seq(Entries), NEW t \in Seq(Entries), NEW S
  PROVE Sublist(s \o t, S) = Sublist(s, S) \o Sublist(t, S)
  BY SublistOfBoth

LEMMA EntriesOfSublist ==
  ASSUME NEW s \in Seq(Entries), NEW S, NEW T, NEW R, R = S \cap T
  PROVE Sublist(Sublist(s, S), T) = Sublist(s, R)
  BY SublistOfSublist

LEMMA EntriesOfSame ==
  ASSUME NEW s \in Seq(Entries), NEW S, NEW T, \A x \in ToSet(s) : x \in S <=> x \in T
  PROVE Sublist(s, S) = Sublist(s, T)
  BY SublistOfSame

LEMMA SublistNoLonger ==
  ASSUME NEW s \in Seq(Entries), NEW S
  PROVE /\ Sublist(s, S) \in Seq(Entries) /\ Len(Sublist(s, S)) \in Nat
        /\ Len(Sublist(s, S)) <= Len(s)
<1>1. Sublist(s, S) \in Seq(Entries) /\ Len(Sublist(s, S)) = Cardinality(KeptAt(s, S))
  BY SublistKeeps
<1>2. Len(s) \in Nat /\ IsFiniteSet(1..Len(s)) /\ Cardinality(1..Len(s)) = Len(s)
  <2>1. Len(s) \in Nat
    OBVIOUS
  <2>2. IsFiniteSet(1..Len(s)) /\ Cardinality(1..Len(s)) = IF 1 > Len(s) THEN 0 ELSE Len(s) - 1 + 1
    BY <2>1, FS_Interval
  <2> QED
    BY <2>1, <2>2
<1>3. KeptAt(s, S) \subseteq 1..Len(s)
  BY DEF KeptAt
<1>4. Cardinality(KeptAt(s, S)) <= Cardinality(1..Len(s))
  BY <1>2, <1>3, FS_Subset
<1> DEFINE t == Sublist(s, S)
<1> HIDE DEF t
<1>5. t \in Seq(Entries) /\ Len(t) \in Nat /\ Len(t) <= Len(s)
  BY <1>1, <1>2, <1>4 DEF t
<1> QED
  BY <1>5 DEF t

LEMMA SublistOfNone ==
  ASSUME NEW s \in Seq(Entries), NEW S, \A i \in 1..Len(s) : s[i] \notin S
  PROVE Sublist(s, S) = <<>>
<1>1. KeptAt(s, S) = {}
  BY DEF KeptAt
<1>2. Sublist(s, S) \in Seq(Entries) /\ Len(Sublist(s, S)) = 0
  BY <1>1, SublistKeeps, FS_EmptySet
<1> DEFINE t == Sublist(s, S)
<1> HIDE DEF t
<1>3. t = <<>>
  BY <1>2 DEF t
<1> QED
  BY <1>3 DEF t

LEMMA SublistOfOne ==
  ASSUME NEW x \in Entries, NEW S
  PROVE Sublist(<<x>>, S) = IF x \in S THEN <<x>> ELSE <<>>
<1> DEFINE s == <<x>>
<1>1. s \in Seq(Entries) /\ Len(s) = 1 /\ \A i \in 1..Len(s) : s[i] = x
  OBVIOUS
<1>2. ToSet(s) = {x}
  BY DEF ToSet
<1> HIDE DEF s
<1>3. x \in S => Sublist(s, S) = s
  BY <1>1, <1>2, SublistOfAll
<1>4. x \notin S => Sublist(s, S) = <<>>
  BY <1>1, SublistOfNone
<1> QED
  BY <1>3, <1>4 DEF s

\* Two sequences of which the second one has one more, or of which the oldest is gone
LEMMA AppendedTo ==
  ASSUME NEW s \in Seq(Entries), NEW t \in Seq(Entries), NEW x \in Entries
  PROVE Append(s \o t, x) = s \o Append(t, x)
<1> DEFINE a == Append(s \o t, x)
           u == Append(t, x)
           b == s \o u
           n == Len(s) + Len(t) + 1
<1>1. s \o t \in Seq(Entries) /\ Len(s \o t) = Len(s) + Len(t) /\ u \in Seq(Entries) /\ Len(u) = Len(t) + 1
  OBVIOUS
<1>2. a \in Seq(Entries) /\ Len(a) = n
  BY <1>1
<1>3. b \in Seq(Entries) /\ Len(b) = n
  <2> HIDE DEF u
  <2> QED BY <1>1
<1>4. \A i \in 1..n : a[i] = b[i]
  <2> TAKE i \in 1..n
  <2>1. \A k \in 1..(Len(s) + Len(t)) : (s \o t)[k] = IF k <= Len(s) THEN s[k] ELSE t[k - Len(s)]
    OBVIOUS
  <2>2. b[i] = IF i <= Len(s) THEN s[i] ELSE u[i - Len(s)]
    <3> HIDE DEF u
    <3> QED BY <1>1
  <2>3. CASE i = n
    <3>1. a[i] = x
      BY <1>1, <2>3
    <3>2. u[i - Len(s)] = x /\ ~(i <= Len(s))
      BY <2>3
    <3> QED
      BY <2>2, <3>1, <3>2
  <2>4. CASE i # n
    <3>1. i \in 1..(Len(s) + Len(t))
      BY <2>4
    <3>2. a[i] = (s \o t)[i]
      BY <1>1, <3>1
    <3>3. ~(i <= Len(s)) => u[i - Len(s)] = t[i - Len(s)]
      BY <3>1
    <3> QED
      BY <2>1, <2>2, <3>1, <3>2, <3>3
  <2> QED
    BY <2>3, <2>4
<1> HIDE DEF a, b, n
<1>5. a = b
  BY <1>2, <1>3, <1>4
<1> QED
  BY <1>5 DEF a, b, u

LEMMA TailOfBoth ==
  ASSUME NEW X, NEW s \in Seq(X), NEW t \in Seq(X), Len(s) > 0
  PROVE Tail(s \o t) = Tail(s) \o t
<1> DEFINE st == s \o t
           r == Tail(s)
           a == Tail(st)
           b == r \o t
           n == Len(s) + Len(t) - 1
<1>1. st \in Seq(X) /\ Len(st) = Len(s) + Len(t) /\ r \in Seq(X) /\ Len(r) = Len(s) - 1
  OBVIOUS
<1>2. Len(s) \in Nat /\ Len(t) \in Nat /\ Len(st) > 0 /\ n \in Nat
  BY <1>1
<1>3. \A k \in 1..(Len(s) + Len(t)) : st[k] = IF k <= Len(s) THEN s[k] ELSE t[k - Len(s)]
  OBVIOUS
<1>4. \A k \in 1..(Len(s) - 1) : r[k] = s[k + 1]
  BY <1>2
<1> HIDE DEF st, r
<1>5. a \in Seq(X) /\ Len(a) = n /\ \A k \in 1..n : a[k] = st[k + 1]
  <2>1. a \in Seq(X) /\ Len(a) = Len(st) - 1 /\ \A k \in 1..(Len(st) - 1) : a[k] = st[k + 1]
    <3>1. st \in Seq(X) /\ Len(st) \in Nat /\ Len(st) > 0
      BY <1>1, <1>2
    <3>2. Tail(st) \in Seq(X) /\ Len(Tail(st)) = Len(st) - 1
      BY ONLY <3>1
    <3>3. \A k \in 1..(Len(st) - 1) : Tail(st)[k] = st[k + 1]
      BY ONLY <3>1
    <3> QED
      BY <3>2, <3>3
  <2>2. n = Len(st) - 1
    BY <1>1, <1>2
  <2> HIDE DEF a, n
  <2> QED
    BY <2>1, <2>2
<1>6. b \in Seq(X) /\ Len(b) = n
  BY <1>1, <1>2
<1>7. \A k \in 1..n : b[k] = IF k <= Len(s) - 1 THEN r[k] ELSE t[k - (Len(s) - 1)]
  <2>1. b = [k \in 1..(Len(r) + Len(t)) |-> IF k <= Len(r) THEN r[k] ELSE t[k - Len(r)]]
    <3>1. r \in Seq(X)
      BY <1>1
    <3> QED BY ONLY <3>1, t \in Seq(X), ConcatIs
  <2>2. Len(r) + Len(t) = n
    BY <1>1, <1>2
  <2> HIDE DEF b, n
  <2> QED
    BY <1>1, <2>1, <2>2
<1>8. \A k \in 1..n : a[k] = b[k]
  <2> TAKE k \in 1..n
  <2>1. k + 1 \in 1..(Len(s) + Len(t)) /\ (k + 1) - Len(s) = k - (Len(s) - 1)
        /\ (k <= Len(s) - 1 <=> k + 1 <= Len(s)) /\ (k <= Len(s) - 1 => k \in 1..(Len(s) - 1))
    BY <1>2
  <2>2. a[k] = IF k + 1 <= Len(s) THEN s[k + 1] ELSE t[(k + 1) - Len(s)]
    BY <1>3, <1>5, <2>1
  <2> HIDE DEF a, b, n
  <2> QED
    BY <1>4, <1>7, <2>1, <2>2
<1> HIDE DEF a, b, n
<1>9. a = b
  BY <1>5, <1>6, <1>8
<1> QED
  BY <1>9 DEF a, b, st, r

LEMMA TailOfSubSeq ==
  ASSUME NEW X, NEW s \in Seq(X), NEW m \in 1..Len(s), NEW n \in m..Len(s)
  PROVE Tail(SubSeq(s, m, n)) = SubSeq(s, m + 1, n)
<1> DEFINE a == SubSeq(s, m, n)
           b == SubSeq(s, m + 1, n)
<1>1. Len(s) \in Nat /\ m \in Nat /\ n \in Nat /\ m >= 1 /\ m <= n /\ n <= Len(s)
  OBVIOUS
<1>2. a \in Seq(X) /\ Len(a) = n - m + 1 /\ \A k \in 1..(n - m + 1) : a[k] = s[m + k - 1]
  BY <1>1
<1>3. b \in Seq(X) /\ Len(b) = n - m /\ \A k \in 1..(n - m) : b[k] = s[(m + 1) + k - 1]
  BY <1>1
<1> HIDE DEF a, b
<1>4. Tail(a) \in Seq(X) /\ Len(Tail(a)) = n - m /\ \A k \in 1..(n - m) : Tail(a)[k] = a[k + 1]
  BY <1>1, <1>2
<1>5. \A k \in 1..(n - m) : Tail(a)[k] = b[k]
  <2> TAKE k \in 1..(n - m)
  <2>1. k + 1 \in 1..(n - m + 1) /\ m + (k + 1) - 1 = (m + 1) + k - 1
    BY <1>1
  <2> QED
    BY <1>2, <1>3, <1>4, <2>1
<1> DEFINE c == Tail(a)
<1> HIDE DEF c
<1>6. c = b
  BY <1>3, <1>4, <1>5 DEF c
<1> QED
  BY <1>6 DEF a, b, c

\* A sequence in two parts
LEMMA InTwoParts ==
  ASSUME NEW X, NEW s \in Seq(X), NEW m \in Nat, NEW k \in Int, NEW n \in Int,
         m > 0, m <= k + 1, k <= n, n <= Len(s)
  PROVE SubSeq(s, m, n) = SubSeq(s, m, k) \o SubSeq(s, k + 1, n)
<1> DEFINE a == SubSeq(s, m, k)
           b == SubSeq(s, k + 1, n)
           c == SubSeq(s, m, n)
<1>1. Len(s) \in Nat
  OBVIOUS
<1>2. /\ a \in Seq(X) /\ Len(a) = k - m + 1 /\ Len(a) \in Nat
      /\ \A i \in 1..Len(a) : a[i] = s[m + i - 1]
  BY <1>1
<1>3. /\ b \in Seq(X) /\ Len(b) = n - k /\ Len(b) \in Nat
      /\ \A i \in 1..Len(b) : b[i] = s[(k + 1) + i - 1]
  BY <1>1
<1>4. c \in Seq(X) /\ Len(c) = n - m + 1 /\ \A i \in 1..Len(c) : c[i] = s[m + i - 1]
  BY <1>1
<1> HIDE DEF a, b, c
<1>5. a \o b = [i \in 1..(Len(a) + Len(b)) |-> IF i <= Len(a) THEN a[i] ELSE b[i - Len(a)]]
  BY <1>2, <1>3, ConcatIs
<1>6. a \o b \in Seq(X) /\ Len(a \o b) = Len(a) + Len(b) /\ Len(a) + Len(b) = Len(c)
  BY <1>1, <1>2, <1>3, <1>4
<1>7. \A i \in 1..Len(c) : (a \o b)[i] = c[i]
  <2> TAKE i \in 1..Len(c)
  <2>1. (a \o b)[i] = IF i <= Len(a) THEN a[i] ELSE b[i - Len(a)]
    BY <1>5, <1>6
  <2>2. CASE i <= Len(a)
    <3>1. i \in 1..Len(a)
      BY <1>2, <2>2
    <3> QED
      BY <1>2, <1>4, <2>1, <2>2, <3>1
  <2>3. CASE ~(i <= Len(a))
    <3>1. i - Len(a) \in 1..Len(b) /\ (k + 1) + (i - Len(a)) - 1 = m + i - 1
      BY <1>2, <1>3, <1>4, <1>6, <2>3
    <3> QED
      BY <1>3, <1>4, <2>1, <2>3, <3>1
  <2> QED
    BY <2>2, <2>3
<1> DEFINE ab == a \o b
<1>8. ab \in Seq(X) /\ Len(ab) = Len(c) /\ \A i \in 1..Len(c) : ab[i] = c[i]
  BY <1>6, <1>7
<1> HIDE DEF ab
<1>9. ab = c
  BY <1>4, <1>8
<1> QED
  BY <1>9 DEF a, b, c, ab

\* The second of two parts
LEMMA SecondPart ==
  ASSUME NEW s \in Seq(Entries), NEW t \in Seq(Entries)
  PROVE /\ SubSeq(s \o t, Len(s) + 1, Len(s \o t)) = t
        /\ IsPrefix(s, s \o t)
        /\ Len(s \o t) = Len(s) + Len(t) /\ s \o t \in Seq(Entries)
<1> DEFINE both == s \o t
           m == Len(s) + 1
           rest == SubSeq(both, m, Len(both))
           first == SubSeq(both, 1, Len(s))
           same == SubSeq(s, 1, Len(s))
<1>1. Len(s) \in Nat /\ Len(t) \in Nat
  OBVIOUS
<1>2. both \in Seq(Entries) /\ Len(both) = Len(s) + Len(t)
  OBVIOUS
<1>3. both = [k \in 1..(Len(s) + Len(t)) |-> IF k <= Len(s) THEN s[k] ELSE t[k - Len(s)]]
  BY ConcatIs
<1> HIDE DEF both
<1>4. m \in Nat /\ m > 0
  BY <1>1
<1>5. /\ rest \in Seq(Entries) /\ Len(rest) = Len(t)
      /\ \A k \in 1..Len(t) : rest[k] = both[m + k - 1]
  <2>1. /\ rest \in Seq(Entries) /\ Len(rest) = (IF m <= Len(both) THEN Len(both) - m + 1 ELSE 0)
        /\ \A k \in 1..Len(rest) : rest[k] = both[m + k - 1]
    <3> HIDE DEF m
    <3> QED
      BY <1>1, <1>2, <1>4
  <2>2. Len(t) = (IF m <= Len(both) THEN Len(both) - m + 1 ELSE 0)
    BY <1>1, <1>2
  <2> HIDE DEF rest, m
  <2> QED
    BY <2>1, <2>2
<1>6. \A k \in 1..Len(t) : both[m + k - 1] = t[k]
  <2> TAKE k \in 1..Len(t)
  <2>1. m + k - 1 \in 1..(Len(s) + Len(t)) /\ ~(m + k - 1 <= Len(s)) /\ (m + k - 1) - Len(s) = k
    BY <1>1
  <2> HIDE DEF m
  <2> QED
    BY <1>3, <2>1
<1> HIDE DEF rest, m
<1>7. rest = t
  BY <1>1, <1>5, <1>6
<1>8. first \in Seq(Entries) /\ Len(first) = Len(s) /\ \A k \in 1..Len(s) : first[k] = both[k]
  BY <1>1, <1>2
<1>9. \A k \in 1..Len(s) : both[k] = s[k]
  BY <1>1, <1>3
<1>10. same = s
  OBVIOUS
<1> HIDE DEF first, same
<1>11. first = s
  BY <1>1, <1>8, <1>9
<1>12. IsPrefix(s, both)
  BY <1>1, <1>2, <1>10, <1>11 DEF IsPrefix, first, same
<1> QED
  BY <1>2, <1>7, <1>12 DEF rest, m, both

LEMMA PartHas ==
  ASSUME NEW s \in Seq(Entries), NEW m \in Nat, m > 0, NEW n \in Int, n <= Len(s),
         NEW x \in ToSet(SubSeq(s, m, n))
  PROVE \E i \in m..n : x = s[i] /\ i \in 1..Len(s)
<1> DEFINE part == SubSeq(s, m, n)
<1>1. Len(s) \in Nat
  OBVIOUS
<1>2. /\ part \in Seq(Entries) /\ Len(part) = IF m <= n THEN n - m + 1 ELSE 0
      /\ \A k \in 1..Len(part) : part[k] = s[m + k - 1]
  BY <1>1
<1> HIDE DEF part
<1>3. DOMAIN part = 1..Len(part) /\ x \in ToSet(part)
  BY <1>2 DEF part
<1>4. PICK k \in 1..Len(part) : x = part[k]
  BY <1>3 DEF ToSet
<1>5. m + k - 1 \in m..n /\ m + k - 1 \in 1..Len(s)
  BY <1>1, <1>2, <1>4
<1> QED
  BY <1>2, <1>4, <1>5

LEMMA EndOfAppended ==
  ASSUME NEW u \in Seq(Entries), NEW x \in Entries
  PROVE Append(u, x) # <<>> /\ Front(Append(u, x)) = u /\ Last(Append(u, x)) = x
<1> DEFINE v == Append(u, x)
<1>1. /\ v \in Seq(Entries) /\ Len(v) = Len(u) + 1 /\ Len(u) \in Nat
      /\ v[Len(u) + 1] = x /\ \A i \in 1..Len(u) : v[i] = u[i]
  OBVIOUS
<1> HIDE DEF v
<1>2. Last(v) = x /\ v # <<>>
  BY <1>1 DEF Last
<1> DEFINE l == Len(v) - 1
           w == SubSeq(v, 1, l)
<1>3. l = Len(u) /\ l <= Len(v)
  BY <1>1
<1> HIDE DEF l
<1>4. w \in Seq(Entries) /\ Len(w) = Len(u) /\ \A i \in 1..Len(u) : w[i] = v[i]
  BY <1>1, <1>3
<1> HIDE DEF w
<1>5. w = u
  BY <1>1, <1>4
<1>6. Front(v) = w
  BY DEF Front, w, l
<1> QED
  BY <1>2, <1>5, <1>6 DEF v

\* Some places, one of them at t
LEMMA OneAmong ==
  ASSUME NEW s \in Seq(Entries), NEW m \in Nat, m > 0, NEW n \in Int, n <= Len(s),
         NEW t \in m..n, NEW S
  PROVE /\ SubSeq(s, m, t - 1) \in Seq(Entries) /\ SubSeq(s, t + 1, n) \in Seq(Entries)
        /\ s[t] \in Entries
        /\ Sublist(SubSeq(s, m, n), S)
             = Sublist(SubSeq(s, m, t - 1), S)
                 \o (Sublist(<<s[t]>>, S) \o Sublist(SubSeq(s, t + 1, n), S))
<1> DEFINE a == SubSeq(s, m, t - 1)
           b == SubSeq(s, t, t)
           c == SubSeq(s, t + 1, n)
           bc == SubSeq(s, t, n)
           k == t - 1
<1>1. Len(s) \in Nat /\ t \in Nat /\ t > 0 /\ t \in 1..Len(s) /\ m <= t /\ t <= n /\ n \in Nat
  OBVIOUS
<1>2. k \in Int /\ m <= k + 1 /\ k <= n /\ k + 1 = t
  BY <1>1
<1>3. SubSeq(s, m, n) = SubSeq(s, m, k) \o SubSeq(s, k + 1, n)
  <2> HIDE DEF k
  <2> QED
    BY <1>2, InTwoParts
<1>4. bc = b \o c
  <2>1. t \in Int /\ t <= t + 1
    BY <1>1
  <2> QED
    BY <1>1, <2>1, InTwoParts
<1>5. SubSeq(s, m, n) = a \o bc
  BY <1>2, <1>3
<1>6. a \in Seq(Entries)
  <2> HIDE DEF k
  <2>1. SubSeq(s, m, k) \in Seq(Entries)
    BY <1>1, <1>2
  <2> QED
    BY <2>1 DEF k
<1>7. b \in Seq(Entries) /\ Len(b) = 1 /\ b[1] = s[t] /\ s[t] \in Entries
  BY <1>1
<1>8. c \in Seq(Entries)
  BY <1>1
<1>9. bc \in Seq(Entries)
  BY <1>1
<1> HIDE DEF a, b, c, bc
<1>10. b = <<s[t]>>
  BY <1>7
<1>11. Sublist(bc, S) = Sublist(b, S) \o Sublist(c, S)
  BY <1>4, <1>7, <1>8, EntriesOfBoth
<1>12. Sublist(a \o bc, S) = Sublist(a, S) \o Sublist(bc, S)
  BY <1>6, <1>9, EntriesOfBoth
<1> QED
  BY <1>5, <1>6, <1>7, <1>8, <1>10, <1>11, <1>12 DEF a, c

\* One of some places is open, and none of those that follow it, or precede it.
LEMMA LastOpen ==
  ASSUME NEW s \in Seq(Entries), NEW m \in Nat, m > 0, NEW n \in Int, n <= Len(s),
         NEW t \in m..n, NEW S, s[t] \in S, Sublist(SubSeq(s, t + 1, n), S) = <<>>
  PROVE Sublist(SubSeq(s, m, n), S) = Append(Sublist(SubSeq(s, m, t - 1), S), s[t])
<1> DEFINE a == Sublist(SubSeq(s, m, t - 1), S)
           x == s[t]
<1>1. /\ SubSeq(s, m, t - 1) \in Seq(Entries) /\ x \in Entries
      /\ Sublist(SubSeq(s, m, n), S) = a \o (Sublist(<<x>>, S) \o Sublist(SubSeq(s, t + 1, n), S))
  BY OneAmong
<1>2. a \in Seq(Entries)
  BY <1>1, SublistNoLonger
<1>3. Sublist(<<x>>, S) = <<x>>
  BY <1>1, SublistOfOne
<1> HIDE DEF a, x
<1>4. a \o (<<x>> \o <<>>) = Append(a, x)
  BY <1>1, <1>2
<1>5. Sublist(SubSeq(s, m, n), S) = Append(a, x)
  BY <1>1, <1>3, <1>4
<1> QED
  BY <1>5 DEF a, x

LEMMA FirstOpen ==
  ASSUME NEW s \in Seq(Entries), NEW m \in Nat, m > 0, NEW n \in Int, n <= Len(s),
         NEW t \in m..n, NEW S, Sublist(SubSeq(s, m, t - 1), S) = <<>>
  PROVE Sublist(SubSeq(s, m, n), S) = Sublist(<<s[t]>>, S) \o Sublist(SubSeq(s, t + 1, n), S)
<1> DEFINE x == <<s[t]>>
           a == Sublist(x, S)
           b == Sublist(SubSeq(s, t + 1, n), S)
<1>1. /\ SubSeq(s, t + 1, n) \in Seq(Entries) /\ s[t] \in Entries
      /\ Sublist(SubSeq(s, m, n), S) = Sublist(SubSeq(s, m, t - 1), S) \o (a \o b)
  BY OneAmong
<1>2. x \in Seq(Entries)
  BY <1>1
<1> HIDE DEF x
<1>3. a \in Seq(Entries) /\ b \in Seq(Entries)
  BY <1>1, <1>2, SublistNoLonger
<1> HIDE DEF a, b
<1>4. a \o b \in Seq(Entries)
  BY <1>3
<1> DEFINE ab == a \o b
<1> HIDE DEF ab
<1>5. <<>> \o ab = ab
  BY <1>4 DEF ab
<1> QED
  BY <1>1, <1>5 DEF ab, a, b, x

-----------------------------------------------------------------------------
(* A handler that goes on in the file that is open starts from the entry that *)
(* is current: it closes and opens pages, and records up to n places.       *)
SameHistory(f, g) == g.m_History = f.m_History /\ g.m_HistoryIndex = f.m_HistoryIndex

\* The entries of g are those of f up to the current one, without the d oldest, and newer ones:
\* of those that were there, no page was closed and is open.
Follows(f, g, n, d, newer) ==
  /\ d <= n /\ Len(newer) <= n
  /\ g.m_History = SubSeq(f.m_History, d + 1, f.m_HistoryIndex) \o newer
  /\ \A i \in (d + 1)..f.m_HistoryIndex :
       IsOpen(g, f.m_History[i].Page) => IsOpen(f, f.m_History[i].Page)

Stays(f, g) ==
  /\ SameHistory(f, g)
  /\ \A i \in 1..Len(f.m_History) :
       IsOpen(g, f.m_History[i].Page) => IsOpen(f, f.m_History[i].Page)

Onward(f, g, n) ==
  \/ Stays(f, g)
  \/ /\ g.m_HistoryIndex = Len(g.m_History) /\ g.m_HistoryIndex # 0 /\ g.m_Active # 0
     /\ \E d \in 0..f.m_HistoryIndex, newer \in Seq(Entries) : Follows(f, g, n, d, newer)

LEMMA OnwardAlready == ASSUME NEW f PROVE Stays(f, f) /\ Onward(f, f, 0)
  BY DEF Onward, Stays, SameHistory

\* What a place is recorded in
LEMMA RecordIs ==
  ASSUME NEW f, Typed(f)
  PROVE \/ RecordNavigation(f) = f
        \/ /\ f.m_Active # 0 /\ Place(f) \in Entries /\ SameViews(f, RecordNavigation(f))
           /\ RecordNavigation(f).m_HistoryIndex = Len(RecordNavigation(f).m_History)
           /\ \/ RecordNavigation(f).m_History = Append(Discarded(f), Place(f))
              \/ /\ Len(Discarded(f)) > 0
                 /\ RecordNavigation(f).m_History = Tail(Append(Discarded(f), Place(f)))
<1> DEFINE r == RecordNavigation(f)
           longer == Append(Discarded(f), Place(f))
           kept == IF Len(longer) > MaxHistory THEN Tail(longer) ELSE longer
           g == WithHistory(f, kept, Len(kept))
<1>1. CASE f.m_Active = 0 \/ IsCurrent(f, Place(f))
  BY <1>1 DEF RecordNavigation
<1>2. CASE f.m_Active # 0 /\ ~IsCurrent(f, Place(f))
  <2>1. r = g
    BY <1>2 DEF RecordNavigation, WithHistory
  <2>2. Place(f) \in Entries /\ SameViews(f, r)
    BY <1>2, PlaceIsAnEntry, RecordNavigationKnows
  <2>3. Discarded(f) \in Seq(Entries)
    BY FieldsOf DEF Discarded
  <2>4. Len(longer) = Len(Discarded(f)) + 1 /\ Len(Discarded(f)) \in Nat
    BY <2>2, <2>3
  <2> HIDE DEF longer
  <2>5. kept = longer \/ (kept = Tail(longer) /\ Len(Discarded(f)) > 0)
    BY <2>4, HistoryHolds
  <2> HIDE DEF kept
  <2>6. g.m_History = kept /\ g.m_HistoryIndex = Len(kept)
    BY DEF Typed, Frames, WithHistory
  <2> HIDE DEF r, g
  <2>7. r.m_History = kept /\ r.m_HistoryIndex = Len(r.m_History)
    BY <2>1, <2>6
  <2> QED
    BY <1>2, <2>2, <2>5, <2>7 DEF r, longer
<1> QED
  BY <1>1, <1>2

LEMMA OnwardMore ==
  ASSUME NEW f, Typed(f), NEW g, NEW n \in Nat, NEW m \in Nat, n <= m, Onward(f, g, n)
  PROVE Onward(f, g, m)
<1>1. f.m_HistoryIndex \in Nat
  BY FieldsOf
<1>2. ASSUME NEW d \in 0..f.m_HistoryIndex, NEW newer \in Seq(Entries), Follows(f, g, n, d, newer)
      PROVE Follows(f, g, m, d, newer)
  <2>1. d \in Nat /\ Len(newer) \in Nat /\ d <= n /\ Len(newer) <= n
    BY <1>1, <1>2 DEF Follows
  <2>2. d <= m /\ Len(newer) <= m
    BY <2>1
  <2> QED
    BY <1>2, <2>2 DEF Follows
<1> QED
  BY <1>2 DEF Onward

\* What g has up to its current entry, however it came to be
LEMMA OnwardBehind ==
  ASSUME NEW f, Typed(f), NEW g, Typed(g), NEW n \in Nat, Onward(f, g, n)
  PROVE \E d \in 0..f.m_HistoryIndex, newer \in Seq(Entries) :
          /\ d <= n /\ Len(newer) <= n
          /\ Discarded(g) = SubSeq(f.m_History, d + 1, f.m_HistoryIndex) \o newer
          /\ \A i \in (d + 1)..f.m_HistoryIndex :
               IsOpen(g, f.m_History[i].Page) => IsOpen(f, f.m_History[i].Page)
<1>1. /\ f.m_History \in Seq(Entries) /\ Len(f.m_History) \in Nat
      /\ f.m_HistoryIndex \in 0..Len(f.m_History)
      /\ g.m_History \in Seq(Entries)
  BY FieldsOf
<1>2. CASE Stays(f, g)
  <2> DEFINE none == <<>>
             s == SubSeq(f.m_History, 1, f.m_HistoryIndex)
  <2>1. none \in Seq(Entries) /\ Len(none) = 0
    OBVIOUS
  <2>2. s \in Seq(Entries)
    BY <1>1
  <2>3. Discarded(g) = s
    BY <1>2 DEF Discarded, Stays, SameHistory
  <2> HIDE DEF s
  <2>4. Discarded(g) = s \o none
    BY <2>2, <2>3
  <2>5. 0 \in 0..f.m_HistoryIndex /\ 0 + 1 = 1 /\ 0 <= n
    BY <1>1
  <2>6. \A i \in (0 + 1)..f.m_HistoryIndex :
          IsOpen(g, f.m_History[i].Page) => IsOpen(f, f.m_History[i].Page)
    <3>1. \A i \in (0 + 1)..f.m_HistoryIndex : i \in 1..Len(f.m_History)
      BY <1>1
    <3> QED
      BY <1>2, <3>1 DEF Stays
  <2>7. Discarded(g) = SubSeq(f.m_History, 0 + 1, f.m_HistoryIndex) \o none
    BY <2>4, <2>5 DEF s
  <2> HIDE DEF none
  <2> QED
    BY <2>1, <2>5, <2>6, <2>7
<1>3. CASE ~Stays(f, g)
  <2>1. PICK d \in 0..f.m_HistoryIndex, newer \in Seq(Entries) : Follows(f, g, n, d, newer)
    BY <1>3 DEF Onward
  <2>2. g.m_HistoryIndex = Len(g.m_History)
    BY <1>3 DEF Onward
  <2>3. Discarded(g) = g.m_History
    BY <1>1, <2>2 DEF Discarded
  <2> QED
    BY <2>1, <2>3 DEF Follows
<1> QED
  BY <1>2, <1>3

LEMMA OnwardRecords ==
  ASSUME NEW f, Typed(f), NEW g, Typed(g), NEW n \in Nat, Onward(f, g, n)
  PROVE Onward(f, RecordNavigation(g), n + 1)
<1> DEFINE r == RecordNavigation(g)
           behind == Discarded(g)
           place == Place(g)
<1>1. CASE r = g
  <2>1. n + 1 \in Nat /\ n <= n + 1
    OBVIOUS
  <2> QED
    BY <1>1, <2>1, OnwardMore
<1>2. CASE r # g
  <2>1. /\ f.m_History \in Seq(Entries) /\ Len(f.m_History) \in Nat
        /\ f.m_HistoryIndex \in 0..Len(f.m_History)
    BY FieldsOf
  <2>2. /\ g.m_Active # 0 /\ place \in Entries /\ SameViews(g, r)
        /\ r.m_HistoryIndex = Len(r.m_History)
        /\ \/ r.m_History = Append(behind, place)
           \/ Len(behind) > 0 /\ r.m_History = Tail(Append(behind, place))
    BY <1>2, RecordIs
  <2>3. PICK d \in 0..f.m_HistoryIndex, newer \in Seq(Entries) :
          /\ d <= n /\ Len(newer) <= n
          /\ behind = SubSeq(f.m_History, d + 1, f.m_HistoryIndex) \o newer
          /\ \A i \in (d + 1)..f.m_HistoryIndex :
               IsOpen(g, f.m_History[i].Page) => IsOpen(f, f.m_History[i].Page)
    BY OnwardBehind
  <2> HIDE DEF r, behind, place
  <2> DEFINE index == f.m_HistoryIndex
             older == SubSeq(f.m_History, d + 1, index)
             new == Append(newer, place)
  <2>4. r.m_Active # 0 /\ \A h : IsOpen(r, h) <=> IsOpen(g, h)
    BY <2>2 DEF SameViews, IsOpen
  <2>5. older \in Seq(Entries) /\ Len(older) = index - d /\ d \in Nat /\ index \in Nat /\ d <= index
    BY <2>1
  <2>6. new \in Seq(Entries) /\ Len(new) = Len(newer) + 1 /\ Len(newer) \in Nat
    BY <2>2
  <2>7. Append(behind, place) = older \o new
    <3> HIDE DEF older
    <3>1. older \in Seq(Entries) /\ newer \in Seq(Entries) /\ place \in Entries
      BY <2>2, <2>5
    <3>2. Append(older \o newer, place) = older \o Append(newer, place)
      BY <3>1, AppendedTo
    <3> QED
      BY <2>3, <3>2 DEF older
  <2> HIDE DEF older, new
  <2> DEFINE Further == /\ Len(r.m_History) # 0
                        /\ \E e \in 0..f.m_HistoryIndex, more \in Seq(Entries) :
                             Follows(f, r, n + 1, e, more)
  <2>8. SUFFICES Further
    <3> DEFINE m == n + 1
    <3> SUFFICES ASSUME Further PROVE Onward(f, r, m)
      BY DEF r
    <3>1. \E e \in 0..f.m_HistoryIndex, more \in Seq(Entries) : Follows(f, r, m, e, more)
      OBVIOUS
    <3> HIDE DEF m
    <3> QED
      BY <2>2, <2>4, <3>1 DEF Onward
  <2>9. older \o new \in Seq(Entries) /\ Len(older \o new) = Len(older) + Len(new)
    <3>1. older \in Seq(Entries) /\ new \in Seq(Entries)
      BY <2>5, <2>6
    <3> QED
      BY ONLY <3>1
  <2>10. CASE r.m_History = Append(behind, place)
    <3>1. Len(r.m_History) # 0
      BY <2>5, <2>6, <2>7, <2>9, <2>10
    <3>2. Follows(f, r, n + 1, d, new)
      <4>1. d <= n + 1 /\ Len(new) <= n + 1
        BY <2>3, <2>5, <2>6
      <4> QED
        BY <2>3, <2>4, <2>7, <2>10, <4>1 DEF Follows, older
    <3> QED
      BY <2>6, <3>1, <3>2
  <2>11. CASE Len(behind) > 0 /\ r.m_History = Tail(Append(behind, place))
    <3>1. r.m_History = Tail(older \o new)
      BY <2>7, <2>11
    <3>2. CASE d < index
      <4>1. d + 1 \in 0..index /\ (d + 1) \in 1..Len(f.m_History) /\ index \in (d + 1)..Len(f.m_History)
            /\ Len(older) > 0
        BY <2>1, <2>5, <3>2
      <4>2. Tail(older) = SubSeq(f.m_History, (d + 1) + 1, index)
        BY <2>1, <4>1, TailOfSubSeq DEF older
      <4>3. r.m_History = SubSeq(f.m_History, (d + 1) + 1, index) \o new
        BY <2>5, <2>6, <3>1, <4>1, <4>2, TailOfBoth
      <4>4. d + 1 <= n + 1 /\ Len(new) <= n + 1
        BY <2>3, <2>5, <2>6
      <4>5. \A i \in ((d + 1) + 1)..index : i \in (d + 1)..index
        BY <2>5
      <4>6. Follows(f, r, n + 1, d + 1, new)
        BY <2>3, <2>4, <4>3, <4>4, <4>5 DEF Follows
      <4>7. Len(r.m_History) # 0
        <5>1. Len(Tail(older \o new)) = Len(older \o new) - 1
          BY <2>5, <2>6, <2>9, <4>1
        <5> QED
          BY <2>5, <2>6, <2>9, <3>1, <4>1, <5>1
      <4> QED
        BY <2>6, <4>1, <4>6, <4>7
    <3>3. CASE d = index
      <4>1. older = <<>>
        BY <2>5, <3>3
      <4>2. older \o new = new
        BY <2>6, <4>1
      <4> DEFINE later == Tail(new)
      <4>3. r.m_History = later
        BY <3>1, <4>2
      <4>4. later \in Seq(Entries) /\ Len(later) = Len(newer)
        BY <2>6
      <4>5. Len(newer) # 0
        <5>1. behind = older \o newer
          BY <2>3 DEF older
        <5>2. Len(older \o newer) = Len(older) + Len(newer) /\ Len(older) = 0
          BY <2>3, <2>5, <4>1
        <5> QED
          BY <2>6, <2>11, <5>1, <5>2
      <4>6. older \o later = later
        BY <4>1, <4>4
      <4> HIDE DEF later
      <4>7. d <= n + 1 /\ Len(later) <= n + 1
        BY <2>3, <2>5, <2>6, <4>4
      <4>8. r.m_History = older \o later
        BY <4>3, <4>6
      <4>9. Follows(f, r, n + 1, d, later)
        BY <2>3, <2>4, <4>7, <4>8 DEF Follows, older
      <4> QED
        BY <4>3, <4>4, <4>5, <4>9
    <3> QED
      BY <2>5, <3>2, <3>3
  <2> QED
    BY <2>2, <2>10, <2>11
<1> QED
  BY <1>1, <1>2

\* The history is as it was: pages are closed, or opened that it does not know.
LEMMA OnwardWith ==
  ASSUME NEW f, Typed(f), NEW g, Typed(g), NEW h, NEW n \in Nat, SameHistory(g, h),
         \A i \in 1..Len(g.m_History) :
           IsOpen(h, g.m_History[i].Page) => IsOpen(g, g.m_History[i].Page),
         Stays(f, g) \/ h.m_Active # 0,
         Onward(f, g, n)
  PROVE Onward(f, h, n)
<1>1. CASE Stays(f, g)
  BY <1>1 DEF Onward, Stays, SameHistory
<1>2. CASE ~Stays(f, g)
  <2>1. PICK d \in 0..f.m_HistoryIndex, newer \in Seq(Entries) : Follows(f, g, n, d, newer)
    BY <1>2 DEF Onward
  <2>2. h.m_HistoryIndex = Len(h.m_History) /\ h.m_HistoryIndex # 0 /\ h.m_Active # 0
    BY <1>2 DEF Onward, SameHistory
  <2> DEFINE index == f.m_HistoryIndex
             older == SubSeq(f.m_History, d + 1, index)
  <2>3. /\ f.m_History \in Seq(Entries) /\ Len(f.m_History) \in Nat /\ index \in 0..Len(f.m_History)
        /\ g.m_History = older \o newer
    BY <2>1, FieldsOf DEF Follows
  <2> HIDE DEF index
  <2>4. /\ older \in Seq(Entries) /\ Len(older) = index - d /\ d \in Nat /\ index \in Nat /\ d <= index
        /\ \A k \in 1..(index - d) : older[k] = f.m_History[(d + 1) + k - 1]
    BY <2>1, <2>3 DEF index
  <2> HIDE DEF older
  <2>5. ASSUME NEW i \in (d + 1)..index PROVE \E k \in 1..Len(g.m_History) : g.m_History[k] = f.m_History[i]
    <3>1. i - d \in 1..(index - d) /\ (d + 1) + (i - d) - 1 = i /\ Len(newer) \in Nat
      <4>1. d \in Nat /\ index \in Nat /\ i \in Nat /\ d + 1 <= i /\ i <= index
        BY <2>4
      <4>2. i - d \in 1..(index - d) /\ (d + 1) + (i - d) - 1 = i
        BY ONLY <4>1
      <4>3. Len(newer) \in Nat
        OBVIOUS
      <4> QED
        BY <4>2, <4>3
    <3>2. Len(older \o newer) = Len(older) + Len(newer)
      <4>1. older \in Seq(Entries) /\ newer \in Seq(Entries)
        BY <2>4
      <4> QED
        BY ONLY <4>1
    <3>3. i - d \in 1..Len(older) /\ i - d \in 1..Len(g.m_History)
      BY <2>3, <2>4, <3>1, <3>2
    <3>4. (older \o newer)[i - d] = older[i - d]
      <4>1. \A k \in 1..Len(older) : (older \o newer)[k] = older[k]
        BY <2>4
      <4> QED
        BY <3>3, <4>1
    <3> QED
      BY <2>3, <2>4, <3>1, <3>3, <3>4
  <2>6. \A i \in (d + 1)..index : IsOpen(h, f.m_History[i].Page) => IsOpen(f, f.m_History[i].Page)
    BY <2>1, <2>5 DEF Follows, index
  <2>7. Follows(f, h, n, d, newer)
    BY <2>1, <2>6 DEF Follows, SameHistory, index
  <2> QED
    BY <2>2, <2>7 DEF Onward
<1> QED
  BY <1>1, <1>2

\* the same pages too
SameTrail(f, g) == SameHistory(f, g) /\ g.m_Pages = f.m_Pages /\ g.m_Active = f.m_Active

LEMMA OnwardOfSame ==
  ASSUME NEW f, NEW g, NEW h, NEW n, SameTrail(g, h), Onward(f, g, n)
  PROVE Onward(f, h, n)
<1>1. \A p : IsOpen(h, p) <=> IsOpen(g, p)
  BY DEF SameTrail, IsOpen
<1>2. CASE Stays(f, g)
  BY <1>1, <1>2 DEF Onward, Stays, SameTrail, SameHistory
<1>3. CASE ~Stays(f, g)
  <2>1. PICK d \in 0..f.m_HistoryIndex, newer \in Seq(Entries) : Follows(f, g, n, d, newer)
    BY <1>3 DEF Onward
  <2>2. Follows(f, h, n, d, newer)
    BY <1>1, <2>1 DEF Follows, SameTrail, SameHistory
  <2> QED
    BY <1>3, <2>2 DEF Onward, SameTrail, SameHistory
<1> QED
  BY <1>2, <1>3

-----------------------------------------------------------------------------
(* What the functions do that the handlers call                             *)
\* A new window is in no entry.
LEMMA NewIsUnknown ==
  ASSUME NEW f, Typed(f), Used(f) # Handles
  PROVE /\ New(f) \in Handles /\ New(f) \notin Used(f)
        /\ \A i \in 1..Len(f.m_History) : f.m_History[i].Page # New(f)
<1>1. \E h \in Handles : h \notin Used(f)
  BY UsedHandles
<1>2. New(f) \in Handles /\ New(f) \notin Used(f)
  BY <1>1 DEF New
<1>3. DOMAIN f.m_History = 1..Len(f.m_History)
  BY FieldsOf
<1>4. \A i \in 1..Len(f.m_History) : f.m_History[i].Page \in Used(f)
  BY <1>3 DEF Used, ToSet
<1> QED
  BY <1>2, <1>4

\* A page that is made active may be recorded.
LEMMA SetActivePageIs ==
  ASSUME NEW f, Whole(f), NEW page \in 1..Len(f.m_Pages)
  PROVE \E g : /\ Typed(g) /\ SameHistory(f, g) /\ g.m_Pages = f.m_Pages /\ g.m_Active # 0
               /\ SetActivePage(f, page) = g \/ SetActivePage(f, page) = RecordNavigation(g)
<1>1. Typed(f) /\ f \in Frames /\ Len(f.m_Pages) \in Nat
  BY FieldsOf DEF Whole, Typed
<1>2. CASE page = f.m_Active
  <2>1. SetActivePage(f, page) = f /\ f.m_Active # 0
    BY <1>1, <1>2 DEF SetActivePage
  <2> QED
    BY <1>1, <2>1 DEF SameHistory
<1>3. CASE page # f.m_Active
  <2> DEFINE g == [f EXCEPT !.m_Active = page]
  <2>1. SetActivePage(f, page) = RecordNavigation(g)
    BY <1>3 DEF SetActivePage
  <2>2. /\ g.m_Pages = f.m_Pages /\ g.m_Active = page
        /\ g.m_History = f.m_History /\ g.m_HistoryIndex = f.m_HistoryIndex
    BY <1>1 DEF Frames
  <2>3. page \in Nat /\ page # 0 /\ page <= Len(f.m_Pages)
    BY <1>1
  <2>4. g \in Frames
    BY <1>1, <2>3 DEF Frames
  <2> HIDE DEF g
  <2>5. Typed(g)
    BY <1>1, <2>2, <2>3, <2>4 DEF Typed
  <2> QED
    BY <2>1, <2>2, <2>3, <2>5 DEF SameHistory
<1> QED
  BY <1>2, <1>3

\* A view that is shown is in its page, or in a new one, which may be recorded.
LEMMA ShowViewIs ==
  ASSUME NEW f, Whole(f), NEW t \in Types, Used(f) # Handles
  PROVE \E g, r :
          /\ Typed(g) /\ SameHistory(f, g) /\ g.m_Active # 0
          /\ \A h : IsOpen(g, h) => IsOpen(f, h) \/ h = New(f)
          /\ \A h : IsOpen(f, h) => IsOpen(g, h)
          /\ r = g \/ r = RecordNavigation(g)
          /\ SameTrail(r, ShowView(f, t))
<1>1. Typed(f) /\ Agree(f) /\ f \in Frames
  BY DEF Whole, Typed
<1>2. CASE f.m_Views[t] # None
  <2> DEFINE page == PageOf(f, t)
  <2>1. ShowView(f, t) = SetActivePage(f, page)
    BY <1>2 DEF ShowView
  <2>2. page \in 1..Len(f.m_Pages)
    <3>1. f.m_Views[t] \in Handles
      BY <1>1, <1>2, FieldsOf
    <3>2. f.m_Views2[f.m_Views[t]] = t
      BY <1>1, <3>1 DEF Agree
    <3>3. f.m_Views[t] \in ToSet(f.m_Pages)
      BY <1>1, <3>1, <3>2, NoneIsNo DEF Agree, IsOpen
    <3>4. \E p \in 1..Len(f.m_Pages) : f.m_Pages[p] = f.m_Views[t]
      BY <1>1, <3>3, FieldsOf DEF ToSet
    <3> QED
      BY <3>4 DEF PageOf
  <2> HIDE DEF page
  <2>3. PICK g : /\ Typed(g) /\ SameHistory(f, g) /\ g.m_Pages = f.m_Pages /\ g.m_Active # 0
                 /\ SetActivePage(f, page) = g \/ SetActivePage(f, page) = RecordNavigation(g)
    BY <2>2, SetActivePageIs
  <2>4. \A h : IsOpen(g, h) <=> IsOpen(f, h)
    BY <2>3 DEF IsOpen
  <2>5. SameTrail(ShowView(f, t), ShowView(f, t))
    BY DEF SameTrail, SameHistory
  <2> QED
    BY <2>1, <2>3, <2>4, <2>5
<1>3. CASE f.m_Views[t] = None
  <2> DEFINE h == New(f)
             placed == [f EXCEPT !.position[h] = FirstPosition(t)]
             pages == Append(f.m_Pages, h)
             g == [placed EXCEPT !.m_Pages = pages, !.m_Active = Len(f.m_Pages) + 1]
             opened == AddPage(placed, h)
             done == [opened EXCEPT !.m_Views[t] = h, !.m_Views2[h] = t]
  <2>1. h \in Handles /\ h = New(f)
    BY <1>1, NewIsUnknown
  <2>2. ShowView(f, t) = done
    BY <1>3 DEF ShowView, Insert
  <2> HIDE DEF h
  <2>3. /\ placed \in Frames /\ placed.m_Pages = f.m_Pages /\ placed.m_Active = f.m_Active
        /\ placed.m_History = f.m_History /\ placed.m_HistoryIndex = f.m_HistoryIndex
    BY <1>1, FirstPositionIs DEF Frames
  <2> HIDE DEF placed
  <2>4. /\ f.m_Pages \in Seq(Handles) /\ Len(f.m_Pages) \in Nat /\ DOMAIN f.m_Pages = 1..Len(f.m_Pages)
        /\ f.m_Active \in 0..Len(f.m_Pages)
    BY <1>1, FieldsOf
  <2>5. /\ pages \in Seq(Handles) /\ Len(pages) = Len(f.m_Pages) + 1
        /\ DOMAIN pages = 1..(Len(f.m_Pages) + 1)
        /\ \A i \in 1..Len(f.m_Pages) : pages[i] = f.m_Pages[i] /\ i \in DOMAIN pages
        /\ pages[Len(f.m_Pages) + 1] = h
    BY <2>1, <2>4
  <2>6. opened = RecordNavigation(g)
    <3> DEFINE page == Len(f.m_Pages) + 1
               longer == [placed EXCEPT !.m_Pages = pages]
    <3>1. opened = SetActivePage(longer, page)
      <4>1. [placed EXCEPT !.m_Pages = Append(@, h)] = longer
        BY <2>3
      <4> QED
        BY <2>3, <4>1 DEF AddPage
    <3>2. page # f.m_Active
      BY <2>4
    <3> HIDE DEF page, pages
    <3>3. longer.m_Active = f.m_Active
      BY <2>3 DEF Frames
    <3>4. g = [longer EXCEPT !.m_Active = page]
      BY <2>3 DEF Frames, page
    <3> HIDE DEF g, longer, opened
    <3> QED
      BY <3>1, <3>2, <3>3, <3>4 DEF SetActivePage
  <2> HIDE DEF pages
  <2>7. /\ g \in Frames /\ g.m_Pages = pages /\ g.m_Active = Len(f.m_Pages) + 1
        /\ g.m_History = f.m_History /\ g.m_HistoryIndex = f.m_HistoryIndex
    <3>1. Len(f.m_Pages) + 1 \in Nat
      BY <2>4
    <3> QED
      BY <2>3, <2>5, <3>1 DEF Frames
  <2> HIDE DEF g, opened
  <2>8. Typed(g) /\ SameHistory(f, g) /\ g.m_Active # 0
    BY <1>1, <2>4, <2>5, <2>7 DEF Typed, SameHistory
  <2>9. opened \in Frames
    BY <2>6, <2>8, RecordNavigationKnows DEF Typed
  <2>10. SameTrail(opened, done)
    <3>1. /\ done.m_History = opened.m_History /\ done.m_HistoryIndex = opened.m_HistoryIndex
          /\ done.m_Pages = opened.m_Pages /\ done.m_Active = opened.m_Active
      BY <2>9 DEF Frames
    <3> HIDE DEF done
    <3> QED
      BY <3>1 DEF SameTrail, SameHistory
  <2> HIDE DEF done
  <2>11. \A p \in 1..(Len(f.m_Pages) + 1) : p \in 1..Len(f.m_Pages) \/ p = Len(f.m_Pages) + 1
    BY <2>4
  <2>12. /\ \A x : IsOpen(g, x) => IsOpen(f, x) \/ x = New(f)
         /\ \A x : IsOpen(f, x) => IsOpen(g, x)
    BY <2>1, <2>4, <2>5, <2>7, <2>11 DEF IsOpen, ToSet
  <2> QED
    BY <2>2, <2>6, <2>8, <2>10, <2>12
<1> QED
  BY <1>2, <1>3

LEMMA ShowViewOnward ==
  ASSUME NEW f, Typed(f), NEW g, Whole(g), NEW t \in Types, Used(g) # Handles,
         NEW n \in Nat, Onward(f, g, n)
  PROVE Onward(f, ShowView(g, t), n + 1)
<1>1. PICK h, r :
        /\ Typed(h) /\ SameHistory(g, h) /\ h.m_Active # 0
        /\ \A x : IsOpen(h, x) => IsOpen(g, x) \/ x = New(g)
        /\ r = h \/ r = RecordNavigation(h)
        /\ SameTrail(r, ShowView(g, t))
  BY ShowViewIs
<1>2. Typed(g)
  BY DEF Whole
<1>3. \A i \in 1..Len(g.m_History) :
        IsOpen(h, g.m_History[i].Page) => IsOpen(g, g.m_History[i].Page)
  BY <1>1, <1>2, NewIsUnknown
<1>4. Onward(f, h, n)
  BY <1>1, <1>2, <1>3, OnwardWith
<1>5. Onward(f, r, n + 1)
  <2>1. CASE r = h
    <3>1. n + 1 \in Nat /\ n <= n + 1
      OBVIOUS
    <3> QED
      BY <1>4, <2>1, <3>1, OnwardMore
  <2>2. CASE r = RecordNavigation(h)
    BY <1>1, <1>4, <2>2, OnwardRecords
  <2> QED
    BY <1>1, <2>1, <2>2
<1> QED
  BY <1>1, <1>5, OnwardOfSame

\* A page that is closed: what is active then may be recorded, if it was the active one.
LEMMA ClosedIs ==
  ASSUME NEW f, Whole(f), NEW page \in 1..Len(f.m_Pages), NEW next \in AfterRemoval(f)
  PROVE \E g : /\ Typed(g) /\ SameHistory(f, g)
               /\ \A h : IsOpen(g, h) => IsOpen(f, h)
               /\ IF f.m_Active = page THEN Closed(f, page, next) = RecordNavigation(g)
                                       ELSE Closed(f, page, next) = g /\ g.m_Active # 0
<1> DEFINE c == CloseTab(f, page)
           pages == RemoveAt(c.m_Pages, page)
           rest == [c EXCEPT !.m_Pages = pages]
           n == Len(f.m_Pages)
<1>1. Typed(f) /\ Agree(f) /\ f \in Frames /\ ActiveIfAny(f)
  BY KnowsIs DEF Whole, Typed
<1>2. /\ f.m_Pages \in Seq(Handles) /\ n \in Nat /\ DOMAIN f.m_Pages = 1..n
      /\ f.m_Active \in 0..n /\ page \in 1..n /\ f.m_Pages[page] \in Handles
  BY <1>1, FieldsOf
<1>3. f.m_Active # 0
  BY <1>1, <1>2 DEF ActiveIfAny
<1>4. /\ c \in Frames /\ c.m_Pages = f.m_Pages /\ c.m_Active = f.m_Active
      /\ c.m_History = f.m_History /\ c.m_HistoryIndex = f.m_HistoryIndex
  <2> DEFINE h == f.m_Pages[page]
             t == f.m_Views2[h]
  <2>1. c = [f EXCEPT !.m_Views[t] = None, !.m_Views2[h] = None, !.position[h] = None]
    BY DEF CloseTab
  <2> HIDE DEF c, h, t
  <2> QED
    BY <1>1, <2>1 DEF Frames
<1>5. Closed(f, page, next) = RemovePage(c, page, next)
  BY DEF Closed
<1> HIDE DEF c
<1>6. /\ pages \in Seq(Handles) /\ Len(pages) = n - 1
      /\ \A x : x \in ToSet(pages) => x \in ToSet(f.m_Pages)
  <2>1. pages = RemoveAt(f.m_Pages, page)
    BY <1>4
  <2>2. IsInjective(f.m_Pages)
    BY <1>1 DEF Agree
  <2> HIDE DEF pages
  <2> QED
    BY <1>2, <2>1, <2>2, RemoveAtIs, RemoveAtForgets
<1>7. RemovePage(c, page, next) =
        IF f.m_Active < page THEN rest
        ELSE IF f.m_Active > page THEN [rest EXCEPT !.m_Active = @ - 1]
        ELSE RecordNavigation([rest EXCEPT !.m_Active = next])
  BY <1>4 DEF RemovePage
<1> HIDE DEF pages
<1>8. /\ rest \in Frames /\ rest.m_Pages = pages /\ rest.m_Active = f.m_Active
      /\ rest.m_History = f.m_History /\ rest.m_HistoryIndex = f.m_HistoryIndex
  BY <1>4, <1>6 DEF Frames
<1> HIDE DEF rest
<1>9. ASSUME NEW active \in 0..(n - 1), NEW g, g = [rest EXCEPT !.m_Active = active]
      PROVE /\ Typed(g) /\ SameHistory(f, g) /\ g.m_Active = active
            /\ \A h : IsOpen(g, h) => IsOpen(f, h)
  <2>1. active \in Nat /\ active <= n - 1
    BY <1>2
  <2>2. /\ g \in Frames /\ g.m_Pages = pages /\ g.m_Active = active
        /\ g.m_History = f.m_History /\ g.m_HistoryIndex = f.m_HistoryIndex
    BY <1>8, <1>9, <2>1 DEF Frames
  <2>3. Typed(g)
    BY <1>1, <1>2, <1>6, <2>1, <2>2 DEF Typed
  <2> QED
    BY <1>6, <2>2, <2>3 DEF SameHistory, IsOpen
<1>10. CASE f.m_Active < page
  <2>1. f.m_Active \in 0..(n - 1)
    BY <1>2, <1>10
  <2>2. rest = [rest EXCEPT !.m_Active = f.m_Active]
    BY <1>8 DEF Frames
  <2>3. /\ Typed(rest) /\ SameHistory(f, rest) /\ rest.m_Active = f.m_Active
        /\ \A h : IsOpen(rest, h) => IsOpen(f, h)
    BY <1>9, <2>1, <2>2
  <2>4. Closed(f, page, next) = rest /\ f.m_Active # page
    BY <1>2, <1>5, <1>7, <1>10
  <2> QED
    BY <1>3, <2>3, <2>4
<1>11. CASE f.m_Active > page
  <2> DEFINE g == [rest EXCEPT !.m_Active = f.m_Active - 1]
  <2>1. f.m_Active - 1 \in 0..(n - 1) /\ f.m_Active - 1 # 0 /\ ~(f.m_Active < page) /\ f.m_Active # page
    BY <1>2, <1>11
  <2>2. Closed(f, page, next) = g
    BY <1>5, <1>7, <1>8, <1>11, <2>1
  <2> HIDE DEF g
  <2>3. /\ Typed(g) /\ SameHistory(f, g) /\ g.m_Active = f.m_Active - 1
        /\ \A h : IsOpen(g, h) => IsOpen(f, h)
    BY <1>9, <2>1 DEF g
  <2> QED
    BY <2>1, <2>2, <2>3
<1>12. CASE f.m_Active = page
  <2> DEFINE g == [rest EXCEPT !.m_Active = next]
  <2>1. next \in 0..(n - 1)
    BY <1>2 DEF AfterRemoval
  <2>2. Closed(f, page, next) = RecordNavigation(g)
    BY <1>2, <1>5, <1>7, <1>12
  <2> HIDE DEF g
  <2>3. /\ Typed(g) /\ SameHistory(f, g)
        /\ \A h : IsOpen(g, h) => IsOpen(f, h)
    BY <1>9, <2>1 DEF g
  <2> QED
    BY <1>12, <2>2, <2>3
<1> QED
  BY <1>2, <1>10, <1>11, <1>12

\* A page that is closed, when nothing else was done before
LEMMA ClosedOnward ==
  ASSUME NEW f, Whole(f), NEW page \in 1..Len(f.m_Pages), NEW next \in AfterRemoval(f)
  PROVE Onward(f, Closed(f, page, next), 1)
<1>1. Typed(f)
  BY DEF Whole
<1>2. PICK g : /\ Typed(g) /\ SameHistory(f, g)
               /\ \A h : IsOpen(g, h) => IsOpen(f, h)
               /\ Closed(f, page, next) = g \/ Closed(f, page, next) = RecordNavigation(g)
  BY ClosedIs
<1>3. Onward(f, g, 0)
  BY <1>2 DEF Onward, Stays
<1>4. Onward(f, RecordNavigation(g), 0 + 1)
  BY <1>1, <1>2, <1>3, OnwardRecords
<1>5. Onward(f, g, 1)
  BY <1>1, <1>3, OnwardMore
<1> QED
  BY <1>2, <1>4, <1>5

-----------------------------------------------------------------------------
(* Each handler that goes on: three places at most, and the page of the     *)
(* current entry is not closed and open again.                              *)
\* The page of the current entry is not closed and open again.
NowStays(f, g) ==
  f.m_HistoryIndex # 0 /\ IsOpen(g, f.m_History[f.m_HistoryIndex].Page)
    => IsOpen(f, f.m_History[f.m_HistoryIndex].Page)

\* What a handler does to the trail that goes on in the file it found
GoesOn(f, g) == Onward(f, g, 3) /\ NowStays(f, g)

LEMMA NowStaysIfActive ==
  ASSUME NEW f, Whole(f), f.m_Active # 0, NEW g PROVE NowStays(f, g)
<1>1. Typed(f) /\ f.m_History[f.m_HistoryIndex].Page = f.m_Pages[f.m_Active]
  BY DEF Whole, Knows
<1>2. f.m_Pages[f.m_Active] \in ToSet(f.m_Pages)
  BY <1>1, FieldsOf DEF ToSet
<1> QED
  BY <1>1, <1>2 DEF NowStays, IsOpen

\* A window that has a page has an active one.
LEMMA PagesAreActive ==
  ASSUME NEW f, Whole(f), NEW page \in 1..Len(f.m_Pages) PROVE f.m_Active # 0
  BY DEF Whole, Knows

\* Nothing was recorded, and no page opened.
LEMMA OnlyCloses ==
  ASSUME NEW f, NEW g, SameHistory(f, g), \A h : IsOpen(g, h) => IsOpen(f, h)
  PROVE GoesOn(f, g)
  BY DEF GoesOn, Onward, Stays, NowStays, SameHistory

LEMMA RecordingGoesOn ==
  ASSUME NEW f, Whole(f), NEW n \in Nat, NEW g, Typed(g), Onward(f, g, n), n <= 2
  PROVE Onward(f, RecordNavigation(g), 3)
<1>1. Typed(f)
  BY DEF Whole
<1>2. Onward(f, RecordNavigation(g), n + 1)
  BY <1>1, OnwardRecords
<1>3. n + 1 \in Nat /\ n + 1 <= 3 /\ 3 \in Nat
  OBVIOUS
<1> DEFINE m == n + 1
<1> HIDE DEF m
<1>4. Onward(f, RecordNavigation(g), m) /\ m \in Nat /\ m <= 3
  BY <1>2, <1>3 DEF m
<1> QED
  BY <1>1, <1>3, <1>4, OnwardMore

\* A command that comes from somewhere records where it was.
LEMMA CameFromOnward ==
  ASSUME NEW f, Whole(f)
  PROVE /\ Whole(CameFrom(f)) /\ CameFrom(f).m_Pages = f.m_Pages /\ Onward(f, CameFrom(f), 1)
        /\ f.m_Active = 0 => CameFrom(f) = f
<1>1. Typed(f)
  BY DEF Whole
<1>2. CameFrom(f).m_Pages = f.m_Pages
  BY <1>1, RecordNavigationKnows DEF CameFrom, SameViews
<1>3. Onward(f, CameFrom(f), 0 + 1)
  BY <1>1, OnwardAlready, OnwardRecords DEF CameFrom
<1>4. f.m_Active = 0 => CameFrom(f) = f
  BY DEF CameFrom, RecordNavigation
<1> QED
  BY <1>2, <1>3, <1>4, CameFromWhole

\* A view that is shown opens no page that the history knows.
LEMMA ShowViewStays ==
  ASSUME NEW f, Whole(f), NEW t \in Types, Used(f) # Handles
  PROVE NowStays(f, ShowView(f, t))
<1>1. PICK h, r :
        /\ Typed(h)
        /\ \A x : IsOpen(h, x) => IsOpen(f, x) \/ x = New(f)
        /\ r = h \/ r = RecordNavigation(h)
        /\ SameTrail(r, ShowView(f, t))
  BY ShowViewIs
<1>2. r.m_Pages = h.m_Pages
  BY <1>1, RecordNavigationKnows DEF SameViews
<1>3. \A x : IsOpen(ShowView(f, t), x) => IsOpen(f, x) \/ x = New(f)
  BY <1>1, <1>2 DEF SameTrail, IsOpen
<1>4. Typed(f) /\ f.m_HistoryIndex \in 0..Len(f.m_History) /\ Len(f.m_History) \in Nat
  BY FieldsOf DEF Whole
<1>5. f.m_HistoryIndex # 0 => f.m_HistoryIndex \in 1..Len(f.m_History)
  BY <1>4
<1> QED
  BY <1>3, <1>4, <1>5, NewIsUnknown DEF NowStays

LEMMA OnViewGoesOn ==
  ASSUME NavigationInv, NEW t \in Types, OnView(t) PROVE GoesOn(frame, frame')
<1>1. Whole(frame) /\ Typed(frame) /\ Used(frame) # Handles /\ frame' = ShowView(frame, t)
  BY DEF NavigationInv, Whole, OnView, HasRoom, Step
<1>2. Onward(frame, frame', 0 + 1)
  BY <1>1, OnwardAlready, ShowViewOnward
<1>3. Onward(frame, frame', 1)
  BY <1>2
<1>4. Onward(frame, frame', 3)
  BY <1>1, <1>3, OnwardMore
<1> QED
  BY <1>1, <1>4, ShowViewStays DEF GoesOn

LEMMA GoToGoesOn ==
  ASSUME NavigationInv, NEW t \in Types, NEW position \in Positions, GoTo(t, position)
  PROVE GoesOn(frame, frame')
<1> DEFINE came == CameFrom(frame)
           shown == ShowView(came, t)
           placed == SetNavigationPosition(shown, t, position)
           gone == RecordNavigation(placed)
<1>1. Whole(frame) /\ Typed(frame) /\ Used(came) # Handles /\ frame' = gone
  BY DEF NavigationInv, Whole, GoTo
<1>2. /\ Whole(came) /\ Onward(frame, came, 1)
      /\ frame.m_Active = 0 => came = frame
  BY <1>1, CameFromOnward
<1>3. Onward(frame, shown, 1 + 1) /\ Whole(shown) /\ NowStays(came, shown)
  BY <1>1, <1>2, ShowViewOnward, ShowViewWhole, ShowViewStays
<1>4. Onward(frame, shown, 2)
  BY <1>3
<1> HIDE DEF shown, came
<1>5. Whole(placed)
  BY <1>3, PlacedWhole DEF SetNavigationPosition
<1>6. SameTrail(shown, placed)
  BY <1>3 DEF SetNavigationPosition, Whole, Typed, Frames, SameTrail, SameHistory
<1> HIDE DEF placed
<1>7. Onward(frame, placed, 2) /\ Typed(placed)
  BY <1>4, <1>5, <1>6, OnwardOfSame DEF Whole
<1>8. Onward(frame, gone, 3)
  BY <1>1, <1>7, RecordingGoesOn
<1>9. NowStays(frame, gone)
  <2>1. CASE frame.m_Active # 0
    BY <1>1, <2>1, NowStaysIfActive
  <2>2. CASE frame.m_Active = 0
    <3>1. gone.m_Pages = shown.m_Pages
      BY <1>6, <1>7, RecordNavigationKnows DEF SameTrail, SameViews
    <3> QED
      BY <1>2, <1>3, <2>2, <3>1 DEF NowStays, IsOpen
  <2> QED
    BY <2>1, <2>2
<1> QED
  BY <1>1, <1>8, <1>9 DEF GoesOn

LEMMA GoToNothingGoesOn == ASSUME NavigationInv, GoToNothing PROVE GoesOn(frame, frame')
<1>1. Whole(frame) /\ Typed(frame) /\ frame' = CameFrom(frame)
  BY DEF NavigationInv, Whole, GoToNothing, Step
<1>2. Onward(frame, frame', 1) /\ frame'.m_Pages = frame.m_Pages
  BY <1>1, CameFromOnward
<1>3. Onward(frame, frame', 3)
  BY <1>1, <1>2, OnwardMore
<1> QED
  BY <1>2, <1>3 DEF GoesOn, NowStays, IsOpen

LEMMA MoveToGoesOn ==
  ASSUME NavigationInv, NEW position \in Positions, MoveTo(position) PROVE GoesOn(frame, frame')
<1>1. PICK h : frame' = [frame EXCEPT !.position[h] = position]
  BY DEF MoveTo, Step
<1>2. frame \in Frames
  BY DEF NavigationInv, Whole, Typed
<1>3. SameHistory(frame, frame') /\ frame'.m_Pages = frame.m_Pages
  BY <1>1, <1>2 DEF Frames, SameHistory
<1> QED
  BY <1>3, OnlyCloses DEF IsOpen

LEMMA FocusGoesOn ==
  ASSUME NavigationInv, NEW page \in 1..Len(frame.m_Pages), Focus(page) PROVE GoesOn(frame, frame')
<1>1. Whole(frame) /\ Typed(frame) /\ frame' = SetActivePage(frame, page)
  BY DEF NavigationInv, Whole, Focus, Step
<1>2. PICK g : /\ Typed(g) /\ SameHistory(frame, g) /\ g.m_Pages = frame.m_Pages
               /\ frame' = g \/ frame' = RecordNavigation(g)
  BY <1>1, SetActivePageIs
<1>3. GoesOn(frame, g) /\ Onward(frame, g, 0)
  BY <1>2, OnlyCloses DEF IsOpen, Onward, Stays, SameHistory
<1>4. Onward(frame, RecordNavigation(g), 3)
  BY <1>1, <1>2, <1>3, RecordingGoesOn
<1>5. NowStays(frame, frame')
  BY <1>1, PagesAreActive, NowStaysIfActive
<1> QED
  BY <1>2, <1>3, <1>4, <1>5 DEF GoesOn

LEMMA ClosePageGoesOn ==
  ASSUME NavigationInv, NEW page \in 1..Len(frame.m_Pages), ClosePage(page)
  PROVE GoesOn(frame, frame')
<1>1. PICK next \in AfterRemoval(frame) : frame' = Closed(frame, page, next)
  BY DEF ClosePage, Step
<1>2. Whole(frame) /\ Typed(frame)
  BY DEF NavigationInv, Whole
<1>3. Onward(frame, frame', 1)
  BY <1>1, <1>2, ClosedOnward
<1>4. Onward(frame, frame', 3)
  BY <1>2, <1>3, OnwardMore
<1> QED
  BY <1>2, <1>4, PagesAreActive, NowStaysIfActive DEF GoesOn

LEMMA ReopenViewGoesOn ==
  ASSUME NavigationInv, NEW page \in 1..Len(frame.m_Pages), ReopenView(page)
  PROVE GoesOn(frame, frame')
<1>1. PICK next \in AfterRemoval(frame) :
        /\ Used(Closed(frame, page, next)) # Handles
        /\ frame' = ShowView(Closed(frame, page, next), frame.m_Views2[frame.m_Pages[page]])
  BY DEF ReopenView, Step
<1>2. Whole(frame) /\ Typed(frame) /\ Whole(Closed(frame, page, next))
  BY ClosedWhole DEF NavigationInv, Whole
<1>3. frame.m_Views2[frame.m_Pages[page]] \in Types
  BY <1>2, TypeOfPage DEF Whole
<1>4. Onward(frame, Closed(frame, page, next), 1)
  BY <1>2, ClosedOnward
<1>5. Onward(frame, frame', 1 + 1)
  BY <1>1, <1>2, <1>3, <1>4, ShowViewOnward
<1>6. Onward(frame, frame', 2)
  BY <1>5
<1>7. Onward(frame, frame', 3)
  BY <1>2, <1>6, OnwardMore
<1> QED
  BY <1>2, <1>7, PagesAreActive, NowStaysIfActive DEF GoesOn

LEMMA ReplaceViewGoesOn ==
  ASSUME NavigationInv, NEW page \in 1..Len(frame.m_Pages), NEW t \in Types, ReplaceView(page, t)
  PROVE GoesOn(frame, frame')
<1> DEFINE came == CameFrom(frame)
           shown == ShowView(came, t)
           opened == RecordNavigation(shown)
<1>1. /\ Whole(frame) /\ Typed(frame) /\ Used(came) # Handles
      /\ \E next \in AfterRemoval(opened) :
           frame' = IF opened.m_Active = page THEN opened ELSE Closed(opened, page, next)
  BY DEF NavigationInv, Whole, ReplaceView, Step
<1>2. Whole(came) /\ Onward(frame, came, 1) /\ came.m_Pages = frame.m_Pages
  BY <1>1, CameFromOnward
<1>3. /\ Onward(frame, shown, 1 + 1) /\ Whole(shown) /\ Typed(shown)
      /\ Len(shown.m_Pages) >= Len(frame.m_Pages)
  BY <1>1, <1>2, ShowViewOnward, ShowViewWhole DEF Whole
<1>4. Onward(frame, shown, 2)
  BY <1>3
<1> HIDE DEF shown, came
<1>5. Onward(frame, opened, 3)
  BY <1>1, <1>3, <1>4, RecordingGoesOn
<1>6. Whole(opened) /\ Typed(opened) /\ opened.m_Pages = shown.m_Pages
  BY <1>3, RecordNavigationWhole, KnowsIs DEF Whole, SameViews
<1> HIDE DEF opened
<1>7. page \in 1..Len(opened.m_Pages)
  BY <1>1, <1>3, <1>6, FieldsOf
<1>8. NowStays(frame, frame')
  BY <1>1, PagesAreActive, NowStaysIfActive
<1>9. CASE opened.m_Active = page
  BY <1>1, <1>5, <1>8, <1>9 DEF GoesOn
<1>10. CASE opened.m_Active # page
  <2>1. PICK next \in AfterRemoval(opened) : frame' = Closed(opened, page, next)
    BY <1>1, <1>10
  <2>2. PICK g : /\ Typed(g) /\ SameHistory(opened, g)
                 /\ \A h : IsOpen(g, h) => IsOpen(opened, h)
                 /\ Closed(opened, page, next) = g /\ g.m_Active # 0
    BY <1>6, <1>7, <1>10, ClosedIs
  <2>3. Onward(frame, g, 3)
    BY <1>1, <1>5, <1>6, <2>2, OnwardWith
  <2> QED
    BY <1>8, <2>1, <2>2, <2>3 DEF GoesOn
<1> QED
  BY <1>9, <1>10

LEMMA CloseOthersGoesOn == ASSUME NavigationInv, OnWindowCloseOthers PROVE GoesOn(frame, frame')
<1> DEFINE h == frame.m_Pages[frame.m_Active]
           t == frame.m_Views2[h]
           views == [u \in Types |-> IF u = t THEN h ELSE None]
           views2 == [g \in Handles |-> IF g = h THEN t ELSE None]
           positions == [g \in Handles |-> IF g = h THEN frame.position[g] ELSE None]
           pages == <<h>>
<1>1. /\ Whole(frame) /\ Typed(frame) /\ frame \in Frames /\ frame.m_Active # 0
      /\ frame' = [frame EXCEPT !.m_Pages = <<h>>, !.m_Active = 1,
                                !.m_Views = [u \in Types |-> IF u = t THEN h ELSE None],
                                !.m_Views2 = [g \in Handles |-> IF g = h THEN t ELSE None],
                                !.position = [g \in Handles |-> IF g = h THEN @[g] ELSE None]]
  BY DEF NavigationInv, Whole, Typed, OnWindowCloseOthers, Step
<1>2. frame' = [frame EXCEPT !.m_Pages = pages, !.m_Active = 1, !.m_Views = views,
                             !.m_Views2 = views2, !.position = positions]
  BY <1>1
<1>3. h \in ToSet(frame.m_Pages)
  <2>1. frame.m_Active \in DOMAIN frame.m_Pages
    BY <1>1, FieldsOf
  <2> QED
    BY <2>1 DEF ToSet
<1> HIDE DEF h, views, views2, positions, pages
<1>4. SameHistory(frame, frame') /\ frame'.m_Pages = pages
  BY <1>1, <1>2 DEF Frames, SameHistory
<1>5. \A g : IsOpen(frame', g) => g = h
  BY <1>4 DEF IsOpen, ToSet, pages
<1> QED
  BY <1>3, <1>4, <1>5, OnlyCloses DEF IsOpen

LEMMA CloseAllGoesOn == ASSUME NavigationInv, OnWindowCloseAll PROVE GoesOn(frame, frame')
<1>1. frame \in Frames /\ frame' = CloseFileViews(frame)
  BY DEF NavigationInv, Whole, Typed, OnWindowCloseAll, Step
<1>2. SameHistory(frame, frame') /\ frame'.m_Pages = <<>>
  BY <1>1 DEF Frames, CloseFileViews, SameHistory
<1>3. \A g : ~IsOpen(frame', g)
  BY <1>2 DEF IsOpen, ToSet
<1> QED
  BY <1>2, <1>3, OnlyCloses

-----------------------------------------------------------------------------
(* What the trail has of a state of the frame, and its steps, of two states *)
OpenPlaces(f) == [Page : ToSet(f.m_Pages), Position : Positions \cup {None}]
UpTo(f) == SubSeq(f.m_History, 1, f.m_HistoryIndex)
Behind(f) == SubSeq(f.m_History, 1, f.m_HistoryIndex - 1)
Beyond(f) == SubSeq(f.m_History, f.m_HistoryIndex + 1, Len(f.m_History))
BeforeIn(f) == Sublist(Behind(f), OpenPlaces(f))
NowIn(f) == IF f.m_HistoryIndex = 0 THEN <<>> ELSE <<f.m_History[f.m_HistoryIndex]>>
AfterIn(f) == Sublist(Beyond(f), OpenPlaces(f))

LEMMA InOpenPlaces ==
  ASSUME NEW f, NEW x \in Entries PROVE x \in OpenPlaces(f) <=> IsOpen(f, x.Page)
  BY DEF OpenPlaces, IsOpen, Entries

\* the parts of the history
LEMMA PartsOf ==
  ASSUME NEW f, Typed(f)
  PROVE /\ UpTo(f) \in Seq(Entries) /\ Behind(f) \in Seq(Entries) /\ Beyond(f) \in Seq(Entries)
        /\ NowIn(f) \in Seq(Entries)
        /\ UpTo(f) = Behind(f) \o NowIn(f)
        /\ Len(UpTo(f)) = f.m_HistoryIndex
        /\ BeforeIn(f) \in Seq(Entries) /\ AfterIn(f) \in Seq(Entries)
<1> DEFINE s == f.m_History
           n == Len(s)
           k == f.m_HistoryIndex
<1>1. s \in Seq(Entries) /\ n \in Nat /\ k \in 0..n
  BY FieldsOf
<1> HIDE DEF s, k
<1>2. /\ SubSeq(s, 1, k) \in Seq(Entries) /\ Len(SubSeq(s, 1, k)) = k
      /\ SubSeq(s, k + 1, n) \in Seq(Entries)
  BY <1>1
<1>3. SubSeq(s, 1, k - 1) \in Seq(Entries) /\ (k = 0 => SubSeq(s, 1, k - 1) = <<>>)
  BY <1>1
<1>4. k # 0 => s[k] \in Entries
  BY <1>1
<1>5. CASE k = 0
  <2>1. SubSeq(s, 1, k) = <<>>
    BY <1>1, <1>5
  <2>2. SubSeq(s, 1, k) = SubSeq(s, 1, k - 1) \o <<>>
    BY <1>3, <1>5, <2>1
  <2>3. NowIn(f) = <<>> /\ NowIn(f) \in Seq(Entries)
    BY <1>5 DEF NowIn, k
  <2> QED
    BY <1>2, <1>3, <2>2, <2>3, SublistNoLonger
    DEF UpTo, Behind, Beyond, BeforeIn, AfterIn, s, k
<1>6. CASE k # 0
  <2>1. /\ 1 \in Nat /\ k - 1 \in Int /\ k \in Int /\ 1 > 0 /\ 1 <= (k - 1) + 1 /\ k - 1 <= k
        /\ k <= Len(s) /\ (k - 1) + 1 = k
    BY <1>1, <1>6
  <2>2. SubSeq(s, 1, k) = SubSeq(s, 1, k - 1) \o SubSeq(s, (k - 1) + 1, k)
    BY <1>1, <2>1, InTwoParts
  <2>3. SubSeq(s, k, k) = <<s[k]>>
    <3> DEFINE one == SubSeq(s, k, k)
    <3>1. one \in Seq(Entries) /\ Len(one) = 1 /\ one[1] = s[k]
      BY <1>1, <1>6
    <3> HIDE DEF one
    <3>2. one = <<one[1]>>
      BY <3>1
    <3> QED
      BY <3>1, <3>2 DEF one
  <2>4. NowIn(f) = <<s[k]>> /\ NowIn(f) \in Seq(Entries)
    BY <1>4, <1>6 DEF NowIn, s, k
  <2>5. SubSeq(s, 1, k) = SubSeq(s, 1, k - 1) \o NowIn(f)
    BY <2>1, <2>2, <2>3, <2>4
  <2> QED
    BY <1>2, <1>3, <2>4, <2>5, SublistNoLonger
    DEF UpTo, Behind, Beyond, BeforeIn, AfterIn, s, k
<1> QED
  BY <1>5, <1>6

\* The steps of the trail, of states of the frame
StillOf(s, g) == Sublist(s, OpenPlaces(g))

ForgottenAt(was, trail, d) ==
  /\ IsPrefix(SubSeq(was, d + 1, Len(was)), trail)
  /\ Len(trail) <= Len(was) - d + 3

TrailGoes(f, g) ==
  /\ NowIn(g) # <<>> /\ AfterIn(g) = <<>>
  /\ \E d \in 0..3 : ForgottenAt(StillOf(BeforeIn(f) \o NowIn(f), g), BeforeIn(g) \o NowIn(g), d)

TrailBack(f, g) ==
  /\ BeforeIn(f) # <<>>
  /\ BeforeIn(g) = Front(BeforeIn(f)) /\ NowIn(g) = <<Last(BeforeIn(f))>>
  /\ AfterIn(g) = StillOf(NowIn(f), f) \o AfterIn(f)
  /\ g.m_Pages = f.m_Pages

TrailForward(f, g) ==
  /\ AfterIn(f) # <<>>
  /\ BeforeIn(g) = BeforeIn(f) \o StillOf(NowIn(f), f) /\ NowIn(g) = <<Head(AfterIn(f))>>
  /\ AfterIn(g) = Tail(AfterIn(f))
  /\ g.m_Pages = f.m_Pages

TrailCloses(f, g) ==
  /\ BeforeIn(g) = StillOf(BeforeIn(f), g) /\ NowIn(g) = NowIn(f)
  /\ AfterIn(g) = StillOf(AfterIn(f), g)

TrailForgets(g) == BeforeIn(g) = <<>> /\ AfterIn(g) = <<>>

TrailRests(f, g) ==
  /\ BeforeIn(g) = BeforeIn(f) /\ NowIn(g) = NowIn(f) /\ AfterIn(g) = AfterIn(f)
  /\ g.m_Pages = f.m_Pages

TrailSteps(f, g) ==
  \/ TrailGoes(f, g) \/ TrailBack(f, g) \/ TrailForward(f, g) \/ TrailCloses(f, g)
  \/ TrailForgets(g) \/ TrailRests(f, g)

LEMMA StillIs ==
  ASSUME NEW s \in Seq(Entries), Typed(frame')
  PROVE NT!Still(s) = StillOf(s, frame')
<1>1. NT!Sublist(s, {place \in ToSet(s) : place.Page \in ToSet(frame'.m_Pages)})
        = Sublist(s, {place \in ToSet(s) : place.Page \in ToSet(frame'.m_Pages)})
  BY DEF NT!Sublist, Sublist, NT!Cardinality, Cardinality
<1>2. NT!ToSet(s) = ToSet(s)
  BY DEF NT!ToSet, ToSet
<1>3. NT!Still(s) = Sublist(s, {place \in ToSet(s) : place.Page \in ToSet(frame'.m_Pages)})
  BY <1>1, <1>2 DEF NT!Still
<1> DEFINE S == {place \in ToSet(s) : place.Page \in ToSet(frame'.m_Pages)}
           T == OpenPlaces(frame')
<1>4. \A x \in ToSet(s) : x \in Entries
  BY DEF ToSet
<1>5. \A x \in ToSet(s) : x \in S <=> x \in T
  BY <1>4, InOpenPlaces DEF IsOpen
<1> HIDE DEF S, T
<1>6. Sublist(s, S) = Sublist(s, T)
  BY <1>5, SublistOfSame
<1> QED
  BY <1>3, <1>6 DEF S, T, StillOf

LEMMA MappedIs ==
  /\ Before = BeforeIn(frame) /\ Before' = BeforeIn(frame')
  /\ After = AfterIn(frame) /\ After' = AfterIn(frame')
  BY DEF Before, After, BeforeIn, AfterIn, Behind, Beyond, OpenEntries, OpenPlaces

LEMMA StepsImplement ==
  ASSUME NavigationInv, NavigationInv', TrailSteps(frame, frame')
  PROVE [NT!TrailNext]_(NT!trailVars)
<1> DEFINE now == NowIn(frame)
           next == NowIn(frame')
<1>1. Typed(frame) /\ Typed(frame')
  BY DEF NavigationInv, Whole
<1>2. /\ now \in Seq(Entries) /\ next \in Seq(Entries)
      /\ Before \in Seq(Entries) /\ After \in Seq(Entries) /\ Before \o now \in Seq(Entries)
  <2>1. /\ now \in Seq(Entries) /\ next \in Seq(Entries)
        /\ Before \in Seq(Entries) /\ After \in Seq(Entries)
    BY <1>1, PartsOf, MappedIs
  <2> HIDE DEF now, next
  <2> QED
    BY <2>1
<1>3. /\ NT!Still(Before \o now) = StillOf(Before \o now, frame')
      /\ NT!Still(now) = StillOf(now, frame')
      /\ NT!Still(Before) = StillOf(Before, frame')
      /\ NT!Still(After) = StillOf(After, frame')
  <2> HIDE DEF now, next
  <2> QED
    BY <1>1, <1>2, StillIs
<1>4. /\ now = IF frame.m_HistoryIndex = 0 THEN <<>> ELSE <<frame.m_History[frame.m_HistoryIndex]>>
      /\ next = (IF frame.m_HistoryIndex = 0 THEN <<>> ELSE <<frame.m_History[frame.m_HistoryIndex]>>)'
  BY DEF NowIn
<1>5. CASE TrailGoes(frame, frame')
  <2>1. PICK d \in 0..3 : ForgottenAt(StillOf(Before \o now, frame'), Before' \o next, d)
    BY <1>5, MappedIs DEF TrailGoes
  <2>2. next # <<>> /\ After' = <<>>
    BY <1>5, MappedIs DEF TrailGoes
  <2>3. /\ IsPrefix(SubSeq(NT!Still(Before \o now), d + 1, Len(NT!Still(Before \o now))), Before' \o next)
        /\ Len(Before' \o next) <= Len(NT!Still(Before \o now)) - d + 3
    BY <1>3, <2>1 DEF ForgottenAt
  <2>4. /\ NT!IsPrefix(SubSeq(NT!Still(Before \o now), d + 1, Len(NT!Still(Before \o now))), Before' \o next)
        /\ Len(Before' \o next) <= Len(NT!Still(Before \o now)) - d + NT!PassedThrough
        /\ d \in 0..NT!PassedThrough
    BY <2>3 DEF NT!IsPrefix, IsPrefix, NT!PassedThrough
  <2>5. NT!Go
    BY <1>4, <2>2, <2>4 DEF NT!Go
  <2> QED
    BY <2>5 DEF NT!TrailNext
<1>6. CASE TrailCloses(frame, frame')
  <2>1. /\ Before' = NT!Still(Before) /\ next = now /\ After' = NT!Still(After)
    BY <1>3, <1>6, MappedIs DEF TrailCloses
  <2>2. NT!Close
    BY <1>4, <2>1 DEF NT!Close
  <2> QED
    BY <2>2 DEF NT!TrailNext
<1>7. CASE TrailForgets(frame')
  <2>1. Before' = <<>> /\ After' = <<>>
    BY <1>7, MappedIs DEF TrailForgets
  <2>2. Len(next) <= 1
    BY DEF NowIn
  <2>3. NT!Forget
    BY <1>4, <2>1, <2>2 DEF NT!Forget
  <2> QED
    BY <2>3 DEF NT!TrailNext
<1>8. CASE TrailBack(frame, frame')
  <2>1. StillOf(now, frame') = StillOf(now, frame) /\ ToSet(frame'.m_Pages) = ToSet(frame.m_Pages)
    BY <1>8 DEF TrailBack, StillOf, OpenPlaces
  <2>2. /\ Before # <<>> /\ Before' = NT!Front(Before) /\ next = <<NT!Last(Before)>>
        /\ After' = NT!Still(now) \o After
    BY <1>3, <1>8, <2>1, MappedIs DEF TrailBack, NT!Front, Front, NT!Last, Last
  <2>3. NT!Back
    BY <1>4, <2>1, <2>2 DEF NT!Back
  <2> QED
    BY <2>3 DEF NT!TrailNext
<1>9. CASE TrailForward(frame, frame')
  <2>1. StillOf(now, frame') = StillOf(now, frame) /\ ToSet(frame'.m_Pages) = ToSet(frame.m_Pages)
    BY <1>9 DEF TrailForward, StillOf, OpenPlaces
  <2>2. /\ After # <<>> /\ Before' = Before \o NT!Still(now) /\ next = <<Head(After)>>
        /\ After' = Tail(After)
    BY <1>3, <1>9, <2>1, MappedIs DEF TrailForward
  <2>3. NT!Forward
    BY <1>4, <2>1, <2>2 DEF NT!Forward
  <2> QED
    BY <2>3 DEF NT!TrailNext
<1>10. CASE TrailRests(frame, frame')
  <2>1. Before' = Before /\ next = now /\ After' = After /\ ToSet(frame'.m_Pages) = ToSet(frame.m_Pages)
    BY <1>10, MappedIs DEF TrailRests
  <2> QED
    BY <1>4, <2>1 DEF NT!trailVars
<1> QED
  BY <1>5, <1>6, <1>7, <1>8, <1>9, <1>10 DEF TrailSteps

-----------------------------------------------------------------------------
(* Going on is a step of the trail: either pages were closed and nothing else, *)
(* or some of the oldest places are forgotten and some were passed through. *)
\* What is open in both, of places none of which was opened
LEMMA StillOfOpen ==
  ASSUME NEW f, NEW g, NEW s \in Seq(Entries),
         \A x \in ToSet(s) : IsOpen(g, x.Page) => IsOpen(f, x.Page)
  PROVE /\ Sublist(s, OpenPlaces(f) \cap OpenPlaces(g)) = Sublist(s, OpenPlaces(g))
        /\ StillOf(Sublist(s, OpenPlaces(f)), g) = Sublist(s, OpenPlaces(g))
<1>1. \A x \in ToSet(s) : x \in Entries
  BY DEF ToSet
<1>2. \A x \in ToSet(s) : x \in OpenPlaces(f) \cap OpenPlaces(g) <=> x \in OpenPlaces(g)
  BY <1>1, InOpenPlaces
<1>3. Sublist(s, OpenPlaces(f) \cap OpenPlaces(g)) = Sublist(s, OpenPlaces(g))
  BY <1>2, SublistOfSame
<1>4. Sublist(Sublist(s, OpenPlaces(f)), OpenPlaces(g)) = Sublist(s, OpenPlaces(f) \cap OpenPlaces(g))
  BY SublistOfSublist
<1> QED
  BY <1>3, <1>4 DEF StillOf

LEMMA StaysCloses ==
  ASSUME NEW f, Typed(f), NEW g, Stays(f, g)
  PROVE TrailCloses(f, g)
<1>1. Behind(g) = Behind(f) /\ Beyond(g) = Beyond(f) /\ NowIn(g) = NowIn(f)
  BY DEF Stays, SameHistory, Behind, Beyond, NowIn
<1>2. Behind(f) \in Seq(Entries) /\ Beyond(f) \in Seq(Entries)
  BY PartsOf
<1>3. /\ f.m_History \in Seq(Entries) /\ Len(f.m_History) \in Nat
      /\ f.m_HistoryIndex \in 0..Len(f.m_History)
  BY FieldsOf
<1>4. \A x \in ToSet(Behind(f)) : \E i \in 1..Len(f.m_History) : x = f.m_History[i]
  <2>1. f.m_HistoryIndex - 1 \in Int /\ f.m_HistoryIndex - 1 <= Len(f.m_History) /\ 1 \in Nat /\ 1 > 0
    BY <1>3
  <2> QED
    BY <1>3, <2>1, PartHas DEF Behind
<1>5. \A x \in ToSet(Beyond(f)) : \E i \in 1..Len(f.m_History) : x = f.m_History[i]
  <2>1. f.m_HistoryIndex + 1 \in Nat /\ f.m_HistoryIndex + 1 > 0 /\ Len(f.m_History) \in Int /\ Len(f.m_History) <= Len(f.m_History)
    BY <1>3
  <2> DEFINE m == f.m_HistoryIndex + 1
  <2> HIDE DEF m
  <2>2. \A x \in ToSet(SubSeq(f.m_History, m, Len(f.m_History))) :
          \E i \in 1..Len(f.m_History) : x = f.m_History[i]
    BY <1>3, <2>1, PartHas DEF m
  <2> QED
    BY <2>2 DEF Beyond, m
<1>6. /\ \A x \in ToSet(Behind(f)) : IsOpen(g, x.Page) => IsOpen(f, x.Page)
      /\ \A x \in ToSet(Beyond(f)) : IsOpen(g, x.Page) => IsOpen(f, x.Page)
  BY <1>4, <1>5 DEF Stays
<1>7. /\ StillOf(BeforeIn(f), g) = Sublist(Behind(f), OpenPlaces(g))
      /\ StillOf(AfterIn(f), g) = Sublist(Beyond(f), OpenPlaces(g))
  BY <1>2, <1>6, StillOfOpen DEF BeforeIn, AfterIn
<1> QED
  BY <1>1, <1>7 DEF TrailCloses, BeforeIn, AfterIn

\* Where the user is and before, of what is open
LEMMA TrailUpTo ==
  ASSUME NEW f, Typed(f), NEW S,
         f.m_HistoryIndex # 0 => f.m_History[f.m_HistoryIndex] \in S
  PROVE Sublist(Behind(f), S) \o NowIn(f) = Sublist(UpTo(f), S)
<1>1. /\ Behind(f) \in Seq(Entries) /\ NowIn(f) \in Seq(Entries) /\ UpTo(f) = Behind(f) \o NowIn(f)
  BY PartsOf
<1>2. Sublist(UpTo(f), S) = Sublist(Behind(f), S) \o Sublist(NowIn(f), S)
  BY <1>1, SublistOfBoth
<1>3. ToSet(NowIn(f)) \subseteq S
  BY DEF NowIn, ToSet
<1>4. Sublist(NowIn(f), S) = NowIn(f)
  BY <1>1, <1>3, SublistOfAll
<1> QED
  BY <1>2, <1>4

LEMMA WasUpTo ==
  ASSUME NEW f, Typed(f), NEW g, NowStays(f, g)
  PROVE StillOf(BeforeIn(f) \o NowIn(f), g) = Sublist(UpTo(f), OpenPlaces(f) \cap OpenPlaces(g))
<1> DEFINE now == NowIn(f)
           P == OpenPlaces(f)
           Q == OpenPlaces(g)
           R == P \cap Q
<1>1. /\ Behind(f) \in Seq(Entries) /\ now \in Seq(Entries) /\ UpTo(f) = Behind(f) \o now
      /\ BeforeIn(f) \in Seq(Entries) /\ BeforeIn(f) = Sublist(Behind(f), P)
  BY PartsOf DEF BeforeIn
<1>2. \A x \in ToSet(now) : x \in Q <=> x \in R
  <2>1. CASE f.m_HistoryIndex = 0
    BY <2>1 DEF NowIn, ToSet
  <2>2. CASE f.m_HistoryIndex # 0
    <3> DEFINE x == f.m_History[f.m_HistoryIndex]
    <3>1. x \in Entries
      BY <2>2, FieldsOf
    <3>2. ToSet(now) = {x}
      BY <2>2 DEF NowIn, ToSet
    <3>3. IsOpen(g, x.Page) => IsOpen(f, x.Page)
      BY <2>2 DEF NowStays
    <3> HIDE DEF x, now
    <3> QED
      BY <3>1, <3>2, <3>3, InOpenPlaces
  <2> QED
    BY <2>1, <2>2
<1>7. now \in Seq(Entries)
  BY <1>1
<1>8. Behind(f) \in Seq(Entries)
  BY <1>1
<1>9. R = P \cap Q
  OBVIOUS
<1> HIDE DEF now, P, Q, R
<1>3. Sublist(now, Q) = Sublist(now, R)
  BY <1>2, <1>7, EntriesOfSame
<1>4. Sublist(BeforeIn(f), Q) = Sublist(Behind(f), R)
  BY <1>1, <1>8, <1>9, EntriesOfSublist
<1>5. Sublist(BeforeIn(f) \o now, Q) = Sublist(BeforeIn(f), Q) \o Sublist(now, Q)
  <2>1. BeforeIn(f) \in Seq(Entries)
    BY <1>1
  <2> QED
    BY <1>7, <2>1, EntriesOfBoth
<1>6. Sublist(UpTo(f), R) = Sublist(Behind(f), R) \o Sublist(now, R)
  BY <1>1, <1>7, <1>8, EntriesOfBoth
<1> QED
  BY <1>3, <1>4, <1>5, <1>6 DEF StillOf, now, P, Q, R

LEMMA FollowsGoes ==
  ASSUME NEW f, Typed(f), NEW g, Whole(g), NowStays(f, g),
         g.m_HistoryIndex = Len(g.m_History), g.m_HistoryIndex # 0, g.m_Active # 0,
         NEW d \in 0..f.m_HistoryIndex, NEW newer \in Seq(Entries), Follows(f, g, 3, d, newer)
  PROVE TrailGoes(f, g)
<1> DEFINE h == f.m_History
           k == f.m_HistoryIndex
           oldest == SubSeq(h, 1, d)
           kept == SubSeq(h, d + 1, k)
           P == OpenPlaces(f)
           Q == OpenPlaces(g)
           R == P \cap Q
           a == Sublist(oldest, R)
           b == Sublist(kept, Q)
           c == Sublist(newer, Q)
<1>1. h \in Seq(Entries) /\ Len(h) \in Nat /\ k \in 0..Len(h) /\ d \in 0..k /\ d <= 3
  BY FieldsOf DEF Follows
<1>2. /\ g.m_History = kept \o newer /\ Len(newer) <= 3 /\ Len(newer) \in Nat
      /\ \A i \in (d + 1)..k : IsOpen(g, h[i].Page) => IsOpen(f, h[i].Page)
  BY DEF Follows
<1>3. Typed(g) /\ g.m_History \in Seq(Entries) /\ Len(g.m_History) \in Nat
  BY FieldsOf DEF Whole
<1> HIDE DEF h, k
<1>4. /\ oldest \in Seq(Entries) /\ Len(oldest) = d /\ kept \in Seq(Entries)
      /\ SubSeq(h, 1, k) = oldest \o kept
  <2>1. 1 \in Nat /\ d \in Int /\ k \in Int /\ 1 > 0 /\ 1 <= d + 1 /\ d <= k /\ k <= Len(h)
    BY <1>1
  <2>2. SubSeq(h, 1, k) = oldest \o kept
    BY <1>1, <2>1, InTwoParts
  <2>3. oldest \in Seq(Entries) /\ Len(oldest) = d
    BY <1>1
  <2>4. kept \in Seq(Entries)
    BY <1>1
  <2> QED
    BY <2>2, <2>3, <2>4
<1>5. \A x \in ToSet(kept) : IsOpen(g, x.Page) => IsOpen(f, x.Page)
  <2> DEFINE m == d + 1
  <2>1. m \in Nat /\ m > 0 /\ k \in Int /\ k <= Len(h)
    BY <1>1
  <2> HIDE DEF m
  <2>2. \A x \in ToSet(SubSeq(h, m, k)) : \E i \in m..k : x = h[i]
    BY <1>1, <2>1, PartHas
  <2> QED
    BY <1>2, <2>2 DEF m
<1> HIDE DEF oldest, kept
<1>6. Sublist(kept, R) = b
  BY <1>4, <1>5, StillOfOpen
<1>7. StillOf(BeforeIn(f) \o NowIn(f), g) = a \o b
  <2>1. StillOf(BeforeIn(f) \o NowIn(f), g) = Sublist(UpTo(f), R)
    BY WasUpTo
  <2>2. UpTo(f) = oldest \o kept
    BY <1>4 DEF UpTo, h, k
  <2>3. Sublist(oldest \o kept, R) = Sublist(oldest, R) \o Sublist(kept, R)
    BY <1>4, EntriesOfBoth
  <2> QED
    BY <1>6, <2>1, <2>2, <2>3
<1>8. BeforeIn(g) \o NowIn(g) = b \o c
  <2>1. g.m_History[g.m_HistoryIndex] \in Entries
    BY <1>3
  <2>2. IsOpen(g, g.m_History[g.m_HistoryIndex].Page)
    <3>1. g.m_History[g.m_HistoryIndex].Page = g.m_Pages[g.m_Active]
      BY DEF Whole, Knows
    <3>2. g.m_Active \in DOMAIN g.m_Pages
      BY <1>3, FieldsOf
    <3> QED
      BY <3>1, <3>2 DEF IsOpen, ToSet
  <2>3. BeforeIn(g) \o NowIn(g) = Sublist(UpTo(g), Q)
    BY <1>3, <2>1, <2>2, InOpenPlaces, TrailUpTo DEF BeforeIn
  <2>4. UpTo(g) = g.m_History
    BY <1>3 DEF UpTo
  <2>5. Sublist(kept \o newer, Q) = b \o c
    BY <1>4, EntriesOfBoth
  <2> QED
    BY <1>2, <2>3, <2>4, <2>5
<1>9. NowIn(g) # <<>> /\ AfterIn(g) = <<>>
  <2>1. NowIn(g) # <<>>
    BY DEF NowIn
  <2>2. Beyond(g) \in Seq(Entries) /\ Len(Beyond(g)) = 0
    <3> DEFINE t == g.m_History
               n == Len(t)
    <3>1. t \in Seq(Entries) /\ n \in Nat /\ g.m_HistoryIndex = n /\ n = Len(t)
      BY <1>3
    <3> HIDE DEF t, n
    <3>2. SubSeq(t, n + 1, n) \in Seq(Entries) /\ Len(SubSeq(t, n + 1, n)) = 0
      BY <3>1
    <3> QED
      BY <3>1, <3>2 DEF Beyond, t, n
  <2>3. AfterIn(g) = <<>>
    <3> DEFINE t == Beyond(g)
    <3>1. t \in Seq(Entries) /\ \A i \in 1..Len(t) : t[i] \notin Q
      BY <2>2
    <3> HIDE DEF t, Q
    <3>2. Sublist(t, Q) = <<>>
      BY <3>1, SublistOfNone
    <3> QED
      BY <3>2 DEF AfterIn, t, Q
  <2> QED
    BY <2>1, <2>3
<1>10. /\ a \in Seq(Entries) /\ b \in Seq(Entries) /\ c \in Seq(Entries)
       /\ Len(a) \in Nat /\ Len(b) \in Nat /\ Len(c) \in Nat
       /\ Len(a) <= d /\ Len(c) <= 3
  <2>1. /\ a \in Seq(Entries) /\ Len(a) \in Nat /\ Len(a) <= Len(oldest)
    BY <1>4, SublistNoLonger
  <2>2. b \in Seq(Entries) /\ Len(b) \in Nat
    BY <1>4, SublistNoLonger
  <2>3. c \in Seq(Entries) /\ Len(c) \in Nat /\ Len(c) <= Len(newer)
    BY SublistNoLonger
  <2> HIDE DEF a, b, c
  <2>4. Len(a) <= d
    BY <1>1, <1>4, <2>1
  <2>5. Len(c) <= 3
    BY <1>2, <2>3
  <2> QED
    BY <2>1, <2>2, <2>3, <2>4, <2>5
<1> HIDE DEF a, b, c
<1>11. /\ SubSeq(a \o b, Len(a) + 1, Len(a \o b)) = b /\ Len(a \o b) = Len(a) + Len(b)
       /\ IsPrefix(b, b \o c) /\ Len(b \o c) = Len(b) + Len(c)
  <2>1. a \in Seq(Entries) /\ b \in Seq(Entries)
    BY <1>10
  <2>2. b \in Seq(Entries) /\ c \in Seq(Entries)
    BY <1>10
  <2> QED
    BY <2>1, <2>2, SecondPart
<1>12. Len(a) \in 0..3 /\ Len(b \o c) <= Len(a \o b) - Len(a) + 3
  <2> DEFINE l == Len(a)
             m == Len(b)
             n == Len(c)
             bc == Len(b \o c)
             ab == Len(a \o b)
  <2>1. l \in Nat /\ m \in Nat /\ n \in Nat /\ l <= d /\ n <= 3 /\ ab = l + m /\ bc = m + n
    BY <1>10, <1>11
  <2>2. d \in Nat /\ d <= 3
    BY <1>1
  <2> HIDE DEF l, m, n, ab, bc
  <2>3. l \in 0..3 /\ bc <= ab - l + 3
    BY <2>1, <2>2
  <2> QED
    BY <2>3 DEF l, ab, bc
<1>13. ForgottenAt(a \o b, b \o c, Len(a))
  BY <1>11, <1>12 DEF ForgottenAt
<1> QED
  BY <1>7, <1>8, <1>9, <1>12, <1>13 DEF TrailGoes

LEMMA GoesOnSteps ==
  ASSUME NEW f, Typed(f), NEW g, Whole(g), GoesOn(f, g)
  PROVE TrailSteps(f, g)
<1>1. CASE Stays(f, g)
  BY <1>1, StaysCloses DEF TrailSteps
<1>2. CASE ~Stays(f, g)
  <2>1. /\ g.m_HistoryIndex = Len(g.m_History) /\ g.m_HistoryIndex # 0 /\ g.m_Active # 0
        /\ NowStays(f, g)
        /\ \E d \in 0..f.m_HistoryIndex, newer \in Seq(Entries) : Follows(f, g, 3, d, newer)
    BY <1>2 DEF GoesOn, Onward
  <2> QED
    BY <2>1, FollowsGoes DEF TrailSteps
<1> QED
  BY <1>1, <1>2

-----------------------------------------------------------------------------
(* Another file, and the views shown again                                  *)
\* At most one entry, and the user at it: nothing is before and nothing after.
LEMMA ShortForgets ==
  ASSUME NEW g, Typed(g), g.m_HistoryIndex = Len(g.m_History), Len(g.m_History) <= 1
  PROVE TrailForgets(g)
<1> DEFINE t == g.m_History
           n == Len(t)
           a == SubSeq(t, 1, n - 1)
           b == SubSeq(t, n + 1, n)
           Q == OpenPlaces(g)
<1>1. t \in Seq(Entries) /\ n \in {0, 1} /\ g.m_HistoryIndex = n /\ n = Len(t)
  <2>1. t \in Seq(Entries) /\ n \in Nat /\ g.m_HistoryIndex = n /\ n <= 1
    BY FieldsOf
  <2>2. n = Len(t)
    OBVIOUS
  <2> HIDE DEF n
  <2>3. n \in {0, 1}
    BY <2>1
  <2> QED
    BY <2>1, <2>2, <2>3
<1> HIDE DEF t, n
<1>2. a \in Seq(Entries) /\ Len(a) = 0
  <2>1. t \in Seq(Entries) /\ n - 1 \in Int /\ n - 1 < 1 /\ n - 1 <= Len(t)
    BY <1>1
  <2> DEFINE m == n - 1
  <2> HIDE DEF m
  <2>2. SubSeq(t, 1, m) \in Seq(Entries) /\ Len(SubSeq(t, 1, m)) = 0
    BY <2>1 DEF m
  <2> QED
    BY <2>2 DEF m
<1>3. b \in Seq(Entries) /\ Len(b) = 0
  BY <1>1
<1> HIDE DEF a, b, Q
<1>4. Sublist(a, Q) = <<>> /\ Sublist(b, Q) = <<>>
  <2>1. \A i \in 1..Len(a) : a[i] \notin Q
    BY <1>2
  <2>2. \A i \in 1..Len(b) : b[i] \notin Q
    BY <1>3
  <2> QED
    BY <1>2, <1>3, <2>1, <2>2, SublistOfNone
<1> QED
  BY <1>1, <1>4 DEF TrailForgets, BeforeIn, AfterIn, Behind, Beyond, a, b, t, n, Q

\* What goes on from an empty history has no more entries than were recorded.
LEMMA OnwardFromNothing ==
  ASSUME NEW f, Typed(f), f.m_History = <<>>, NEW g, Typed(g), Onward(f, g, 1)
  PROVE TrailForgets(g)
<1>1. f.m_HistoryIndex = 0
  BY FieldsOf
<1>2. CASE Stays(f, g)
  <2>1. g.m_History = <<>> /\ g.m_HistoryIndex = 0
    BY <1>1, <1>2 DEF Stays, SameHistory
  <2>2. Len(g.m_History) = 0
    BY <2>1
  <2> QED
    BY <2>1, <2>2, ShortForgets
<1>3. CASE ~Stays(f, g)
  <2>1. PICK d \in 0..f.m_HistoryIndex, newer \in Seq(Entries) : Follows(f, g, 1, d, newer)
    BY <1>3 DEF Onward
  <2>2. d = 0 /\ Len(newer) <= 1 /\ g.m_History = SubSeq(f.m_History, d + 1, 0) \o newer
    BY <1>1, <2>1 DEF Follows
  <2>3. SubSeq(f.m_History, d + 1, 0) = <<>>
    BY <2>2
  <2>4. Len(g.m_History) <= 1
    BY <2>2, <2>3
  <2> QED
    BY <1>3, <2>4, ShortForgets DEF Onward
<1> QED
  BY <1>2, <1>3

LEMMA OpenFileForgets == ASSUME NavigationInv, OpenFile PROVE TrailForgets(frame')
<1> DEFINE reset == ResetNavigation(frame)
           closed == CloseFileViews(reset)
<1>1. Typed(frame) /\ Used(frame) # Handles /\ frame' = ShowView(closed, Root) /\ Root \in Types
  BY RootIsOfTheTree DEF NavigationInv, Whole, OpenFile, HasRoom, Step
<1>2. Used(frame) \subseteq Handles
  BY <1>1, UsedHandles
<1>3. Typed(reset) /\ reset.m_History = <<>>
  BY <1>1, ResetNavigationKeeps
<1> HIDE DEF reset
<1>4. Whole(closed) /\ closed.m_Pages = <<>> /\ closed.m_History = <<>>
  BY <1>3, CloseFileViewsWhole
<1> HIDE DEF closed
<1>5. Used(closed) = {}
  BY <1>4 DEF Used, ToSet
<1>6. Used(closed) # Handles /\ Typed(closed)
  BY <1>1, <1>2, <1>4, <1>5 DEF Whole
<1>7. Onward(closed, ShowView(closed, Root), 0 + 1)
  BY <1>1, <1>4, <1>6, OnwardAlready, ShowViewOnward
<1>8. Onward(closed, frame', 1)
  BY <1>1, <1>7
<1>9. Typed(frame')
  BY OpenFileWhole DEF Whole
<1> QED
  BY <1>4, <1>6, <1>8, <1>9, OnwardFromNothing

LEMMA OnFileCloseForgets == ASSUME NavigationInv, OnFileClose PROVE TrailForgets(frame')
<1>1. frame' = ResetNavigation(CloseFileViews(frame)) /\ Typed(frame)
  BY DEF OnFileClose, Step, NavigationInv, Whole
<1>2. Typed(CloseFileViews(frame))
  BY <1>1, CloseFileViewsWhole DEF Whole
<1>3. Typed(frame') /\ frame'.m_History = <<>>
  BY <1>1, <1>2, ResetNavigationKeeps
<1>4. Len(frame'.m_History) = 0
  BY <1>3
<1>5. frame'.m_HistoryIndex = 0
  BY <1>3, <1>4, FieldsOf
<1> QED
  BY <1>3, <1>4, <1>5, ShortForgets

LEMMA RefreshViewsForgets == ASSUME NavigationInv, RefreshViews PROVE TrailForgets(frame')
<1>1. PICK g : Typed(g) /\ g.m_History = <<>> /\ frame' = RecordNavigation(g)
  BY RefreshedIs
<1>2. Onward(g, RecordNavigation(g), 0 + 1)
  BY <1>1, OnwardAlready, OnwardRecords
<1>3. Onward(g, frame', 1)
  BY <1>1, <1>2
<1>4. Typed(frame')
  BY RefreshViewsWhole DEF Whole
<1> QED
  BY <1>1, <1>3, <1>4, OnwardFromNothing

-----------------------------------------------------------------------------
(* Back and Forward: the entries on the way have no page.                   *)
LEMMA ArriveHas ==
  ASSUME NEW f, Typed(f), NEW history, NEW index
  PROVE /\ Arrive(f, history, index).m_History = history
        /\ Arrive(f, history, index).m_HistoryIndex = index
        /\ Arrive(f, history, index).m_Pages = f.m_Pages
<1>1. f \in Frames
  BY DEF Typed
<1> QED
  BY <1>1 DEF Frames, Arrive

\* None of some places is open.
LEMMA NoneOpen ==
  ASSUME NEW f, Typed(f), NEW m \in Nat, m > 0, NEW n \in Int, n <= Len(f.m_History),
         \A i \in m..n : ~IsOpen(f, f.m_History[i].Page)
  PROVE Sublist(SubSeq(f.m_History, m, n), OpenPlaces(f)) = <<>>
<1> DEFINE s == f.m_History
           part == SubSeq(s, m, n)
<1>1. s \in Seq(Entries) /\ Len(s) \in Nat
  BY FieldsOf
<1>2. \A i \in m..n : ~IsOpen(f, s[i].Page)
  OBVIOUS
<1> HIDE DEF s
<1>3. part \in Seq(Entries) /\ n <= Len(s)
  BY <1>1 DEF s
<1>4. \A x \in ToSet(part) : \E i \in m..n : x = s[i]
  BY <1>1, <1>3, PartHas
<1> HIDE DEF part
<1>5. \A i \in 1..Len(part) : part[i] \in ToSet(part) /\ part[i] \in Entries
  BY <1>3 DEF ToSet
<1>6. \A i \in 1..Len(part) : part[i] \notin OpenPlaces(f)
  BY <1>2, <1>4, <1>5, InOpenPlaces
<1> QED
  BY <1>3, <1>6, SublistOfNone DEF part, s

\* The parts of a history without what is between two places
LEMMA JoinedParts ==
  ASSUME NEW f, Typed(f), NEW first \in 0..Len(f.m_History),
         NEW next \in 1..(Len(f.m_History) + 1), first < next
  PROVE /\ Joined(f, first, next) \in Seq(Entries)
        /\ SubSeq(Joined(f, first, next), first + 1, Len(Joined(f, first, next)))
             = SubSeq(f.m_History, next, Len(f.m_History))
        /\ \A k \in Int : k <= first =>
             SubSeq(Joined(f, first, next), 1, k) = SubSeq(f.m_History, 1, k)
<1> DEFINE s == f.m_History
           n == Len(s)
           a == SubSeq(s, 1, first)
           b == SubSeq(s, next, n)
           j == Joined(f, first, next)
<1>1. s \in Seq(Entries) /\ n \in Nat /\ first \in 0..n /\ next \in 1..(n + 1) /\ n = Len(s)
  BY FieldsOf
<1>2. j \in Seq(Entries) /\ \A i \in 1..first : j[i] = s[i]
  BY HistoryWithout
<1>3. Len(j) = first + (n + 1 - next)
  BY HistoryWithout
<1>4. j = a \o b
  BY DEF Joined
<1> HIDE DEF s, n, j
<1>5. a \in Seq(Entries) /\ Len(a) = first
  BY <1>1
<1>6. b \in Seq(Entries)
  BY <1>1
<1> HIDE DEF a, b
<1>7. SubSeq(j, first + 1, Len(j)) = b
  BY <1>4, <1>5, <1>6, SecondPart
<1>8. ASSUME NEW k \in Int, k <= first PROVE SubSeq(j, 1, k) = SubSeq(s, 1, k)
  <2> DEFINE p == SubSeq(j, 1, k)
             q == SubSeq(s, 1, k)
             l == IF 1 <= k THEN k ELSE 0
  <2>1. k <= Len(j) /\ k <= Len(s) /\ Len(j) \in Nat
    BY <1>1, <1>3, <1>8
  <2>2. p \in Seq(Entries) /\ Len(p) = l /\ \A i \in 1..l : p[i] = j[i]
    BY <1>2, <2>1
  <2>3. q \in Seq(Entries) /\ Len(q) = l /\ \A i \in 1..l : q[i] = s[i]
    BY <1>1, <2>1
  <2>4. \A i \in 1..l : i \in 1..first
    BY <1>1, <1>8
  <2> HIDE DEF p, q, l
  <2>5. p = q
    BY <1>2, <2>2, <2>3, <2>4
  <2> QED
    BY <2>5 DEF p, q
<1> QED
  BY <1>2, <1>7, <1>8 DEF s, n, j, b

LEMMA GoBackSteps == ASSUME NEW f, Whole(f) PROVE TrailSteps(f, GoBack(f))
<1> DEFINE s == f.m_History
           n == Len(s)
           k == f.m_HistoryIndex
           g == GoBack(f)
           P == OpenPlaces(f)
<1>1. Typed(f) /\ s \in Seq(Entries) /\ n \in Nat /\ k \in 0..n /\ n = Len(s)
  BY FieldsOf DEF Whole
<1>2. CASE k = 0 /\ g = f
  BY <1>2 DEF TrailSteps, TrailRests
<1>3. CASE /\ k # 0
           /\ \A i \in 1..(k - 1) : ~IsOpen(f, s[i].Page)
           /\ g = WithHistory(f, Joined(f, 0, k), 1)
  <2> DEFINE j == Joined(f, 0, k)
  <2>1. /\ 0 \in 0..n /\ k \in 1..(n + 1) /\ 0 < k /\ k <= n /\ k \in Nat /\ k - 1 \in Int
        /\ k - 1 <= n /\ k \in 1..n /\ n \in k..n
    BY <1>1, <1>3
  <2>2. /\ j \in Seq(Entries) /\ SubSeq(j, 0 + 1, Len(j)) = SubSeq(s, k, n)
        /\ Len(j) = 0 + (n + 1 - k) /\ j[0 + 1] = s[k]
        /\ Len(j) <= MaxHistory
    <3> HIDE DEF k
    <3> QED
      BY <1>1, <2>1, JoinedParts, HistoryWithout
  <2>3. 1 <= Len(j) /\ j[1] = s[k] /\ SubSeq(j, 1, Len(j)) = SubSeq(s, k, n) /\ Len(j) \in Nat
    <3> HIDE DEF k
    <3> QED
      BY <1>1, <2>1, <2>2
  <2>4. /\ g.m_History = j /\ g.m_HistoryIndex = 1 /\ g.m_Pages = f.m_Pages
    <3> HIDE DEF k, j
    <3> QED
      BY <1>1, <1>3, <2>2, <2>3, OtherHistory DEF j, SameViews
  <2> HIDE DEF j, g
  <2>5. NowIn(g) = NowIn(f) /\ OpenPlaces(g) = P
    <3>1. NowIn(f) = <<s[k]>>
      BY <1>3 DEF NowIn
    <3>2. NowIn(g) = <<j[1]>>
      BY <2>4 DEF NowIn
    <3> QED
      BY <2>3, <2>4, <3>1, <3>2 DEF OpenPlaces
  <2>6. Beyond(g) = Beyond(f)
    <3>1. SubSeq(j, 1 + 1, Len(j)) = Tail(SubSeq(j, 1, Len(j)))
      <4>1. 1 \in 1..Len(j) /\ Len(j) \in 1..Len(j)
        BY <2>3
      <4> QED
        BY <2>2, <4>1, TailOfSubSeq
    <3>2. SubSeq(s, k + 1, n) = Tail(SubSeq(s, k, n))
      <4> HIDE DEF k, s, n
      <4> QED
        BY <1>1, <2>1, TailOfSubSeq
    <3> QED
      BY <2>3, <2>4, <3>1, <3>2 DEF Beyond
  <2>7. BeforeIn(f) = <<>>
    BY <1>1, <1>3, <2>1, NoneOpen DEF BeforeIn, Behind
  <2>8. BeforeIn(g) = <<>>
    <3> DEFINE t == SubSeq(j, 1, 1 - 1)
    <3>1. t \in Seq(Entries) /\ Len(t) = 0
      BY <2>2
    <3> HIDE DEF t
    <3>2. \A i \in 1..Len(t) : t[i] \notin OpenPlaces(g)
      BY <3>1
    <3>3. Sublist(t, OpenPlaces(g)) = <<>>
      BY <3>1, <3>2, SublistOfNone
    <3> QED
      BY <2>4, <3>3 DEF BeforeIn, Behind, t
  <2>9. TrailRests(f, g)
    BY <2>4, <2>5, <2>6, <2>7, <2>8 DEF TrailRests, AfterIn
  <2> QED
    BY <2>9 DEF TrailSteps, g
<1>4. ASSUME NEW t \in 1..(k - 1), IsOpen(f, s[t].Page),
             \A i \in (t + 1)..(k - 1) : ~IsOpen(f, s[i].Page),
             g = Arrive(f, Joined(f, t, k), t)
      PROVE TrailSteps(f, g)
  <2> DEFINE j == Joined(f, t, k)
             last == <<s[t]>>
             here == <<s[k]>>
  <2>1. /\ t \in Nat /\ t # 0 /\ k \in Nat /\ k # 0 /\ t < k /\ k <= n /\ t \in 0..n /\ k \in 1..(n + 1)
        /\ k - 1 \in Int /\ k - 1 <= n /\ t - 1 \in Int /\ t - 1 <= t /\ t <= t
        /\ t \in 1..t /\ t + 1 \in Nat /\ t + 1 > 0 /\ k \in k..n /\ k > 0 /\ 1 > 0 /\ 1 \in Nat
    BY <1>1
  <2>2. /\ j \in Seq(Entries) /\ SubSeq(j, t + 1, Len(j)) = SubSeq(s, k, n)
        /\ SubSeq(j, 1, t - 1) = SubSeq(s, 1, t - 1) /\ j[t] = s[t]
    <3> HIDE DEF k
    <3> QED
      BY <1>1, <2>1, JoinedParts, HistoryWithout
  <2>3. g.m_History = j /\ g.m_HistoryIndex = t /\ g.m_Pages = f.m_Pages
    BY <1>1, <1>4, ArriveHas
  <2> HIDE DEF j, g
  <2>4. NowIn(g) = last /\ OpenPlaces(g) = P /\ NowIn(f) = here
    BY <2>1, <2>2, <2>3 DEF NowIn, OpenPlaces
  <2>5. BeforeIn(g) = Sublist(SubSeq(s, 1, t - 1), P)
    BY <2>2, <2>3, <2>4 DEF BeforeIn, Behind
  <2>6. Sublist(SubSeq(s, t + 1, k - 1), P) = <<>>
    <3> DEFINE m == t + 1
               o == k - 1
    <3>1. m \in Nat /\ m > 0 /\ o \in Int /\ o <= Len(f.m_History)
          /\ \A i \in m..o : ~IsOpen(f, f.m_History[i].Page)
      BY <1>1, <1>4, <2>1
    <3> HIDE DEF m, o
    <3> QED
      BY <1>1, <3>1, NoneOpen DEF m, o
  <2>7. s[t] \in Entries /\ s[t] \in P
    <3>1. s[t] \in Entries
      BY <1>1, <2>1
    <3> QED
      BY <1>4, <3>1, InOpenPlaces
  <2>8. BeforeIn(f) = Append(BeforeIn(g), s[t])
    <3> DEFINE o == k - 1
    <3>1. o \in Int /\ o <= Len(s) /\ t \in 1..o /\ SubSeq(s, 1, o) = Behind(f)
          /\ Sublist(SubSeq(s, t + 1, o), P) = <<>>
      BY <1>1, <2>1, <2>6 DEF Behind
    <3> HIDE DEF o, s, P
    <3>2. Sublist(SubSeq(s, 1, o), P) = Append(Sublist(SubSeq(s, 1, t - 1), P), s[t])
      BY <1>1, <2>1, <2>7, <3>1, LastOpen
    <3> QED
      BY <2>5, <3>1, <3>2 DEF BeforeIn, P
  <2>9. BeforeIn(g) \in Seq(Entries)
    <3>1. SubSeq(s, 1, t - 1) \in Seq(Entries)
      BY <1>1, <2>1
    <3> QED
      BY <2>5, <3>1, SublistNoLonger
  <2>11. /\ BeforeIn(f) # <<>> /\ Front(BeforeIn(f)) = BeforeIn(g) /\ Last(BeforeIn(f)) = s[t]
    BY <2>7, <2>8, <2>9, EndOfAppended
  <2>12. AfterIn(g) = StillOf(NowIn(f), f) \o AfterIn(f)
    <3>1. Beyond(g) = SubSeq(s, k, n)
      BY <2>2, <2>3 DEF Beyond
    <3>2. Sublist(SubSeq(s, k, k - 1), P) = <<>>
      <4> DEFINE o == k - 1
      <4>1. o \in Int /\ o <= Len(f.m_History) /\ \A i \in k..o : ~IsOpen(f, f.m_History[i].Page)
        BY <1>1, <2>1
      <4> HIDE DEF o, k
      <4> QED
        BY <1>1, <2>1, <4>1, NoneOpen DEF o
    <3>3. Sublist(SubSeq(s, k, n), P) = Sublist(here, P) \o Sublist(SubSeq(s, k + 1, n), P)
      <4> HIDE DEF s, k, P
      <4>1. n \in Int /\ n <= Len(s) /\ k \in k..n
        BY <1>1, <2>1
      <4>2. s \in Seq(Entries) /\ k \in Nat /\ k > 0
        BY <1>1, <2>1
      <4> HIDE DEF n
      <4> QED
        BY <3>2, <4>1, <4>2, FirstOpen
    <3> QED
      BY <2>4, <3>1, <3>3 DEF StillOf, AfterIn, Beyond
  <2>13. TrailBack(f, g)
    BY <2>3, <2>4, <2>11, <2>12 DEF TrailBack
  <2> QED
    BY <2>13 DEF TrailSteps, g
<1> QED
  BY <1>2, <1>3, <1>4, GoBackIs

LEMMA GoForwardSteps == ASSUME NEW f, Whole(f) PROVE TrailSteps(f, GoForward(f))
<1> DEFINE s == f.m_History
           n == Len(s)
           k == f.m_HistoryIndex
           m == k + 1
           g == GoForward(f)
           P == OpenPlaces(f)
<1>1. /\ Typed(f) /\ s \in Seq(Entries) /\ n \in Nat /\ k \in 0..n /\ n = Len(s) /\ k \in Nat
      /\ n <= MaxHistory
  BY FieldsOf DEF Whole
<1>2. m \in Nat /\ m > 0 /\ m \in 1..(n + 1) /\ k < m
  BY <1>1
<1>3. CASE /\ \A i \in (k + 1)..n : ~IsOpen(f, s[i].Page)
           /\ g = WithHistory(f, Joined(f, k, n + 1), k)
  <2> DEFINE j == Joined(f, k, n + 1)
  <2>1. n + 1 \in 1..(n + 1) /\ k < n + 1 /\ k - 1 \in Int /\ k - 1 <= k /\ (k # 0 => k \in 1..k)
    BY <1>1
  <2>2. /\ j \in Seq(Entries) /\ SubSeq(j, k + 1, Len(j)) = SubSeq(s, n + 1, n)
        /\ SubSeq(j, 1, k - 1) = SubSeq(s, 1, k - 1) /\ (k # 0 => j[k] = s[k])
        /\ Len(j) = k + (n + 1 - (n + 1)) /\ Len(j) <= MaxHistory
    <3> HIDE DEF k
    <3> QED
      BY <1>1, <2>1, JoinedParts, HistoryWithout
  <2>3. k <= Len(j)
    <3> HIDE DEF k
    <3> QED
      BY <1>1, <2>2
  <2>4. g.m_History = j /\ g.m_HistoryIndex = k /\ g.m_Pages = f.m_Pages
    <3> HIDE DEF k, j
    <3> QED
      BY <1>1, <1>3, <2>2, <2>3, OtherHistory DEF j, SameViews
  <2> HIDE DEF j, g
  <2>5. NowIn(g) = NowIn(f) /\ OpenPlaces(g) = P
    BY <2>2, <2>4 DEF NowIn, OpenPlaces
  <2>6. BeforeIn(g) = BeforeIn(f)
    BY <2>2, <2>4, <2>5 DEF BeforeIn, Behind
  <2>7. AfterIn(f) = <<>>
    <3> HIDE DEF m
    <3>1. n \in Int /\ n <= Len(f.m_History) /\ \A i \in m..n : ~IsOpen(f, f.m_History[i].Page)
      BY <1>1, <1>3 DEF m
    <3>2. Sublist(SubSeq(f.m_History, m, n), P) = <<>>
      BY <1>1, <1>2, <3>1, NoneOpen
    <3> QED
      BY <3>2 DEF AfterIn, Beyond, m
  <2>8. AfterIn(g) = <<>>
    <3> DEFINE t == SubSeq(s, n + 1, n)
    <3> HIDE DEF s, n, P
    <3>1. t \in Seq(Entries) /\ Len(t) = 0
      BY <1>1
    <3> HIDE DEF t
    <3>2. \A i \in 1..Len(t) : t[i] \notin P
      BY <3>1
    <3>3. Sublist(t, P) = <<>>
      BY <3>1, <3>2, SublistOfNone
    <3>4. Beyond(g) = t
      BY <2>2, <2>4 DEF Beyond, t
    <3> QED
      BY <2>5, <3>3, <3>4 DEF AfterIn
  <2>9. TrailRests(f, g)
    BY <2>4, <2>5, <2>6, <2>7, <2>8 DEF TrailRests
  <2> QED
    BY <2>9 DEF TrailSteps, g
<1>4. ASSUME NEW t \in (k + 1)..n, IsOpen(f, s[t].Page),
             \A i \in (k + 1)..(t - 1) : ~IsOpen(f, s[i].Page),
             g = Arrive(f, Joined(f, k, t), k + 1)
      PROVE TrailSteps(f, g)
  <2> DEFINE j == Joined(f, k, t)
             next == <<s[t]>>
  <2>1. /\ t \in Nat /\ t <= n /\ k < t /\ t \in 1..(n + 1) /\ t \in t..n /\ t \in 1..n
        /\ k \in Int /\ k <= k /\ t - 1 \in Int /\ t - 1 <= n /\ t \in m..n
    BY <1>1
  <2>2. /\ j \in Seq(Entries) /\ SubSeq(j, k + 1, Len(j)) = SubSeq(s, t, n)
        /\ SubSeq(j, 1, k) = SubSeq(s, 1, k) /\ j[k + 1] = s[t]
        /\ Len(j) = k + (n + 1 - t)
    <3>1. k \in 0..Len(f.m_History) /\ t \in 1..(Len(f.m_History) + 1) /\ k < t /\ t <= Len(f.m_History)
          /\ k \in Int /\ k <= k
      BY <1>1, <2>1
    <3> HIDE DEF k
    <3>2. /\ j \in Seq(Entries) /\ SubSeq(j, k + 1, Len(j)) = SubSeq(s, t, n)
          /\ SubSeq(j, 1, k) = SubSeq(s, 1, k)
      BY <1>1, <3>1, JoinedParts
    <3>3. Len(j) = k + (n + 1 - t) /\ j[k + 1] = s[t]
      BY <1>1, <3>1, HistoryWithout
    <3> HIDE DEF j, n, s
    <3> QED
      BY <3>2, <3>3
  <2>3. m \in 1..Len(j) /\ Len(j) \in m..Len(j) /\ m - 1 = k /\ m # 0
    <3> DEFINE l == Len(j)
    <3>1. l = k + (n + 1 - t)
      BY <2>2
    <3> HIDE DEF l, n, k
    <3>2. k \in Nat /\ n \in Nat /\ t \in Nat /\ t <= n /\ k < t
      BY <1>1, <2>1
    <3>3. m \in 1..l /\ l \in m..l /\ m - 1 = k /\ m # 0
      BY <3>1, <3>2
    <3> QED
      BY <3>3 DEF l
  <2>4. g.m_History = j /\ g.m_HistoryIndex = m /\ g.m_Pages = f.m_Pages
    BY <1>1, <1>4, ArriveHas
  <2> HIDE DEF j, g
  <2>5. NowIn(g) = next /\ OpenPlaces(g) = P
    <3>1. NowIn(g) = <<j[m]>>
      BY <2>3, <2>4 DEF NowIn
    <3> QED
      BY <2>2, <2>4, <3>1 DEF OpenPlaces
  <2>6. BeforeIn(g) = BeforeIn(f) \o StillOf(NowIn(f), f)
    <3>1. Behind(g) = UpTo(f)
      <4>1. Behind(g) = SubSeq(j, 1, m - 1)
        BY <2>4 DEF Behind
      <4> QED
        BY <2>2, <2>3, <4>1 DEF UpTo
    <3>2. UpTo(f) = Behind(f) \o NowIn(f) /\ Behind(f) \in Seq(Entries) /\ NowIn(f) \in Seq(Entries)
      BY <1>1, PartsOf
    <3>3. Sublist(Behind(f) \o NowIn(f), P) = Sublist(Behind(f), P) \o Sublist(NowIn(f), P)
      BY <3>2, EntriesOfBoth
    <3> QED
      BY <2>5, <3>1, <3>2, <3>3 DEF BeforeIn, StillOf
  <2>7. Beyond(g) = SubSeq(s, t + 1, n)
    <3> HIDE DEF m
    <3>1. SubSeq(j, m + 1, Len(j)) = Tail(SubSeq(j, m, Len(j)))
      BY <2>2, <2>3, TailOfSubSeq
    <3>2. SubSeq(s, t + 1, n) = Tail(SubSeq(s, t, n))
      <4> HIDE DEF s, n
      <4> QED
        BY <1>1, <2>1, TailOfSubSeq
    <3>3. SubSeq(j, m, Len(j)) = SubSeq(s, t, n)
      BY <2>2 DEF m
    <3> QED
      BY <2>4, <3>1, <3>2, <3>3 DEF Beyond
  <2>8. s[t] \in Entries /\ s[t] \in P
    <3>1. s[t] \in Entries
      BY <1>1, <2>1
    <3> QED
      BY <1>4, <3>1, InOpenPlaces
  <2>9. Sublist(SubSeq(s, m, t - 1), P) = <<>>
    <3> DEFINE o == t - 1
    <3>1. o \in Int /\ o <= Len(f.m_History) /\ \A i \in m..o : ~IsOpen(f, f.m_History[i].Page)
      BY <1>1, <1>4, <2>1
    <3> HIDE DEF o, m
    <3> QED
      BY <1>1, <1>2, <3>1, NoneOpen DEF o
  <2>10. Sublist(SubSeq(s, m, n), P) = Sublist(next, P) \o Sublist(SubSeq(s, t + 1, n), P)
    <3>1. n \in Int /\ n <= Len(s)
      BY <1>1
    <3>2. s \in Seq(Entries) /\ t \in m..n
      BY <1>1, <2>1
    <3> HIDE DEF s, n, m, P
    <3> QED
      BY <1>2, <2>9, <3>1, <3>2, FirstOpen
  <2>11. Sublist(next, P) = next
    BY <2>8, SublistOfOne
  <2>12. AfterIn(f) = next \o AfterIn(g)
    BY <2>5, <2>7, <2>10, <2>11 DEF AfterIn, Beyond
  <2>13. AfterIn(g) \in Seq(Entries)
    <3>1. SubSeq(s, t + 1, n) \in Seq(Entries)
      BY <1>1, <2>1
    <3> QED
      BY <2>7, <3>1, SublistNoLonger DEF AfterIn
  <2>14. AfterIn(f) # <<>> /\ Head(AfterIn(f)) = s[t] /\ Tail(AfterIn(f)) = AfterIn(g)
    <3> DEFINE x == s[t]
               u == AfterIn(g)
    <3>1. u \in Seq(Entries) /\ x \in Entries
      BY <2>8, <2>13
    <3> HIDE DEF u, x
    <3>2. <<x>> \o u # <<>> /\ Head(<<x>> \o u) = x /\ Tail(<<x>> \o u) = u
      <4> DEFINE v == <<x>>
      <4>1. v \in Seq(Entries) /\ Len(v) = 1 /\ v[1] = x /\ Tail(v) = <<>>
        BY <3>1
      <4> HIDE DEF v
      <4>2. Len(v) > 0
        BY <4>1
      <4>3. Tail(v \o u) = Tail(v) \o u
        <5>1. v \in Seq(Entries) /\ u \in Seq(Entries)
          BY <3>1, <4>1
        <5> QED
          BY ONLY <4>2, <5>1, TailOfBoth
      <4>4. <<>> \o u = u
        BY <3>1
      <4>5. v \o u # <<>> /\ Head(v \o u) = v[1]
        <5> DEFINE w == v \o u
        <5>1. w \in Seq(Entries) /\ Len(w) = Len(v) + Len(u) /\ Len(u) \in Nat
          <6>1. v \in Seq(Entries) /\ u \in Seq(Entries)
            BY <3>1, <4>1
          <6> QED
            BY ONLY <6>1
        <5>2. w = [i \in 1..(Len(v) + Len(u)) |-> IF i <= Len(v) THEN v[i] ELSE u[i - Len(v)]]
          <6>1. v \in Seq(Entries) /\ u \in Seq(Entries)
            BY <3>1, <4>1
          <6> QED
            BY ONLY <6>1, ConcatIs
        <5> HIDE DEF w
        <5>3. 1 \in 1..(Len(v) + Len(u)) /\ 1 <= Len(v)
          BY <4>1, <5>1
        <5>4. w[1] = v[1]
          BY <5>2, <5>3
        <5>5. Len(w) # 0 /\ Head(w) = w[1]
          BY <4>1, <5>1
        <5> QED
          BY <5>1, <5>4, <5>5 DEF w
      <4> QED
        BY <4>1, <4>3, <4>4, <4>5 DEF v
    <3> QED
      BY <2>12, <3>2 DEF x, u
  <2>15. TrailForward(f, g)
    BY <2>4, <2>5, <2>6, <2>14 DEF TrailForward
  <2> QED
    BY <2>15 DEF TrailSteps, g
<1> QED
  BY <1>3, <1>4, GoForwardIs

-----------------------------------------------------------------------------
(* The refinement                                                           *)
LEMMA NavigationStepsTrail ==
  ASSUME NavigationInv, NavigationInv', [NavigationNext]_navigationVars
  PROVE TrailSteps(frame, frame')
<1>1. Whole(frame) /\ Typed(frame) /\ Whole(frame')
  <2>1. Whole(frame) /\ Typed(frame)
    BY DEF NavigationInv, Whole
  <2>2. Whole(frame')
    BY DEF NavigationInv, Whole, Typed, Agree, Knows, IsOpen, Frames, Entries
  <2> QED
    BY <2>1, <2>2
<1>2. GoesOn(frame, frame') => TrailSteps(frame, frame')
  BY <1>1, GoesOnSteps
<1>3. TrailForgets(frame') => TrailSteps(frame, frame')
  BY DEF TrailSteps
<1>4. ASSUME OpenFile PROVE TrailSteps(frame, frame')
  BY <1>3, <1>4, OpenFileForgets
<1>5. ASSUME OnFileClose PROVE TrailSteps(frame, frame')
  BY <1>3, <1>5, OnFileCloseForgets
<1>6. ASSUME NEW t \in Types, OnView(t) PROVE TrailSteps(frame, frame')
  BY <1>2, <1>6, OnViewGoesOn
<1>7. ASSUME NEW t \in Types, NEW position \in Positions, GoTo(t, position)
      PROVE TrailSteps(frame, frame')
  BY <1>2, <1>7, GoToGoesOn
<1>8. ASSUME GoToNothing PROVE TrailSteps(frame, frame')
  BY <1>2, <1>8, GoToNothingGoesOn
<1>9. ASSUME NEW position \in Positions, MoveTo(position) PROVE TrailSteps(frame, frame')
  BY <1>2, <1>9, MoveToGoesOn
<1>10. ASSUME NEW page \in 1..Len(frame.m_Pages),
              Focus(page) \/ ClosePage(page) \/ ReopenView(page) \/ \E t \in Types : ReplaceView(page, t)
       PROVE TrailSteps(frame, frame')
  BY <1>2, <1>10, FocusGoesOn, ClosePageGoesOn, ReopenViewGoesOn, ReplaceViewGoesOn
<1>11. ASSUME OnWindowCloseOthers \/ OnWindowCloseAll PROVE TrailSteps(frame, frame')
  BY <1>2, <1>11, CloseOthersGoesOn, CloseAllGoesOn
<1>12. ASSUME RefreshViews PROVE TrailSteps(frame, frame')
  BY <1>3, <1>12, RefreshViewsForgets
<1>13. ASSUME OnNavBack PROVE TrailSteps(frame, frame')
  BY <1>1, <1>13, GoBackSteps DEF OnNavBack, Step
<1>14. ASSUME OnNavForward PROVE TrailSteps(frame, frame')
  BY <1>1, <1>14, GoForwardSteps DEF OnNavForward, Step
<1>15. ASSUME UNCHANGED navigationVars PROVE TrailSteps(frame, frame')
  <2>1. frame' = frame
    BY <1>15 DEF navigationVars
  <2>2. TrailRests(frame, frame')
    BY <2>1 DEF TrailRests, BeforeIn, AfterIn, NowIn, Behind, Beyond, OpenPlaces
  <2> QED
    BY <2>2 DEF TrailSteps
<1> QED
  BY <1>4, <1>5, <1>6, <1>7, <1>8, <1>9, <1>10, <1>11, <1>12, <1>13, <1>14, <1>15
  DEF NavigationNext

LEMMA NavigationInitIsTrails == NavigationInit => NT!TrailInit
<1> SUFFICES ASSUME NavigationInit PROVE NT!TrailInit
  OBVIOUS
<1>1. frame.m_History = <<>> /\ frame.m_HistoryIndex = 0 /\ frame.m_Pages = <<>>
  BY DEF NavigationInit
<1>2. NavigationInv
  BY NavigationInitEstablishes
<1>3. Typed(frame) /\ Len(frame.m_History) = 0
  BY <1>1, <1>2 DEF NavigationInv, Whole
<1>4. BeforeIn(frame) = <<>> /\ AfterIn(frame) = <<>>
  BY <1>1, <1>3, ShortForgets DEF TrailForgets
<1>5. ToSet(frame.m_Pages) = {}
  BY <1>1 DEF ToSet
<1> QED
  BY <1>1, <1>4, <1>5, MappedIs DEF NT!TrailInit

\* Whatever handlers of the frame run, in whatever order (files and views opened, replaced, closed
\* or shown again, pages focused, Back and Forward), m_History and m_HistoryIndex are a trail:
\* Back and Forward go to the open place next to the current one and lose nothing but places
\* that were closed, and a handler that goes somewhere forgets what was ahead and three places
\* at most of what was behind.
THEOREM TrailIsImplemented == NavigationSpec => ImplementsTrail
<1>1. ASSUME NavigationInv, NavigationInv', [NavigationNext]_navigationVars
      PROVE [NT!TrailNext]_(NT!trailVars)
  BY <1>1, NavigationStepsTrail, StepsImplement
<1> QED
  BY <1>1, NavigationInitIsTrails, NavigationInvariance, PTL
  DEF NavigationSpec, ImplementsTrail, NT!TrailSpec
=============================================================================
