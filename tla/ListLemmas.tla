----------------------------- MODULE ListLemmas -----------------------------
(***************************************************************************)
(* What the other proofs need of numbers and lists: induction, the way     *)
(* along a chain of pointers, and what taking an element out of a sequence *)
(* and putting one in does, also to the names of the elements.             *)
(***************************************************************************)
EXTENDS Integers, SequencesExt, SequenceTheorems, FiniteSetTheorems, WellFoundedInduction, TLAPS

\* Every set of numbers has a least one.
LEMMA LeastNumber ==
    ASSUME NEW T \in SUBSET Nat, T # {}
    PROVE  \E m \in T : \A k \in T : m <= k
  <1>1. PICK m \in T : \A k \in T : ~ (<<k, m>> \in OpToRel(<, Nat))
    BY WFMin, NatLessThanWellFounded
  <1>2. \A k \in T : k \in Nat /\ m \in Nat /\ ~ (k < m)
    BY <1>1 DEF OpToRel
  <1> QED
    BY <1>2

\* Induction, for the set of the numbers of which something is to be shown.
LEMMA SetInduction ==
    ASSUME NEW S, 0 \in S, \A n \in Nat : n \in S => n + 1 \in S
    PROVE  Nat \subseteq S
  <1> SUFFICES ASSUME Nat \ S # {}
               PROVE  FALSE
    OBVIOUS
  <1>1. PICK m \in Nat \ S : \A k \in Nat \ S : m <= k
    <2>1. PICK T \in SUBSET Nat : T = Nat \ S
      OBVIOUS
    <2> QED
      BY <2>1, LeastNumber
  <1>2. m # 0 /\ m - 1 \in Nat /\ m - 1 \notin Nat \ S
    BY <1>1
  <1>3. m - 1 \in S
    BY <1>2
  <1>4. (m - 1) + 1 \in S
    BY <1>2, <1>3
  <1> QED
    BY <1>1, <1>4

\* g is the way of m steps from p on, where next leads from each place to the next.
IsWay(g, p, next, m) == g = [n \in 1 .. m |-> IF n = 1 THEN p ELSE next[g[n - 1]]]
LEMMA WayExists ==
    ASSUME NEW p, NEW next, NEW m \in Nat
    PROVE  \E g : IsWay(g, p, next, m)
  <1> DEFINE Way(g, k) == g = [n \in 1 .. k |-> IF n = 1 THEN p ELSE next[g[n - 1]]]
             S == {k \in Nat : \E g : Way(g, k)}
  <1>1. 0 \in S
    <2>1. Way([n \in 1 .. 0 |-> p], 0)
      OBVIOUS
    <2> QED
      BY <2>1
  <1>2. ASSUME NEW k \in Nat, k \in S
        PROVE  k + 1 \in S
    <2>1. PICK g : Way(g, k)
      BY <1>2
    <2> DEFINE h == [n \in 1 .. k + 1 |->
                 IF n \in 1 .. k THEN g[n] ELSE IF n = 1 THEN p ELSE next[g[n - 1]]]
    <2>2. /\ \A n \in 1 .. k : h[n] = g[n]
          /\ \A n \in 1 .. k + 1 : n # 1 => n - 1 \in 1 .. k
      OBVIOUS
    <2>3. \A n \in 1 .. k : g[n] = IF n = 1 THEN p ELSE next[g[n - 1]]
      BY <2>1
    <2>4. \A n \in 1 .. k + 1 : h[n] = IF n = 1 THEN p ELSE next[h[n - 1]]
      BY <2>2, <2>3
    <2>5. Way(h, k + 1)
      <3>1. h = [n \in 1 .. k + 1 |-> h[n]]
        OBVIOUS
      <3> HIDE DEF h
      <3> QED
        BY <2>4, <3>1
    <2> HIDE DEF h, Way
    <2> QED
      BY <2>5
  <1>3. Nat \subseteq S
    <2> HIDE DEF S
    <2> QED
      BY <1>1, <1>2, SetInduction
  <1> QED
    BY <1>3 DEF IsWay

\* h goes from place to place for m steps.
Goes(h, m, next) == \A k \in 2 .. m : h[k] = next[h[k - 1]]

\* A way that starts on a chain c, the end of which leads to itself, goes along it.
StartsOn(h, c, n, next, m) ==
    /\ Goes(h, m, next)
    /\ h[1] = c[1] /\ next[c[n]] = c[n]
    /\ \A i \in 1 .. n - 1 : next[c[i]] = c[i + 1]
GoesAlong(h, c, n, m) == \A k \in 1 .. m : h[k] = IF k <= n THEN c[k] ELSE c[n]
LEMMA WayAlong ==
    ASSUME NEW h, NEW c, NEW next, NEW n \in Nat, NEW m \in Nat, 1 <= n,
           StartsOn(h, c, n, next, m)
    PROVE  GoesAlong(h, c, n, m)
  <1> USE DEF StartsOn, Goes
  <1> DEFINE S == {k \in Nat : k + 1 <= m => h[k + 1] = IF k + 1 <= n THEN c[k + 1] ELSE c[n]}
  <1>1. 0 \in S
    OBVIOUS
  <1>2. ASSUME NEW k \in Nat, k \in S
        PROVE  k + 1 \in S
    <2>1. ASSUME (k + 1) + 1 <= m
          PROVE  h[(k + 1) + 1] = IF (k + 1) + 1 <= n THEN c[(k + 1) + 1] ELSE c[n]
      <3>1. /\ (k + 1) + 1 \in 2 .. m /\ ((k + 1) + 1) - 1 = k + 1
            /\ h[k + 1] = IF k + 1 <= n THEN c[k + 1] ELSE c[n]
        BY <1>2, <2>1
      <3>2. h[(k + 1) + 1] = next[h[k + 1]]
        BY <3>1
      <3>3. CASE (k + 1) + 1 <= n
        <4>1. k + 1 \in 1 .. n - 1 /\ k + 1 <= n
          BY <3>3
        <4> QED
          BY <3>1, <3>2, <3>3, <4>1
      <3>4. CASE k + 1 = n
        BY <3>1, <3>2, <3>4
      <3>5. CASE k + 1 > n
        BY <3>1, <3>2, <3>5
      <3> QED
        BY <3>3, <3>4, <3>5
    <2> QED
      BY <2>1
  <1>3. Nat \subseteq S
    <2> HIDE DEF S
    <2> QED
      BY <1>1, <1>2, SetInduction
  <1>4. ASSUME NEW k \in 1 .. m
        PROVE  h[k] = IF k <= n THEN c[k] ELSE c[n]
    <2>1. k - 1 \in Nat /\ (k - 1) + 1 = k
      OBVIOUS
    <2>2. k - 1 \in S
      BY <1>3, <2>1
    <2> QED
      BY <2>1, <2>2
  <1> QED
    BY <1>4 DEF GoesAlong

\* A list without repetitions is no longer than there are elements.
LEMMA NoLongerThanSet ==
    ASSUME NEW S, IsFiniteSet(S), NEW n \in Nat, NEW g \in [1 .. n -> S],
           \A i, j \in 1 .. n : g[i] = g[j] => i = j
    PROVE  n <= Cardinality(S)
  <1>1. g \in Injection(1 .. n, S)
    BY DEF Injection, IsInjective
  <1>2. Cardinality(1 .. n) <= Cardinality(S)
    BY <1>1, FS_Injection
  <1>3. Cardinality(1 .. n) = n
    <2>1. Cardinality(1 .. n) = IF 1 > n THEN 0 ELSE n - 1 + 1
      BY FS_Interval
    <2> QED
      BY <2>1
  <1> QED
    BY <1>2, <1>3

\* A way of more steps than S has members leaves S, if a rank rises along it within the
\* part A of S, and A is left for places outside S only.
LeadsUp(next, A, S, rank) == \A e \in A : next[e] \in S => next[e] \in A /\ rank[e] < rank[next[e]]
GoesOut(h, m, A, S) == \E k \in 1 .. m - 1 : h[k] \in A /\ h[k + 1] \notin S
LEMMA WayLeaves ==
    ASSUME NEW S, IsFiniteSet(S), NEW A \in SUBSET S, NEW top \in Nat, NEW rank \in [S -> 0 .. top],
           NEW next, LeadsUp(next, A, S, rank),
           NEW h, NEW m \in Nat, Cardinality(S) < m, h[1] \in A, Goes(h, m, next)
    PROVE  GoesOut(h, m, A, S)
  <1> SUFFICES ASSUME \A k \in 1 .. m - 1 : h[k] \in A => h[k + 1] \in S
               PROVE  FALSE
    BY DEF GoesOut
  <1> USE DEF Goes, LeadsUp
  <1> DEFINE Up(k) == h[k] \in A /\ \A j \in 1 .. k - 1 : h[j] \in A /\ rank[h[j]] < rank[h[k]]
             T == {k \in Nat : k + 1 <= m => Up(k + 1)}
  <1>1. 0 \in T
    OBVIOUS
  <1>2. ASSUME NEW k \in Nat, k \in T
        PROVE  k + 1 \in T
    <2>1. ASSUME (k + 1) + 1 <= m
          PROVE  Up((k + 1) + 1)
      <3>1. PICK a \in Nat, b \in Nat : /\ a = k + 1 /\ b = a + 1 /\ b - 1 = a
                                        /\ a \in 1 .. m - 1 /\ b \in 2 .. m
        BY <2>1
      <3>2. Up(a)
        BY <1>2, <3>1
      <3>3. h[b] = next[h[a]] /\ h[b] \in S
        BY <3>1, <3>2
      <3>4. h[b] \in A /\ rank[h[a]] < rank[h[b]]
        BY <3>2, <3>3
      <3>5. ASSUME NEW j \in 1 .. b - 1
            PROVE  h[j] \in A /\ rank[h[j]] < rank[h[b]]
        <4>1. CASE j = a
          BY <3>2, <3>4, <4>1
        <4>2. CASE j # a
          <5>1. j \in 1 .. a - 1
            BY <3>1, <4>2
          <5>2. h[j] \in A /\ rank[h[j]] < rank[h[a]]
            BY <3>2, <5>1
          <5> QED
            BY <3>2, <3>4, <5>2
        <4> QED
          BY <4>1, <4>2
      <3> QED
        BY <3>1, <3>4, <3>5
    <2> QED
      BY <2>1
  <1>3. Nat \subseteq T
    <2> HIDE DEF T
    <2> QED
      BY <1>1, <1>2, SetInduction
  <1>4. \A k \in 1 .. m : Up(k)
    <2> TAKE k \in 1 .. m
    <2>1. PICK j \in Nat : j + 1 = k
      <3>1. k - 1 \in Nat /\ (k - 1) + 1 = k
        OBVIOUS
      <3> QED
        BY <3>1
    <2>2. j \in T
      BY <1>3
    <2> QED
      BY <2>1, <2>2
  <1>5. PICK g : g = [k \in 1 .. m |-> h[k]]
    OBVIOUS
  <1>6. g \in [1 .. m -> S]
    BY <1>4, <1>5
  <1>7. ASSUME NEW i \in 1 .. m, NEW j \in 1 .. m, g[i] = g[j]
        PROVE  i = j
    <2>1. h[i] = h[j] /\ rank[h[i]] \in Int
      BY <1>4, <1>5, <1>7
    <2>2. i < j => rank[h[i]] < rank[h[j]]
      BY <1>4
    <2>3. j < i => rank[h[j]] < rank[h[i]]
      BY <1>4
    <2> QED
      BY <2>1, <2>2, <2>3
  <1>8. m <= Cardinality(S)
    BY <1>6, <1>7, NoLongerThanSet
  <1>9. Cardinality(S) \in Nat
    BY FS_CardinalityType
  <1> QED
    BY <1>8, <1>9

\* The pointers of S lead on until they come to E, and a rank rises along them, so that they
\* never lead round in a circle; none is the pointer that is not set.
Rises(next, S, E, none, rank) ==
    \A e \in S : next[e] # none =>
      next[e] \in E \/ (next[e] \in S /\ next[next[e]] # none /\ rank[e] < rank[next[e]])
Ranked(next, S, E, none) == \E top \in Nat : \E rank \in [S -> 0 .. top] : Rises(next, S, E, none, rank)

\* new leads along the list c of n places and then to t, and elsewhere as old.
LeadsAlong(new, old, S, c, n, t) ==
    /\ \A i \in 1 .. n : new[c[i]] = IF i = n THEN t ELSE c[i + 1]
    /\ \A e \in S : new[e] = old[e] \/ \E i \in 1 .. n : c[i] = e

\* When pointers are changed to lead along a list, its places get ranks above all others.
LEMMA StillRanked ==
    ASSUME NEW S, NEW E, NEW none, none \notin S \cup E,
           NEW old, NEW new, Ranked(old, S, E, none),
           NEW n \in Nat, NEW c \in [1 .. n -> S], \A i, j \in 1 .. n : c[i] = c[j] => i = j,
           NEW t, n # 0 => t \in E, LeadsAlong(new, old, S, c, n, t)
    PROVE  Ranked(new, S, E, none)
  <1>1. PICK top \in Nat : \E rank \in [S -> 0 .. top] : Rises(old, S, E, none, rank)
    BY DEF Ranked
  <1>2. PICK rank \in [S -> 0 .. top] : Rises(old, S, E, none, rank)
    BY <1>1
  <1>3. \A i \in 1 .. n : new[c[i]] = IF i = n THEN t ELSE c[i + 1]
    BY DEF LeadsAlong
  <1> DEFINE At(e) == CHOOSE i \in 1 .. n : c[i] = e
             On(e) == \E i \in 1 .. n : c[i] = e
  <1>4. PICK up : up = [e \in S |-> IF On(e) THEN top + At(e) ELSE rank[e]]
    OBVIOUS
  <1>5. \A i \in 1 .. n : up[c[i]] = top + i
    <2> TAKE i \in 1 .. n
    <2>1. c[i] \in S /\ On(c[i]) /\ At(c[i]) = i
      OBVIOUS
    <2> QED
      BY <1>4, <2>1
  <1>6. \A e \in S : ~On(e) => up[e] = rank[e] /\ new[e] = old[e]
    BY <1>4 DEF LeadsAlong
  <1>7. \A e \in S : up[e] \in 0 .. top + n /\ rank[e] <= up[e] /\ rank[e] \in 0 .. top
    <2> TAKE e \in S
    <2>1. CASE On(e)
      <3>1. PICK i \in 1 .. n : c[i] = e
        BY <2>1
      <3>2. up[e] = top + i
        BY <1>5, <3>1
      <3> QED
        BY <3>2
    <2>2. CASE ~On(e)
      BY <1>6, <2>2
    <2> QED
      BY <2>1, <2>2
  <1>8. \A i \in 1 .. n : new[c[i]] # none
    <2> TAKE i \in 1 .. n
    <2>1. i = n \/ i + 1 \in 1 .. n
      OBVIOUS
    <2> QED
      BY <1>3, <2>1
  <1>9. \A e \in S : old[e] # none => new[e] # none
    <2> TAKE e \in S
    <2>1. CASE On(e)
      BY <1>8, <2>1
    <2>2. CASE ~On(e)
      BY <1>6, <2>2
    <2> QED
      BY <2>1, <2>2
  <1>10. ASSUME NEW e \in S, new[e] # none
         PROVE  \/ new[e] \in E
                \/ new[e] \in S /\ new[new[e]] # none /\ up[e] < up[new[e]]
    <2>1. CASE On(e)
      <3>1. PICK i \in 1 .. n : c[i] = e
        BY <2>1
      <3>2. CASE i = n
        BY <1>3, <3>1, <3>2
      <3>3. CASE i # n
        <4>1. i + 1 \in 1 .. n
          BY <3>3
        <4>2. PICK d \in S : d = c[i + 1]
          BY <4>1
        <4>3. new[e] = d /\ new[d] # none
          BY <1>3, <1>8, <3>1, <3>3, <4>1, <4>2
        <4>4. up[e] = top + i /\ up[d] = top + (i + 1)
          BY <1>5, <3>1, <4>1, <4>2
        <4> QED
          BY <4>3, <4>4
      <3> QED
        BY <3>2, <3>3
    <2>2. CASE ~On(e)
      <3>1. new[e] = old[e] /\ up[e] = rank[e]
        BY <1>6, <2>2
      <3>2. CASE old[e] \in E
        BY <3>1, <3>2
      <3>3. CASE old[e] \notin E
        <4>1. PICK d \in S : d = old[e] /\ old[d] # none /\ rank[e] < rank[d]
          BY <1>2, <1>10, <3>1, <3>3 DEF Rises
        <4>2. new[d] # none /\ rank[e] < up[d]
          BY <1>7, <1>9, <4>1
        <4> QED
          BY <3>1, <4>1, <4>2
      <3> QED
        BY <3>2, <3>3
    <2> QED
      BY <2>1, <2>2
  <1>11. Rises(new, S, E, none, up)
    BY <1>10 DEF Rises
  <1>12. up \in [S -> 0 .. top + n] /\ top + n \in Nat
    BY <1>4, <1>7
  <1> QED
    BY <1>11, <1>12 DEF Ranked

\* The way from a pointer that is set comes from S to E before it has as many steps more
\* than S has members.
ComesTo(h, m, S, E) == \E k \in 1 .. m - 1 : h[k] \in S /\ h[k + 1] \in E
LEMMA WayEnds ==
    ASSUME NEW S, IsFiniteSet(S), NEW E, NEW none, none \notin S, NEW ptr, Ranked(ptr, S, E, none),
           NEW next, \A e \in S : next[e] = ptr[e],
           NEW h, NEW m \in Nat, Cardinality(S) < m, Goes(h, m, next),
           h[1] \in S, ptr[h[1]] # none, S \cap E = {}
    PROVE  ComesTo(h, m, S, E)
  <1>1. PICK top \in Nat : \E rank \in [S -> 0 .. top] : Rises(ptr, S, E, none, rank)
    BY DEF Ranked
  <1>2. PICK rank \in [S -> 0 .. top] : Rises(ptr, S, E, none, rank)
    BY <1>1
  <1>3. PICK A \in SUBSET S : A = {e \in S : ptr[e] # none}
    OBVIOUS
  <1>4. LeadsUp(next, A, S, rank)
    BY <1>2, <1>3 DEF Rises, LeadsUp
  <1>5. h[1] \in A
    BY <1>3
  <1>6. GoesOut(h, m, A, S)
    BY <1>4, <1>5, WayLeaves
  <1>7. PICK k \in 1 .. m - 1 : h[k] \in A /\ h[k + 1] \notin S
    BY <1>6 DEF GoesOut
  <1>8. k + 1 \in 2 .. m /\ (k + 1) - 1 = k
    OBVIOUS
  <1>9. h[k + 1] = ptr[h[k]]
    BY <1>3, <1>7, <1>8 DEF Goes
  <1>10. h[k] \in S /\ h[k + 1] \in E
    BY <1>2, <1>3, <1>7, <1>9 DEF Rises
  <1> QED
    BY <1>10 DEF ComesTo

\* A way that has come into G stays there, if nothing leads out of G.
LEMMA WayStays ==
    ASSUME NEW G, NEW next, \A e \in G : next[e] \in G,
           NEW h, NEW m \in Nat, Goes(h, m, next), NEW n \in 1 .. m, h[n] \in G
    PROVE  h[m] \in G
  <1> USE DEF Goes
  <1> DEFINE S == {k \in Nat : n + k <= m => h[n + k] \in G}
  <1>1. 0 \in S
    OBVIOUS
  <1>2. ASSUME NEW k \in Nat, k \in S
        PROVE  k + 1 \in S
    <2>1. ASSUME n + (k + 1) <= m
          PROVE  h[n + (k + 1)] \in G
      <3>1. n + (k + 1) \in 2 .. m /\ (n + (k + 1)) - 1 = n + k /\ h[n + k] \in G
        BY <1>2, <2>1
      <3> QED
        BY <3>1
    <2> QED
      BY <2>1
  <1>3. Nat \subseteq S
    <2> HIDE DEF S
    <2> QED
      BY <1>1, <1>2, SetInduction
  <1>4. m - n \in Nat /\ n + (m - n) = m
    OBVIOUS
  <1>5. m - n \in S
    BY <1>3, <1>4
  <1> QED
    BY <1>4, <1>5

\* What SubSeq returns.
LEMMA SubSeqKnown ==
    ASSUME NEW S, NEW s \in Seq(S), NEW m \in Int, NEW n \in Int, 1 <= m, m <= n + 1, n <= Len(s)
    PROVE  /\ SubSeq(s, m, n) \in Seq(S) /\ Len(SubSeq(s, m, n)) = n - m + 1
           /\ \A i \in 1 .. n - m + 1 : SubSeq(s, m, n)[i] = s[m + i - 1]
  <1>1. Len(s) \in Nat /\ \A i \in 1 .. Len(s) : s[i] \in S
    BY ElementOfSeq, LenProperties
  <1>2. \A i \in m .. n : s[i] \in S
    BY <1>1
  <1>3. /\ SubSeq(s, m, n) \in Seq(S)
        /\ Len(SubSeq(s, m, n)) = IF m <= n THEN n - m + 1 ELSE 0
        /\ \A i \in 1 .. n - m + 1 : SubSeq(s, m, n)[i] = s[m + i - 1]
    BY <1>2, SubSeqProperties
  <1>4. (IF m <= n THEN n - m + 1 ELSE 0) = n - m + 1
    OBVIOUS
  <1> QED
    BY <1>3, <1>4

\* What RemoveAt returns.
LEMMA RemoveAtProperties ==
    ASSUME NEW S, NEW s \in Seq(S), NEW k \in 1 .. Len(s)
    PROVE  /\ RemoveAt(s, k) \in Seq(S)
           /\ Len(RemoveAt(s, k)) = Len(s) - 1
           /\ \A i \in 1 .. Len(s) - 1 : RemoveAt(s, k)[i] = IF i < k THEN s[i] ELSE s[i + 1]
  <1>1. PICK n \in Nat : n = Len(s)
    BY LenProperties
  <1>2. k \in Int /\ 1 <= k /\ k <= n
    BY <1>1
  <1>3. PICK a : a = SubSeq(s, 1, k - 1)
    OBVIOUS
  <1>4. a \in Seq(S) /\ Len(a) = k - 1 /\ \A i \in 1 .. k - 1 : a[i] = s[i]
    <2>1. /\ a \in Seq(S) /\ Len(a) = (k - 1) - 1 + 1
          /\ \A i \in 1 .. (k - 1) - 1 + 1 : a[i] = s[1 + i - 1]
      BY <1>1, <1>2, <1>3, SubSeqKnown
    <2> QED
      BY <1>2, <2>1
  <1>5. PICK c : c = SubSeq(s, k + 1, n)
    OBVIOUS
  <1>6. c \in Seq(S) /\ Len(c) = n - k /\ \A i \in 1 .. n - k : c[i] = s[k + i]
    <2>1. /\ c \in Seq(S) /\ Len(c) = n - (k + 1) + 1
          /\ \A i \in 1 .. n - (k + 1) + 1 : c[i] = s[(k + 1) + i - 1]
      BY <1>1, <1>2, <1>5, SubSeqKnown
    <2> QED
      BY <1>2, <2>1
  <1>7. PICK r : r = a \o c
    OBVIOUS
  <1>8. /\ r \in Seq(S) /\ Len(r) = (k - 1) + (n - k)
        /\ \A i \in 1 .. (k - 1) + (n - k) : r[i] = IF i <= k - 1 THEN a[i] ELSE c[i - (k - 1)]
    <2>1. PICK m \in Nat : m = k - 1
      BY <1>2
    <2>2. PICK l \in Nat : l = n - k
      BY <1>2
    <2>3. a \in Seq(S) /\ c \in Seq(S) /\ Len(a) = m /\ Len(c) = l
      BY <1>4, <1>6, <2>1, <2>2
    <2>4. /\ r \in Seq(S) /\ Len(r) = m + l
          /\ \A i \in 1 .. m + l : r[i] = IF i <= m THEN a[i] ELSE c[i - m]
      BY <1>7, <2>3, ConcatProperties
    <2> QED
      BY <2>1, <2>2, <2>4
  <1>9. \A i \in 1 .. n - 1 : r[i] = IF i < k THEN s[i] ELSE s[i + 1]
    <2> SUFFICES ASSUME NEW i \in 1 .. n - 1
                 PROVE  r[i] = IF i < k THEN s[i] ELSE s[i + 1]
      OBVIOUS
    <2>1. i \in Int /\ i \in 1 .. (k - 1) + (n - k)
      BY <1>2
    <2>2. CASE i < k
      <3>1. i <= k - 1 /\ i \in 1 .. k - 1
        BY <1>2, <2>1, <2>2
      <3>2. r[i] = a[i] /\ a[i] = s[i]
        BY <1>4, <1>8, <2>1, <3>1
      <3> QED
        BY <2>2, <3>2
    <2>3. CASE ~(i < k)
      <3>1. ~(i <= k - 1) /\ i - (k - 1) \in 1 .. n - k /\ k + (i - (k - 1)) = i + 1
        BY <1>2, <2>1, <2>3
      <3>2. r[i] = c[i - (k - 1)] /\ c[i - (k - 1)] = s[i + 1]
        BY <1>6, <1>8, <2>1, <3>1
      <3> QED
        BY <2>3, <3>2
    <2> QED
      BY <2>2, <2>3
  <1>10. RemoveAt(s, k) = r
    BY <1>1, <1>3, <1>5, <1>7 DEF RemoveAt
  <1> QED
    BY <1>1, <1>2, <1>8, <1>9, <1>10

\* The sequence s, e put in at place k.
WithIt(s, k, e) ==
    [i \in 1 .. Len(s) + 1 |-> IF i < k THEN s[i] ELSE IF i = k THEN e ELSE s[i - 1]]

\* What InsertAt returns.
LEMMA InsertAtIs ==
    ASSUME NEW S, NEW s \in Seq(S), NEW k \in 1 .. Len(s) + 1, NEW e \in S
    PROVE  /\ InsertAt(s, k, e) \in Seq(S) /\ Len(InsertAt(s, k, e)) = Len(s) + 1
           /\ InsertAt(s, k, e) = WithIt(s, k, e)
  <1>1. PICK n \in Nat : n = Len(s)
    BY LenProperties
  <1>2. k \in Int /\ 1 <= k /\ k <= n + 1
    BY <1>1
  <1>3. PICK a : a = SubSeq(s, 1, k - 1)
    OBVIOUS
  <1>4. a \in Seq(S) /\ Len(a) = k - 1 /\ \A i \in 1 .. k - 1 : a[i] = s[i]
    <2>1. /\ a \in Seq(S) /\ Len(a) = (k - 1) - 1 + 1
          /\ \A i \in 1 .. (k - 1) - 1 + 1 : a[i] = s[1 + i - 1]
      BY <1>1, <1>2, <1>3, SubSeqKnown
    <2> QED
      BY <1>2, <2>1
  <1>5. PICK c : c = SubSeq(s, k, n)
    OBVIOUS
  <1>6. c \in Seq(S) /\ Len(c) = n - k + 1 /\ \A i \in 1 .. n - k + 1 : c[i] = s[k + i - 1]
    BY <1>1, <1>2, <1>5, SubSeqKnown
  <1>7. PICK b : b = a \o <<e>>
    OBVIOUS
  <1>8. b \in Seq(S) /\ Len(b) = k /\ \A i \in 1 .. k : b[i] = IF i < k THEN s[i] ELSE e
    <2>1. PICK o : o = <<e>>
      OBVIOUS
    <2>2. o \in Seq(S) /\ Len(o) = 1 /\ o[1] = e
      BY <2>1
    <2>3. PICK m \in Nat : m = k - 1
      BY <1>2
    <2>4. a \in Seq(S) /\ Len(a) = m
      BY <1>4, <2>3
    <2>5. /\ b \in Seq(S) /\ Len(b) = m + 1
          /\ \A i \in 1 .. m + 1 : b[i] = IF i <= m THEN a[i] ELSE o[i - m]
      BY <1>7, <2>1, <2>2, <2>4, ConcatProperties
    <2>6. \A i \in 1 .. m + 1 : ~(i <= m) => i - m = 1
      OBVIOUS
    <2>7. \A i \in 1 .. m + 1 : b[i] = IF i <= m THEN s[i] ELSE e
      <3> SUFFICES ASSUME NEW i \in 1 .. m + 1
                   PROVE  b[i] = IF i <= m THEN s[i] ELSE e
        OBVIOUS
      <3>1. CASE i <= m
        <4>1. i \in 1 .. k - 1
          BY <2>3, <3>1
        <4> QED
          BY <1>4, <2>5, <3>1, <4>1
      <3>2. CASE ~(i <= m)
        BY <2>2, <2>5, <2>6, <3>2
      <3> QED
        BY <3>1, <3>2
    <2>8. k = m + 1
      BY <1>2, <2>3
    <2> QED
      BY <2>5, <2>7, <2>8
  <1>9. PICK r : r = b \o c
    OBVIOUS
  <1>10. /\ r \in Seq(S) /\ Len(r) = k + (n - k + 1)
         /\ \A i \in 1 .. k + (n - k + 1) : r[i] = IF i <= k THEN b[i] ELSE c[i - k]
    <2>1. PICK l \in Nat : l = n - k + 1
      BY <1>2
    <2>2. b \in Seq(S) /\ c \in Seq(S) /\ Len(b) = k /\ Len(c) = l
      BY <1>6, <1>8, <2>1
    <2>3. /\ r \in Seq(S) /\ Len(r) = k + l
          /\ \A i \in 1 .. k + l : r[i] = IF i <= k THEN b[i] ELSE c[i - k]
      BY <1>9, <2>2, ConcatProperties
    <2> QED
      BY <2>1, <2>3
  <1>11. \A i \in 1 .. n + 1 : r[i] = IF i < k THEN s[i] ELSE IF i = k THEN e ELSE s[i - 1]
    <2> SUFFICES ASSUME NEW i \in 1 .. n + 1
                 PROVE  r[i] = IF i < k THEN s[i] ELSE IF i = k THEN e ELSE s[i - 1]
      OBVIOUS
    <2>1. i \in Int /\ i \in 1 .. k + (n - k + 1)
      BY <1>2
    <2>2. CASE i <= k
      <3>1. i \in 1 .. k
        BY <1>2, <2>1, <2>2
      <3> QED
        BY <1>2, <1>8, <1>10, <2>1, <2>2, <3>1
    <2>3. CASE ~(i <= k)
      <3>1. i - k \in 1 .. n - k + 1 /\ k + (i - k) - 1 = i - 1 /\ ~(i < k) /\ i # k
        BY <1>2, <2>1, <2>3
      <3>2. r[i] = c[i - k] /\ c[i - k] = s[i - 1]
        BY <1>6, <1>10, <2>1, <2>3, <3>1
      <3> QED
        BY <3>1, <3>2
    <2> QED
      BY <2>2, <2>3
  <1>12. InsertAt(s, k, e) = r
    BY <1>1, <1>3, <1>5, <1>7, <1>9 DEF InsertAt
  <1>13. k + (n - k + 1) = n + 1
    BY <1>2
  <1>14. r \in Seq(S) /\ Len(r) = n + 1
    BY <1>10, <1>13
  <1>15. r = WithIt(s, k, e)
    <2>1. DOMAIN r = 1 .. n + 1 /\ r = [i \in DOMAIN r |-> r[i]]
      BY <1>14, LenProperties
    <2> QED
      BY <1>1, <1>11, <2>1 DEF WithIt
  <1> QED
    BY <1>1, <1>12, <1>14, <1>15

LEMMA InsertAtProperties ==
    ASSUME NEW S, NEW s \in Seq(S), NEW k \in 1 .. Len(s) + 1, NEW e \in S
    PROVE  /\ InsertAt(s, k, e) \in Seq(S)
           /\ Len(InsertAt(s, k, e)) = Len(s) + 1
           /\ \A i \in 1 .. Len(s) + 1 : InsertAt(s, k, e)[i] =
                IF i < k THEN s[i] ELSE IF i = k THEN e ELSE s[i - 1]
  <1>1. PICK n \in Nat : n = Len(s)
    BY LenProperties
  <1>2. PICK t : t = InsertAt(s, k, e)
    OBVIOUS
  <1>3. t \in Seq(S) /\ Len(t) = n + 1 /\ t = WithIt(s, k, e)
    BY <1>1, <1>2, InsertAtIs
  <1> QED
    BY <1>1, <1>2, <1>3 DEF WithIt

-----------------------------------------------------------------------------
(***************************************************************************)
(* The same for a list that holds no element twice.                        *)
(***************************************************************************)

\* RemoveAt takes out one element.
LEMMA Removed ==
    ASSUME NEW S, NEW s \in Seq(S), NEW k \in DOMAIN s, IsInjective(s)
    PROVE  /\ RemoveAt(s, k) \in Seq(S)
           /\ IsInjective(RemoveAt(s, k))
           /\ ToSet(RemoveAt(s, k)) = ToSet(s) \ {s[k]}
  <1>1. PICK n \in Nat : n = Len(s) /\ DOMAIN s = 1 .. n
    BY LenProperties
  <1>2. k \in Int /\ 1 <= k /\ k <= n /\ k \in 1 .. Len(s)
    BY <1>1
  <1>3. PICK r : r = RemoveAt(s, k)
    OBVIOUS
  <1>4. /\ r \in Seq(S) /\ Len(r) = n - 1
        /\ \A i \in 1 .. n - 1 : r[i] = IF i < k THEN s[i] ELSE s[i + 1]
    BY <1>1, <1>2, <1>3, RemoveAtProperties
  <1>5. DOMAIN r = 1 .. n - 1
    BY <1>4, LenProperties
  <1>6. IsInjective(r)
    <2> SUFFICES ASSUME NEW i \in 1 .. n - 1, NEW j \in 1 .. n - 1, r[i] = r[j]
                 PROVE  i = j
      BY <1>5 DEF IsInjective
    <2> DEFINE at(x) == IF x < k THEN x ELSE x + 1
    <2>1. at(i) \in 1 .. n /\ at(j) \in 1 .. n
      BY <1>2
    <2>2. s[at(i)] = s[at(j)]
      BY <1>4
    <2>3. at(i) = at(j)
      BY <1>1, <2>1, <2>2 DEF IsInjective
    <2> QED
      BY <1>2, <2>3
  <1>7. ToSet(r) = ToSet(s) \ {s[k]}
    <2>1. ASSUME NEW i \in 1 .. n - 1
          PROVE  r[i] \in ToSet(s) \ {s[k]}
      <3>1. CASE i < k
        <4>1. i \in 1 .. n /\ i # k
          BY <1>2, <3>1
        <4> QED
          BY <1>1, <1>4, <3>1, <4>1 DEF IsInjective, ToSet
      <3>2. CASE ~(i < k)
        <4>1. i + 1 \in 1 .. n /\ i + 1 # k
          BY <1>2, <3>2
        <4> QED
          BY <1>1, <1>4, <3>2, <4>1 DEF IsInjective, ToSet
      <3> QED
        BY <3>1, <3>2
    <2>2. ASSUME NEW j \in 1 .. n, s[j] # s[k]
          PROVE  s[j] \in ToSet(r)
      <3>1. CASE j < k
        <4>1. j \in 1 .. n - 1
          BY <1>2, <3>1
        <4> QED
          BY <1>4, <1>5, <3>1, <4>1 DEF ToSet
      <3>2. CASE j > k
        <4>1. j - 1 \in 1 .. n - 1 /\ ~(j - 1 < k) /\ (j - 1) + 1 = j
          BY <1>2, <3>2
        <4>2. r[j - 1] = s[j]
          BY <1>4, <4>1
        <4> QED
          BY <1>5, <4>1, <4>2 DEF ToSet
      <3>3. j # k /\ j \in Int
        BY <2>2
      <3> QED
        BY <1>2, <3>1, <3>2, <3>3
    <2> QED
      BY <1>1, <1>5, <2>1, <2>2 DEF ToSet
  <1> QED
    BY <1>3, <1>4, <1>6, <1>7

\* InsertAt puts in one element.
LEMMA Inserted ==
    ASSUME NEW S, NEW s \in Seq(S), NEW k \in 1 .. Len(s) + 1, NEW e \in S,
           IsInjective(s), e \notin ToSet(s)
    PROVE  /\ InsertAt(s, k, e) \in Seq(S)
           /\ IsInjective(InsertAt(s, k, e))
           /\ ToSet(InsertAt(s, k, e)) = ToSet(s) \cup {e}
  <1>1. PICK n \in Nat : n = Len(s) /\ DOMAIN s = 1 .. n
    BY LenProperties
  <1>2. k \in Int /\ 1 <= k /\ k <= n + 1
    BY <1>1
  <1>3. PICK r : r = InsertAt(s, k, e)
    OBVIOUS
  <1>4. /\ r \in Seq(S) /\ Len(r) = n + 1
        /\ \A i \in 1 .. n + 1 : r[i] = IF i < k THEN s[i] ELSE IF i = k THEN e ELSE s[i - 1]
    <2>1. r \in Seq(S) /\ Len(r) = n + 1 /\ r = WithIt(s, k, e)
      BY <1>1, <1>3, InsertAtIs
    <2> QED
      BY <1>1, <2>1 DEF WithIt
  <1>5. DOMAIN r = 1 .. n + 1
    BY <1>4, LenProperties
  <1> DEFINE at(x) == IF x < k THEN x ELSE x - 1
  <1>6. \A i \in 1 .. n + 1 : i # k => at(i) \in 1 .. n /\ r[i] = s[at(i)]
    <2> SUFFICES ASSUME NEW i \in 1 .. n + 1, i # k
                 PROVE  at(i) \in 1 .. n /\ r[i] = s[at(i)]
      OBVIOUS
    <2>1. at(i) \in 1 .. n
      BY <1>2
    <2> QED
      BY <1>4, <2>1
  <1>7. k \in 1 .. n + 1 /\ r[k] = e
    <2>1. k \in 1 .. n + 1 /\ ~(k < k)
      BY <1>2
    <2> QED
      BY <1>4, <2>1
  <1>8. \A i \in 1 .. n : s[i] # e
    BY <1>1 DEF ToSet
  <1>9. IsInjective(r)
    <2> SUFFICES ASSUME NEW i \in 1 .. n + 1, NEW j \in 1 .. n + 1, r[i] = r[j]
                 PROVE  i = j
      BY <1>5 DEF IsInjective
    <2>1. CASE i = k \/ j = k
      BY <1>6, <1>7, <1>8, <2>1
    <2>2. CASE i # k /\ j # k
      <3>1. at(i) = at(j)
        BY <1>1, <1>6, <2>2 DEF IsInjective
      <3> QED
        BY <1>2, <2>2, <3>1
    <2> QED
      BY <2>1, <2>2
  <1>10. ToSet(r) = ToSet(s) \cup {e}
    <2>1. \A i \in 1 .. n + 1 : r[i] \in ToSet(s) \cup {e}
      BY <1>1, <1>6, <1>7 DEF ToSet
    <2>2. ASSUME NEW j \in 1 .. n
          PROVE  s[j] \in ToSet(r)
      <3>1. CASE j < k
        <4>1. j \in 1 .. n + 1 /\ j # k /\ at(j) = j
          BY <1>2, <3>1
        <4> QED
          BY <1>5, <1>6, <4>1 DEF ToSet
      <3>2. CASE ~(j < k)
        <4>1. j + 1 \in 1 .. n + 1 /\ j + 1 # k /\ at(j + 1) = j
          BY <1>2, <3>2
        <4>2. r[j + 1] = s[j]
          BY <1>6, <4>1
        <4> QED
          BY <1>5, <4>1, <4>2 DEF ToSet
      <3> QED
        BY <3>1, <3>2
    <2>3. e \in ToSet(r)
      BY <1>5, <1>7 DEF ToSet
    <2>4. ToSet(s) \subseteq ToSet(r)
      BY <1>1, <2>2 DEF ToSet
    <2>5. ToSet(r) \subseteq ToSet(s) \cup {e}
      BY <1>5, <2>1 DEF ToSet
    <2> QED
      BY <2>3, <2>4, <2>5
  <1> QED
    BY <1>3, <1>4, <1>9, <1>10

\* Append puts in one element.
LEMMA Appended ==
    ASSUME NEW S, NEW s \in Seq(S), NEW e \in S, IsInjective(s), e \notin ToSet(s)
    PROVE  /\ Append(s, e) \in Seq(S)
           /\ Append(s, e) # <<>>
           /\ IsInjective(Append(s, e))
           /\ ToSet(Append(s, e)) = ToSet(s) \cup {e}
  <1>1. PICK n \in Nat : n = Len(s) /\ DOMAIN s = 1 .. n
    BY LenProperties
  <1>2. PICK r : r = Append(s, e)
    OBVIOUS
  <1>3. /\ r \in Seq(S) /\ r # <<>> /\ DOMAIN r = 1 .. n + 1
        /\ \A i \in 1 .. n : r[i] = s[i]
        /\ r[n + 1] = e
    BY <1>1, <1>2, AppendProperties, LenProperties
  <1>4. \A i \in 1 .. n + 1 : i = n + 1 \/ i \in 1 .. n
    OBVIOUS
  <1>5. \A i \in 1 .. n : i \in 1 .. n + 1 /\ i # n + 1
    OBVIOUS
  <1>6. n + 1 \in 1 .. n + 1
    OBVIOUS
  <1>7. \A i \in 1 .. n : s[i] # e
    BY <1>1 DEF ToSet
  <1>8. IsInjective(r)
    BY <1>1, <1>3, <1>4, <1>7 DEF IsInjective
  <1>9. ToSet(r) = ToSet(s) \cup {e}
    BY <1>1, <1>3, <1>4, <1>5, <1>6 DEF ToSet
  <1> QED
    BY <1>2, <1>3, <1>8, <1>9

\* The names of the members of a list.
Names(f, s) == [i \in DOMAIN s |-> f[s[i]]]

AreNames(c, f, s, T) ==
    /\ c \in Seq(T) /\ Len(c) = Len(s) /\ DOMAIN c = 1 .. Len(s)
    /\ \A i \in 1 .. Len(s) : c[i] = f[s[i]]
LEMMA NamesProperties ==
    ASSUME NEW S, NEW T, NEW f \in [S -> T], NEW s \in Seq(S)
    PROVE  AreNames(Names(f, s), f, s, T)
  <1>1. PICK n \in Nat : n = Len(s) /\ DOMAIN s = 1 .. n
    BY LenProperties
  <1>2. \A i \in 1 .. n : f[s[i]] \in T
    BY <1>1, ElementOfSeq
  <1>3. PICK c : c = Names(f, s)
    OBVIOUS
  <1>4. c \in [1 .. n -> T] /\ \A i \in 1 .. n : c[i] = f[s[i]]
    BY <1>1, <1>2, <1>3 DEF Names
  <1>5. c \in Seq(T) /\ Len(c) = n /\ DOMAIN c = 1 .. n
    BY <1>4, SeqDef, LenProperties
  <1> QED
    BY <1>1, <1>3, <1>4, <1>5 DEF AreNames

NamesWithout(f, s, k) == Names(f, RemoveAt(s, k)) = RemoveAt(Names(f, s), k)
LEMMA NamesRemoved ==
    ASSUME NEW S, NEW T, NEW f \in [S -> T], NEW s \in Seq(S), NEW k \in 1 .. Len(s)
    PROVE  NamesWithout(f, s, k)
  <1>1. PICK n \in Nat : n = Len(s)
    BY LenProperties
  <1>2. PICK c, r, cr, rc : /\ c = Names(f, s) /\ r = RemoveAt(s, k)
                            /\ cr = Names(f, r) /\ rc = RemoveAt(c, k)
    OBVIOUS
  <1>3. c \in Seq(T) /\ Len(c) = n /\ \A i \in 1 .. n : c[i] = f[s[i]]
    <2>1. AreNames(c, f, s, T)
      BY <1>2, NamesProperties
    <2> QED
      BY <1>1, <1>2, <2>1 DEF AreNames
  <1>4. /\ r \in Seq(S) /\ Len(r) = n - 1
        /\ \A i \in 1 .. n - 1 : r[i] = IF i < k THEN s[i] ELSE s[i + 1]
    BY <1>1, <1>2, RemoveAtProperties
  <1>5. cr \in Seq(T) /\ Len(cr) = n - 1 /\ \A i \in 1 .. n - 1 : cr[i] = f[r[i]]
    <2>1. AreNames(cr, f, r, T)
      BY <1>2, <1>4, NamesProperties
    <2> QED
      BY <1>4, <2>1 DEF AreNames
  <1>6. /\ rc \in Seq(T) /\ Len(rc) = n - 1
        /\ \A i \in 1 .. n - 1 : rc[i] = IF i < k THEN c[i] ELSE c[i + 1]
    <2>1. k \in 1 .. Len(c)
      BY <1>1, <1>3
    <2> QED
      BY <1>2, <1>3, <2>1, RemoveAtProperties
  <1>7. ASSUME NEW i \in 1 .. n - 1
        PROVE  cr[i] = rc[i]
    <2>1. i \in 1 .. n /\ i + 1 \in 1 .. n
      BY <1>1
    <2>2. CASE i < k
      <3>1. cr[i] = f[s[i]]
        BY <1>4, <1>5, <2>2
      <3>2. rc[i] = f[s[i]]
        BY <1>3, <1>6, <2>1, <2>2
      <3> QED
        BY <3>1, <3>2
    <2>3. CASE ~(i < k)
      <3>1. cr[i] = f[s[i + 1]]
        BY <1>4, <1>5, <2>3
      <3>2. rc[i] = f[s[i + 1]]
        BY <1>3, <1>6, <2>1, <2>3
      <3> QED
        BY <3>1, <3>2
    <2> QED
      BY <2>2, <2>3
  <1>8. cr = rc
    BY <1>5, <1>6, <1>7, SeqEqual
  <1> QED
    BY <1>2, <1>8 DEF NamesWithout

LEMMA NamesAppended ==
    ASSUME NEW S, NEW T, NEW f \in [S -> T], NEW s \in Seq(S), NEW d \in S
    PROVE  Names(f, Append(s, d)) = Append(Names(f, s), f[d])
  <1>1. PICK n \in Nat : n = Len(s)
    BY LenProperties
  <1>2. PICK c, r, cr, rc, e : /\ c = Names(f, s) /\ r = Append(s, d) /\ e = f[d]
                               /\ cr = Names(f, r) /\ rc = Append(c, e)
    OBVIOUS
  <1>3. e \in T /\ c \in Seq(T) /\ Len(c) = n /\ \A i \in 1 .. n : c[i] = f[s[i]]
    <2>1. AreNames(c, f, s, T)
      BY <1>2, NamesProperties
    <2> QED
      BY <1>1, <1>2, <2>1 DEF AreNames
  <1>4. r \in Seq(S) /\ Len(r) = n + 1 /\ r[n + 1] = d /\ \A i \in 1 .. n : r[i] = s[i]
    BY <1>1, <1>2, AppendProperties
  <1>5. cr \in Seq(T) /\ Len(cr) = n + 1 /\ \A i \in 1 .. n + 1 : cr[i] = f[r[i]]
    <2>1. AreNames(cr, f, r, T)
      BY <1>2, <1>4, NamesProperties
    <2> QED
      BY <1>4, <2>1 DEF AreNames
  <1>6. rc \in Seq(T) /\ Len(rc) = n + 1 /\ rc[n + 1] = e /\ \A i \in 1 .. n : rc[i] = c[i]
    BY <1>2, <1>3, AppendProperties
  <1>7. ASSUME NEW i \in 1 .. n + 1
        PROVE  cr[i] = rc[i]
    <2>1. CASE i = n + 1
      BY <1>2, <1>4, <1>5, <1>6, <2>1
    <2>2. CASE i # n + 1
      <3>1. i \in 1 .. n
        BY <2>2
      <3> QED
        BY <1>3, <1>4, <1>5, <1>6, <3>1
    <2> QED
      BY <2>1, <2>2
  <1>8. cr = rc
    BY <1>5, <1>6, <1>7, SeqEqual
  <1> QED
    BY <1>2, <1>8
=============================================================================
