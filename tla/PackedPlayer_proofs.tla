-------------------------- MODULE PackedPlayer_proofs --------------------------
(***************************************************************************)
(* The packets of players under Perf:SendProp_Optimize, for any players,   *)
(* properties and words.                                                   *)
(*                                                                         *)
(* First CachedChangeFrameList keeps the contract of IChangeFrameList      *)
(* (src/stub/sendprop.h) for every number of properties and every history  *)
(* of changes: what it answers from the last changes alone is what a scan  *)
(* of all properties would find.  Then the helpers of DoEncodePlayer, its  *)
(* sorting and its search for changed words, and with them the invariants. *)
(***************************************************************************)
EXTENDS PackedPlayer, ListLemmas, TLAPS

\* The types of a change frame list.
List == [ticks : [Prop -> Nat], last : Seq(Prop), lastTick : Nat, sameTick : Nat,
         cached : BOOLEAN]

\* A list made at the tick c: nothing is older than c, the last changes are at lastTick,
\* and every property that was changed at sameTick or later is one of them.
Good(l, c) ==
    /\ l \in List
    /\ c \in Nat
    /\ l.lastTick = 0 \/ c < l.lastTick
    /\ \A p \in Prop : l.ticks[p] = c \/ (c < l.ticks[p] /\ l.ticks[p] <= l.lastTick)
    /\ \A p \in Listed(l.last) : l.ticks[p] = l.lastTick /\ l.lastTick # 0
    /\ \A p \in Prop : c < l.ticks[p] /\ l.sameTick <= l.ticks[p] => p \in Listed(l.last)

\* The types of the fields.
LEMMA Fields ==
  ASSUME NEW l, l \in List
  PROVE  /\ l.ticks \in [Prop -> Nat] /\ \A p \in Prop : l.ticks[p] \in Nat
         /\ l.last \in Seq(Prop) /\ Listed(l.last) \subseteq Prop
         /\ l.lastTick \in Nat /\ l.sameTick \in Nat /\ l.cached \in BOOLEAN
  BY DEF List, Listed

\* The lists that AllocChangeFrameList makes are good.
THEOREM NewIsGood ==
  ASSUME NEW c \in Nat, NEW cached \in BOOLEAN
  PROVE  Good(NewList(c, cached), c)
  BY DEF Good, NewList, List, Listed

\* SetChangeTick keeps a list good, if its tick is later than any before: one snapshot is
\* taken per tick, and a player is packed once for it.
THEOREM ChangeKeepsGood ==
  ASSUME NEW l, NEW c, Good(l, c),
         NEW ps \in Seq(Prop), NEW at \in Nat, c < at, l.lastTick < at
  PROVE  Good(SetChangeTick(l, ps, at), c)
<1> DEFINE m == SetChangeTick(l, ps, at)
<1>1. l \in List /\ c \in Nat
  BY DEF Good
<1>2. Listed(ps) \subseteq Prop
  BY DEF Listed
<1>3. /\ m.ticks = [p \in Prop |-> IF p \in Listed(ps) THEN at ELSE l.ticks[p]]
      /\ m.last = ps /\ m.lastTick = at /\ m.cached = l.cached
      /\ m.sameTick = IF l.last = ps THEN l.sameTick ELSE at
  BY <1>1 DEF SetChangeTick, List
<1>4. m \in List
  BY <1>1, <1>2 DEF SetChangeTick, List
<1> HIDE DEF m
<1>5. ASSUME NEW p \in Prop
      PROVE  m.ticks[p] = c \/ (c < m.ticks[p] /\ m.ticks[p] <= m.lastTick)
  <2>1. CASE p \in Listed(ps)
    BY <2>1, <1>3
  <2>2. CASE p \notin Listed(ps)
    <3>1. m.ticks[p] = l.ticks[p] /\ l.ticks[p] \in Nat /\ l.lastTick \in Nat
      BY <2>2, <1>1, <1>3, Fields
    <3>2. l.ticks[p] = c \/ (c < l.ticks[p] /\ l.ticks[p] <= l.lastTick)
      BY DEF Good
    <3> QED BY <3>1, <3>2, <1>1, <1>3
  <2> QED BY <2>1, <2>2
<1>6. ASSUME NEW p \in Listed(m.last)
      PROVE  m.ticks[p] = m.lastTick /\ m.lastTick # 0
  BY <1>1, <1>2, <1>3
<1>7. ASSUME NEW p \in Prop, c < m.ticks[p], m.sameTick <= m.ticks[p]
      PROVE  p \in Listed(m.last)
  <2>1. CASE p \in Listed(ps)
    BY <2>1, <1>3
  <2>2. CASE p \notin Listed(ps)
    <3>1. m.ticks[p] = l.ticks[p] /\ l.ticks[p] \in Nat /\ l.lastTick \in Nat
      BY <2>2, <1>1, <1>3, Fields
    <3>2. l.ticks[p] = c \/ l.ticks[p] <= l.lastTick
      BY DEF Good
    <3>3. l.ticks[p] < at
      BY <3>1, <3>2, <1>1
    <3>4. l.last = ps /\ m.sameTick = l.sameTick
      BY <3>1, <3>3, <1>3, <1>7
    <3>5. p \in Listed(l.last)
      BY <3>1, <3>4, <1>7 DEF Good
    <3> QED BY <3>4, <3>5, <2>2
  <2> QED BY <2>1, <2>2
<1>8. m.lastTick = 0 \/ c < m.lastTick
  BY <1>3
<1>9. Good(m, c)
  BY <1>1, <1>4, <1>5, <1>6, <1>7, <1>8 DEF Good
<1> QED BY <1>9 DEF m

\* "Get a list of all properties with a change frame > iFrame": the answer is exact for
\* every tick at which the entity existed.
THEOREM AnswersAreExact ==
  ASSUME NEW l, NEW c, Good(l, c), NEW at \in Nat, c <= at
  PROVE  ChangedAfter(l, at) = Scan(l, at)
<1>1. /\ l \in List /\ c \in Nat /\ Listed(l.last) \subseteq Prop
      /\ l.lastTick \in Nat /\ l.sameTick \in Nat
      /\ \A p \in Prop : l.ticks[p] \in Nat
  BY Fields DEF Good
<1>2. CASE ~l.cached \/ at + 1 < l.sameTick
  BY <1>2 DEF ChangedAfter
<1>3. CASE l.cached /\ ~(at + 1 < l.sameTick) /\ at >= l.lastTick
  <2>1. ASSUME NEW p \in Prop
        PROVE  ~(l.ticks[p] > at)
    <3>1. l.ticks[p] = c \/ l.ticks[p] <= l.lastTick
      BY DEF Good
    <3> QED BY <3>1, <1>1, <1>3
  <2> QED BY <2>1, <1>3 DEF ChangedAfter, Scan
<1>4. CASE l.cached /\ ~(at + 1 < l.sameTick) /\ ~(at >= l.lastTick)
  <2>1. ASSUME NEW p \in Listed(l.last)
        PROVE  l.ticks[p] > at
    <3>1. l.ticks[p] = l.lastTick
      BY DEF Good
    <3> QED BY <3>1, <1>1, <1>4
  <2>2. ASSUME NEW p \in Prop, l.ticks[p] > at
        PROVE  p \in Listed(l.last)
    <3>1. c < l.ticks[p] /\ l.sameTick <= l.ticks[p]
      BY <1>1, <1>4, <2>2
    <3> QED BY <3>1 DEF Good
  <2> QED BY <2>1, <2>2, <1>1, <1>4 DEF ChangedAfter, Scan
<1> QED BY <1>2, <1>3, <1>4

\* A packet keeps what it could answer when its list goes on to newer packets (Copy
\* returns the list itself): a later change only adds to the answers for earlier ticks.
THEOREM ChangesOnlyAdd ==
  ASSUME NEW l, NEW c, Good(l, c), NEW ps \in Seq(Prop), NEW later \in Nat,
         c < later, l.lastTick < later, NEW at \in Nat, c <= at, at < later
  PROVE  ChangedAfter(l, at) \subseteq ChangedAfter(SetChangeTick(l, ps, later), at)
<1>1. Good(SetChangeTick(l, ps, later), c)
  BY ChangeKeepsGood
<1>2. l \in List
  BY DEF Good
<1>3. Scan(l, at) \subseteq Scan(SetChangeTick(l, ps, later), at)
  BY <1>2 DEF Scan, SetChangeTick, List
<1> QED BY <1>1, <1>3, AnswersAreExact

-----------------------------------------------------------------------------
(***************************************************************************)
(* Helpers.                                                                *)
(***************************************************************************)

\* Sorting loses no value and adds none.
LEMMA SortedIsPermuted ==
  ASSUME NEW D \in SUBSET Int, IsFiniteSet(D), NEW f \in [D -> Prop]
  PROVE  Sorted(f) \in Seq(Prop) /\ Listed(Sorted(f)) = {f[i] : i \in D}
<1> DEFINE Before(i) == {j \in D : f[j] < f[i] \/ (f[j] = f[i] /\ j <= i)}
           g == [i \in D |-> Place(f, i)]
<1>1. PICK n \in Nat : n = Cardinality(D)
  BY FS_CardinalityType
<1>2. Prop \subseteq Int
  <2>1. Prop = 1 .. Cardinality(Prop) /\ Cardinality(Prop) \in Nat
    BY Layout, FS_CardinalityType
  <2> QED
    BY <2>1
<1>3. \A i \in D : f[i] \in Int /\ i \in Int
  BY <1>2
<1>4. ASSUME NEW i \in D
      PROVE  /\ Place(f, i) = Cardinality(Before(i)) /\ i \in Before(i)
             /\ IsFiniteSet(Before(i)) /\ Place(f, i) \in 1 .. n
  <2>1. Place(f, i) = Cardinality(Before(i))
    BY DEF Place
  <2>2. i \in Before(i)
    BY <1>3
  <2>3. Before(i) \subseteq D
    OBVIOUS
  <2> HIDE DEF Before
  <2>4. IsFiniteSet(Before(i)) /\ Cardinality(Before(i)) <= n
    BY <2>3, <1>1, FS_Subset
  <2>5. Cardinality(Before(i)) \in Nat /\ Cardinality(Before(i)) # 0
    BY <2>2, <2>4, FS_CardinalityType, FS_EmptySet
  <2> QED
    BY <1>1, <2>1, <2>2, <2>4, <2>5
<1>5. ASSUME NEW i \in D, NEW j \in D, Place(f, i) = Place(f, j),
             f[i] < f[j] \/ (f[i] = f[j] /\ i < j)
      PROVE  FALSE
  <2>1. ASSUME NEW k \in Before(i)
        PROVE  k \in Before(j)
    <3>1. /\ k \in D /\ k \in Int /\ i \in Int /\ j \in Int
          /\ f[k] \in Int /\ f[i] \in Int /\ f[j] \in Int
      BY <1>3
    <3>2. f[k] < f[i] \/ (f[k] = f[i] /\ k <= i)
      OBVIOUS
    <3>3. f[k] < f[j] \/ (f[k] = f[j] /\ k <= j)
      BY <1>5, <3>1, <3>2
    <3> QED
      BY <3>1, <3>3
  <2>2. j \notin Before(i)
    BY <1>3, <1>5
  <2> HIDE DEF Before
  <2>3. Before(i) = Before(j)
    <3>1. Before(i) \in SUBSET Before(j)
      BY <2>1
    <3>2. IsFiniteSet(Before(j)) /\ Cardinality(Before(i)) = Cardinality(Before(j))
      BY <1>4, <1>5
    <3> QED
      BY <3>1, <3>2, FS_Subset
  <2> QED
    BY <1>4, <2>2, <2>3
<1>6. \A i, j \in D : Place(f, i) = Place(f, j) => i = j
  <2> SUFFICES ASSUME NEW i \in D, NEW j \in D, Place(f, i) = Place(f, j), i # j
               PROVE  FALSE
    OBVIOUS
  <2>1. \/ f[i] < f[j] \/ (f[i] = f[j] /\ i < j)
        \/ f[j] < f[i] \/ (f[j] = f[i] /\ j < i)
    BY <1>3
  <2> QED
    BY <1>5, <2>1
<1>7. g \in [D -> 1 .. n] /\ \A i \in D : g[i] = Place(f, i)
  BY <1>4
<1> HIDE DEF g
<1>8. g \in Injection(D, 1 .. n)
  BY <1>6, <1>7 DEF Injection, IsInjective
<1>9. IsFiniteSet(1 .. n) /\ Cardinality(1 .. n) = n
  BY FS_Interval
<1>10. g \in Surjection(D, 1 .. n)
  BY <1>1, <1>8, <1>9, FS_Injection
<1>11. \A k \in 1 .. n : \E i \in D : Place(f, i) = k
  BY <1>7, <1>10 DEF Surjection
<1>12. PICK s : s = Sorted(f)
  OBVIOUS
<1>13. s = [k \in 1 .. n |-> f[CHOOSE i \in D : Place(f, i) = k]]
  BY <1>1, <1>12 DEF Sorted
<1>14. \A k \in 1 .. n : \E i \in D : Place(f, i) = k /\ s[k] = f[i]
  BY <1>11, <1>13
<1>15. \A i \in D : s[Place(f, i)] = f[i]
  BY <1>4, <1>6, <1>13
<1>16. s \in [1 .. n -> Prop]
  BY <1>13, <1>14
<1>17. s \in Seq(Prop) /\ DOMAIN s = 1 .. n
  BY <1>16, SeqDef
<1>18. Listed(s) = {f[i] : i \in D}
  <2>1. \A k \in 1 .. n : s[k] \in {f[i] : i \in D}
    BY <1>14
  <2>2. \A i \in D : f[i] \in {s[k] : k \in 1 .. n}
    BY <1>4, <1>15
  <2> QED
    BY <1>17, <2>1, <2>2 DEF Listed
<1> QED
  BY <1>12, <1>17, <1>18

\* ... neither of the sequence of noted properties nor of the set of differing ones.
LEMMA SortedSequence ==
  ASSUME NEW ps \in Seq(Prop)
  PROVE  Sorted(ps) \in Seq(Prop) /\ Listed(Sorted(ps)) = Listed(ps)
<1>1. PICK n \in Nat : ps \in [1 .. n -> Prop]
  BY SeqDef
<1>2. IsFiniteSet(1 .. n) /\ 1 .. n \in SUBSET Int
  BY FS_Interval
<1> QED
  BY <1>1, <1>2, SortedIsPermuted DEF Listed

LEMMA SortedSet ==
  ASSUME NEW ps \in SUBSET Prop
  PROVE  /\ Sorted([p \in ps |-> p]) \in Seq(Prop)
         /\ Listed(Sorted([p \in ps |-> p])) = ps
<1>1. IsFiniteSet(ps) /\ ps \in SUBSET Int
  BY Layout, FS_Subset
<1> DEFINE f == [p \in ps |-> p]
<1>2. f \in [ps -> Prop] /\ {f[p] : p \in ps} = ps
  OBVIOUS
<1> HIDE DEF f
<1>3. Sorted(f) \in Seq(Prop) /\ Listed(Sorted(f)) = ps
  BY <1>1, <1>2, SortedIsPermuted
<1> QED
  BY <1>3 DEF f

\* What is listed in two sequences, one after the other.
LEMMA ListedConcat ==
  ASSUME NEW a \in Seq(Prop), NEW b \in Seq(Prop)
  PROVE  /\ a \o b \in Seq(Prop) /\ Listed(a \o b) = Listed(a) \cup Listed(b)
         /\ a \o b # <<>> =>
              IF b = <<>> THEN a \o b = a ELSE Last(a \o b) \in Listed(b)
<1>1. PICK m, n \in Nat : /\ m = Len(a) /\ n = Len(b)
                          /\ DOMAIN a = 1 .. m /\ DOMAIN b = 1 .. n
  BY LenProperties
<1>2. PICK c : c = a \o b
  OBVIOUS
<1>3. /\ c \in Seq(Prop) /\ Len(c) = m + n /\ DOMAIN c = 1 .. m + n
      /\ \A i \in 1 .. m + n : c[i] = IF i <= m THEN a[i] ELSE b[i - m]
  BY <1>1, <1>2, ConcatProperties, LenProperties
<1>4. ASSUME NEW i \in 1 .. m
      PROVE  a[i] \in Listed(c)
  <2>1. i \in 1 .. m + n /\ c[i] = a[i]
    BY <1>3
  <2> QED
    BY <1>3, <2>1 DEF Listed
<1>5. ASSUME NEW i \in 1 .. n
      PROVE  b[i] \in Listed(c)
  <2>1. m + i \in 1 .. m + n /\ c[m + i] = b[i]
    BY <1>3
  <2> QED
    BY <1>3, <2>1 DEF Listed
<1>6. ASSUME NEW i \in 1 .. m + n
      PROVE  c[i] \in Listed(a) \cup Listed(b)
  <2>1. CASE i <= m
    <3>1. i \in 1 .. m /\ c[i] = a[i]
      BY <1>3, <2>1
    <3> QED
      BY <1>1, <3>1 DEF Listed
  <2>2. CASE ~(i <= m)
    <3>1. i - m \in 1 .. n /\ c[i] = b[i - m]
      BY <1>3, <2>2
    <3> QED
      BY <1>1, <3>1 DEF Listed
  <2> QED
    BY <2>1, <2>2
<1>7. Listed(c) = Listed(a) \cup Listed(b)
  <2>1. \A e \in Listed(c) : e \in Listed(a) \cup Listed(b)
    BY <1>3, <1>6 DEF Listed
  <2>2. \A e \in Listed(a) : e \in Listed(c)
    <3>1. \A e \in Listed(a) : \E i \in 1 .. m : e = a[i]
      BY <1>1 DEF Listed
    <3> QED
      BY <3>1, <1>4
  <2>3. \A e \in Listed(b) : e \in Listed(c)
    <3>1. \A e \in Listed(b) : \E i \in 1 .. n : e = b[i]
      BY <1>1 DEF Listed
    <3> QED
      BY <3>1, <1>5
  <2> QED
    BY <2>1, <2>2, <2>3
<1>8. b = <<>> => c = a
  BY <1>2, ConcatEmptySeq
<1>9. b # <<>> => Last(c) \in Listed(b)
  <2> SUFFICES ASSUME b # <<>>
               PROVE  Last(c) \in Listed(b)
    OBVIOUS
  <2>1. n # 0
    BY <1>1, EmptySeq
  <2>2. m + n \in 1 .. m + n /\ ~(m + n <= m) /\ (m + n) - m = n /\ n \in 1 .. n
    BY <2>1
  <2>3. Last(c) = b[n]
    BY <1>3, <2>2 DEF Last
  <2> QED
    BY <1>1, <2>2, <2>3 DEF Listed
<1> QED
  BY <1>2, <1>3, <1>7, <1>8, <1>9

\* A snapshot more.
LEMMA OneMore ==
  ASSUME NEW S, NEW s \in Seq(S), NEW e \in S
  PROVE  /\ Append(s, e) \in Seq(S) /\ Append(s, e) # <<>>
         /\ Len(Append(s, e)) = Len(s) + 1 /\ Last(Append(s, e)) = e
         /\ \A i \in 1 .. Len(s) : Append(s, e)[i] = s[i]
         /\ Append(s, e)[Len(s) + 1] = e
<1>1. Len(s) \in Nat
  BY LenProperties
<1>2. /\ Append(s, e) \in Seq(S) /\ Append(s, e) # <<>> /\ Len(Append(s, e)) = Len(s) + 1
      /\ \A i \in 1 .. Len(s) : Append(s, e)[i] = s[i]
      /\ Append(s, e)[Len(s) + 1] = e
  BY AppendProperties
<1> QED
  BY <1>1, <1>2 DEF Last

-----------------------------------------------------------------------------
(***************************************************************************)
(* The search for changed words.                                           *)
(***************************************************************************)

Values == UNION {[ws -> 0 .. 1] : ws \in SUBSET Word}
Packet == [Prop -> Values]
Memory == [Word -> 0 .. 1]

TypeOK ==
    /\ enabled \in BOOLEAN /\ firsttime \in BOOLEAN
    /\ bots \in SUBSET Player /\ tick \in Nat /\ toPack \in SUBSET Player
    /\ mem \in [Player -> Memory] /\ changed \in SUBSET Player /\ force \in SUBSET Player
    /\ old \in [Player -> Memory]
    /\ DOMAIN offs = Player
    /\ list \in [Player -> List]
    /\ shots \in [Player -> Seq(Packet)]
    /\ sent \in [Player -> Memory]
    /\ ownOffs \in SUBSET Player /\ astray \in SUBSET Player
    /\ doubt \in [Player -> SUBSET Prop]

\* Words that share a property have the same properties: a vector lies on no part of
\* another one.
SharedAlike ==
    \A s, t \in 1 .. Slots :
      Listed(PropsAt[s]) \cap Listed(PropsAt[t]) # {} => Listed(PropsAt[s]) = Listed(PropsAt[t])

Shows(pl, s) == {p \in Listed(PropsAt[s]) : ~Culled(pl, p)}

Seen == [old : Memory, props : Seq(Prop), over : BOOLEAN]

\* What has been noted with the last property is noted entirely.
NotedWhole(pl, x) ==
    x.props # <<>> =>
      \A s \in 1 .. Slots : Last(x.props) \in Listed(PropsAt[s]) => Shows(pl, s) \subseteq Listed(x.props)

\* The search after n words: the others are as they were, and the properties of those that
\* changed are noted.
LookedAt(pl, n, x) ==
    /\ x \in Seen
    /\ \A w \in Word : n < w => x.old[w] = old[pl][w]
    /\ SharedAlike => /\ NotedWhole(pl, x)
                      /\ ~x.over => \A s \in 1 .. n :
                           old[pl][s] # mem[pl][s] => Shows(pl, s) \subseteq Listed(x.props)

\* The properties of a word that are noted are all that are shown.
LEMMA NotedIsShown ==
  ASSUME NEW pl, NEW s \in 1 .. Slots
  PROVE  Noted(pl, s) \in Seq(Prop) /\ Listed(Noted(pl, s)) = Shows(pl, s)
<1>1. /\ PropsAt[s] \in Seq(Prop) /\ Len(PropsAt[s]) \in {1, 2}
  BY Layout
<1>2. PICK at : at = PropsAt[s]
  OBVIOUS
<1>3. /\ DOMAIN at = 1 .. Len(at) /\ Len(at) \in {1, 2}
      /\ \A i \in 1 .. Len(at) : at[i] \in Prop
  BY <1>1, <1>2, LenProperties, ElementOfSeq
<1>4. ASSUME NEW p \in Prop
      PROVE  /\ Shown(pl, p) \in Seq(Prop)
             /\ Listed(Shown(pl, p)) = IF Culled(pl, p) THEN {} ELSE {p}
  <2>1. /\ <<>> \in Seq(Prop) /\ Listed(<<>>) = {}
        /\ <<p>> \in Seq(Prop) /\ Listed(<<p>>) = {p}
    BY DEF Listed
  <2> QED
    BY <2>1 DEF Shown
<1>5. CASE Len(at) = 1
  <2>1. at[1] \in Prop /\ Listed(at) = {at[1]}
    BY <1>3, <1>5 DEF Listed
  <2>2. Noted(pl, s) = Shown(pl, at[1]) \o <<>>
    BY <1>2, <1>5 DEF Noted
  <2>3. Noted(pl, s) = Shown(pl, at[1])
    BY <1>4, <2>1, <2>2, ConcatEmptySeq
  <2>4. Shows(pl, s) = IF Culled(pl, at[1]) THEN {} ELSE {at[1]}
    BY <1>2, <2>1 DEF Shows
  <2> QED
    BY <1>4, <2>1, <2>3, <2>4
<1>6. CASE Len(at) = 2
  <2>1. at[1] \in Prop /\ at[2] \in Prop /\ Listed(at) = {at[1], at[2]}
    BY <1>3, <1>6 DEF Listed
  <2>2. Noted(pl, s) = Shown(pl, at[1]) \o Shown(pl, at[2])
    BY <1>2, <1>6 DEF Noted
  <2>3. /\ Noted(pl, s) \in Seq(Prop)
        /\ Listed(Noted(pl, s)) = Listed(Shown(pl, at[1])) \cup Listed(Shown(pl, at[2]))
    BY <1>4, <2>1, <2>2, ListedConcat
  <2>4. Shows(pl, s) = (IF Culled(pl, at[1]) THEN {} ELSE {at[1]})
                       \cup (IF Culled(pl, at[2]) THEN {} ELSE {at[2]})
    BY <1>2, <2>1 DEF Shows
  <2> QED
    BY <1>4, <2>1, <2>3, <2>4
<1> QED
  BY <1>3, <1>5, <1>6

\* One word further.
LEMMA LookFurther ==
  ASSUME TypeOK, NEW pl \in Player, NEW n \in Nat, n + 1 \in 1 .. Slots,
         NEW x, LookedAt(pl, n, x)
  PROVE  LookedAt(pl, n + 1, LookAt(pl, x, n + 1))
<1>1. PICK s : s = n + 1
  OBVIOUS
<1>2. /\ s \in 1 .. Slots /\ s \in Word /\ Word \subseteq Nat /\ s \in Nat
  BY <1>1, Layout, FS_CardinalityType
<1>3. /\ x.old \in Memory /\ x.props \in Seq(Prop) /\ x.over \in BOOLEAN /\ x \in Seen
      /\ old[pl] \in Memory /\ mem[pl] \in Memory
  BY DEF LookedAt, Seen, TypeOK
<1>4. x.old[s] = old[pl][s]
  BY <1>1, <1>2 DEF LookedAt
<1>5. \A w \in Word : s < w => n < w /\ w # s
  BY <1>1, <1>2
<1>6. \A i \in 1 .. s : i \in 1 .. n \/ i = s
  BY <1>1
<1>7. PICK y : y = LookAt(pl, x, s)
  OBVIOUS
<1>8. CASE x.over \/ x.old[s] = mem[pl][s]
  <2>1. y = x
    BY <1>7, <1>8 DEF LookAt
  <2> QED
    BY <1>1, <1>4, <1>5, <1>6, <1>7, <1>8, <2>1 DEF LookedAt
<1>9. CASE ~(x.over \/ x.old[s] = mem[pl][s]) /\ Len(x.props) >= MaxChanges
  <2>1. y = [x EXCEPT !.over = TRUE]
    BY <1>7, <1>9 DEF LookAt
  <2>2. y \in Seen /\ y.over /\ y.props = x.props /\ y.old = x.old
    BY <1>3, <2>1 DEF Seen
  <2>3. NotedWhole(pl, x) => NotedWhole(pl, y)
    BY <2>2 DEF NotedWhole
  <2> QED
    BY <1>1, <1>5, <1>7, <2>2, <2>3 DEF LookedAt
<1>10. CASE /\ ~(x.over \/ x.old[s] = mem[pl][s]) /\ ~(Len(x.props) >= MaxChanges)
            /\ x.props # <<>> /\ Last(x.props) \in Listed(PropsAt[s])
  <2>1. y = x
    BY <1>7, <1>10 DEF LookAt
  <2>2. NotedWhole(pl, x) => Shows(pl, s) \subseteq Listed(x.props)
    BY <1>2, <1>10 DEF NotedWhole
  <2> QED
    BY <1>1, <1>5, <1>6, <1>7, <2>1, <2>2 DEF LookedAt
<1>11. CASE /\ ~(x.over \/ x.old[s] = mem[pl][s]) /\ ~(Len(x.props) >= MaxChanges)
            /\ ~(x.props # <<>> /\ Last(x.props) \in Listed(PropsAt[s]))
  <2>1. y = [x EXCEPT !.old[s] = mem[pl][s], !.props = @ \o Noted(pl, s)]
    BY <1>7, <1>11 DEF LookAt
  <2>2. PICK ps, new : ps = x.props \o new /\ new = Noted(pl, s)
    OBVIOUS
  <2>3. new \in Seq(Prop) /\ Listed(new) = Shows(pl, s)
    BY <1>2, <2>2, NotedIsShown
  <2>4. /\ ps \in Seq(Prop) /\ Listed(ps) = Listed(x.props) \cup Shows(pl, s)
        /\ ps # <<>> => IF new = <<>> THEN ps = x.props ELSE Last(ps) \in Shows(pl, s)
    BY <1>3, <2>2, <2>3, ListedConcat
  <2>5. /\ y.old = [x.old EXCEPT ![s] = mem[pl][s]] /\ y.props = ps /\ y.over = x.over
        /\ y \in Seen
    <3>1. mem[pl][s] \in 0 .. 1 /\ [x.old EXCEPT ![s] = mem[pl][s]] \in Memory
      BY <1>2, <1>3 DEF Memory
    <3> QED
      BY <1>3, <2>1, <2>2, <2>4, <3>1 DEF Seen
  <2>6. \A w \in Word : s < w => y.old[w] = old[pl][w]
    BY <1>2, <1>3, <1>5, <2>5 DEF LookedAt, Memory
  <2>7. ASSUME SharedAlike, NotedWhole(pl, x)
        PROVE  NotedWhole(pl, y)
    <3> SUFFICES ASSUME ps # <<>>, NEW t \in 1 .. Slots, Last(ps) \in Listed(PropsAt[t])
                 PROVE  Shows(pl, t) \subseteq Listed(ps)
      BY <2>5 DEF NotedWhole
    <3>1. CASE new = <<>>
      BY <2>4, <2>7, <3>1 DEF NotedWhole
    <3>2. CASE new # <<>>
      <4>1. Last(ps) \in Listed(PropsAt[s])
        BY <2>4, <3>2 DEF Shows
      <4>2. Listed(PropsAt[s]) = Listed(PropsAt[t])
        BY <1>2, <2>7, <4>1 DEF SharedAlike
      <4> QED
        BY <2>4, <4>2 DEF Shows
    <3> QED
      BY <3>1, <3>2
  <2> QED
    BY <1>1, <1>6, <1>7, <2>4, <2>5, <2>6, <2>7 DEF LookedAt
<1> QED
  BY <1>8, <1>9, <1>10, <1>11

Searched(pl, f, n) ==
    f = [s \in 0 .. n |-> IF s = 0 THEN [old |-> old[pl], props |-> <<>>, over |-> FALSE]
                          ELSE LookAt(pl, f[s - 1], s)]

\* The search goes through all words.
LEMMA SearchExists ==
  ASSUME NEW pl, NEW n \in Nat
  PROVE  \E f : Searched(pl, f, n)
<1> DEFINE first == [old |-> old[pl], props |-> <<>>, over |-> FALSE]
           T == {k \in Nat : \E f : Searched(pl, f, k)}
<1>1. 0 \in T
  <2>1. Searched(pl, [s \in 0 .. 0 |-> first], 0)
    BY DEF Searched
  <2> QED
    BY <2>1
<1>2. ASSUME NEW k \in Nat, k \in T
      PROVE  k + 1 \in T
  <2>1. PICK f : Searched(pl, f, k)
    BY <1>2
  <2> DEFINE h == [s \in 0 .. k + 1 |->
               IF s \in 0 .. k THEN f[s] ELSE LookAt(pl, f[s - 1], s)]
  <2>2. /\ \A s \in 0 .. k : h[s] = f[s]
        /\ \A s \in 0 .. k + 1 : s # 0 => s - 1 \in 0 .. k
    OBVIOUS
  <2>3. \A s \in 0 .. k : f[s] = IF s = 0 THEN first ELSE LookAt(pl, f[s - 1], s)
    BY <2>1 DEF Searched
  <2> HIDE DEF first
  <2>4. \A s \in 0 .. k + 1 : h[s] = IF s = 0 THEN first ELSE LookAt(pl, h[s - 1], s)
    BY <2>2, <2>3
  <2>5. h = [s \in 0 .. k + 1 |-> h[s]]
    OBVIOUS
  <2> HIDE DEF h
  <2>6. Searched(pl, h, k + 1)
    BY <2>4, <2>5 DEF Searched, first
  <2> QED
    BY <2>6
<1>3. Nat \subseteq T
  <2> HIDE DEF T
  <2> QED
    BY <1>1, <1>2, SetInduction
<1> QED
  BY <1>3

\* What DoEncodePlayer has noted when its first loop is through.
LEMMA SearchIsComplete ==
  ASSUME TypeOK, NEW pl \in Player
  PROVE  LookedAt(pl, Slots, LookAtAll(pl))
<1>1. Slots \in Nat
  BY Layout, FS_CardinalityType
<1>2. LookAtAll(pl) = (CHOOSE f : Searched(pl, f, Slots))[Slots]
  BY DEF LookAtAll, Searched
<1>3. PICK f : f = (CHOOSE g : Searched(pl, g, Slots)) /\ Searched(pl, f, Slots)
  BY <1>1, SearchExists
<1>4. /\ f[0] = [old |-> old[pl], props |-> <<>>, over |-> FALSE]
      /\ \A k \in Nat : k + 1 \in 1 .. Slots => f[k + 1] = LookAt(pl, f[k], k + 1)
  <2>1. /\ 0 \in 0 .. Slots
        /\ \A k \in Nat : k + 1 \in 1 .. Slots => k + 1 \in 0 .. Slots /\ k + 1 # 0 /\ (k + 1) - 1 = k
    BY <1>1
  <2>2. \A s \in 0 .. Slots : f[s] = IF s = 0 THEN [old |-> old[pl], props |-> <<>>, over |-> FALSE]
                                     ELSE LookAt(pl, f[s - 1], s)
    BY <1>3 DEF Searched
  <2> QED
    BY <2>1, <2>2
<1> DEFINE T == {k \in Nat : k <= Slots => LookedAt(pl, k, f[k])}
<1>5. 0 \in T
  <2>1. f[0] \in Seen
    <3>1. old[pl] \in Memory /\ <<>> \in Seq(Prop)
      BY DEF TypeOK
    <3> QED
      BY <1>4, <3>1 DEF Seen
  <2>2. f[0].props = <<>> /\ f[0].old = old[pl] /\ 1 .. 0 = {}
    BY <1>4
  <2>3. LookedAt(pl, 0, f[0])
    BY <2>1, <2>2 DEF LookedAt, NotedWhole
  <2> QED
    BY <2>3
<1>6. ASSUME NEW k \in Nat, k \in T
      PROVE  k + 1 \in T
  <2> SUFFICES ASSUME k + 1 <= Slots
               PROVE  LookedAt(pl, k + 1, f[k + 1])
    OBVIOUS
  <2>1. k <= Slots /\ k + 1 \in 1 .. Slots
    BY <1>1
  <2>2. LookedAt(pl, k, f[k])
    BY <1>6, <2>1
  <2> QED
    BY <1>4, <2>1, <2>2, LookFurther
<1>7. Nat \subseteq T
  <2> HIDE DEF T
  <2> QED
    BY <1>5, <1>6, SetInduction
<1>8. LookedAt(pl, Slots, f[Slots])
  BY <1>1, <1>7
<1> QED
  BY <1>2, <1>3, <1>8

-----------------------------------------------------------------------------
(***************************************************************************)
(* Types.                                                                  *)
(***************************************************************************)

\* What DoEncodePlayer has noted are properties.
LEMMA SearchType ==
  ASSUME TypeOK, NEW pl \in Player
  PROVE  LookAtAll(pl).old \in Memory /\ LookAtAll(pl).props \in Seq(Prop)
BY SearchIsComplete DEF LookedAt, Seen

\* A packet of a memory, and parts of one in another.
LEMMA PackedType ==
  ASSUME NEW m \in Memory
  PROVE  Packed(m) \in Packet
<1>1. ASSUME NEW p \in Prop
      PROVE  [w \in WordsOf[p] |-> m[w]] \in Values
  <2>1. WordsOf[p] \in SUBSET Word
    BY Layout
  <2>2. [w \in WordsOf[p] |-> m[w]] \in [WordsOf[p] -> 0 .. 1]
    BY <2>1 DEF Memory
  <2> QED
    BY <2>1, <2>2 DEF Values
<1> QED
  BY <1>1 DEF Packed, Packet

\* The last of the snapshots.
LEMMA PreviousType ==
  ASSUME TypeOK, NEW pl \in Player, HasPacket(pl)
  PROVE  /\ Previous(pl) \in Packet /\ Len(shots[pl]) \in Nat /\ 1 <= Len(shots[pl])
         /\ Previous(pl) = shots[pl][Len(shots[pl])]
<1>1. shots[pl] \in Seq(Packet) /\ shots[pl] # <<>>
  BY DEF TypeOK, HasPacket
<1>2. Len(shots[pl]) \in Nat /\ Len(shots[pl]) # 0
  BY <1>1, LenProperties, EmptySeq
<1>3. shots[pl][Len(shots[pl])] \in Packet
  BY <1>1, <1>2, ElementOfSeq
<1> QED
  BY <1>2, <1>3 DEF Previous, Last

\* The lists that the mod and the engine make are lists.
LEMMA ListType ==
  ASSUME NEW t \in Nat, NEW b \in BOOLEAN, NEW l \in List, NEW ps \in Seq(Prop)
  PROVE  NewList(t, b) \in List /\ SetChangeTick(l, ps, t) \in List
<1>1. NewList(t, b) \in List
  BY DEF NewList, List
<1>2. l.ticks \in [Prop -> Nat] /\ l.sameTick \in Nat
  BY DEF List
<1>3. [p \in Prop |-> IF p \in Listed(ps) THEN t ELSE l.ticks[p]] \in [Prop -> Nat]
  BY <1>2
<1>4. SetChangeTick(l, ps, t) \in List
  BY <1>2, <1>3 DEF SetChangeTick, List
<1> QED
  BY <1>1, <1>4

\* What the engine does to the list of a player that it encodes.
LEMMA EncodedList ==
  ASSUME TypeOK, NEW pl \in Player, Encode(pl)
  PROVE  /\ list' = [list EXCEPT ![pl] = list'[pl]]
         /\ list'[pl] \in List
         /\ ~HasPacket(pl) => list'[pl] = NewList(tick, enabled)
         /\ HasPacket(pl) => \E ps \in Seq(Prop) :
              /\ Listed(ps) = {p \in Prop : Packed(mem[pl])[p] # Previous(pl)[p]}
              /\ \/ Listed(ps) = {} /\ list'[pl] = list[pl]
                 \/ list'[pl] = SetChangeTick(list[pl], ps, tick)
<1> DEFINE diff == {p \in Prop : Packed(mem[pl])[p] # Previous(pl)[p]}
<1>1. PICK ps : ps = Sorted([p \in diff |-> p])
  OBVIOUS
<1>2. ps \in Seq(Prop) /\ Listed(ps) = diff
  BY <1>1, SortedSet
<1>3. list' = [list EXCEPT ![pl] = IF ~HasPacket(pl) THEN NewList(tick, enabled)
                                   ELSE IF diff = {} THEN list[pl]
                                   ELSE SetChangeTick(list[pl], ps, tick)]
  BY <1>1 DEF Encode
<1> HIDE DEF diff
<1>4. /\ list'[pl] = IF ~HasPacket(pl) THEN NewList(tick, enabled)
                     ELSE IF diff = {} THEN list[pl]
                     ELSE SetChangeTick(list[pl], ps, tick)
      /\ list' = [list EXCEPT ![pl] = list'[pl]]
  BY <1>3 DEF TypeOK
<1>5. list[pl] \in List /\ tick \in Nat /\ enabled \in BOOLEAN
  BY DEF TypeOK
<1>6. list'[pl] \in List
  BY <1>2, <1>4, <1>5, ListType
<1> QED
  BY <1>2, <1>4, <1>6 DEF diff

\* The engine's encoding keeps the types.
LEMMA EncodeTypes ==
  ASSUME TypeOK, NEW pl \in Player, Encode(pl)
  PROVE  /\ shots' \in [Player -> Seq(Packet)] /\ list' \in [Player -> List]
         /\ changed' \in SUBSET Player /\ sent' \in [Player -> Memory]
         /\ doubt' \in [Player -> SUBSET Prop] /\ astray' \in SUBSET Player
<1>1. mem[pl] \in Memory /\ shots[pl] \in Seq(Packet)
  BY DEF TypeOK
<1>2. Append(shots[pl], Packed(mem[pl])) \in Seq(Packet)
  BY <1>1, PackedType, OneMore
<1>3. shots' = [shots EXCEPT ![pl] = Append(shots[pl], Packed(mem[pl]))]
  BY DEF Encode
<1>4. shots' \in [Player -> Seq(Packet)]
  BY <1>2, <1>3 DEF TypeOK
<1>5. list' \in [Player -> List]
  BY EncodedList DEF TypeOK
<1> QED
  BY <1>1, <1>4, <1>5 DEF Encode, TypeOK

\* So does the writing of some properties.
LEMMA WriteTypes ==
  ASSUME TypeOK, NEW pl \in Player, HasPacket(pl), NEW ps \in Seq(Prop), WriteChanged(pl, ps)
  PROVE  /\ shots' \in [Player -> Seq(Packet)] /\ list' \in [Player -> List]
         /\ changed' \in SUBSET Player /\ sent' \in [Player -> Memory]
         /\ doubt' \in [Player -> SUBSET Prop] /\ astray' \in SUBSET Player
         /\ [p \in Prop |-> IF p \in Listed(ps) THEN Packed(mem[pl])[p] ELSE Previous(pl)[p]]
              \in Packet
<1> DEFINE packet ==
      [p \in Prop |-> IF p \in Listed(ps) THEN Packed(mem[pl])[p] ELSE Previous(pl)[p]]
<1>1. mem[pl] \in Memory /\ shots[pl] \in Seq(Packet) /\ list[pl] \in List /\ tick \in Nat
  BY DEF TypeOK
<1>2. packet \in Packet
  BY <1>1, PackedType, PreviousType DEF Packet
<1>3. shots' = [shots EXCEPT ![pl] = Append(shots[pl], packet)]
  BY DEF WriteChanged
<1> HIDE DEF packet
<1>4. Append(shots[pl], packet) \in Seq(Packet)
  BY <1>1, <1>2, OneMore
<1>5. shots' \in [Player -> Seq(Packet)]
  BY <1>3, <1>4 DEF TypeOK
<1>6. SetChangeTick(list[pl], Sorted(ps), tick) \in List
  BY <1>1, SortedSequence, ListType
<1>7. list' \in [Player -> List]
  BY <1>6 DEF WriteChanged, TypeOK
<1>8. (doubt[pl] \ Listed(ps)) \cup Behind(pl, ps) \in SUBSET Prop
  BY DEF Behind, TypeOK
<1>9. /\ changed' \in SUBSET Player /\ sent' \in [Player -> Memory]
      /\ doubt' \in [Player -> SUBSET Prop] /\ astray' \in SUBSET Player
  BY <1>1, <1>8 DEF WriteChanged, TypeOK
<1> QED
  BY <1>2, <1>5, <1>7, <1>9 DEF packet

\* The ways in which the mod or the engine can go for a player.
Stay(pl) ==
    /\ pl \in astray
    /\ UNCHANGED <<firsttime, changed, force, old, offs, list, shots, sent, ownOffs, doubt, astray>>
Sent(pl) == pl \notin astray /\ pl \notin changed /\ HasPacket(pl) /\ Reuse(pl)
Plain(pl) ==
    /\ ~enabled /\ pl \notin astray /\ (pl \in changed \/ ~HasPacket(pl)) /\ Encode(pl)
    /\ ownOffs' = ownOffs \ {pl}
    /\ UNCHANGED <<firsttime, force, old, offs>>
Whole(pl) ==
    /\ enabled /\ pl \notin astray /\ EncodeAll(pl)
    /\ old' = [old EXCEPT ![pl] = LookAtAll(pl).old]
    /\ force' \in {force, force \ {pl}}
Written(pl) ==
    LET ps == LookAtAll(pl).props IN
    /\ enabled /\ pl \notin astray /\ pl \in changed /\ pl \notin force /\ HasPacket(pl)
    /\ ~LookAtAll(pl).over
    /\ Found(pl, ps) /\ Fits(pl, ps) /\ WriteChanged(pl, ps)
    /\ old' = [old EXCEPT ![pl] = LookAtAll(pl).old]
    /\ force' = force \ {pl}
Lost(pl) ==
    /\ enabled /\ pl \notin astray /\ ~Found(pl, LookAtAll(pl).props)
    /\ old' = [old EXCEPT ![pl] = LookAtAll(pl).old]
    /\ force' \in {force, force \ {pl}} /\ astray' = astray \cup {pl}
    /\ UNCHANGED <<firsttime, changed, offs, list, shots, sent, ownOffs, doubt>>

\* Packing a player is one of them.
LEMMA PackWays ==
  ASSUME NEW pl, Pack(pl)
  PROVE  /\ pl \in toPack /\ toPack' = toPack \ {pl}
         /\ UNCHANGED <<enabled, bots, tick, switches, mem>>
         /\ Stay(pl) \/ Sent(pl) \/ Plain(pl) \/ Whole(pl) \/ Written(pl) \/ Lost(pl)
<1>1. /\ pl \in toPack /\ toPack' = toPack \ {pl}
      /\ UNCHANGED <<enabled, bots, tick, switches, mem>>
  BY DEF Pack
<1>2. \/ Stay(pl) \/ Sent(pl) \/ Plain(pl)
      \/ enabled /\ pl \notin astray /\ DoEncodePlayer(pl)
  BY DEF Pack, Stay, Sent, Plain
<1>3. ASSUME enabled, pl \notin astray, DoEncodePlayer(pl)
      PROVE  Whole(pl) \/ Written(pl) \/ Lost(pl)
  <2> DEFINE seen == LookAtAll(pl)
             ps == seen.props
             may == ~seen.over /\ ~firsttime /\ pl \in changed /\ pl \notin force /\ HasPacket(pl)
  <2>1. /\ old' = [old EXCEPT ![pl] = seen.old]
        /\ force' = IF seen.over \/ firsttime THEN force ELSE force \ {pl}
        /\ \/ may /\ Found(pl, ps) /\ Fits(pl, ps) /\ WriteChanged(pl, ps)
           \/ EncodeAll(pl)
           \/ may /\ ~Found(pl, ps) /\ astray' = astray \cup {pl}
              /\ UNCHANGED <<firsttime, changed, offs, list, shots, sent, ownOffs, doubt>>
    BY <1>3 DEF DoEncodePlayer
  <2>2. CASE may /\ Found(pl, ps) /\ Fits(pl, ps) /\ WriteChanged(pl, ps)
    BY <1>3, <2>1, <2>2 DEF Written
  <2>3. CASE EncodeAll(pl)
    BY <1>3, <2>1, <2>3 DEF Whole
  <2>4. CASE may /\ ~Found(pl, ps) /\ astray' = astray \cup {pl}
             /\ UNCHANGED <<firsttime, changed, offs, list, shots, sent, ownOffs, doubt>>
    BY <1>3, <2>1, <2>4 DEF Lost
  <2> QED
    BY <2>1, <2>2, <2>3, <2>4
<1> QED
  BY <1>1, <1>2, <1>3

\* Packing keeps the types.
LEMMA PackTypes ==
  ASSUME TypeOK, NEW pl \in Player, Pack(pl)
  PROVE  TypeOK'
<1>1. /\ enabled' \in BOOLEAN /\ bots' \in SUBSET Player /\ tick' \in Nat
      /\ toPack' \in SUBSET Player /\ mem' \in [Player -> Memory]
  BY PackWays DEF TypeOK
<1>2. [old EXCEPT ![pl] = LookAtAll(pl).old] \in [Player -> Memory]
  BY SearchType DEF TypeOK
<1>3. CASE Stay(pl)
  BY <1>1, <1>3 DEF TypeOK, Stay
<1>4. CASE Sent(pl)
  <2>1. Append(shots[pl], Previous(pl)) \in Seq(Packet)
    BY <1>4, PreviousType, OneMore DEF TypeOK, Sent
  <2>2. shots' \in [Player -> Seq(Packet)]
    BY <1>4, <2>1 DEF TypeOK, Sent, Reuse
  <2> QED
    BY <1>1, <1>4, <2>2 DEF TypeOK, Sent, Reuse
<1>5. CASE Plain(pl)
  <2>1. Encode(pl)
    BY <1>5 DEF Plain
  <2> QED
    BY <1>1, <1>5, <2>1, EncodeTypes DEF TypeOK, Plain
<1>6. CASE Whole(pl)
  <2>1. Encode(pl) /\ DOMAIN offs' = DOMAIN offs /\ firsttime' = FALSE /\ ownOffs' = ownOffs \cup {pl}
    BY <1>6 DEF Whole, EncodeAll
  <2> QED
    BY <1>1, <1>2, <1>6, <2>1, EncodeTypes DEF TypeOK, Whole
<1>7. CASE Written(pl)
  <2>1. PICK ps \in Seq(Prop) : HasPacket(pl) /\ WriteChanged(pl, ps)
    BY <1>7, SearchType DEF Written
  <2>2. UNCHANGED <<firsttime, offs, ownOffs>>
    BY <2>1 DEF WriteChanged
  <2> QED
    BY <1>1, <1>2, <1>7, <2>1, <2>2, WriteTypes DEF TypeOK, Written
<1>8. CASE Lost(pl)
  BY <1>1, <1>2, <1>8 DEF TypeOK, Lost
<1> QED
  BY <1>3, <1>4, <1>5, <1>6, <1>7, <1>8, PackWays

\* Every step does.
LEMMA TypesStep ==
  ASSUME TypeOK, [Next]_vars
  PROVE  TypeOK'
<1>1. CASE RunFrame
  BY <1>1 DEF RunFrame, TypeOK, Memory
<1>2. CASE Switch
  BY <1>2 DEF Switch, TypeOK, playerVars
<1>3. CASE Unload
  <2>1. NewList(tick, FALSE) \in List
    BY DEF NewList, List, TypeOK
  <2> QED
    BY <1>3, <2>1 DEF Unload, TypeOK
<1>4. ASSUME NEW pl \in Player, Pack(pl)
      PROVE  TypeOK'
  BY <1>4, PackTypes
<1>5. ASSUME NEW pl \in Player, Reconnect(pl)
      PROVE  TypeOK'
  <2>1. Zero \in Memory /\ <<>> \in Seq(Packet)
    BY DEF Zero, Memory
  <2> QED
    BY <1>5, <2>1 DEF Reconnect, TypeOK
<1>6. CASE UNCHANGED vars
  BY <1>6 DEF vars, playerVars, TypeOK
<1> QED
  BY <1>1, <1>2, <1>3, <1>4, <1>5, <1>6 DEF Next

\* Every variable keeps to its type.
THEOREM TypesStay == Spec => []TypeOK
<1>1. Init => TypeOK
  <2> SUFFICES ASSUME Init
               PROVE  TypeOK
    OBVIOUS
  <2>1. Zero \in Memory /\ <<>> \in Seq(Packet) /\ NewList(0, FALSE) \in List
    BY DEF Zero, Memory, NewList, List
  <2> QED
    BY <2>1 DEF Init, TypeOK
<1> QED
  BY <1>1, TypesStep, PTL DEF Spec

-----------------------------------------------------------------------------
(***************************************************************************)
(* Offsets.                                                                *)
(***************************************************************************)

\* A player whose offsets are the mod's has a packet.
OffsetsInv == OffsetsFit /\ \A pl \in ownOffs : HasPacket(pl)

\* Where no value changed its length, the offsets are the same.
LEMMA SameOffsets ==
  ASSUME NEW a, NEW b, \A p \in Prop : Width(p, a[p]) = Width(p, b[p])
  PROVE  Offsets(a) = Offsets(b)
<1>1. Lengths(a) = Lengths(b)
  BY DEF Lengths
<1> QED
  BY <1>1 DEF Offsets

\* Packing a player.  Where the offsets are the mod's, no property is looked for at a
\* wrong one.
LEMMA PackKeepsOffsets ==
  ASSUME TypeOK, OffsetsInv, NEW pl \in Player, Pack(pl)
  PROVE  OffsetsInv'
<1> SUFFICES ASSUME NEW q \in ownOffs'
             PROVE  q \notin astray' /\ HasPacket(q)' /\ offs'[q] = Offsets(Previous(q)')
  BY DEF OffsetsInv, OffsetsFit
<1>1. q \in ownOffs => /\ q \in Player /\ q \notin astray /\ HasPacket(q)
                       /\ offs[q] = Offsets(Previous(q))
  BY DEF OffsetsInv, OffsetsFit, TypeOK
<1>2. shots[pl] \in Seq(Packet) /\ mem[pl] \in Memory
  BY DEF TypeOK
<1>3. CASE Stay(pl)
  BY <1>1, <1>3 DEF Stay, HasPacket, Previous
<1>4. CASE Sent(pl)
  <2>1. /\ ownOffs' = ownOffs /\ astray' = astray /\ offs' = offs
        /\ shots' = [shots EXCEPT ![pl] = Append(shots[pl], Previous(pl))]
    BY <1>4 DEF Sent, Reuse
  <2>2. CASE q = pl
    <3>1. shots'[pl] = Append(shots[pl], Previous(pl))
      BY <2>1 DEF TypeOK
    <3>2. shots'[pl] # <<>> /\ Last(shots'[pl]) = Previous(pl)
      BY <1>2, <1>4, <3>1, PreviousType, OneMore DEF Sent
    <3> QED
      BY <1>1, <2>1, <2>2, <3>2 DEF HasPacket, Previous
  <2>3. CASE q # pl
    <3>1. shots'[q] = shots[q]
      BY <1>1, <2>1, <2>3 DEF TypeOK
    <3> QED
      BY <1>1, <2>1, <3>1 DEF HasPacket, Previous
  <2> QED
    BY <2>2, <2>3
<1>5. CASE Plain(pl)
  <2>1. /\ q \in ownOffs /\ q # pl /\ astray' = astray /\ offs' = offs
        /\ shots' = [shots EXCEPT ![pl] = Append(shots[pl], Packed(mem[pl]))]
    BY <1>5 DEF Plain, Encode
  <2>2. shots'[q] = shots[q]
    BY <1>1, <2>1 DEF TypeOK
  <2> QED
    BY <1>1, <2>1, <2>2 DEF HasPacket, Previous
<1>6. CASE Whole(pl)
  <2>1. /\ ownOffs' = ownOffs \cup {pl} /\ astray' = astray /\ pl \notin astray
        /\ offs' = [offs EXCEPT ![pl] = Offsets(Packed(mem[pl]))]
        /\ shots' = [shots EXCEPT ![pl] = Append(shots[pl], Packed(mem[pl]))]
    BY <1>6 DEF Whole, EncodeAll, Encode
  <2>2. CASE q = pl
    <3>1. shots'[pl] = Append(shots[pl], Packed(mem[pl])) /\ offs'[pl] = Offsets(Packed(mem[pl]))
      BY <2>1 DEF TypeOK
    <3>2. shots'[pl] # <<>> /\ Last(shots'[pl]) = Packed(mem[pl])
      BY <1>2, <3>1, PackedType, OneMore
    <3> QED
      BY <2>1, <2>2, <3>1, <3>2 DEF HasPacket, Previous
  <2>3. CASE q # pl
    <3>1. q \in ownOffs /\ shots'[q] = shots[q] /\ offs'[q] = offs[q]
      BY <1>1, <2>1, <2>3 DEF TypeOK
    <3> QED
      BY <1>1, <2>1, <3>1 DEF HasPacket, Previous
  <2> QED
    BY <2>2, <2>3
<1>7. CASE Written(pl)
  <2>1. PICK ps, packet :
          /\ ps = LookAtAll(pl).props /\ ps \in Seq(Prop)
          /\ packet = [p \in Prop |-> IF p \in Listed(ps) THEN Packed(mem[pl])[p] ELSE Previous(pl)[p]]
    BY SearchType
  <2>2. /\ HasPacket(pl) /\ Fits(pl, ps) /\ WriteChanged(pl, ps)
        /\ ownOffs' = ownOffs /\ astray' = astray /\ offs' = offs
        /\ shots' = [shots EXCEPT ![pl] = Append(shots[pl], packet)]
    BY <1>7, <2>1 DEF Written, WriteChanged
  <2>3. CASE q = pl
    <3>1. shots'[pl] = Append(shots[pl], packet) /\ packet \in Packet
      BY <2>1, <2>2, WriteTypes DEF TypeOK
    <3>2. shots'[pl] # <<>> /\ Last(shots'[pl]) = packet
      BY <1>2, <3>1, OneMore
    <3>3. \A p \in Prop : Width(p, packet[p]) = Width(p, Previous(pl)[p])
      BY <2>1, <2>2 DEF Fits
    <3>4. Offsets(packet) = Offsets(Previous(pl))
      BY <3>3, SameOffsets
    <3> QED
      BY <1>1, <2>2, <2>3, <3>2, <3>4 DEF HasPacket, Previous
  <2>4. CASE q # pl
    <3>1. shots'[q] = shots[q]
      BY <1>1, <2>2, <2>4 DEF TypeOK
    <3> QED
      BY <1>1, <2>2, <3>1 DEF HasPacket, Previous
  <2> QED
    BY <2>3, <2>4
<1>8. CASE Lost(pl)
  <2>1. UNCHANGED <<ownOffs, offs, shots>> /\ astray' = astray \cup {pl}
    BY <1>8 DEF Lost
  <2>2. q # pl
    <3>1. SUFFICES ASSUME q = pl
                   PROVE  FALSE
      OBVIOUS
    <3>2. offs[pl] = Offsets(Previous(pl))
      BY <1>1, <2>1, <3>1
    <3> QED
      BY <1>8, <3>2 DEF Lost, Found
  <2> QED
    BY <1>1, <2>1, <2>2 DEF HasPacket, Previous
<1> QED
  BY <1>3, <1>4, <1>5, <1>6, <1>7, <1>8, PackWays

LEMMA OffsetsStep ==
  ASSUME TypeOK, OffsetsInv, [Next]_vars
  PROVE  OffsetsInv'
<1>1. CASE RunFrame \/ Switch \/ Unload \/ UNCHANGED vars
  <2>1. UNCHANGED <<ownOffs, offs, shots, astray>>
    BY <1>1 DEF RunFrame, Switch, Unload, vars, playerVars
  <2> QED
    BY <2>1 DEF OffsetsInv, OffsetsFit, HasPacket, Previous
<1>2. ASSUME NEW pl \in Player, Pack(pl)
      PROVE  OffsetsInv'
  BY <1>2, PackKeepsOffsets
<1>3. ASSUME NEW pl \in Player, Reconnect(pl)
      PROVE  OffsetsInv'
  <2>1. /\ ownOffs' = ownOffs \ {pl} /\ astray' = astray /\ offs' = offs
        /\ \A q \in ownOffs' : shots'[q] = shots[q]
    BY <1>3 DEF Reconnect, TypeOK
  <2> QED
    BY <2>1 DEF OffsetsInv, OffsetsFit, HasPacket, Previous
<1> QED
  BY <1>1, <1>2, <1>3 DEF Next

\* A packet that goes back to an encoding of everything under the mod is written at the
\* right offsets, whatever the packets in between left out.
THEOREM OffsetsAlwaysFit == Spec => []OffsetsFit
<1>1. Init => OffsetsInv
  BY DEF Init, OffsetsInv, OffsetsFit
<1>2. OffsetsInv => OffsetsFit
  BY DEF OffsetsInv
<1> QED
  BY <1>1, <1>2, OffsetsStep, TypesStep, TypesStay, PTL DEF Spec

-----------------------------------------------------------------------------
(***************************************************************************)
(* Deltas.                                                                 *)
(***************************************************************************)

\* Two snapshots that differ in p: p is in the list with a later tick than the first has.
Covers(l, s, base) ==
    \A i, j \in 1 .. Len(s) : i < j =>
      \A p \in Prop : s[i][p] # s[j][p] => base + i < l.ticks[p]

\* The list l is good for the snapshots s, the last of which was taken at the tick t; only
\* a list of the engine's, which looks at all properties, may be younger than the first.
Told(l, s, t) ==
    /\ \E c \in Nat :
         /\ Good(l, c) /\ c <= t /\ l.lastTick <= t
         /\ l.cached => c + Len(s) <= t + 1
    /\ Covers(l, s, t - Len(s))

\* A snapshot more, with what changed put in the list.
LEMMA ToldMore ==
  ASSUME NEW l, NEW s \in Seq(Packet), s # <<>>, NEW t \in Int, Told(l, s, t),
         NEW packet \in Packet, NEW m, NEW ps \in Seq(Prop),
         \A p \in Prop : packet[p] # Last(s)[p] => p \in Listed(ps),
         (m = l /\ Listed(ps) = {}) \/ m = SetChangeTick(l, ps, t + 1)
  PROVE  Told(m, Append(s, packet), t + 1)
<1>1. PICK c \in Nat : /\ Good(l, c) /\ c <= t /\ l.lastTick <= t
                       /\ l.cached => c + Len(s) <= t + 1
  BY DEF Told
<1>2. PICK n \in Nat : n = Len(s) /\ n # 0
  BY LenProperties, EmptySeq
<1>3. PICK new : new = Append(s, packet)
  OBVIOUS
<1>4. /\ Len(new) = n + 1 /\ new[n + 1] = packet /\ \A i \in 1 .. n : new[i] = s[i]
      /\ Last(s) = s[n]
  BY <1>2, <1>3, OneMore DEF Last
<1>5. /\ l \in List /\ l.lastTick \in Nat /\ \A p \in Prop : l.ticks[p] \in Nat
  BY <1>1, Fields DEF Good
<1>6. t + 1 \in Nat /\ c < t + 1 /\ l.lastTick < t + 1
  BY <1>1, <1>5
<1>7. /\ Good(m, c) /\ m.lastTick <= t + 1 /\ m.cached = l.cached
      /\ \A p \in Prop : m.ticks[p] = IF p \in Listed(ps) THEN t + 1 ELSE l.ticks[p]
  <2>1. CASE m = l /\ Listed(ps) = {}
    BY <1>1, <1>6, <2>1, <1>5
  <2>2. CASE m = SetChangeTick(l, ps, t + 1)
    <3>1. Good(m, c)
      BY <1>1, <1>6, <2>2, ChangeKeepsGood
    <3>2. /\ m.ticks = [p \in Prop |-> IF p \in Listed(ps) THEN t + 1 ELSE l.ticks[p]]
          /\ m.lastTick = t + 1 /\ m.cached = l.cached
      BY <1>5, <2>2 DEF SetChangeTick, List
    <3> QED
      BY <1>6, <3>1, <3>2
  <2> QED
    BY <2>1, <2>2
<1>8. m.cached => c + Len(new) <= (t + 1) + 1
  BY <1>1, <1>2, <1>4, <1>7
<1>9. ASSUME NEW i \in 1 .. n + 1, NEW j \in 1 .. n + 1, i < j, NEW p \in Prop,
             new[i][p] # new[j][p]
      PROVE  (t - n) + i < m.ticks[p]
  <2>1. i \in 1 .. n /\ new[i] = s[i]
    BY <1>4, <1>9
  <2>2. CASE p \in Listed(ps)
    BY <1>7, <2>1, <2>2
  <2>3. CASE p \notin Listed(ps)
    <3>1. packet[p] = s[n][p]
      BY <1>4, <2>3
    <3>2. PICK k \in 1 .. n : i < k /\ s[i][p] # s[k][p]
      <4>1. CASE j = n + 1
        <5>1. s[i][p] # s[n][p] /\ i # n
          BY <1>4, <1>9, <2>1, <3>1, <4>1
        <5>2. n \in 1 .. n /\ i < n
          BY <1>2, <2>1, <5>1
        <5> QED
          BY <5>1, <5>2
      <4>2. CASE j # n + 1
        <5>1. j \in 1 .. n
          BY <4>2
        <5> QED
          BY <1>4, <1>9, <2>1, <5>1
      <4> QED
        BY <4>1, <4>2
    <3>3. (t - n) + i < l.ticks[p]
      BY <1>2, <2>1, <3>2 DEF Told, Covers
    <3> QED
      BY <1>7, <2>3, <3>3
  <2> QED
    BY <2>2, <2>3
<1>10. (t + 1) - Len(new) = t - n
  BY <1>4
<1>11. Covers(m, new, (t + 1) - Len(new))
  BY <1>4, <1>9, <1>10 DEF Covers
<1> QED
  BY <1>3, <1>1, <1>6, <1>7, <1>8, <1>11 DEF Told

\* The tick of the last snapshot that a player may be in.
LastTick(pl) == IF pl \in toPack THEN tick - 1 ELSE tick

DeltaInv ==
    \A pl \in Player \ astray : HasPacket(pl) => Told(list[pl], shots[pl], LastTick(pl))

\* Packing a player.
LEMMA PackKeepsDeltas ==
  ASSUME TypeOK, DeltaInv, NEW pl \in Player, Pack(pl)
  PROVE  DeltaInv'
<1> SUFFICES ASSUME NEW q \in Player \ astray', HasPacket(q)'
             PROVE  Told(list'[q], shots'[q], LastTick(q)')
  BY DEF DeltaInv
<1>1. pl \in toPack /\ toPack' = toPack \ {pl} /\ tick' = tick /\ tick \in Nat
  BY PackWays DEF TypeOK
<1>2. q # pl => LastTick(q)' = LastTick(q)
  BY <1>1 DEF LastTick
<1>3. LastTick(pl)' = tick /\ LastTick(pl) = tick - 1 /\ (tick - 1) + 1 = tick /\ tick - 1 \in Int
  BY <1>1 DEF LastTick
<1>4. shots[pl] \in Seq(Packet) /\ mem[pl] \in Memory
  BY DEF TypeOK
<1>5. ASSUME q \notin astray, shots'[q] = shots[q], list'[q] = list[q], q # pl
      PROVE  Told(list'[q], shots'[q], LastTick(q)')
  <2>1. HasPacket(q)
    BY <1>5 DEF HasPacket
  <2> QED
    BY <1>2, <1>5, <2>1 DEF DeltaInv
<1>6. HasPacket(pl) /\ pl \notin astray => Told(list[pl], shots[pl], tick - 1)
  BY <1>3 DEF DeltaInv
<1>7. ASSUME Encode(pl), pl \notin astray
      PROVE  Told(list'[q], shots'[q], LastTick(q)')
  <2>1. /\ astray' = astray
        /\ shots' = [shots EXCEPT ![pl] = Append(shots[pl], Packed(mem[pl]))]
    BY <1>7 DEF Encode
  <2>2. CASE q # pl
    <3>1. shots'[q] = shots[q] /\ list'[q] = list[q]
      BY <1>7, <2>1, <2>2, EncodedList DEF TypeOK
    <3> QED
      BY <1>5, <2>1, <2>2, <3>1
  <2>3. CASE q = pl /\ ~HasPacket(pl)
    <3>1. list'[pl] = NewList(tick, enabled)
      BY <1>7, <2>3, EncodedList
    <3>2. shots[pl] = <<>>
      BY <2>3 DEF HasPacket
    <3>3. shots'[pl] = Append(shots[pl], Packed(mem[pl])) /\ Len(shots[pl]) = 0
      BY <2>1, <3>2 DEF TypeOK
    <3>4. Len(shots'[pl]) = 1
      BY <1>4, <3>3, PackedType, OneMore
    <3>5. Good(list'[pl], tick)
      BY <1>1, <3>1, NewIsGood DEF TypeOK
    <3>6. list'[pl].lastTick = 0
      BY <3>1 DEF NewList
    <3>7. Covers(list'[pl], shots'[pl], tick - 1)
      BY <3>4 DEF Covers
    <3>8. tick + Len(shots'[pl]) <= tick + 1 /\ 0 <= tick /\ tick <= tick
      BY <1>1, <3>4
    <3> QED
      BY <1>1, <1>3, <2>3, <3>4, <3>5, <3>6, <3>7, <3>8 DEF Told
  <2>4. CASE q = pl /\ HasPacket(pl)
    <3>1. PICK ps \in Seq(Prop) :
            /\ Listed(ps) = {p \in Prop : Packed(mem[pl])[p] # Previous(pl)[p]}
            /\ \/ Listed(ps) = {} /\ list'[pl] = list[pl]
               \/ list'[pl] = SetChangeTick(list[pl], ps, tick)
      BY <1>7, <2>4, EncodedList
    <3>2. shots'[pl] = Append(shots[pl], Packed(mem[pl]))
      BY <2>1 DEF TypeOK
    <3>3. Packed(mem[pl]) \in Packet
      BY <1>4, PackedType
    <3>4. \A p \in Prop : Packed(mem[pl])[p] # Last(shots[pl])[p] => p \in Listed(ps)
      BY <3>1 DEF Previous
    <3>5. Told(list[pl], shots[pl], tick - 1) /\ shots[pl] # <<>>
      BY <1>6, <1>7, <2>4 DEF HasPacket
    <3>6. \/ list'[pl] = list[pl] /\ Listed(ps) = {}
          \/ list'[pl] = SetChangeTick(list[pl], ps, (tick - 1) + 1)
      BY <1>3, <3>1
    <3>7. Told(list'[pl], Append(shots[pl], Packed(mem[pl])), (tick - 1) + 1)
      BY <1>3, <1>4, <3>3, <3>4, <3>5, <3>6, ToldMore
    <3> QED
      BY <1>3, <2>4, <3>2, <3>7
  <2> QED
    BY <2>2, <2>3, <2>4
<1>8. CASE Stay(pl)
  <2>1. UNCHANGED <<list, shots, astray>> /\ q # pl
    BY <1>8 DEF Stay
  <2> QED
    BY <1>5, <2>1
<1>9. CASE Sent(pl)
  <2>1. /\ astray' = astray /\ list' = list /\ pl \notin astray /\ HasPacket(pl)
        /\ shots' = [shots EXCEPT ![pl] = Append(shots[pl], Previous(pl))]
    BY <1>9 DEF Sent, Reuse
  <2>2. CASE q # pl
    <3>1. shots'[q] = shots[q]
      BY <2>1, <2>2 DEF TypeOK
    <3> QED
      BY <1>5, <2>1, <2>2, <3>1
  <2>3. CASE q = pl
    <3>1. shots'[pl] = Append(shots[pl], Previous(pl))
      BY <2>1 DEF TypeOK
    <3>2. Told(list[pl], shots[pl], tick - 1) /\ shots[pl] # <<>> /\ Previous(pl) \in Packet
      BY <1>6, <2>1, PreviousType DEF HasPacket
    <3>3. <<>> \in Seq(Prop) /\ Listed(<<>>) = {}
      BY DEF Listed
    <3>4. \A p \in Prop : Previous(pl)[p] # Last(shots[pl])[p] => p \in Listed(<<>>)
      BY DEF Previous
    <3>5. Told(list[pl], Append(shots[pl], Previous(pl)), (tick - 1) + 1)
      BY <1>3, <1>4, <3>2, <3>3, <3>4, ToldMore
    <3> QED
      BY <1>3, <2>1, <2>3, <3>1, <3>5
  <2> QED
    BY <2>2, <2>3
<1>10. CASE Plain(pl)
  BY <1>7, <1>10 DEF Plain
<1>11. CASE Whole(pl)
  BY <1>7, <1>11 DEF Whole, EncodeAll
<1>12. CASE Written(pl)
  <2>1. PICK ps, packet :
          /\ ps = LookAtAll(pl).props /\ ps \in Seq(Prop)
          /\ packet = [p \in Prop |-> IF p \in Listed(ps) THEN Packed(mem[pl])[p] ELSE Previous(pl)[p]]
    BY SearchType
  <2>2. /\ HasPacket(pl) /\ WriteChanged(pl, ps) /\ pl \notin astray /\ astray' = astray
        /\ shots' = [shots EXCEPT ![pl] = Append(shots[pl], packet)]
        /\ list' = [list EXCEPT ![pl] = SetChangeTick(list[pl], Sorted(ps), tick)]
    BY <1>12, <2>1 DEF Written, WriteChanged
  <2>3. CASE q # pl
    <3>1. shots'[q] = shots[q] /\ list'[q] = list[q]
      BY <2>2, <2>3 DEF TypeOK
    <3> QED
      BY <1>5, <2>2, <2>3, <3>1
  <2>4. CASE q = pl
    <3>1. /\ shots'[pl] = Append(shots[pl], packet) /\ packet \in Packet
          /\ list'[pl] = SetChangeTick(list[pl], Sorted(ps), (tick - 1) + 1)
      <4>1. packet \in Packet
        BY <2>1, <2>2, WriteTypes
      <4>2. /\ shots'[pl] = Append(shots[pl], packet)
            /\ list'[pl] = SetChangeTick(list[pl], Sorted(ps), tick)
        BY <2>2 DEF TypeOK
      <4> QED
        BY <1>3, <4>1, <4>2
    <3>2. Told(list[pl], shots[pl], tick - 1) /\ shots[pl] # <<>>
      BY <1>6, <2>2 DEF HasPacket
    <3>3. Sorted(ps) \in Seq(Prop) /\ Listed(Sorted(ps)) = Listed(ps)
      BY <2>1, SortedSequence
    <3>4. \A p \in Prop : packet[p] # Last(shots[pl])[p] => p \in Listed(Sorted(ps))
      BY <2>1, <3>3 DEF Previous
    <3>5. Told(list'[pl], Append(shots[pl], packet), (tick - 1) + 1)
      BY <1>3, <1>4, <3>1, <3>2, <3>3, <3>4, ToldMore
    <3> QED
      BY <1>3, <2>4, <3>1, <3>5
  <2> QED
    BY <2>3, <2>4
<1>13. CASE Lost(pl)
  <2>1. UNCHANGED <<list, shots>> /\ astray' = astray \cup {pl}
    BY <1>13 DEF Lost
  <2> QED
    BY <1>5, <2>1
<1> QED
  BY <1>8, <1>9, <1>10, <1>11, <1>12, <1>13, PackWays

LEMMA DeltaStep ==
  ASSUME TypeOK, DeltaInv, [Next]_vars
  PROVE  DeltaInv'
<1>1. CASE RunFrame
  <2>1. toPack = {} /\ toPack' = Player /\ tick' = tick + 1 /\ UNCHANGED <<list, shots, astray>>
    BY <1>1 DEF RunFrame
  <2>2. \A pl \in Player : LastTick(pl)' = LastTick(pl)
    BY <2>1 DEF LastTick, TypeOK
  <2> QED
    BY <2>1, <2>2 DEF DeltaInv, HasPacket
<1>2. CASE Switch \/ UNCHANGED vars
  <2>1. UNCHANGED <<toPack, tick, list, shots, astray>>
    BY <1>2 DEF Switch, vars, playerVars
  <2> QED
    BY <2>1 DEF DeltaInv, HasPacket, LastTick
<1>3. CASE Unload
  <2> SUFFICES ASSUME NEW pl \in Player \ astray', HasPacket(pl)'
               PROVE  Told(list'[pl], shots'[pl], LastTick(pl)')
    BY DEF DeltaInv
  <2>1. /\ toPack' = {} /\ UNCHANGED <<tick, shots, astray>>
        /\ list' = [q \in Player |-> NewList(tick, FALSE)]
    BY <1>3 DEF Unload
  <2>2. list'[pl] = NewList(tick, FALSE) /\ tick \in Nat /\ LastTick(pl)' = tick
    BY <2>1 DEF LastTick, TypeOK
  <2>3. PICK n \in Nat : n = Len(shots'[pl])
    BY <2>1, LenProperties DEF TypeOK
  <2>4. Good(list'[pl], tick)
    BY <2>2, NewIsGood
  <2>5. /\ list'[pl].lastTick = 0 /\ ~list'[pl].cached
        /\ \A p \in Prop : list'[pl].ticks[p] = tick
    BY <2>2 DEF NewList
  <2>6. \A i, j \in 1 .. n : i < j => (tick - n) + i < tick
    BY <2>2
  <2>7. Covers(list'[pl], shots'[pl], tick - n)
    BY <2>3, <2>5, <2>6 DEF Covers
  <2>8. 0 <= tick /\ tick <= tick
    BY <2>2
  <2> QED
    BY <2>2, <2>3, <2>4, <2>5, <2>7, <2>8 DEF Told
<1>4. ASSUME NEW pl \in Player, Pack(pl)
      PROVE  DeltaInv'
  BY <1>4, PackKeepsDeltas
<1>5. ASSUME NEW pl \in Player, Reconnect(pl)
      PROVE  DeltaInv'
  <2>1. /\ UNCHANGED <<toPack, tick, list, astray>>
        /\ shots' = [shots EXCEPT ![pl] = <<>>]
    BY <1>5 DEF Reconnect
  <2>2. \A q \in Player : HasPacket(q)' => HasPacket(q) /\ shots'[q] = shots[q]
    BY <2>1 DEF HasPacket, TypeOK
  <2> QED
    BY <2>1, <2>2 DEF DeltaInv, LastTick
<1> QED
  BY <1>1, <1>2, <1>3, <1>4, <1>5 DEF Next

\* What differs between two snapshots is among the answers for the first one's tick.
LEMMA ToldAnswers ==
  ASSUME NEW l, NEW s \in Seq(Packet), NEW t \in Nat, Told(l, s, t),
         NEW i \in 1 .. Len(s), NEW j \in 1 .. Len(s), i < j
  PROVE  {p \in Prop : s[i][p] # s[j][p]} \subseteq ChangedAfter(l, t - Len(s) + i)
<1>1. PICK c \in Nat : /\ Good(l, c) /\ c <= t /\ l.lastTick <= t
                       /\ l.cached => c + Len(s) <= t + 1
  BY DEF Told
<1>2. PICK n \in Nat : n = Len(s)
  BY LenProperties
<1>3. PICK first \in Int : first = t - Len(s) + i
  <2>1. i \in Int /\ t - n + i \in Int
    BY <1>2
  <2> QED
    BY <1>2, <2>1
<1>4. ASSUME NEW p \in Prop, s[i][p] # s[j][p]
      PROVE  p \in Scan(l, first)
  <2>1. first < l.ticks[p]
    BY <1>3, <1>4 DEF Told, Covers
  <2>2. l.ticks[p] \in Nat
    BY <1>1, Fields DEF Good
  <2> QED
    BY <2>1, <2>2 DEF Scan
<1>5. ChangedAfter(l, first) = Scan(l, first)
  <2>1. CASE ~l.cached
    BY <2>1 DEF ChangedAfter
  <2>2. CASE l.cached
    <3>1. first \in Nat /\ c <= first
      BY <1>1, <1>2, <1>3, <2>2
    <3> QED
      BY <1>1, <3>1, AnswersAreExact
  <2>3. l.cached \in BOOLEAN
    BY <1>1, Fields DEF Good
  <2> QED
    BY <2>1, <2>2, <2>3
<1> QED
  BY <1>3, <1>4, <1>5

\* A client that has any snapshot since the player came gets all that changed up to the
\* last one, from a list that answers for newer packets too.
THEOREM DeltasAreWhole == Spec => []DeltasAreComplete
<1>1. Init => DeltaInv
  BY DEF Init, DeltaInv, HasPacket
<1>2. TypeOK /\ DeltaInv => DeltasAreComplete
  <2> SUFFICES ASSUME TypeOK, DeltaInv, toPack = {}, NEW pl \in Player \ astray,
                      NEW i \in 1 .. Len(shots[pl]), NEW j \in 1 .. Len(shots[pl]), i < j
               PROVE  {p \in Prop : shots[pl][i][p] # shots[pl][j][p]}
                        \subseteq ChangedAfter(list[pl], tick - Len(shots[pl]) + i)
    BY DEF DeltasAreComplete
  <2>1. shots[pl] \in Seq(Packet) /\ tick \in Nat /\ LastTick(pl) = tick
    BY DEF TypeOK, LastTick
  <2>2. HasPacket(pl)
    BY <2>1, EmptySeq DEF HasPacket
  <2>3. Told(list[pl], shots[pl], tick)
    BY <2>1, <2>2 DEF DeltaInv
  <2> QED
    BY <2>1, <2>3, ToldAnswers
<1> QED
  BY <1>1, <1>2, DeltaStep, TypesStep, TypesStay, PTL DEF Spec

-----------------------------------------------------------------------------
(***************************************************************************)
(* What is sent.                                                           *)
(***************************************************************************)

\* Every property of a word of the list is noted with it: no word has a third one, which
\* AddOffsetToList would put in the place of the second.
AllListed == \A s \in 1 .. Slots : \A p \in Prop : s \in WordsOf[p] => p \in Listed(PropsAt[s])

\* What is not doubtful is current; and the words that are not compared are those that
\* were sent, unless the player is to be encoded whole.
CurrentInv ==
    \A pl \in Player \ astray : HasPacket(pl) =>
      /\ \A p \in Prop \ doubt[pl] :
           ~Culled(pl, p) => Previous(pl)[p] = Packed(sent[pl])[p]
      /\ pl \notin force /\ (enabled \/ pl \notin toPack \/ pl \notin changed) =>
           \A w \in Word : w > Slots => mem[pl][w] = sent[pl][w]

\* DoEncodePlayer leaves a property out only when its words are what was sent.
LEMMA LeftOutIsCurrent ==
  ASSUME TypeOK, CurrentInv, SharedAlike, AllListed, NEW pl \in Player, Written(pl),
         NEW p \in Prop, p \notin Listed(LookAtAll(pl).props), p \notin doubt'[pl], ~Culled(pl, p)
  PROVE  Previous(pl)[p] = Packed(mem[pl])[p]
<1>1. PICK x : x = LookAtAll(pl) /\ LookedAt(pl, Slots, x)
  BY SearchIsComplete
<1>2. /\ enabled /\ pl \notin astray /\ pl \notin force /\ HasPacket(pl) /\ ~x.over
      /\ doubt' = [doubt EXCEPT ![pl] = (doubt[pl] \ Listed(x.props)) \cup Behind(pl, x.props)]
  BY <1>1 DEF Written, WriteChanged
<1>3. p \notin doubt[pl] /\ p \notin Behind(pl, x.props)
  <2>1. doubt'[pl] = (doubt[pl] \ Listed(x.props)) \cup Behind(pl, x.props)
    BY <1>2 DEF TypeOK
  <2> QED
    BY <1>1, <2>1
<1>4. Previous(pl)[p] = Packed(sent[pl])[p]
  BY <1>2, <1>3 DEF CurrentInv
<1>5. WordsOf[p] \in SUBSET Word /\ Word \subseteq Nat /\ Slots \in Nat /\ Word = 1 .. Cardinality(Word)
  BY Layout, FS_CardinalityType
<1>6. ASSUME NEW w \in WordsOf[p]
      PROVE  sent[pl][w] = mem[pl][w]
  <2>1. CASE w > Slots
    BY <1>2, <1>5, <2>1 DEF CurrentInv
  <2>2. CASE ~(w > Slots)
    <3>1. w \in 1 .. Slots
      <4>1. PICK n \in Nat : Word = 1 .. n
        BY Layout, FS_CardinalityType
      <4>2. w \in 1 .. n
        BY <1>5, <4>1
      <4> QED
        BY <1>5, <2>2, <4>2
    <3>2. old[pl][w] = sent[pl][w]
      BY <1>1, <1>3, <3>1 DEF Behind
    <3>3. p \in Shows(pl, w)
      BY <3>1 DEF AllListed, Shows
    <3>4. old[pl][w] = mem[pl][w]
      BY <1>1, <1>2, <3>1, <3>3 DEF LookedAt
    <3> QED
      BY <3>2, <3>4
  <2> QED
    BY <2>1, <2>2
<1>7. Packed(sent[pl])[p] = Packed(mem[pl])[p]
  BY <1>6 DEF Packed
<1> QED
  BY <1>4, <1>7

LEMMA PackKeepsCurrent ==
  ASSUME TypeOK, CurrentInv, SharedAlike, AllListed, NEW pl \in Player, Pack(pl)
  PROVE  CurrentInv'
<1> SUFFICES ASSUME NEW q \in Player \ astray', HasPacket(q)'
             PROVE  /\ \A p \in Prop \ doubt'[q] :
                         ~Culled(q, p)' => Previous(q)'[p] = Packed(sent'[q])[p]
                    /\ q \notin force' /\ (enabled' \/ q \notin toPack' \/ q \notin changed') =>
                         \A w \in Word : w > Slots => mem'[q][w] = sent'[q][w]
  BY DEF CurrentInv, Packed
<1>1. toPack' = toPack \ {pl} /\ UNCHANGED <<enabled, bots, mem>>
  BY PackWays
<1>2. \A p : Culled(q, p)' <=> Culled(q, p)
  BY <1>1 DEF Culled
<1>3. shots[pl] \in Seq(Packet) /\ mem[pl] \in Memory
  BY DEF TypeOK
<1>4. ASSUME q \notin astray, q # pl, shots'[q] = shots[q], doubt'[q] = doubt[q],
             sent'[q] = sent[q], q \in force' <=> q \in force, q \in changed' <=> q \in changed
      PROVE  /\ \A p \in Prop \ doubt'[q] :
                  ~Culled(q, p)' => Previous(q)'[p] = Packed(sent'[q])[p]
             /\ q \notin force' /\ (enabled' \/ q \notin toPack' \/ q \notin changed') =>
                  \A w \in Word : w > Slots => mem'[q][w] = sent'[q][w]
  <2>1. HasPacket(q) /\ Previous(q)' = Previous(q)
    BY <1>4 DEF HasPacket, Previous
  <2> QED
    BY <1>1, <1>2, <1>4, <2>1 DEF CurrentInv
<1>5. ASSUME Encode(pl), pl \notin astray, force' \in {force, force \ {pl}}
      PROVE  /\ \A p \in Prop \ doubt'[q] :
                  ~Culled(q, p)' => Previous(q)'[p] = Packed(sent'[q])[p]
             /\ q \notin force' /\ (enabled' \/ q \notin toPack' \/ q \notin changed') =>
                  \A w \in Word : w > Slots => mem'[q][w] = sent'[q][w]
  <2>1. /\ shots' = [shots EXCEPT ![pl] = Append(shots[pl], Packed(mem[pl]))]
        /\ sent' = [sent EXCEPT ![pl] = mem[pl]] /\ doubt' = [doubt EXCEPT ![pl] = {}]
        /\ changed' = changed \ {pl} /\ astray' = astray
    BY <1>5 DEF Encode
  <2>2. CASE q = pl
    <3>1. shots'[pl] = Append(shots[pl], Packed(mem[pl])) /\ sent'[pl] = mem[pl]
      BY <2>1 DEF TypeOK
    <3>2. Last(shots'[pl]) = Packed(mem[pl])
      BY <1>3, <3>1, PackedType, OneMore
    <3> QED
      BY <1>1, <2>2, <3>1, <3>2 DEF Previous
  <2>3. CASE q # pl
    <3>1. /\ shots'[q] = shots[q] /\ doubt'[q] = doubt[q] /\ sent'[q] = sent[q]
          /\ q \in force' <=> q \in force
          /\ q \in changed' <=> q \in changed
      BY <1>5, <2>1, <2>3 DEF TypeOK
    <3> QED
      BY <1>4, <2>1, <2>3, <3>1
  <2> QED
    BY <2>2, <2>3
<1>6. CASE Stay(pl)
  <2>1. UNCHANGED <<changed, force, shots, sent, doubt, astray>> /\ q # pl
    BY <1>6 DEF Stay
  <2> QED
    BY <1>4, <2>1
<1>7. CASE Sent(pl)
  <2>1. /\ shots' = [shots EXCEPT ![pl] = Append(shots[pl], Previous(pl))]
        /\ UNCHANGED <<changed, force, sent, doubt, astray>>
        /\ pl \notin changed /\ HasPacket(pl)
    BY <1>7 DEF Sent, Reuse
  <2>2. CASE q = pl
    <3>1. shots'[pl] = Append(shots[pl], Previous(pl)) /\ Previous(pl) \in Packet
      BY <2>1, PreviousType DEF TypeOK
    <3>2. Last(shots'[pl]) = Previous(pl)
      BY <1>3, <3>1, OneMore
    <3>3. Previous(pl)' = Previous(pl)
      BY <3>2 DEF Previous
    <3> QED
      BY <1>1, <1>2, <2>1, <2>2, <3>3 DEF CurrentInv
  <2>3. CASE q # pl
    <3>1. shots'[q] = shots[q]
      BY <2>1, <2>3 DEF TypeOK
    <3> QED
      BY <1>4, <2>1, <2>3, <3>1
  <2> QED
    BY <2>2, <2>3
<1>8. CASE Plain(pl)
  BY <1>5, <1>8 DEF Plain
<1>9. CASE Whole(pl)
  BY <1>5, <1>9 DEF Whole, EncodeAll
<1>10. CASE Written(pl)
  <2>1. PICK ps, packet :
          /\ ps = LookAtAll(pl).props /\ ps \in Seq(Prop)
          /\ packet = [p \in Prop |-> IF p \in Listed(ps) THEN Packed(mem[pl])[p] ELSE Previous(pl)[p]]
    BY SearchType
  <2>2. /\ HasPacket(pl) /\ WriteChanged(pl, ps) /\ pl \notin astray /\ astray' = astray
        /\ shots' = [shots EXCEPT ![pl] = Append(shots[pl], packet)]
        /\ sent' = [sent EXCEPT ![pl] = mem[pl]]
        /\ doubt' = [doubt EXCEPT ![pl] = (doubt[pl] \ Listed(ps)) \cup Behind(pl, ps)]
        /\ changed' = changed \ {pl} /\ force' = force \ {pl}
    BY <1>10, <2>1 DEF Written, WriteChanged
  <2>3. CASE q = pl
    <3>1. packet \in Packet
      BY <2>1, <2>2, WriteTypes
    <3>2. shots'[pl] = Append(shots[pl], packet) /\ sent'[pl] = mem[pl]
      BY <2>2 DEF TypeOK
    <3>3. Previous(pl)' = packet
      BY <1>3, <3>1, <3>2, OneMore DEF Previous
    <3>4. ASSUME NEW p \in Prop \ doubt'[pl], ~Culled(pl, p)
          PROVE  packet[p] = Packed(mem[pl])[p]
      <4>1. CASE p \in Listed(ps)
        BY <2>1, <4>1
      <4>2. CASE p \notin Listed(ps)
        <5>1. Previous(pl)[p] = Packed(mem[pl])[p]
          BY <1>10, <2>1, <3>4, <4>2, LeftOutIsCurrent
        <5> QED
          BY <2>1, <4>2, <5>1
      <4> QED
        BY <4>1, <4>2
    <3> QED
      BY <1>1, <1>2, <2>3, <3>2, <3>3, <3>4
  <2>4. CASE q # pl
    <3>1. /\ shots'[q] = shots[q] /\ doubt'[q] = doubt[q] /\ sent'[q] = sent[q]
          /\ q \in force' <=> q \in force
          /\ q \in changed' <=> q \in changed
      BY <2>2, <2>4 DEF TypeOK
    <3> QED
      BY <1>4, <2>2, <2>4, <3>1
  <2> QED
    BY <2>3, <2>4
<1>11. CASE Lost(pl)
  <2>1. /\ UNCHANGED <<changed, shots, sent, doubt>> /\ astray' = astray \cup {pl}
        /\ force' \in {force, force \ {pl}}
    BY <1>11 DEF Lost
  <2> QED
    BY <1>4, <2>1
<1> QED
  BY <1>6, <1>7, <1>8, <1>9, <1>10, <1>11, PackWays

LEMMA CurrentStep ==
  ASSUME TypeOK, CurrentInv, SharedAlike, AllListed, [Next]_vars
  PROVE  CurrentInv'
<1>1. CASE RunFrame
  <2> SUFFICES ASSUME NEW pl \in Player \ astray', HasPacket(pl)'
               PROVE  /\ \A p \in Prop \ doubt'[pl] :
                           ~Culled(pl, p)' => Previous(pl)'[p] = Packed(sent'[pl])[p]
                      /\ pl \notin force' /\ (enabled' \/ pl \notin toPack' \/ pl \notin changed') =>
                           \A w \in Word : w > Slots => mem'[pl][w] = sent'[pl][w]
    BY DEF CurrentInv, Packed
  <2>1. /\ toPack = {} /\ toPack' = Player
        /\ UNCHANGED <<enabled, bots, shots, sent, doubt, astray>>
    BY <1>1 DEF RunFrame
  <2>2. PICK touched \in SUBSET Player, forced \in SUBSET Player, dead \in SUBSET Player :
          /\ forced \subseteq touched /\ dead \subseteq (IF enabled THEN bots ELSE {})
          /\ \A q \in Player \ touched : mem'[q] = mem[q]
          /\ \A q \in Player \ forced : \A w \in Word : w > Slots => mem'[q][w] = mem[q][w]
          /\ changed' = (changed \cup touched) \ dead
          /\ force' = IF enabled THEN force \cup forced ELSE force
    BY <1>1 DEF RunFrame
  <2>3. /\ HasPacket(pl) /\ pl \notin astray /\ Previous(pl)' = Previous(pl)
        /\ \A p : Culled(pl, p)' <=> Culled(pl, p)
    BY <2>1 DEF HasPacket, Previous, Culled
  <2>4. \A p \in Prop \ doubt'[pl] :
          ~Culled(pl, p)' => Previous(pl)'[p] = Packed(sent'[pl])[p]
    BY <2>1, <2>3 DEF CurrentInv
  <2>5. ASSUME pl \notin force', enabled \/ pl \notin changed', NEW w \in Word, w > Slots
        PROVE  mem'[pl][w] = sent'[pl][w]
    <3>1. mem[pl][w] = sent[pl][w]
      BY <2>1, <2>2, <2>3, <2>5 DEF CurrentInv
    <3>2. mem'[pl][w] = mem[pl][w]
      BY <2>2, <2>5
    <3> QED
      BY <2>1, <3>1, <3>2
  <2> QED
    BY <2>1, <2>4, <2>5
<1>2. CASE Switch \/ Unload
  <2>1. toPack = {} /\ UNCHANGED <<toPack, bots, mem, changed, force, shots, sent, doubt, astray>>
    BY <1>2 DEF Switch, Unload, playerVars
  <2> QED
    BY <2>1 DEF CurrentInv, HasPacket, Previous, Culled, Packed
<1>3. CASE UNCHANGED vars
  BY <1>3 DEF vars, playerVars, CurrentInv, HasPacket, Previous, Culled, Packed
<1>4. ASSUME NEW pl \in Player, Pack(pl)
      PROVE  CurrentInv'
  BY <1>4, PackKeepsCurrent
<1>5. ASSUME NEW pl \in Player, Reconnect(pl)
      PROVE  CurrentInv'
  <2> SUFFICES ASSUME NEW q \in Player \ astray', HasPacket(q)'
               PROVE  /\ \A p \in Prop \ doubt'[q] :
                           ~Culled(q, p)' => Previous(q)'[p] = Packed(sent'[q])[p]
                      /\ q \notin force' /\ (enabled' \/ q \notin toPack' \/ q \notin changed') =>
                           \A w \in Word : w > Slots => mem'[q][w] = sent'[q][w]
    BY DEF CurrentInv, Packed
  <2>1. /\ bots' \in {bots \ {pl}, bots \cup {pl}}
        /\ mem' = [mem EXCEPT ![pl] = Zero] /\ changed' = changed \cup {pl}
        /\ shots' = [shots EXCEPT ![pl] = <<>>] /\ doubt' = [doubt EXCEPT ![pl] = {}]
        /\ UNCHANGED <<enabled, toPack, force, sent, astray>>
    BY <1>5 DEF Reconnect
  <2>2. q # pl
    BY <2>1 DEF HasPacket, TypeOK
  <2>3. /\ shots'[q] = shots[q] /\ doubt'[q] = doubt[q] /\ mem'[q] = mem[q]
        /\ q \in changed' <=> q \in changed
        /\ q \in bots' <=> q \in bots
    BY <2>1, <2>2 DEF TypeOK
  <2>4. /\ HasPacket(q) /\ Previous(q)' = Previous(q)
        /\ \A p : Culled(q, p)' <=> Culled(q, p)
    BY <2>3 DEF HasPacket, Previous, Culled
  <2> QED
    BY <2>1, <2>3, <2>4 DEF CurrentInv
<1> QED
  BY <1>1, <1>2, <1>3, <1>4, <1>5 DEF Next

\* What is sent of a player is what its memory was, for any send table in which at most two
\* properties share a word and no two vectors overlap in part.
THEOREM PacketsStayCurrent ==
  ASSUME SharedAlike, AllListed
  PROVE  Spec => []PacketsAreCurrent
<1>1. Init => CurrentInv
  BY DEF Init, CurrentInv, HasPacket
<1>2. CurrentInv => PacketsAreCurrent
  BY DEF CurrentInv, PacketsAreCurrent
<1>3. TypeOK /\ CurrentInv /\ [Next]_vars => CurrentInv'
  BY CurrentStep
<1> QED
  BY <1>1, <1>2, <1>3, TypesStay, PTL DEF Spec

===============================================================================
