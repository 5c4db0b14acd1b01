-------------------------- MODULE VirtualHook_proofs --------------------------
(***************************************************************************)
(* Proofs about VirtualHook, for any virtual tables and hooks.             *)
(*                                                                         *)
(* DoHook can write the word as it found it because the word was restored  *)
(* first (Words), and a pointer of a callback is overwritten by no other   *)
(* word, as a hook is in one list only (Lists).  So the pointers do what   *)
(* HookOrder promises of them.                                             *)
(***************************************************************************)
EXTENDS VirtualHook, ListLemmas, TLAPS

\* The lists hold the enabled hooks, each at its word.
Lists ==
    /\ place \in [Hook -> Word \cup {0}]
    /\ on \subseteq Hook
    /\ \A h \in on : place[h] # 0
    /\ \A h \in Hook : place[h] # 0 => h \in tried
    /\ hooks \in [Word -> Seq(Hook)]
    /\ \A w \in Word : /\ IsInjective(hooks[w])
                       /\ ToSet(hooks[w]) = {h \in on : place[h] = w}

\* A word is the game's, or leads to the first hook of its list.
Words ==
    /\ memory \in [Word -> Callback \cup GameCode]
    /\ hooked \in [Word -> BOOLEAN]
    /\ DOMAIN saved = Word
    /\ \A w \in Word :
         /\ hooked[w] = (hooks[w] # <<>>)
         /\ hooked[w] => saved[w] = Pristine[w]
         /\ memory[w] = IF hooks[w] = <<>> THEN Pristine[w] ELSE CallbackOf[hooks[w][1]]

\* The pointers lead along the lists, and then to what the word held.
NextInner(hs, k, w) == IF k = Len(hs) THEN Pristine[w] ELSE CallbackOf[hs[k + 1]]
Links ==
    /\ inner \in [Callback -> Callback \cup GameCode \cup {NULL}]
    /\ \A w \in Word : \A k \in DOMAIN hooks[w] :
         inner[CallbackOf[hooks[w][k]]] = NextInner(hooks[w], k, w)

VInv == Lists /\ Words /\ Links

LEMMA InitHolds == Init => VInv
  <1> SUFFICES ASSUME Init
               PROVE  VInv
    OBVIOUS
  <1>1. Lists
    <2>1. <<>> \in Seq(Hook) /\ ToSet(<<>>) = {} /\ IsInjective(<<>>)
      BY DEF ToSet, IsInjective
    <2> QED
      BY <2>1 DEF Init, Lists
  <1>2. Words
    BY Tables DEF Init, Words
  <1>3. Links
    BY DEF Init, Links
  <1> QED
    BY <1>1, <1>2, <1>3 DEF VInv

\* DoHook makes the word and the pointers follow the new list.
LEMMA DoHookHolds ==
    ASSUME VInv, NEW w \in Word, NEW hs \in Seq(Hook), DoHook(w, hs), Lists'
    PROVE  Words' /\ Links'
  <1>1. /\ hooks' = [hooks EXCEPT ![w] = hs]
        /\ hooked' = [hooked EXCEPT ![w] = hs # <<>>]
        /\ saved' = [saved EXCEPT ![w] = IF hs = <<>> THEN @ ELSE Unhooked(w)]
        /\ memory' = [memory EXCEPT ![w] = IF hs = <<>> THEN Unhooked(w) ELSE CallbackOf[hs[1]]]
        /\ inner' = [c \in Callback |->
             IF \E k \in DOMAIN hs : CallbackOf[hs[k]] = c
             THEN LET k == CHOOSE i \in DOMAIN hs : CallbackOf[hs[i]] = c
                  IN  IF k = Len(hs) THEN Unhooked(w) ELSE CallbackOf[hs[k + 1]]
             ELSE inner[c]]
    BY DEF DoHook
  <1>2. Unhooked(w) = Pristine[w] /\ Pristine[w] \in GameCode
    BY Tables DEF VInv, Words, Unhooked
  <1>3. hooks'[w] = hs /\ \A v \in Word : v # w => hooks'[v] = hooks[v]
    BY <1>1 DEF VInv, Lists
  <1>4. PICK n \in Nat : n = Len(hs) /\ DOMAIN hs = 1 .. n /\ (hs = <<>> <=> n = 0)
    BY LenProperties, EmptySeq
  <1>5. \A k \in 1 .. n : hs[k] \in Hook /\ CallbackOf[hs[k]] \in Callback
    BY <1>4, ElementOfSeq, Tables
  <1>6. Words'
    <2>1. memory' \in [Word -> Callback \cup GameCode]
      BY <1>1, <1>2, <1>4, <1>5 DEF VInv, Words
    <2>2. hooked' \in [Word -> BOOLEAN] /\ DOMAIN saved' = Word
      BY <1>1 DEF VInv, Words
    <2>3. ASSUME NEW v \in Word
          PROVE  /\ hooked'[v] = (hooks'[v] # <<>>)
                 /\ hooked'[v] => saved'[v] = Pristine[v]
                 /\ memory'[v] = IF hooks'[v] = <<>> THEN Pristine[v] ELSE CallbackOf[hooks'[v][1]]
      <3>1. CASE v = w
        BY <1>1, <1>2, <1>3, <3>1 DEF VInv, Words
      <3>2. CASE v # w
        <4>1. hooked'[v] = hooked[v] /\ saved'[v] = saved[v] /\ memory'[v] = memory[v]
          BY <1>1, <3>2 DEF VInv, Words
        <4> QED
          BY <1>3, <3>2, <4>1 DEF VInv, Words
      <3> QED
        BY <3>1, <3>2
    <2> QED
      BY <2>1, <2>2, <2>3 DEF Words
  <1>7. ASSUME NEW u \in Word, NEW v \in Word,
               NEW i \in DOMAIN hooks'[u], NEW j \in DOMAIN hooks'[v],
               CallbackOf[hooks'[u][i]] = CallbackOf[hooks'[v][j]]
        PROVE  u = v /\ i = j
    <2>1. /\ hooks'[u][i] \in on' /\ place'[hooks'[u][i]] = u
          /\ hooks'[v][j] \in on' /\ place'[hooks'[v][j]] = v
      BY DEF Lists, ToSet
    <2>2. hooks'[u][i] = hooks'[v][j]
      BY <1>7, <2>1, Tables DEF Lists
    <2> QED
      BY <2>1, <2>2 DEF Lists, IsInjective
  <1>8. ASSUME NEW k \in 1 .. n
        PROVE  inner'[CallbackOf[hs[k]]] = NextInner(hs, k, w)
    <2>1. (CHOOSE i \in DOMAIN hs : CallbackOf[hs[i]] = CallbackOf[hs[k]]) = k
      BY <1>3, <1>4, <1>7
    <2> QED
      BY <1>1, <1>2, <1>4, <1>5, <2>1 DEF NextInner
  <1>9. inner' \in [Callback -> Callback \cup GameCode \cup {NULL}]
    <2>1. ASSUME NEW c \in Callback, NEW k \in 1 .. n, CallbackOf[hs[k]] = c
          PROVE  inner'[c] \in Callback \cup GameCode
      <3>1. k = n \/ k + 1 \in 1 .. n
        OBVIOUS
      <3> QED
        BY <1>2, <1>4, <1>5, <1>8, <2>1, <3>1 DEF NextInner
    <2>2. ASSUME NEW c \in Callback, ~ \E k \in 1 .. n : CallbackOf[hs[k]] = c
          PROVE  inner'[c] = inner[c]
      BY <1>1, <1>4, <2>2
    <2>3. \A c \in Callback : inner'[c] \in Callback \cup GameCode \cup {NULL}
      BY <2>1, <2>2 DEF VInv, Links
    <2> QED
      BY <1>1, <2>3
  <1>10. ASSUME NEW v \in Word, NEW k \in DOMAIN hooks'[v]
         PROVE  inner'[CallbackOf[hooks'[v][k]]] = NextInner(hooks'[v], k, v)
    <2>1. CASE v = w
      BY <1>3, <1>4, <1>8, <2>1
    <2>2. CASE v # w
      <3>1. hooks'[v] = hooks[v]
        BY <1>3, <2>2
      <3>2. ~ \E j \in DOMAIN hs : CallbackOf[hs[j]] = CallbackOf[hooks[v][k]]
        BY <1>3, <1>7, <2>2, <3>1
      <3>3. CallbackOf[hooks[v][k]] \in Callback
        BY <3>1, ElementOfSeq, LenProperties, Tables DEF VInv, Lists
      <3>4. inner'[CallbackOf[hooks[v][k]]] = inner[CallbackOf[hooks[v][k]]]
        BY <1>1, <3>2, <3>3
      <3> QED
        BY <3>1, <3>4 DEF VInv, Links
    <2> QED
      BY <2>1, <2>2
  <1> QED
    BY <1>6, <1>9, <1>10 DEF Links, NextInner

\* Every step keeps the invariant.
LEMMA StepHolds == VInv /\ [Next]_vars => VInv'
  <1> SUFFICES ASSUME VInv, [Next]_vars
               PROVE  VInv'
    OBVIOUS
  <1>1. ASSUME UNCHANGED <<memory, place, on, hooks, hooked, saved, inner>>, tried' = tried
        PROVE  VInv'
    BY <1>1 DEF VInv, Lists, Words, Links, NextInner, Unhooked
  <1>2. ASSUME NEW h \in Hook, Load(h)
        PROVE  VInv'
    <2>1. /\ h \notin tried /\ tried' = tried \cup {h}
          /\ UNCHANGED <<memory, on, hooks, hooked, saved, inner>>
      BY <1>2 DEF Load
    <2>2. h \notin on
      BY <2>1 DEF VInv, Lists
    <2>3. place' = place \/ \E w \in Word : place' = [place EXCEPT ![h] = w]
      <3>1. Found(h) \subseteq Word
        BY Tables DEF Found, Word
      <3> QED
        BY <1>2, <3>1 DEF Load
    <2>4. place' \in [Hook -> Word \cup {0}] /\ \A g \in Hook : g # h => place'[g] = place[g]
      BY <2>3 DEF VInv, Lists
    <2>5. \A w \in Word : {g \in on : place'[g] = w} = {g \in on : place[g] = w}
      BY <2>2, <2>4 DEF VInv, Lists
    <2>6. Lists'
      BY <2>1, <2>2, <2>4, <2>5 DEF VInv, Lists
    <2>7. Words' /\ Links'
      BY <2>1 DEF VInv, Words, Links, NextInner
    <2> QED
      BY <2>6, <2>7 DEF VInv
  <1>3. ASSUME NEW h \in Hook, Enable(h)
        PROVE  VInv'
    <2>1. PICK w \in Word : w = place[h]
      BY <1>3 DEF Enable, VInv, Lists
    <2>2. PICK hs : hs = Append(hooks[w], h)
      OBVIOUS
    <2>3. /\ h \notin on /\ on' = on \cup {h} /\ DoHook(w, hs)
          /\ place' = place /\ tried' = tried
          /\ hooks' = [hooks EXCEPT ![w] = hs]
      BY <1>3, <2>1, <2>2, ZenonT(40) DEF Enable, DoHook
    <2>4. h \notin ToSet(hooks[w]) /\ hooks[w] \in Seq(Hook) /\ IsInjective(hooks[w])
      BY <2>3 DEF VInv, Lists
    <2>5. hs \in Seq(Hook) /\ IsInjective(hs) /\ ToSet(hs) = ToSet(hooks[w]) \cup {h}
      BY <2>2, <2>4, Appended
    <2>6. Lists'
      <3>1. /\ place' \in [Hook -> Word \cup {0}] /\ on' \subseteq Hook
            /\ (\A g \in on' : place'[g] # 0) /\ (\A g \in Hook : place'[g] # 0 => g \in tried')
        BY <1>3, <2>3 DEF VInv, Lists, Enable
      <3>2. hooks' \in [Word -> Seq(Hook)]
        BY <2>3, <2>5 DEF VInv, Lists
      <3>3. ASSUME NEW v \in Word
            PROVE  IsInjective(hooks'[v]) /\ ToSet(hooks'[v]) = {g \in on' : place'[g] = v}
        <4>1. CASE v = w
          <5>1. hooks'[v] = hs
            BY <2>3, <4>1 DEF VInv, Lists
          <5>2. ToSet(hooks[w]) = {g \in on : place[g] = w}
            BY DEF VInv, Lists
          <5> QED
            BY <2>1, <2>3, <2>5, <4>1, <5>1, <5>2
        <4>2. CASE v # w
          <5>1. hooks'[v] = hooks[v]
            BY <2>3, <4>2 DEF VInv, Lists
          <5>2. ToSet(hooks[v]) = {g \in on : place[g] = v} /\ IsInjective(hooks[v])
            BY DEF VInv, Lists
          <5> QED
            BY <2>1, <2>3, <4>2, <5>1, <5>2
        <4> QED
          BY <4>1, <4>2
      <3> QED
        BY <3>1, <3>2, <3>3 DEF Lists
    <2> QED
      BY <2>3, <2>5, <2>6, DoHookHolds DEF VInv
  <1>4. ASSUME NEW h \in Hook, Disable(h)
        PROVE  VInv'
    <2>1. PICK w \in Word : w = place[h]
      BY <1>4 DEF Disable, VInv, Lists
    <2>2. PICK k \in DOMAIN hooks[w] : hooks[w][k] = h /\ DoHook(w, RemoveAt(hooks[w], k))
      BY <1>4, <2>1 DEF Disable
    <2>3. PICK hs : hs = RemoveAt(hooks[w], k)
      OBVIOUS
    <2>4. /\ on' = on \ {h} /\ DoHook(w, hs) /\ place' = place /\ tried' = tried
          /\ hooks' = [hooks EXCEPT ![w] = hs]
      <3>1. DoHook(w, hs)
        BY <2>2, <2>3
      <3>2. on' = on \ {h} /\ place' = place /\ tried' = tried
        BY <1>4 DEF Disable
      <3>3. hooks' = [hooks EXCEPT ![w] = hs]
        BY <3>1 DEF DoHook
      <3> QED
        BY <3>1, <3>2, <3>3
    <2>5. hooks[w] \in Seq(Hook) /\ IsInjective(hooks[w])
      BY DEF VInv, Lists
    <2>6. hs \in Seq(Hook) /\ IsInjective(hs) /\ ToSet(hs) = ToSet(hooks[w]) \ {h}
      BY <2>2, <2>3, <2>5, Removed
    <2>7. Lists'
      BY <2>1, <2>4, <2>6 DEF VInv, Lists
    <2> QED
      BY <2>4, <2>6, <2>7, DoHookHolds DEF VInv
  <1>5. CASE Booted
    BY <1>1, <1>5 DEF Booted
  <1>6. CASE UNCHANGED vars
    BY <1>1, <1>6 DEF vars
  <1> QED
    BY <1>2, <1>3, <1>4, <1>5, <1>6 DEF Next

\* The invariant behind the others.
THEOREM Invariance == Spec => []VInv
  BY InitHolds, StepHolds, PTL DEF Spec

-----------------------------------------------------------------------------
(***************************************************************************)
(* Where a hook sits.                                                      *)
(***************************************************************************)

\* While hooks are still to be loaded the virtual tables are the game's.
Untouched == booting => on = {}

\* A hook looks for its function in virtual tables that no hook has changed, as long as no
\* mod is enabled before all are loaded; with early hooks it may come to sit behind.
THEOREM HooksSitRight ==
    ASSUME EarlyHooks = {}
    PROVE  Spec => []SitsOnItsFunction
  <1>1. Init => Untouched /\ SitsOnItsFunction
    BY DEF Init, Untouched, SitsOnItsFunction
  <1>2. VInv /\ Untouched /\ SitsOnItsFunction /\ [Next]_vars => (Untouched /\ SitsOnItsFunction)'
    <2> SUFFICES ASSUME VInv, Untouched, SitsOnItsFunction, [Next]_vars
                 PROVE  (Untouched /\ SitsOnItsFunction)'
      OBVIOUS
    <2>1. ASSUME NEW h \in Hook, Load(h)
          PROVE  (Untouched /\ SitsOnItsFunction)'
      <3>1. booting /\ UNCHANGED <<booting, on>>
        BY <2>1 DEF Load
      <3>2. \A w \in Word : memory[w] = Pristine[w]
        <4> TAKE w \in Word
        <4>1. ToSet(hooks[w]) = {} /\ hooks[w] \in Seq(Hook)
          BY <3>1 DEF Untouched, VInv, Lists
        <4>2. hooks[w] = <<>>
          <5>1. hooks[w] # <<>> => 1 \in DOMAIN hooks[w]
            BY <4>1, LenProperties, EmptySeq
          <5> QED
            BY <4>1, <5>1 DEF ToSet
        <4> QED
          BY <4>2 DEF VInv, Words
      <3>3. CASE place' = place
        BY <3>1, <3>3 DEF Untouched, SitsOnItsFunction
      <3>4. ASSUME NEW w \in Found(h), place' = [place EXCEPT ![h] = w]
            PROVE  (Untouched /\ SitsOnItsFunction)'
        <4>1. /\ w \in TableStart[h] .. NumWords /\ memory[w] = Target[h]
              /\ \A v \in TableStart[h] .. w - 1 : memory[v] # Target[h]
          BY <3>4 DEF Found
        <4>2. TableStart[h] \in Nat /\ TableStart[h] >= 1 /\ NumWords \in Nat
          BY Tables DEF Word
        <4>3. w \in Word /\ \A v \in TableStart[h] .. w - 1 : v \in Word
          BY <4>1, <4>2 DEF Word
        <4>4. Pristine[w] = Target[h] /\ \A v \in TableStart[h] .. w - 1 : Pristine[v] # Target[h]
          BY <3>2, <4>1, <4>3
        <4>5. place'[h] = w /\ \A g \in Hook : g # h => place'[g] = place[g]
          BY <3>4 DEF VInv, Lists
        <4>6. ASSUME NEW g \in Hook, place'[g] # 0
              PROVE  /\ Pristine[place'[g]] = Target[g]
                     /\ \A v \in TableStart[g] .. place'[g] - 1 : Pristine[v] # Target[g]
          <5>1. CASE g = h
            BY <4>4, <4>5, <5>1
          <5>2. CASE g # h
            BY <4>5, <4>6, <5>2 DEF SitsOnItsFunction
          <5> QED
            BY <5>1, <5>2
        <4> QED
          BY <3>1, <4>6 DEF Untouched, SitsOnItsFunction
      <3> QED
        BY <2>1, <3>3, <3>4 DEF Load
    <2>2. ASSUME NEW h \in Hook, Enable(h) \/ Disable(h)
          PROVE  (Untouched /\ SitsOnItsFunction)'
      BY <2>2 DEF Enable, Disable, Untouched, SitsOnItsFunction
    <2>3. CASE Booted
      BY <2>3 DEF Booted, Untouched, SitsOnItsFunction
    <2>4. CASE UNCHANGED vars
      BY <2>4 DEF vars, Untouched, SitsOnItsFunction
    <2> QED
      BY <2>1, <2>2, <2>3, <2>4 DEF Next
  <1> QED
    BY <1>1, <1>2, Invariance, PTL DEF Spec

-----------------------------------------------------------------------------
(***************************************************************************)
(* What a virtual call runs.                                               *)
(***************************************************************************)

LEMMA HopsKnown ==
    /\ MaxHops \in Nat /\ MaxHops >= 1 /\ MaxHops = Cardinality(Hook) + 1
    /\ \A p : /\ Path(p) = [n \in 1 .. MaxHops |-> Path(p)[n]]
              /\ Path(p)[1] = p /\ Goes(Path(p), MaxHops, Follow)
  <1>1. PICK m \in Nat : m = MaxHops /\ m >= 1 /\ m = Cardinality(Hook) + 1
    BY Tables, FS_CardinalityType DEF MaxHops
  <1>2. ASSUME NEW p
        PROVE  /\ Path(p) = [n \in 1 .. m |-> Path(p)[n]]
               /\ Path(p)[1] = p /\ Goes(Path(p), m, Follow)
    <2>1. PICK next : next = Follow
      OBVIOUS
    <2>2. Path(p) = CHOOSE g : IsWay(g, p, next, m)
      BY <1>1, <2>1 DEF Path, IsWay
    <2>3. \E g : IsWay(g, p, next, m)
      BY WayExists
    <2>4. PICK h : h = Path(p) /\ IsWay(h, p, next, m)
      BY <2>2, <2>3
    <2>5. h = [n \in 1 .. m |-> IF n = 1 THEN p ELSE next[h[n - 1]]]
      BY <2>4 DEF IsWay
    <2>6. h = [n \in 1 .. m |-> h[n]] /\ h[1] = p
      <3>1. 1 \in 1 .. m
        BY <1>1
      <3> QED
        BY <2>5, <3>1
    <2>7. \A n \in 2 .. m : h[n] = next[h[n - 1]]
      <3> TAKE n \in 2 .. m
      <3>1. n \in 1 .. m /\ n # 1
        OBVIOUS
      <3> QED
        BY <2>5, <3>1
    <2> QED
      BY <2>1, <2>4, <2>6, <2>7 DEF Goes
  <1> QED
    BY <1>1, <1>2, Zenon

\* Where each address leads to.
LEMMA Signposts ==
    /\ \A c \in Callback : Follow[c] = inner[c]
    /\ \A g \in GameCode : Follow[g] = g
  BY Tables DEF Follow

\* A list is no longer than there are hooks.
LEMMA ListBound ==
    ASSUME VInv, NEW w \in Word
    PROVE  Len(hooks[w]) <= Cardinality(Hook)
  <1>1. PICK n \in Nat : n = Len(hooks[w]) /\ DOMAIN hooks[w] = 1 .. n
    BY LenProperties DEF VInv, Lists
  <1>2. PICK g : g = [i \in 1 .. n |-> hooks[w][i]]
    OBVIOUS
  <1>3. g \in [1 .. n -> Hook]
    BY <1>1, <1>2, ElementOfSeq DEF VInv, Lists
  <1>4. \A i, j \in 1 .. n : g[i] = g[j] => i = j
    BY <1>1, <1>2 DEF VInv, Lists, IsInjective
  <1>5. n <= Cardinality(Hook)
    BY <1>3, <1>4, Tables, NoLongerThanSet
  <1> QED
    BY <1>1, <1>5

\* A call through a word runs the list of the word and then stays in the game's function.
RunsList(w, h) ==
    /\ Len(hooks[w]) + 1 <= MaxHops
    /\ \A k \in 1 .. MaxHops : h[k] = IF k <= Len(hooks[w]) THEN CallbackOf[hooks[w][k]] ELSE Pristine[w]
LEMMA PathOfCall ==
    ASSUME VInv, NEW w \in Word
    PROVE  RunsList(w, Path(memory[w]))
  <1>1. PICK n \in Nat : n = Len(hooks[w]) /\ DOMAIN hooks[w] = 1 .. n /\ (hooks[w] = <<>> <=> n = 0)
    BY LenProperties, EmptySeq DEF VInv, Lists
  <1>2. PICK m \in Nat : m = MaxHops
    BY HopsKnown
  <1>3. PICK l \in Nat : l = n + 1 /\ 1 <= l /\ l <= m
    <2>1. n <= Cardinality(Hook) /\ Cardinality(Hook) \in Nat
      BY <1>1, ListBound, Tables, FS_CardinalityType
    <2>2. n + 1 <= m
      BY <1>2, <2>1, HopsKnown
    <2> QED
      BY <2>2
  <1>4. PICK h, next : h = Path(memory[w]) /\ next = Follow
    OBVIOUS
  <1>5. h[1] = memory[w] /\ Goes(h, m, next)
    BY <1>2, <1>4, HopsKnown
  <1>6. PICK c : c = [k \in 1 .. l |-> IF k <= n THEN CallbackOf[hooks[w][k]] ELSE Pristine[w]]
    OBVIOUS
  <1>7. /\ \A k \in 1 .. n : c[k] = CallbackOf[hooks[w][k]] /\ CallbackOf[hooks[w][k]] \in Callback
        /\ c[l] = Pristine[w] /\ Pristine[w] \in GameCode
    <2>1. \A k \in 1 .. n : hooks[w][k] \in Hook
      BY <1>1, ElementOfSeq DEF VInv, Lists
    <2>2. \A k \in 1 .. n : k \in 1 .. l /\ k <= n
      BY <1>3
    <2>3. l \in 1 .. l /\ ~(l <= n)
      BY <1>3
    <2> QED
      BY <1>6, <2>1, <2>2, <2>3, Tables
  <1>8. h[1] = c[1]
    <2>1. CASE n = 0
      BY <1>1, <1>3, <1>5, <1>7, <2>1 DEF VInv, Words
    <2>2. CASE n # 0
      <3>1. 1 \in 1 .. n
        BY <2>2
      <3> QED
        BY <1>1, <1>5, <1>7, <2>2, <3>1 DEF VInv, Words
    <2> QED
      BY <2>1, <2>2
  <1>9. \A i \in 1 .. l - 1 : next[c[i]] = c[i + 1]
    <2> TAKE i \in 1 .. l - 1
    <2>1. i \in 1 .. n /\ (i = n \/ i + 1 \in 1 .. n) /\ (i = n => i + 1 = l)
      BY <1>3
    <2>2. c[i + 1] = NextInner(hooks[w], i, w)
      BY <1>1, <1>7, <2>1 DEF NextInner
    <2>3. next[c[i]] = inner[CallbackOf[hooks[w][i]]]
      BY <1>4, <1>7, <2>1, Signposts
    <2> QED
      BY <1>1, <2>1, <2>2, <2>3 DEF VInv, Links
  <1>10. next[c[l]] = c[l]
    BY <1>4, <1>7, Signposts
  <1>11. GoesAlong(h, c, l, m)
    <2>1. StartsOn(h, c, l, next, m)
      BY <1>5, <1>8, <1>9, <1>10 DEF StartsOn
    <2> QED
      BY <1>3, <2>1, WayAlong
  <1>12. ASSUME NEW k \in 1 .. m
         PROVE  h[k] = IF k <= n THEN CallbackOf[hooks[w][k]] ELSE Pristine[w]
    <2>1. h[k] = IF k <= l THEN c[k] ELSE c[l]
      BY <1>11 DEF GoesAlong
    <2>2. CASE k <= n
      <3>1. k \in 1 .. n /\ k <= l
        BY <1>3, <2>2
      <3> QED
        BY <1>7, <2>1, <2>2, <3>1
    <2>3. CASE ~(k <= n)
      <3>1. k <= l => k = l
        BY <1>3, <2>3
      <3> QED
        BY <1>7, <2>1, <2>3, <3>1
    <2> QED
      BY <2>2, <2>3
  <1> QED
    BY <1>1, <1>2, <1>3, <1>4, <1>12 DEF RunsList

\* No order of switching hooks on and off makes a virtual call miss one of the hooks, run
\* one that is off, or end anywhere but in the game's function.
THEOREM CallsAreRight == Spec => []CallsRunHooks
  <1>1. ASSUME VInv, NEW w \in Word
        PROVE  LET n == Len(hooks[w])  p == Path(memory[w]) IN
               /\ \A k \in 1 .. n : p[k] = CallbackOf[hooks[w][k]]
               /\ p[n + 1] = Pristine[w]
    <2>1. PICK n \in Nat : n = Len(hooks[w])
      BY <1>1, LenProperties DEF VInv, Lists
    <2>2. PICK m \in Nat : m = MaxHops
      BY HopsKnown
    <2>3. PICK h : h = Path(memory[w])
      OBVIOUS
    <2>4. n + 1 <= m /\ \A k \in 1 .. m : h[k] = IF k <= n THEN CallbackOf[hooks[w][k]] ELSE Pristine[w]
      BY <1>1, <2>1, <2>2, <2>3, PathOfCall DEF RunsList
    <2>5. \A k \in 1 .. n : k \in 1 .. m /\ k <= n
      BY <2>4
    <2>6. n + 1 \in 1 .. m /\ ~(n + 1 <= n)
      BY <2>4
    <2> QED
      BY <2>1, <2>3, <2>4, <2>5, <2>6
  <1>2. VInv => CallsRunHooks
    BY <1>1 DEF CallsRunHooks
  <1> QED
    BY <1>2, Invariance, PTL

-----------------------------------------------------------------------------
(***************************************************************************)
(* What HookOrder promises.  What a call through a word runs, followed     *)
(* pointer by pointer, is the list of the word; each operation changes one *)
(* list in the way HookOrder allows.                                       *)
(***************************************************************************)

LEMMA LedByHook ==
    ASSUME VInv, NEW w \in Word
    PROVE  Chains[w] = Names(CallbackOf, hooks[w]) /\ Ends[w] = Pristine[w]
  <1>1. PICK n \in Nat : n = Len(hooks[w]) /\ hooks[w] \in Seq(Hook)
    BY LenProperties DEF VInv, Lists
  <1>2. PICK m \in Nat : m = MaxHops /\ 1 <= m
    BY HopsKnown
  <1>3. PICK h : h = Path(memory[w]) /\ h = [k \in 1 .. m |-> h[k]]
    BY <1>2, HopsKnown
  <1>4. n + 1 <= m /\ \A k \in 1 .. m : h[k] = IF k <= n THEN CallbackOf[hooks[w][k]] ELSE Pristine[w]
    BY <1>1, <1>2, <1>3, PathOfCall DEF RunsList
  <1>5. PICK c : c = Names(CallbackOf, hooks[w])
    OBVIOUS
  <1>6. c \in Seq(Callback) /\ Len(c) = n /\ \A i \in 1 .. n : c[i] = CallbackOf[hooks[w][i]]
    <2>1. AreNames(c, CallbackOf, hooks[w], Callback)
      BY <1>1, <1>5, Tables, NamesProperties
    <2> QED
      BY <1>1, <2>1 DEF AreNames
  <1>7. /\ \A i \in 1 .. n : h[i] = c[i] /\ h[i] \in Callback
        /\ \A k \in n + 1 .. m : h[k] = Pristine[w] /\ h[k] \notin Callback
    <2>1. ASSUME NEW i \in 1 .. n
          PROVE  h[i] = c[i] /\ h[i] \in Callback
      <3>1. i \in 1 .. m /\ i <= n
        BY <1>4
      <3>2. c[i] \in Callback
        BY <1>6, ElementOfSeq
      <3> QED
        BY <1>4, <1>6, <3>1, <3>2
    <2>2. ASSUME NEW k \in n + 1 .. m
          PROVE  h[k] = Pristine[w] /\ h[k] \notin Callback
      <3>1. k \in 1 .. m /\ ~(k <= n)
        OBVIOUS
      <3> QED
        BY <1>4, <3>1, Tables
    <2> QED
      BY <2>1, <2>2
  <1>8. Cardinality({k \in 1 .. m : h[k] \in Callback}) = n
    <2>1. {k \in 1 .. m : h[k] \in Callback} = 1 .. n
      <3>1. ASSUME NEW k \in 1 .. m, h[k] \in Callback
            PROVE  k \in 1 .. n
        <4>1. k \notin n + 1 .. m
          BY <1>7, <3>1
        <4> QED
          BY <4>1
      <3>2. ASSUME NEW k \in 1 .. n
            PROVE  k \in 1 .. m /\ h[k] \in Callback
        BY <1>4, <1>7
      <3> QED
        BY <3>1, <3>2
    <2>2. Cardinality(1 .. n) = n
      <3>1. PICK a \in Int, b \in Int : a = 1 /\ b = n
        OBVIOUS
      <3>2. Cardinality(a .. b) = IF a > b THEN 0 ELSE b - a + 1
        BY FS_Interval
      <3>3. (IF a > b THEN 0 ELSE b - a + 1) = n
        BY <3>1
      <3> QED
        BY <3>1, <3>2, <3>3, Zenon
    <2> QED
      BY <2>1, <2>2, Zenon
  <1>9. PICK A : \A k \in 1 .. m : h[k] \in A
    <2>1. \A k \in 1 .. m : h[k] \in {h[j] : j \in 1 .. m}
      OBVIOUS
    <2> QED
      BY <2>1
  <1>10. h \in Seq(A) /\ Len(h) = m
    <2>1. h \in [1 .. m -> A]
      BY <1>3, <1>9
    <2> QED
      BY <2>1, SeqDef, LenProperties
  <1>11. PICK q : q = SubSeq(h, 1, n)
    OBVIOUS
  <1>12. q \in Seq(A) /\ Len(q) = n /\ \A i \in 1 .. n : q[i] = h[i]
    <2>1. PICK a \in Int, b \in Int : a = 1 /\ b = n /\ 1 <= a /\ a <= b + 1 /\ b <= Len(h)
      BY <1>4, <1>10
    <2>2. /\ SubSeq(h, a, b) \in Seq(A) /\ Len(SubSeq(h, a, b)) = b - a + 1
          /\ \A i \in 1 .. b - a + 1 : SubSeq(h, a, b)[i] = h[a + i - 1]
      BY <1>10, <2>1, SubSeqKnown
    <2>3. b - a + 1 = n /\ \A i \in 1 .. n : a + i - 1 = i
      BY <2>1
    <2> QED
      BY <1>11, <2>1, <2>2, <2>3
  <1>13. q = c
    <2>1. \A i \in 1 .. n : q[i] = c[i]
      BY <1>7, <1>12
    <2>2. q = [i \in 1 .. n |-> q[i]] /\ c = [i \in 1 .. n |-> c[i]]
      BY <1>6, <1>12, LenProperties
    <2> QED
      BY <2>1, <2>2
  <1>14. Chains[w] = q
    <2>1. Chains[w] = SubSeq(h, 1, Cardinality({k \in 1 .. m : h[k] \in Callback}))
      BY <1>2, <1>3 DEF Chains
    <2> QED
      BY <1>8, <1>11, <2>1
  <1>15. Ends[w] = Pristine[w]
    <2>1. m \in n + 1 .. m
      BY <1>4
    <2> QED
      BY <1>2, <1>3, <1>7, <2>1 DEF Ends
  <1> QED
    BY <1>5, <1>13, <1>14, <1>15

\* In terms of the lists.
ListsLead ==
    /\ Chains = [w \in Word |-> Names(CallbackOf, hooks[w])]
    /\ Ends = Pristine
LEMMA LedByHooks == VInv => ListsLead
  <1> SUFFICES ASSUME VInv
               PROVE  ListsLead
    OBVIOUS
  <1>1. \A w \in Word : Chains[w] = Names(CallbackOf, hooks[w]) /\ Ends[w] = Pristine[w]
    BY LedByHook
  <1>2. Chains = [w \in Word |-> Chains[w]] /\ Ends = [w \in Word |-> Ends[w]]
    BY DEF Chains, Ends
  <1>3. Pristine = [w \in Word |-> Pristine[w]]
    BY Tables
  <1> QED
    BY <1>1, <1>2, <1>3 DEF ListsLead

LEMMA LedInit == Init => Promise!Init
  <1> SUFFICES ASSUME Init
               PROVE  Promise!Init
    OBVIOUS
  <1>1. ListsLead
    BY InitHolds, LedByHooks
  <1>2. Names(CallbackOf, <<>>) = <<>>
    <2>1. PICK s \in Seq(Hook) : s = <<>> /\ Len(s) = 0
      BY EmptySeq
    <2>2. PICK c : c = Names(CallbackOf, s)
      OBVIOUS
    <2>3. c \in Seq(Callback) /\ Len(c) = 0
      <3>1. AreNames(c, CallbackOf, s, Callback)
        BY <2>1, <2>2, Tables, NamesProperties
      <3> QED
        BY <2>1, <3>1 DEF AreNames
    <2> QED
      BY <2>1, <2>2, <2>3, EmptySeq
  <1>3. \A w \in Word : hooks[w] = <<>>
    BY DEF Init
  <1>4. Chains = [w \in Word |-> <<>>]
    BY <1>1, <1>2, <1>3 DEF ListsLead
  <1> QED
    BY <1>1, <1>4 DEF Init, ListsLead, Promise!Init

LEMMA LedStep == VInv /\ VInv' /\ [Next]_vars => [Promise!Next]_<<place, Chains, Ends>>
  <1> SUFFICES ASSUME VInv, VInv', [Next]_vars
               PROVE  [Promise!Next]_<<place, Chains, Ends>>
    OBVIOUS
  <1>1. ListsLead /\ ListsLead'
    <2>1. (VInv => ListsLead)'
      BY LedByHooks, PTL
    <2> QED
      BY <2>1, LedByHooks
  <1>2. /\ Chains = [w \in Word |-> Names(CallbackOf, hooks[w])]
        /\ Chains' = [w \in Word |-> Names(CallbackOf, hooks'[w])]
        /\ Ends' = Ends
    BY <1>1 DEF ListsLead
  <1>3. ASSUME hooks' = hooks
        PROVE  Chains' = Chains
    BY <1>2, <1>3
  <1>4. ASSUME NEW h \in Hook, Load(h)
        PROVE  [Promise!Next]_<<place, Chains, Ends>>
    <2>1. Chains' = Chains /\ Ends' = Ends
      BY <1>2, <1>3, <1>4 DEF Load
    <2>2. place[h] = 0
      BY <1>4 DEF Load, VInv, Lists
    <2>3. place' = place \/ \E w \in Word : place' = [place EXCEPT ![h] = w]
      <3>1. Found(h) \subseteq Word
        BY Tables DEF Found, Word
      <3> QED
        BY <1>4, <3>1 DEF Load
    <2>4. CASE place' = place
      BY <2>1, <2>4
    <2>5. CASE \E w \in Word : place' = [place EXCEPT ![h] = w]
      <3>1. Promise!Settle(h)
        BY <2>1, <2>2, <2>5 DEF Promise!Settle
      <3> QED
        BY <3>1 DEF Promise!Next
    <2> QED
      BY <2>3, <2>4, <2>5
  <1>5. ASSUME NEW h \in Hook, Enable(h)
        PROVE  [Promise!Next]_<<place, Chains, Ends>>
    <2>1. PICK w \in Word : w = place[h]
      BY <1>5 DEF Enable, VInv, Lists
    <2>2. PICK s \in Seq(Hook) : s = hooks[w]
      BY DEF VInv, Lists
    <2>3. h \notin on /\ place' = place /\ hooks' = [hooks EXCEPT ![w] = Append(s, h)]
      <3>1. DoHook(w, Append(s, h)) /\ h \notin on /\ place' = place
        BY <1>5, <2>1, <2>2 DEF Enable
      <3> QED
        BY <3>1 DEF DoHook
    <2>4. PICK c : c = Chains[w] /\ c = Names(CallbackOf, s)
      <3>1. Chains[w] = Names(CallbackOf, s)
        BY <1>2, <2>2
      <3> QED
        BY <3>1
    <2>5. Chains' = [Chains EXCEPT ![w] = Append(c, CallbackOf[h])]
      <3>1. Names(CallbackOf, Append(s, h)) = Append(c, CallbackOf[h])
        <4>1. CallbackOf \in [Hook -> Callback]
          BY Tables
        <4>2. Names(CallbackOf, Append(s, h)) = Append(Names(CallbackOf, s), CallbackOf[h])
          BY <4>1, NamesAppended
        <4> QED
          BY <2>4, <4>2, Zenon
      <3>2. \A v \in Word : hooks'[v] = IF v = w THEN Append(s, h) ELSE hooks[v]
        BY <2>3 DEF VInv, Lists
      <3> QED
        BY <1>2, <3>1, <3>2
    <2>6. ASSUME NEW v \in Word
          PROVE  CallbackOf[h] \notin Promise!ToSet(Chains[v])
      <3>1. PICK u \in Seq(Hook) : u = hooks[v] /\ ToSet(u) = {g \in on : place[g] = v}
        BY DEF VInv, Lists
      <3>2. AreNames(Chains[v], CallbackOf, u, Callback)
        BY <1>2, <3>1, Tables, NamesProperties
      <3>3. ASSUME NEW i \in DOMAIN Chains[v], Chains[v][i] = CallbackOf[h]
            PROVE  FALSE
        <4>1. i \in 1 .. Len(u) /\ CallbackOf[u[i]] = CallbackOf[h]
          BY <3>2, <3>3 DEF AreNames
        <4>2. u[i] \in Hook /\ u[i] \in ToSet(u)
          BY <4>1, ElementOfSeq, LenProperties DEF ToSet
        <4>3. u[i] = h
          BY <4>1, <4>2, Tables
        <4> QED
          BY <2>3, <3>1, <4>2, <4>3
      <3> QED
        BY <3>3 DEF Promise!ToSet
    <2>7. Promise!Join(h)
      BY <1>2, <2>1, <2>3, <2>4, <2>5, <2>6 DEF Promise!Join
    <2> QED
      BY <2>7 DEF Promise!Next
  <1>6. ASSUME NEW h \in Hook, Disable(h)
        PROVE  [Promise!Next]_<<place, Chains, Ends>>
    <2>1. PICK w \in Word : w = place[h]
      BY <1>6 DEF Disable, VInv, Lists
    <2>2. PICK s \in Seq(Hook) : s = hooks[w]
      BY DEF VInv, Lists
    <2>3. PICK k \in 1 .. Len(s) : /\ s[k] = h /\ place' = place
                                   /\ hooks' = [hooks EXCEPT ![w] = RemoveAt(s, k)]
      <3>1. PICK k \in DOMAIN s : s[k] = h /\ place' = place /\ DoHook(w, RemoveAt(s, k))
        BY <1>6, <2>1, <2>2 DEF Disable
      <3> QED
        BY <3>1, LenProperties DEF DoHook
    <2>4. PICK c : c = Chains[w] /\ c = Names(CallbackOf, s)
      <3>1. Chains[w] = Names(CallbackOf, s)
        BY <1>2, <2>2
      <3> QED
        BY <3>1
    <2>5. k \in DOMAIN c /\ c[k] = CallbackOf[h]
      <3>1. AreNames(c, CallbackOf, s, Callback)
        <4>1. CallbackOf \in [Hook -> Callback]
          BY Tables
        <4>2. AreNames(Names(CallbackOf, s), CallbackOf, s, Callback)
          BY <4>1, NamesProperties
        <4> QED
          BY <2>4, <4>2, Zenon
      <3> QED
        BY <2>3, <3>1 DEF AreNames
    <2>6. Chains' = [Chains EXCEPT ![w] = RemoveAt(c, k)]
      <3>1. Names(CallbackOf, RemoveAt(s, k)) = RemoveAt(c, k)
        <4>1. CallbackOf \in [Hook -> Callback]
          BY Tables
        <4>2. Names(CallbackOf, RemoveAt(s, k)) = RemoveAt(Names(CallbackOf, s), k)
          <5>1. NamesWithout(CallbackOf, s, k)
            BY <4>1, NamesRemoved
          <5> QED
            BY <5>1 DEF NamesWithout
        <4> QED
          BY <2>4, <4>2, Zenon
      <3>2. \A v \in Word : hooks'[v] = IF v = w THEN RemoveAt(s, k) ELSE hooks[v]
        BY <2>3 DEF VInv, Lists
      <3> QED
        BY <1>2, <3>1, <3>2
    <2>7. Promise!RemoveAt(c, k) = RemoveAt(c, k)
      BY DEF Promise!RemoveAt, RemoveAt
    <2>8. /\ k \in DOMAIN Chains[w]
          /\ place[h] = w /\ Chains[w][k] = CallbackOf[h]
          /\ Chains' = [Chains EXCEPT ![w] = Promise!RemoveAt(Chains[w], k)]
          /\ place' = place /\ Ends' = Ends
      <3>1. Chains' = [Chains EXCEPT ![w] = Promise!RemoveAt(c, k)]
        BY <2>6, <2>7, Zenon
      <3> QED
        BY <1>2, <2>1, <2>3, <2>4, <2>5, <3>1, Zenon
    <2>9. Promise!Leave(h)
      BY <2>1, <2>8, Zenon DEF Promise!Leave
    <2> QED
      BY <2>9 DEF Promise!Next
  <1>7. CASE Booted
    <2>1. place' = place /\ Chains' = Chains
      BY <1>3, <1>7 DEF Booted
    <2> QED
      BY <1>2, <2>1
  <1>8. CASE UNCHANGED vars
    <2>1. place' = place /\ Chains' = Chains
      BY <1>3, <1>8 DEF vars
    <2> QED
      BY <1>2, <2>1
  <1> QED
    BY <1>4, <1>5, <1>6, <1>7, <1>8 DEF Next

\* CVirtualHookFunc implements HookOrder: whichever hooks are loaded and switched on
\* and off, for any tables, a call through a word changes only by the hook that joins or
\* leaves it, and always ends in what the game has at that word.
THEOREM KeepsOrder == Spec => KeepsHookOrder
  <1>1. Init => Promise!Init
    BY LedInit
  <1>2. VInv /\ VInv' /\ [Next]_vars => [Promise!Next]_<<place, Chains, Ends>>
    BY LedStep
  <1> QED
    BY <1>1, <1>2, Invariance, PTL DEF Spec, Promise!Spec, KeepsHookOrder

-----------------------------------------------------------------------------
(***************************************************************************)
(* The pointers of callbacks whose hooks are off.                          *)
(***************************************************************************)

\* The pointers of the callbacks end in code of the game.
PointersLeadOut == Ranked(inner, Callback, GameCode, NULL)

\* What one step does to the pointers: nothing but what the list of one word asks for.
Relinked(w) ==
    \A c \in Callback : inner'[c] = inner[c] \/ \E i \in DOMAIN hooks'[w] : CallbackOf[hooks'[w][i]] = c

LEMMA StepRelinks ==
    ASSUME VInv, [Next]_vars
    PROVE  inner' = inner \/ \E w \in Word : Relinked(w)
  <1>1. ASSUME NEW w \in Word, NEW hs, DoHook(w, hs)
        PROVE  Relinked(w)
    <2>1. hooks'[w] = hs
      BY <1>1 DEF DoHook, VInv, Lists
    <2>2. \A c \in Callback : inner'[c] = inner[c] \/ \E i \in DOMAIN hs : CallbackOf[hs[i]] = c
      BY <1>1 DEF DoHook
    <2> QED
      BY <2>1, <2>2 DEF Relinked
  <1>2. ASSUME NEW h \in Hook, Load(h)
        PROVE  inner' = inner
    BY <1>2 DEF Load
  <1>3. ASSUME NEW h \in Hook, Enable(h)
        PROVE  \E w \in Word : Relinked(w)
    <2>1. PICK w \in Word : w = place[h]
      BY <1>3 DEF Enable, VInv, Lists
    <2>2. DoHook(w, Append(hooks[w], h))
      BY <1>3, <2>1 DEF Enable
    <2> QED
      BY <1>1, <2>2
  <1>4. ASSUME NEW h \in Hook, Disable(h)
        PROVE  \E w \in Word : Relinked(w)
    <2>1. PICK w \in Word : w = place[h]
      BY <1>4 DEF Disable, VInv, Lists
    <2>2. PICK k \in DOMAIN hooks[w] : DoHook(w, RemoveAt(hooks[w], k))
      BY <1>4, <2>1 DEF Disable
    <2> QED
      BY <1>1, <2>2
  <1>5. CASE Booted
    BY <1>5 DEF Booted
  <1>6. CASE UNCHANGED vars
    BY <1>6 DEF vars
  <1> QED
    BY <1>2, <1>3, <1>4, <1>5, <1>6 DEF Next

\* The callbacks of the list move above all others, in its order.
LEMMA RankStep ==
    ASSUME VInv, VInv', PointersLeadOut, NEW w \in Word, Relinked(w)
    PROVE  PointersLeadOut'
  <1> DEFINE hs == hooks'[w]
  <1>1. PICK n \in Nat : n = Len(hs) /\ DOMAIN hs = 1 .. n
    BY LenProperties DEF VInv, Lists
  <1>2. \A i \in 1 .. n : hs[i] \in Hook /\ CallbackOf[hs[i]] \in Callback
    <2>1. hs \in Seq(Hook)
      BY DEF VInv, Lists
    <2> QED
      BY <1>1, <2>1, ElementOfSeq, Tables
  <1>3. \A i \in 1 .. n : inner'[CallbackOf[hs[i]]] = IF i = n THEN Pristine[w] ELSE CallbackOf[hs[i + 1]]
    <2>1. \A i \in 1 .. n : inner'[CallbackOf[hs[i]]] = NextInner(hs, i, w)
      BY <1>1 DEF VInv, Links, NextInner
    <2> QED
      BY <1>1, <2>1 DEF NextInner
  <1>4. PICK c : c = [i \in 1 .. n |-> CallbackOf[hs[i]]]
    OBVIOUS
  <1>5. PICK new, old, t : new = inner' /\ old = inner /\ t = Pristine[w]
    OBVIOUS
  <1>6. c \in [1 .. n -> Callback] /\ \A i, j \in 1 .. n : c[i] = c[j] => i = j
    <2>1. ASSUME NEW i \in 1 .. n, NEW j \in 1 .. n, c[i] = c[j]
          PROVE  i = j
      <3>1. hs[i] = hs[j]
        BY <1>2, <1>4, <2>1, Tables
      <3> QED
        BY <1>1, <3>1 DEF VInv, Lists, IsInjective
    <2> QED
      BY <1>2, <1>4, <2>1
  <1>7. LeadsAlong(new, old, Callback, c, n, t)
    <2>1. \A i \in 1 .. n : new[c[i]] = IF i = n THEN t ELSE c[i + 1]
      <3> TAKE i \in 1 .. n
      <3>1. i = n \/ i + 1 \in 1 .. n
        OBVIOUS
      <3> QED
        BY <1>3, <1>4, <1>5, <3>1
    <2>2. \A e \in Callback : new[e] = old[e] \/ \E i \in 1 .. n : c[i] = e
      BY <1>1, <1>4, <1>5 DEF Relinked
    <2> QED
      BY <2>1, <2>2 DEF LeadsAlong
  <1>8. Ranked(old, Callback, GameCode, NULL)
    BY <1>5 DEF PointersLeadOut
  <1>9. NULL \notin Callback \cup GameCode /\ t \in GameCode
    BY <1>5, Tables
  <1>10. Ranked(new, Callback, GameCode, NULL)
    BY <1>6, <1>7, <1>8, <1>9, StillRanked
  <1> QED
    BY <1>5, <1>10 DEF PointersLeadOut

LEMMA RanksExist == Spec => []PointersLeadOut
  <1>1. Init => PointersLeadOut
    <2> SUFFICES ASSUME Init
                 PROVE  PointersLeadOut
      OBVIOUS
    <2>1. PICK rank : rank = [c \in Callback |-> 0]
      OBVIOUS
    <2>2. rank \in [Callback -> 0 .. 0] /\ 0 \in Nat
      BY <2>1
    <2>3. Rises(inner, Callback, GameCode, NULL, rank)
      BY DEF Init, Rises
    <2> QED
      BY <2>2, <2>3 DEF Ranked, PointersLeadOut
  <1>2. VInv /\ VInv' /\ PointersLeadOut /\ [Next]_vars => PointersLeadOut'
    <2> SUFFICES ASSUME VInv, VInv', PointersLeadOut, [Next]_vars
                 PROVE  PointersLeadOut'
      OBVIOUS
    <2>1. CASE inner' = inner
      BY <2>1 DEF PointersLeadOut
    <2>2. ASSUME NEW w \in Word, Relinked(w)
          PROVE  PointersLeadOut'
      BY <2>2, RankStep
    <2> QED
      BY <2>1, <2>2, StepRelinks
  <1> QED
    BY <1>1, <1>2, Invariance, PTL DEF Spec

\* There are no more callbacks than hooks.
LEMMA CallbackBound ==
    /\ IsFiniteSet(Callback) /\ Cardinality(Callback) \in Nat /\ Cardinality(Hook) \in Nat
    /\ Cardinality(Callback) <= Cardinality(Hook)
  <1>1. CallbackOf \in Surjection(Hook, Callback)
    BY Tables DEF Callback, Surjection
  <1> QED
    BY <1>1, Tables, FS_Surjection, FS_CardinalityType

\* A call that is inside a callback whose hook is switched off comes out in the game.
THEOREM OldPointersLeadOut == Spec => []OldPointersEnd
  <1>1. ASSUME VInv, PointersLeadOut, NEW c \in Callback, inner[c] # NULL
        PROVE  Path(inner[c])[MaxHops] \in GameCode
    <2>1. PICK m \in Nat : m = MaxHops /\ 1 <= m /\ Cardinality(Callback) < m
      BY HopsKnown, CallbackBound
    <2>2. PICK h, next : h = Path(inner[c]) /\ next = Follow
      OBVIOUS
    <2>3. h[1] = inner[c] /\ Goes(h, m, next)
      BY <2>1, <2>2, HopsKnown
    <2>4. /\ \A e \in Callback : next[e] = inner[e]
          /\ \A g \in GameCode : next[g] \in GameCode
      BY <2>2, Signposts
    <2>5. PICK k \in 1 .. m : h[k] \in GameCode
      <3>1. CASE inner[c] \in GameCode
        <4>1. 1 \in 1 .. m
          BY <2>1
        <4> QED
          BY <2>3, <3>1, <4>1
      <3>2. CASE inner[c] \notin GameCode
        <4>1. h[1] \in Callback /\ inner[h[1]] # NULL
          BY <1>1, <2>3, <3>2 DEF PointersLeadOut, Ranked, Rises
        <4>2. NULL \notin Callback /\ Callback \cap GameCode = {}
          BY Tables
        <4>3. ComesTo(h, m, Callback, GameCode)
          BY <1>1, <2>1, <2>3, <2>4, <4>1, <4>2, CallbackBound, WayEnds DEF PointersLeadOut
        <4>4. PICK k \in 1 .. m - 1 : h[k + 1] \in GameCode
          BY <4>3 DEF ComesTo
        <4>5. k + 1 \in 1 .. m
          OBVIOUS
        <4> QED
          BY <4>4, <4>5
      <3> QED
        BY <3>1, <3>2
    <2>6. h[m] \in GameCode
      BY <2>3, <2>4, <2>5, WayStays
    <2> QED
      BY <2>1, <2>2, <2>6
  <1>2. VInv /\ PointersLeadOut => OldPointersEnd
    BY <1>1 DEF OldPointersEnd
  <1> QED
    BY <1>2, Invariance, RanksExist, PTL
=============================================================================
