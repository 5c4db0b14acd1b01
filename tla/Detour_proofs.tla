----------------------------- MODULE Detour_proofs -----------------------------
(***************************************************************************)
(* Proofs about the function detours, DetouredFunc, and about the calls    *)
(* through them, DetourCall, for any number of functions, detours, traces, *)
(* chunks, calls in progress and changes inside of them.                   *)
(*                                                                         *)
(* The first half proves the properties of DetouredFunc together, as none  *)
(* of them is inductive alone: the chain of Reconfigure is whole because   *)
(* no two enabled detours share a callback (Flags), no detour is listed    *)
(* twice (Lists), the prologue was saved while the entry was the           *)
(* function's own code (Nodes), and a jump is in place exactly when        *)
(* something is listed (Links).                                            *)
(*                                                                         *)
(* The second half is about calls.  A callback whose detour is disabled    *)
(* keeps its inner pointer, and a call that is inside it goes on through   *)
(* that.  Pointers only ever lead to a detour that comes later in the      *)
(* order of priority and then of the time of enabling, or to a trampoline  *)
(* that stays until CDetouredFunc::CleanUp runs.  When that happens in the *)
(* middle of a call, the function is cut: what the proofs keep about such  *)
(* calls is weaker, and what they show is that no other call notices.      *)
(***************************************************************************)
EXTENDS DetourCall, ListLemmas, TLAPS

\* The flags of the objects and CDetour::s_LoadedDetours.
Flags ==
    /\ loaded \subseteq Object /\ active \subseteq loaded
    /\ registered = loaded \cap Detour
    /\ \A d, e \in registered : CallbackOf[d] = CallbackOf[e] => d = e

\* The lists hold the enabled objects of their function.
Lists ==
    /\ detours \in [Func -> Seq(Detour)]
    /\ traces \in [Func -> Seq(Trace)]
    /\ ActiveIsListed

\* The entries of s_FuncMap and their chunks.
Nodes ==
    /\ funcMap \subseteq Func
    /\ trampoline \in [Func -> TChunk \cup {NULL}]
    /\ wrapper \in [Func -> WChunk \cup {NULL}]
    /\ original \in [Func -> Entry \cup {NULL}]
    /\ trampCode \in [TChunk -> Entry \cup {NULL}]
    /\ wrapperFunc \in [WChunk -> Func \cup {NULL}]
    /\ \A f \in funcMap :
          /\ trampoline[f] \in TChunk /\ wrapper[f] \in WChunk
          /\ original[f] = f /\ trampCode[trampoline[f]] = f
          /\ wrapperFunc[wrapper[f]] = f
    /\ ChunksAreOwned

\* What Reconfigure writes.
Links ==
    /\ inner \in [Callback -> Ptr \cup {NULL}]
    /\ bytes \in [Func -> Entry]
    /\ wrapperInner \in [Func -> Ptr \cup {NULL}]
    /\ jumpInstalled \in [Func -> BOOLEAN]
    /\ \A f \in Func : detours[f] # <<>> \/ traces[f] # <<>> => f \in funcMap
    /\ EntryFollowsLists
    /\ ChainIsWhole

IInv == Flags /\ Lists /\ Nodes /\ Links /\ ByPriority

\* The parts make up the properties of the runs.
LEMMA PartsSuffice ==
    IInv => /\ TypeOK /\ ActiveIsListed /\ EntryFollowsLists /\ ChainIsWhole
            /\ ByPriority /\ ChunksAreOwned /\ EnabledCallbacksDiffer
  <1> SUFFICES ASSUME IInv
               PROVE  TypeOK /\ EnabledCallbacksDiffer
    BY DEF IInv, Lists, Nodes, Links
  <1>1. TypeOK
    BY DEF IInv, Flags, Lists, Nodes, Links, TypeOK
  <1>2. EnabledCallbacksDiffer
    BY DEF IInv, Flags, EnabledCallbacksDiffer
  <1> QED
    BY <1>1, <1>2

\* At first nothing is loaded, listed or detoured.
LEMMA InitHolds == Init => IInv
  <1> SUFFICES ASSUME Init
               PROVE  IInv
    OBVIOUS
  <1>1. Flags
    BY DEF Init, Flags
  <1>2. Lists
    <2>1. <<>> \in Seq(Detour) /\ <<>> \in Seq(Trace)
      OBVIOUS
    <2>2. ToSet(<<>>) = {} /\ IsInjective(<<>>)
      BY DEF ToSet, IsInjective
    <2> QED
      BY <2>1, <2>2 DEF Init, Lists, ActiveIsListed
  <1>3. Nodes
    BY DEF Init, Nodes, ChunksAreOwned
  <1>4. Links
    <2>1. \A f \in Func : JumpTarget(detours[f], traces[f], wrapper[f]) = NULL
      BY DEF Init, JumpTarget
    <2>2. EntryFollowsLists
      BY <2>1 DEF Init, EntryFollowsLists
    <2>3. ChainIsWhole
      BY DEF Init, ChainIsWhole
    <2> QED
      BY <2>2, <2>3 DEF Init, Links, Entry
  <1>5. ByPriority
    BY DEF Init, ByPriority
  <1> QED
    BY <1>1, <1>2, <1>3, <1>4, <1>5 DEF IInv

\* CDetouredFunc::Find keeps the chunks in order and leaves the other entries alone.
LEMMA FindHolds ==
    ASSUME Nodes, bytes \in [Func -> Entry],
           NEW f \in Func, NEW t \in TChunk, NEW w \in WChunk,
           f \notin funcMap => bytes[f] = f,
           Find(f, t, w)
    PROVE  /\ Nodes' /\ funcMap' = funcMap \cup {f}
           /\ trampoline' = [trampoline EXCEPT ![f] = t]
           /\ wrapper' = [wrapper EXCEPT ![f] = w]
  <1>1. CASE f \in funcMap
    <2>1. t = trampoline[f] /\ w = wrapper[f] /\ UNCHANGED nodeVars
      BY <1>1 DEF Find
    <2> QED
      BY <1>1, <2>1 DEF nodeVars, Nodes, ChunksAreOwned
  <1>2. CASE f \notin funcMap
    <2>1. /\ funcMap' = funcMap \cup {f}
          /\ wrapperFunc[w] = NULL
          /\ wrapper' = [wrapper EXCEPT ![f] = w]
          /\ wrapperFunc' = [wrapperFunc EXCEPT ![w] = f]
          /\ trampCode[t] = NULL
          /\ trampoline' = [trampoline EXCEPT ![f] = t]
          /\ trampCode' = [trampCode EXCEPT ![t] = f]
          /\ original' = [original EXCEPT ![f] = f]
      BY <1>2 DEF Find, CreateWrapper, CreateTrampoline
    <2>2. \A g \in funcMap : trampoline[g] # t /\ wrapper[g] # w
      BY <2>1 DEF Nodes, ChunksAreOwned
    <2>3. f \in Entry /\ f # NULL
      BY DisjointCode DEF Entry
    <2>4. ASSUME NEW g \in funcMap'
          PROVE  /\ trampoline'[g] \in TChunk /\ wrapper'[g] \in WChunk
                 /\ original'[g] = g /\ trampCode'[trampoline'[g]] = g
                 /\ wrapperFunc'[wrapper'[g]] = g
      <3>1. CASE g = f
        BY <2>1, <3>1 DEF Nodes
      <3>2. CASE g # f
        <4>1. g \in funcMap /\ trampoline'[g] = trampoline[g] /\ wrapper'[g] = wrapper[g]
          BY <2>1, <3>2 DEF Nodes
        <4> QED
          BY <2>1, <2>2, <3>2, <4>1 DEF Nodes
      <3> QED
        BY <3>1, <3>2
    <2>5. ChunksAreOwned'
      <3>1. ASSUME NEW c \in TChunk
            PROVE  trampCode'[c] # NULL <=> \E g \in funcMap' : trampoline'[g] = c
        <4>1. CASE c = t
          BY <2>1, <2>3, <4>1 DEF Nodes
        <4>2. CASE c # t
          <5>1. trampCode'[c] = trampCode[c]
            BY <2>1, <4>2 DEF Nodes
          <5>2. \A g \in funcMap : trampoline'[g] = trampoline[g]
            BY <1>2, <2>1 DEF Nodes
          <5>3. trampoline'[f] = t
            BY <2>1 DEF Nodes
          <5>4. trampCode[c] # NULL <=> \E g \in funcMap : trampoline[g] = c
            BY DEF Nodes, ChunksAreOwned
          <5> QED
            BY <2>1, <4>2, <5>1, <5>2, <5>3, <5>4
        <4> QED
          BY <4>1, <4>2
      <3>2. ASSUME NEW c \in WChunk
            PROVE  wrapperFunc'[c] # NULL <=> \E g \in funcMap' : wrapper'[g] = c
        <4>1. CASE c = w
          BY <2>1, <2>3, <4>1 DEF Nodes
        <4>2. CASE c # w
          <5>1. wrapperFunc'[c] = wrapperFunc[c]
            BY <2>1, <4>2 DEF Nodes
          <5>2. \A g \in funcMap : wrapper'[g] = wrapper[g]
            BY <1>2, <2>1 DEF Nodes
          <5>3. wrapper'[f] = w
            BY <2>1 DEF Nodes
          <5>4. wrapperFunc[c] # NULL <=> \E g \in funcMap : wrapper[g] = c
            BY DEF Nodes, ChunksAreOwned
          <5> QED
            BY <2>1, <4>2, <5>1, <5>2, <5>3, <5>4
        <4> QED
          BY <4>1, <4>2
      <3>3. ASSUME NEW g \in funcMap', NEW h \in funcMap', g # h
            PROVE  trampoline'[g] # trampoline'[h] /\ wrapper'[g] # wrapper'[h]
        BY <2>4, <3>3
      <3> QED
        BY <3>1, <3>2, <3>3 DEF ChunksAreOwned
    <2>6. /\ funcMap' \subseteq Func
          /\ trampoline' \in [Func -> TChunk \cup {NULL}]
          /\ wrapper' \in [Func -> WChunk \cup {NULL}]
          /\ original' \in [Func -> Entry \cup {NULL}]
          /\ trampCode' \in [TChunk -> Entry \cup {NULL}]
          /\ wrapperFunc' \in [WChunk -> Func \cup {NULL}]
      BY <2>1, <2>3 DEF Nodes
    <2> QED
      BY <2>1, <2>4, <2>5, <2>6 DEF Nodes
  <1> QED
    BY <1>1, <1>2

\* While the entry of f is not in s_FuncMap its bytes are those of the game, and
\* taking out a jump that is in place brings those back.
LEMMA Pristine ==
    ASSUME Nodes, Links, NEW f \in Func
    PROVE  /\ f \notin funcMap => bytes[f] = f
           /\ Uninstalled(f) = f
  <1>1. jumpInstalled[f] => f \in funcMap /\ original[f] = f
    BY DEF Links, EntryFollowsLists, Nodes
  <1>2. ~jumpInstalled[f] => bytes[f] = f
    BY DEF Links, EntryFollowsLists
  <1> QED
    BY <1>1, <1>2 DEF Uninstalled, Links, EntryFollowsLists

\* CDetouredFunc::Reconfigure makes the jump and the chain of f follow its lists, and
\* disturbs the chain of no other function.
LEMMA Relink ==
    ASSUME Nodes, Links, Lists,
           NEW f \in Func, NEW t \in TChunk, NEW w \in WChunk,
           NEW ds \in Seq(Detour), NEW ts \in Seq(Trace),
           Nodes', funcMap' = funcMap \cup {f},
           trampoline' = [trampoline EXCEPT ![f] = t],
           wrapper' = [wrapper EXCEPT ![f] = w],
           detours' = [detours EXCEPT ![f] = ds],
           traces' = [traces EXCEPT ![f] = ts],
           Lists', EnabledCallbacksDiffer',
           Reconfigure(f, t, w, ds, ts)
    PROVE  Links'
  <1> DEFINE target == JumpTarget(ds, ts, w)
  <1>1. /\ inner' = [c \in Callback |->
              IF PositionsOf(ds, c) = {} THEN inner[c]
              ELSE NextInner(ds, CHOOSE i \in PositionsOf(ds, c) :
                                    \A j \in PositionsOf(ds, c) : i <= j, t)]
        /\ wrapperInner' = [wrapperInner EXCEPT ![f] =
              IF ts = <<>> THEN @
              ELSE IF ds = <<>> THEN t ELSE CallbackOf[ds[1]]]
        /\ bytes' = [bytes EXCEPT ![f] = IF target = NULL THEN Uninstalled(f) ELSE target]
        /\ jumpInstalled' = [jumpInstalled EXCEPT ![f] = target # NULL]
    BY DEF Reconfigure
  <1>2. /\ detours'[f] = ds /\ traces'[f] = ts
        /\ trampoline'[f] = t /\ wrapper'[f] = w
    BY DEF Lists, Nodes
  <1>3. ASSUME NEW g \in Func, g # f
        PROVE  /\ detours'[g] = detours[g] /\ traces'[g] = traces[g]
               /\ trampoline'[g] = trampoline[g] /\ wrapper'[g] = wrapper[g]
    BY <1>3 DEF Lists, Nodes
  <1>4. \A i \in DOMAIN ds : ds[i] \in Detour /\ CallbackOf[ds[i]] \in Callback
    BY ElementOfSeq, LenProperties, DetourObjects
  <1>5. ds # <<>> => 1 \in DOMAIN ds
    BY LenProperties, EmptySeq
  <1>6. /\ target # NULL <=> ds # <<>> \/ ts # <<>>
        /\ target \in Entry \cup {NULL}
    BY <1>4, <1>5, DisjointCode DEF JumpTarget, Entry
  <1>7. Uninstalled(f) = f
    BY Pristine
  <1>8. ASSUME NEW g \in Func, NEW h \in Func,
               NEW i \in DOMAIN detours'[g], NEW j \in DOMAIN detours'[h],
               CallbackOf[detours'[g][i]] = CallbackOf[detours'[h][j]]
        PROVE  g = h /\ i = j
    <2>1. /\ detours'[g][i] \in active' \cap Detour /\ FuncOf[detours'[g][i]] = g
          /\ detours'[h][j] \in active' \cap Detour /\ FuncOf[detours'[h][j]] = h
      BY DEF Lists, ActiveIsListed, ToSet
    <2>2. detours'[g][i] = detours'[h][j]
      BY <1>8, <2>1 DEF EnabledCallbacksDiffer
    <2>3. g = h
      BY <2>1, <2>2
    <2> QED
      BY <2>2, <2>3 DEF Lists, ActiveIsListed, IsInjective
  <1>9. ASSUME NEW i \in DOMAIN ds
        PROVE  NextInner(ds, i, t) \in Ptr
    <2>1. i # Len(ds) => i + 1 \in DOMAIN ds
      BY LenProperties
    <2> QED
      BY <1>4, <2>1 DEF NextInner, Ptr
  <1>10. ASSUME NEW i \in DOMAIN ds
         PROVE  inner'[CallbackOf[ds[i]]] = NextInner(ds, i, t)
    <2>1. PositionsOf(ds, CallbackOf[ds[i]]) = {i}
      BY <1>2, <1>8 DEF PositionsOf
    <2>2. i <= i
      BY LenProperties
    <2>3. (CHOOSE k \in {i} : \A j \in {i} : k <= j) = i
      BY <2>2
    <2> QED
      BY <1>1, <1>4, <2>1, <2>3
  <1>11. ASSUME NEW g \in Func, g # f, NEW i \in DOMAIN detours[g]
         PROVE  inner'[CallbackOf[detours[g][i]]] = inner[CallbackOf[detours[g][i]]]
    <2>1. PositionsOf(ds, CallbackOf[detours[g][i]]) = {}
      BY <1>2, <1>3, <1>8, <1>11 DEF PositionsOf
    <2>2. CallbackOf[detours[g][i]] \in Callback
      BY ElementOfSeq, LenProperties, DetourObjects DEF Lists
    <2> QED
      BY <1>1, <2>1, <2>2
  <1>12. inner' \in [Callback -> Ptr \cup {NULL}]
    <2>1. ASSUME NEW c \in Callback, PositionsOf(ds, c) # {}
          PROVE  inner'[c] \in Ptr
      <3>1. PICK i \in DOMAIN ds : CallbackOf[ds[i]] = c
        BY <2>1 DEF PositionsOf
      <3> QED
        BY <1>9, <1>10, <3>1
    <2> QED
      BY <1>1, <2>1 DEF Links
  <1>13. bytes' \in [Func -> Entry] /\ jumpInstalled' \in [Func -> BOOLEAN]
    BY <1>1, <1>6, <1>7 DEF Links, Entry
  <1>14. wrapperInner' \in [Func -> Ptr \cup {NULL}]
    BY <1>1, <1>4, <1>5 DEF Links, Ptr
  <1>15. ASSUME NEW g \in Func, detours'[g] # <<>> \/ traces'[g] # <<>>
         PROVE  g \in funcMap'
    BY <1>3, <1>15 DEF Links
  <1>16. EntryFollowsLists'
    <2> SUFFICES ASSUME NEW g \in Func
                 PROVE  LET target1 == JumpTarget(detours'[g], traces'[g], wrapper'[g]) IN
                        /\ bytes'[g] = IF target1 = NULL THEN g ELSE target1
                        /\ jumpInstalled'[g] = (target1 # NULL)
                        /\ target1 # NULL => g \in funcMap'
                        /\ g \in funcMap' => original'[g] = g /\ trampCode'[trampoline'[g]] = g
      BY DEF EntryFollowsLists, JumpTarget
    <2>1. g \in funcMap' => original'[g] = g /\ trampCode'[trampoline'[g]] = g
      BY DEF Nodes
    <2>2. CASE g = f
      BY <1>1, <1>2, <1>6, <1>7, <2>1, <2>2 DEF Links
    <2>3. CASE g # f
      <3>1. bytes'[g] = bytes[g] /\ jumpInstalled'[g] = jumpInstalled[g]
        BY <1>1, <2>3 DEF Links
      <3>2. g \in funcMap => g \in funcMap'
        OBVIOUS
      <3> QED
        BY <1>3, <2>1, <2>3, <3>1, <3>2 DEF Links, EntryFollowsLists
    <2> QED
      BY <2>2, <2>3
  <1>17. ChainIsWhole'
    <2> SUFFICES ASSUME NEW g \in Func
                 PROVE  /\ \A i \in DOMAIN detours'[g] :
                             inner'[CallbackOf[detours'[g][i]]]
                                = NextInner(detours'[g], i, trampoline'[g])
                        /\ traces'[g] # <<>> =>
                             wrapperInner'[g] = IF detours'[g] = <<>> THEN trampoline'[g]
                                                ELSE CallbackOf[detours'[g][1]]
      BY DEF ChainIsWhole, NextInner
    <2>1. CASE g = f
      BY <1>1, <1>2, <1>10, <2>1 DEF Links
    <2>2. CASE g # f
      <3>1. wrapperInner'[g] = wrapperInner[g]
        BY <1>1, <2>2 DEF Links
      <3> QED
        BY <1>3, <1>11, <2>2, <3>1 DEF Links, ChainIsWhole
    <2> QED
      BY <2>1, <2>2
  <1> QED
    BY <1>12, <1>13, <1>14, <1>15, <1>16, <1>17 DEF Links

\* A new pair of lists for f, when the objects of the other functions stay as they are.
LEMMA Relist ==
    ASSUME Lists, NEW f \in Func, NEW ds \in Seq(Detour), NEW ts \in Seq(Trace),
           detours' = [detours EXCEPT ![f] = ds],
           traces' = [traces EXCEPT ![f] = ts],
           IsInjective(ds), IsInjective(ts),
           ToSet(ds) = {d \in active' \cap Detour : FuncOf[d] = f},
           ToSet(ts) = {x \in active' \cap Trace : FuncOf[x] = f},
           \A x \in Object : FuncOf[x] # f => (x \in active' <=> x \in active)
    PROVE  Lists'
  <1>1. detours' \in [Func -> Seq(Detour)] /\ traces' \in [Func -> Seq(Trace)]
    BY DEF Lists
  <1>2. ASSUME NEW g \in Func
        PROVE  /\ ToSet(detours'[g]) = {d \in active' \cap Detour : FuncOf[d] = g}
               /\ ToSet(traces'[g]) = {x \in active' \cap Trace : FuncOf[x] = g}
               /\ IsInjective(detours'[g]) /\ IsInjective(traces'[g])
    <2>1. CASE g = f
      <3>1. detours'[g] = ds /\ traces'[g] = ts
        BY <2>1 DEF Lists
      <3> QED
        BY <2>1, <3>1
    <2>2. CASE g # f
      <3>1. detours'[g] = detours[g] /\ traces'[g] = traces[g]
        BY <2>2 DEF Lists
      <3>2. /\ {d \in active' \cap Detour : FuncOf[d] = g}
                 = {d \in active \cap Detour : FuncOf[d] = g}
            /\ {x \in active' \cap Trace : FuncOf[x] = g}
                 = {x \in active \cap Trace : FuncOf[x] = g}
        BY <2>2 DEF Object
      <3> QED
        BY <3>1, <3>2 DEF Lists, ActiveIsListed
    <2> QED
      BY <2>1, <2>2
  <1> QED
    BY <1>1, <1>2 DEF Lists, ActiveIsListed, ToSet, IsInjective

\* The list that the sort of AddDetour leaves is in descending order.
LEMMA InsertedInOrder ==
    ASSUME NEW s \in Seq(Detour), NEW d \in Detour, NEW k \in InsertionPoint(s, d),
           \A i, j \in DOMAIN s : i < j => Priority[s[i]] >= Priority[s[j]],
           NEW i \in DOMAIN InsertAt(s, k, d), NEW j \in DOMAIN InsertAt(s, k, d), i < j
    PROVE  Priority[InsertAt(s, k, d)[i]] >= Priority[InsertAt(s, k, d)[j]]
  <1>1. PICK n \in Nat : n = Len(s) /\ DOMAIN s = 1 .. n
    BY LenProperties
  <1>2. /\ k \in 1 .. n + 1
        /\ \A x \in 1 .. k - 1 : Priority[s[x]] >= Priority[d]
        /\ \A x \in k .. n : Priority[s[x]] < Priority[d]
    BY <1>1 DEF InsertionPoint
  <1>3. PICK r : r = InsertAt(s, k, d)
    OBVIOUS
  <1>4. /\ DOMAIN r = 1 .. n + 1
        /\ \A x \in 1 .. n + 1 : r[x] = IF x < k THEN s[x] ELSE IF x = k THEN d ELSE s[x - 1]
    <2>1. k \in 1 .. Len(s) + 1
      BY <1>1, <1>2
    <2>2. /\ InsertAt(s, k, d) \in Seq(Detour) /\ Len(InsertAt(s, k, d)) = Len(s) + 1
          /\ \A x \in 1 .. Len(s) + 1 : InsertAt(s, k, d)[x] =
                IF x < k THEN s[x] ELSE IF x = k THEN d ELSE s[x - 1]
      BY <2>1, InsertAtProperties
    <2> QED
      BY <1>1, <1>3, <2>2, LenProperties
  <1>5. i \in 1 .. n + 1 /\ j \in 1 .. n + 1
    BY <1>3, <1>4
  <1>6. Priority[d] \in Int /\ \A x \in 1 .. n : Priority[s[x]] \in Int
    BY <1>1, ElementOfSeq, DetourObjects
  <1>7. CASE j < k
    <2>1. i \in 1 .. n /\ j \in 1 .. n /\ i < k
      BY <1>2, <1>5, <1>7
    <2> QED
      BY <1>1, <1>3, <1>4, <1>5, <1>7, <2>1
  <1>8. CASE j = k
    <2>1. i \in 1 .. k - 1 /\ i < k
      BY <1>2, <1>5, <1>8
    <2> QED
      BY <1>2, <1>3, <1>4, <1>5, <1>8, <2>1
  <1>9. CASE k < j
    <2>1. j - 1 \in k .. n /\ j - 1 \in 1 .. n /\ ~(j < k) /\ j # k
      BY <1>2, <1>5, <1>9
    <2>2. r[j] = s[j - 1] /\ Priority[s[j - 1]] < Priority[d]
      BY <1>2, <1>4, <1>5, <2>1
    <2>3. CASE i < k
      <3>1. i \in 1 .. k - 1 /\ i \in 1 .. n
        BY <1>2, <1>5, <2>3
      <3>2. r[i] = s[i] /\ Priority[s[i]] >= Priority[d]
        BY <1>2, <1>4, <1>5, <2>3, <3>1
      <3> QED
        BY <1>3, <1>6, <2>1, <2>2, <3>1, <3>2
    <2>4. CASE i = k
      <3>1. r[i] = d
        BY <1>4, <1>5, <2>4
      <3> QED
        BY <1>3, <1>6, <2>1, <2>2, <3>1
    <2>5. CASE k < i
      <3>1. i - 1 \in 1 .. n /\ i - 1 < j - 1 /\ ~(i < k) /\ i # k
        BY <1>2, <1>5, <2>5
      <3>2. r[i] = s[i - 1]
        BY <1>4, <1>5, <3>1
      <3> QED
        BY <1>1, <1>3, <2>1, <2>2, <3>1, <3>2
    <2> QED
      BY <1>2, <1>5, <2>3, <2>4, <2>5
  <1> QED
    BY <1>2, <1>5, <1>7, <1>8, <1>9

\* Taking a detour out leaves the others in order.
LEMMA RemovedInOrder ==
    ASSUME NEW s \in Seq(Detour), NEW k \in DOMAIN s,
           \A i, j \in DOMAIN s : i < j => Priority[s[i]] >= Priority[s[j]],
           NEW i \in DOMAIN RemoveAt(s, k), NEW j \in DOMAIN RemoveAt(s, k), i < j
    PROVE  Priority[RemoveAt(s, k)[i]] >= Priority[RemoveAt(s, k)[j]]
  <1>1. PICK n \in Nat : n = Len(s) /\ DOMAIN s = 1 .. n
    BY LenProperties
  <1>2. k \in 1 .. n /\ k \in 1 .. Len(s)
    BY <1>1
  <1>3. PICK r : r = RemoveAt(s, k)
    OBVIOUS
  <1>4. /\ DOMAIN r = 1 .. n - 1
        /\ \A x \in 1 .. n - 1 : r[x] = IF x < k THEN s[x] ELSE s[x + 1]
    <2>1. /\ r \in Seq(Detour) /\ Len(r) = n - 1
          /\ \A x \in 1 .. n - 1 : r[x] = IF x < k THEN s[x] ELSE s[x + 1]
      BY <1>1, <1>2, <1>3, RemoveAtProperties
    <2> QED
      BY <2>1, LenProperties
  <1> DEFINE at(x) == IF x < k THEN x ELSE x + 1
  <1>5. at(i) \in 1 .. n /\ at(j) \in 1 .. n /\ at(i) < at(j)
    BY <1>2, <1>3, <1>4
  <1>6. r[i] = s[at(i)] /\ r[j] = s[at(j)]
    BY <1>3, <1>4
  <1> QED
    BY <1>1, <1>3, <1>5, <1>6

-----------------------------------------------------------------------------
(***************************************************************************)
(* The operations.                                                         *)
(***************************************************************************)

\* What an operation that changes the lists of one function leaves to be shown.
LEMMA ListsChanged ==
    ASSUME IInv, Flags',
           NEW f \in Func, NEW t \in TChunk, NEW w \in WChunk, Find(f, t, w),
           NEW ds \in Seq(Detour), NEW ts \in Seq(Trace),
           detours' = [detours EXCEPT ![f] = ds],
           traces' = [traces EXCEPT ![f] = ts],
           Lists', Reconfigure(f, t, w, ds, ts),
           \A i, j \in DOMAIN ds : i < j => Priority[ds[i]] >= Priority[ds[j]]
    PROVE  IInv'
  <1>1. /\ Nodes' /\ funcMap' = funcMap \cup {f}
        /\ trampoline' = [trampoline EXCEPT ![f] = t]
        /\ wrapper' = [wrapper EXCEPT ![f] = w]
    BY Pristine, FindHolds DEF IInv, Links
  <1>2. EnabledCallbacksDiffer'
    BY DEF Flags, EnabledCallbacksDiffer
  <1>3. Links'
    BY <1>1, <1>2, Relink DEF IInv
  <1>4. ByPriority'
    <2>1. \A g \in Func : detours'[g] = IF g = f THEN ds ELSE detours[g]
      BY DEF IInv, Lists
    <2> QED
      BY <2>1 DEF IInv, ByPriority
  <1> QED
    BY <1>1, <1>3, <1>4 DEF IInv

\* IDetour::Enable, with the sort and the Reconfigure of AddDetour and AddTrace.
LEMMA EnableHolds ==
    ASSUME IInv, NEW o \in Object, Enable(o)
    PROVE  IInv'
  <1> DEFINE f == FuncOf[o]
  <1>1. PICK t \in TChunk, w \in WChunk :
          /\ Find(f, t, w)
          /\ IF o \in Trace THEN AddTrace(o, t, w) ELSE AddDetour(o, t, w)
    BY DEF Enable, DoEnable
  <1>2. /\ o \in loaded /\ o \notin active /\ active' = active \cup {o}
        /\ loaded' = loaded /\ registered' = registered
    BY DEF Enable
  <1>3. Flags'
    BY <1>2 DEF IInv, Flags
  <1>4. f \in Func
    BY DetourObjects
  <1>5. /\ detours[f] \in Seq(Detour) /\ traces[f] \in Seq(Trace)
        /\ IsInjective(detours[f]) /\ IsInjective(traces[f])
        /\ ToSet(detours[f]) = {d \in active \cap Detour : FuncOf[d] = f}
        /\ ToSet(traces[f]) = {x \in active \cap Trace : FuncOf[x] = f}
    BY <1>4 DEF IInv, Lists, ActiveIsListed
  <1>6. \A i, j \in DOMAIN detours[f] : i < j => Priority[detours[f][i]] >= Priority[detours[f][j]]
    BY <1>4 DEF IInv, ByPriority
  <1>7. CASE o \in Trace
    <2> DEFINE ts == Append(traces[f], o)
    <2>1. /\ traces' = [traces EXCEPT ![f] = ts] /\ detours' = detours
          /\ Reconfigure(f, t, w, detours[f], ts)
      BY <1>1, <1>7 DEF AddTrace
    <2>2. ts \in Seq(Trace) /\ IsInjective(ts) /\ ToSet(ts) = ToSet(traces[f]) \cup {o}
      BY <1>2, <1>5, <1>7, Appended
    <2> HIDE DEF ts
    <2>3. ToSet(ts) = {x \in active' \cap Trace : FuncOf[x] = f}
      BY <1>2, <1>5, <1>7, <2>2
    <2>4. ToSet(detours[f]) = {d \in active' \cap Detour : FuncOf[d] = f}
      BY <1>2, <1>5, <1>7, DetourObjects
    <2>5. detours' = [detours EXCEPT ![f] = detours[f]]
      BY <2>1 DEF IInv, Lists
    <2>6. \A x \in Object : FuncOf[x] # f => (x \in active' <=> x \in active)
      BY <1>2
    <2> HIDE DEF f
    <2>7. Lists'
      BY <1>4, <1>5, <2>1, <2>2, <2>3, <2>4, <2>5, <2>6, Relist DEF IInv
    <2> QED
      BY <1>1, <1>3, <1>4, <1>5, <1>6, <2>1, <2>2, <2>5, <2>7, ListsChanged
  <1>8. CASE o \notin Trace
    <2>1. o \in Detour
      BY <1>8 DEF Object
    <2>2. PICK k \in InsertionPoint(detours[f], o) :
            /\ detours' = [detours EXCEPT ![f] = InsertAt(detours[f], k, o)]
            /\ traces' = traces
            /\ Reconfigure(f, t, w, InsertAt(detours[f], k, o), traces[f])
      BY <1>1, <1>8 DEF AddDetour
    <2> DEFINE ds == InsertAt(detours[f], k, o)
    <2>3. k \in 1 .. Len(detours[f]) + 1
      BY DEF InsertionPoint
    <2>4. ds \in Seq(Detour) /\ IsInjective(ds) /\ ToSet(ds) = ToSet(detours[f]) \cup {o}
      BY <1>2, <1>5, <2>1, <2>3, Inserted
    <2>5. \A i, j \in DOMAIN ds : i < j => Priority[ds[i]] >= Priority[ds[j]]
      BY <1>5, <1>6, <2>1, InsertedInOrder
    <2>6. /\ detours' = [detours EXCEPT ![f] = ds]
          /\ Reconfigure(f, t, w, ds, traces[f])
      BY <2>2
    <2> HIDE DEF ds
    <2>7. ToSet(ds) = {d \in active' \cap Detour : FuncOf[d] = f}
      BY <1>2, <1>5, <2>1, <2>4
    <2>8. ToSet(traces[f]) = {x \in active' \cap Trace : FuncOf[x] = f}
      BY <1>2, <1>5, <1>8
    <2>9. traces' = [traces EXCEPT ![f] = traces[f]]
      BY <2>2 DEF IInv, Lists
    <2>10. \A x \in Object : FuncOf[x] # f => (x \in active' <=> x \in active)
      BY <1>2
    <2> HIDE DEF f
    <2>11. Lists'
      BY <1>4, <1>5, <2>4, <2>6, <2>7, <2>8, <2>9, <2>10, Relist DEF IInv
    <2> QED
      BY <1>1, <1>3, <1>4, <1>5, <2>4, <2>5, <2>6, <2>9, <2>11, ListsChanged
  <1> QED
    BY <1>7, <1>8

\* IDetour::DoDisable, as Disable and Unload run it.
LEMMA DoDisableHolds ==
    ASSUME IInv, NEW o \in Object, o \in active, DoDisable(o),
           active' = active \ {o}, Flags'
    PROVE  IInv'
  <1> DEFINE f == FuncOf[o]
  <1>1. PICK t \in TChunk, w \in WChunk :
          /\ Find(f, t, w)
          /\ IF o \in Trace THEN RemoveTrace(o, t, w) ELSE RemoveDetour(o, t, w)
    BY DEF DoDisable
  <1>2. f \in Func
    BY DetourObjects
  <1>3. /\ detours[f] \in Seq(Detour) /\ traces[f] \in Seq(Trace)
        /\ IsInjective(detours[f]) /\ IsInjective(traces[f])
        /\ ToSet(detours[f]) = {d \in active \cap Detour : FuncOf[d] = f}
        /\ ToSet(traces[f]) = {x \in active \cap Trace : FuncOf[x] = f}
    BY <1>2 DEF IInv, Lists, ActiveIsListed
  <1>4. \A i, j \in DOMAIN detours[f] : i < j => Priority[detours[f][i]] >= Priority[detours[f][j]]
    BY <1>2 DEF IInv, ByPriority
  <1>5. CASE o \in Trace
    <2>1. PICK k \in DOMAIN traces[f] :
            /\ traces[f][k] = o
            /\ traces' = [traces EXCEPT ![f] = RemoveAt(traces[f], k)]
            /\ detours' = detours
            /\ Reconfigure(f, t, w, detours[f], RemoveAt(traces[f], k))
      BY <1>1, <1>5 DEF RemoveTrace
    <2> DEFINE ts == RemoveAt(traces[f], k)
    <2>2. ts \in Seq(Trace) /\ IsInjective(ts) /\ ToSet(ts) = ToSet(traces[f]) \ {o}
      BY <1>3, <2>1, Removed
    <2>3. /\ traces' = [traces EXCEPT ![f] = ts]
          /\ Reconfigure(f, t, w, detours[f], ts)
      BY <2>1
    <2> HIDE DEF ts
    <2>4. ToSet(ts) = {x \in active' \cap Trace : FuncOf[x] = f}
      BY <1>3, <2>2
    <2>5. ToSet(detours[f]) = {d \in active' \cap Detour : FuncOf[d] = f}
      BY <1>3, <1>5, DetourObjects
    <2>6. detours' = [detours EXCEPT ![f] = detours[f]]
      BY <2>1 DEF IInv, Lists
    <2>7. \A x \in Object : FuncOf[x] # f => (x \in active' <=> x \in active)
      OBVIOUS
    <2> HIDE DEF f
    <2>8. Lists'
      BY <1>2, <1>3, <2>2, <2>3, <2>4, <2>5, <2>6, <2>7, Relist DEF IInv
    <2> QED
      BY <1>1, <1>2, <1>3, <1>4, <2>2, <2>3, <2>6, <2>8, ListsChanged
  <1>6. CASE o \notin Trace
    <2>1. PICK k \in DOMAIN detours[f] :
            /\ detours[f][k] = o
            /\ detours' = [detours EXCEPT ![f] = RemoveAt(detours[f], k)]
            /\ traces' = traces
            /\ Reconfigure(f, t, w, RemoveAt(detours[f], k), traces[f])
      BY <1>1, <1>6 DEF RemoveDetour
    <2> DEFINE ds == RemoveAt(detours[f], k)
    <2>2. ds \in Seq(Detour) /\ IsInjective(ds) /\ ToSet(ds) = ToSet(detours[f]) \ {o}
      BY <1>3, <2>1, Removed
    <2>3. \A i, j \in DOMAIN ds : i < j => Priority[ds[i]] >= Priority[ds[j]]
      BY <1>3, <1>4, RemovedInOrder
    <2>4. /\ detours' = [detours EXCEPT ![f] = ds]
          /\ Reconfigure(f, t, w, ds, traces[f])
      BY <2>1
    <2> HIDE DEF ds
    <2>5. ToSet(ds) = {d \in active' \cap Detour : FuncOf[d] = f}
      BY <1>3, <2>2
    <2>6. ToSet(traces[f]) = {x \in active' \cap Trace : FuncOf[x] = f}
      BY <1>3, <1>6
    <2>7. traces' = [traces EXCEPT ![f] = traces[f]]
      BY <2>1 DEF IInv, Lists
    <2>8. \A x \in Object : FuncOf[x] # f => (x \in active' <=> x \in active)
      OBVIOUS
    <2> HIDE DEF f
    <2>9. Lists'
      BY <1>2, <1>3, <2>2, <2>4, <2>5, <2>6, <2>7, <2>8, Relist DEF IInv
    <2> QED
      BY <1>1, <1>2, <1>3, <2>2, <2>3, <2>4, <2>7, <2>9, ListsChanged
  <1> QED
    BY <1>5, <1>6

\* An operation that touches the flags of objects that are not enabled, and no more.
LEMMA FlagsOnly ==
    ASSUME IInv, Flags', active' = active, UNCHANGED <<nodeVars, linkVars, listVars>>
    PROVE  IInv'
  <1>1. Lists'
    BY DEF listVars, IInv, Lists, ActiveIsListed
  <1>2. Nodes'
    BY DEF nodeVars, IInv, Nodes, ChunksAreOwned
  <1>3. Links'
    <2>1. EntryFollowsLists' /\ ChainIsWhole'
      BY DEF nodeVars, linkVars, listVars, IInv, Links, EntryFollowsLists, ChainIsWhole,
             JumpTarget, NextInner
    <2> QED
      BY <2>1 DEF nodeVars, linkVars, listVars, IInv, Links
  <1>4. ByPriority'
    BY DEF listVars, IInv, ByPriority
  <1> QED
    BY <1>1, <1>2, <1>3, <1>4 DEF IInv

\* CDetouredFunc::CleanUp frees what no list needs.
LEMMA CleanUpHolds == IInv /\ CleanUp => IInv'
  <1> SUFFICES ASSUME IInv, CleanUp
               PROVE  IInv'
    OBVIOUS
  <1> DEFINE freedT == {trampoline[f] : f \in Unused}
             freedW == {wrapper[f] : f \in Unused}
  <1>1. /\ funcMap' = funcMap \ Unused
        /\ bytes' = [f \in Func |-> IF f \in Unused THEN Uninstalled(f) ELSE bytes[f]]
        /\ jumpInstalled' = [f \in Func |-> f \notin Unused /\ jumpInstalled[f]]
        /\ trampCode' = [t \in TChunk |-> IF t \in freedT THEN NULL ELSE trampCode[t]]
        /\ wrapperFunc' = [w \in WChunk |-> IF w \in freedW THEN NULL ELSE wrapperFunc[w]]
        /\ trampoline' = [f \in Func |-> IF f \in Unused THEN NULL ELSE trampoline[f]]
        /\ wrapper' = [f \in Func |-> IF f \in Unused THEN NULL ELSE wrapper[f]]
        /\ original' = [f \in Func |-> IF f \in Unused THEN NULL ELSE original[f]]
        /\ wrapperInner' = [f \in Func |-> IF f \in Unused THEN NULL ELSE wrapperInner[f]]
    BY DEF CleanUp
  <1>2. UNCHANGED <<loaded, registered, active, inner, detours, traces>>
    BY DEF CleanUp, flagVars, listVars
  <1>3. ASSUME NEW f \in Unused
        PROVE  f \in funcMap /\ f \in Func /\ detours[f] = <<>> /\ traces[f] = <<>>
    BY DEF Unused, IInv, Nodes
  <1>4. Flags'
    BY <1>2 DEF IInv, Flags
  <1>5. Lists'
    BY <1>2 DEF IInv, Lists, ActiveIsListed
  <1>6. ASSUME NEW f \in funcMap'
        PROVE  /\ f \in funcMap /\ f \notin Unused /\ f \in Func
               /\ trampoline'[f] = trampoline[f] /\ wrapper'[f] = wrapper[f]
               /\ original'[f] = original[f]
               /\ trampoline[f] \notin freedT /\ wrapper[f] \notin freedW
    <2>1. f \in funcMap /\ f \notin Unused /\ f \in Func
      BY <1>1 DEF IInv, Nodes
    <2>2. \A g \in Unused : trampoline[g] # trampoline[f] /\ wrapper[g] # wrapper[f]
      BY <1>3, <2>1 DEF IInv, Nodes, ChunksAreOwned
    <2> QED
      BY <1>1, <2>1, <2>2
  <1>7. Nodes'
    <2>1. /\ funcMap' \subseteq Func
          /\ trampoline' \in [Func -> TChunk \cup {NULL}]
          /\ wrapper' \in [Func -> WChunk \cup {NULL}]
          /\ original' \in [Func -> Entry \cup {NULL}]
          /\ trampCode' \in [TChunk -> Entry \cup {NULL}]
          /\ wrapperFunc' \in [WChunk -> Func \cup {NULL}]
      BY <1>1 DEF IInv, Nodes
    <2>2. ASSUME NEW f \in funcMap'
          PROVE  /\ trampoline'[f] \in TChunk /\ wrapper'[f] \in WChunk
                 /\ original'[f] = f /\ trampCode'[trampoline'[f]] = f
                 /\ wrapperFunc'[wrapper'[f]] = f
      <3>1. /\ trampoline[f] \in TChunk /\ wrapper[f] \in WChunk
            /\ original[f] = f /\ trampCode[trampoline[f]] = f
            /\ wrapperFunc[wrapper[f]] = f
        BY <1>6 DEF IInv, Nodes
      <3> HIDE DEF freedT, freedW
      <3> QED
        BY <1>1, <1>6, <3>1
    <2>3. ChunksAreOwned'
      <3>1. ASSUME NEW t \in TChunk
            PROVE  trampCode'[t] # NULL <=> \E f \in funcMap' : trampoline'[f] = t
        <4>1. trampCode[t] # NULL <=> \E f \in funcMap : trampoline[f] = t
          BY DEF IInv, Nodes, ChunksAreOwned
        <4>2. CASE t \in freedT
          <5>1. ~ \E f \in funcMap' : trampoline'[f] = t
            BY <1>6, <4>2
          <5> QED
            BY <1>1, <4>2, <5>1
        <4>3. CASE t \notin freedT
          <5>1. trampCode'[t] = trampCode[t]
            BY <1>1, <4>3
          <5>2. ASSUME NEW f \in funcMap, trampoline[f] = t
                PROVE  f \in funcMap' /\ trampoline'[f] = t
            <6>1. f \notin Unused
              BY <4>3, <5>2
            <6> QED
              BY <1>1, <1>6, <5>2, <6>1
          <5> QED
            BY <1>6, <4>1, <5>1, <5>2
        <4> QED
          BY <4>2, <4>3
      <3>2. ASSUME NEW w \in WChunk
            PROVE  wrapperFunc'[w] # NULL <=> \E f \in funcMap' : wrapper'[f] = w
        <4>1. wrapperFunc[w] # NULL <=> \E f \in funcMap : wrapper[f] = w
          BY DEF IInv, Nodes, ChunksAreOwned
        <4>2. CASE w \in freedW
          <5>1. ~ \E f \in funcMap' : wrapper'[f] = w
            BY <1>6, <4>2
          <5> QED
            BY <1>1, <4>2, <5>1
        <4>3. CASE w \notin freedW
          <5>1. wrapperFunc'[w] = wrapperFunc[w]
            BY <1>1, <4>3
          <5>2. ASSUME NEW f \in funcMap, wrapper[f] = w
                PROVE  f \in funcMap' /\ wrapper'[f] = w
            <6>1. f \notin Unused
              BY <4>3, <5>2
            <6> QED
              BY <1>1, <1>6, <5>2, <6>1
          <5> QED
            BY <1>6, <4>1, <5>1, <5>2
        <4> QED
          BY <4>2, <4>3
      <3>3. ASSUME NEW f \in funcMap', NEW g \in funcMap', f # g
            PROVE  trampoline'[f] # trampoline'[g] /\ wrapper'[f] # wrapper'[g]
        BY <1>6, <3>3 DEF IInv, Nodes, ChunksAreOwned
      <3> QED
        BY <3>1, <3>2, <3>3 DEF ChunksAreOwned
    <2> QED
      BY <2>1, <2>2, <2>3 DEF Nodes
  <1>8. ASSUME NEW f \in Func, detours[f] # <<>> \/ traces[f] # <<>>
        PROVE  f \notin Unused /\ f \in funcMap'
    BY <1>1, <1>3, <1>8 DEF IInv, Links
  <1>9. Links'
    <2>1. /\ bytes' \in [Func -> Entry]
          /\ wrapperInner' \in [Func -> Ptr \cup {NULL}]
          /\ jumpInstalled' \in [Func -> BOOLEAN]
      <3>1. \A f \in Func : Uninstalled(f) = f
        BY Pristine DEF IInv
      <3> QED
        BY <1>1, <3>1 DEF IInv, Links, Entry
    <2>2. ASSUME NEW f \in Func
          PROVE  LET target == JumpTarget(detours'[f], traces'[f], wrapper'[f]) IN
                 /\ bytes'[f] = IF target = NULL THEN f ELSE target
                 /\ jumpInstalled'[f] = (target # NULL)
                 /\ target # NULL => f \in funcMap'
                 /\ f \in funcMap' => original'[f] = f /\ trampCode'[trampoline'[f]] = f
      <3>1. f \in funcMap' => original'[f] = f /\ trampCode'[trampoline'[f]] = f
        BY <1>7 DEF Nodes
      <3>2. CASE f \in Unused
        <4>1. JumpTarget(detours'[f], traces'[f], wrapper'[f]) = NULL
          BY <1>2, <1>3, <3>2 DEF JumpTarget
        <4>2. Uninstalled(f) = f
          BY Pristine DEF IInv
        <4> QED
          BY <1>1, <3>1, <3>2, <4>1, <4>2
      <3>3. CASE f \notin Unused
        <4>1. jumpInstalled[f] \in BOOLEAN /\ (f \in funcMap => f \in funcMap')
          BY <1>1, <3>3 DEF IInv, Links
        <4>2. jumpInstalled'[f] = jumpInstalled[f]
          <5>1. jumpInstalled'[f] = (f \notin Unused /\ jumpInstalled[f])
            BY <1>1, Zenon
          <5> QED
            BY <3>3, <4>1, <5>1
        <4>3. bytes'[f] = bytes[f] /\ wrapper'[f] = wrapper[f]
          BY <1>1, <3>3
        <4> QED
          BY <1>2, <3>1, <4>1, <4>2, <4>3 DEF IInv, Links, EntryFollowsLists
      <3> QED
        BY <3>2, <3>3
    <2>3. EntryFollowsLists'
      BY <2>2 DEF EntryFollowsLists, JumpTarget
    <2>4. ASSUME NEW f \in Func
          PROVE  /\ \A i \in DOMAIN detours'[f] :
                      inner'[CallbackOf[detours'[f][i]]]
                         = NextInner(detours'[f], i, trampoline'[f])
                 /\ traces'[f] # <<>> =>
                      wrapperInner'[f] = IF detours'[f] = <<>> THEN trampoline'[f]
                                         ELSE CallbackOf[detours'[f][1]]
      <3>1. CASE detours[f] = <<>> /\ traces[f] = <<>>
        BY <1>2, <3>1
      <3>2. CASE ~(detours[f] = <<>> /\ traces[f] = <<>>)
        <4>1. trampoline'[f] = trampoline[f] /\ wrapperInner'[f] = wrapperInner[f]
          BY <1>1, <1>8, <3>2
        <4> QED
          BY <1>2, <4>1 DEF IInv, Links, ChainIsWhole
      <3> QED
        BY <3>1, <3>2
    <2>5. ChainIsWhole'
      BY <2>4 DEF ChainIsWhole, NextInner
    <2> QED
      BY <1>2, <1>8, <2>1, <2>3, <2>5 DEF IInv, Links
  <1>10. ByPriority'
    BY <1>2 DEF IInv, ByPriority
  <1> QED
    BY <1>4, <1>5, <1>7, <1>9, <1>10 DEF IInv

\* Every operation keeps the invariant.
LEMMA StepHolds == IInv /\ [Next]_vars => IInv'
  <1> SUFFICES ASSUME IInv, [Next]_vars
               PROVE  IInv'
    OBVIOUS
  <1>1. CASE UNCHANGED vars
    BY <1>1, FlagsOnly DEF vars, flagVars, IInv, Flags
  <1>2. ASSUME NEW d \in Detour, LoadDetour(d)
        PROVE  IInv'
    <2>1. /\ loaded' = loaded \cup {d} /\ registered' = registered \cup {d}
          /\ active' = active /\ UNCHANGED <<nodeVars, linkVars, listVars>>
          /\ \A e \in registered \ {d} : CallbackOf[e] # CallbackOf[d]
      BY <1>2 DEF LoadDetour, UniqueInnerPtr
    <2>2. Flags'
      BY <2>1 DEF IInv, Flags, Object
    <2> QED
      BY <2>1, <2>2, FlagsOnly
  <1>3. ASSUME NEW t \in Trace, LoadTrace(t)
        PROVE  IInv'
    <2>1. /\ loaded' = loaded \cup {t} /\ registered' = registered
          /\ active' = active /\ UNCHANGED <<nodeVars, linkVars, listVars>>
      BY <1>3 DEF LoadTrace
    <2>2. Flags'
      BY <2>1, DetourObjects DEF IInv, Flags, Object
    <2> QED
      BY <2>1, <2>2, FlagsOnly
  <1>4. ASSUME NEW o \in Object, Enable(o)
        PROVE  IInv'
    BY <1>4, EnableHolds
  <1>5. ASSUME NEW o \in Object, Disable(o)
        PROVE  IInv'
    <2>1. /\ o \in active /\ DoDisable(o) /\ active' = active \ {o}
          /\ loaded' = loaded /\ registered' = registered
      BY <1>5 DEF Disable
    <2>2. Flags'
      BY <2>1 DEF IInv, Flags
    <2> QED
      BY <2>1, <2>2, DoDisableHolds
  <1>6. ASSUME NEW o \in Object, Unload(o)
        PROVE  IInv'
    <2>1. /\ loaded' = loaded \ {o} /\ registered' = registered \ {o}
          /\ active' = active \ {o}
      BY <1>6 DEF Unload
    <2>2. Flags'
      BY <2>1 DEF IInv, Flags
    <2>3. CASE o \in active
      <3>1. DoDisable(o)
        BY <1>6, <2>3 DEF Unload
      <3> QED
        BY <2>1, <2>2, <2>3, <3>1, DoDisableHolds
    <2>4. CASE o \notin active
      <3>1. active' = active /\ UNCHANGED <<nodeVars, linkVars, listVars>>
        BY <1>6, <2>1, <2>4 DEF Unload
      <3> QED
        BY <2>2, <3>1, FlagsOnly
    <2> QED
      BY <2>3, <2>4
  <1>7. CASE CleanUp
    BY <1>7, CleanUpHolds
  <1> QED
    BY <1>1, <1>2, <1>3, <1>4, <1>5, <1>6, <1>7 DEF Next

-----------------------------------------------------------------------------
(***************************************************************************)
(* The theorems.                                                           *)
(***************************************************************************)

\* The invariant behind the others.
THEOREM Invariance == Spec => []IInv
  BY InitHolds, StepHolds, PTL DEF Spec

\* Every variable keeps to its kind.
THEOREM TypeCorrect == Spec => []TypeOK
  BY PartsSuffice, Invariance, PTL

\* The asserts of AddDetour, RemoveDetour, AddTrace and RemoveTrace hold.
THEOREM ListsAreExact == Spec => []ActiveIsListed
  BY PartsSuffice, Invariance, PTL

\* The bytes at the entry of a function are always what its lists call for, and the
\* saved prologue is never a jump.
THEOREM EntriesAreRight == Spec => []EntryFollowsLists
  BY PartsSuffice, Invariance, PTL

\* No order of enabling, disabling, loading, unloading and cleaning up breaks a chain.
THEOREM ChainsAreWhole == Spec => []ChainIsWhole
  BY PartsSuffice, Invariance, PTL

\* The callbacks of a function are in order of priority.
THEOREM ChainsAreOrdered == Spec => []ByPriority
  BY PartsSuffice, Invariance, PTL

\* No chunk leaks and none is shared.
THEOREM NoChunkLeaks == Spec => []ChunksAreOwned
  BY PartsSuffice, Invariance, PTL

\* The assert of Reconfigure on the callbacks holds.
THEOREM CallbacksDiffer == Spec => []EnabledCallbacksDiffer
  BY PartsSuffice, Invariance, PTL


-----------------------------------------------------------------------------
(***************************************************************************)
(* What DetourOrder promises.  The code passed by a call is followed from  *)
(* address to address, for as many steps as there are callbacks and three  *)
(* more; that it is in the order of the list is shown by induction.        *)
(***************************************************************************)

\* The addresses from p on.
LEMMA HopsKnown ==
    ASSUME NEW p
    PROVE  /\ MaxHops \in Nat /\ MaxHops >= 3 /\ MaxHops = Cardinality(Callback) + 3
           /\ Hops(p) = [n \in 1 .. MaxHops |-> Hops(p)[n]]
           /\ Hops(p)[1] = p
           /\ \A n \in 2 .. MaxHops : Hops(p)[n] = Follow[Hops(p)[n - 1]]
  <1>1. PICK m \in Nat : m = MaxHops /\ m >= 3 /\ m = Cardinality(Callback) + 3
    BY FinitelyMany, FS_CardinalityType DEF MaxHops
  <1>2. PICK next : next = Follow
    OBVIOUS
  <1>3. Hops(p) = CHOOSE g : IsWay(g, p, next, m)
    BY <1>1, <1>2 DEF Hops, IsWay
  <1>4. \E g : IsWay(g, p, next, m)
    BY WayExists
  <1>5. IsWay(Hops(p), p, next, m)
    BY <1>3, <1>4
  <1>6. PICK h : h = Hops(p)
    OBVIOUS
  <1>7. h = [n \in 1 .. m |-> IF n = 1 THEN p ELSE next[h[n - 1]]]
    BY <1>5, <1>6 DEF IsWay
  <1>8. h = [n \in 1 .. m |-> h[n]]
    BY <1>7
  <1>9. h[1] = p
    <2>1. 1 \in 1 .. m
      BY <1>1
    <2> QED
      BY <1>7, <2>1
  <1>10. \A n \in 2 .. m : h[n] = next[h[n - 1]]
    <2> TAKE n \in 2 .. m
    <2>1. n \in 1 .. m /\ n # 1
      OBVIOUS
    <2> QED
      BY <1>7, <2>1
  <1>11. MaxHops \in Nat /\ MaxHops >= 3 /\ MaxHops = Cardinality(Callback) + 3
    BY <1>1
  <1> QED
    BY <1>1, <1>2, <1>6, <1>8, <1>9, <1>10, <1>11, Zenon

\* Where each address on the way of a call of f leads to.
LEMMA Signposts ==
    ASSUME IInv, NEW f \in Func
    PROVE  /\ bytes[f] \in WChunk <=> traces[f] # <<>>
           /\ bytes[f] \in WChunk => Follow[bytes[f]] =
                IF detours[f] = <<>> THEN trampoline[f] ELSE CallbackOf[detours[f][1]]
           /\ bytes[f] \notin WChunk => bytes[f] =
                IF detours[f] = <<>> THEN f ELSE CallbackOf[detours[f][1]]
           /\ \A i \in 1 .. Len(detours[f]) :
                /\ CallbackOf[detours[f][i]] \in Callback
                /\ Follow[CallbackOf[detours[f][i]]] = NextInner(detours[f], i, trampoline[f])
           /\ detours[f] # <<>> \/ traces[f] # <<>> =>
                trampoline[f] \in TChunk /\ Follow[trampoline[f]] = f
           /\ Follow[f] = f
  <1> DEFINE ds == detours[f]
  <1>1. PICK n \in Nat : n = Len(ds) /\ DOMAIN ds = 1 .. n /\ (ds = <<>> <=> n = 0)
    BY LenProperties, EmptySeq DEF IInv, Lists
  <1>2. /\ ds \in Seq(Detour) /\ traces[f] \in Seq(Trace)
        /\ \A i \in 1 .. n : CallbackOf[ds[i]] \in Callback
    BY <1>1, ElementOfSeq, DetourObjects DEF IInv, Lists
  <1>3. PICK target : target = JumpTarget(ds, traces[f], wrapper[f])
    OBVIOUS
  <1>4. /\ bytes[f] = IF target = NULL THEN f ELSE target
        /\ f \in funcMap => /\ trampCode[trampoline[f]] = f /\ trampoline[f] \in TChunk
                            /\ wrapper[f] \in WChunk /\ wrapperFunc[wrapper[f]] = f
    BY <1>3 DEF IInv, Links, Nodes, EntryFollowsLists
  <1>5. /\ ds # <<>> \/ traces[f] # <<>> => f \in funcMap
        /\ \A i \in 1 .. n : inner[CallbackOf[ds[i]]] = NextInner(ds, i, trampoline[f])
        /\ traces[f] # <<>> =>
             wrapperInner[f] = IF ds = <<>> THEN trampoline[f] ELSE CallbackOf[ds[1]]
    BY <1>1 DEF IInv, Links, ChainIsWhole
  <1>6. /\ \A c \in Callback : Follow[c] = inner[c]
        /\ \A t \in TChunk : Follow[t] = trampCode[t]
        /\ \A w \in WChunk : wrapperFunc[w] # NULL => Follow[w] = wrapperInner[wrapperFunc[w]]
        /\ Follow[f] = f /\ f # NULL
    BY DisjointCode DEF Follow, Ptr
  <1>7. CASE traces[f] # <<>>
    <2>1. target = wrapper[f] /\ wrapper[f] \in WChunk /\ wrapper[f] # NULL
      BY <1>3, <1>4, <1>5, <1>7, DisjointCode DEF JumpTarget
    <2>2. bytes[f] = wrapper[f] /\ bytes[f] \in WChunk /\ wrapperFunc[bytes[f]] = f
      BY <1>4, <1>5, <1>7, <2>1
    <2>3. Follow[bytes[f]] = wrapperInner[f]
      BY <1>6, <2>2
    <2> QED
      BY <1>1, <1>2, <1>4, <1>5, <1>6, <1>7, <2>2, <2>3
  <1>8. CASE traces[f] = <<>> /\ ds # <<>>
    <2>1. 1 \in 1 .. n
      BY <1>1, <1>8
    <2>2. target = CallbackOf[ds[1]] /\ target \in Callback /\ target # NULL
      BY <1>2, <1>3, <1>8, <2>1, DisjointCode DEF JumpTarget
    <2>3. bytes[f] = CallbackOf[ds[1]] /\ bytes[f] \notin WChunk
      BY <1>4, <2>2, DisjointCode
    <2> QED
      BY <1>1, <1>2, <1>4, <1>5, <1>6, <1>8, <2>3
  <1>9. CASE traces[f] = <<>> /\ ds = <<>>
    <2>1. target = NULL
      BY <1>3, <1>9 DEF JumpTarget
    <2>2. bytes[f] = f /\ bytes[f] \notin WChunk
      BY <1>4, <2>1, DisjointCode
    <2> QED
      BY <1>1, <1>2, <1>5, <1>6, <1>9, <2>2
  <1> QED
    BY <1>7, <1>8, <1>9

\* A list of detours is no longer than there are callbacks.
LEMMA ListBound ==
    ASSUME IInv, NEW f \in Func
    PROVE  Len(detours[f]) <= Cardinality(Callback)
  <1> DEFINE ds == detours[f]
  <1>1. PICK n \in Nat : n = Len(ds) /\ DOMAIN ds = 1 .. n
    BY LenProperties DEF IInv, Lists
  <1>2. \A i \in 1 .. n : ds[i] \in Detour /\ ds[i] \in active /\ CallbackOf[ds[i]] \in Callback
    <2>1. ds \in Seq(Detour) /\ ToSet(ds) \subseteq active
      BY DEF IInv, Lists, ActiveIsListed
    <2> QED
      BY <1>1, <2>1, ElementOfSeq, DetourObjects DEF ToSet
  <1>3. PICK g : g = [i \in 1 .. n |-> CallbackOf[ds[i]]]
    OBVIOUS
  <1>4. g \in [1 .. n -> Callback]
    BY <1>2, <1>3
  <1>5. ASSUME NEW i \in 1 .. n, NEW j \in 1 .. n, g[i] = g[j]
        PROVE  i = j
    <2>1. ds[i] = ds[j]
      <3>1. EnabledCallbacksDiffer
        BY PartsSuffice
      <3> QED
        BY <1>2, <1>3, <1>5, <3>1 DEF EnabledCallbacksDiffer
    <2> QED
      BY <1>1, <2>1 DEF IInv, Lists, ActiveIsListed, IsInjective
  <1>6. n <= Cardinality(Callback)
    BY <1>4, <1>5, FinitelyMany, NoLongerThanSet
  <1> QED
    BY <1>1, <1>6

\* The callbacks of a list.
ChainOf(ds) == Names(CallbackOf, ds)

LEMMA ChainOfProperties ==
    ASSUME NEW s \in Seq(Detour)
    PROVE  /\ ChainOf(s) \in Seq(Callback) /\ Len(ChainOf(s)) = Len(s)
           /\ DOMAIN ChainOf(s) = 1 .. Len(s)
           /\ \A i \in 1 .. Len(s) : ChainOf(s)[i] = CallbackOf[s[i]]
  <1>1. AreNames(Names(CallbackOf, s), CallbackOf, s, Callback)
    BY DetourObjects, NamesProperties
  <1> QED
    BY <1>1 DEF AreNames, ChainOf

LEMMA ChainOfInserted ==
    ASSUME NEW s \in Seq(Detour), NEW k \in 1 .. Len(s) + 1, NEW d \in Detour
    PROVE  ChainOf(InsertAt(s, k, d)) = InsertAt(ChainOf(s), k, CallbackOf[d])
  <1>1. PICK n \in Nat : n = Len(s)
    BY LenProperties
  <1>2. PICK c, r, cr, rc : /\ c = ChainOf(s) /\ r = InsertAt(s, k, d)
                            /\ cr = ChainOf(r) /\ rc = InsertAt(c, k, CallbackOf[d])
    OBVIOUS
  <1>3. c \in Seq(Callback) /\ Len(c) = n /\ \A i \in 1 .. n : c[i] = CallbackOf[s[i]]
    BY <1>1, <1>2, ChainOfProperties
  <1>4. /\ r \in Seq(Detour) /\ Len(r) = n + 1
        /\ \A i \in 1 .. n + 1 : r[i] = IF i < k THEN s[i] ELSE IF i = k THEN d ELSE s[i - 1]
    <2>1. /\ InsertAt(s, k, d) \in Seq(Detour) /\ Len(InsertAt(s, k, d)) = Len(s) + 1
          /\ \A i \in 1 .. Len(s) + 1 : InsertAt(s, k, d)[i] =
               IF i < k THEN s[i] ELSE IF i = k THEN d ELSE s[i - 1]
      BY InsertAtProperties
    <2> QED
      BY <1>1, <1>2, <2>1
  <1>5. cr \in Seq(Callback) /\ Len(cr) = n + 1 /\ \A i \in 1 .. n + 1 : cr[i] = CallbackOf[r[i]]
    BY <1>2, <1>4, ChainOfProperties
  <1>6. /\ rc \in Seq(Callback) /\ Len(rc) = n + 1
        /\ \A i \in 1 .. n + 1 :
             rc[i] = IF i < k THEN c[i] ELSE IF i = k THEN CallbackOf[d] ELSE c[i - 1]
    <2>1. PICK e \in Callback : e = CallbackOf[d]
      BY DetourObjects
    <2>2. c \in Seq(Callback) /\ k \in 1 .. Len(c) + 1
      BY <1>1, <1>3
    <2>3. /\ InsertAt(c, k, e) \in Seq(Callback) /\ Len(InsertAt(c, k, e)) = Len(c) + 1
          /\ \A i \in 1 .. Len(c) + 1 : InsertAt(c, k, e)[i] =
               IF i < k THEN c[i] ELSE IF i = k THEN e ELSE c[i - 1]
      BY <2>2, InsertAtProperties
    <2>4. rc = InsertAt(c, k, e) /\ Len(c) = n
      BY <1>2, <1>3, <2>1
    <2>5. rc \in Seq(Callback) /\ Len(rc) = n + 1
      BY <2>3, <2>4
    <2>6. \A i \in 1 .. n + 1 : rc[i] = IF i < k THEN c[i] ELSE IF i = k THEN e ELSE c[i - 1]
      BY <2>3, <2>4, Zenon
    <2> QED
      BY <2>1, <2>5, <2>6, Zenon
  <1>7. ASSUME NEW i \in 1 .. n + 1
        PROVE  cr[i] = rc[i]
    <2>1. k \in 1 .. n + 1 /\ k \in Int /\ i \in Int
      BY <1>1
    <2>2. CASE i < k
      <3>1. i \in 1 .. n
        BY <1>1, <2>1, <2>2
      <3>2. cr[i] = CallbackOf[s[i]]
        BY <1>4, <1>5, <2>2
      <3>3. rc[i] = CallbackOf[s[i]]
        BY <1>3, <1>6, <2>2, <3>1
      <3> QED
        BY <3>2, <3>3
    <2>3. CASE i = k
      BY <1>4, <1>5, <1>6, <2>1, <2>3
    <2>4. CASE i > k
      <3>1. i - 1 \in 1 .. n
        BY <1>1, <2>1, <2>4
      <3>2. ~(i < k) /\ i # k
        BY <2>1, <2>4
      <3>3. cr[i] = CallbackOf[s[i - 1]]
        BY <1>4, <1>5, <3>2
      <3>4. rc[i] = CallbackOf[s[i - 1]]
        BY <1>3, <1>6, <3>1, <3>2
      <3> QED
        BY <3>3, <3>4
    <2> QED
      BY <2>1, <2>2, <2>3, <2>4
  <1>8. cr = rc
    BY <1>5, <1>6, <1>7, SeqEqual
  <1> QED
    BY <1>2, <1>8

LEMMA ChainOfRemoved ==
    ASSUME NEW s \in Seq(Detour), NEW k \in 1 .. Len(s)
    PROVE  ChainOf(RemoveAt(s, k)) = RemoveAt(ChainOf(s), k)
  <1>1. NamesWithout(CallbackOf, s, k)
    BY DetourObjects, NamesRemoved
  <1> QED
    BY <1>1 DEF NamesWithout, ChainOf

\* The addresses a call of f passes: the wrapper if there is one (w is 1), the callbacks in
\* the order of the list, the trampoline if it came by any of these, and f.
PassesList(f, n, w, h) ==
    /\ n = Len(detours[f]) /\ n + 3 <= MaxHops
    /\ IF bytes[f] \in WChunk THEN w = 1 /\ h[1] \in WChunk ELSE w = 0
    /\ \A i \in 1 .. n : h[w + i] = CallbackOf[detours[f][i]]
    /\ \A k \in w + n + 1 .. MaxHops : h[k] \in TChunk \cup {f}
    /\ h[MaxHops] = f
LEMMA WayOfCall ==
    ASSUME IInv, NEW f \in Func
    PROVE  \E n \in Nat, w \in Nat : PassesList(f, n, w, Hops(bytes[f]))
  <1> DEFINE ds == detours[f]
             t  == trampoline[f]
  <1>1. PICK n \in Nat : n = Len(ds) /\ DOMAIN ds = 1 .. n /\ (ds = <<>> <=> n = 0)
    BY LenProperties, EmptySeq DEF IInv, Lists
  <1>2. PICK m \in Nat : m = MaxHops /\ n + 3 <= m
    BY <1>1, HopsKnown, ListBound, FinitelyMany, FS_CardinalityType
  <1>3. PICK h, next : h = Hops(bytes[f]) /\ next = Follow
    OBVIOUS
  <1>4. h[1] = bytes[f] /\ \A k \in 2 .. m : h[k] = next[h[k - 1]]
    BY <1>2, <1>3, HopsKnown
  <1>5. /\ bytes[f] \in WChunk => next[bytes[f]] = IF n = 0 THEN t ELSE CallbackOf[ds[1]]
        /\ bytes[f] \notin WChunk => bytes[f] = IF n = 0 THEN f ELSE CallbackOf[ds[1]]
        /\ \A i \in 1 .. n : /\ CallbackOf[ds[i]] \in Callback
                             /\ next[CallbackOf[ds[i]]] = IF i = n THEN t ELSE CallbackOf[ds[i + 1]]
        /\ n # 0 \/ bytes[f] \in WChunk => t \in TChunk /\ next[t] = f
        /\ next[f] = f
    BY <1>1, <1>3, Signposts DEF NextInner
  <1>6. CASE bytes[f] \in WChunk
    <2>1. PICK c : c = [k \in 1 .. n + 3 |->
            IF k = 1 THEN bytes[f] ELSE IF k <= n + 1 THEN CallbackOf[ds[k - 1]]
            ELSE IF k = n + 2 THEN t ELSE f]
      OBVIOUS
    <2>2. \A i \in 1 .. (n + 3) - 1 : next[c[i]] = c[i + 1]
      <3> TAKE i \in 1 .. (n + 3) - 1
      <3>1. CASE i = 1
        <4>1. c[1] = bytes[f] /\ c[2] = IF n = 0 THEN t ELSE CallbackOf[ds[1]]
          BY <2>1
        <4> QED
          BY <1>5, <1>6, <3>1, <4>1
      <3>2. CASE i \in 2 .. n + 1
        <4>1. i - 1 \in 1 .. n /\ i # 1 /\ i <= n + 1 /\ i + 1 # 1 /\ (i + 1) - 1 = i /\ (i - 1) + 1 = i
          BY <3>2
        <4>2. c[i] = CallbackOf[ds[i - 1]]
          BY <2>1, <4>1
        <4>3. c[i + 1] = IF i - 1 = n THEN t ELSE CallbackOf[ds[i]]
          BY <2>1, <4>1
        <4> QED
          BY <1>5, <4>1, <4>2, <4>3
      <3>3. CASE i = n + 2
        <4>1. c[i] = t /\ c[i + 1] = f
          BY <2>1, <3>3
        <4> QED
          BY <1>5, <1>6, <4>1
      <3> QED
        BY <3>1, <3>2, <3>3
    <2>3. c[1] = h[1] /\ c[n + 3] = f
      BY <1>4, <2>1
    <2>4. \A k \in 1 .. m : h[k] = IF k <= n + 3 THEN c[k] ELSE f
      <3>1. PICK l \in Nat : l = n + 3
        OBVIOUS
      <3>2. 1 <= l /\ c[l] = f /\ next[c[l]] = c[l] /\ h[1] = c[1]
        BY <1>5, <2>3, <3>1
      <3>3. \A i \in 1 .. l - 1 : next[c[i]] = c[i + 1]
        BY <2>2, <3>1
      <3>4. StartsOn(h, c, l, next, m)
        BY <1>4, <3>2, <3>3 DEF StartsOn, Goes
      <3>5. GoesAlong(h, c, l, m)
        BY <3>2, <3>4, WayAlong
      <3> QED
        BY <3>1, <3>2, <3>5 DEF GoesAlong
    <2>5. \A i \in 1 .. n : h[1 + i] = CallbackOf[ds[i]]
      <3> TAKE i \in 1 .. n
      <3>1. 1 + i \in 1 .. m /\ 1 + i <= n + 3 /\ 1 + i # 1 /\ 1 + i <= n + 1 /\ (1 + i) - 1 = i
        BY <1>2
      <3> QED
        BY <2>1, <2>4, <3>1
    <2>6. \A k \in 1 + n + 1 .. m : h[k] \in TChunk \cup {f}
      <3> TAKE k \in 1 + n + 1 .. m
      <3>1. k \in 1 .. m /\ k # 1 /\ ~(k <= n + 1)
        BY <1>2
      <3> QED
        BY <1>5, <1>6, <2>1, <2>4, <3>1
    <2>7. h[m] = f
      <3>1. m \in 1 .. m /\ ~(m <= n + 2)
        BY <1>2
      <3>2. m <= n + 3 => m = n + 3
        BY <1>2
      <3> QED
        BY <2>3, <2>4, <3>1, <3>2
    <2>8. PassesList(f, n, 1, h)
      BY <1>1, <1>2, <1>4, <1>6, <2>5, <2>6, <2>7 DEF PassesList
    <2> QED
      BY <1>3, <2>8
  <1>7. CASE bytes[f] \notin WChunk /\ n # 0
    <2>1. PICK c : c = [k \in 1 .. n + 2 |->
            IF k <= n THEN CallbackOf[ds[k]] ELSE IF k = n + 1 THEN t ELSE f]
      OBVIOUS
    <2>2. \A i \in 1 .. (n + 2) - 1 : next[c[i]] = c[i + 1]
      <3> TAKE i \in 1 .. (n + 2) - 1
      <3>1. CASE i \in 1 .. n
        <4>1. c[i] = CallbackOf[ds[i]] /\ c[i + 1] = IF i = n THEN t ELSE CallbackOf[ds[i + 1]]
          BY <2>1, <3>1
        <4> QED
          BY <1>5, <3>1, <4>1
      <3>2. CASE i = n + 1
        <4>1. c[i] = t /\ c[i + 1] = f
          BY <2>1, <3>2
        <4> QED
          BY <1>5, <1>7, <4>1
      <3> QED
        BY <3>1, <3>2
    <2>3. c[1] = h[1] /\ c[n + 2] = f
      <3>1. 1 <= n /\ n + 2 \in 1 .. n + 2
        BY <1>7
      <3> QED
        BY <1>4, <1>5, <1>7, <2>1, <3>1
    <2>4. \A k \in 1 .. m : h[k] = IF k <= n + 2 THEN c[k] ELSE f
      <3>1. PICK l \in Nat : l = n + 2
        OBVIOUS
      <3>2. 1 <= l /\ c[l] = f /\ next[c[l]] = c[l] /\ h[1] = c[1]
        BY <1>5, <2>3, <3>1
      <3>3. \A i \in 1 .. l - 1 : next[c[i]] = c[i + 1]
        BY <2>2, <3>1
      <3>4. StartsOn(h, c, l, next, m)
        BY <1>4, <3>2, <3>3 DEF StartsOn, Goes
      <3>5. GoesAlong(h, c, l, m)
        BY <3>2, <3>4, WayAlong
      <3> QED
        BY <3>1, <3>2, <3>5 DEF GoesAlong
    <2>5. \A i \in 1 .. n : h[0 + i] = CallbackOf[ds[i]]
      <3> TAKE i \in 1 .. n
      <3>1. 0 + i = i /\ i \in 1 .. m /\ i <= n + 2 /\ i <= n
        BY <1>2
      <3> QED
        BY <2>1, <2>4, <3>1
    <2>6. \A k \in 0 + n + 1 .. m : h[k] \in TChunk \cup {f}
      <3> TAKE k \in 0 + n + 1 .. m
      <3>1. k \in 1 .. m /\ ~(k <= n)
        BY <1>2
      <3> QED
        BY <1>5, <1>7, <2>1, <2>4, <3>1
    <2>7. h[m] = f
      <3>1. m \in 1 .. m /\ ~(m <= n + 2)
        BY <1>2
      <3> QED
        BY <2>4, <3>1
    <2>8. PassesList(f, n, 0, h)
      BY <1>1, <1>2, <1>7, <2>5, <2>6, <2>7 DEF PassesList
    <2> QED
      BY <1>3, <2>8
  <1>8. CASE bytes[f] \notin WChunk /\ n = 0
    <2>1. PICK c : c = [k \in 1 .. 1 |-> f]
      OBVIOUS
    <2>2. c[1] = f /\ h[1] = c[1] /\ next[c[1]] = c[1]
      BY <1>4, <1>5, <1>8, <2>1
    <2>3. \A i \in 1 .. 1 - 1 : next[c[i]] = c[i + 1]
      OBVIOUS
    <2>4. \A k \in 1 .. m : h[k] = IF k <= 1 THEN c[k] ELSE c[1]
      <3>1. PICK one \in Nat : one = 1
        OBVIOUS
      <3>2. \A i \in 1 .. one - 1 : next[c[i]] = c[i + 1]
        BY <2>3, <3>1
      <3>3. StartsOn(h, c, one, next, m)
        BY <1>4, <2>2, <3>1, <3>2 DEF StartsOn, Goes
      <3>4. GoesAlong(h, c, one, m)
        BY <3>1, <3>3, WayAlong
      <3> QED
        BY <3>1, <3>4 DEF GoesAlong
    <2>5. \A k \in 1 .. m : h[k] = f
      <3> TAKE k \in 1 .. m
      <3>1. k <= 1 => k = 1
        OBVIOUS
      <3> QED
        BY <2>2, <2>4, <3>1
    <2>6. h[m] = f /\ \A k \in 0 + n + 1 .. m : h[k] \in TChunk \cup {f}
      <3>1. m \in 1 .. m /\ \A k \in 0 + n + 1 .. m : k \in 1 .. m
        BY <1>2
      <3> QED
        BY <2>5, <3>1
    <2>7. \A i \in 1 .. n : h[0 + i] = CallbackOf[ds[i]]
      BY <1>8
    <2>8. PassesList(f, n, 0, h)
      BY <1>1, <1>2, <1>8, <2>6, <2>7 DEF PassesList
    <2> QED
      BY <1>3, <2>8
  <1> QED
    BY <1>6, <1>7, <1>8

\* So the pointers lead through the callbacks in the order of the list, and into f.
LEMMA LedByList ==
    ASSUME IInv, NEW f \in Func
    PROVE  /\ CallOrder(f) = ChainOf(detours[f]) /\ Reached(f) = f
           /\ bytes[f] \in WChunk <=> traces[f] # <<>>
  <1>1. PICK n \in Nat, w \in Nat : PassesList(f, n, w, Hops(bytes[f]))
    BY WayOfCall
  <1>2. PICK m \in Nat : m = MaxHops
    BY HopsKnown
  <1>3. PICK h : m = MaxHops /\ h = Hops(bytes[f]) /\ h = [k \in 1 .. m |-> h[k]]
    BY <1>2, HopsKnown
  <1>4. /\ w <= 1 /\ n + 3 <= m
        /\ w = 1 => h[1] \in WChunk
        /\ \A i \in 1 .. n : h[w + i] = CallbackOf[detours[f][i]]
        /\ \A k \in w + n + 1 .. m : h[k] \in TChunk \cup {f}
        /\ h[m] = f
    <2>1. PassesList(f, n, w, h) /\ m = MaxHops
      BY <1>1, <1>3
    <2>2. n + 3 <= m
      BY <2>1 DEF PassesList
    <2>3. w <= 1 /\ (w = 1 => h[1] \in WChunk)
      <3>1. CASE bytes[f] \in WChunk
        <4>1. w = 1 /\ h[1] \in WChunk
          BY <2>1, <3>1 DEF PassesList
        <4> QED
          BY <4>1
      <3>2. CASE bytes[f] \notin WChunk
        <4>1. w = 0
          BY <2>1, <3>2 DEF PassesList
        <4> QED
          BY <4>1
      <3> QED
        BY <3>1, <3>2
    <2>4. \A i \in 1 .. n : h[w + i] = CallbackOf[detours[f][i]]
      BY <2>1 DEF PassesList
    <2>5. \A k \in w + n + 1 .. m : h[k] \in TChunk \cup {f}
      BY <2>1, Zenon DEF PassesList
    <2>6. h[m] = f
      BY <2>1, Zenon DEF PassesList
    <2> QED
      BY <2>2, <2>3, <2>4, <2>5, <2>6
  <1>5. \A i \in 1 .. n : h[w + i] \in Callback
    <2>1. n = Len(detours[f])
      BY <1>1 DEF PassesList
    <2> QED
      BY <1>4, <2>1, Signposts
  <1>6. {k \in 1 .. m : h[k] \in Callback} = w + 1 .. w + n
    <2>1. ASSUME NEW k \in 1 .. m, h[k] \in Callback
          PROVE  k \in w + 1 .. w + n
      <3>1. k \notin w + n + 1 .. m
        BY <1>4, <2>1, DisjointCode
      <3>2. ~(w = 1 /\ k = 1)
        BY <1>4, <2>1, DisjointCode
      <3> QED
        BY <1>4, <3>1, <3>2
    <2>2. ASSUME NEW k \in w + 1 .. w + n
          PROVE  k \in 1 .. m /\ h[k] \in Callback
      <3>1. k - w \in 1 .. n /\ w + (k - w) = k /\ k \in 1 .. m
        BY <1>4
      <3> QED
        BY <1>5, <3>1
    <2> QED
      BY <2>1, <2>2
  <1>7. Cardinality(w + 1 .. w + n) = n
    <2>1. PICK a \in Int, b \in Int : a = w + 1 /\ b = w + n
      OBVIOUS
    <2>2. Cardinality(a .. b) = IF a > b THEN 0 ELSE b - a + 1
      BY FS_Interval
    <2> QED
      BY <2>1, <2>2
  <1>8. CallOrder(f) = SubSeq(h, w + 1, w + n)
    <2>1. PICK first : first = IF bytes[f] \in WChunk THEN 2 ELSE 1
      OBVIOUS
    <2>2. CallOrder(f) = SubSeq(h, first, first - 1 + Cardinality({k \in 1 .. m : h[k] \in Callback}))
      BY <1>3, <2>1 DEF CallOrder
    <2>3. first = w + 1
      <3>1. CASE bytes[f] \in WChunk
        <4>1. w = 1 /\ first = 2
          BY <1>1, <2>1, <3>1 DEF PassesList
        <4> QED
          BY <4>1
      <3>2. CASE bytes[f] \notin WChunk
        <4>1. w = 0 /\ first = 1
          BY <1>1, <2>1, <3>2 DEF PassesList
        <4> QED
          BY <4>1
      <3> QED
        BY <3>1, <3>2
    <2>4. Cardinality({k \in 1 .. m : h[k] \in Callback}) = n
      BY <1>6, <1>7
    <2>5. PICK q : q = Cardinality({k \in 1 .. m : h[k] \in Callback})
      OBVIOUS
    <2>6. CallOrder(f) = SubSeq(h, first, first - 1 + q)
      BY <2>2, <2>5
    <2>7. first - 1 + q = w + n
      BY <2>3, <2>4, <2>5
    <2> QED
      BY <2>3, <2>6, <2>7
  <1>9. PICK A : \A k \in 1 .. m : h[k] \in A
    <2>1. \A k \in 1 .. m : h[k] \in {h[j] : j \in 1 .. m}
      OBVIOUS
    <2> QED
      BY <2>1
  <1>10. h \in Seq(A) /\ Len(h) = m
    <2>1. h \in [1 .. m -> A]
      BY <1>3, <1>9
    <2> QED
      BY <2>1, SeqDef, LenProperties
  <1>11. PICK q : q = SubSeq(h, w + 1, w + n)
    OBVIOUS
  <1>12. q \in Seq(A) /\ Len(q) = n /\ \A i \in 1 .. n : q[i] = h[w + i]
    <2>1. w + 1 \in Int /\ w + n \in Int /\ 1 <= w + 1 /\ w + 1 <= (w + n) + 1 /\ w + n <= Len(h)
      BY <1>4, <1>10
    <2>2. /\ SubSeq(h, w + 1, w + n) \in Seq(A)
          /\ Len(SubSeq(h, w + 1, w + n)) = (w + n) - (w + 1) + 1
          /\ \A i \in 1 .. (w + n) - (w + 1) + 1 :
               SubSeq(h, w + 1, w + n)[i] = h[(w + 1) + i - 1]
      BY <1>10, <2>1, SubSeqKnown
    <2>3. (w + n) - (w + 1) + 1 = n /\ \A i \in 1 .. n : (w + 1) + i - 1 = w + i
      BY <1>4
    <2> QED
      BY <1>11, <2>2, <2>3
  <1>13. PICK c : c = ChainOf(detours[f])
    OBVIOUS
  <1>14. c \in Seq(Callback) /\ Len(c) = n /\ \A i \in 1 .. n : c[i] = CallbackOf[detours[f][i]]
    <2>1. detours[f] \in Seq(Detour) /\ n = Len(detours[f])
      BY <1>1 DEF IInv, Lists, PassesList
    <2> QED
      BY <1>13, <2>1, ChainOfProperties
  <1>15. q = c
    <2>1. q = [i \in 1 .. n |-> q[i]] /\ c = [i \in 1 .. n |-> c[i]]
      BY <1>12, <1>14, LenProperties
    <2>2. \A i \in 1 .. n : q[i] = c[i]
      BY <1>4, <1>12, <1>14
    <2> QED
      BY <2>1, <2>2
  <1>16. Reached(f) = f
    BY <1>3, <1>4 DEF Reached
  <1> QED
    BY <1>8, <1>11, <1>13, <1>15, <1>16, Signposts

\* In terms of the lists.
ListsLead ==
    /\ Order = [f \in Func |-> ChainOf(detours[f])]
    /\ Ends = [f \in Func |-> f]
    /\ Wrapped = {f \in Func : traces[f] # <<>>}
LEMMA LedByLists == IInv => ListsLead
  BY LedByList DEF Order, Ends, Wrapped, ListsLead

LEMMA LedInit == Init => Promise!Init
  <1> SUFFICES ASSUME Init
               PROVE  Promise!Init
    OBVIOUS
  <1>1. /\ Order = [f \in Func |-> ChainOf(detours[f])]
        /\ Ends = [f \in Func |-> f]
        /\ Wrapped = {f \in Func : traces[f] # <<>>}
    BY InitHolds, LedByLists DEF ListsLead
  <1>2. ChainOf(<<>>) = <<>>
    <2>1. <<>> \in Seq(Detour) /\ Len(<<>>) = 0
      BY EmptySeq
    <2>2. PICK s \in Seq(Detour) : s = <<>>
      BY <2>1
    <2>3. ChainOf(s) \in Seq(Callback) /\ Len(ChainOf(s)) = Len(s)
      BY ChainOfProperties
    <2>4. PICK c \in Seq(Callback) : c = ChainOf(s)
      BY <2>3
    <2>5. Len(c) = 0
      BY <2>1, <2>2, <2>3, <2>4
    <2>6. c = <<>>
      BY <2>5, EmptySeq
    <2> QED
      BY <2>2, <2>4, <2>6
  <1>3. \A f \in Func : detours[f] = <<>> /\ traces[f] = <<>>
    BY DEF Init
  <1> QED
    BY <1>1, <1>2, <1>3 DEF Promise!Init

\* What a step that changes the lists of one function is to DetourOrder.
LEMMA Joins ==
    ASSUME IInv, IInv', NEW d \in Detour, NEW k \in InsertionPoint(detours[FuncOf[d]], d),
           detours' = [detours EXCEPT ![FuncOf[d]] = InsertAt(detours[FuncOf[d]], k, d)],
           traces' = traces
    PROVE  Promise!Join(d)
  <1> DEFINE f == FuncOf[d]
             s == detours[f]
  <1>1. f \in Func /\ s \in Seq(Detour) /\ detours \in [Func -> Seq(Detour)]
    BY DetourObjects DEF IInv, Lists, Object
  <1>2. PICK n \in Nat : n = Len(s)
    BY <1>1, LenProperties
  <1>3. /\ k \in 1 .. n + 1
        /\ \A i \in 1 .. k - 1 : Priority[s[i]] >= Priority[d]
        /\ \A i \in k .. n : Priority[s[i]] < Priority[d]
    BY <1>2 DEF InsertionPoint
  <1>4. /\ Order = [g \in Func |-> ChainOf(detours[g])]
        /\ Order' = [g \in Func |-> ChainOf(detours'[g])]
        /\ Ends' = Ends /\ Wrapped' = Wrapped
    <2>1. (IInv => ListsLead)'
      BY LedByLists, PTL
    <2> QED
      BY <2>1, LedByLists DEF ListsLead, ChainOf
  <1>5. PICK c : c = Order[f]
    OBVIOUS
  <1>6. c = ChainOf(s) /\ Len(c) = n /\ \A i \in 1 .. n : c[i] = CallbackOf[s[i]] /\ s[i] \in Detour
    BY <1>1, <1>2, <1>4, <1>5, ChainOfProperties, ElementOfSeq
  <1>7. \A i \in 1 .. n : Priority[s[i]] \in Promise!Urgency(c[i])
    BY <1>6 DEF Promise!Urgency
  <1>8. /\ \A i \in 1 .. k - 1 : \E p \in Promise!Urgency(c[i]) : p >= Priority[d]
        /\ \A i \in k .. n : \E p \in Promise!Urgency(c[i]) : p < Priority[d]
    <2>1. \A i \in 1 .. k - 1 : i \in 1 .. n
      BY <1>2, <1>3
    <2>2. \A i \in k .. n : i \in 1 .. n
      BY <1>2, <1>3
    <2> QED
      BY <1>3, <1>7, <2>1, <2>2
  <1>9. Order' = [Order EXCEPT ![f] = InsertAt(c, k, CallbackOf[d])]
    <2>1. ChainOf(InsertAt(s, k, d)) = InsertAt(c, k, CallbackOf[d])
      BY <1>1, <1>2, <1>3, <1>6, ChainOfInserted
    <2> QED
      BY <1>1, <1>4, <2>1
  <1>10. k \in 1 .. Len(c) + 1 /\ Len(c) = n
    BY <1>3, <1>6
  <1>11. Promise!InsertAt(c, k, CallbackOf[d]) = InsertAt(c, k, CallbackOf[d])
    BY DEF Promise!InsertAt, InsertAt
  <1>12. /\ k \in 1 .. Len(Order[f]) + 1
         /\ \A i \in 1 .. k - 1 : \E p \in Promise!Urgency(Order[f][i]) : p >= Priority[d]
         /\ \A i \in k .. Len(Order[f]) : \E p \in Promise!Urgency(Order[f][i]) : p < Priority[d]
         /\ Order' = [Order EXCEPT ![f] = Promise!InsertAt(Order[f], k, CallbackOf[d])]
         /\ UNCHANGED <<Ends, Wrapped>>
    <2>1. k \in 1 .. Len(Order[f]) + 1 /\ Len(Order[f]) = n
      BY <1>5, <1>10
    <2>2. Order' = [Order EXCEPT ![f] = Promise!InsertAt(Order[f], k, CallbackOf[d])]
      BY <1>5, <1>9, <1>11
    <2>3. UNCHANGED <<Ends, Wrapped>>
      BY <1>4
    <2>4. /\ \A i \in 1 .. k - 1 : \E p \in Promise!Urgency(Order[f][i]) : p >= Priority[d]
          /\ \A i \in k .. n : \E p \in Promise!Urgency(Order[f][i]) : p < Priority[d]
      BY <1>5, <1>8
    <2> QED
      BY <2>1, <2>2, <2>3, <2>4
  <1> QED
    BY <1>12, Zenon DEF Promise!Join

LEMMA Leaves ==
    ASSUME IInv, IInv', NEW d \in Detour, NEW k \in DOMAIN detours[FuncOf[d]],
           detours[FuncOf[d]][k] = d,
           detours' = [detours EXCEPT ![FuncOf[d]] = RemoveAt(detours[FuncOf[d]], k)],
           traces' = traces
    PROVE  Promise!Leave(d)
  <1> DEFINE f == FuncOf[d]
             s == detours[f]
  <1>1. f \in Func /\ s \in Seq(Detour) /\ detours \in [Func -> Seq(Detour)]
    BY DetourObjects DEF IInv, Lists, Object
  <1>2. PICK n \in Nat : n = Len(s) /\ DOMAIN s = 1 .. n
    BY <1>1, LenProperties
  <1>3. /\ Order = [g \in Func |-> ChainOf(detours[g])]
        /\ Order' = [g \in Func |-> ChainOf(detours'[g])]
        /\ Ends' = Ends /\ Wrapped' = Wrapped
    <2>1. (IInv => ListsLead)'
      BY LedByLists, PTL
    <2> QED
      BY <2>1, LedByLists DEF ListsLead, ChainOf
  <1>4. PICK c : c = Order[f]
    OBVIOUS
  <1>5. c = ChainOf(s) /\ DOMAIN c = 1 .. n /\ \A i \in 1 .. n : c[i] = CallbackOf[s[i]]
    BY <1>1, <1>2, <1>3, <1>4, ChainOfProperties
  <1>6. k \in DOMAIN c /\ c[k] = CallbackOf[d]
    BY <1>2, <1>5
  <1>7. Order' = [Order EXCEPT ![f] = RemoveAt(c, k)]
    <2>1. ChainOf(RemoveAt(s, k)) = RemoveAt(c, k)
      BY <1>1, <1>2, <1>5, ChainOfRemoved
    <2> QED
      BY <1>1, <1>3, <2>1
  <1>8. Promise!RemoveAt(c, k) = RemoveAt(c, k)
    BY DEF Promise!RemoveAt, RemoveAt
  <1> QED
    BY <1>3, <1>4, <1>6, <1>7, <1>8 DEF Promise!Leave

LEMMA Traces ==
    ASSUME IInv, IInv', NEW f \in Func, detours' = detours,
           \A g \in Func \ {f} : traces'[g] = traces[g]
    PROVE  Promise!SwitchTracing(f) \/ UNCHANGED <<Order, Ends, Wrapped>>
  <1>1. /\ Order' = Order /\ Ends' = Ends
        /\ Wrapped = {g \in Func : traces[g] # <<>>}
        /\ Wrapped' = {g \in Func : traces'[g] # <<>>}
    <2>1. (IInv => ListsLead)'
      BY LedByLists, PTL
    <2> QED
      BY <2>1, LedByLists DEF ListsLead, ChainOf
  <1>2. CASE traces[f] = <<>> <=> traces'[f] = <<>>
    BY <1>1, <1>2
  <1>3. CASE traces[f] = <<>> /\ traces'[f] # <<>>
    <2>1. Wrapped' = Wrapped \cup {f} /\ f \notin Wrapped
      BY <1>1, <1>3
    <2> QED
      BY <1>1, <2>1 DEF Promise!SwitchTracing
  <1>4. CASE traces[f] # <<>> /\ traces'[f] = <<>>
    <2>1. Wrapped' = Wrapped \ {f} /\ f \in Wrapped
      BY <1>1, <1>4
    <2> QED
      BY <1>1, <2>1 DEF Promise!SwitchTracing
  <1> QED
    BY <1>2, <1>3, <1>4

LEMMA LedStep ==
    IInv /\ IInv' /\ [Next]_vars => [Promise!Next]_<<Order, Ends, Wrapped>>
  <1> SUFFICES ASSUME IInv, IInv', [Next]_vars
               PROVE  [Promise!Next]_<<Order, Ends, Wrapped>>
    OBVIOUS
  <1>0. traces \in [Func -> Seq(Trace)] /\ \A o \in Object : FuncOf[o] \in Func
    BY DetourObjects DEF IInv, Lists
  <1>1. CASE UNCHANGED listVars
    <2>1. detours' = detours /\ traces' = traces
      BY <1>1 DEF listVars
    <2>2. (IInv => ListsLead)'
      BY LedByLists, PTL
    <2> QED
      BY <2>1, <2>2, LedByLists DEF ListsLead, ChainOf
  <1>2. ASSUME NEW o \in Object, Enable(o)
        PROVE  [Promise!Next]_<<Order, Ends, Wrapped>>
    <2>1. PICK t \in TChunk, w \in WChunk :
            IF o \in Trace THEN AddTrace(o, t, w) ELSE AddDetour(o, t, w)
      BY <1>2 DEF Enable, DoEnable
    <2>2. CASE o \in Trace
      <3>1. detours' = detours /\ \A g \in Func \ {FuncOf[o]} : traces'[g] = traces[g]
        BY <1>0, <2>1, <2>2 DEF AddTrace
      <3> QED
        BY <1>0, <3>1, Traces DEF Promise!Next
    <2>3. CASE o \notin Trace
      <3>1. o \in Detour
        BY <2>3 DEF Object
      <3>2. PICK k \in InsertionPoint(detours[FuncOf[o]], o) :
              /\ detours' = [detours EXCEPT ![FuncOf[o]] = InsertAt(detours[FuncOf[o]], k, o)]
              /\ traces' = traces
        BY <2>1, <2>3 DEF AddDetour
      <3> QED
        BY <3>1, <3>2, Joins DEF Promise!Next
    <2> QED
      BY <2>2, <2>3
  <1>3. ASSUME NEW o \in Object, DoDisable(o)
        PROVE  [Promise!Next]_<<Order, Ends, Wrapped>>
    <2>1. PICK t \in TChunk, w \in WChunk :
            IF o \in Trace THEN RemoveTrace(o, t, w) ELSE RemoveDetour(o, t, w)
      BY <1>3 DEF DoDisable
    <2>2. CASE o \in Trace
      <3>1. detours' = detours /\ \A g \in Func \ {FuncOf[o]} : traces'[g] = traces[g]
        BY <1>0, <2>1, <2>2 DEF RemoveTrace
      <3> QED
        BY <1>0, <3>1, Traces DEF Promise!Next
    <2>3. CASE o \notin Trace
      <3>1. o \in Detour
        BY <2>3 DEF Object
      <3>2. PICK k \in DOMAIN detours[FuncOf[o]] :
              /\ detours[FuncOf[o]][k] = o
              /\ detours' = [detours EXCEPT ![FuncOf[o]] = RemoveAt(detours[FuncOf[o]], k)]
              /\ traces' = traces
        BY <2>1, <2>3 DEF RemoveDetour
      <3> QED
        BY <3>1, <3>2, Leaves DEF Promise!Next
    <2> QED
      BY <2>2, <2>3
  <1>4. ASSUME NEW o \in Object, Disable(o) \/ Unload(o)
        PROVE  [Promise!Next]_<<Order, Ends, Wrapped>>
    BY <1>1, <1>3, <1>4 DEF Disable, Unload
  <1>5. ASSUME CleanUp \/ (\E d \in Detour : LoadDetour(d)) \/ (\E x \in Trace : LoadTrace(x))
        PROVE  UNCHANGED listVars
    <2>1. CleanUp => UNCHANGED listVars
      BY DEF CleanUp
    <2>2. \A d \in Detour : LoadDetour(d) => UNCHANGED listVars
      BY DEF LoadDetour
    <2>3. \A x \in Trace : LoadTrace(x) => UNCHANGED listVars
      BY DEF LoadTrace
    <2> QED
      BY <1>5, <2>1, <2>2, <2>3
  <1>6. UNCHANGED vars => UNCHANGED listVars
    BY DEF vars
  <1>7. Next => \/ CleanUp \/ (\E d \in Detour : LoadDetour(d)) \/ (\E x \in Trace : LoadTrace(x))
                \/ \E o \in Object : Enable(o) \/ Disable(o) \/ Unload(o)
    BY DEF Next
  <1>8. CASE \E o \in Object : Enable(o) \/ Disable(o) \/ Unload(o)
    BY <1>2, <1>4, <1>8
  <1>9. CASE CleanUp \/ (\E d \in Detour : LoadDetour(d)) \/ (\E x \in Trace : LoadTrace(x))
    BY <1>1, <1>5, <1>9
  <1> QED
    BY <1>1, <1>6, <1>7, <1>8, <1>9

\* CDetouredFunc implements DetourOrder: whatever is loaded, enabled, disabled, unloaded
\* and cleaned up, its jumps and pointers lead a call of every function through
\* the callbacks of the enabled detours in the order promised, and into its own code.
THEOREM KeepsOrder == Spec => KeepsPromise
  <1>1. Init => Promise!Init
    BY LedInit
  <1>2. IInv /\ IInv' /\ [Next]_vars => [Promise!Next]_<<Order, Ends, Wrapped>>
    BY LedStep
  <1> QED
    BY <1>1, <1>2, Invariance, PTL DEF Spec, Promise!Spec, KeepsPromise

-----------------------------------------------------------------------------
(***************************************************************************)
(* The pointers of callbacks that were disabled.  Each callback has a rank *)
(* and its pointer leads to a higher one; whenever a list is reconfigured  *)
(* its callbacks get new ranks above all others, so that pointers of an    *)
(* earlier chain still lead upwards.                                       *)
(***************************************************************************)

\* The pointers of the callbacks end in trampolines.
PointersLeadOut == Ranked(inner, Callback, TChunk, NULL)

\* What one step does to the pointers: nothing but what the list of one function asks for.
Relinked(f) ==
    \A c \in Callback : inner'[c] = inner[c] \/ \E i \in DOMAIN detours'[f] : CallbackOf[detours'[f][i]] = c

LEMMA ReconfigureRelinks ==
    ASSUME IInv, NEW f \in Func, NEW t, NEW w, NEW ds, NEW ts,
           detours' = [detours EXCEPT ![f] = ds], Reconfigure(f, t, w, ds, ts)
    PROVE  Relinked(f)
  <1>1. detours'[f] = ds
    BY DEF IInv, Lists
  <1>2. ASSUME NEW c \in Callback, PositionsOf(ds, c) = {}
        PROVE  inner'[c] = inner[c]
    BY <1>2 DEF Reconfigure
  <1>3. ASSUME NEW c \in Callback, PositionsOf(ds, c) # {}
        PROVE  \E i \in DOMAIN ds : CallbackOf[ds[i]] = c
    BY <1>3 DEF PositionsOf
  <1> QED
    BY <1>1, <1>2, <1>3 DEF Relinked

LEMMA StepRelinks ==
    ASSUME IInv, [Next]_vars
    PROVE  inner' = inner \/ \E f \in Func : Relinked(f)
  <1>1. ASSUME NEW o \in Object, DoEnable(o)
        PROVE  \E f \in Func : Relinked(f)
    <2>1. PICK f \in Func : f = FuncOf[o]
      BY DetourObjects
    <2>2. PICK t \in TChunk, w \in WChunk :
            IF o \in Trace THEN AddTrace(o, t, w) ELSE AddDetour(o, t, w)
      BY <1>1 DEF DoEnable
    <2>3. CASE o \in Trace
      <3>1. /\ detours' = detours
            /\ Reconfigure(f, t, w, detours[f], Append(traces[f], o))
        BY <2>1, <2>2, <2>3 DEF AddTrace
      <3>2. detours' = [detours EXCEPT ![f] = detours[f]]
        BY <3>1 DEF IInv, Lists
      <3> QED
        BY <3>1, <3>2, ReconfigureRelinks
    <2>4. CASE o \notin Trace
      <3>1. PICK k : /\ detours' = [detours EXCEPT ![f] = InsertAt(detours[f], k, o)]
                     /\ Reconfigure(f, t, w, InsertAt(detours[f], k, o), traces[f])
        BY <2>1, <2>2, <2>4 DEF AddDetour
      <3> QED
        BY <3>1, ReconfigureRelinks
    <2> QED
      BY <2>3, <2>4
  <1>2. ASSUME NEW o \in Object, DoDisable(o)
        PROVE  \E f \in Func : Relinked(f)
    <2>1. PICK f \in Func : f = FuncOf[o]
      BY DetourObjects
    <2>2. PICK t \in TChunk, w \in WChunk :
            IF o \in Trace THEN RemoveTrace(o, t, w) ELSE RemoveDetour(o, t, w)
      BY <1>2 DEF DoDisable
    <2>3. CASE o \in Trace
      <3>1. PICK k : /\ detours' = detours
                     /\ Reconfigure(f, t, w, detours[f], RemoveAt(traces[f], k))
        BY <2>1, <2>2, <2>3 DEF RemoveTrace
      <3>2. detours' = [detours EXCEPT ![f] = detours[f]]
        BY <3>1 DEF IInv, Lists
      <3> QED
        BY <3>1, <3>2, ReconfigureRelinks
    <2>4. CASE o \notin Trace
      <3>1. PICK k : /\ detours' = [detours EXCEPT ![f] = RemoveAt(detours[f], k)]
                     /\ Reconfigure(f, t, w, RemoveAt(detours[f], k), traces[f])
        BY <2>1, <2>2, <2>4 DEF RemoveDetour
      <3> QED
        BY <3>1, ReconfigureRelinks
    <2> QED
      BY <2>3, <2>4
  <1>3. CASE UNCHANGED vars
    BY <1>3 DEF vars, linkVars
  <1>4. ASSUME NEW d \in Detour, LoadDetour(d)
        PROVE  inner' = inner
    BY <1>4 DEF LoadDetour, linkVars
  <1>5. ASSUME NEW t \in Trace, LoadTrace(t)
        PROVE  inner' = inner
    BY <1>5 DEF LoadTrace, linkVars
  <1>6. ASSUME NEW o \in Object, Enable(o) \/ Disable(o)
        PROVE  \E f \in Func : Relinked(f)
    BY <1>1, <1>2, <1>6 DEF Enable, Disable
  <1>7. ASSUME NEW o \in Object, Unload(o)
        PROVE  inner' = inner \/ \E f \in Func : Relinked(f)
    BY <1>2, <1>7 DEF Unload, linkVars
  <1>8. CASE CleanUp
    BY <1>8 DEF CleanUp
  <1> QED
    BY <1>3, <1>4, <1>5, <1>6, <1>7, <1>8 DEF Next

\* The callbacks of the list move above all others, in its order.
LEMMA RankStep ==
    ASSUME IInv, IInv', PointersLeadOut, NEW f \in Func, Relinked(f)
    PROVE  PointersLeadOut'
  <1> DEFINE ds == detours'[f]
  <1>1. PICK n \in Nat : n = Len(ds) /\ DOMAIN ds = 1 .. n
    BY LenProperties DEF IInv, Lists
  <1>2. PICK t : t = trampoline'[f] /\ (n # 0 => t \in TChunk)
    <2>1. ds # <<>> => f \in funcMap'
      BY DEF IInv, Links
    <2>2. n # 0 => ds # <<>>
      BY <1>1
    <2> QED
      BY <2>1, <2>2 DEF IInv, Nodes
  <1>3. \A i \in 1 .. n : CallbackOf[ds[i]] \in Callback
    <2>1. ds \in Seq(Detour)
      BY DEF IInv, Lists
    <2> QED
      BY <1>1, <2>1, ElementOfSeq, DetourObjects
  <1>4. \A i \in 1 .. n : inner'[CallbackOf[ds[i]]] = IF i = n THEN t ELSE CallbackOf[ds[i + 1]]
    <2>1. \A i \in 1 .. n : inner'[CallbackOf[ds[i]]] = NextInner(ds, i, t)
      BY <1>1, <1>2 DEF IInv, Links, ChainIsWhole, NextInner
    <2> QED
      BY <1>1, <2>1 DEF NextInner
  <1>5. ASSUME NEW i \in 1 .. n, NEW j \in 1 .. n, CallbackOf[ds[i]] = CallbackOf[ds[j]]
        PROVE  i = j
    <2>1. ToSet(ds) \subseteq active' \cap Detour /\ IsInjective(ds)
      BY DEF IInv, Lists, ActiveIsListed
    <2>2. EnabledCallbacksDiffer'
      BY PartsSuffice, PTL
    <2>3. ds[i] = ds[j]
      BY <1>1, <1>5, <2>1, <2>2 DEF EnabledCallbacksDiffer, ToSet
    <2> QED
      BY <1>1, <2>1, <2>3 DEF IsInjective
  <1>6. PICK c : c = [i \in 1 .. n |-> CallbackOf[ds[i]]]
    OBVIOUS
  <1>7. PICK new, old : new = inner' /\ old = inner
    OBVIOUS
  <1>8. c \in [1 .. n -> Callback] /\ \A i, j \in 1 .. n : c[i] = c[j] => i = j
    BY <1>3, <1>5, <1>6
  <1>9. LeadsAlong(new, old, Callback, c, n, t)
    <2>1. \A i \in 1 .. n : new[c[i]] = IF i = n THEN t ELSE c[i + 1]
      <3> TAKE i \in 1 .. n
      <3>1. i = n \/ i + 1 \in 1 .. n
        OBVIOUS
      <3> QED
        BY <1>4, <1>6, <1>7, <3>1
    <2>2. \A e \in Callback : new[e] = old[e] \/ \E i \in 1 .. n : c[i] = e
      BY <1>1, <1>6, <1>7 DEF Relinked
    <2> QED
      BY <2>1, <2>2 DEF LeadsAlong
  <1>10. Ranked(old, Callback, TChunk, NULL)
    BY <1>7 DEF PointersLeadOut
  <1>11. NULL \notin Callback \cup TChunk
    BY DisjointCode
  <1>12. Ranked(new, Callback, TChunk, NULL)
    BY <1>2, <1>8, <1>9, <1>10, <1>11, StillRanked
  <1> QED
    BY <1>7, <1>12 DEF PointersLeadOut

LEMMA RanksExist == Spec => []PointersLeadOut
  <1>1. Init => PointersLeadOut
    <2> SUFFICES ASSUME Init
                 PROVE  PointersLeadOut
      OBVIOUS
    <2>1. PICK rank : rank = [c \in Callback |-> 0]
      OBVIOUS
    <2>2. rank \in [Callback -> 0 .. 0] /\ 0 \in Nat
      BY <2>1
    <2>3. Rises(inner, Callback, TChunk, NULL, rank)
      BY DEF Init, Rises
    <2> QED
      BY <2>2, <2>3 DEF Ranked, PointersLeadOut
  <1>2. IInv /\ IInv' /\ PointersLeadOut /\ [Next]_vars => PointersLeadOut'
    <2> SUFFICES ASSUME IInv, IInv', PointersLeadOut, [Next]_vars
                 PROVE  PointersLeadOut'
      OBVIOUS
    <2>1. CASE inner' = inner
      BY <2>1 DEF PointersLeadOut
    <2>2. ASSUME NEW f \in Func, Relinked(f)
          PROVE  PointersLeadOut'
      BY <2>2, RankStep
    <2> QED
      BY <2>1, <2>2, StepRelinks
  <1> QED
    BY <1>1, <1>2, Invariance, PTL DEF Spec

\* Ranks cannot rise for longer than there are callbacks.
LEMMA RanksSuffice == PointersLeadOut => NoCallbackCycle
  <1> SUFFICES ASSUME PointersLeadOut, NEW c \in Callback, inner[c] # NULL
               PROVE  \E n \in 1 .. MaxHops : Hops(c)[n] \in TChunk
    BY DEF NoCallbackCycle
  <1>1. PICK m \in Nat : m = MaxHops /\ m = Cardinality(Callback) + 3
    BY HopsKnown
  <1>2. PICK h, next : h = Hops(c) /\ next = Follow
    OBVIOUS
  <1>3. h[1] = c /\ Goes(h, m, next)
    BY <1>1, <1>2, HopsKnown DEF Goes
  <1>4. \A e \in Callback : next[e] = inner[e]
    BY <1>2, DisjointCode DEF Follow, Ptr
  <1>5. Cardinality(Callback) < m
    BY <1>1, FinitelyMany, FS_CardinalityType
  <1>6. NULL \notin Callback /\ Callback \cap TChunk = {}
    BY DisjointCode
  <1>7. ComesTo(h, m, Callback, TChunk)
    BY <1>3, <1>4, <1>5, <1>6, FinitelyMany, WayEnds DEF PointersLeadOut
  <1>8. PICK k \in 1 .. m - 1 : h[k + 1] \in TChunk
    BY <1>7 DEF ComesTo
  <1>9. k + 1 \in 1 .. m
    OBVIOUS
  <1> QED
    BY <1>1, <1>2, <1>8, <1>9

\* A call that is inside a callback while detours come and go is never led in a circle.
THEOREM CallbacksLeadOut == Spec => []NoCallbackCycle
  BY RanksExist, RanksSuffice, PTL

-----------------------------------------------------------------------------
(***************************************************************************)
(* Calls: the invariant.                                                   *)
(***************************************************************************)

\* With r as the time at which each detour was enabled last, d comes before e in any
\* list that has both.
Before(r, d, e) ==
    Priority[d] > Priority[e] \/ (Priority[d] = Priority[e] /\ r[d] < r[e])

\* The lists are in this order.
InOrder(r) ==
    \A f \in Func : \A i, j \in DOMAIN detours[f] :
      i < j => Before(r, detours[f][i], detours[f][j])

\* The pointer of the callback of d leads to the trampoline of its function, to what was
\* a trampoline of a function that is cut, or to the callback of a later detour of the
\* function, which is one of S.
GoesOn(d, S, r) ==
    \/ FuncOf[d] \in funcMap /\ inner[CallbackOf[d]] = trampoline[FuncOf[d]]
    \/ FuncOf[d] \in cut /\ inner[CallbackOf[d]] \in TChunk
    \/ \E e \in S : /\ FuncOf[e] = FuncOf[d] /\ Before(r, d, e)
                    /\ inner[CallbackOf[d]] = CallbackOf[e]

\* Calls can run through the detours of S: those that are enabled, and those that were
\* and that a call may still be in.
Sound(S, r) ==
    /\ active \cap Detour \subseteq S /\ S \subseteq loaded \cap Detour
    /\ \A d \in S : GoesOn(d, S, r)

\* The pointer of the wrapper of f does the same while f is mapped.
WrapperGoesOn(f, S) ==
    /\ f \in funcMap
    /\ \/ wrapperInner[f] = trampoline[f]
       \/ \E e \in S : FuncOf[e] = f /\ wrapperInner[f] = CallbackOf[e]

\* A frame is in its function's own wrapper, which is only ever entered by a call, in
\* the callback of one of its detours in S, or in its code; when the function is cut, it
\* may be in a wrapper that has made its call already, or in the code of another function.
SoundFrame(fr, S) ==
    /\ fr.at \in WChunk => /\ fr.via = "call"
                           /\ \/ fr.at = wrapper[fr.fn] /\ WrapperGoesOn(fr.fn, S)
                              \/ fr.fn \in cut /\ fr.called
    /\ fr.at \in Callback => \E d \in S : CallbackOf[d] = fr.at /\ FuncOf[d] = fr.fn
    /\ fr.at \in Func => fr.at = fr.fn \/ fr.fn \in cut

\* A wrapper below the top has made its call.
WrappersWait ==
    \A n \in DOMAIN stack : n < Len(stack) /\ stack[n].at \in WChunk => stack[n].called

\* Along one call the priority does not rise, and a detour that was not enabled anew comes
\* before those further in.
Descends(r) ==
    \A m, n \in DOMAIN stack : m < n /\ OneCall(m, n) =>
      \A d, e \in Detour : CallbackOf[d] = stack[m].at /\ CallbackOf[e] = stack[n].at =>
        Priority[d] >= Priority[e] /\ (d \notin reenabled => Before(r, d, e))

FrameKind == [at : Entry, fn : Func, via : {"call", "inner"}, called : BOOLEAN, ret : Nat]

CallTypes ==
    /\ stack \in Seq(FrameKind) /\ midCall \in Nat /\ reenabled \subseteq Detour
    /\ cut \subseteq Func /\ (stack = <<>> => cut = {})
    /\ left \in [TChunk \cup WChunk -> Func \cup {NULL}]

\* Pointers, frames and their order, for the detours S and the times r.
Consistent(S, r) ==
    /\ InOrder(r) /\ Sound(S, r) /\ Descends(r)
    /\ \A n \in DOMAIN stack : SoundFrame(stack[n], S)

CInv ==
    /\ IInv /\ CallTypes /\ WrappersWait /\ OnlyCutCallsFail
    /\ stack # <<>> => Detour \subseteq loaded
    /\ \E S \in SUBSET Detour, r \in [Detour -> Nat], bound \in Nat :
         (\A d \in Detour : r[d] < bound) /\ Consistent(S, r)

-----------------------------------------------------------------------------
(***************************************************************************)
(* The order of the detours of a function.                                 *)
(***************************************************************************)

\* Taking an element out of a list leaves the others in their order.
LEMMA RemovedKeepsOrder ==
    ASSUME NEW s \in Seq(Detour), NEW k \in DOMAIN s,
           NEW i \in DOMAIN RemoveAt(s, k), NEW j \in DOMAIN RemoveAt(s, k), i < j
    PROVE  \E a, b \in DOMAIN s : a < b /\ RemoveAt(s, k)[i] = s[a] /\ RemoveAt(s, k)[j] = s[b]
<1>1. PICK n \in Nat : n = Len(s) /\ DOMAIN s = 1 .. n
  BY LenProperties
<1>2. k \in 1 .. n /\ k \in 1 .. Len(s)
  BY <1>1
<1>3. PICK q : q = RemoveAt(s, k)
  OBVIOUS
<1>4. /\ DOMAIN q = 1 .. n - 1
      /\ \A x \in 1 .. n - 1 : q[x] = IF x < k THEN s[x] ELSE s[x + 1]
  <2>1. /\ q \in Seq(Detour) /\ Len(q) = n - 1
        /\ \A x \in 1 .. n - 1 : q[x] = IF x < k THEN s[x] ELSE s[x + 1]
    BY <1>1, <1>2, <1>3, RemoveAtProperties
  <2> QED
    BY <2>1, LenProperties
<1> DEFINE at(x) == IF x < k THEN x ELSE x + 1
<1>5. at(i) \in 1 .. n /\ at(j) \in 1 .. n /\ at(i) < at(j)
  BY <1>2, <1>3, <1>4
<1>6. q[i] = s[at(i)] /\ q[j] = s[at(j)]
  BY <1>3, <1>4
<1> QED
  BY <1>1, <1>3, <1>5, <1>6

\* AddDetour puts the detour behind all that do not come after it, which is where
\* one that is enabled last belongs.
LEMMA InsertedLast ==
    ASSUME NEW s \in Seq(Detour), NEW d \in Detour, NEW k \in InsertionPoint(s, d),
           NEW r \in [Detour -> Nat], NEW bound \in Nat, \A e \in Detour : r[e] < bound,
           \A i \in DOMAIN s : s[i] # d,
           \A i, j \in DOMAIN s : i < j => Before(r, s[i], s[j]),
           NEW i \in DOMAIN InsertAt(s, k, d), NEW j \in DOMAIN InsertAt(s, k, d), i < j
    PROVE  Before([r EXCEPT ![d] = bound], InsertAt(s, k, d)[i], InsertAt(s, k, d)[j])
<1>1. PICK n \in Nat : n = Len(s) /\ DOMAIN s = 1 .. n
  BY LenProperties
<1>2. /\ k \in 1 .. n + 1
      /\ \A x \in 1 .. k - 1 : Priority[s[x]] >= Priority[d]
      /\ \A x \in k .. n : Priority[s[x]] < Priority[d]
  BY <1>1 DEF InsertionPoint
<1>3. PICK q : q = InsertAt(s, k, d)
  OBVIOUS
<1>4. /\ DOMAIN q = 1 .. n + 1
      /\ \A x \in 1 .. n + 1 : q[x] = IF x < k THEN s[x] ELSE IF x = k THEN d ELSE s[x - 1]
  <2>1. k \in 1 .. Len(s) + 1
    BY <1>1, <1>2
  <2>2. /\ InsertAt(s, k, d) \in Seq(Detour) /\ Len(InsertAt(s, k, d)) = Len(s) + 1
        /\ \A x \in 1 .. Len(s) + 1 : InsertAt(s, k, d)[x] =
              IF x < k THEN s[x] ELSE IF x = k THEN d ELSE s[x - 1]
    BY <2>1, InsertAtProperties
  <2> QED
    BY <1>1, <1>3, <2>2, LenProperties
<1> DEFINE late == [r EXCEPT ![d] = bound]
<1>5. i \in 1 .. n + 1 /\ j \in 1 .. n + 1
  BY <1>3, <1>4
<1>6. /\ Priority[d] \in Int
      /\ \A x \in 1 .. n : s[x] \in Detour /\ s[x] # d /\ Priority[s[x]] \in Int
  <2>1. \A x \in 1 .. n : s[x] \in Detour
    BY <1>1, ElementOfSeq
  <2>2. \A e \in Detour : Priority[e] \in Int
    BY DetourObjects
  <2> QED
    BY <1>1, <2>1, <2>2
<1>7. late[d] = bound /\ \A x \in 1 .. n : late[s[x]] = r[s[x]] /\ r[s[x]] < bound
  BY <1>6
<1>8. CASE i = k
  <2>1. j - 1 \in k .. n /\ ~(j < k) /\ j # k /\ ~(i < k)
    BY <1>2, <1>5, <1>8
  <2>2. q[i] = d /\ q[j] = s[j - 1]
    BY <1>4, <1>5, <1>8, <2>1
  <2> QED
    BY <1>2, <1>3, <1>6, <2>1, <2>2 DEF Before
<1>9. CASE j = k
  <2>1. i \in 1 .. k - 1 /\ i < k /\ i \in 1 .. n
    BY <1>2, <1>5, <1>9
  <2>2. q[i] = s[i] /\ q[j] = d
    BY <1>4, <1>5, <1>9, <2>1
  <2>3. Priority[s[i]] >= Priority[d] /\ late[s[i]] < late[d]
    BY <1>2, <1>7, <2>1
  <2> QED
    BY <1>3, <1>6, <2>1, <2>2, <2>3 DEF Before
<1>10. CASE i # k /\ j # k
  <2> DEFINE at(x) == IF x < k THEN x ELSE x - 1
  <2>1. at(i) \in 1 .. n /\ at(j) \in 1 .. n /\ at(i) < at(j)
    BY <1>2, <1>5, <1>10
  <2>2. q[i] = s[at(i)] /\ q[j] = s[at(j)]
    BY <1>4, <1>5, <1>10
  <2>3. Before(r, s[at(i)], s[at(j)])
    BY <1>1, <2>1
  <2> QED
    BY <1>3, <1>7, <2>1, <2>2, <2>3 DEF Before
<1> QED
  BY <1>8, <1>9, <1>10

\* Enabling a detour leaves the lists in the order of the new times.
LEMMA EnableKeepsOrder ==
    ASSUME IInv, NEW d \in Detour, Enable(d),
           NEW r \in [Detour -> Nat], NEW bound \in Nat, \A e \in Detour : r[e] < bound,
           InOrder(r)
    PROVE  InOrder([r EXCEPT ![d] = bound])'
<1> DEFINE f == FuncOf[d]
           late == [r EXCEPT ![d] = bound]
<1>1. f \in Func /\ d \in Object /\ d \notin Trace
  BY DetourObjects DEF Object
<1>2. PICK k \in InsertionPoint(detours[f], d) :
        detours' = [detours EXCEPT ![f] = InsertAt(detours[f], k, d)]
  BY <1>1 DEF Enable, DoEnable, AddDetour
<1>3. \A g \in Func : detours[g] \in Seq(Detour)
  BY DEF IInv, Lists
<1>4. \A g \in Func : \A i \in DOMAIN detours[g] : detours[g][i] # d
  BY DEF IInv, Lists, ActiveIsListed, ToSet, Enable
<1>5. ASSUME NEW g \in Func, NEW i \in DOMAIN detours'[g], NEW j \in DOMAIN detours'[g], i < j
      PROVE  Before(late, detours'[g][i], detours'[g][j])
  <2>1. CASE g = f
    <3>1. detours'[g] = InsertAt(detours[f], k, d)
      BY <1>2, <2>1 DEF IInv, Lists
    <3>2. \A x, y \in DOMAIN detours[f] : x < y => Before(r, detours[f][x], detours[f][y])
      BY <1>1 DEF InOrder
    <3> QED
      BY <1>1, <1>3, <1>4, <1>5, <3>1, <3>2, InsertedLast
  <2>2. CASE g # f
    <3>1. detours'[g] = detours[g]
      BY <1>2, <2>2 DEF IInv, Lists
    <3>2. \A x \in DOMAIN detours[g] : late[detours[g][x]] = r[detours[g][x]]
      BY <1>3, <1>4, ElementOfSeq, LenProperties
    <3> QED
      BY <1>5, <3>1, <3>2 DEF InOrder, Before
  <2> QED
    BY <2>1, <2>2
<1> QED
  BY <1>5 DEF InOrder

\* Disabling one leaves them in the order of the old times.
LEMMA DisableKeepsOrder ==
    ASSUME IInv, NEW d \in Detour, Disable(d), NEW r \in [Detour -> Nat], InOrder(r)
    PROVE  InOrder(r)'
<1> DEFINE f == FuncOf[d]
<1>1. f \in Func /\ d \in Object /\ d \notin Trace
  BY DetourObjects DEF Object
<1>2. PICK k \in DOMAIN detours[f] : detours' = [detours EXCEPT ![f] = RemoveAt(detours[f], k)]
  BY <1>1 DEF Disable, DoDisable, RemoveDetour
<1>3. ASSUME NEW g \in Func, NEW i \in DOMAIN detours'[g], NEW j \in DOMAIN detours'[g], i < j
      PROVE  Before(r, detours'[g][i], detours'[g][j])
  <2>1. CASE g = f
    <3>1. detours'[g] = RemoveAt(detours[f], k) /\ detours[f] \in Seq(Detour)
      BY <1>1, <1>2, <2>1 DEF IInv, Lists
    <3>2. PICK a, b \in DOMAIN detours[f] :
            a < b /\ detours'[g][i] = detours[f][a] /\ detours'[g][j] = detours[f][b]
      <4>1. i \in DOMAIN RemoveAt(detours[f], k) /\ j \in DOMAIN RemoveAt(detours[f], k)
        BY <3>1
      <4>2. \E a, b \in DOMAIN detours[f] :
               /\ a < b /\ RemoveAt(detours[f], k)[i] = detours[f][a]
               /\ RemoveAt(detours[f], k)[j] = detours[f][b]
        BY <1>3, <3>1, <4>1, RemovedKeepsOrder
      <4> QED
        BY <3>1, <4>2
    <3> QED
      BY <1>1, <3>2 DEF InOrder
  <2>2. CASE g # f
    <3>1. detours'[g] = detours[g]
      BY <1>2, <2>2 DEF IInv, Lists
    <3> QED
      BY <1>3, <3>1 DEF InOrder
  <2> QED
    BY <2>1, <2>2
<1> QED
  BY <1>3 DEF InOrder

-----------------------------------------------------------------------------
(***************************************************************************)
(* Where the pointers lead.                                                *)
(***************************************************************************)

\* From the callback of an enabled detour a call goes on to a later one, or to the
\* trampoline.
ListedGoOn ==
    \A r \in [Detour -> Nat] : InOrder(r) =>
      \A d \in active \cap Detour : GoesOn(d, active \cap Detour, r)

LEMMA ListedLeadOn == IInv => ListedGoOn
<1> SUFFICES ASSUME IInv, NEW r \in [Detour -> Nat], InOrder(r), NEW d \in active \cap Detour
             PROVE  GoesOn(d, active \cap Detour, r)
  BY DEF ListedGoOn
<1> DEFINE f == FuncOf[d]
<1>1. f \in Func
  BY DetourObjects DEF Object
<1>2. PICK i \in DOMAIN detours[f] : detours[f][i] = d
  BY <1>1 DEF IInv, Lists, ActiveIsListed, ToSet
<1>3. PICK n \in Nat : n = Len(detours[f]) /\ DOMAIN detours[f] = 1 .. n
  BY <1>1, LenProperties DEF IInv, Lists
<1>4. f \in funcMap
  <2>1. detours[f] # <<>>
    BY <1>2, <1>3
  <2> QED
    BY <1>1, <2>1 DEF IInv, Links
<1>5. inner[CallbackOf[d]] = NextInner(detours[f], i, trampoline[f])
  BY <1>1, <1>2 DEF IInv, Links, ChainIsWhole
<1>6. CASE i = n
  BY <1>3, <1>4, <1>5, <1>6 DEF NextInner, GoesOn
<1>7. CASE i # n
  <2>1. i + 1 \in DOMAIN detours[f] /\ i < i + 1
    BY <1>3, <1>7
  <2>2. detours[f][i + 1] \in active \cap Detour /\ FuncOf[detours[f][i + 1]] = f
    BY <1>1, <2>1 DEF IInv, Lists, ActiveIsListed, ToSet
  <2>3. Before(r, d, detours[f][i + 1])
    BY <1>1, <1>2, <2>1 DEF InOrder
  <2>4. inner[CallbackOf[d]] = CallbackOf[detours[f][i + 1]]
    BY <1>3, <1>5, <1>7 DEF NextInner
  <2> QED
    BY <1>4, <2>2, <2>3, <2>4 DEF GoesOn
<1> QED
  BY <1>6, <1>7

\* So does the wrapper of a function with traces.
TracedGoOn ==
    \A f \in Func : traces[f] # <<>> => WrapperGoesOn(f, active \cap Detour)

LEMMA TracedLeadOn == IInv => TracedGoOn
<1> SUFFICES ASSUME IInv, NEW f \in Func, traces[f] # <<>>
             PROVE  WrapperGoesOn(f, active \cap Detour)
  BY DEF TracedGoOn
<1>1. f \in funcMap
  BY DEF IInv, Links
<1>2. wrapperInner[f] = IF detours[f] = <<>> THEN trampoline[f] ELSE CallbackOf[detours[f][1]]
  BY DEF IInv, Links, ChainIsWhole
<1>3. CASE detours[f] = <<>>
  BY <1>1, <1>2, <1>3 DEF WrapperGoesOn
<1>4. CASE detours[f] # <<>>
  <2>1. 1 \in DOMAIN detours[f]
    BY <1>4, LenProperties, EmptySeq DEF IInv, Lists
  <2>2. detours[f][1] \in active \cap Detour /\ FuncOf[detours[f][1]] = f
    BY <2>1 DEF IInv, Lists, ActiveIsListed, ToSet
  <2> QED
    BY <1>1, <1>2, <1>4, <2>2 DEF WrapperGoesOn
<1> QED
  BY <1>3, <1>4

\* What the toggling of detours leaves alone: mapped functions keep their chunks, and a
\* pointer is only written for a detour or a trace that is listed now.
PointersStay ==
    /\ funcMap \subseteq funcMap'
    /\ \A f \in funcMap : trampoline'[f] = trampoline[f] /\ wrapper'[f] = wrapper[f]
    /\ \A d \in Detour : \/ inner'[CallbackOf[d]] = inner[CallbackOf[d]]
                         \/ \E e \in active' \cap Detour : CallbackOf[e] = CallbackOf[d]
    /\ \A f \in Func : wrapperInner'[f] = wrapperInner[f] \/ traces'[f] # <<>>

\* Find and Reconfigure of one function, for its new lists ds and ts.
LEMMA ReconfigureStays ==
    ASSUME IInv, IInv', NEW f \in Func, NEW t \in TChunk, NEW w \in WChunk, Find(f, t, w),
           NEW ds, NEW ts, detours'[f] = ds, traces'[f] = ts, Reconfigure(f, t, w, ds, ts)
    PROVE  PointersStay
<1>1. funcMap \subseteq funcMap' /\ \A g \in funcMap : trampoline'[g] = trampoline[g] /\ wrapper'[g] = wrapper[g]
  BY DEF Find, CreateWrapper, CreateTrampoline, nodeVars, IInv, Nodes
<1>2. ASSUME NEW d \in Detour, inner'[CallbackOf[d]] # inner[CallbackOf[d]]
      PROVE  \E e \in active' \cap Detour : CallbackOf[e] = CallbackOf[d]
  <2>1. PositionsOf(ds, CallbackOf[d]) # {}
    BY <1>2, DetourObjects DEF Reconfigure
  <2>2. PICK i \in DOMAIN detours'[f] : CallbackOf[detours'[f][i]] = CallbackOf[d]
    BY <2>1 DEF PositionsOf
  <2>3. detours'[f][i] \in active' \cap Detour
    BY DEF IInv, Lists, ActiveIsListed, ToSet
  <2> QED
    BY <2>2, <2>3
<1>3. ASSUME NEW g \in Func, wrapperInner'[g] # wrapperInner[g]
      PROVE  traces'[g] # <<>>
  BY <1>3 DEF Reconfigure, IInv, Links
<1> QED
  BY <1>1, <1>2, <1>3 DEF PointersStay

\* Enable and Disable of an object.
LEMMA ToggleStays ==
    ASSUME IInv, IInv', NEW o \in Object, DoEnable(o) \/ DoDisable(o)
    PROVE  PointersStay
<1>1. FuncOf[o] \in Func /\ \A f \in Func : f \in DOMAIN detours /\ f \in DOMAIN traces
  BY DetourObjects DEF IInv, Lists
<1>2. PICK t \in TChunk, w \in WChunk :
        /\ Find(FuncOf[o], t, w)
        /\ AddTrace(o, t, w) \/ AddDetour(o, t, w) \/ RemoveTrace(o, t, w) \/ RemoveDetour(o, t, w)
  BY DEF DoEnable, DoDisable
<1>3. \E ds, ts : /\ detours'[FuncOf[o]] = ds /\ traces'[FuncOf[o]] = ts
                  /\ Reconfigure(FuncOf[o], t, w, ds, ts)
  <2>1. CASE AddTrace(o, t, w)
    BY <1>1, <2>1 DEF AddTrace
  <2>2. CASE AddDetour(o, t, w)
    BY <1>1, <2>2 DEF AddDetour
  <2>3. CASE RemoveTrace(o, t, w)
    BY <1>1, <2>3 DEF RemoveTrace
  <2>4. CASE RemoveDetour(o, t, w)
    BY <1>1, <2>4 DEF RemoveDetour
  <2> QED
    BY <1>2, <2>1, <2>2, <2>3, <2>4
<1> QED
  BY <1>1, <1>2, <1>3, ReconfigureStays

\* Nothing is relinked when only flags change.
LEMMA FlagsStay ==
    ASSUME UNCHANGED <<nodeVars, linkVars, listVars>>
    PROVE  PointersStay
BY DEF nodeVars, linkVars, listVars, PointersStay

-----------------------------------------------------------------------------
(***************************************************************************)
(* Calls and returns.                                                      *)
(***************************************************************************)

\* A frame with these fields has come on top; of those below only called may differ.
Pushed(at, f, via) ==
    /\ stack' \in Seq(FrameKind) /\ Len(stack') = Len(stack) + 1
    /\ \A n \in 1 .. Len(stack) : /\ stack'[n].at = stack[n].at /\ stack'[n].fn = stack[n].fn
                                  /\ stack'[n].via = stack[n].via /\ stack'[n].ret = stack[n].ret
                                  /\ stack[n].at \in WChunk => stack'[n].called
    /\ stack'[Len(stack) + 1].at = at /\ stack'[Len(stack) + 1].fn = f
    /\ stack'[Len(stack) + 1].via = via /\ stack'[Len(stack) + 1].ret = Len(stack)

\* The frame on top has gone.
Popped ==
    /\ stack # <<>>
    /\ stack' \in Seq(FrameKind) /\ Len(stack') = Len(stack) - 1
    /\ \A n \in 1 .. Len(stack) - 1 : stack'[n] = stack[n]

\* Front takes off the last element.
LEMMA FrontProperties ==
    ASSUME NEW S, NEW s \in Seq(S), s # <<>>
    PROVE  /\ Front(s) \in Seq(S) /\ Len(Front(s)) = Len(s) - 1
           /\ \A n \in 1 .. Len(s) - 1 : Front(s)[n] = s[n]
<1>1. PICK n \in Nat : n = Len(s) /\ n >= 1
  BY EmptySeq, LenProperties
<1>2. /\ SubSeq(s, 1, n - 1) \in Seq(S) /\ Len(SubSeq(s, 1, n - 1)) = (n - 1) - 1 + 1
      /\ \A i \in 1 .. (n - 1) - 1 + 1 : SubSeq(s, 1, n - 1)[i] = s[1 + i - 1]
  BY <1>1, SubSeqKnown
<1> QED
  BY <1>1, <1>2 DEF Front

LEMMA EnterPushes ==
    ASSUME CallTypes, NEW at \in Entry, NEW f \in Func, NEW via \in {"call", "inner"},
           NEW base \in Seq(FrameKind), Len(base) = Len(stack),
           \A n \in 1 .. Len(stack) :
             /\ base[n].at = stack[n].at /\ base[n].fn = stack[n].fn
             /\ base[n].via = stack[n].via /\ base[n].ret = stack[n].ret
             /\ stack[n].at \in WChunk => base[n].called,
           Enter(at, f, via, base)
    PROVE  /\ Pushed(at, f, via)
           /\ UNCHANGED fault
           /\ IF at \notin WChunk THEN UNCHANGED <<retAddrs, refCount>>
              ELSE /\ retAddrs' = Append(retAddrs, Len(stack))
                   /\ refCount' = [t \in Trace |->
                        refCount[t] + (IF Traced(wrapperFunc[at], t) THEN 1 ELSE 0)]
<1> DEFINE top == Frame(at, f, via)
<1>1. at # NULL
  BY DisjointCode DEF Entry
<1>2. /\ stack' = Append(base, top) /\ UNCHANGED fault
      /\ IF at \notin WChunk THEN UNCHANGED <<retAddrs, refCount>>
         ELSE /\ retAddrs' = Append(retAddrs, Len(stack))
              /\ refCount' = [t \in Trace |->
                   refCount[t] + (IF Traced(wrapperFunc[at], t) THEN 1 ELSE 0)]
  BY <1>1 DEF Enter
<1>3. Len(stack) \in Nat
  BY LenProperties DEF CallTypes
<1>4. /\ top \in FrameKind
      /\ top.at = at /\ top.fn = f /\ top.via = via /\ top.ret = Len(stack)
  BY <1>3 DEF Frame, FrameKind
<1>5. PICK n \in Nat : n = Len(stack)
  BY <1>3
<1>6. /\ stack' \in Seq(FrameKind) /\ Len(stack') = n + 1
      /\ \A i \in 1 .. n : stack'[i] = base[i]
      /\ stack'[n + 1] = top
  BY <1>2, <1>4, <1>5, AppendProperties
<1>7. Pushed(at, f, via)
  <2>1. \A k \in 1 .. n : /\ stack'[k].at = stack[k].at /\ stack'[k].fn = stack[k].fn
                           /\ stack'[k].via = stack[k].via /\ stack'[k].ret = stack[k].ret
                           /\ stack[k].at \in WChunk => stack'[k].called
    BY <1>5, <1>6
  <2> HIDE DEF top
  <2> QED
    BY <1>4, <1>5, <1>6, <2>1 DEF Pushed
<1> QED
  BY <1>2, <1>7

LEMMA PopPops ==
    ASSUME CallTypes, stack # <<>>, Pop
    PROVE  Popped
BY FrontProperties DEF CallTypes, Pop, Popped

\* Where the jumps of the code land.
LEMMA JumpsLand ==
    ASSUME IInv
    PROVE  /\ \A p \in Func \cup Callback : Landing(p) = p /\ Landings(p) = {p}
           /\ \A f \in funcMap : /\ Landings(trampoline[f]) = {f} /\ Landing(wrapper[f]) = wrapper[f]
                                 /\ wrapper[f] \in WChunk /\ wrapperFunc[wrapper[f]] = f
           /\ \A p \in TChunk : Landings(p) \subseteq Func \cup {NULL, left[p]}
<1>1. \A p \in Func \cup Callback : Landing(p) = p /\ Landings(p) = {p}
  BY DisjointCode DEF Landing, Landings
<1>2. ASSUME NEW f \in funcMap
      PROVE  /\ Landings(trampoline[f]) = {f} /\ Landing(wrapper[f]) = wrapper[f]
             /\ wrapper[f] \in WChunk /\ wrapperFunc[wrapper[f]] = f
  <2>1. /\ f \in Func /\ trampoline[f] \in TChunk /\ trampCode[trampoline[f]] = f
        /\ wrapper[f] \in WChunk /\ wrapperFunc[wrapper[f]] = f
    BY DEF IInv, Nodes
  <2> QED
    BY <2>1, DisjointCode DEF Landing, Landings
<1>3. ASSUME NEW p \in TChunk
      PROVE  Landings(p) \subseteq Func \cup {NULL, left[p]}
  <2>1. CASE trampCode[p] = NULL
    BY <2>1 DEF Landings
  <2>2. CASE trampCode[p] # NULL
    <3>1. PICK f \in funcMap : trampoline[f] = p
      BY <2>2 DEF IInv, Nodes, ChunksAreOwned
    <3>2. f \in Func /\ Landings(p) = {f}
      BY <1>2, <3>1 DEF IInv, Nodes
    <3> QED
      BY <3>2
  <2> QED
    BY <2>1, <2>2
<1> QED
  BY <1>1, <1>2, <1>3

\* The pointer that the frame on top calls through.
InnerPtr == IF Top.at \in WChunk THEN wrapperInner[Top.fn] ELSE inner[Top.at]

\* A call that comes through the pointer of a detour or a wrapper lands in the callback
\* of a later detour, or in the function; in another function, or in a chunk that was
\* freed, only when its own is cut.
InnerLandsAt(at, S, r) ==
    /\ Top.fn \in Func /\ at \in Func \cup Callback \cup {NULL}
    /\ at = NULL => Top.fn \in cut /\ Top.at \in Callback
    /\ at \in Func => at = Top.fn \/ Top.fn \in cut
    /\ at \in Callback => \E e \in S : CallbackOf[e] = at /\ FuncOf[e] = Top.fn
    /\ \A d, e \in Detour : CallbackOf[d] = Top.at /\ CallbackOf[e] = at => Before(r, d, e)

LEMMA InnerLands ==
    ASSUME IInv, CallTypes, stack # <<>>, Detour \subseteq loaded,
           NEW S, NEW r \in [Detour -> Nat], Consistent(S, r),
           Top.at \in Callback \/ (Top.at \in WChunk /\ ~Top.called),
           NEW at \in Landings(InnerPtr)
    PROVE  InnerLandsAt(at, S, r)
<1> DEFINE f  == Top.fn
<1>1. Top \in FrameKind /\ SoundFrame(Top, S)
  <2>1. Len(stack) \in DOMAIN stack
    BY EmptySeq, LenProperties DEF CallTypes
  <2> QED
    BY <2>1, ElementOfSeq, LenProperties DEF CallTypes, Consistent, Top
<1>2. f \in Func
  BY <1>1 DEF FrameKind
<1>3. S \subseteq Detour
  BY DEF Consistent, Sound
<1>4. \A d, e \in Detour : CallbackOf[d] = CallbackOf[e] => d = e
  BY DEF IInv, Flags
<1>5. CASE Top.at \in WChunk
  <2>1. WrapperGoesOn(f, S) /\ InnerPtr = wrapperInner[f]
    BY <1>1, <1>5, DisjointCode DEF SoundFrame, InnerPtr
  <2>2. \A d \in Detour : CallbackOf[d] # Top.at
    BY <1>5, DetourObjects, DisjointCode
  <2>3. CASE wrapperInner[f] = trampoline[f]
    <3>1. at = f
      <4>1. f \in funcMap /\ at \in Landings(trampoline[f])
        BY <2>1, <2>3 DEF WrapperGoesOn
      <4>2. Landings(trampoline[f]) = {f}
        BY <4>1, JumpsLand
      <4> QED BY <4>1, <4>2
    <3>2. at \in Func /\ at \notin Callback /\ at # NULL
      BY <1>2, <3>1, DisjointCode
    <3> QED
      BY <1>2, <2>2, <3>1, <3>2 DEF InnerLandsAt
  <2>4. ASSUME NEW e \in S, FuncOf[e] = f, wrapperInner[f] = CallbackOf[e]
        PROVE  InnerLandsAt(at, S, r)
    <3>1. CallbackOf[e] \in Callback
      BY <1>3, DetourObjects
    <3>2. at = CallbackOf[e]
      BY <2>1, <2>4, <3>1, JumpsLand
    <3>3. at \in Callback /\ at \notin Func /\ at # NULL
      BY <3>1, <3>2, DisjointCode
    <3> QED
      BY <1>2, <2>2, <2>4, <3>2, <3>3 DEF InnerLandsAt
  <2> QED
    BY <2>1, <2>3, <2>4 DEF WrapperGoesOn
<1>6. CASE Top.at \in Callback
  <2>1. Top.at \notin WChunk
    BY <1>6, DisjointCode
  <2>2. PICK c \in S : CallbackOf[c] = Top.at /\ FuncOf[c] = f
    BY <1>1, <1>6 DEF SoundFrame
  <2>3. GoesOn(c, S, r) /\ InnerPtr = inner[CallbackOf[c]]
    BY <2>1, <2>2 DEF Consistent, Sound, InnerPtr
  <2>4. \A e \in Detour : CallbackOf[e] \in Callback
    BY DetourObjects
  <2>5. CASE f \in funcMap /\ inner[CallbackOf[c]] = trampoline[f]
    <3>1. at = f
      BY <2>3, <2>5, JumpsLand
    <3>2. at \in Func /\ at \notin Callback /\ at # NULL
      BY <1>2, <3>1, DisjointCode
    <3> QED
      BY <1>2, <2>4, <3>1, <3>2 DEF InnerLandsAt
  <2>6. CASE f \in cut /\ inner[CallbackOf[c]] \in TChunk
    <3>1. at \in Func \cup {NULL}
      <4>1. at \in Func \cup {NULL, left[InnerPtr]}
        BY <2>3, <2>6, JumpsLand
      <4>2. left[InnerPtr] \in Func \cup {NULL}
        BY <2>3, <2>6 DEF CallTypes
      <4> QED
        BY <4>1, <4>2
    <3>2. at \notin Callback
      BY <3>1, DisjointCode
    <3> QED
      BY <1>2, <1>6, <2>4, <2>6, <3>1, <3>2 DEF InnerLandsAt
  <2>7. ASSUME NEW e \in S, FuncOf[e] = f, Before(r, c, e), inner[CallbackOf[c]] = CallbackOf[e]
        PROVE  InnerLandsAt(at, S, r)
    <3>1. CallbackOf[e] \in Callback
      BY <1>3, DetourObjects
    <3>2. at = CallbackOf[e]
      BY <2>3, <2>7, <3>1, JumpsLand
    <3>3. \A x, y \in Detour : CallbackOf[x] = Top.at /\ CallbackOf[y] = at => x = c /\ y = e
      BY <1>3, <1>4, <2>2, <3>2
    <3>4. at \notin Func /\ at # NULL
      BY <3>1, <3>2, DisjointCode
    <3> QED
      BY <1>2, <2>7, <3>1, <3>2, <3>3, <3>4 DEF InnerLandsAt
  <2> QED
    BY <2>2, <2>3, <2>5, <2>6, <2>7 DEF GoesOn
<1> QED
  BY <1>5, <1>6

\* Nothing but the stack has to do with the frames that stay.
LEMMA PushSound ==
    ASSUME IInv, CallTypes, NEW S, NEW r \in [Detour -> Nat], Consistent(S, r),
           NEW at, NEW f, NEW via \in {"call", "inner"}, Pushed(at, f, via),
           UNCHANGED <<vars, reenabled, cut>>,
           at \in WChunk => via = "call" /\ at = wrapper[f] /\ WrapperGoesOn(f, S),
           at \in Callback => \E d \in S : CallbackOf[d] = at /\ FuncOf[d] = f,
           at \in Func => at = f \/ f \in cut,
           via = "inner" => /\ stack # <<>>
                            /\ Top.at \in Callback \/ Top.at \in WChunk
                            /\ \A d, e \in Detour :
                                 CallbackOf[d] = Top.at /\ CallbackOf[e] = at => Before(r, d, e)
    PROVE  Consistent(S, r)'
<1>1. PICK n \in Nat : n = Len(stack) /\ DOMAIN stack = 1 .. n
  BY LenProperties DEF CallTypes
<1>2. /\ DOMAIN stack' = 1 .. n + 1
      /\ \A k \in 1 .. n : /\ stack'[k].at = stack[k].at /\ stack'[k].fn = stack[k].fn
                           /\ stack'[k].via = stack[k].via
                           /\ stack[k].at \in WChunk => stack'[k].called
      /\ stack'[n + 1].at = at /\ stack'[n + 1].fn = f /\ stack'[n + 1].via = via
  BY <1>1, LenProperties DEF Pushed
<1>3. InOrder(r)' /\ Sound(S, r)'
  BY DEF Consistent, vars, listVars, flagVars, nodeVars, linkVars, InOrder, Before,
         Sound, GoesOn
<1>4. \A k \in DOMAIN stack' : SoundFrame(stack[k], S)' 
  <2>1. \A g : WrapperGoesOn(g, S)' <=> WrapperGoesOn(g, S)
    BY DEF WrapperGoesOn, vars, nodeVars, linkVars
  <2>2. \A k \in 1 .. n : SoundFrame(stack[k], S)'
    BY <1>1, <1>2, <2>1 DEF Consistent, SoundFrame, vars, nodeVars
  <2>3. SoundFrame(stack[n + 1], S)'
    BY <1>2, <2>1 DEF SoundFrame, vars, nodeVars
  <2> QED
    BY <1>2, <2>2, <2>3
<1>5. ASSUME NEW i \in 1 .. n + 1, NEW j \in 1 .. n + 1, i < j, OneCall(i, j)',
             NEW d \in Detour, NEW e \in Detour,
             CallbackOf[d] = stack'[i].at, CallbackOf[e] = stack'[j].at
      PROVE  Priority[d] >= Priority[e] /\ (d \notin reenabled => Before(r, d, e))
  <2>1. \A k \in i + 1 .. j : stack'[k].via = "inner"
    BY <1>5 DEF OneCall
  <2>2. CASE j \in 1 .. n
    <3>1. OneCall(i, j)
      BY <1>2, <2>1, <2>2 DEF OneCall
    <3> QED
      BY <1>1, <1>2, <1>5, <2>2, <3>1 DEF Consistent, Descends
  <2>3. CASE j = n + 1
    <3>1. via = "inner" /\ CallbackOf[e] = at
      BY <1>2, <1>5, <2>1, <2>3
    <3>2. \A x \in Detour : Priority[x] \in Int /\ r[x] \in Nat
      BY DetourObjects
    <3>3. \A x \in Detour : CallbackOf[x] = Top.at => Before(r, x, e)
      BY <3>1
    <3>4. Top = stack[n]
      BY <1>1 DEF Top
    <3>5. CASE i = n
      <4>1. Before(r, d, e)
        BY <1>2, <1>5, <3>3, <3>4, <3>5
      <4> QED
        BY <3>2, <4>1 DEF Before
    <3>6. CASE i < n
      <4>1. OneCall(i, n) /\ i \in 1 .. n /\ n \in 1 .. n
        BY <1>2, <2>1, <2>3, <3>6 DEF OneCall
      <4>2. stack[n].via = "inner"
        BY <1>2, <2>1, <2>3, <3>6
      <4>3. PICK c \in S : CallbackOf[c] = Top.at
        BY <1>1, <3>1, <3>4, <4>1, <4>2 DEF Consistent, SoundFrame
      <4>4. c \in Detour
        BY <4>3 DEF Consistent, Sound
      <4>5. Priority[d] >= Priority[c] /\ (d \notin reenabled => Before(r, d, c))
        BY <1>1, <1>2, <1>5, <3>4, <3>6, <4>1, <4>3, <4>4 DEF Consistent, Descends
      <4>6. Before(r, c, e)
        BY <3>3, <4>3, <4>4
      <4> QED
        BY <3>2, <4>4, <4>5, <4>6 DEF Before
    <3> QED
      BY <1>5, <2>3, <3>5, <3>6
  <2> QED
    BY <1>5, <2>2, <2>3
<1>6. Descends(r)'
  BY <1>2, <1>5 DEF Descends, Before
<1> QED
  BY <1>3, <1>4, <1>6 DEF Consistent

\* A return leaves the frames below as they are.
LEMMA PopSound ==
    ASSUME CallTypes, NEW S, NEW r \in [Detour -> Nat], Consistent(S, r), Popped,
           UNCHANGED <<vars, reenabled, cut>>
    PROVE  Consistent(S, r)'
<1>1. PICK n \in Nat : n = Len(stack) /\ DOMAIN stack = 1 .. n
  BY LenProperties DEF CallTypes
<1>2. DOMAIN stack' = 1 .. n - 1 /\ \A k \in 1 .. n - 1 : k \in 1 .. n /\ stack'[k] = stack[k]
  BY <1>1, LenProperties DEF Popped
<1>3. InOrder(r)' /\ Sound(S, r)'
  BY DEF Consistent, vars, listVars, flagVars, nodeVars, linkVars, InOrder, Before,
         Sound, GoesOn
<1>4. \A k \in DOMAIN stack' : SoundFrame(stack[k], S)'
  BY <1>1, <1>2 DEF Consistent, SoundFrame, WrapperGoesOn, vars, nodeVars, linkVars
<1>5. ASSUME NEW i \in 1 .. n - 1, NEW j \in 1 .. n - 1, i < j, OneCall(i, j)',
             NEW d \in Detour, NEW e \in Detour,
             CallbackOf[d] = stack'[i].at, CallbackOf[e] = stack'[j].at
      PROVE  Priority[d] >= Priority[e] /\ (d \notin reenabled' => Before(r, d, e))
  <2>1. OneCall(i, j)
    BY <1>1, <1>2, <1>5 DEF OneCall
  <2> QED
    BY <1>1, <1>2, <1>5, <2>1 DEF Consistent, Descends
<1>6. Descends(r)'
  BY <1>2, <1>5 DEF Descends, Before
<1> QED
  BY <1>3, <1>4, <1>6 DEF Consistent

\* With the last frame the history is forgotten, and only the detours that are enabled
\* matter.
LEMMA LastPopSound ==
    ASSUME IInv, IInv', CallTypes, UNCHANGED vars, stack' = <<>>,
           NEW r \in [Detour -> Nat], InOrder(r)
    PROVE  Consistent(active \cap Detour, r)'
<1>1. InOrder(r)'
  BY DEF vars, listVars, InOrder, Before
<1>2. ListedGoOn'
  BY ListedLeadOn, PTL
<1>3. Sound(active \cap Detour, r)'
  BY <1>1, <1>2 DEF ListedGoOn, Sound, IInv, Flags
<1>4. Descends(r)' /\ \A n \in DOMAIN stack' : SoundFrame(stack[n], active \cap Detour)'
  BY EmptySeq DEF Descends
<1> QED
  BY <1>1, <1>3, <1>4 DEF Consistent

-----------------------------------------------------------------------------
(***************************************************************************)
(* The steps of a call.                                                    *)
(***************************************************************************)

\* The entry of a function leads into its code, its own wrapper or the first callback.
LEMMA CallLands ==
    ASSUME IInv, NEW f \in Func
    PROVE  LET at == Landing(bytes[f]) IN
           /\ at \in Entry
           /\ at \in WChunk => at = wrapper[f] /\ WrapperGoesOn(f, active \cap Detour)
           /\ at \in Callback => \E d \in active \cap Detour : CallbackOf[d] = at /\ FuncOf[d] = f
           /\ at \in Func => at = f
<1> DEFINE at == Landing(bytes[f])
           target == JumpTarget(detours[f], traces[f], wrapper[f])
<1>1. /\ bytes[f] = IF target = NULL THEN f ELSE target
      /\ target # NULL => f \in funcMap
  BY DEF IInv, Links, EntryFollowsLists
<1>2. CASE traces[f] # <<>>
  <2>1. f \in funcMap /\ WrapperGoesOn(f, active \cap Detour)
    BY <1>2, TracedLeadOn DEF TracedGoOn, WrapperGoesOn
  <2>2. wrapper[f] \in WChunk /\ at = wrapper[f]
    <3>1. wrapper[f] \in WChunk /\ Landing(wrapper[f]) = wrapper[f]
      BY <2>1, JumpsLand
    <3>2. target = wrapper[f] /\ wrapper[f] # NULL
      BY <1>2, <3>1, DisjointCode DEF JumpTarget
    <3> QED
      BY <1>1, <3>1, <3>2
  <2> QED
    BY <2>1, <2>2, DisjointCode DEF Entry
<1>3. CASE traces[f] = <<>> /\ detours[f] # <<>>
  <2>1. 1 \in DOMAIN detours[f]
    BY <1>3, LenProperties, EmptySeq DEF IInv, Lists
  <2>2. detours[f][1] \in active \cap Detour /\ FuncOf[detours[f][1]] = f
    BY <2>1 DEF IInv, Lists, ActiveIsListed, ToSet
  <2>3. CallbackOf[detours[f][1]] \in Callback
    BY <2>2, DetourObjects
  <2>4. at = CallbackOf[detours[f][1]]
    <3>1. target = CallbackOf[detours[f][1]] /\ target # NULL
      BY <1>3, <2>3, DisjointCode DEF JumpTarget
    <3> QED
      BY <1>1, <2>3, <3>1, JumpsLand
  <2> QED
    BY <2>2, <2>3, <2>4, DisjointCode DEF Entry
<1>4. CASE traces[f] = <<>> /\ detours[f] = <<>>
  <2>1. at = f
    BY <1>1, <1>4, JumpsLand DEF JumpTarget
  <2> QED
    BY <2>1, DisjointCode DEF Entry
<1> QED
  BY <1>2, <1>3, <1>4

LEMMA CallPushes ==
    ASSUME CInv, NEW f \in Func, Call(f)
    PROVE  LET at == Landing(bytes[f]) IN
           /\ Pushed(at, f, "call") /\ UNCHANGED fault
           /\ IF at \notin WChunk THEN UNCHANGED <<retAddrs, refCount>>
              ELSE /\ retAddrs' = Append(retAddrs, Len(stack))
                   /\ refCount' = [t \in Trace |->
                        refCount[t] + (IF Traced(wrapperFunc[at], t) THEN 1 ELSE 0)]
<1>1. Landing(bytes[f]) \in Entry
  BY CallLands DEF CInv
<1>2. \A n \in 1 .. Len(stack) : stack[n].at \in WChunk => stack[n].called
  <2>1. stack # <<>> => Top.at \notin WChunk
    BY DEF Call, Running
  <2>2. PICK k \in Nat : k = Len(stack) /\ DOMAIN stack = 1 .. k
    BY LenProperties DEF CInv, CallTypes
  <2>3. ASSUME NEW n \in 1 .. k, stack[n].at \in WChunk
        PROVE  stack[n].called
    <3>1. stack # <<>>
      BY <2>2, EmptySeq
    <3>2. n # k
      BY <2>1, <2>2, <2>3, <3>1 DEF Top
    <3>3. n < k
      BY <3>2
    <3> QED
      BY <2>2, <2>3, <3>3 DEF CInv, WrappersWait
  <2> QED
    BY <2>2, <2>3
<1>3. Enter(Landing(bytes[f]), f, "call", stack) /\ stack \in Seq(FrameKind)
  BY DEF CInv, CallTypes, Call
<1> QED
  BY <1>1, <1>2, <1>3, EnterPushes DEF CInv

\* The frame on top, for the detours and times of the invariant.
LEMMA TopFrame ==
    ASSUME CallTypes, stack # <<>>, NEW S, NEW r, Consistent(S, r)
    PROVE  Top \in FrameKind /\ SoundFrame(Top, S)
<1>1. Len(stack) \in DOMAIN stack
  BY EmptySeq, LenProperties DEF CallTypes
<1> QED
  BY <1>1, ElementOfSeq, LenProperties DEF CallTypes, Consistent, Top

LEMMA InnerPushes ==
    ASSUME CInv, CallInner
    PROVE  \/ /\ Top.fn \in cut /\ Top.at \in Callback
              /\ fault' = "freed code called" /\ UNCHANGED <<stack, retAddrs, refCount>>
           \/ \E at \in Landings(InnerPtr) :
                /\ Pushed(at, Top.fn, "inner") /\ at \in Func \cup Callback
                /\ UNCHANGED <<fault, retAddrs, refCount>>
<1> DEFINE base == [stack EXCEPT ![Len(stack)].called = TRUE]
<1>1. /\ stack # <<>>
      /\ Top.at \in Callback \/ (Top.at \in WChunk /\ ~Top.called)
  BY DEF CallInner
<1>2. PICK at \in Landings(InnerPtr) : Enter(at, Top.fn, "inner", base)
  BY DEF CallInner, InnerPtr
<1>3. PICK S \in SUBSET Detour, r \in [Detour -> Nat] : Consistent(S, r)
  BY DEF CInv
<1>4. Top \in FrameKind /\ Top.fn \in Func
  BY <1>1, <1>3, TopFrame DEF CInv, FrameKind
<1>5. InnerLandsAt(at, S, r)
  BY <1>1, <1>3, InnerLands DEF CInv
<1>6. CASE at = NULL
  <2>1. Top.fn \in cut /\ Top.at \in Callback
    BY <1>5, <1>6 DEF InnerLandsAt
  <2> QED
    BY <1>2, <1>6, <2>1 DEF Enter
<1>7. CASE at # NULL
  <2>1. at \in Func \cup Callback /\ at \in Entry /\ at \notin WChunk
    BY <1>5, <1>7, DisjointCode DEF InnerLandsAt, Entry
  <2>2. PICK n \in Nat : n = Len(stack) /\ n \in 1 .. n /\ DOMAIN stack = 1 .. n
    BY <1>1, EmptySeq, LenProperties DEF CInv, CallTypes
  <2>3. [Top EXCEPT !.called = TRUE] \in FrameKind
    BY <1>4 DEF FrameKind
  <2>4. base = [stack EXCEPT ![n] = [Top EXCEPT !.called = TRUE]]
    BY <2>2 DEF Top
  <2>5. base \in Seq(FrameKind) /\ Len(base) = n
    <3>1. stack \in Seq(FrameKind) /\ n \in 1 .. Len(stack)
      BY <2>2 DEF CInv, CallTypes
    <3>2. \A e \in FrameKind : /\ [stack EXCEPT ![n] = e] \in Seq(FrameKind)
                              /\ Len([stack EXCEPT ![n] = e]) = Len(stack)
      BY <3>1, ExceptSeq
    <3>3. PICK e \in FrameKind : e = [Top EXCEPT !.called = TRUE]
      BY <2>3
    <3>4. base = [stack EXCEPT ![n] = e]
      BY <2>4, <3>3
    <3> HIDE DEF base
    <3> QED
      BY <2>2, <3>2, <3>4
  <2>6. PICK b \in Seq(FrameKind), f \in Func : b = base /\ f = Top.fn
    BY <1>4, <2>5
  <2>7. \A k \in 1 .. n : b[k] = IF k = n THEN [Top EXCEPT !.called = TRUE] ELSE stack[k]
    BY <2>2, <2>4, <2>6
  <2> HIDE DEF base
  <2>8. /\ [Top EXCEPT !.called = TRUE].at = Top.at /\ [Top EXCEPT !.called = TRUE].fn = Top.fn
        /\ [Top EXCEPT !.called = TRUE].via = Top.via /\ [Top EXCEPT !.called = TRUE].ret = Top.ret
        /\ [Top EXCEPT !.called = TRUE].called
    BY <1>4 DEF FrameKind
  <2>9. \A k \in 1 .. n : k # n /\ stack[k].at \in WChunk => stack[k].called
    BY <2>2 DEF CInv, WrappersWait
  <2>10. \A k \in 1 .. Len(stack) : /\ b[k].at = stack[k].at /\ b[k].fn = stack[k].fn
                                    /\ b[k].via = stack[k].via /\ b[k].ret = stack[k].ret
                                    /\ stack[k].at \in WChunk => b[k].called
    <3>1. Top = stack[n]
      BY <2>2 DEF Top
    <3>2. ASSUME NEW k \in 1 .. n, k = n
          PROVE  /\ b[k].at = stack[k].at /\ b[k].fn = stack[k].fn
                 /\ b[k].via = stack[k].via /\ b[k].ret = stack[k].ret
                 /\ b[k].called
      BY <2>7, <2>8, <3>1, <3>2
    <3> QED
      BY <2>2, <2>7, <2>9, <3>2
  <2>11. Len(b) = Len(stack) /\ Enter(at, f, "inner", b) /\ CallTypes /\ at \in Entry
    BY <1>2, <2>1, <2>2, <2>5, <2>6 DEF CInv
  <2>12. /\ Pushed(at, f, "inner") /\ UNCHANGED fault
         /\ IF at \notin WChunk THEN UNCHANGED <<retAddrs, refCount>>
            ELSE /\ retAddrs' = Append(retAddrs, Len(stack))
                 /\ refCount' = [t \in Trace |->
                      refCount[t] + (IF Traced(wrapperFunc[at], t) THEN 1 ELSE 0)]
    BY <2>10, <2>11, EnterPushes
  <2> QED
    BY <2>1, <2>6, <2>12
<1> QED
  BY <1>6, <1>7

\* WrapperPost finds its function, as the wrapper that is returned into is still there,
\* unless the function is cut.
LEMMA PostPops ==
    ASSUME CInv, WrapperPost
    PROVE  /\ Top.at \in WChunk /\ Top.fn \in Func /\ fault = "none"
           /\ \/ /\ Top.fn \in cut /\ fault' # "none" /\ fault' # "no way in"
                 /\ UNCHANGED <<stack, refCount, midCall, reenabled, cut, left>>
              \/ /\ Popped /\ Pop /\ PopCaller /\ UNCHANGED fault
                 /\ Holder(Top.at) \in funcMap
                 /\ Top.fn \notin cut => Holder(Top.at) = Top.fn
                 /\ refCount' = [t \in Trace |->
                      refCount[t] - (IF Traced(Holder(Top.at), t) THEN 1 ELSE 0)]
<1>1. stack # <<>> /\ Top.at \in WChunk /\ fault = "none"
  BY DEF WrapperPost
<1>2. PICK S \in SUBSET Detour, r \in [Detour -> Nat] : Consistent(S, r)
  BY DEF CInv
<1>3. Top.fn \in Func /\ SoundFrame(Top, S)
  BY <1>1, <1>2, TopFrame DEF CInv, FrameKind
<1>4. ASSUME Top.fn \notin cut
      PROVE  Holder(Top.at) = Top.fn /\ wrapperFunc[Top.at] # NULL /\ Top.fn \in funcMap
  <2>1. Top.fn \in funcMap /\ Top.at = wrapper[Top.fn]
    BY <1>1, <1>3, <1>4 DEF SoundFrame, WrapperGoesOn
  <2>2. wrapperFunc[Top.at] = Top.fn /\ Top.fn # NULL
    BY <1>3, <2>1, JumpsLand, DisjointCode DEF CInv
  <2> QED
    BY <2>1, <2>2 DEF Holder
<1>5. CASE Pop
  <2>1. /\ PopCaller /\ UNCHANGED fault /\ Holder(Top.at) \in funcMap
        /\ refCount' = [t \in Trace |->
             refCount[t] - (IF Traced(Holder(Top.at), t) THEN 1 ELSE 0)]
    <3>1. Len(stack) # Len(stack')
      <4>1. Popped /\ Len(stack) \in Nat
        BY <1>1, <1>5, PopPops, LenProperties DEF CInv, CallTypes
      <4> QED
        BY <4>1 DEF Popped
    <3> QED
      BY <3>1 DEF WrapperPost
  <2> QED
    BY <1>1, <1>3, <1>4, <1>5, <2>1, PopPops DEF CInv
<1>6. CASE ~Pop
  BY <1>1, <1>3, <1>4, <1>6 DEF WrapperPost
<1> QED
  BY <1>5, <1>6

\* The order of the lists and along a call, when neither changes.
LEMMA OrderStays ==
    ASSUME NEW r, InOrder(r), UNCHANGED detours
    PROVE  InOrder(r)'
BY DEF InOrder, Before

LEMMA DescentStays ==
    ASSUME NEW r, Descends(r), UNCHANGED <<stack, reenabled>>
    PROVE  Descends(r)'
BY DEF Descends, OneCall, Before

\* A step that fails changes nothing but fault.
LEMMA FaultKeeps ==
    ASSUME CInv, fault' # "no way in", Top.fn \in cut, Top.at \notin Func, stack # <<>>,
           UNCHANGED <<stack, vars, midCall, reenabled, cut, left>>
    PROVE  CInv'
<1>1. IInv'
  BY StepHolds DEF CInv
<1>2. CallTypes' /\ WrappersWait' /\ OnlyCutCallsFail' /\ (stack' # <<>> => Detour \subseteq loaded')
  BY DEF CInv, CallTypes, WrappersWait, OnlyCutCallsFail, Top, vars, flagVars
<1>3. ASSUME NEW S \in SUBSET Detour, NEW r \in [Detour -> Nat], Consistent(S, r)
      PROVE  Consistent(S, r)'
  <2>1. InOrder(r)'
    <3>1. InOrder(r) /\ UNCHANGED detours
      BY <1>3 DEF Consistent, vars, listVars
    <3> QED
      BY <3>1, OrderStays
  <2>2. Sound(S, r)'
    BY <1>3 DEF Consistent, Sound, GoesOn, Before, vars, flagVars, nodeVars, linkVars
  <2>3. Descends(r)'
    BY <1>3, DescentStays DEF Consistent
  <2>4. \A n \in DOMAIN stack' : SoundFrame(stack[n], S)'
    BY <1>3 DEF Consistent, SoundFrame, WrapperGoesOn, vars, nodeVars, linkVars
  <2> QED
    BY <2>1, <2>2, <2>3, <2>4 DEF Consistent
<1> QED
  BY <1>1, <1>2, <1>3 DEF CInv

\* What a new frame does to the parts of the invariant that do not name detours.
LEMMA PushTypes ==
    ASSUME CInv, NEW at, NEW f, NEW via, Pushed(at, f, via), fault' = "none",
           Detour \subseteq loaded, UNCHANGED <<loaded, midCall, reenabled, cut, left>>
    PROVE  CallTypes' /\ WrappersWait' /\ OnlyCutCallsFail' /\ (stack' # <<>> => Detour \subseteq loaded')
<1>1. PICK n \in Nat : n = Len(stack)
  BY LenProperties DEF CInv, CallTypes
<1>2. /\ DOMAIN stack' = 1 .. n + 1 /\ Len(stack') = n + 1
      /\ \A k \in 1 .. n : stack'[k].at = stack[k].at /\ (stack[k].at \in WChunk => stack'[k].called)
  BY <1>1, LenProperties DEF Pushed
<1>3. stack' # <<>>
  BY <1>2, EmptySeq
<1>4. WrappersWait'
  BY <1>2 DEF WrappersWait
<1> QED
  BY <1>3, <1>4 DEF CInv, CallTypes, Pushed, OnlyCutCallsFail

LEMMA CallKeeps ==
    ASSUME CInv, NEW f \in Func, Call(f)
    PROVE  CInv'
<1> DEFINE at == Landing(bytes[f])
<1>1. /\ Pushed(at, f, "call") /\ fault' = "none"
  BY CallPushes DEF Call, Running
<1>2. UNCHANGED <<vars, midCall, reenabled, cut, left>> /\ Detour \subseteq loaded /\ IInv'
  <2>1. UNCHANGED <<vars, midCall, reenabled, cut, left>> /\ Detour \subseteq loaded
    BY DEF Call
  <2> QED
    BY <2>1, StepHolds DEF CInv
<1>3. PICK S \in SUBSET Detour, r \in [Detour -> Nat], bound \in Nat :
        (\A d \in Detour : r[d] < bound) /\ Consistent(S, r)
  BY DEF CInv
<1>4. Consistent(S, r)'
  <2>1. active \cap Detour \subseteq S
    BY <1>3 DEF Consistent, Sound
  <2>2. /\ at \in WChunk => at = wrapper[f] /\ WrapperGoesOn(f, S)
        /\ at \in Callback => \E d \in S : CallbackOf[d] = at /\ FuncOf[d] = f
        /\ at \in Func => at = f
    <3>1. IInv
      BY DEF CInv
    <3> QED
      BY <2>1, <3>1, CallLands DEF WrapperGoesOn
  <2> HIDE DEF at
  <2> QED
    BY <1>1, <1>2, <1>3, <2>2, PushSound DEF CInv
<1>5. /\ CallTypes' /\ WrappersWait' /\ OnlyCutCallsFail'
      /\ (stack' # <<>> => Detour \subseteq loaded')
  <2> HIDE DEF at
  <2>1. loaded' = loaded
    BY <1>2 DEF vars, flagVars
  <2> QED
    BY <1>1, <1>2, <2>1, PushTypes
<1> QED
  BY <1>2, <1>3, <1>4, <1>5 DEF CInv

LEMMA InnerKeeps ==
    ASSUME CInv, CallInner
    PROVE  CInv'
<1>1. /\ UNCHANGED <<vars, midCall, reenabled, cut, left>> /\ stack # <<>> /\ fault = "none"
      /\ Top.at \in Callback \/ (Top.at \in WChunk /\ ~Top.called)
  BY DEF CallInner
<1>2. IInv'
  BY <1>1, StepHolds DEF CInv
<1>3. PICK S \in SUBSET Detour, r \in [Detour -> Nat], bound \in Nat :
        (\A d \in Detour : r[d] < bound) /\ Consistent(S, r)
  BY DEF CInv
<1>4. CASE Top.fn \in cut /\ Top.at \in Callback /\ fault' = "freed code called" /\ UNCHANGED stack
  <2>1. Top.at \notin Func /\ fault' # "no way in"
    BY <1>4, DisjointCode
  <2> QED
    BY <1>1, <1>4, <2>1, FaultKeeps
<1>5. ASSUME NEW at \in Landings(InnerPtr), Pushed(at, Top.fn, "inner"), at \in Func \cup Callback,
             UNCHANGED fault
      PROVE  CInv'
  <2>1. InnerLandsAt(at, S, r)
    <3>1. Detour \subseteq loaded /\ IInv /\ CallTypes
      BY <1>1 DEF CInv
    <3> QED
      BY <1>1, <1>3, <3>1, InnerLands
  <2>2. at \notin WChunk
    BY <1>5, DisjointCode
  <2>3. Consistent(S, r)'
    BY <1>1, <1>3, <1>5, <2>1, <2>2, PushSound DEF CInv, InnerLandsAt
  <2>4. /\ CallTypes' /\ WrappersWait' /\ OnlyCutCallsFail'
        /\ (stack' # <<>> => Detour \subseteq loaded')
    <3>1. loaded' = loaded /\ Detour \subseteq loaded
      BY <1>1 DEF vars, flagVars, CInv
    <3> QED
      BY <1>1, <1>5, <3>1, PushTypes
  <2> QED
    BY <1>2, <1>3, <2>3, <2>4 DEF CInv
<1> QED
  BY <1>4, <1>5, InnerPushes

LEMMA PopKeeps ==
    ASSUME CInv, stack # <<>>, Pop, Popped, UNCHANGED fault, fault = "none", UNCHANGED vars
    PROVE  CInv'
<1>1. PICK n \in Nat : Len(stack) = n /\ DOMAIN stack = 1 .. n /\ n # 0
  BY EmptySeq, LenProperties DEF CInv, CallTypes
<1>2. /\ reenabled' = IF n = 1 THEN {} ELSE reenabled
      /\ midCall' = IF n = 1 THEN 0 ELSE midCall
      /\ cut' = IF n = 1 THEN {} ELSE cut
      /\ left' = IF n = 1 THEN Emptied ELSE left
  BY <1>1 DEF Pop
<1>3. /\ stack' \in Seq(FrameKind) /\ Len(stack') = n - 1 /\ DOMAIN stack' = 1 .. n - 1
      /\ \A k \in 1 .. n - 1 : stack'[k] = stack[k]
  BY <1>1, LenProperties DEF Popped
<1>4. stack' = <<>> <=> n = 1
  <2>1. stack' = <<>> <=> Len(stack') = 0
    BY <1>3, EmptySeq
  <2> QED
    BY <1>1, <1>3, <2>1
<1>5. IInv'
  BY StepHolds DEF CInv
<1>6. /\ CallTypes' /\ WrappersWait' /\ OnlyCutCallsFail'
      /\ (stack' # <<>> => Detour \subseteq loaded')
  <2>1. CallTypes'
    BY <1>2, <1>3, <1>4 DEF CInv, CallTypes, Emptied
  <2>2. WrappersWait'
    <3>1. \A k \in 1 .. n - 1 : stack[k].at \in WChunk => stack[k].called
      BY <1>1 DEF CInv, WrappersWait
    <3> QED
      BY <1>3, <3>1 DEF WrappersWait
  <2> QED
    BY <2>1, <2>2 DEF CInv, OnlyCutCallsFail, vars, flagVars
<1>7. PICK S \in SUBSET Detour, r \in [Detour -> Nat], bound \in Nat :
        (\A d \in Detour : r[d] < bound) /\ Consistent(S, r)
  BY DEF CInv
<1>8. CASE n # 1
  <2>1. Consistent(S, r)'
    BY <1>2, <1>7, <1>8, PopSound DEF CInv
  <2> QED
    BY <1>5, <1>6, <1>7, <2>1 DEF CInv
<1>9. CASE n = 1
  <2>1. Consistent(active \cap Detour, r)'
    BY <1>4, <1>5, <1>7, <1>9, LastPopSound DEF CInv, Consistent
  <2>2. PICK A \in SUBSET Detour : A = active' \cap Detour
    OBVIOUS
  <2>3. Consistent(A, r)'
    BY <2>1, <2>2
  <2> QED
    BY <1>5, <1>6, <1>7, <2>3 DEF CInv
<1> QED
  BY <1>8, <1>9

-----------------------------------------------------------------------------
(***************************************************************************)
(* Changes to the detours while calls are in progress.                     *)
(***************************************************************************)

\* The times late differ from r in later times for some of the detours of A.
Later(r, late, A) ==
    \A d \in Detour : r[d] <= late[d] /\ (d \notin A => late[d] = r[d])

\* With A the detours that are enabled after a change, and late the new times: calls go
\* on safely from the frames they are in, through old pointers and new.
LEMMA ToggledSound ==
    ASSUME IInv, IInv', ListedGoOn', TracedGoOn', CallTypes, PointersStay, UNCHANGED stack,
           loaded \cap Detour \subseteq loaded',
           UNCHANGED cut,
           NEW S \in SUBSET Detour, NEW r \in [Detour -> Nat], Consistent(S, r),
           NEW late \in [Detour -> Nat], InOrder(late)',
           NEW A \in SUBSET Detour, A = active' \cap Detour, NEW T, T = S \cup A,
           Later(r, late, A),
           stack # <<>> => /\ reenabled \subseteq reenabled'
                           /\ \A d \in Detour \ reenabled' : late[d] = r[d]
    PROVE  Consistent(T, late)'
<1>1. \A d, e \in Detour : Before(r, d, e) /\ late[d] = r[d] => Before(late, d, e)
  <2>1. \A d \in Detour : r[d] \in Nat /\ late[d] \in Nat /\ r[d] <= late[d]
    BY DEF Later
  <2> QED
    BY <2>1 DEF Before
<1>2. A \subseteq T /\ S \subseteq T /\ T \subseteq loaded' \cap Detour
  BY DEF Consistent, Sound, IInv, Flags
<1>3. \A d \in A : GoesOn(d, T, late)'
  <2>1. \A d \in A : GoesOn(d, A, late)'
    BY DEF ListedGoOn
  <2> QED
    BY <1>2, <2>1 DEF GoesOn
<1>4. ASSUME NEW d \in S, d \notin A
      PROVE  GoesOn(d, T, late)'
  <2>1. \/ FuncOf[d] \in funcMap /\ inner[CallbackOf[d]] = trampoline[FuncOf[d]]
        \/ FuncOf[d] \in cut /\ inner[CallbackOf[d]] \in TChunk
        \/ \E e \in S : /\ FuncOf[e] = FuncOf[d] /\ Before(r, d, e)
                        /\ inner[CallbackOf[d]] = CallbackOf[e]
    BY DEF Consistent, Sound, GoesOn
  <2>2. inner'[CallbackOf[d]] = inner[CallbackOf[d]]
    <3>1. \A e \in A : CallbackOf[e] # CallbackOf[d]
      BY <1>2, <1>4 DEF IInv, Flags
    <3> QED
      BY <3>1 DEF PointersStay
  <2>3. FuncOf[d] \in funcMap =>
          FuncOf[d] \in funcMap' /\ trampoline'[FuncOf[d]] = trampoline[FuncOf[d]]
    BY DEF PointersStay
  <2>4. \A e \in S : Before(r, d, e) => Before(late, d, e)
    BY <1>1, <1>4 DEF Later
  <2> QED
    BY <1>2, <2>1, <2>2, <2>3, <2>4 DEF GoesOn, Before
<1>5. Sound(T, late)'
  BY <1>2, <1>3, <1>4 DEF Sound
<1>6. \A f \in Func : WrapperGoesOn(f, S) => WrapperGoesOn(f, T)' /\ wrapper'[f] = wrapper[f]
  <2> SUFFICES ASSUME NEW f \in Func, WrapperGoesOn(f, S)
               PROVE  WrapperGoesOn(f, T)' /\ wrapper'[f] = wrapper[f]
    OBVIOUS
  <2>1. f \in funcMap /\ f \in funcMap' /\ trampoline'[f] = trampoline[f] /\ wrapper'[f] = wrapper[f]
    BY DEF WrapperGoesOn, PointersStay
  <2>2. CASE wrapperInner'[f] = wrapperInner[f]
    BY <1>2, <2>1, <2>2 DEF WrapperGoesOn
  <2>3. CASE traces'[f] # <<>>
    <3>1. WrapperGoesOn(f, A)'
      BY <2>3 DEF TracedGoOn
    <3> QED
      BY <1>2, <2>1, <3>1 DEF WrapperGoesOn
  <2> QED
    BY <2>2, <2>3 DEF PointersStay
<1>7. \A n \in DOMAIN stack' : SoundFrame(stack[n], T)'
  <2>1. \A n \in DOMAIN stack : stack[n].fn \in Func
    <3>1. \A n \in DOMAIN stack : stack[n] \in FrameKind
      BY ElementOfSeq, LenProperties DEF CallTypes
    <3> QED
      BY <3>1 DEF FrameKind
  <2> QED
    BY <1>2, <1>6, <2>1 DEF Consistent, SoundFrame
<1>8. Descends(late)'
  <2>1. ASSUME NEW m \in DOMAIN stack, NEW n \in DOMAIN stack, m < n, OneCall(m, n),
               NEW d \in Detour, NEW e \in Detour,
               CallbackOf[d] = stack[m].at, CallbackOf[e] = stack[n].at
        PROVE  Priority[d] >= Priority[e] /\ (d \notin reenabled' => Before(late, d, e))
    <3>1. stack # <<>>
      BY <2>1, EmptySeq
    <3>2. Priority[d] >= Priority[e] /\ (d \notin reenabled => Before(r, d, e))
      BY <2>1 DEF Consistent, Descends
    <3> QED
      BY <1>1, <3>1, <3>2
  <2> QED
    BY <2>1 DEF Descends, OneCall, Before
<1> QED
  BY <1>5, <1>7, <1>8 DEF Consistent

\* Whatever the times were, later ones can be found for the detours that are enabled now,
\* and in this order the lists are.
Retimed ==
    \A r \in [Detour -> Nat], bound \in Nat : InOrder(r) /\ (\A d \in Detour : r[d] < bound) =>
      \E late \in [Detour -> Nat], b \in Nat :
        /\ \A d \in Detour : late[d] < b
        /\ InOrder(late)'
        /\ \A d \in Detour : r[d] <= late[d] /\ (d \notin active' => late[d] = r[d])
        /\ stack # <<>> => \A d \in Detour \ reenabled' : late[d] = r[d]

LEMMA ToggleKeeps ==
    ASSUME CInv, IInv', PointersStay, Retimed, UNCHANGED <<stack, fault, cut, left>>,
           loaded \cap Detour \subseteq loaded',
           midCall' \in Nat, reenabled' \subseteq Detour, stack # <<>> => reenabled \subseteq reenabled'
    PROVE  CInv'
<1>1. ListedGoOn' /\ TracedGoOn'
  BY ListedLeadOn, TracedLeadOn, PTL
<1>2. PICK S \in SUBSET Detour, r \in [Detour -> Nat], bound \in Nat :
        (\A d \in Detour : r[d] < bound) /\ Consistent(S, r)
  BY DEF CInv
<1>3. PICK late \in [Detour -> Nat], b \in Nat :
        /\ \A d \in Detour : late[d] < b
        /\ InOrder(late)'
        /\ \A d \in Detour : r[d] <= late[d] /\ (d \notin active' => late[d] = r[d])
        /\ stack # <<>> => \A d \in Detour \ reenabled' : late[d] = r[d]
  BY <1>2 DEF Retimed, Consistent
<1>4. PICK A \in SUBSET Detour, T \in SUBSET Detour : A = active' \cap Detour /\ T = S \cup A
  OBVIOUS
<1>5. Consistent(T, late)'
  <2>1. Later(r, late, A)
    BY <1>3, <1>4 DEF Later
  <2>2. stack # <<>> => /\ reenabled \subseteq reenabled'
                        /\ \A d \in Detour \ reenabled' : late[d] = r[d]
    BY <1>3
  <2>3. IInv /\ CallTypes /\ UNCHANGED <<stack, cut>>
    BY DEF CInv
  <2> QED
    BY <1>1, <1>2, <1>3, <1>4, <2>1, <2>2, <2>3, ToggledSound
<1>6. /\ CallTypes' /\ WrappersWait' /\ OnlyCutCallsFail'
      /\ (stack' # <<>> => Detour \subseteq loaded')
  BY DEF CInv, CallTypes, WrappersWait, OnlyCutCallsFail, Top
<1> QED
  BY <1>3, <1>5, <1>6 DEF CInv

\* Nothing is retimed by what is not an Enable.
LEMMA NotRetimed ==
    ASSUME \A r \in [Detour -> Nat] : InOrder(r) => InOrder(r)'
    PROVE  Retimed
BY DEF Retimed

LEMMA EnableKeeps ==
    ASSUME CInv, NEW d \in Detour, Enable(d), UNCHANGED <<stack, fault, cut, left>>, midCall' \in Nat,
           reenabled' = IF stack = <<>> THEN {} ELSE reenabled \cup {d}
    PROVE  CInv'
<1>1. IInv' /\ d \in Object
  BY EnableHolds DEF CInv, Object
<1>2. PointersStay /\ loaded' = loaded /\ d \in active'
  BY <1>1, ToggleStays DEF CInv, Enable
<1>3. Retimed
  <2> SUFFICES ASSUME NEW r \in [Detour -> Nat], NEW bound \in Nat, InOrder(r),
                      \A e \in Detour : r[e] < bound
               PROVE  \E late \in [Detour -> Nat], b \in Nat :
                        /\ \A e \in Detour : late[e] < b
                        /\ InOrder(late)'
                        /\ \A e \in Detour : r[e] <= late[e] /\ (e \notin active' => late[e] = r[e])
                        /\ stack # <<>> => \A e \in Detour \ reenabled' : late[e] = r[e]
    BY DEF Retimed
  <2>1. PICK late \in [Detour -> Nat] : late = [r EXCEPT ![d] = bound]
    OBVIOUS
  <2>2. InOrder(late)'
    <3>1. InOrder([r EXCEPT ![d] = bound])'
      BY EnableKeepsOrder DEF CInv
    <3> QED
      BY <2>1, <3>1
  <2>3. \A e \in Detour : late[e] = (IF e = d THEN bound ELSE r[e]) /\ r[e] < bound /\ r[e] \in Nat
    BY <2>1
  <2>4. \A e \in Detour : late[e] < bound + 1 /\ r[e] <= late[e]
    BY <2>3
  <2>5. bound + 1 \in Nat
    OBVIOUS
  <2> QED
    BY <1>2, <2>2, <2>3, <2>4, <2>5
<1> QED
  BY <1>1, <1>2, <1>3, ToggleKeeps DEF CInv, CallTypes

LEMMA DisableKeeps ==
    ASSUME CInv, NEW d \in Detour, Disable(d), UNCHANGED <<stack, fault, reenabled, cut, left>>,
           midCall' \in Nat
    PROVE  CInv'
<1>1. IInv' /\ d \in Object
  BY StepHolds DEF CInv, Next, Object
<1>2. PointersStay /\ loaded' = loaded
  BY <1>1, ToggleStays DEF CInv, Disable
<1>3. Retimed
  BY DisableKeepsOrder, NotRetimed DEF CInv
<1> QED
  BY <1>1, <1>2, <1>3, ToggleKeeps DEF CInv, CallTypes

\* A trace changes no list of detours.
LEMMA TraceKeeps ==
    ASSUME CInv, NEW t \in Trace, UNCHANGED <<stack, fault, reenabled, cut, left>>,
           midCall' \in Nat,
           LoadTrace(t) \/ Enable(t) \/ Disable(t) \/ Unload(t)
    PROVE  CInv'
<1>1. IInv' /\ t \in Object
  BY StepHolds DEF CInv, Next, Object
<1>2. loaded \cap Detour \subseteq loaded'
  BY DetourObjects DEF LoadTrace, Enable, Disable, Unload
<1>3. PointersStay /\ detours' = detours
  <2>1. CASE UNCHANGED <<nodeVars, linkVars, listVars>>
    BY <2>1, FlagsStay DEF listVars
  <2>2. CASE DoEnable(t) \/ DoDisable(t)
    <3>1. detours' = detours
      BY <2>2 DEF DoEnable, DoDisable, AddTrace, RemoveTrace
    <3> QED
      BY <1>1, <2>2, <3>1, ToggleStays DEF CInv
  <2> QED
    BY <2>1, <2>2 DEF LoadTrace, Enable, Disable, Unload
<1>4. Retimed
  BY <1>3, NotRetimed DEF InOrder, Before
<1> QED
  BY <1>1, <1>2, <1>3, <1>4, ToggleKeeps DEF CInv, CallTypes

LEMMA LoadKeeps ==
    ASSUME CInv, NEW d \in Detour, LoadDetour(d), UNCHANGED <<stack, fault, reenabled, cut, left>>,
           midCall' \in Nat
    PROVE  CInv'
<1>1. IInv'
  BY StepHolds DEF CInv, Next
<1>2. PointersStay /\ detours' = detours /\ loaded \subseteq loaded'
  BY FlagsStay DEF LoadDetour, listVars
<1>3. Retimed
  BY <1>2, NotRetimed DEF InOrder, Before
<1> QED
  BY <1>1, <1>2, <1>3, ToggleKeeps DEF CInv, CallTypes

\* CleanUp erases entries of functions that have no detour; calls can no longer be in
\* those of them that it does not cut.
LEMMA CleanUpKeeps ==
    ASSUME CInv, RunCleanUp
    PROVE  CInv'
<1>1. CleanUp /\ Running /\ UNCHANGED <<stack, fault, reenabled>> /\ midCall' \in Nat
  BY DEF RunCleanUp, Change, CInv, CallTypes
<1>2. IInv' /\ Unused \subseteq funcMap /\ funcMap \subseteq Func
  BY <1>1, CleanUpHolds DEF CInv, Unused, IInv, Nodes
<1>3. cut' = cut \cup {f \in Unused : OnEntryOf(f) # {}}
  BY DEF RunCleanUp
<1>4. PICK S \in SUBSET Detour, r \in [Detour -> Nat], bound \in Nat :
        (\A d \in Detour : r[d] < bound) /\ Consistent(S, r)
  BY DEF CInv
<1>5. PICK T \in SUBSET Detour : T = {d \in S : FuncOf[d] \in Unused => FuncOf[d] \in cut'}
  OBVIOUS
<1>6. /\ funcMap' = funcMap \ Unused /\ UNCHANGED <<loaded, active, inner, detours>>
      /\ \A f \in funcMap \ Unused : /\ trampoline'[f] = trampoline[f] /\ wrapper'[f] = wrapper[f]
                                      /\ wrapperInner'[f] = wrapperInner[f]
  BY <1>1, <1>2 DEF CleanUp, flagVars, listVars
<1>7. InOrder(r)'
  BY <1>4, <1>6 DEF Consistent, InOrder, Before
<1>8. Sound(T, r)'
  <2>1. active' \cap Detour \subseteq T
    <3> SUFFICES ASSUME NEW d \in active \cap Detour
                 PROVE  d \in S /\ FuncOf[d] \notin Unused
      BY <1>5, <1>6
    <3>1. d \in S /\ FuncOf[d] \in Func
      BY <1>4, DetourObjects DEF Consistent, Sound, Object
    <3>2. d \in ToSet(detours[FuncOf[d]])
      BY <3>1 DEF CInv, IInv, Lists, ActiveIsListed
    <3>3. detours[FuncOf[d]] # <<>>
      BY <3>2, EmptySeq DEF ToSet
    <3> QED
      BY <3>1, <3>3 DEF Unused
  <2>2. T \subseteq loaded' \cap Detour
    BY <1>4, <1>5, <1>6 DEF Consistent, Sound
  <2>3. ASSUME NEW d \in T
        PROVE  GoesOn(d, T, r)'
    <3> DEFINE f == FuncOf[d]
    <3>1. GoesOn(d, S, r) /\ f \in Func
      BY <1>4, <1>5, DetourObjects DEF Consistent, Sound, Object
    <3>2. CASE f \in funcMap /\ inner[CallbackOf[d]] = trampoline[f]
      <4>1. CASE f \in Unused
        <5>1. trampoline[f] \in TChunk
          BY <3>2 DEF CInv, IInv, Nodes
        <5> QED
          BY <1>5, <1>6, <3>2, <4>1, <5>1 DEF GoesOn
      <4>2. CASE f \notin Unused
        BY <1>6, <3>2, <4>2 DEF GoesOn
      <4> QED
        BY <4>1, <4>2
    <3>3. CASE f \in cut /\ inner[CallbackOf[d]] \in TChunk
      BY <1>3, <1>6, <3>3 DEF GoesOn
    <3>4. ASSUME NEW e \in S, FuncOf[e] = f, Before(r, d, e), inner[CallbackOf[d]] = CallbackOf[e]
          PROVE  GoesOn(d, T, r)'
      <4>1. e \in T
        BY <1>5, <2>3, <3>4
      <4> QED
        BY <1>6, <3>4, <4>1 DEF GoesOn, Before
    <3> QED
      BY <3>1, <3>2, <3>3, <3>4 DEF GoesOn
  <2> QED
    BY <2>1, <2>2, <2>3 DEF Sound
<1>9. ASSUME NEW n \in DOMAIN stack
      PROVE  SoundFrame(stack[n], T)'
  <2> DEFINE fr == stack[n]
  <2>1. SoundFrame(fr, S) /\ fr.fn \in Func
    <3>1. fr \in FrameKind
      BY ElementOfSeq, LenProperties DEF CInv, CallTypes
    <3> QED
      BY <1>4, <3>1 DEF Consistent, FrameKind
  <2>2. fr.at \notin Func /\ fr.fn \in Unused => fr.fn \in cut'
    BY <1>3 DEF OnEntryOf
  <2>3. fr.at \in WChunk => fr.called
    <3>1. n \in 1 .. Len(stack) /\ Len(stack) \in Nat /\ stack # <<>>
      BY EmptySeq, LenProperties DEF CInv, CallTypes
    <3>2. n = Len(stack) => fr.at \notin WChunk
      BY <1>1, <3>1 DEF Running, Top
    <3>3. n < Len(stack) => (fr.at \in WChunk => fr.called)
      BY DEF CInv, WrappersWait
    <3> QED
      BY <3>1, <3>2, <3>3
  <2>4. ASSUME fr.at \in WChunk
        PROVE  /\ fr.via = "call"
               /\ \/ fr.at = wrapper'[fr.fn] /\ WrapperGoesOn(fr.fn, T)'
                  \/ fr.fn \in cut' /\ fr.called
    <3>1. fr.via = "call"
      BY <2>1, <2>4 DEF SoundFrame
    <3>2. CASE fr.fn \in cut'
      BY <2>3, <2>4, <3>1, <3>2
    <3>3. CASE fr.fn \notin cut'
      <4>1. fr.fn \notin Unused /\ fr.fn \notin cut
        BY <1>3, <2>2, <2>4, <3>3, DisjointCode
      <4>2. fr.at = wrapper[fr.fn] /\ WrapperGoesOn(fr.fn, S)
        BY <2>1, <2>4, <4>1 DEF SoundFrame
      <4>3. fr.fn \in funcMap \ Unused
        BY <4>1, <4>2 DEF WrapperGoesOn
      <4>4. \A e \in S : FuncOf[e] = fr.fn => e \in T
        BY <1>5, <4>1
      <4>5. WrapperGoesOn(fr.fn, T)'
        <5>1. PICK f \in funcMap \ Unused : f = fr.fn
          BY <4>3
        <5>2. f \in funcMap' /\ trampoline'[f] = trampoline[f] /\ wrapperInner'[f] = wrapperInner[f]
          BY <1>6
        <5>3. WrapperGoesOn(f, T)'
          BY <4>2, <4>4, <5>1, <5>2 DEF WrapperGoesOn
        <5>4. stack' = stack
          BY <1>1
        <5> QED
          BY <5>1, <5>3, <5>4
      <4>6. wrapper'[fr.fn] = wrapper[fr.fn]
        BY <1>6, <4>3
      <4> QED
        BY <3>1, <4>2, <4>5, <4>6
    <3> QED
      BY <3>2, <3>3
  <2>5. ASSUME fr.at \in Callback
        PROVE  \E d \in T : CallbackOf[d] = fr.at /\ FuncOf[d] = fr.fn
    <3>1. PICK d \in S : CallbackOf[d] = fr.at /\ FuncOf[d] = fr.fn
      BY <2>1, <2>5 DEF SoundFrame
    <3>2. fr.at \notin Func
      BY <2>5, DisjointCode
    <3>3. d \in T
      BY <1>5, <2>2, <3>1, <3>2
    <3> QED
      BY <3>1, <3>3
  <2>6. fr.at \in Func => fr.at = fr.fn \/ fr.fn \in cut'
    BY <1>3, <2>1 DEF SoundFrame
  <2> QED
    BY <1>1, <2>4, <2>5, <2>6 DEF SoundFrame
<1>10. Descends(r)'
  BY <1>1, <1>4 DEF Consistent, Descends, OneCall, Before
<1>11. Consistent(T, r)'
  BY <1>1, <1>7, <1>8, <1>9, <1>10 DEF Consistent
<1>12. /\ CallTypes' /\ WrappersWait' /\ OnlyCutCallsFail'
       /\ (stack' # <<>> => Detour \subseteq loaded')
  <2>1. cut' \subseteq Func /\ (stack' = <<>> => cut' = {})
    <3>1. stack = <<>> => \A f : OnEntryOf(f) = {}
      BY EmptySeq DEF OnEntryOf
    <3> QED
      BY <1>1, <1>2, <1>3, <3>1 DEF CInv, CallTypes
  <2>2. left' \in [TChunk \cup WChunk -> Func \cup {NULL}]
    <3>1. \A f \in Unused : /\ trampoline[f] \in TChunk => trampCode[trampoline[f]] = f
                            /\ wrapper[f] \notin TChunk /\ wrapperFunc[wrapper[f]] = f
                            /\ trampoline[f] \in TChunk /\ f \in Func
      BY <1>2, DisjointCode DEF CInv, IInv, Nodes
    <3>2. \A p \in TChunk \cup WChunk : left'[p] =
            IF stack # <<>> /\ \E f \in Unused : p \in {trampoline[f], wrapper[f]}
            THEN IF p \in TChunk THEN trampCode[p] ELSE wrapperFunc[p]
            ELSE left[p]
      BY DEF RunCleanUp
    <3>3. \A p \in TChunk \cup WChunk : left'[p] \in Func \cup {NULL}
      <4> SUFFICES ASSUME NEW p \in TChunk \cup WChunk
                   PROVE  left'[p] \in Func \cup {NULL}
        OBVIOUS
      <4>1. CASE \E f \in Unused : p \in {trampoline[f], wrapper[f]}
        <5>1. PICK f \in Unused : p = trampoline[f] \/ p = wrapper[f]
          BY <4>1
        <5>2. (IF p \in TChunk THEN trampCode[p] ELSE wrapperFunc[p]) = f /\ f \in Func
          BY <3>1, <5>1
        <5> QED
          BY <3>2, <5>2 DEF CInv, CallTypes
      <4>2. CASE ~\E f \in Unused : p \in {trampoline[f], wrapper[f]}
        BY <3>2, <4>2 DEF CInv, CallTypes
      <4> QED
        BY <4>1, <4>2
    <3>4. left' = [p \in TChunk \cup WChunk |-> left'[p]]
      BY DEF RunCleanUp
    <3> QED
      BY <3>3, <3>4
  <2>3. fault' = "none"
    BY <1>1 DEF Running
  <2> QED
    BY <1>1, <1>6, <2>1, <2>2, <2>3 DEF CInv, CallTypes, WrappersWait, OnlyCutCallsFail
<1> QED
  BY <1>2, <1>4, <1>11, <1>12 DEF CInv

-----------------------------------------------------------------------------
(***************************************************************************)
(* The invariant holds.                                                    *)
(***************************************************************************)

LEMMA CallInitHolds == CallInit => CInv
<1> SUFFICES ASSUME CallInit
             PROVE  CInv
  OBVIOUS
<1>1. IInv
  BY InitHolds DEF CallInit
<1>2. stack = <<>> /\ CallTypes /\ WrappersWait /\ OnlyCutCallsFail
  BY EmptySeq DEF CallInit, CallTypes, Emptied, WrappersWait, OnlyCutCallsFail
<1>3. PICK r \in [Detour -> Nat] : r = [d \in Detour |-> 0]
  OBVIOUS
<1>4. InOrder(r) /\ Sound({}, r) /\ Descends(r)
  <2>1. /\ \A f \in Func : detours[f] = <<>> /\ active = {}
        /\ DOMAIN stack = {}
    BY <1>2, EmptySeq DEF CallInit, Init
  <2>2. InOrder(r)
    BY <2>1, EmptySeq DEF InOrder
  <2> QED
    BY <2>1, <2>2 DEF CallInit, Init, Sound, Descends
<1>5. Consistent({}, r)
  BY <1>2, <1>4, EmptySeq DEF Consistent
<1>6. \A d \in Detour : r[d] < 1
  BY <1>3
<1> QED
  BY <1>1, <1>2, <1>5, <1>6 DEF CInv

LEMMA CallStepHolds ==
    CInv /\ [CallNext]_<<vars, callVars>> => CInv'
<1> SUFFICES ASSUME CInv, [CallNext]_<<vars, callVars>>
             PROVE  CInv'
  OBVIOUS
<1>0. midCall \in Nat
  BY DEF CInv, CallTypes
<1>1. ASSUME NEW f \in Func, Call(f)
      PROVE  CInv'
  BY <1>1, CallKeeps
<1>2. CASE CallInner
  BY <1>2, InnerKeeps
<1>3. CASE Return
  BY <1>3, PopPops, PopKeeps DEF Return, Running, CInv
<1>4. CASE WrapperPost
  <2>1. stack # <<>> /\ UNCHANGED vars /\ Top.at \notin Func
    BY <1>4, DisjointCode DEF WrapperPost
  <2> QED
    BY <1>4, <2>1, PostPops, PopKeeps, FaultKeeps
<1>5. CASE LoadMods
  BY <1>0, <1>5, LoadKeeps DEF LoadMods, Change
<1>6. CASE ToggleDetour
  BY <1>0, <1>6, EnableKeeps, DisableKeeps DEF ToggleDetour, Change
<1>7. CASE ToggleTrace
  BY <1>0, <1>7, TraceKeeps DEF ToggleTrace, Change
<1>8. CASE RunCleanUp
  BY <1>8, CleanUpKeeps
<1>9. CASE UNCHANGED <<vars, callVars>>
  <2>1. /\ IInv' /\ PointersStay /\ detours' = detours /\ loaded' = loaded
        /\ UNCHANGED <<stack, fault, reenabled, midCall, cut, left>>
    BY <1>9, StepHolds, FlagsStay DEF CInv, vars, callVars, listVars, flagVars
  <2>2. Retimed
    BY <2>1, NotRetimed DEF InOrder, Before
  <2> QED
    BY <1>0, <2>1, <2>2, ToggleKeeps DEF CInv, CallTypes
<1> QED
  BY <1>1, <1>2, <1>3, <1>4, <1>5, <1>6, <1>7, <1>8, <1>9 DEF CallNext

-----------------------------------------------------------------------------
(***************************************************************************)
(* The callers of the wrappers.                                            *)
(***************************************************************************)

ReturnInv == fault = "none" => retAddrs \in Seq(Nat) /\ ReturnsToCaller

\* The wrappers among the first n + 1 frames.
LEMMA WrapperCount ==
    ASSUME NEW n \in Nat
    PROVE  /\ IsFiniteSet(Wrappers(n)) /\ Cardinality(Wrappers(n)) \in Nat
           /\ Wrappers(n + 1) = IF stack[n + 1].at \in WChunk THEN Wrappers(n) \cup {n + 1}
                                ELSE Wrappers(n)
           /\ stack[n + 1].at \in WChunk =>
                Cardinality(Wrappers(n + 1)) = Cardinality(Wrappers(n)) + 1
           /\ \A m \in Wrappers(n) : /\ Cardinality(Wrappers(m)) \in Nat
                                     /\ 1 <= Cardinality(Wrappers(m))
                                     /\ Cardinality(Wrappers(m)) <= Cardinality(Wrappers(n))
<1>1. \A m \in Nat : IsFiniteSet(Wrappers(m)) /\ Cardinality(Wrappers(m)) \in Nat
  <2> SUFFICES ASSUME NEW m \in Nat
               PROVE  IsFiniteSet(Wrappers(m)) /\ Cardinality(Wrappers(m)) \in Nat
    OBVIOUS
  <2>1. IsFiniteSet(1 .. m) /\ Wrappers(m) \in SUBSET (1 .. m)
    BY FS_Interval DEF Wrappers
  <2>2. IsFiniteSet(Wrappers(m))
    BY <2>1, FS_Subset
  <2> QED
    BY <2>2, FS_CardinalityType
<1>2. Wrappers(n + 1) = IF stack[n + 1].at \in WChunk THEN Wrappers(n) \cup {n + 1}
                        ELSE Wrappers(n)
  BY DEF Wrappers
<1>3. stack[n + 1].at \in WChunk =>
        Cardinality(Wrappers(n + 1)) = Cardinality(Wrappers(n)) + 1
  <2>1. n + 1 \notin Wrappers(n)
    BY DEF Wrappers
  <2> QED
    BY <1>1, <1>2, <2>1, FS_AddElement
<1>4. ASSUME NEW m \in Wrappers(n)
      PROVE  /\ Cardinality(Wrappers(m)) \in Nat
             /\ 1 <= Cardinality(Wrappers(m))
             /\ Cardinality(Wrappers(m)) <= Cardinality(Wrappers(n))
  <2>1. m \in Nat /\ m \in Wrappers(m) /\ Wrappers(m) \subseteq Wrappers(n)
    BY DEF Wrappers
  <2>2. Cardinality(Wrappers(m)) <= Cardinality(Wrappers(n))
    BY <1>1, <2>1, FS_Subset
  <2>3. Cardinality(Wrappers(m)) # 0
    BY <1>1, <2>1, FS_EmptySet
  <2> QED
    BY <1>1, <2>1, <2>2, <2>3
<1> QED
  BY <1>1, <1>2, <1>3, <1>4

\* WrapperPre puts the return address of the new frame on top.
LEMMA PushReturns ==
    ASSUME CInv, ReturnInv, NEW at, NEW f, NEW via, Pushed(at, f, via), fault = "none",
           IF at \in WChunk THEN retAddrs' = Append(retAddrs, Len(stack))
           ELSE UNCHANGED retAddrs
    PROVE  ReturnInv'
<1>1. PICK n \in Nat : n = Len(stack)
  BY LenProperties DEF CInv, CallTypes
<1>2. /\ Len(stack') = n + 1 /\ stack'[n + 1].at = at /\ stack'[n + 1].ret = n
      /\ \A k \in 1 .. n : stack'[k].at = stack[k].at /\ stack'[k].ret = stack[k].ret
  BY <1>1 DEF Pushed
<1>3. PICK c \in Nat : /\ c = Cardinality(Wrappers(n)) /\ c = Len(retAddrs)
                       /\ \A k \in Wrappers(n) : retAddrs[Cardinality(Wrappers(k))] = stack[k].ret
  BY <1>1, WrapperCount DEF ReturnInv, ReturnsToCaller, CInv
<1>4. \A k \in Nat : k <= n => Wrappers(k)' = Wrappers(k)
  BY <1>2 DEF Wrappers
<1>5. Wrappers(n + 1)' = IF at \in WChunk THEN Wrappers(n) \cup {n + 1} ELSE Wrappers(n)
  BY <1>2 DEF Wrappers
<1>6. \A k \in Wrappers(n) : /\ k \in 1 .. n /\ Wrappers(k)' = Wrappers(k)
                             /\ Cardinality(Wrappers(k)) \in 1 .. c
                             /\ stack'[k].ret = stack[k].ret
  <2>1. \A k \in Wrappers(n) : k \in 1 .. n
    BY DEF Wrappers
  <2>2. \A k \in Wrappers(n) : Cardinality(Wrappers(k)) \in 1 .. c
    <3>1. \A k \in Wrappers(n) : /\ Cardinality(Wrappers(k)) \in Nat
                                  /\ 1 <= Cardinality(Wrappers(k))
                                  /\ Cardinality(Wrappers(k)) <= Cardinality(Wrappers(n))
      BY WrapperCount
    <3> QED
      BY <1>3, <3>1
  <2> QED
    BY <1>2, <1>4, <2>1, <2>2
<1>7. CASE at \notin WChunk
  BY <1>2, <1>3, <1>5, <1>6, <1>7 DEF ReturnInv, ReturnsToCaller
<1>8. CASE at \in WChunk
  <2>1. /\ retAddrs' \in Seq(Nat) /\ Len(retAddrs') = c + 1 /\ retAddrs'[c + 1] = n
        /\ \A k \in 1 .. c : retAddrs'[k] = retAddrs[k]
    <3>1. PICK addrs : addrs = retAddrs /\ addrs \in Seq(Nat) /\ c = Len(addrs)
      BY <1>3 DEF ReturnInv
    <3>2. retAddrs' = Append(addrs, n)
      BY <1>1, <1>8, <3>1 DEF Pushed
    <3>3. /\ Append(addrs, n) \in Seq(Nat) /\ Len(Append(addrs, n)) = Len(addrs) + 1
          /\ \A k \in 1 .. Len(addrs) : Append(addrs, n)[k] = addrs[k]
          /\ Append(addrs, n)[Len(addrs) + 1] = n
      BY <3>1, AppendProperties
    <3> QED
      BY <3>1, <3>2, <3>3
  <2>2. Cardinality(Wrappers(n + 1)') = c + 1
    <3>1. n + 1 \notin Wrappers(n)
      BY DEF Wrappers
    <3>2. PICK W : W = Wrappers(n) /\ IsFiniteSet(W)
      BY WrapperCount
    <3>3. Cardinality(W \cup {n + 1}) = c + 1
      BY <1>3, <3>1, <3>2, FS_AddElement
    <3> QED
      BY <1>5, <1>8, <3>2, <3>3
  <2>3. \A k \in Wrappers(n + 1)' : retAddrs'[Cardinality(Wrappers(k)')] = stack'[k].ret
    BY <1>2, <1>3, <1>5, <1>6, <1>8, <2>1, <2>2
  <2> QED
    BY <1>2, <2>1, <2>2, <2>3 DEF ReturnsToCaller, ReturnInv
<1> QED
  BY <1>7, <1>8

\* WrapperPost takes it off.
LEMMA PopReturns ==
    ASSUME CInv, ReturnInv, Popped, fault = "none",
           IF Top.at \in WChunk THEN PopCaller ELSE UNCHANGED retAddrs
    PROVE  ReturnInv'
<1>1. PICK n \in Nat : Len(stack) = n + 1
  <2>1. Len(stack) \in Nat /\ Len(stack) # 0
    BY EmptySeq, LenProperties DEF CInv, CallTypes, Popped
  <2>2. Len(stack) - 1 \in Nat
    BY <2>1
  <2> QED
    BY <2>1, <2>2
<1>2. Len(stack') = n /\ \A k \in 1 .. n : stack'[k] = stack[k]
  BY <1>1 DEF Popped
<1>3. \A k \in Nat : k <= n => Wrappers(k)' = Wrappers(k)
  BY <1>2 DEF Wrappers
<1>4. PICK c \in Nat : c = Cardinality(Wrappers(n))
  BY WrapperCount
<1>5. \A k \in Wrappers(n) : /\ k \in 1 .. n /\ Wrappers(k)' = Wrappers(k)
                             /\ Cardinality(Wrappers(k)) \in 1 .. c
                             /\ stack'[k].ret = stack[k].ret
  <2>1. \A k \in Wrappers(n) : k \in 1 .. n
    BY DEF Wrappers
  <2>2. \A k \in Wrappers(n) : Cardinality(Wrappers(k)) \in 1 .. c
    <3>1. \A k \in Wrappers(n) : /\ Cardinality(Wrappers(k)) \in Nat
                                  /\ 1 <= Cardinality(Wrappers(k))
                                  /\ Cardinality(Wrappers(k)) <= Cardinality(Wrappers(n))
      BY WrapperCount
    <3> QED
      BY <1>4, <3>1
  <2> QED
    BY <1>2, <1>3, <2>1, <2>2
<1>6. /\ Len(retAddrs) = Cardinality(Wrappers(n + 1)) /\ retAddrs \in Seq(Nat)
      /\ \A k \in Wrappers(n + 1) : retAddrs[Cardinality(Wrappers(k))] = stack[k].ret
  BY <1>1 DEF ReturnInv, ReturnsToCaller, CInv
<1>7. Top = stack[n + 1] /\ Wrappers(n) \subseteq Wrappers(n + 1)
  BY <1>1, WrapperCount DEF Top
<1>8. CASE Top.at \notin WChunk
  <2>1. Wrappers(n + 1) = Wrappers(n)
    BY <1>7, <1>8, WrapperCount
  <2> QED
    BY <1>2, <1>3, <1>5, <1>6, <1>8, <2>1 DEF ReturnInv, ReturnsToCaller
<1>9. CASE Top.at \in WChunk
  <2>1. Len(retAddrs) = c + 1
    BY <1>4, <1>6, <1>7, <1>9, WrapperCount
  <2>2. retAddrs # <<>>
    BY <2>1, EmptySeq
  <2>3. /\ Front(retAddrs) \in Seq(Nat) /\ Len(Front(retAddrs)) = (c + 1) - 1
        /\ \A i \in 1 .. (c + 1) - 1 : Front(retAddrs)[i] = retAddrs[i]
    BY <1>6, <2>1, <2>2, FrontProperties
  <2>4. /\ retAddrs' \in Seq(Nat) /\ Len(retAddrs') = c
        /\ \A i \in 1 .. c : retAddrs'[i] = retAddrs[i]
    BY <1>9, <2>3 DEF PopCaller
  <2> QED
    BY <1>2, <1>3, <1>4, <1>5, <1>6, <1>7, <2>4 DEF ReturnInv, ReturnsToCaller
<1> QED
  BY <1>8, <1>9

LEMMA ReturnStepHolds ==
    CInv /\ ReturnInv /\ [CallNext]_<<vars, callVars>> => ReturnInv'
<1> SUFFICES ASSUME CInv, ReturnInv, [CallNext]_<<vars, callVars>>
             PROVE  ReturnInv'
  OBVIOUS
<1>1. ASSUME NEW f \in Func, Call(f)
      PROVE  ReturnInv'
  BY <1>1, CallPushes, PushReturns DEF Call, Running
<1>2. CASE CallInner
  <2>1. \A p \in Func \cup Callback : p \notin WChunk
    BY DisjointCode
  <2> QED
    BY <1>2, <2>1, InnerPushes, PushReturns DEF CallInner, ReturnInv
<1>3. CASE Return
  BY <1>3, PopPops, PopReturns DEF Return, CInv, Running
<1>4. CASE WrapperPost
  BY <1>4, PostPops, PopReturns DEF ReturnInv
<1>5. CASE UNCHANGED <<stack, fault, retAddrs>>
  BY <1>5 DEF ReturnInv, ReturnsToCaller, Wrappers
<1> QED
  BY <1>1, <1>2, <1>3, <1>4, <1>5
  DEF CallNext, LoadMods, ToggleDetour, ToggleTrace, RunCleanUp, Change, callVars

-----------------------------------------------------------------------------
(***************************************************************************)
(* The calls that are counted.                                             *)
(***************************************************************************)

\* The calls of f in progress under its wrapper.
OpenUnder(f) == {n \in DOMAIN stack : stack[n].at \in WChunk /\ stack[n].fn = f}

\* Traces that are on and whose function is cut, or got the chunk of a wrapper that is, were
\* switched on inside of a call.
CutTraced(t) ==
    \/ FuncOf[t] \in cut
    \/ \E n \in DOMAIN stack : /\ stack[n].at \in WChunk /\ stack[n].fn \in cut
                              /\ FuncOf[t] = Holder(stack[n].at)
StrayInv == \A t \in active \cap Trace : CutTraced(t) => t \in drifted

\* A count stands at zero while its trace is off, whatever the stack is.
CountInv ==
    /\ refCount \in [Trace -> Int]
    /\ \A t \in Trace \ drifted :
         refCount[t] = IF t \in active THEN Cardinality(OpenUnder(FuncOf[t])) ELSE 0

LEMMA OpenIsFinite ==
    ASSUME CallTypes, NEW f
    PROVE  /\ IsFiniteSet(OpenUnder(f)) /\ Cardinality(OpenUnder(f)) \in Nat
           /\ OpenUnder(f) \subseteq 1 .. Len(stack)
<1>1. PICK n \in Nat : n = Len(stack) /\ DOMAIN stack = 1 .. n
  BY LenProperties DEF CallTypes
<1>2. OpenUnder(f) \subseteq 1 .. n
  BY <1>1 DEF OpenUnder
<1>3. IsFiniteSet(OpenUnder(f))
  <2>1. IsFiniteSet(1 .. n)
    BY FS_Interval
  <2> QED
    BY <1>2, <2>1, FS_Subset
<1> QED
  BY <1>1, <1>2, <1>3, FS_CardinalityType

\* The traces of a function are those that are enabled on it.
LEMMA TracedIsActive ==
    ASSUME IInv, NEW f \in Func, NEW t \in Trace
    PROVE  Traced(f, t) <=> t \in active /\ FuncOf[t] = f
BY DEF IInv, Lists, ActiveIsListed, ToSet, Traced

LEMMA PushCounts ==
    ASSUME CInv, CountInv, NEW at, NEW f \in Func, NEW via, Pushed(at, f, via),
           UNCHANGED <<active, drifted>>,
           IF at \in WChunk
           THEN refCount' = [t \in Trace |-> refCount[t] + (IF Traced(f, t) THEN 1 ELSE 0)]
           ELSE UNCHANGED refCount
    PROVE  CountInv'
<1>1. PICK n \in Nat : n = Len(stack) /\ DOMAIN stack = 1 .. n
  BY LenProperties DEF CInv, CallTypes
<1>2. /\ DOMAIN stack' = 1 .. n + 1 /\ stack'[n + 1].at = at /\ stack'[n + 1].fn = f
      /\ \A k \in 1 .. n : stack'[k].at = stack[k].at /\ stack'[k].fn = stack[k].fn
  BY <1>1, LenProperties DEF Pushed
<1>3. \A g : OpenUnder(g)' = IF at \in WChunk /\ f = g THEN OpenUnder(g) \cup {n + 1} ELSE OpenUnder(g)
  BY <1>1, <1>2 DEF OpenUnder
<1>4. ASSUME at \in WChunk, NEW t \in Trace \ drifted
      PROVE  refCount'[t] = IF t \in active THEN Cardinality(OpenUnder(FuncOf[t])') ELSE 0
  <2>1. refCount'[t] = refCount[t] + (IF t \in active /\ FuncOf[t] = f THEN 1 ELSE 0)
    BY <1>4, TracedIsActive DEF CInv
  <2>2. refCount[t] = IF t \in active THEN Cardinality(OpenUnder(FuncOf[t])) ELSE 0
    BY DEF CountInv
  <2>3. PICK U : /\ U = OpenUnder(FuncOf[t]) /\ IsFiniteSet(U) /\ Cardinality(U) \in Nat
                 /\ n + 1 \notin U
    BY <1>1, OpenIsFinite DEF CInv
  <2>4. Cardinality(U \cup {n + 1}) = Cardinality(U) + 1
    BY <2>3, FS_AddElement
  <2>5. OpenUnder(FuncOf[t])' = IF f = FuncOf[t] THEN U \cup {n + 1} ELSE U
    BY <1>3, <1>4, <2>3
  <2>6. CASE t \in active /\ FuncOf[t] = f
    BY <2>1, <2>2, <2>3, <2>4, <2>5, <2>6
  <2>7. CASE ~(t \in active /\ FuncOf[t] = f)
    BY <2>1, <2>2, <2>3, <2>5, <2>7
  <2> QED
    BY <2>6, <2>7
<1>5. CASE at \in WChunk
  <2>1. refCount' \in [Trace -> Int]
    BY <1>5 DEF CountInv
  <2> QED
    BY <1>4, <1>5, <2>1 DEF CountInv
<1>6. CASE at \notin WChunk
  BY <1>3, <1>6 DEF CountInv
<1> QED
  BY <1>5, <1>6

LEMMA PopCounts ==
    ASSUME CInv, CountInv, Popped, UNCHANGED <<active, drifted>>, NEW h, Top.fn \in Func,
           IF Top.at \in WChunk
           THEN refCount' = [t \in Trace |-> refCount[t] - (IF Traced(h, t) THEN 1 ELSE 0)]
           ELSE UNCHANGED refCount,
           Top.at \in WChunk => \A t \in Trace \ drifted : Traced(h, t) <=> Traced(Top.fn, t)
    PROVE  CountInv'
<1>1. PICK n \in Nat : Len(stack) = n + 1 /\ DOMAIN stack = 1 .. n + 1
  <2>1. Len(stack) \in Nat /\ Len(stack) # 0 /\ DOMAIN stack = 1 .. Len(stack)
    BY EmptySeq, LenProperties DEF CInv, CallTypes, Popped
  <2>2. PICK k \in Nat : k = Len(stack) - 1
    BY <2>1
  <2>3. Len(stack) = k + 1
    BY <2>1, <2>2
  <2> QED
    BY <2>1, <2>3
<1>2. /\ DOMAIN stack' = 1 .. n /\ Top = stack[n + 1]
      /\ \A k \in 1 .. n : stack'[k] = stack[k]
  BY <1>1, LenProperties DEF Popped, Top
<1> DEFINE f == Top.fn
<1>3. \A g : /\ OpenUnder(g) = IF Top.at \in WChunk /\ f = g THEN OpenUnder(g)' \cup {n + 1}
                               ELSE OpenUnder(g)'
             /\ n + 1 \notin OpenUnder(g)'
  BY <1>1, <1>2 DEF OpenUnder
<1>4. \A g : IsFiniteSet(OpenUnder(g)') /\ Cardinality(OpenUnder(g)') \in Nat
  <2> SUFFICES ASSUME NEW g
               PROVE  IsFiniteSet(OpenUnder(g)') /\ Cardinality(OpenUnder(g)') \in Nat
    OBVIOUS
  <2>1. IsFiniteSet(OpenUnder(g)')
    <3>1. OpenUnder(g)' \subseteq OpenUnder(g) /\ IsFiniteSet(OpenUnder(g))
      BY <1>3, OpenIsFinite DEF CInv
    <3> QED
      BY <3>1, FS_Subset
  <2> QED
    BY <2>1, FS_CardinalityType
<1>5. ASSUME Top.at \in WChunk, NEW t \in Trace \ drifted
      PROVE  refCount'[t] = IF t \in active THEN Cardinality(OpenUnder(FuncOf[t])') ELSE 0
  <2>1. refCount'[t] = refCount[t] - (IF t \in active /\ FuncOf[t] = f THEN 1 ELSE 0)
    <3>1. refCount'[t] = refCount[t] - (IF Traced(f, t) THEN 1 ELSE 0)
      BY <1>5
    <3> QED
      BY <3>1, TracedIsActive DEF CInv
  <2>2. refCount[t] = IF t \in active THEN Cardinality(OpenUnder(FuncOf[t])) ELSE 0
    BY DEF CountInv
  <2>3. PICK U : /\ U = OpenUnder(FuncOf[t])' /\ IsFiniteSet(U) /\ Cardinality(U) \in Nat
                 /\ n + 1 \notin U
    BY <1>3, <1>4
  <2>4. Cardinality(U \cup {n + 1}) = Cardinality(U) + 1
    BY <2>3, FS_AddElement
  <2>5. OpenUnder(FuncOf[t]) = IF f = FuncOf[t] THEN U \cup {n + 1} ELSE U
    BY <1>3, <1>5, <2>3
  <2>6. CASE t \in active /\ FuncOf[t] = f
    BY <2>1, <2>2, <2>3, <2>4, <2>5, <2>6
  <2>7. CASE ~(t \in active /\ FuncOf[t] = f)
    BY <2>1, <2>2, <2>3, <2>5, <2>7
  <2> QED
    BY <2>6, <2>7
<1>6. CASE Top.at \in WChunk
  <2>1. refCount' \in [Trace -> Int]
    BY <1>6 DEF CountInv
  <2> QED
    BY <1>5, <1>6, <2>1 DEF CountInv
<1>7. CASE Top.at \notin WChunk
  BY <1>3, <1>7 DEF CountInv
<1> QED
  BY <1>6, <1>7

\* What a wrapper that is returned into runs: its function's traces, or others that were
\* toggled inside a call.
LEMMA PostTraces ==
    ASSUME CInv, StrayInv, stack # <<>>, Top.at \in WChunk, Top.fn \in Func,
           Holder(Top.at) \in Func, Top.fn \notin cut => Holder(Top.at) = Top.fn
    PROVE  \A t \in Trace \ drifted : Traced(Holder(Top.at), t) <=> Traced(Top.fn, t)
<1>1. CASE Top.fn \notin cut
  BY <1>1
<1>2. CASE Top.fn \in cut
  <2>1. Len(stack) \in DOMAIN stack
    BY EmptySeq, LenProperties DEF CInv, CallTypes
  <2>2. \A t \in active \cap Trace :
          FuncOf[t] = Top.fn \/ FuncOf[t] = Holder(Top.at) => t \in drifted
    BY <1>2, <2>1 DEF StrayInv, CutTraced, Top
  <2> QED
    BY <2>2, TracedIsActive DEF CInv
<1> QED
  BY <1>1, <1>2

\* Frames come and go, and entries are erased, without a trace being switched on.
LEMMA StrayStays ==
    ASSUME StrayInv, active' \cap Trace \subseteq active, drifted \subseteq drifted',
           \A t \in active' \cap Trace : CutTraced(t)' => CutTraced(t) \/ t \in drifted
    PROVE  StrayInv'
BY DEF StrayInv

LEMMA StrayPush ==
    ASSUME CInv, StrayInv, NEW at, NEW f, NEW via, Pushed(at, f, via),
           UNCHANGED <<active, drifted, cut, left, wrapperFunc>>, at \in WChunk => wrapperFunc[at] = f /\ f # NULL
    PROVE  StrayInv'
<1>1. PICK n \in Nat : n = Len(stack) /\ DOMAIN stack = 1 .. n
  BY LenProperties DEF CInv, CallTypes
<1>2. /\ DOMAIN stack' = 1 .. n + 1 /\ stack'[n + 1].at = at /\ stack'[n + 1].fn = f
      /\ \A k \in 1 .. n : stack'[k].at = stack[k].at /\ stack'[k].fn = stack[k].fn
  BY <1>1, LenProperties DEF Pushed
<1>3. \A w : Holder(w)' = Holder(w)
  BY DEF Holder
<1>4. ASSUME NEW t \in active \cap Trace, CutTraced(t)'
      PROVE  CutTraced(t)
  <2>1. CASE FuncOf[t] \in cut
    BY <2>1 DEF CutTraced
  <2>2. ASSUME NEW k \in DOMAIN stack', stack'[k].at \in WChunk, stack'[k].fn \in cut,
               FuncOf[t] = Holder(stack'[k].at)
        PROVE  CutTraced(t)
    <3>1. CASE k \in 1 .. n
      BY <1>1, <1>2, <2>2, <3>1 DEF CutTraced
    <3>2. CASE k = n + 1
      BY <1>2, <2>2, <3>2 DEF CutTraced, Holder
    <3> QED
      BY <1>2, <2>2, <3>1, <3>2
  <2> QED
    BY <1>3, <1>4, <2>1, <2>2 DEF CutTraced
<1> QED
  BY <1>4, StrayStays

LEMMA StrayPop ==
    ASSUME CInv, StrayInv, Popped, Pop, UNCHANGED <<active, drifted, wrapperFunc>>
    PROVE  StrayInv'
<1>1. PICK n \in Nat : Len(stack) = n /\ DOMAIN stack = 1 .. n
  BY LenProperties DEF CInv, CallTypes
<1>2. DOMAIN stack' = 1 .. n - 1 /\ \A k \in 1 .. n - 1 : k \in 1 .. n /\ stack'[k] = stack[k]
  BY <1>1, LenProperties DEF Popped
<1>3. CASE n = 1
  <2>1. cut' = {}
    BY <1>1, <1>3 DEF Pop
  <2> QED
    BY <2>1 DEF StrayInv, CutTraced
<1>4. CASE n # 1
  <2>1. UNCHANGED <<cut, left>>
    BY <1>1, <1>4 DEF Pop
  <2>2. \A w : Holder(w)' = Holder(w)
    BY <2>1 DEF Holder
  <2>3. \A t \in active \cap Trace : CutTraced(t)' => CutTraced(t)
    BY <1>1, <1>2, <2>1, <2>2 DEF CutTraced
  <2> QED
    BY <2>3, StrayStays
<1> QED
  BY <1>3, <1>4

\* A toggle gives a free wrapper to a function that has no traces yet.
LEMMA StrayToggle ==
    ASSUME CInv, StrayInv, UNCHANGED <<stack, cut, left>>, NEW o \in Object,
           UNCHANGED <<nodeVars, traces>> \/ DoEnable(o) \/ DoDisable(o),
           active' = active \/ active' = active \cup {o} \/ active' = active \ {o},
           drifted \subseteq drifted', o \in Trace /\ stack # <<>> => o \in drifted'
    PROVE  StrayInv'
<1>1. CASE stack = <<>>
  BY <1>1, EmptySeq DEF CInv, CallTypes, StrayInv, CutTraced
<1>2. CASE stack # <<>>
  <2>1. ASSUME NEW t \in active \cap Trace, t # o, NEW w \in WChunk, FuncOf[t] = Holder(w)'
        PROVE  FuncOf[t] = Holder(w)
    <3>1. FuncOf[t] \in funcMap /\ FuncOf[t] \in Func
      <4>1. FuncOf[t] \in Func /\ t \in ToSet(traces[FuncOf[t]])
        BY DetourObjects DEF CInv, IInv, Lists, ActiveIsListed, Object
      <4>2. traces[FuncOf[t]] # <<>>
        BY <4>1, EmptySeq DEF ToSet
      <4> QED
        BY <4>1, <4>2 DEF CInv, IInv, Links
    <3>2. wrapperFunc' = wrapperFunc \/
            \E g \in Func \ funcMap, v \in WChunk :
              wrapperFunc[v] = NULL /\ wrapperFunc' = [wrapperFunc EXCEPT ![v] = g]
      <4>1. CASE UNCHANGED nodeVars
        BY <4>1 DEF nodeVars
      <4>2. CASE DoEnable(o) \/ DoDisable(o)
        <5>1. PICK v \in WChunk, u \in TChunk : Find(FuncOf[o], u, v)
          BY <4>2 DEF DoEnable, DoDisable
        <5>2. FuncOf[o] \in Func
          BY DetourObjects
        <5> QED
          BY <5>1, <5>2 DEF Find, CreateWrapper, nodeVars
      <4> QED
        BY <1>2, <4>1, <4>2
    <3>3. wrapperFunc \in [WChunk -> Func \cup {NULL}]
      BY DEF CInv, IInv, Nodes
    <3>4. CASE wrapperFunc' = wrapperFunc
      BY <2>1, <3>4 DEF Holder
    <3>5. ASSUME NEW g \in Func \ funcMap, NEW v \in WChunk, wrapperFunc[v] = NULL,
                 wrapperFunc' = [wrapperFunc EXCEPT ![v] = g]
          PROVE  FuncOf[t] = Holder(w)
      <4>1. CASE w = v
        <5>1. Holder(w)' = g
          BY <3>3, <3>5, <4>1, DisjointCode DEF Holder
        <5> QED
          BY <2>1, <3>1, <5>1
      <4>2. CASE w # v
        BY <2>1, <3>3, <3>5, <4>2 DEF Holder
      <4> QED
        BY <4>1, <4>2
    <3> QED
      BY <3>2, <3>4, <3>5
  <2>2. ASSUME NEW t \in active' \cap Trace, CutTraced(t)'
        PROVE  t \in drifted'
    <3>1. CASE t = o
      BY <1>2, <2>2, <3>1
    <3>2. CASE t # o
      <4>1. t \in active
        BY <2>2, <3>2
      <4>2. CutTraced(t)
        BY <2>1, <2>2, <3>2, <4>1 DEF CutTraced
      <4> QED
        BY <2>2, <4>1, <4>2 DEF StrayInv
    <3> QED
      BY <3>1, <3>2
  <2> QED
    BY <2>2 DEF StrayInv
<1> QED
  BY <1>1, <1>2

\* A function whose entry CleanUp erases has no traces on.
LEMMA StrayCleanUp ==
    ASSUME CInv, StrayInv, RunCleanUp
    PROVE  StrayInv'
<1>1. UNCHANGED <<stack, active, drifted>> /\ CleanUp
  BY DEF RunCleanUp, Change, CleanUp, flagVars
<1>2. \A t \in active \cap Trace : FuncOf[t] \notin Unused
  <2> SUFFICES ASSUME NEW t \in active \cap Trace
               PROVE  traces[FuncOf[t]] # <<>>
    BY DEF Unused
  <2>1. FuncOf[t] \in Func /\ t \in ToSet(traces[FuncOf[t]])
    BY DetourObjects DEF CInv, IInv, Lists, ActiveIsListed, Object
  <2> QED
    BY <2>1, EmptySeq DEF ToSet
<1>3. cut' = cut \cup {f \in Unused : OnEntryOf(f) # {}}
  BY DEF RunCleanUp
<1>4. ASSUME stack # <<>>, NEW w \in WChunk
      PROVE  Holder(w)' = Holder(w)
  <2>1. wrapperFunc'[w] = IF w \in {wrapper[f] : f \in Unused} THEN NULL ELSE wrapperFunc[w]
    BY <1>1 DEF CleanUp
  <2>2. left'[w] = IF \E f \in Unused : w \in {trampoline[f], wrapper[f]} THEN wrapperFunc[w] ELSE left[w]
    BY <1>4, DisjointCode DEF RunCleanUp
  <2>3. \A f \in Unused : trampoline[f] # w /\ wrapperFunc[wrapper[f]] = f /\ f # NULL
    <3>1. \A f \in Unused : f \in funcMap /\ f \in Func
      BY DEF Unused, CInv, IInv, Nodes
    <3> QED
      BY <3>1, DisjointCode DEF CInv, IInv, Nodes
  <2>4. CASE w \in {wrapper[f] : f \in Unused}
    <3>1. wrapperFunc'[w] = NULL /\ left'[w] = wrapperFunc[w] /\ wrapperFunc[w] # NULL
      BY <2>1, <2>2, <2>3, <2>4
    <3> QED
      BY <3>1 DEF Holder
  <2>5. CASE w \notin {wrapper[f] : f \in Unused}
    <3>1. wrapperFunc'[w] = wrapperFunc[w] /\ left'[w] = left[w]
      BY <2>1, <2>2, <2>3, <2>5
    <3> QED
      BY <3>1 DEF Holder
  <2> QED
    BY <2>4, <2>5
<1>5. ASSUME NEW t \in active \cap Trace, CutTraced(t)'
      PROVE  CutTraced(t)
  <2>1. CASE FuncOf[t] \in cut'
    BY <1>2, <1>3, <2>1 DEF CutTraced
  <2>2. ASSUME NEW n \in DOMAIN stack, stack[n].at \in WChunk, stack[n].fn \in cut',
               FuncOf[t] = Holder(stack[n].at)'
        PROVE  CutTraced(t)
    <3>1. FuncOf[t] = Holder(stack[n].at)
      <4>1. stack # <<>>
        BY <2>2, EmptySeq
      <4>2. PICK w \in WChunk : w = stack[n].at
        BY <2>2
      <4>3. Holder(w)' = Holder(w)
        BY <1>4, <4>1
      <4>4. Holder(stack[n].at)' = Holder(w)'
        BY <1>1, <4>2 DEF Holder
      <4> QED
        BY <2>2, <4>2, <4>3, <4>4
    <3>2. CASE stack[n].fn \in cut
      BY <2>2, <3>1, <3>2 DEF CutTraced
    <3>3. CASE stack[n].fn \notin cut
      <4>1. PICK S \in SUBSET Detour, r \in [Detour -> Nat] : Consistent(S, r)
        BY DEF CInv
      <4>2. stack[n].at = wrapper[stack[n].fn] /\ stack[n].fn \in funcMap
        BY <2>2, <3>3, <4>1 DEF Consistent, SoundFrame, WrapperGoesOn
      <4>3. wrapperFunc[stack[n].at] = stack[n].fn /\ stack[n].fn # NULL
        BY <4>2, DisjointCode DEF CInv, IInv, Nodes
      <4>4. FuncOf[t] = stack[n].fn /\ stack[n].fn \in Unused
        BY <1>3, <2>2, <3>1, <3>3, <4>3 DEF Holder
      <4> QED
        BY <1>2, <4>4
    <3> QED
      BY <3>2, <3>3
  <2> QED
    BY <1>1, <1>5, <2>1, <2>2 DEF CutTraced
<1> QED
  BY <1>1, <1>5, StrayStays

\* A toggle inside a call takes its trace out of consideration; between calls all counts
\* are at zero.
LEMMA ToggleCounts ==
    ASSUME CInv, CountInv, NEW o, UNCHANGED <<stack, refCount>>,
           \A x : x # o => (x \in active' <=> x \in active),
           drifted \subseteq drifted', o \in Trace => stack = <<>> \/ o \in drifted'
    PROVE  CountInv'
<1>1. UNCHANGED stack => \A g : OpenUnder(g)' = OpenUnder(g)
  BY DEF OpenUnder
<1>2. CASE stack = <<>>
  <2>1. \A g : OpenUnder(g) = {}
    BY <1>2, EmptySeq DEF OpenUnder
  <2>2. Cardinality({}) = 0
    BY FS_EmptySet
  <2> QED
    BY <1>1, <2>1, <2>2 DEF CountInv
<1>3. CASE stack # <<>>
  BY <1>1, <1>3 DEF CountInv
<1> QED
  BY <1>2, <1>3

LEMMA CountStepHolds ==
    CInv /\ StrayInv /\ CountInv /\ [CallNext]_<<vars, callVars>> => CountInv'
<1> SUFFICES ASSUME CInv, StrayInv, CountInv, [CallNext]_<<vars, callVars>>
             PROVE  CountInv'
  OBVIOUS
<1>0. ASSUME stack # <<>>
      PROVE  Top.fn \in Func
  BY <1>0, TopFrame DEF CInv, FrameKind
<1>1. ASSUME NEW f \in Func, Call(f)
      PROVE  CountInv'
  <2> DEFINE at == Landing(bytes[f])
  <2>1. UNCHANGED <<active, drifted>>
    BY <1>1 DEF Call, vars, flagVars
  <2>2. at \in WChunk => wrapperFunc[at] = f
    BY CallLands, JumpsLand DEF CInv, WrapperGoesOn
  <2>3. /\ Pushed(at, f, "call")
        /\ IF at \in WChunk
           THEN refCount' = [t \in Trace |-> refCount[t] + (IF Traced(f, t) THEN 1 ELSE 0)]
           ELSE UNCHANGED refCount
    BY <1>1, <2>2, CallPushes
  <2> HIDE DEF at
  <2> QED
    BY <2>1, <2>3, PushCounts
<1>2. CASE CallInner
  <2>1. \A p \in Func \cup Callback : p \notin WChunk
    BY DisjointCode
  <2>2. UNCHANGED <<active, drifted>> /\ stack # <<>>
    BY <1>2 DEF CallInner, vars, flagVars
  <2>3. CASE UNCHANGED <<stack, refCount>>
    BY <2>2, <2>3 DEF CountInv, OpenUnder
  <2>4. ASSUME NEW at \in Func \cup Callback, Pushed(at, Top.fn, "inner"), UNCHANGED refCount
        PROVE  CountInv'
    BY <1>0, <2>1, <2>2, <2>4, PushCounts
  <2> QED
    BY <1>2, <2>3, <2>4, InnerPushes
<1>3. CASE Return
  <2>1. /\ UNCHANGED <<active, drifted, refCount>> /\ stack # <<>> /\ Top.at \notin WChunk /\ Pop
    BY <1>3 DEF Return, Running, vars, flagVars
  <2> QED
    BY <1>0, <2>1, PopPops, PopCounts DEF CInv
<1>4. CASE WrapperPost
  <2>1. UNCHANGED <<active, drifted>> /\ stack # <<>> /\ Top.at \in WChunk /\ Top.fn \in Func
    BY <1>0, <1>4 DEF WrapperPost, vars, flagVars
  <2>2. CASE UNCHANGED <<stack, refCount>>
    BY <2>1, <2>2 DEF CountInv, OpenUnder
  <2>3. CASE ~UNCHANGED <<stack, refCount>>
    <3>1. PICK g : g = Holder(Top.at)
      OBVIOUS
    <3>2. /\ Popped /\ g \in Func /\ (Top.fn \notin cut => g = Top.fn)
          /\ refCount' = [t \in Trace |-> refCount[t] - (IF Traced(g, t) THEN 1 ELSE 0)]
      BY <1>4, <2>3, <3>1, PostPops DEF CInv, IInv, Nodes
    <3>3. \A t \in Trace \ drifted : Traced(g, t) <=> Traced(Top.fn, t)
      BY <2>1, <3>1, <3>2, PostTraces
    <3> QED
      BY <2>1, <3>2, <3>3, PopCounts
  <2> QED
    BY <2>2, <2>3
<1>5. CASE LoadMods
  <2>1. UNCHANGED <<active, drifted, stack, refCount>>
    BY <1>5 DEF LoadMods, LoadDetour, Change
  <2> QED
    BY <2>1 DEF CountInv, OpenUnder
<1>6. CASE ToggleDetour
  <2>1. PICK d \in Detour : /\ active' = active \cup {d} \/ active' = active \ {d}
                            /\ UNCHANGED <<drifted, stack, refCount>>
    BY <1>6 DEF ToggleDetour, Change, Enable, Disable
  <2>2. d \notin Trace
    BY DetourObjects
  <2> QED
    BY <2>1, <2>2, ToggleCounts
<1>7. CASE ToggleTrace
  <2>1. PICK t \in Trace :
          /\ active' = active \/ active' = active \cup {t} \/ active' = active \ {t}
          /\ UNCHANGED <<stack, refCount>>
          /\ drifted' = IF stack = <<>> THEN drifted ELSE drifted \cup {t}
    BY <1>7 DEF ToggleTrace, Change, Enable, Disable, LoadTrace, Unload
  <2> QED
    BY <2>1, ToggleCounts
<1>8. CASE UNCHANGED <<active, drifted, stack, refCount>>
  BY <1>8 DEF CountInv, OpenUnder
<1> QED
  BY <1>1, <1>2, <1>3, <1>4, <1>5, <1>6, <1>7, <1>8
  DEF CallNext, RunCleanUp, Change, CleanUp, vars, callVars, flagVars

LEMMA StrayStepHolds ==
    CInv /\ StrayInv /\ [CallNext]_<<vars, callVars>> => StrayInv'
<1> SUFFICES ASSUME CInv, StrayInv, [CallNext]_<<vars, callVars>>
             PROVE  StrayInv'
  OBVIOUS
<1>1. ASSUME NEW f \in Func, Call(f)
      PROVE  StrayInv'
  <2> DEFINE at == Landing(bytes[f])
  <2>1. UNCHANGED <<active, drifted, cut, left, wrapperFunc>> /\ Pushed(at, f, "call")
    BY <1>1, CallPushes DEF Call, vars, flagVars, nodeVars
  <2>2. at \in WChunk => wrapperFunc[at] = f /\ f # NULL
    BY CallLands, JumpsLand, DisjointCode DEF CInv, WrapperGoesOn
  <2> HIDE DEF at
  <2> QED
    BY <2>1, <2>2, StrayPush
<1>2. CASE CallInner
  <2>1. UNCHANGED <<active, drifted, cut, left, wrapperFunc>>
    BY <1>2 DEF CallInner, vars, flagVars, nodeVars
  <2>2. \A p \in Func \cup Callback : p \notin WChunk
    BY DisjointCode
  <2>3. ASSUME NEW at \in Func \cup Callback, Pushed(at, Top.fn, "inner")
        PROVE  StrayInv'
    BY <2>1, <2>2, <2>3, StrayPush
  <2>4. CASE UNCHANGED stack
    BY <2>1, <2>4 DEF StrayInv, CutTraced, Holder
  <2> QED
    BY <1>2, <2>3, <2>4, InnerPushes
<1>3. CASE Return
  BY <1>3, PopPops, StrayPop DEF Return, CInv, vars, flagVars, nodeVars
<1>4. CASE WrapperPost
  <2>1. UNCHANGED <<active, drifted, wrapperFunc>>
    BY <1>4 DEF WrapperPost, vars, flagVars, nodeVars
  <2>2. CASE UNCHANGED <<stack, cut, left>>
    BY <2>1, <2>2 DEF StrayInv, CutTraced, Holder
  <2>3. CASE Popped /\ Pop
    BY <2>1, <2>3, StrayPop
  <2> QED
    BY <1>4, <2>2, <2>3, PostPops
<1>5. CASE LoadMods
  BY <1>5 DEF LoadMods, LoadDetour, Change, nodeVars, StrayInv, CutTraced, Holder
<1>6. CASE ToggleDetour
  <2>1. PICK d \in Detour : /\ UNCHANGED <<stack, cut, left, drifted>>
                            /\ Enable(d) \/ Disable(d)
    BY <1>6 DEF ToggleDetour, Change
  <2>2. d \in Object /\ d \notin Trace
    BY DetourObjects DEF Object
  <2>3. (DoEnable(d) \/ DoDisable(d)) /\ (active' = active \cup {d} \/ active' = active \ {d})
    BY <2>1 DEF Enable, Disable
  <2> QED
    BY <2>1, <2>2, <2>3, StrayToggle
<1>7. CASE ToggleTrace
  <2>1. PICK t \in Trace : /\ UNCHANGED <<stack, cut, left>>
                           /\ drifted' = IF stack = <<>> THEN drifted ELSE drifted \cup {t}
                           /\ LoadTrace(t) \/ Enable(t) \/ Disable(t) \/ Unload(t)
    BY <1>7 DEF ToggleTrace, Change
  <2>2. /\ UNCHANGED <<nodeVars, traces>> \/ DoEnable(t) \/ DoDisable(t)
        /\ active' = active \/ active' = active \cup {t} \/ active' = active \ {t}
    BY <2>1 DEF LoadTrace, Enable, Disable, Unload, listVars
  <2>3. t \in Object /\ drifted \subseteq drifted' /\ (stack # <<>> => t \in drifted')
    BY <2>1 DEF Object
  <2> QED
    BY <2>1, <2>2, <2>3, StrayToggle
<1>8. CASE RunCleanUp
  BY <1>8, StrayCleanUp
<1>9. CASE UNCHANGED <<vars, callVars>>
  BY <1>9 DEF vars, callVars, flagVars, nodeVars, StrayInv, CutTraced, Holder
<1> QED
  BY <1>1, <1>2, <1>3, <1>4, <1>5, <1>6, <1>7, <1>8, <1>9 DEF CallNext

-----------------------------------------------------------------------------
(***************************************************************************)
(* Theorems.                                                               *)
(***************************************************************************)

\* The invariant and what follows the calls, with CleanUp between calls and inside of them.
THEOREM CallInvariance == CallSpec => [](CInv /\ ReturnInv /\ StrayInv /\ CountInv)
<1>1. CallInit => CInv /\ ReturnInv /\ StrayInv /\ CountInv
  <2> SUFFICES ASSUME CallInit
               PROVE  ReturnInv /\ StrayInv /\ CountInv
    BY CallInitHolds
  <2>1. stack = <<>> /\ retAddrs = <<>> /\ active = {} /\ refCount = [t \in Trace |-> 0]
    BY DEF CallInit, Init
  <2>2. Wrappers(0) = {} /\ Cardinality({}) = 0 /\ Len(<<>>) = 0 /\ <<>> \in Seq(Nat)
    BY FS_EmptySet, EmptySeq DEF Wrappers
  <2> QED
    BY <2>1, <2>2 DEF ReturnInv, ReturnsToCaller, StrayInv, CountInv
<1>2. CInv /\ ReturnInv /\ StrayInv /\ CountInv /\ [CallNext]_<<vars, callVars>>
        => (CInv /\ ReturnInv /\ StrayInv /\ CountInv)'
  BY CallStepHolds, ReturnStepHolds, StrayStepHolds, CountStepHolds
<1> QED
  BY <1>1, <1>2, PTL DEF CallSpec

\* In whatever order mods and traces are toggled and CleanUp runs inside of calls, the only
\* call to go into freed code, to return into it or to fail the assert of WrapperPost is one
\* whose function lost its entry to a CleanUp in the middle of it.
THEOREM CutCallsFailOnly == CallSpec => []OnlyCutCallsFail
<1>1. CInv => OnlyCutCallsFail
  BY DEF CInv
<1> QED
  BY <1>1, CallInvariance, PTL

\* A call of a function stays among its callbacks and ends in its code; one that lost its
\* entry to CleanUp may end in the code of another function.
THEOREM CallsStay == CallSpec => []CallStaysInFunc
<1>1. CInv => CallStaysInFunc
  BY DEF CInv, Consistent, Sound, SoundFrame, CallStaysInFunc
<1> QED
  BY <1>1, CallInvariance, PTL

\* The priority never rises along a call.
THEOREM CallsDescend == CallSpec => []PriorityNeverRises
<1>1. CInv => PriorityNeverRises
  <2> SUFFICES ASSUME CInv, NEW m \in DOMAIN stack, NEW n \in DOMAIN stack, m < n, OneCall(m, n),
                      stack[m].at \in Callback, stack[n].at \in Callback
               PROVE  CallbackPriority(stack[m].at, stack[m].fn)
                        >= CallbackPriority(stack[n].at, stack[n].fn)
    BY DEF PriorityNeverRises
  <2>1. PICK S \in SUBSET Detour, r \in [Detour -> Nat] : Consistent(S, r)
    BY DEF CInv
  <2> DEFINE is(k, d) == CallbackOf[d] = stack[k].at /\ FuncOf[d] = stack[k].fn
             d1 == CHOOSE d \in Detour : is(m, d)
             d2 == CHOOSE d \in Detour : is(n, d)
  <2>2. (\E d \in Detour : is(m, d)) /\ (\E d \in Detour : is(n, d))
    BY <2>1 DEF Consistent, SoundFrame
  <2>3. d1 \in Detour /\ is(m, d1) /\ d2 \in Detour /\ is(n, d2)
    BY <2>2
  <2>4. Priority[d1] >= Priority[d2]
    BY <2>1, <2>3 DEF Consistent, Descends
  <2> QED
    BY <2>4 DEF CallbackPriority
<1> QED
  BY <1>1, CallInvariance, PTL

\* A callback is only run twice in a call when its detour was enabled anew meanwhile.
THEOREM CallbacksRunOnce == CallSpec => []RunsOncePerCall
<1>1. CInv => RunsOncePerCall
  <2> SUFFICES ASSUME CInv, NEW m \in DOMAIN stack, NEW n \in DOMAIN stack, m < n, OneCall(m, n),
                      stack[m].at \in Callback, stack[m].at = stack[n].at
               PROVE  \E d \in reenabled : CallbackOf[d] = stack[m].at
    BY DEF RunsOncePerCall
  <2>1. PICK S \in SUBSET Detour, r \in [Detour -> Nat] : Consistent(S, r)
    BY DEF CInv
  <2>2. PICK d \in Detour : CallbackOf[d] = stack[m].at
    BY <2>1 DEF Consistent, SoundFrame
  <2>3. d \notin reenabled => Before(r, d, d)
    BY <2>1, <2>2 DEF Consistent, Descends
  <2>4. ~Before(r, d, d)
    <3>1. Priority[d] \in Int /\ r[d] \in Nat
      BY DetourObjects
    <3> QED
      BY <3>1 DEF Before
  <2> QED
    BY <2>2, <2>3, <2>4
<1> QED
  BY <1>1, CallInvariance, PTL

\* Every wrapper returns to the caller that it was entered from, also across nested calls.
THEOREM CallersAreFound == CallSpec => []ReturnsToCaller
<1>1. ReturnInv => ReturnsToCaller
  BY DEF ReturnInv, ReturnsToCaller
<1> QED
  BY <1>1, CallInvariance, PTL

\* A CFuncCount that is only toggled between calls has the number of its open calls.
THEOREM CountsAreExact == CallSpec => []CountsOpenCalls
<1>1. CountInv => CountsOpenCalls
  BY DEF CountInv, CountsOpenCalls, OpenUnder
<1> QED
  BY <1>1, CallInvariance, PTL

=============================================================================
