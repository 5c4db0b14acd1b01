---------------------------- MODULE DetouredFunc ----------------------------
(***************************************************************************)
(* The function detours of src/mem/detour.{h,cpp}.                         *)
(*                                                                         *)
(* A CDetouredFunc owns the entry bytes of one game function: it keeps the *)
(* list of detours and traces that are enabled on it, a trampoline (a copy *)
(* of the overwritten prologue followed by a jump back) and a wrapper (a   *)
(* stub that runs the traces around the call).  Reconfigure rewrites the   *)
(* jump at the entry and the "inner" pointer of every enabled detour, the  *)
(* pointer through which a callback calls the next one.                    *)
(*                                                                         *)
(* Code addresses are values of Ptr: a member of Func is the unmodified    *)
(* code of that function, a member of Callback the code of a detour        *)
(* callback, and the chunks are trampolines and wrappers.  A callback and  *)
(* its Actual_ pointer are declared by one DETOUR_DECL macro, so inner is  *)
(* indexed by the callback.                                                *)
(***************************************************************************)
EXTENDS Integers, SequencesExt

CONSTANTS
    Func,        \* functions of the game that can be detoured
    Callback,    \* detour callbacks, each with its Actual_ pointer
    Detour,      \* CDetour objects
    Trace,       \* ITrace objects (CFuncCount, CFuncTrace, ...)
    TChunk,      \* addresses the trampoline allocator can hand out
    WChunk,      \* addresses the wrapper allocator can hand out
    FuncOf,      \* the function an object resolves to when it is loaded
    CallbackOf,  \* CDetour::m_pCallback
    Priority,    \* IDetour::m_Priority
    NULL

Object == Detour \cup Trace

ASSUME DetourObjects ==
    /\ Detour \cap Trace = {}
    /\ FuncOf \in [Object -> Func]
    /\ CallbackOf \in [Detour -> Callback]
    /\ Priority \in [Detour -> -2..2]

ASSUME FinitelyMany == IsFiniteSet(Callback)

\* An address means one thing only.
ASSUME DisjointCode ==
    /\ Func \cap Callback = {} /\ Func \cap TChunk = {} /\ Func \cap WChunk = {}
    /\ Callback \cap TChunk = {} /\ Callback \cap WChunk = {}
    /\ TChunk \cap WChunk = {}
    /\ NULL \notin Func \cup Callback \cup TChunk \cup WChunk

Ptr   == Func \cup Callback \cup TChunk \cup WChunk
Entry == Func \cup Callback \cup WChunk   \* what the entry bytes of a function can lead to

VARIABLES
    loaded,        \* objects whose m_bLoaded is set
    registered,    \* CDetour::s_LoadedDetours
    active,        \* objects whose m_bActive is set
    inner,         \* the Actual_ pointer of each callback (*m_pInner)
    bytes,         \* the entry of each function: itself, or the target of a jump
    funcMap,       \* the keys of CDetouredFunc::s_FuncMap
    detours,       \* m_Detours
    traces,        \* m_Traces
    trampoline,    \* m_pTrampoline
    wrapper,       \* m_pWrapper
    wrapperInner,  \* m_pWrapperInner
    original,      \* m_OriginalPrologue
    jumpInstalled, \* m_bJumpInstalled
    trampCode,     \* the prologue held by each trampoline chunk, NULL when free
    wrapperFunc    \* the function each wrapper chunk was made for, NULL when free

flagVars  == <<loaded, registered, active>>
nodeVars  == <<funcMap, trampoline, wrapper, original, trampCode, wrapperFunc>>
linkVars  == <<inner, bytes, wrapperInner, jumpInstalled>>
listVars  == <<detours, traces>>
vars == <<flagVars, nodeVars, linkVars, listVars>>

Init ==
    /\ loaded = {} /\ registered = {} /\ active = {}
    /\ inner = [c \in Callback |-> NULL]
    /\ bytes = [f \in Func |-> f]
    /\ funcMap = {}
    /\ detours = [f \in Func |-> <<>>]
    /\ traces = [f \in Func |-> <<>>]
    /\ trampoline = [f \in Func |-> NULL]
    /\ wrapper = [f \in Func |-> NULL]
    /\ wrapperInner = [f \in Func |-> NULL]
    /\ original = [f \in Func |-> NULL]
    /\ jumpInstalled = [f \in Func |-> FALSE]
    /\ trampCode = [t \in TChunk |-> NULL]
    /\ wrapperFunc = [w \in WChunk |-> NULL]

-----------------------------------------------------------------------------
(***************************************************************************)
(* Helpers of CDetouredFunc.                                               *)
(***************************************************************************)

\* CreateTrampoline copies the entry bytes as they are at that moment, both to the
\* trampoline and to m_OriginalPrologue; t is any chunk that is free.
CreateTrampolineUnsaved(f, t) ==     \* mutant: the prologue is not saved
    /\ trampCode[t] = NULL
    /\ trampoline' = [trampoline EXCEPT ![f] = t]
    /\ trampCode' = [trampCode EXCEPT ![t] = bytes[f]]
    /\ UNCHANGED original
CreateTrampolineTaken(f, t) ==       \* mutant: the chunk may be in use
    /\ trampoline' = [trampoline EXCEPT ![f] = t]
    /\ trampCode' = [trampCode EXCEPT ![t] = bytes[f]]
    /\ original' = [original EXCEPT ![f] = bytes[f]]
CreateTrampoline(f, t) ==
    /\ trampCode[t] = NULL
    /\ trampoline' = [trampoline EXCEPT ![f] = t]
    /\ trampCode' = [trampCode EXCEPT ![t] = bytes[f]]
    /\ original' = [original EXCEPT ![f] = bytes[f]]

\* CreateWrapper fills in a stub that knows the function it is for.
CreateWrapper(f, w) ==
    /\ wrapperFunc[w] = NULL
    /\ wrapper' = [wrapper EXCEPT ![f] = w]
    /\ wrapperFunc' = [wrapperFunc EXCEPT ![w] = f]

\* CDetouredFunc::Find returns the entry of f, with trampoline t and wrapper w; it
\* is created on demand.
Find(f, t, w) ==
    IF f \in funcMap
    THEN t = trampoline[f] /\ w = wrapper[f] /\ UNCHANGED nodeVars
    ELSE /\ funcMap' = funcMap \cup {f}
         /\ CreateWrapper(f, w)
         /\ CreateTrampoline(f, t)

\* The entry bytes after UninstallJump.
UninstalledNot(f) == bytes[f]        \* mutant: the prologue is not written back
Uninstalled(f) == IF jumpInstalled[f] THEN original[f] ELSE bytes[f]

\* Where the callback at position i of the list ds goes on to.
NextInnerUnset(ds, i, tramp) ==      \* mutant: the last pointer is forgotten
    IF i = Len(ds) THEN NULL ELSE CallbackOf[ds[i + 1]]
NextInner(ds, i, tramp) ==
    IF i = Len(ds) THEN tramp ELSE CallbackOf[ds[i + 1]]

\* The positions of ds whose detour has callback c.
PositionsOf(ds, c) == {i \in DOMAIN ds : CallbackOf[ds[i]] = c}

\* Where the entry of f must lead: the wrapper when there are traces, else the
\* first callback, else nowhere.
JumpTarget(ds, ts, w) ==
    IF ts # <<>> THEN w
    ELSE IF ds # <<>> THEN CallbackOf[ds[1]]
    ELSE NULL

\* CDetouredFunc::Reconfigure of the entry with trampoline t and wrapper w, for the
\* lists ds and ts.  The inner pointers are
\* written from the last detour to the first, so that the lowest position of a
\* callback is the one that counts.  A removed detour keeps its pointer.
Reconfigure(f, t, w, ds, ts) ==
    LET target == JumpTarget(ds, ts, w)
    IN  /\ inner' = [c \in Callback |->
             IF PositionsOf(ds, c) = {} THEN inner[c]
             ELSE NextInner(ds, CHOOSE i \in PositionsOf(ds, c) :
                                   \A j \in PositionsOf(ds, c) : i <= j, t)]
        /\ wrapperInner' = [wrapperInner EXCEPT ![f] =
             IF ts = <<>> THEN @
             ELSE IF ds = <<>> THEN t ELSE CallbackOf[ds[1]]]
        /\ bytes' = [bytes EXCEPT ![f] = IF target = NULL THEN Uninstalled(f) ELSE target]
        /\ jumpInstalled' = [jumpInstalled EXCEPT ![f] = target # NULL]

\* The sort of AddDetour after its push_back: by descending priority, and
\* behind the detours of equal priority (std::sort is an insertion sort, hence
\* stable, up to 16 elements).
InsertionPointLast(ds, d) == {Len(ds) + 1}    \* mutant: the list is not sorted
InsertionPointBefore(ds, d) ==                \* mutant: in front of equal priorities
    {k \in 1 .. Len(ds) + 1 :
        /\ \A i \in 1 .. k - 1 : Priority[ds[i]] > Priority[d]
        /\ \A i \in k .. Len(ds) : Priority[ds[i]] <= Priority[d]}
InsertionPoint(ds, d) ==
    {k \in 1 .. Len(ds) + 1 :
        /\ \A i \in 1 .. k - 1 : Priority[ds[i]] >= Priority[d]
        /\ \A i \in k .. Len(ds) : Priority[ds[i]] < Priority[d]}

\* CDetouredFunc::AddDetour.
AddDetour(d, t, w) ==
    LET f == FuncOf[d] IN
    \E k \in InsertionPoint(detours[f], d) :
      LET ds == InsertAt(detours[f], k, d) IN
        /\ detours' = [detours EXCEPT ![f] = ds]
        /\ UNCHANGED traces
        /\ Reconfigure(f, t, w, ds, traces[f])

\* CDetouredFunc::RemoveDetour.
RemoveDetourOnly(d, t, w) ==         \* mutant: without Reconfigure
    LET f == FuncOf[d] IN
    \E k \in DOMAIN detours[f] :
      /\ detours[f][k] = d
      /\ detours' = [detours EXCEPT ![f] = RemoveAt(detours[f], k)]
      /\ UNCHANGED <<traces, linkVars>>
RemoveDetour(d, t, w) ==
    LET f == FuncOf[d] IN
    \E k \in DOMAIN detours[f] :
      LET ds == RemoveAt(detours[f], k) IN
        /\ detours[f][k] = d
        /\ detours' = [detours EXCEPT ![f] = ds]
        /\ UNCHANGED traces
        /\ Reconfigure(f, t, w, ds, traces[f])

\* CDetouredFunc::AddTrace.
AddTrace(x, t, w) ==
    LET f == FuncOf[x]
        ts == Append(traces[f], x) IN
    /\ traces' = [traces EXCEPT ![f] = ts]
    /\ UNCHANGED detours
    /\ Reconfigure(f, t, w, detours[f], ts)

\* CDetouredFunc::RemoveTrace.
RemoveTrace(x, t, w) ==
    LET f == FuncOf[x] IN
    \E k \in DOMAIN traces[f] :
      LET ts == RemoveAt(traces[f], k) IN
        /\ traces[f][k] = x
        /\ traces' = [traces EXCEPT ![f] = ts]
        /\ UNCHANGED detours
        /\ Reconfigure(f, t, w, detours[f], ts)

\* IDetour::DoEnable and DoDisable.
DoEnable(o) ==
    \E t \in TChunk, w \in WChunk :
      /\ Find(FuncOf[o], t, w)
      /\ IF o \in Trace THEN AddTrace(o, t, w) ELSE AddDetour(o, t, w)
DoDisable(o) ==
    \E t \in TChunk, w \in WChunk :
      /\ Find(FuncOf[o], t, w)
      /\ IF o \in Trace THEN RemoveTrace(o, t, w) ELSE RemoveDetour(o, t, w)

-----------------------------------------------------------------------------
(***************************************************************************)
(* The operations on a detour.                                             *)
(***************************************************************************)

\* CDetour::EnsureUniqueInnerPtrs.
UniqueInnerPtrAlways(d) == TRUE      \* mutant: no check
UniqueInnerPtr(d) ==
    \A e \in registered \ {d} : CallbackOf[e] # CallbackOf[d]

\* IDetour::Load of a CDetour whose address was found; when the lookup or the
\* check on the inner pointers fails nothing changes.
LoadDetour(d) ==
    /\ d \notin loaded
    /\ UniqueInnerPtr(d)
    /\ loaded' = loaded \cup {d}
    /\ registered' = registered \cup {d}
    /\ UNCHANGED <<active, nodeVars, linkVars, listVars>>

\* IDetour::Load of a trace.
LoadTrace(t) ==
    /\ t \notin loaded
    /\ loaded' = loaded \cup {t}
    /\ UNCHANGED <<registered, active, nodeVars, linkVars, listVars>>

\* IDetour::Enable, through IDetour::DoEnable and CDetouredFunc::Find.
Enable(o) ==
    /\ o \in loaded \ active
    /\ DoEnable(o)
    /\ active' = active \cup {o}
    /\ UNCHANGED <<loaded, registered>>

\* IDetour::Disable.  The entry of the function stays in s_FuncMap.
Disable(o) ==
    /\ o \in loaded \cap active
    /\ DoDisable(o)
    /\ active' = active \ {o}
    /\ UNCHANGED <<loaded, registered>>

\* IDetour::Unload followed by the delete that every caller has behind it; o
\* then stands for the next object made with the same callback.
UnloadListed(o) ==                   \* mutant: deleted without being disabled
    /\ o \in loaded
    /\ loaded' = loaded \ {o}
    /\ registered' = registered \ {o}
    /\ active' = active \ {o}
    /\ UNCHANGED <<nodeVars, linkVars, listVars>>
Unload(o) ==
    /\ o \in loaded
    /\ loaded' = loaded \ {o}
    /\ registered' = registered \ {o}
    /\ active' = active \ {o}
    /\ IF o \in active THEN DoDisable(o)
       ELSE UNCHANGED <<nodeVars, linkVars, listVars>>

\* The entries CDetouredFunc::CleanUp erases.
Unused == {f \in funcMap : detours[f] = <<>> /\ traces[f] = <<>>}

\* CDetouredFunc::CleanUp: each erased entry runs ~CDetouredFunc, which empties
\* the lists, reconfigures (taking the jump out) and frees both chunks.
CleanUp ==
    LET freedT == {trampoline[f] : f \in Unused}
        freedW == {wrapper[f] : f \in Unused}
    IN  /\ funcMap' = funcMap \ Unused
        /\ bytes' = [f \in Func |->
             IF f \in Unused THEN Uninstalled(f) ELSE bytes[f]]
        /\ jumpInstalled' = [f \in Func |-> f \notin Unused /\ jumpInstalled[f]]
        /\ trampCode' = [t \in TChunk |-> IF t \in freedT THEN NULL ELSE trampCode[t]]
        /\ wrapperFunc' = [w \in WChunk |-> IF w \in freedW THEN NULL ELSE wrapperFunc[w]]
        /\ trampoline' = [f \in Func |-> IF f \in Unused THEN NULL ELSE trampoline[f]]
        /\ wrapper' = [f \in Func |-> IF f \in Unused THEN NULL ELSE wrapper[f]]
        /\ original' = [f \in Func |-> IF f \in Unused THEN NULL ELSE original[f]]
        /\ wrapperInner' = [f \in Func |-> IF f \in Unused THEN NULL ELSE wrapperInner[f]]
        /\ UNCHANGED <<flagVars, inner, listVars>>

Next ==
    \/ \E d \in Detour : LoadDetour(d)
    \/ \E t \in Trace : LoadTrace(t)
    \/ \E o \in Object : Enable(o) \/ Disable(o) \/ Unload(o)
    \/ CleanUp

Spec == Init /\ [][Next]_vars

-----------------------------------------------------------------------------
(***************************************************************************)
(* Properties.                                                             *)
(***************************************************************************)

\* Every variable holds a value of its kind.
TypeOK ==
    /\ loaded \subseteq Object /\ active \subseteq Object
    /\ registered \subseteq Detour
    /\ inner \in [Callback -> Ptr \cup {NULL}]
    /\ bytes \in [Func -> Entry]
    /\ funcMap \subseteq Func
    /\ detours \in [Func -> Seq(Detour)]
    /\ traces \in [Func -> Seq(Trace)]
    /\ trampoline \in [Func -> TChunk \cup {NULL}]
    /\ wrapper \in [Func -> WChunk \cup {NULL}]
    /\ wrapperInner \in [Func -> Ptr \cup {NULL}]
    /\ original \in [Func -> Entry \cup {NULL}]
    /\ jumpInstalled \in [Func -> BOOLEAN]
    /\ trampCode \in [TChunk -> Entry \cup {NULL}]
    /\ wrapperFunc \in [WChunk -> Func \cup {NULL}]

\* The asserts of AddDetour, RemoveDetour, AddTrace and RemoveTrace: an object
\* is enabled exactly when its function lists it, and it is listed once.
ActiveIsListed ==
    \A f \in Func :
      /\ ToSet(detours[f]) = {d \in active \cap Detour : FuncOf[d] = f}
      /\ ToSet(traces[f]) = {t \in active \cap Trace : FuncOf[t] = f}
      /\ IsInjective(detours[f]) /\ IsInjective(traces[f])

\* The entry of a function is its own code, or a jump to what its lists call for,
\* and the saved prologue is the function's own code.  A prologue saved or
\* trampolined while a jump was in place would make the function call itself.
EntryFollowsLists ==
    \A f \in Func :
      LET target == JumpTarget(detours[f], traces[f], wrapper[f]) IN
      /\ bytes[f] = IF target = NULL THEN f ELSE target
      /\ jumpInstalled[f] = (target # NULL)
      /\ target # NULL => f \in funcMap
      /\ f \in funcMap => original[f] = f /\ trampCode[trampoline[f]] = f

\* The chain of an entry: every listed callback goes on to the next one, the last
\* one to the trampoline, and the wrapper to the first of them, whatever was
\* enabled and disabled before and in whatever order.
ChainIsWhole ==
    \A f \in Func :
      /\ \A i \in DOMAIN detours[f] :
            inner[CallbackOf[detours[f][i]]] = NextInner(detours[f], i, trampoline[f])
      /\ traces[f] # <<>> =>
            wrapperInner[f] = IF detours[f] = <<>> THEN trampoline[f]
                              ELSE CallbackOf[detours[f][1]]

\* Detours run by descending priority.
ByPriority ==
    \A f \in Func : \A i, j \in DOMAIN detours[f] :
      i < j => Priority[detours[f][i]] >= Priority[detours[f][j]]

\* The chunks in use are those of the mapped functions, no two functions share
\* one, and none outlives its entry: CleanUp after the last disable frees all.
ChunksAreOwned ==
    /\ \A t \in TChunk : trampCode[t] # NULL <=> \E f \in funcMap : trampoline[f] = t
    /\ \A w \in WChunk : wrapperFunc[w] # NULL <=> \E f \in funcMap : wrapper[f] = w
    /\ \A f, g \in funcMap :
          f # g => trampoline[f] # trampoline[g] /\ wrapper[f] # wrapper[g]

\* The assert of Reconfigure: enabled detours never share a callback.
EnabledCallbacksDiffer ==
    \A d, e \in active \cap Detour : CallbackOf[d] = CallbackOf[e] => d = e

\* One step of the processor from each address: through a wrapper, a callback or a
\* trampoline to the code it goes on to.
Follow == [p \in Ptr \cup {NULL} |->
    IF p \in WChunk THEN (IF wrapperFunc[p] = NULL THEN NULL ELSE wrapperInner[wrapperFunc[p]])
    ELSE IF p \in Callback THEN inner[p]
    ELSE IF p \in TChunk THEN trampCode[p]
    ELSE p]

\* The addresses a call passes from p on.  MaxHops is enough for a wrapper, every
\* callback, a trampoline and the function.
MaxHops == Cardinality(Callback) + 3
Hops(p) == LET next == Follow
               hop[n \in 1 .. MaxHops] == IF n = 1 THEN p ELSE next[hop[n - 1]]
           IN  hop

\* The callbacks a call of f runs through, behind the wrapper if there is one, and the
\* code it ends in.
CallOrder(f) ==
    LET hops  == Hops(bytes[f])
        first == IF bytes[f] \in WChunk THEN 2 ELSE 1
    IN  SubSeq(hops, first, first - 1 + Cardinality({n \in 1 .. MaxHops : hops[n] \in Callback}))
Reached(f) == Hops(bytes[f])[MaxHops]

\* The chains of pointers and jumps do what DetourOrder promises: at every moment a
\* call of a function runs exactly the enabled callbacks in their order and reaches
\* the function, and CleanUp, loading and unloading change nothing of it.
Order   == [f \in Func |-> CallOrder(f)]
Ends    == [f \in Func |-> Reached(f)]
Wrapped == {f \in Func : bytes[f] \in WChunk}
Promise == INSTANCE DetourOrder WITH order <- Order, reached <- Ends, traced <- Wrapped
KeepsPromise == Promise!Spec

\* A callback that was disabled keeps its inner pointer, and a call that is inside
\* it when that happens still goes through it.  Such pointers never lead round in
\* a circle: from any callback that was ever enabled a trampoline is reached.
NoCallbackCycle ==
    \A c \in Callback : inner[c] # NULL =>
      \E n \in 1 .. MaxHops : Hops(c)[n] \in TChunk
=============================================================================
