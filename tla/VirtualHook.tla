----------------------------- MODULE VirtualHook -----------------------------
(***************************************************************************)
(* The virtual table hooks of src/mem/virtual_hook.{h,cpp}.  The words of  *)
(* the virtual tables lie one behind the other in memory; a hook looks for *)
(* its function from the start of its class's table on, and the search     *)
(* does not stop at the end of that table.                                 *)
(***************************************************************************)
EXTENDS Integers, SequencesExt

CONSTANTS
    Hook,         \* CVirtualHook objects
    NumWords,     \* words of memory that hold virtual tables
    TableStart,   \* where the table of each hook's class begins
    Target,       \* the function each hook is for
    CallbackOf,   \* m_pCallback, which also names the hook's Actual pointer
    Pristine,     \* the words as the game's libraries have them
    EarlyHooks,   \* hooks of mods that are enabled as they load
    NULL

Word == 1 .. NumWords
Callback == {CallbackOf[h] : h \in Hook}
GameCode == {Pristine[w] : w \in Word} \cup {Target[h] : h \in Hook}

ASSUME Tables ==
    /\ NumWords \in Nat /\ IsFiniteSet(Hook)
    /\ TableStart \in [Hook -> Word]
    /\ Target \in [Hook -> GameCode] /\ CallbackOf \in [Hook -> Callback]
    /\ Pristine \in [Word -> GameCode]
    /\ EarlyHooks \subseteq Hook
    /\ Callback \cap GameCode = {} /\ NULL \notin Callback \cup GameCode
    /\ \A g, h \in Hook : CallbackOf[g] = CallbackOf[h] => g = h

VARIABLES
    booting,   \* CModManager::Load is not yet through
    memory,    \* the words of the virtual tables
    place,     \* m_pFuncPtr of the hooks that are loaded (m_bLoaded), else 0
    tried,     \* hooks whose DoLoad has run
    on,        \* hooks whose m_bEnabled is set
    hooks,     \* m_Hooks of the CVirtualHookFunc of each word
    hooked,    \* its m_bHooked
    saved,     \* its m_pFuncInner
    inner      \* *m_pInner of each callback

vars == <<booting, memory, place, tried, on, hooks, hooked, saved, inner>>

Init ==
    /\ booting = TRUE
    /\ memory = Pristine
    /\ place = [h \in Hook |-> 0]
    /\ tried = {} /\ on = {}
    /\ hooks = [w \in Word |-> <<>>]
    /\ hooked = [w \in Word |-> FALSE]
    /\ saved = [w \in Word |-> NULL]
    /\ inner = [c \in Callback |-> NULL]

-----------------------------------------------------------------------------

\* Where DoLoad finds the function: the first word that holds it now.
FoundAny(h) ==                       \* mutant: not the first one
    {w \in TableStart[h] .. NumWords : memory[w] = Target[h]}
Found(h) ==
    {w \in TableStart[h] .. NumWords :
        /\ memory[w] = Target[h]
        /\ \A v \in TableStart[h] .. w - 1 : memory[v] # Target[h]}

\* DoLoad; when the function is not found the hook stays unloaded.
Load(h) ==
    /\ booting /\ h \notin tried
    /\ tried' = tried \cup {h}
    /\ IF Found(h) = {} THEN UNCHANGED place
       ELSE \E w \in Found(h) : place' = [place EXCEPT ![h] = w]
    /\ UNCHANGED <<booting, memory, on, hooks, hooked, saved, inner>>

\* The word after UnloadAll.
UnhookedNot(w) == memory[w]          \* mutant: the word is not restored first
Unhooked(w) == IF hooked[w] THEN saved[w] ELSE memory[w]

\* DoHook for the list hs of the word w: the word is restored and read again, the
\* inner pointers are linked up and the word is made to point to the first hook.
DoHook(w, hs) ==
    /\ hooks' = [hooks EXCEPT ![w] = hs]
    /\ hooked' = [hooked EXCEPT ![w] = hs # <<>>]
    /\ saved' = [saved EXCEPT ![w] = IF hs = <<>> THEN @ ELSE Unhooked(w)]
    /\ memory' = [memory EXCEPT ![w] =
         IF hs = <<>> THEN Unhooked(w) ELSE CallbackOf[hs[1]]]
    /\ inner' = [c \in Callback |->
         IF \E k \in DOMAIN hs : CallbackOf[hs[k]] = c
         THEN LET k == CHOOSE i \in DOMAIN hs : CallbackOf[hs[i]] = c
              IN  IF k = Len(hs) THEN Unhooked(w) ELSE CallbackOf[hs[k + 1]]
         ELSE inner[c]]

EnableFirst(h) ==                    \* mutant: the hook goes in front of the others
    /\ h \notin on /\ place[h] # 0
    /\ booting => h \in EarlyHooks
    /\ on' = on \cup {h}
    /\ DoHook(place[h], <<h>> \o hooks[place[h]])
    /\ UNCHANGED <<booting, place, tried>>
\* DoEnable of a loaded hook.
Enable(h) ==
    /\ h \notin on /\ place[h] # 0
    /\ booting => h \in EarlyHooks
    /\ on' = on \cup {h}
    /\ DoHook(place[h], Append(hooks[place[h]], h))
    /\ UNCHANGED <<booting, place, tried>>

\* DoDisable; a hook is in one list, once.
Disable(h) ==
    /\ h \in on
    /\ on' = on \ {h}
    /\ \E k \in DOMAIN hooks[place[h]] :
         /\ hooks[place[h]][k] = h
         /\ DoHook(place[h], RemoveAt(hooks[place[h]], k))
    /\ UNCHANGED <<booting, place, tried>>

\* CModManager::Load is through; from now on ConVars toggle the mods.
Booted ==
    /\ booting /\ tried = Hook
    /\ booting' = FALSE
    /\ UNCHANGED <<memory, place, tried, on, hooks, hooked, saved, inner>>

Next == Booted \/ \E h \in Hook : Load(h) \/ Enable(h) \/ Disable(h)

Spec == Init /\ [][Next]_vars

-----------------------------------------------------------------------------
(***************************************************************************)
(* Properties.                                                             *)
(***************************************************************************)

\* Where the processor goes from each address.
Follow == [p \in Callback \cup GameCode \cup {NULL} |-> IF p \in Callback THEN inner[p] ELSE p]

\* The code a virtual call runs through from p on: the callbacks and, last, the
\* function of the game.
MaxHops == Cardinality(Hook) + 1
Path(p) ==
    LET next == Follow
        step[n \in 1 .. MaxHops] == IF n = 1 THEN p ELSE next[step[n - 1]]
    IN  step

\* A virtual call through any word runs the callbacks of the hooks enabled on it, in the
\* order they were enabled, and then what the word led to in the game, whichever
\* hooks of the class or of other classes were switched on and off before.
CallsRunHooks ==
    \A w \in Word :
      LET n == Len(hooks[w])  p == Path(memory[w]) IN
      /\ \A k \in 1 .. n : p[k] = CallbackOf[hooks[w][k]]
      /\ p[n + 1] = Pristine[w]

\* The callbacks that a call through each word runs, and the code it ends in.
Chains == [w \in Word |->
    LET p == Path(memory[w])
    IN  SubSeq(p, 1, Cardinality({n \in 1 .. MaxHops : p[n] \in Callback}))]
Ends == [w \in Word |-> Path(memory[w])[MaxHops]]

\* The words and pointers do what HookOrder promises: in every step a call through one
\* word gets one more callback as its last or loses one, and nothing else becomes of
\* any call.
Promise == INSTANCE HookOrder WITH home <- place, chain <- Chains, reached <- Ends
KeepsHookOrder == Promise!Spec

\* A call that is inside the callback of a hook while that is disabled goes on through its
\* old pointer, and still comes to code of the game.
OldPointersEnd ==
    \A c \in Callback : inner[c] # NULL =>
      Path(inner[c])[MaxHops] \in GameCode

\* Every hook sits on the word that held its function, and on the first such word of its
\* class's table, provided no hook is enabled while others are still to be loaded.
SitsOnItsFunction ==
    \A h \in Hook : place[h] # 0 =>
      /\ Pristine[place[h]] = Target[h]
      /\ \A w \in TableStart[h] .. place[h] - 1 : Pristine[w] # Target[h]
=============================================================================
