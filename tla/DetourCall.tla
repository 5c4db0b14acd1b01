----------------------------- MODULE DetourCall -----------------------------
(***************************************************************************)
(* Calls in progress through the detours of DetouredFunc.  The detours of  *)
(* a function can change while a call of it is under way: ConVars toggle   *)
(* mods from console commands, and commands run inside game functions      *)
(* (engine->ServerExecute) and inside the engine's own, which can be       *)
(* detoured or traced too.  A frame of the stack is a callback, a wrapper  *)
(* or the code of a function; everything runs on the main thread.          *)
(***************************************************************************)
EXTENDS DetouredFunc

CONSTANTS
    MaxDepth,           \* bound on the depth of the stack
    MaxOpen,            \* bound on the calls in progress at once
    MaxMidCall,         \* bounds on the changes made while calls are in progress: fewer
                        \* than MaxMidCall[k] have been made when one of kind k is
    MaxDrift            \* bound on how far a count may be from zero when a trace is
                        \* toggled inside a call (each such toggle can shift it for good)

ASSUME CallBounds ==
    /\ MaxDepth \in Nat /\ MaxOpen \in Nat /\ MaxDrift \in Nat
    /\ MaxMidCall \in [{"detour", "trace", "cleanup"} -> Nat]

VARIABLES
    stack,     \* frames, the innermost last
    retAddrs,  \* s_WrapperCallerRetAddrs
    refCount,  \* the RefCount of each CFuncCount
    fault,     \* what went wrong, "none" while nothing has
    midCall,   \* changes made since the stack was last empty
    reenabled, \* detours enabled since the stack was last empty
    drifted,   \* traces that were ever toggled inside of a call
    cut,       \* functions whose entry CleanUp erased while a call of them was in a
               \* callback or a wrapper of it, since the stack was last empty
    left       \* the function whose code is left in each chunk that was freed since the
               \* stack was last empty, else NULL

callVars == <<stack, retAddrs, refCount, fault, midCall, reenabled, drifted, cut, left>>

Emptied == [p \in TChunk \cup WChunk |-> NULL]

\* A frame: the code it runs, the function called, how it was entered, whether
\* it has made its inner call (Actual, or a wrapper's only call) and the place it
\* returns to.
Frame(at, fn, via) ==
    [at |-> at, fn |-> fn, via |-> via, called |-> FALSE, ret |-> Len(stack)]

CallInit ==
    /\ Init
    /\ stack = <<>> /\ retAddrs = <<>>
    /\ refCount = [t \in Trace |-> 0]
    /\ fault = "none"
    /\ midCall = 0 /\ reenabled = {} /\ drifted = {} /\ cut = {}
    /\ left = Emptied

Top == stack[Len(stack)]

\* Mod, game or engine code is running: anything may be called or toggled.
Running == fault = "none" /\ (stack # <<>> => Top.at \notin WChunk)

-----------------------------------------------------------------------------
(***************************************************************************)
(* Control flow.                                                           *)
(***************************************************************************)

\* A jump to p ends here: a trampoline goes on to the code it holds, and a freed
\* chunk holds none.
Landing(p) ==
    IF p \in TChunk THEN trampCode[p]
    ELSE IF p \in WChunk /\ wrapperFunc[p] = NULL THEN NULL
    ELSE p

\* A freed chunk may have gone with its page; if others of the page are in use, its
\* old code is still there.
Landings(p) ==
    IF p \in TChunk /\ trampCode[p] = NULL THEN {NULL, left[p]} ELSE {Landing(p)}

\* FuncPre and FuncPost of f run the trace t.
TracedAfterFirst(f, t) ==            \* mutant: an off-by-one in the loop
    \E i \in DOMAIN traces[f] : i > 1 /\ traces[f][i] = t
Traced(f, t) == \E i \in DOMAIN traces[f] : traces[f][i] = t

\* Entering f in the code at, with the frames below it being base.
Enter(at, f, via, base) ==
    IF at = NULL
    THEN /\ fault' = IF via = "call" THEN "no way in" ELSE "freed code called"
         /\ UNCHANGED <<stack, retAddrs, refCount>>
    ELSE /\ stack' = Append(base, Frame(at, f, via))
         /\ UNCHANGED fault
         /\ IF at \notin WChunk THEN UNCHANGED <<retAddrs, refCount>>
            ELSE \* WrapperPre: the traces, then the return address
                 /\ retAddrs' = Append(retAddrs, Len(stack))
                 /\ refCount' = [t \in Trace |->
                      refCount[t] + (IF Traced(wrapperFunc[at], t) THEN 1 ELSE 0)]

\* The engine, the game or a callback calls a function.  The mods have been loaded
\* before the game goes on; a detour that was not found stays disabled.
Call(f) ==
    /\ Running /\ Detour \subseteq loaded
    /\ Len(stack) < MaxDepth
    /\ Cardinality({n \in DOMAIN stack : stack[n].via = "call"}) < MaxOpen
    /\ Enter(Landing(bytes[f]), f, "call", stack)
    /\ UNCHANGED <<midCall, reenabled, drifted, cut, left, vars>>

\* A callback calls Actual, or a wrapper the code inside it; the pointer is read now.
CallInner ==
    /\ fault = "none" /\ stack # <<>>
    /\ Top.at \in Callback \/ (Top.at \in WChunk /\ ~Top.called)
    /\ Len(stack) < MaxDepth
    /\ LET p == IF Top.at \in WChunk THEN wrapperInner[Top.fn] ELSE inner[Top.at]
       IN  \E at \in Landings(p) :
             Enter(at, Top.fn, "inner", [stack EXCEPT ![Len(stack)].called = TRUE])
    /\ UNCHANGED <<midCall, reenabled, drifted, cut, left, vars>>

\* The history starts over when the last frame returns.
Pop ==
    /\ stack' = Front(stack)
    /\ midCall' = IF Len(stack) = 1 THEN 0 ELSE midCall
    /\ reenabled' = IF Len(stack) = 1 THEN {} ELSE reenabled
    /\ cut' = IF Len(stack) = 1 THEN {} ELSE cut
    /\ left' = IF Len(stack) = 1 THEN Emptied ELSE left

\* A function or a callback returns; a callback need not have called Actual.
Return ==
    /\ Running /\ stack # <<>>
    /\ Pop
    /\ UNCHANGED <<retAddrs, refCount, fault, drifted, vars>>

\* The top of s_WrapperCallerRetAddrs is taken off.
PopCallerOldest == retAddrs' = Tail(retAddrs)    \* mutant: a queue
PopCaller == retAddrs' = Front(retAddrs)

\* The function the code of a wrapper chunk names.
Holder(w) == IF wrapperFunc[w] = NULL THEN left[w] ELSE wrapperFunc[w]

\* The code inside a wrapper has returned to it: WrapperPost restores the return
\* address, looks the function up and runs its traces.
WrapperPost ==
    /\ fault = "none" /\ stack # <<>>
    /\ Top.at \in WChunk /\ Top.called
    /\ \/ /\ wrapperFunc[Top.at] = NULL
          /\ fault' = "returned into a freed wrapper"
          /\ UNCHANGED <<stack, retAddrs, refCount, midCall, reenabled, cut, left>>
       \/ /\ Holder(Top.at) \notin funcMap
          /\ PopCaller
          /\ fault' = "assert in WrapperPost"
          /\ UNCHANGED <<stack, refCount, midCall, reenabled, cut, left>>
       \/ /\ Holder(Top.at) \in funcMap
          /\ Pop
          /\ PopCaller
          /\ refCount' = [t \in Trace |->
               refCount[t] - (IF Traced(Holder(Top.at), t) THEN 1 ELSE 0)]
          /\ UNCHANGED fault
    /\ UNCHANGED <<drifted, vars>>

-----------------------------------------------------------------------------
(***************************************************************************)
(* Changes to the detours, made by the running code.                       *)
(***************************************************************************)

\* A change of this kind is possible now, and is counted inside a call.
Change(kind) ==
    /\ Running
    /\ stack # <<>> => midCall < MaxMidCall[kind]
    /\ midCall' = IF stack = <<>> THEN 0 ELSE midCall + 1
    /\ UNCHANGED <<stack, retAddrs, refCount, fault>>

\* Mods load their detours with the extension, outside of any call.
LoadMods ==
    /\ stack = <<>>
    /\ \E d \in Detour : LoadDetour(d)
    /\ Change("detour") /\ UNCHANGED <<reenabled, drifted, cut, left>>

\* IMod::ToggleAllDetours reaches one of its detours.
ToggleDetour ==
    \E d \in Detour :
      /\ Change("detour") /\ UNCHANGED <<drifted, cut, left>>
      /\ \/ Enable(d) /\ reenabled' = IF stack = <<>> THEN {} ELSE reenabled \cup {d}
         \/ Disable(d) /\ UNCHANGED reenabled

\* A traced mod is toggled, or sig_debug_backtrace_add and _clear run.
ToggleTrace ==
    \E t \in Trace :
      /\ Change("trace") /\ UNCHANGED <<reenabled, cut, left>>
      /\ drifted' = IF stack = <<>> THEN drifted ELSE drifted \cup {t}
      /\ stack # <<>> => \A x \in Trace : refCount[x] \in -MaxDrift .. MaxDrift
      /\ LoadTrace(t) \/ Enable(t) \/ Disable(t) \/ Unload(t)

\* The frames of f whose code goes on through the chunks of its entry.
OnEntryOf(f) == {n \in DOMAIN stack : stack[n].fn = f /\ stack[n].at \notin Func}

\* CDetouredFunc::CleanUp, called by ConVar_Restore::Reset (sig_cvar_reset), a console
\* command like those that toggle mods: it asks for no call to be over.
RunCleanUp ==
    /\ Unused # {}
    /\ Change("cleanup") /\ UNCHANGED <<reenabled, drifted>>
    /\ cut' = cut \cup {f \in Unused : OnEntryOf(f) # {}}
    /\ left' = [p \in TChunk \cup WChunk |->
         IF stack # <<>> /\ \E f \in Unused : p \in {trampoline[f], wrapper[f]}
         THEN IF p \in TChunk THEN trampCode[p] ELSE wrapperFunc[p]
         ELSE left[p]]
    /\ CleanUp

CallNext ==
    \/ \E f \in Func : Call(f)
    \/ CallInner \/ Return \/ WrapperPost
    \/ LoadMods \/ ToggleDetour \/ ToggleTrace \/ RunCleanUp

CallSpec == CallInit /\ [][CallNext]_<<vars, callVars>>

-----------------------------------------------------------------------------
(***************************************************************************)
(* Properties.                                                             *)
(***************************************************************************)

\* A function can be called at any time.  A call goes into a freed chunk or returns into
\* one, and the assert of WrapperPost fails, in one case only: CleanUp erased the entry of
\* its function while a call of it was in progress.  No CleanUp between calls, nor one
\* inside calls of other functions only, does this, whatever was toggled and whoever
\* got the chunks.
OnlyCutCallsFail ==
    fault # "none" =>
      /\ fault # "no way in"
      /\ stack # <<>> /\ Top.at \notin Func /\ Top.fn \in cut

\* A call of f only ever runs callbacks made for f and, in the end, f, not the
\* chain of another function that took over its trampoline; only a call that lost
\* its entry to CleanUp may go astray, and then in its last step.
CallStaysInFunc ==
    \A n \in DOMAIN stack :
      LET fr == stack[n] IN
      /\ fr.at \in Func => fr.at = fr.fn \/ fr.fn \in cut
      /\ fr.at \in Callback =>
           \E d \in Detour : CallbackOf[d] = fr.at /\ FuncOf[d] = fr.fn

\* Frames m..n belong to one call of a function.
OneCall(m, n) == \A k \in m + 1 .. n : stack[k].via = "inner"

CallbackPriority(c, f) ==
    Priority[CHOOSE d \in Detour : CallbackOf[d] = c /\ FuncOf[d] = f]

\* Along one call the priority never rises, also when detours are switched on and
\* off in the middle of it and the call goes on through a pointer of a disabled one.
PriorityNeverRises ==
    \A m, n \in DOMAIN stack :
      m < n /\ OneCall(m, n) /\ stack[m].at \in Callback /\ stack[n].at \in Callback
        => CallbackPriority(stack[m].at, stack[m].fn) >= CallbackPriority(stack[n].at, stack[n].fn)

\* A call runs a callback a second time inside itself only if the detour was
\* enabled anew while calls were in progress.
RunsOncePerCall ==
    \A m, n \in DOMAIN stack :
      m < n /\ OneCall(m, n) /\ stack[m].at \in Callback /\ stack[m].at = stack[n].at
        => \E d \in reenabled : CallbackOf[d] = stack[m].at

\* The wrappers among the first n frames.
Wrappers(n) == {k \in 1 .. n : stack[k].at \in WChunk}

\* The wrappers on the stack find their own callers on s_WrapperCallerRetAddrs, the
\* innermost on top, also those whose entry was erased.
ReturnsToCaller ==
    fault = "none" =>
      /\ Len(retAddrs) = Cardinality(Wrappers(Len(stack)))
      /\ \A n \in Wrappers(Len(stack)) : retAddrs[Cardinality(Wrappers(n))] = stack[n].ret

\* A CFuncCount counts the calls of its function that are in progress under a
\* wrapper, provided the trace was only ever toggled between calls.
CountsOpenCalls ==
    \A t \in (active \cap Trace) \ drifted :
      refCount[t] = Cardinality({n \in DOMAIN stack :
                       stack[n].at \in WChunk /\ stack[n].fn = FuncOf[t]})
=============================================================================
