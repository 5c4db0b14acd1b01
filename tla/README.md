# Verification of sigsegv-mvm

TLA+ modules, model checking runs and machine-checked proofs for the core of the
sigsegv-mvm extension (a SourceMod/Metamod extension that changes Team Fortress 2
servers by detouring, hooking and patching the game's code). Paths are relative to
the root of the repository; the extension itself is `src/src`.

## 1. The system

### Parts

| Part | Code | State | Operations |
|---|---|---|---|
| Function detours | `src/src/mem/detour.{h,cpp}` | `CDetour::s_LoadedDetours`, `CDetouredFunc::s_FuncMap`, per function the lists of detours and traces, trampoline, wrapper, saved prologue, jump flag; the inner pointer of each callback; the entry bytes of the game's functions | Load, Enable, Disable, Unload, CleanUp |
| Calls through them | `src/src/mem/wrapper.s`, `WrapperPre/Post`, `CFuncCount` | `s_WrapperCallerRetAddrs`, the counts, the machine stack | call, inner call, return |
| Executable memory | `src/src/mem/alloc.cpp` | blocks, their masks, the list by usage, counts | Alloc, Free |
| Virtual hooks | `src/src/mem/virtual_hook.{h,cpp}` | words of the virtual tables, hook lists, inner pointers | DoLoad, DoEnable, DoDisable |
| Patches | `src/src/mem/patch.{h,cpp}` | bytes of functions, saved bytes, `m_bApplied` | Init, Check, Apply, UnApply |
| Mod life cycle | `src/src/mod.{h,cpp}`, `src/src/extension.cpp` | `m_bEnabled`, `m_bFailed`, `m_bLoaded`, the pieces of each mod | Load, Toggle, Unload, level and frame callbacks |
| ConVars | callbacks in each mod, `src/src/convar_restore.cpp` | values | set, `sig_cvar_reset`, load and save |
| Mission overrides | `IPopOverride`, `PopState` in `src/src/mod/pop/popmgr_extensions.cpp` | `m_bOverridden`, `m_Backup` | Set, Reset |
| Address lookup | `src/src/addr`, `src/src/mem/scan.*`, `src/src/util/rtti.cpp` | table of addresses | Load, GetAddr |
| Links and stubs | `src/src/link`, `src/src/stub`, `src/src/prop.cpp` | bound addresses | InitAll |
| Bot actions | `src/src/re/nextbot.h`, `src/src/mod/ai/engiebot_dispensers.cpp`, `engiebot_wrangler.cpp` | live actions of the bots, `build_actions` | Update, event, destructor, UnloadAll |
| VProf streaming | `src/src/util/firehose_*`, `src/src/mod/util/vprof_send.cpp`, `vprof_recv.cpp` | queues, sockets, `m_bDone`, `m_DoneFlag`, two threads | Send, ThreadLoop, Recv, JoinThread |
| Player packets | `src/src/mod/perf/sendprop_optimize.cpp` | values seen last, write offsets, change frame lists | Run, DoEncodePlayer, SetChangeTick, OnUnload |
| The mods | `src/src/mod/**` (about 250 files) | per mod | per mod |

`PROJECT.json` lists the components with what is modelled of each.

### How they interact

* A mod owns detours, virtual hooks and patches; `IMod::Toggle` switches them. A ConVar's
  change callback, run at once by `SetValue`, toggles the mod.
* `CDetour` objects of all mods meet in one `CDetouredFunc` per function, which allocates a
  trampoline and a wrapper from the executable memory when it is made.
* The game calls into the callbacks; a callback calls the next through its inner pointer.
* `PopMgr_Extensions` sets ConVars of other mods for the length of a mission, from inside a
  detour; restoring them toggles those mods again.
* Nearly all of it runs on the main thread. What interleaves there is nested calls: commands run inside
  game functions (`engine->ServerExecute()`, e.g. `src/src/mod/mvm/robot_limit.cpp:176`),
  ConVar callbacks inside `SetValue`, toggles inside of detoured calls.
* `FirehoseSend` and `FirehoseRecv` have a thread each. It shares a queue with the main thread,
  under a mutex, and is told to end by a flag; the main thread waits for it when the mod is
  switched off.
* Actions of mods live in the game's behavior of a bot, or beside it in `build_actions`; they must
  be gone before the code is, which `IHotplugActionBase::UnloadAll` sees to.

### What makes them correct, and what is hard

* Detours: whatever was switched on and off before, a call runs exactly the enabled callbacks,
  by priority, then the function. Hard: every change relinks pointers that calls in progress use.
* Calls: every wrapper finds its caller, no call enters freed code unless its own entry is erased under
  it, counts come out even. Hard: detours and traces change, and entries are erased, in the middle of calls.
* Executable memory: a chunk has one owner; blocks are mapped and unmapped exactly when needed.
* Virtual hooks: a virtual call runs the enabled hooks and ends in the game's code. Hard: the
  table is searched while others may have changed it.
* Patches: several patches and a detour on one function restore what they found. Hard: each
  saves bytes others may have written; `patch.h:8` says nothing prevents a clash.
* Mods and ConVars: between commands a mod is on exactly as its ConVar says; missions give back
  what they changed; nothing survives the unload. Hard: toggles nest through callbacks.
* Streaming: a message comes out as it went in, every message is taken over in the end, switching
  off comes to an end. Hard: two threads on each side, wake-ups that are lost, connections that break.
* Player packets: a packet in which only some properties were written is the one the engine would
  have made, and clients get every difference. Hard: offsets, values and lists are kept from tick
  to tick, and the mod is switched on and off in between.
* Bot actions: an action belongs to the bot it was made for and is gone before its code. Hard: idle
  actions die while detours are off, addresses are used again, actions are not started at once.

The list of hazards, line by line, with the properties against them, is `hazards` in
`PROJECT.json`.

## 2. Modules

| Module | Models | How |
|---|---|---|
| `DetouredFunc` | `IDetour`, `CDetour`, `CDetouredFunc` | One variable per member, as functions of the game function; `Enable`, `Disable`, `Unload`, `CleanUp` are the whole call down to `Reconfigure`. An address is a function, callback, trampoline or wrapper; the entry bytes are the function itself or the target of the jump. |
| `DetourOrder` | abstract: what detours promise | Per function the list of callbacks a call runs through, the code it ends in, and whether it is traced. No pointers. |
| `DetourCall` | calls in progress | EXTENDS `DetouredFunc` with a stack of frames; `Enter` is the jump, with `WrapperPre` when it leads to a wrapper; detours, traces and `CleanUp` happen between any two steps of mod, game or engine code, as commands run inside detoured functions too (`_Host_RunFrame` itself is detoured by `src/src/mod/prof/frame_prof.cpp:9`). Auxiliary: `cut`, the functions whose entry `CleanUp` erased while a call of them was in a callback or wrapper, and `left`, the code that a freed chunk may still hold. |
| `ExecMem` | one `ExecMemBlockAllocator` and its count | `AllocInBlock`, `AllocNewBlock`, `Free`, each with the sort of `PostUpdate`. |
| `ChunkPool` | abstract: a pool of chunks | Take and give back. |
| `VirtualHook` | `CVirtualHook`, `CVirtualHookFunc` | Virtual tables are words in a row; `Found` searches from the start of a class's table on, past its end, as `DoLoad` does. |
| `HookOrder` | abstract: what virtual hooks promise | Per word the list of callbacks a virtual call runs through and the code it ends in; hooks settle on a word, join and leave. No pointers. |
| `PatchedCode` | `CPatch` and the entry jump | One function's bytes, patches with range, verify mask and patch mask. |
| `ModToggle` | `CModManager`, `IMod`, ConVar callbacks, `sig_cvar_reset`, `IPopOverride` | `todo` is the sequence of what the nested calls still have to do, innermost first; a callback puts its work in front. One action per step that changes state; the settings of a mission file are parsed one by one. `counts` are the variables that the patches of `PopMgr_Extensions` are made from, the size of the red team and, for `iPreClientUpdate`, the ConVar values that `GetVisibleMaxPlayers` computed it from; auxiliary: `unseen`, those of them that changed since where the code does not compute it anew. |
| `Connection` | the TCP connections of a sender and a receiver | Units in flight per connection; a hang-up or break loses a suffix of them. A message is a header and parts of a body. `torn` remembers that a message was lost in part. |
| `FirehoseSend`, `FirehoseRecv` | the two classes as `VProf_Send` and `VProf_Recv` use them | One action per step between which another thread can run: taking a mutex, waiting, one socket call. Both EXTEND `Connection`. |
| `VProfStream` | both ends | Composition with the fairness below |
| `ChangeFrames` | `CachedChangeFrameList` | A record per list; `SetChangeTick` and `ChangedAfter` are operators on it. |
| `PackedPlayer` | `Perf:SendProp_Optimize` | The packets of a player per tick; `DoEncodePlayer` with its search, limit, offsets and refusals; the engine's full encoding is external. `doubt`, `sent`, `ownOffs` and `astray` are auxiliary: they remember which values the search may have missed and which offsets come from an encoding under the mod. |
| `BotActions` | `IHotplugAction`, `EngieBot_Dispensers`, `EngieBot_Wrangler` | What each engineer bot does, `build_actions` from addresses of idle actions to bots; `Delete` is the reset of a bot's behavior with the detours of the destructor, `orphans` is auxiliary. |
| `MC*` | instances for TLC | constants and symmetry |
| `ListLemmas` | lemmas about lists and pointers | What `InsertAt`, `RemoveAt` and `Append` do; the names of the elements of a list (`Names`); ways along pointers, where they lead and when they end; induction over sets of numbers. |
| `*_proofs` | proofs | section 5; `StreamAndBots_proofs` holds those of two components |

Definitions named in `PROJECT.json` under `map` give the lines they translate. Operators whose
comment starts with "mutant" are wrong variants of the definition below them; they show that a
property is violated when the code errs in that way, and nothing else uses them.

Data that is abstracted: instruction bytes, registers, page protection, names, the values of
ConVars beyond what tells states apart, log output. In `ModToggle` every patch of a mod is on or
off with the others, and which piece of a mod failed to load is reduced to `m_bFailed`.

`std::sort` in `AddDetour` is not stable by its contract. It is, in the library the extension is
built with, for the up to 16 elements that are sorted by insertion; `InsertionPoint` states that.

## 3. Runs

| Run | Question | Bounds |
|---|---|---|
| `MCDetouredFunc` | Do the lists, entries, pointers and chunks fit together after any sequence of operations, and is `DetourOrder` implemented? | two functions, four detours (two of one priority, one above; one on the other function that shares a callback), one trace, two chunks of each kind: every list has up to three entries, chunks are reused, a load is refused |
| `MCDetourCall` | What does a call run, and does it find its way back, when detours and traces of two functions change in the middle of it and chunks are reused? | two functions, one with two detours of different priority and a trace, the other with one detour; two calls in progress at once and depth 8, so that both can run whole; inside an outermost call up to three changes: a detour can be switched off, `CleanUp` run, and a detour switched on that takes the chunks over |
| `MCExecMem` | Is a chunk handed out once, are blocks mapped and unmapped rightly, is `ChunkPool` implemented? | four pages of three chunks: full, partly full and empty blocks at once |
| `MCVirtualHook` | Do virtual calls run the enabled hooks, and is `HookOrder` implemented? | two tables that share a function, three hooks on one word and one on another |
| `MCPatchedCode` | Do patches and a detour compose? | three patches with overlapping ranges, one over the prologue, two patch values |
| `Toggle` | Do mods and their patches follow the ConVars, through missions, level changes, resets, failed loads and the unload of the extension, and do missions give back what they change? | four mods: one on by default, one switched by two ConVars, one with a ConVar that refreshes its patches, and the one that keeps the overrides; any of them failed; values 0..1 and 0..2 for the refreshing one; two settings per mission; of the four ConVars that players are counted from the two that switch a mod, the other two are in the theorems |
| `VProfStream` | Do messages come out whole, are they all taken over, do the destructors return? | messages of two units, queues of one message on the sender's side and three units on the receiver's, two units in flight, one connection at a time, which may wait in the backlog until it is accepted, breaks at any time (the theorem is for any number of connections) |
| `MCPackedPlayer` | Are packets current, do offsets fit, are deltas complete? | one player, three compared words and one that is not, four properties (a word pair shared by two of them, one of variable length, one local-only), limit of two changes, three ticks, three switches of the mod |
| `BotActions` | Whose are the entries of `build_actions`? | three bots, two of them builders, three addresses |
| `ToggleUnguarded`, `VProfJoin`, `BotActionsLeft` | (violation) see section 4 | one or two mods; messages of two units; as `BotActions` |

The operations of each module touch at most two neighbours in a list, two functions or two mods at
once, so three list entries (first, middle, last), two functions with reuse of chunks between them,
and mods that differ in kind reach the cases the code tells apart. The depth of the stack is
bounded by `MaxDepth`, the calls in progress at once by `MaxOpen`, the number of changes inside one outermost call by `MaxMidCall`, the drift of
a count by `MaxDrift`; ConVar values by `MaxValue`, the settings of one mission file by
`MaxSettings`. The other state is finite.

`CHECK_DEADLOCK FALSE` is used where the system may stop: when the extension is gone
(`ModToggle`), and when a fault has ended a call (`OnlyCutCallsFail`), or `MaxDepth` keeps a wrapper from making its call
(`DetourCall`). All other runs check that there is always a next step.

Fairness is assumed in `VProfStream` only, and weak: of each thread's next step (the operating system
schedules threads, no mutex is held across a blocking call, and socket calls end: `accept` by its time limit,
`recv` and `send` by data, time limit or the closed socket), of the frame of a mod that is on
(a server that runs runs frames), and of a destructor that has begun. Nothing is assumed of the user, the
network, or wake-ups without a notification. `RecvJoinReturns` is conditional on senders that leave:
while one stays connected the thread does not look at `m_DoneFlag`, and the program waits.
Everything else is driven by calls and has safety properties only.

What other runs rest on: `MCVirtualHook` takes `EarlyHooks = {}`, as no mod that is
enabled by default has virtual hooks; with one that had, a hook loaded later could be placed on a word of
another class (`SitsOnItsFunction` would fail). `PatchedCode` assumes `NoClash`, that the masks of patches are
disjoint from each other and from the prologue of a detoured function; the code does not check it. `MCDetourCall` lets calls of a function
begin when the detours of its mods are loaded.
The state space of `MCPackedPlayer` ends when its ticks are used up, so it has `CHECK_DEADLOCK FALSE`.

`OnlyCutCallsFail`, `CallStaysInFunc`, `CountsOpenCalls`, `PatchesAreCurrent`, `PacketsAreCurrent`, `OffsetsFit`, `WholeUnlessTorn` and
`EntriesFollowBots` hold with the exceptions their
auxiliary variables name: calls whose entry was erased in the middle (`cut`), traces toggled inside a call (`drifted`), player
counts that are not computed anew (`unseen`), values the search left behind (`doubt`), offsets from before the mod was on (`ownOffs`, `astray`),
messages of which a part was lost (`torn`), entries whose idle action died while the mod was off (`orphans`). Section 4 says
what happens in the excepted cases. Each exception is as narrow as the code allows: outside of it the property is to
hold in every interleaving, which is what the runs and theorems show.

## 4. Where code and comments disagree

* `ToggleUnguarded`: `TogglePatches` (`src/src/mod/pop/popmgr_extensions.cpp:6105`) puts the patches of a
  disabled mod on; `set_credit_team.cpp:290` asks `IsEnabled()` first.
* `VProfJoin`: `FirehoseSend::JoinThread` sets `m_bDone` and notifies, and the wait of the thread has no predicate
  (`firehose_send.cpp:68-74`, `:95`); when the thread is just sending, the wake-up is lost and the server never
  gets to "thread joined". `JoinAfterWait` says that it does when the thread waits.
* `BotActionsLeft`: the assert at the end of `UnloadAll` (`nextbot.h:220`) fails for actions that were never started;
  the note at `nextbot.h:124` has seen it.

A case that an assert does speak of, and a passing property delimits: `sig_cvar_reset` disables mods and frees the entries of functions without detours at
once (`convar_restore.cpp:139-145`), and as a console command it can run inside a detoured call. A call that is in a callback or a
wrapper of such an entry then goes on through it. If its callback still has to call Actual, it jumps into a freed trampoline; if it is in a
wrapper, it returns into freed code, or, when the page is still there, to `WrapperPost`, whose `assert(it != s_FuncMap.end())`
(`detour.cpp:893`) fails. When another function was given the chunk meanwhile, the call ends in that function. `OnlyCutCallsFail` and
`CallStaysInFunc` say that these calls (`cut`) are the only ones affected.

Cases that no comment or assert speaks of, found while modelling:

* A trace enabled inside of a call counts its end and not its start, and its count stays off by one
  (`DetourCall` marks it as `drifted`; the warning at `src/src/util/scope.h:27` can be reached).
* `iPreClientUpdate`, the number of visible players, is computed from `sig_mvm_red_team_max_players`, `sig_mvm_jointeam_blue_allow`, `_max` and `_force`
  (`popmgr_extensions.cpp:5736-5750`), but only when a mission is parsed, at three of its settings and when the red team's size changes. After the
  console or `sig_cvar_reset` changed one of the other three, `PopState::Reset` gave them back, or a mission said `HumansMustJoinTeam red`,
  the patch keeps the old number until the next such event (`unseen`).
* `sig_cvar_reset` during a mission leaves an overridden ConVar at the value from before the mission when the
  reset itself disables the mod that overrides it.
* After a word of a property was skipped (`sendprop_optimize.cpp:292`) or not reached (`:289`) its old value stays, and a change
  back to that value is not sent until another change of the property is seen.
* `SendProp_Optimize` keeps its offsets (`player_prop_write_offset`) while it is off, and the engine goes on to encode packets. After it is switched on again
  the first changes are written into such a packet at the old offsets (`sendprop_optimize.cpp:391`): what is decoded there has any length, and when that happens to be the
  length of the new value the packet stays wrong (`astray`) until the next encoding of everything. The model follows such a player no further.
* A message torn by the end of a connection makes `RecvFrame` take the middle of a message for a header; it does not
  find back by itself.
* `build_actions` entries whose idle action died while `EngieBot_Dispensers` was disabled are adopted by the next
  bot whose idle action gets that address.

## 5. Proofs

Each theorem holds for every value of the constants that meets the assumptions of the module; the
runs evaluate those assumptions. All properties of the passing runs but three are stated by a theorem.

**Detours** (`Detour_proofs`, from `DetourObjects`, `DisjointCode` and, for `NoCallbackCycle`,
`FinitelyMany`: there are as many callbacks as the program declares).
`Invariance` : `Spec => []IInv`, and from it `TypeCorrect`, `ListsAreExact`, `EntriesAreRight`,
`ChainsAreWhole`, `ChainsAreOrdered`, `NoChunkLeaks`, `CallbacksDiffer`.

`IInv` is the conjunction of
`Flags` (an active object is loaded, the registered callbacks are those of the loaded detours, and no two
of these are the same), `Lists` (`ActiveIsListed`), `ByPriority` (the order of priorities), `Nodes` (an entry of `s_FuncMap` has its own
trampoline and wrapper, the trampoline holds the function's own prologue, and no other chunk is in use) and
`Links` (entry bytes, jump flag, inner pointers and wrapper pointer are those the lists call for). None of
them is inductive without the others: that the inner pointers of other functions survive a `Reconfigure` needs
that callbacks of active detours differ, which needs `Flags`; that a new trampoline is pristine needs that a function
outside of `s_FuncMap` has no jump, which needs `Nodes` and `Links`. The proof has one lemma per
operation (`EnableHolds`, `DoDisableHolds`, `CleanUpHolds`, `FlagsOnly`), which rest on lemmas about their
common parts (`FindHolds`, `Relink`, `Relist`), and these on `ListLemmas`.

`KeepsOrder` is the refinement: `Spec => KeepsPromise`, that a call followed pointer by pointer runs the callbacks
that `DetourOrder` lists and ends in the function. The mapping iterates pointers, so the proof first shows that a way
along pointers exists and is the chain of the lists (`WayExists`, `WayAlong`), by induction over a set of
numbers: the least number outside of it is refuted with the well-founded order of the naturals, as no theorem
with an operator parameter can be used. Then each operation inserts into the list of one function, removes from
it, changes whether it is traced, or leaves what calls see.
`CallbacksLeadOut` (`NoCallbackCycle`) is about the pointers of disabled detours too, which nobody resets. Its
invariant `PointersLeadOut` says that callbacks can be ranked so that every pointer rises; a `Reconfigure` ranks the
callbacks of its chain above all others.

**Calls** (`Detour_proofs`, second part, from `CallBounds` and the assumptions above). `CallInvariance`, and from it `CutCallsFailOnly` (`OnlyCutCallsFail`), `CallsStay`, `CallsDescend`,
`CallbacksRunOnce`, `CallersAreFound`, `CountsAreExact`. The number of changes of each kind inside of a call, `CleanUp` among them, and the depth
are constants, so the bounds of the run are no restriction. `CInv` adds to `IInv` what calls in
progress need (`Consistent`): every pointer, also of a detour that is off by now, leads to a callback that is later in the order of
priority and then of the time of enabling, or to the trampoline of its function (`GoesOn`); a frame is in its function's own wrapper, in a callback of
one of its detours or in its code (`SoundFrame`); and along a call frames come in that order (`Descends`). When `CleanUp` erases the entry of a function
that a call is inside of, the function is `cut`, and less is kept: a pointer may lead to any trampoline, freed or another's, and a frame in a wrapper has made its call already.
A cut function can be mapped and called anew meanwhile. `ReturnInv` and `CountInv` tie `s_WrapperCallerRetAddrs` and the counts to the open frames, cut or not.

**Patches** (`PatchedCode_proofs`, from `PatchShape` and `NoClash`):
`Invariance`, `PatchesCompose` (`EachByteHasItsOwner`) and `SavedBytes` (`SavedBytesAreOriginal`). The two
properties are inductive together with `TypeOK`: a byte of a patch's own mask is nobody else's (`MaskIsOwn`), so it
is the game's when the patch saves it.

**Executable memory** (`ExecMem_proofs`): `Invariance`, and from it
`MarksAreExact` (`HeldIsMarked`), `BothListsAgree` (`ListsAgree`) and `IsPool`, that `ExecMem` implements
`ChunkPool`. The invariant is the types with those two properties: a block is found and taken out of
the list by usage only because both lists agree, and a slot is free when the count says so only because the count
is that of the mask. `IsPool` maps the chunks in use to the marks of the masks and shows each step of the
allocator to be a step of the pool. `LeaksAreSeen` (`LeakCheck`) needs besides that a block that becomes empty
is unmapped in the same step; `PagesAreSpared` (`MapsOnlyWhenFull`, an action property) needs that `m_BlocksByUsage` is sorted after
every change of a count, since only its front is looked at.

**Virtual hooks** (`VirtualHook_proofs`, from `Tables`): `Invariance` of `VInv`, the conjunction of `Lists` (a hook that is on is in the
list of its word, once), `Words` (a hooked word points to its first hook and keeps what it held) and `Links` (the pointer of a hook on
the list is the next one, or the saved word); from it `CallsAreRight` (`CallsRunHooks`). `OldPointersLeadOut` (`OldPointersEnd`) ranks the pointers as for
detours. `KeepsOrder` is the refinement, `Spec => KeepsHookOrder`: a call followed pointer by pointer passes the callbacks of the word's list
(`LedByHooks`), so `Enable` appends one callback, which no other call runs, `Disable` takes one out, and `Load` leaves all calls
as they are. `HooksSitRight` (`SitsOnItsFunction`) has the hypothesis `EarlyHooks = {}`, which the mods of the repository meet
(section 3).

**Mods and ConVars** (`ModToggle_proofs`, from `Ordering` and `Callbacks`, which say that the lists of mods and ConVars name each once and
which callback a ConVar has, as the modelled mods declare them). What is pending in `todo` is what the call stack of the program
will still do, so every invariant speaks of it. They build on each other:

* `LoadAlways` (`LoadInv`): every mod is loaded once and unloaded once, and has pieces only in between; from it `FailedModsStayOff` and `NothingIsLeft`.
* `FollowAlways` (`LoadingInv`, `FollowInv`): nothing comes between a change of `m_bEnabled` and that of the pieces; from it `DetoursFollow`.
* `BalanceAlways` (`PromptInv`, `BalanceInv`): a pending toggle is right for the values the ConVars have by now, though it was decided before calls
  that changed them, and a mod that differs from its ConVars has one pending; from it `EnabledFollows`.
* `TraceAlways` (`ParseInv`, `TraceInv`): what is overridden has the user's value in its backup, and is put back before the mod that overrides is off or
  gone; from it `MissionsAreUndone`.
* `PatchesAlways` (`RefreshInv`, `PatchedInv`, `CurrentInv`, `CountInv`): a patch with a value its ConVar has lost has a refresh or removal pending. `CurrentInv` is about
  the patches and what they were last made from, `CountInv` about that and the ConVars: the size of the red team is the one its ConVar says or has a count pending (`RedInv`), and a ConVar
  whose value is not the counted one is `unseen` or has a count pending that nothing can take away (`VisibleInv`, `NeedsInv`). From it `PatchesStayCurrent`, and
  `PatchesFollow` where no ConVar refreshes the patches of a disabled mod. With such a ConVar the code does otherwise (`ToggleUnguarded`).

**Player packets** (`PackedPlayer_proofs`, from `Layout`). `NewIsGood`, `ChangeKeepsGood`, `AnswersAreExact`, `ChangesOnlyAdd` are about
`CachedChangeFrameList` alone: `Good` ties its two ticks and the last list to the ticks of the properties (what was changed at `m_LastSameTickNum`
or later is in the last list), so the fast path answers what a scan finds.
`SortedIsPermuted` says that sorting keeps the noted properties, `SearchIsComplete` that the first loop of `DoEncodePlayer` notes every property of a
changed word unless it gives up. With them:

* `OffsetsAlwaysFit` (`OffsetsFit`): offsets depend on lengths only (`SameOffsets`), and what changes a length is encoded whole.
* `DeltasAreWhole` (`DeltasAreComplete`): `Told` says of a list that two snapshots that differ in a property have it listed with a later tick than the
  first, and that a cached list is no younger than the first snapshot; one snapshot more keeps it (`ToldMore`).
* `PacketsStayCurrent` (`PacketsAreCurrent`): a property left out has words that were seen (`old`) as they were sent, and a word
  that is not compared changes only with an encoding of everything. It has two hypotheses on the game's send table, which is not in the repository:
  `AllListed` (no word has a third property: `AddOffsetToList` would put it in the place of the second) and `SharedAlike` (words that share a property share all:
  the skip at `sendprop_optimize.cpp:292` assumes it). With a table that breaks either, TLC finds a packet that is not current.

**VProf streaming** (`StreamAndBots_proofs`, from `Lengths`): `StreamInvariance` and from it `MessagesStayWhole` (`WholeUnlessTorn`),
for any length of messages, any queues and windows and any number of connections. A sequence of units `Flows` from one phase to another if
it can follow that many units of a message and leaves that many of the next. `VInv` says where the threads are (`ThreadInv`), that
the sender has whole messages in `queue` and `sendBuf` (`SentInv`), and, while nothing was torn, that every connection
carries whole messages but for the client's, which starts at the phase at which `m_Data` ends (`StreamInv`), and that `m_Data` goes on where
`buffer` has got to (`BufferInv`). `WholeUnlessTorn` is not inductive without it: that `RecvFrame` takes a header depends on what a thread on the
other side put into its queue several steps before. The parts about streams need `~torn`, since a connection that loses a part of a message leaves
the receiver inside of one for good (section 4). The lemmas say that streams can be taken apart and put together (`FlowsApart`,
`FlowsTogether`, `FlowsOn`), what hanging up and sending do to the connections (`HangupKeeps`, `TransmitKeeps`), and there is one per step
of the threads.

**Bots** (`StreamAndBots_proofs`, second part): `EntriesFollow` (`EntriesFollowBots`), with `BotTypeOK` as the invariant it is inductive
with; that a new bot's idle action cannot meet an old entry needs that the entry's bot still has that address.

Only model-checked: liveness under fairness (`QueueIsTaken`, `JoinAfterWait`, `RecvJoinReturns`), which is out of the
prover's reach. The three runs that expect a violation have no theorem.

## 6. Not modelled

* Address lookup (`AddrManager`, RTTI, byte scans, gamedata), links, stubs, properties: they bind names to addresses once, at
  start-up, from fixed tables; no state changes after that and nothing runs meanwhile. Whether a signature
  matches is a fact about the game's binary.
* Missions beyond their ConVars (waves, spawn points, point templates), rules, item attributes: detours around the game's population manager and
  entities, whose code is not in the repository. A model would have to invent the life times and the order of
  events that its properties would be about.
* What actions of bots do (paths, building, aiming), what a VProf message says, what the engine does with packets after they
  are made (culling per client, SourceTV), overlays and download lists.
* The Windows build (no traces there), `alloc_boost.cpp` (not built).
* `CFuncCallback`, `CFuncVProf`, `CFuncTrace`: they print, time or call back; their place in the list of
  traces is modelled.
* Which values `sig_cvar_autosave` writes to disk.
* Vendored libraries (`libs`, which is most of the repository's code) and `mvm-reversed`, of which `BotActions` uses the
  game's side of actions.

## 7. Plan

Done, in the order of importance: detours and their proofs, calls through them, executable memory and its
proofs, virtual hooks, patches and their proofs, mods with ConVars and missions, VProf streaming, player
packets and their proofs, bot actions and their proof; then the proofs of calls, virtual hooks, mods, packets and VProf
streaming, and the refinement of `HookOrder`.

What would be next: the two writers of the overlay mods, which share a channel as `VProfStream` does.
