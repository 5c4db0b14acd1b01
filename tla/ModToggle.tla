------------------------------ MODULE ModToggle ------------------------------
(***************************************************************************)
(* The life of the mods: CModManager, IMod and IToggleable (mod.cpp/h),    *)
(* the ConVars whose change callbacks toggle them, sig_cvar_reset          *)
(* (src/convar_restore.cpp) and the ConVar overrides of a mission          *)
(* (IPopOverride in src/mod/pop/popmgr_extensions.cpp).                    *)
(*                                                                         *)
(* A change of a ConVar calls back at once, the callback toggles a mod,    *)
(* the mod's OnDisable may change other ConVars, and so on: calls nest.    *)
(* The sequence todo holds what the nested calls still have to do, the     *)
(* innermost first; a command of the console or of the engine starts when  *)
(* it is empty.                                                            *)
(***************************************************************************)
EXTENDS Integers, Sequences

CONSTANTS
    Mod,
    ModOrder,     \* AutoList<IMod>::List()
    DefaultOn,    \* mods whose EnableByDefault returns true
    Var,          \* the ConVars of the mods; all have 0 as their default
    VarOrder,     \* s_ConVars of ConVar_Restore
    MaxValue,     \* bounds on the values of the ConVars
    Kind,         \* what the change callback of each ConVar does
    ModOf,        \* the mod it does it to
    Keeper,       \* the mod that overrides ConVars for a mission (PopMgr_Extensions)
    Overrides,    \* the ConVars it can override, in the order of PopState::Reset
    Counted,      \* the ConVars GetVisibleMaxPlayers computes a number from
    MaxSettings,  \* bound on the overrides one mission file makes
    OFF           \* a mod whose patches are not applied

Values(v) == 0 .. MaxValue[v]
Elems(s) == {s[k] : k \in DOMAIN s}

\* What the patches of the keeper hold: iGetTeamAssignmentOverride, and for
\* iPreClientUpdate the values GetVisibleMaxPlayers computed it from.
PlayerCounts == [red : Nat, visible : [Counted -> Nat]]

ASSUME Ordering ==
    /\ MaxValue \in [Var -> Nat \ {0}] /\ MaxSettings \in Nat
    /\ ModOrder \in Seq(Mod) /\ Elems(ModOrder) = Mod
    /\ \A j, k \in DOMAIN ModOrder : ModOrder[j] = ModOrder[k] => j = k
    /\ VarOrder \in Seq(Var) /\ Elems(VarOrder) = Var
    /\ Overrides \in Seq(Var)
    /\ Counted \subseteq Var
    /\ DefaultOn \subseteq Mod /\ Keeper \in Mod /\ OFF \notin Nat \cup PlayerCounts

\* The callbacks: "enable" and "force" toggle the mod, "refresh" takes the patches of the
\* keeper off and on, "credit" does both, and a "plain" ConVar has none.  No mod has two
\* ConVars of one other kind, Set_Credit_Team has one only and no player is counted by
\* it, and what a mission overrides does not switch the mod that overrides it.
ASSUME Callbacks ==
    /\ Kind \in [Var -> {"enable", "force", "refresh", "credit", "plain"}]
    /\ ModOf \in [Var -> Mod]
    /\ \A v, w \in Var :
         /\ ModOf[v] = ModOf[w] /\ Kind[v] \in {Kind[w], "credit"} /\ Kind[v] # "plain" => v = w
         /\ Kind[v] = "refresh" /\ Kind[w] = "refresh" => v = w
    /\ \A v \in Elems(Overrides) : ModOf[v] = Keeper => Kind[v] \in {"refresh", "plain"}
    /\ \A v \in Var : Kind[v] = "refresh" => ModOf[v] = Keeper /\ v \in Counted
    /\ \A v \in Var : Kind[v] = "credit" => ModOf[v] # Keeper /\ v \notin Counted

VARIABLES
    phase,      \* of the extension: "loading", "running", "unloading" or "gone"
    todo,       \* what the calls in progress have left to do
    value,      \* of each ConVar
    enabled,    \* mods whose m_bEnabled is set
    failed,     \* mods whose m_bFailed is set
    present,    \* mods whose patches, detours and hooks are loaded
    detours,    \* mods whose detours and virtual hooks are on
    patched,    \* what the patches of a mod were applied with, or OFF
    counts,     \* what iGetTeamAssignmentOverride and iPreClientUpdate were last set from
    unseen,     \* ConVars of Counted that changed since where the code does not count anew
    overridden, \* ConVars whose override has m_bOverridden set
    backup,     \* m_Backup of each override
    user        \* the value the user last gave each ConVar while it was not overridden

modVars == <<enabled, failed, present, detours, patched, counts>>
varVars == <<value, overridden, backup, user, unseen>>
vars    == <<phase, todo, modVars, varVars>>

\* A thing to do: the operation, what it is for and its value.
Task(op, x, n) == [op |-> op, for |-> x, to |-> n]
TasksFor(op, s, n) == [k \in DOMAIN s |-> Task(op, s[k], n)]

\* The red team has 6 players where sig_mvm_red_team_max_players is not set.
DefaultRed == 6

Init ==
    /\ phase = "loading"
    /\ todo = TasksFor("load", ModOrder, 0)
    /\ value = [v \in Var |-> 0] /\ user = value /\ backup = value
    /\ enabled = {} /\ failed = {} /\ present = {} /\ detours = {}
    /\ patched = [m \in Mod |-> OFF]
    /\ counts = [red |-> DefaultRed, visible |-> [v \in Counted |-> 0]]
    /\ overridden = {} /\ unseen = {}

-----------------------------------------------------------------------------
(***************************************************************************)
(* The steps of the nested calls.                                          *)
(***************************************************************************)

\* The innermost call is to do op for x; afterwards it does what is in the sequence
\* next, and what was left.
Doing(op, x) == todo # <<>> /\ Head(todo).op = op /\ Head(todo).for = x
Then(next)   == todo' = next \o Tail(todo)

\* PopState::Reset.
ResetOverrides == TasksFor("restore", Overrides, 0)

\* OnEnable or OnDisable of a mod, as far as it changes ConVars.
HookForgotten(m, on) == <<>>         \* mutant: the overrides stay
Hook(m, on) == IF m = Keeper /\ ~on THEN ResetOverrides ELSE <<>>

\* What the patches of m are applied with, where c is what the players were counted
\* from: the two variables of the keeper, or the ConVar of Set_Credit_Team.
PatchValue(m, c) ==
    LET vs == {v \in Var : ModOf[v] = m /\ Kind[v] = "credit"}
    IN  IF m = Keeper THEN c
        ELSE IF vs = {} THEN 0 ELSE value[CHOOSE v \in vs : TRUE]

\* ResetMaxRedTeamPlayers(n), or SetVisibleMaxPlayers if n is 0.
Recount(n) == [red     |-> IF n = 0 THEN counts.red ELSE n,
               visible |-> [v \in Counted |-> value[v]]]

\* v is set to n where the code does not count the players anew.
Overlook(v, n) ==
    unseen' = IF v \in Counted /\ counts.visible[v] # n THEN unseen \cup {v}
              ELSE unseen \ {v}

\* The value of the ConVar that enables m.
EnableValue(m, val) ==
    LET vs == {v \in Var : ModOf[v] = m /\ Kind[v] = "enable"}
    IN  IF vs = {} THEN 0 ELSE val[CHOOSE v \in vs : TRUE]

\* The change callback of v, after its value has become n.
Callback(v, n) ==
    LET m == ModOf[v] IN
    CASE Kind[v] = "enable"  -> <<Task("toggle", m, n)>>
      [] Kind[v] = "force"   -> <<Task("toggle", m, IF n # 0 THEN 1 ELSE EnableValue(m, value))>>
      [] Kind[v] = "refresh" -> <<Task("refresh", m, IF n > 0 THEN n ELSE DefaultRed)>>
      [] Kind[v] = "credit"  ->
           (IF m \in enabled /\ n # 0 THEN <<Task("refresh", m, 0)>> ELSE <<>>)
             \o <<Task("toggle", m, n)>>
      [] Kind[v] = "plain"   -> <<>>

\* ConVar::SetValue; the callback runs only when the value changes.
SetValueQuietly(v, n) ==             \* mutant: overrides do not call back
    /\ value' = [value EXCEPT ![v] = n]
    /\ Then(IF value[v] = n \/ v \in overridden THEN <<>> ELSE Callback(v, n))
SetValue(v, n) ==
    /\ value' = [value EXCEPT ![v] = n]
    /\ Then(IF value[v] = n THEN <<>> ELSE Callback(v, n))

\* A ConVar is set by the user.
SetByUser(v) ==
    /\ Doing("set", v)
    /\ SetValue(v, Head(todo).to)
    /\ user' = IF v \in overridden THEN user ELSE [user EXCEPT ![v] = Head(todo).to]
    /\ Overlook(v, Head(todo).to)
    /\ UNCHANGED <<phase, modVars, overridden, backup>>

\* IPopOverride::Set; the value that was there is kept.  After HumansMustJoinTeam red
\* the players are not counted.
Override(v) ==
    /\ Doing("override", v)
    /\ overridden' = overridden \cup {v}
    /\ backup' = IF v \in overridden THEN backup ELSE [backup EXCEPT ![v] = value[v]]
    /\ SetValue(v, Head(todo).to)
    /\ IF Kind[v] = "force" /\ Head(todo).to = 0 THEN Overlook(v, 0) ELSE UNCHANGED unseen
    /\ UNCHANGED <<phase, modVars, user>>

\* IPopOverride::Set behind a test of IsOverridden.
OverrideUnset(v) ==
    /\ Doing("override unset", v)
    /\ Then(IF v \in overridden THEN <<>> ELSE <<Task("override", v, Head(todo).to)>>)
    /\ UNCHANGED <<phase, modVars, varVars>>

\* IPopOverride::Reset; m_bOverridden is cleared when Restore has returned.
Restore(v) ==
    /\ Doing("restore", v)
    /\ Then(IF v \in overridden
            THEN <<Task("write", v, backup[v]), Task("unmark", v, 0)>> ELSE <<>>)
    /\ UNCHANGED <<phase, modVars, varVars>>
WriteBack(v) ==
    /\ Doing("write", v)
    /\ SetValue(v, Head(todo).to)
    /\ Overlook(v, Head(todo).to)
    /\ UNCHANGED <<phase, modVars, overridden, backup, user>>
Unmark(v) ==
    /\ Doing("unmark", v)
    /\ overridden' = overridden \ {v}
    /\ Then(<<>>)
    /\ UNCHANGED <<phase, modVars, value, backup, user, unseen>>

\* IMod::Toggle: OnEnable or OnDisable runs before m_bEnabled changes, and the
\* patches, detours and hooks follow.
Toggle(m) ==
    /\ Doing("toggle", m)
    /\ LET n == Head(todo).to
           on == n # 0
       IN  Then((IF (m \in enabled) = on THEN <<>> ELSE Hook(m, on) \o <<Task("flip", m, n)>>)
                  \o <<Task("pieces", m, n)>>)
    /\ UNCHANGED <<phase, modVars, varVars>>
Flip(m) ==
    /\ Doing("flip", m)
    /\ enabled' = IF Head(todo).to # 0 THEN enabled \cup {m} ELSE enabled \ {m}
    /\ Then(<<>>)
    /\ UNCHANGED <<phase, failed, present, detours, patched, counts, varVars>>

\* CanTogglePatches, CanToggleDetours and CanToggleVirtualHooks, of a mod that still
\* has some.
CanToggleFailed(m) == m \in present  \* mutant: m_bFailed is not looked at
CanToggleDeleted(m) == m \notin failed   \* mutant: also those of an unloaded mod
CanToggle(m) == m \in present \ failed

\* ToggleAllPatches, ToggleAllDetours and ToggleAllVirtualHooks.  Patches that are
\* on are left as they are.
TogglePieces(m) ==
    /\ Doing("pieces", m)
    /\ LET on == Head(todo).to # 0 IN
       /\ detours' = IF ~CanToggle(m) THEN detours
                     ELSE IF on THEN detours \cup {m} ELSE detours \ {m}
       /\ patched' = [patched EXCEPT ![m] =
            IF ~CanToggle(m) THEN @
            ELSE IF ~on THEN OFF
            ELSE IF @ = OFF THEN PatchValue(m, counts) ELSE @]
    /\ Then(<<>>)
    /\ UNCHANGED <<phase, enabled, failed, present, counts, varVars>>

\* ToggleAllPatches(false) and (true), whether the mod is enabled or not; the keeper
\* sets its variables first.
RefreshPatchesOn(m) ==               \* mutant: they are not taken off first
    /\ Doing("refresh", m)
    /\ LET now == IF m = Keeper THEN Recount(Head(todo).to) ELSE counts IN
       /\ counts' = now
       /\ patched' = [patched EXCEPT ![m] =
            IF CanToggle(m) /\ @ = OFF THEN PatchValue(m, now) ELSE @]
    /\ unseen' = IF m = Keeper THEN {} ELSE unseen
    /\ Then(<<>>)
    /\ UNCHANGED <<phase, enabled, failed, present, detours, value, overridden, backup, user>>
RefreshPatches(m) ==
    /\ Doing("refresh", m)
    /\ LET now == IF m = Keeper THEN Recount(Head(todo).to) ELSE counts IN
       /\ counts' = now
       /\ patched' = [patched EXCEPT ![m] = IF CanToggle(m) THEN PatchValue(m, now) ELSE @]
    /\ unseen' = IF m = Keeper THEN {} ELSE unseen
    /\ Then(<<>>)
    /\ UNCHANGED <<phase, enabled, failed, present, detours, value, overridden, backup, user>>

\* CModManager::Load of one mod: a patch, detour or hook may not be found, or OnLoad
\* may fail.
LoadMod(m) ==
    /\ Doing("load", m)
    /\ present' = present \cup {m}
    /\ failed' \in {failed, failed \cup {m}}
    /\ Then(IF m \in DefaultOn THEN <<Task("toggle", m, 1)>> ELSE <<>>)
    /\ UNCHANGED <<phase, enabled, detours, patched, counts, varVars>>

\* IMod::InvokeUnload: Disable, OnUnload, and the patches, detours and hooks are
\* taken off and deleted.
UnloadMod(m) ==
    /\ Doing("unload", m)
    /\ Then(<<Task("toggle", m, 0)>> \o Hook(m, FALSE) \o <<Task("delete", m, 0)>>)
    /\ UNCHANGED <<phase, modVars, varVars>>
DeletePieces(m) ==
    /\ Doing("delete", m)
    /\ present' = present \ {m}
    /\ detours' = detours \ {m}
    /\ patched' = [patched EXCEPT ![m] = OFF]
    /\ Then(<<>>)
    /\ UNCHANGED <<phase, enabled, failed, counts, varVars>>

-----------------------------------------------------------------------------
(***************************************************************************)
(* What starts them.                                                       *)
(***************************************************************************)

Idle == phase = "running" /\ todo = <<>>

\* SDK_OnLoad and SDK_OnUnload come to the end of the list of mods.
EndOfList ==
    /\ todo = <<>>
    /\ \/ phase = "loading" /\ phase' = "running"
       \/ phase = "unloading" /\ phase' = "gone"
    /\ UNCHANGED <<todo, modVars, varVars>>

\* The console, or sigsegv_convars.cfg, sets a ConVar.
Console(v) ==
    /\ Idle
    /\ \E n \in Values(v) : todo' = <<Task("set", v, n)>>
    /\ UNCHANGED <<phase, modVars, varVars>>

\* sig_cvar_reset.
ResetConVars ==
    /\ Idle
    /\ todo' = TasksFor("set", VarOrder, 0)
    /\ UNCHANGED <<phase, modVars, varVars>>

\* A setting of the mission file: HumansMustJoinTeam (the "force" ConVar), which for blue
\* sets AllowJoinTeamBlueMax and the credit team too, AllowJoinTeamBlue ("enable"),
\* AllowJoinTeamBlueMax ("plain"), SetCreditTeam or MaxRedPlayers.  The first three,
\* but for HumansMustJoinTeam red, end in SetVisibleMaxPlayers.
Unless(v) == Task("override unset", v, MaxValue[v])
SettingUncounted(v, n) == <<Task("override", v, n)>>   \* mutant: the players are not counted
Setting(v, n) ==
    LET toBlue    == Kind[v] = "force" /\ n # 0
        Also(kind) == IF toBlue /\ \E w \in Elems(Overrides) : Kind[w] = kind
                      THEN <<Unless(CHOOSE w \in Elems(Overrides) : Kind[w] = kind)>>
                      ELSE <<>>
    IN  <<Task("override", v, n)>> \o Also("plain") \o Also("credit")
          \o (IF toBlue \/ Kind[v] \in {"enable", "plain"} THEN <<Task("refresh", Keeper, 0)>>
              ELSE <<>>)

\* A mission file is parsed while the detour of CPopulationManager::Parse is on:
\* SetVisibleMaxPlayers, PopState::Reset and the settings of the file, each of which is
\* known when it is read.
ParseMission ==
    /\ Idle
    /\ Keeper \in detours
    /\ \E n \in 0 .. MaxSettings :
         todo' = <<Task("refresh", Keeper, 0)>> \o ResetOverrides
                   \o [k \in 1 .. n |-> Task("setting", Keeper, 0)]
    /\ UNCHANGED <<phase, modVars, varVars>>
ParseSetting(v) ==
    /\ Doing("setting", Keeper)
    /\ v \in Elems(Overrides)
    /\ \E n \in Values(v) : Then(Setting(v, n))
    /\ UNCHANGED <<phase, modVars, varVars>>

\* LevelInitPreEntity and LevelShutdownPostEntity of the mod, which it receives while
\* enabled, failed or not.
LevelChange ==
    /\ Idle
    /\ Keeper \in enabled
    /\ todo' = ResetOverrides
    /\ UNCHANGED <<phase, modVars, varVars>>

\* SDK_OnUnload reaches CModManager::Unload.
UnloadExtension ==
    /\ Idle
    /\ phase' = "unloading"
    /\ todo' = TasksFor("unload", ModOrder, 0)
    /\ UNCHANGED <<modVars, varVars>>

Next ==
    \/ \E v \in Var : \/ SetByUser(v) \/ Override(v) \/ OverrideUnset(v)
                      \/ Restore(v) \/ WriteBack(v) \/ Unmark(v) \/ ParseSetting(v)
    \/ \E m \in Mod : \/ Toggle(m) \/ Flip(m) \/ TogglePieces(m) \/ RefreshPatches(m)
                      \/ LoadMod(m) \/ UnloadMod(m) \/ DeletePieces(m)
    \/ EndOfList
    \/ \E v \in Var : Console(v)
    \/ ResetConVars \/ ParseMission \/ LevelChange \/ UnloadExtension

Spec == Init /\ [][Next]_vars

-----------------------------------------------------------------------------
(***************************************************************************)
(* Properties.                                                             *)
(***************************************************************************)

\* "mod is in FAILED state, so patches/detours will NOT be enabled!": whatever
\* toggles, refreshes or unloads a failed mod.
FailedStaysOff == \A m \in failed : m \notin detours /\ patched[m] = OFF

\* Between commands the detours that are on are those of the enabled mods
\* that loaded.
DetoursFollowMods == Idle => detours = enabled \ failed

\* ... and so are the patches.
PatchesFollowMods == Idle => {m \in Mod : patched[m] # OFF} = enabled \ failed

\* "refresh patches with the new convar value": patches that are on hold the value
\* their ConVar has now, also after a change from one nonzero value to another.  The keeper's
\* hold the size of the red team, and the number of visible players counted from the
\* values that its ConVars have now, but for those that changed where the code
\* does not count: by a command, by PopState::Reset or by HumansMustJoinTeam red.
MaxRed ==
    LET vs == {v \in Var : Kind[v] = "refresh" /\ value[v] > 0}
    IN  IF vs = {} THEN DefaultRed ELSE value[CHOOSE v \in vs : TRUE]
PatchesAreCurrent ==
    Idle => \A m \in Mod : patched[m] # OFF =>
      IF m = Keeper
      THEN /\ patched[m].red = MaxRed
           /\ \A v \in Counted \ unseen : patched[m].visible[v] = value[v]
      ELSE patched[m] = PatchValue(m, counts)

\* The ConVars that switch m.
Switches(m) == {v \in Var : ModOf[v] = m /\ Kind[v] \notin {"refresh", "plain"}}

\* Between commands a mod is enabled when its own ConVar is set, and only if one of
\* the ConVars that switch it is, or it is enabled by default: also when the
\* ConVar was changed by a mission, or by the OnDisable of another mod.
EnabledFollowsVars ==
    Idle => \A m \in Mod \ DefaultOn :
      /\ m \in enabled => \E v \in Switches(m) : value[v] # 0
      /\ \A v \in Switches(m) : Kind[v] # "force" /\ value[v] # 0 => m \in enabled

\* A mission leaves no trace: a ConVar that is not overridden has the value the user
\* gave it, and nothing is overridden once the mod that does so is disabled or gone.
MissionsLeaveNoTrace ==
    /\ phase \in {"running", "gone"} /\ todo = <<>> =>
         \A v \in Var \ overridden : value[v] = user[v]
    /\ Idle /\ overridden # {} => Keeper \in enabled \ failed
    /\ phase = "gone" => overridden = {}

\* The leak check of ~CExecMemManager, and the deletion of the patches: after
\* CModManager::Unload nothing is on, also if unloading one mod enabled another
\* that had been unloaded before.
NothingLeftBehind ==
    phase = "gone" => detours = {} /\ \A m \in Mod : patched[m] = OFF

=============================================================================
