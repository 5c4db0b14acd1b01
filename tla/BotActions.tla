------------------------------ MODULE BotActions ------------------------------
(***************************************************************************)
(* Actions that mods give to the engineer bots of the game, and what       *)
(* becomes of them when a bot dies, when a mod is toggled and when the     *)
(* extension is unloaded (IHotplugAction).  An engineer has an action      *)
(* CTFBotMvMEngineerIdle, which other actions suspend.  EngieBot_Wrangler  *)
(* suspends it for an action of its own; EngieBot_Dispensers keeps its     *)
(* actions beside it, in a map from the address of the idle action, and    *)
(* updates them itself, so the game never starts them and gives them no    *)
(* actor.                                                                  *)
(***************************************************************************)
EXTENDS Integers

CONSTANTS
    Bot,        \* engineer bots
    Builder,    \* those that are to build dispensers (ExtAttr BUILD_DISPENSER_SG or _TP)
    Addr,       \* addresses that idle actions are allocated at
    NULL

ASSUME BotAssumption == Builder \subseteq Bot /\ NULL \notin Bot \cup Addr

Mod == {"wrangler", "dispensers"}

VARIABLES
    loaded,     \* the extension is loaded
    on,         \* the mods that are enabled
    idle,       \* the idle action of each bot
    top,        \* what the bot does: its idle action, an action of the game or of a mod
                \* that suspends it, or an action of a mod that is still to be started
    build,      \* build_actions: the bot each entry was made for
    orphans     \* idle actions that died with an entry while the mod was disabled

botVars == <<loaded, on, idle, top, build, orphans>>

BotTypeOK ==
    /\ loaded \in BOOLEAN /\ on \subseteq Mod
    /\ idle \in [Bot -> Addr \cup {NULL}]
    /\ top \in [Bot -> {"idle", "game", "pending", "mod"}]
    /\ build \in [Addr -> Bot \cup {NULL}]
    /\ orphans \subseteq Addr

BotInit ==
    /\ loaded = TRUE /\ on = {}
    /\ idle = [b \in Bot |-> NULL] /\ top = [b \in Bot |-> "idle"]
    /\ build = [a \in Addr |-> NULL] /\ orphans = {}

-----------------------------------------------------------------------------
(***************************************************************************)
(* The life of an engineer.                                                *)
(***************************************************************************)

\* A bot becomes an engineer; its idle action can get the address of one deleted.
Spawn(b) ==
    /\ idle[b] = NULL
    /\ \E a \in Addr :
         /\ \A x \in Bot : idle[x] # a
         /\ idle' = [idle EXCEPT ![b] = a]
    /\ UNCHANGED <<loaded, on, top, build, orphans>>

\* The behaviors of these bots are deleted, and with them all their actions, also
\* those that are to be started.  The destructor of the idle action is detoured by
\* EngieBot_Dispensers.
Delete(bots, enabled) ==
    LET dead == {idle[b] : b \in bots} IN
    /\ idle' = [b \in Bot |-> IF b \in bots THEN NULL ELSE idle[b]]
    /\ top' = [b \in Bot |-> IF b \in bots THEN "idle" ELSE top[b]]
    /\ build' = [a \in Addr |->
                   IF a \in dead /\ "dispensers" \in enabled THEN NULL ELSE build[a]]
    /\ orphans' = IF "dispensers" \in on THEN orphans \ dead
                  ELSE orphans \cup {a \in Addr : a \in dead /\ build[a] # NULL}

\* The bot leaves the game, changes its class or is reset.
Die(b) ==
    /\ idle[b] # NULL
    /\ Delete({b}, on)
    /\ UNCHANGED <<loaded, on>>

\* What the detour of EngieBot_Dispensers calls: the game's Update, which goes on or
\* suspends the idle action, or the detour of the other mod, when that is the inner one.
\* In the place of an action that builds a sentry gun or teleporter it puts an entry.
InnerUpdate(b, kept) ==
    \/ UNCHANGED top /\ build' = kept
    \/ top' = [top EXCEPT ![b] = "game"] /\ build' = kept
    \/ /\ "wrangler" \in on
       /\ top' = [top EXCEPT ![b] = "mod"] /\ build' = kept
    \/ /\ "dispensers" \in on /\ b \in Builder
       /\ UNCHANGED top /\ build' = [kept EXCEPT ![idle[b]] = b]

\* Update of the idle action with the detours of both mods, in either order.  While the
\* action of an entry goes on, EngieBot_Dispensers calls nothing else.
UpdateIdle(b) ==
    LET a == idle[b]
        mine == "dispensers" \in on /\ build[a] # NULL
    IN
    /\ a # NULL /\ top[b] = "idle"
    /\ \/ \* the detour of EngieBot_Wrangler, when that is the outer one
          /\ "wrangler" \in on
          /\ top' = [top EXCEPT ![b] = "mod"]
          /\ UNCHANGED <<build, orphans>>
       \/ \* the action of the entry is done
          /\ mine
          /\ InnerUpdate(b, [build EXCEPT ![a] = NULL])
          /\ orphans' = orphans \ {a}
       \/ /\ ~mine
          /\ InnerUpdate(b, build)
          /\ UNCHANGED orphans
    /\ UNCHANGED <<loaded, on, idle>>

\* The bot is commanded to "wrangle": the action is created now and started with the
\* next update.  Bots whose idle action is buried under another one are left out: that
\* action passes the event on, and the idle one could be left with a pending action too.
Command(b) ==
    /\ "wrangler" \in on /\ idle[b] # NULL /\ top[b] = "idle"
    /\ top' = [top EXCEPT ![b] = "pending"]
    /\ UNCHANGED <<loaded, on, idle, build, orphans>>

\* The update that starts it, which gives it its actor; it can be done at once.
Start(b) ==
    /\ loaded /\ top[b] = "pending"
    /\ \E t \in {"mod", "idle"} : top' = [top EXCEPT ![b] = t]
    /\ UNCHANGED <<loaded, on, idle, build, orphans>>

\* The action above the idle action is done, which is resumed.
Done(b) ==
    /\ top[b] = "game" \/ (loaded /\ top[b] = "mod")
    /\ top' = [top EXCEPT ![b] = "idle"]
    /\ UNCHANGED <<loaded, on, idle, build, orphans>>

-----------------------------------------------------------------------------
(***************************************************************************)
(* Mods and the extension.                                                 *)
(***************************************************************************)

ToggleMod(m) ==
    /\ loaded
    /\ on' = IF m \in on THEN on \ {m} ELSE on \cup {m}
    /\ UNCHANGED <<loaded, idle, top, build, orphans>>

\* The bots that UnloadAll finds: only actions that were started have an actor, or a
\* behavior with one.
Actors == {b \in Bot : top[b] = "mod"}

\* IHotplugActionBase::UnloadAll resets the bots it finds, then the mods are unloaded.
UnloadExtensionModsFirst ==                    \* mutant: the mods are unloaded first
    /\ loaded /\ loaded' = FALSE
    /\ Delete(Actors, {}) /\ on' = {}
UnloadExtension ==
    /\ loaded /\ loaded' = FALSE
    /\ Delete(Actors, on) /\ on' = {}

BotNext ==
    \/ \E b \in Bot : Spawn(b) \/ Die(b) \/ UpdateIdle(b) \/ Command(b) \/ Start(b) \/ Done(b)
    \/ \E m \in Mod : ToggleMod(m)
    \/ UnloadExtension

BotSpec == BotInit /\ [][BotNext]_botVars

-----------------------------------------------------------------------------
(***************************************************************************)
(* Properties.                                                             *)
(***************************************************************************)

\* The actions of mods that exist: AutoList<IHotplugAction<CTFBot>>::List().
Hotplug ==
    {<<"build", a>> : a \in {x \in Addr : build[x] # NULL}}
      \cup {<<"top", b>> : b \in {x \in Bot : top[x] \in {"pending", "mod"}}}

\* An entry of build_actions belongs to the idle action of the bot it was made for,
\* and is gone with it, also when UnloadAll resets the bot: no other bot ever builds
\* for it.  Excepted are entries that were orphaned while the mod was disabled, when
\* no detour saw the idle action die.
EntriesFollowBots ==
    \A a \in Addr : build[a] # NULL /\ a \notin orphans => idle[build[a]] = a

\* UnloadAll leaves no action of a mod behind, whose code is about to go: what the
\* assert at its end says.
NoneIsLeft == ~loaded => Hotplug = {}
=============================================================================
