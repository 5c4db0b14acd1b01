-------------------------- MODULE ModToggle_proofs --------------------------
(***************************************************************************)
(* Proofs about ModToggle, for any mods, ConVars, values and settings of a *)
(* mission that the assumptions Ordering and Callbacks allow.              *)
(*                                                                         *)
(* The properties speak of the time between two commands, when todo is     *)
(* empty.  The invariants say what they become while calls are nested:     *)
(* which task in todo makes good each difference there is at the moment.   *)
(***************************************************************************)
EXTENDS ModToggle, SequenceTheorems, TLAPS

Overridable == Elems(Overrides)
ModTasks  == [op : {"load", "unload", "delete", "toggle", "flip", "pieces", "refresh",
                    "setting"}, for : Mod, to : Nat]
VarTasks  == [op : {"set"}, for : Var, to : Nat]
OverTasks == [op : {"override", "override unset", "restore", "write", "unmark"},
              for : Overridable, to : Nat]
AnyTask   == ModTasks \cup VarTasks \cup OverTasks

TypeInv ==
    /\ phase \in {"loading", "running", "unloading", "gone"}
    /\ todo \in Seq(AnyTask)
    /\ value \in [Var -> Nat] /\ backup \in [Var -> Nat] /\ user \in [Var -> Nat]
    /\ enabled \subseteq Mod /\ failed \subseteq Mod
    /\ present \subseteq Mod /\ detours \subseteq Mod
    /\ patched \in [Mod -> Nat \cup PlayerCounts \cup {OFF}]
    /\ counts \in PlayerCounts
    /\ overridden \subseteq Overridable /\ unseen \subseteq Counted

\* The k-th thing to do is op for x.
At(k, op, x) == todo[k].op = op /\ todo[k].for = x
Pending(op, x) == \E k \in DOMAIN todo : At(k, op, x)

\* The pieces: which are loaded, and that those of failed or unloaded mods are off.
LoadInv ==
    /\ \A k \in DOMAIN todo : todo[k].op = "load" =>
         phase = "loading" /\ todo[k].for \notin present \cup failed
    /\ \A j, k \in DOMAIN todo :
         todo[j].op = "load" /\ todo[k].op = "load" /\ todo[j].for = todo[k].for => j = k
    /\ \A m \in Mod : m \in failed \/ m \notin present => m \notin detours /\ patched[m] = OFF
    /\ phase = "loading" => \A m \in Mod \ present : Pending("load", m)
    /\ phase = "running" => present = Mod
    /\ \A k \in DOMAIN todo : todo[k].op \in {"unload", "delete"} => phase = "unloading"
    /\ phase = "unloading" => \A m \in present : Pending("unload", m) \/ Pending("delete", m)
    /\ phase = "gone" => present = {}
    /\ phase = "gone" => todo = <<>>

\* While the mods are loaded nothing else happens than that some are enabled by default.
LoadingInv == phase = "loading" =>
    /\ \A k \in DOMAIN todo : todo[k].op # "load" =>
         /\ todo[k].op \in {"toggle", "flip", "pieces"}
         /\ todo[k].for \in present \cap DefaultOn /\ todo[k].to # 0
    /\ enabled \subseteq present
    /\ enabled \subseteq DefaultOn
    /\ overridden = {}
    /\ \A v \in Var : value[v] = 0

\* Each change of m_bEnabled is followed at once by that of the pieces, and the
\* detours are those of the enabled mods but for one whose turn it is.
FollowInv ==
    /\ \A k \in DOMAIN todo : todo[k].op = "flip" =>
         /\ k + 1 \in DOMAIN todo
         /\ At(k + 1, "pieces", todo[k].for) /\ todo[k+1].to = todo[k].to
    /\ \A k \in DOMAIN todo : todo[k].op = "pieces" =>
         IF k = 1 THEN todo[k].for \in enabled <=> todo[k].to # 0
         ELSE todo[k-1].op = "flip" /\ todo[k-1].for = todo[k].for
    /\ phase \in {"loading", "running"} => \A m \in Mod :
         (m \in detours <=> m \in enabled \ failed) \/ (todo # <<>> /\ At(1, "pieces", m))

\* No ConVar refreshes the patches of m at any time.
Steady(m) == \A v \in Var : Kind[v] = "refresh" => ModOf[v] # m

\* What a mission's settings do to the mods.
InParse(k) == \/ todo[k].op \in {"setting", "override", "override unset"}
              \/ (At(k, "refresh", Keeper) /\ Steady(Keeper))
ParseInv == (\E k \in DOMAIN todo : InParse(k)) =>
    /\ phase = "running"
    /\ Keeper \in enabled \ failed
    /\ \A k \in DOMAIN todo :
         /\ todo[k].op # "set"
         /\ todo[k].op \in {"toggle", "flip", "pieces"} => todo[k].for # Keeper

\* A mod is toggled at once, but that the overrides are reset before the keeper is off.
PromptInv == \A k \in DOMAIN todo : todo[k].op \in {"toggle", "flip"} =>
    IF todo[k].for = Keeper
    THEN \A j \in 1 .. k : todo[j].op \notin {"set", "setting", "override", "override unset"}
    ELSE k = 1 \/ (k = 2 /\ At(1, "refresh", todo[k].for))

\* A toggle of m to n is what the ConVars of m now ask for; one that is not enabled as
\* they ask has a toggle pending.
Right(m, n) ==
    /\ n # 0 => \E v \in Switches(m) : value[v] # 0
    /\ n = 0 => \A v \in Switches(m) : Kind[v] # "force" => value[v] = 0
BalanceInv == phase = "running" =>
    \A m \in Mod \ DefaultOn :
      /\ \A k \in DOMAIN todo :
           todo[k].op \in {"toggle", "flip"} /\ todo[k].for = m => Right(m, todo[k].to)
      /\ \/ Right(m, IF m \in enabled THEN 1 ELSE 0)
         \/ Pending("toggle", m) \/ Pending("flip", m)

\* What is overridden has the user's value in its backup, and all else has it itself; a
\* value that is put back is unmarked after calls that change no other, and before
\* the keeper is off, or gone, whatever is overridden is put back.
Quiet(t) == t.op \in {"toggle", "flip", "pieces", "refresh"}
              /\ (t.op \in {"toggle", "flip"} => t.for # Keeper)
TraceInv ==
    /\ \A v \in Var : IF v \in overridden THEN backup[v] = user[v] ELSE value[v] = user[v]
    /\ \A k \in DOMAIN todo : todo[k].op = "write" =>
         /\ k = 1 /\ 2 \in DOMAIN todo /\ At(2, "unmark", todo[1].for)
         /\ todo[1].for \in overridden /\ todo[1].to = user[todo[1].for]
    /\ \A k \in DOMAIN todo : todo[k].op = "unmark" =>
         \/ k = 2 /\ At(1, "write", todo[2].for)
         \/ /\ \A j \in 1 .. k-1 : Quiet(todo[j])
            /\ value[todo[k].for] = user[todo[k].for]
    /\ overridden # {} => Keeper \notin failed
    /\ phase = "running" /\ overridden # {} => Keeper \in enabled
    /\ phase = "running" => \A k \in DOMAIN todo : At(k, "flip", Keeper) /\ todo[k].to = 0 =>
         \A v \in overridden : \E j \in 1 .. k-1 : At(j, "restore", v) \/ At(j, "unmark", v)
    /\ phase = "unloading" => \A v \in overridden :
         Pending("unload", Keeper) \/ Pending("restore", v) \/ Pending("unmark", v)
    /\ phase = "gone" => overridden = {}

\* Patches on with a value that their ConVar, or the keeper's variables, no longer have,
\* and what will answer for it.
Stale(m) == patched[m] # OFF /\ patched[m] # PatchValue(m, counts)
Answers(t, m) == t.for = m /\ (t.op = "refresh" \/ (t.op \in {"toggle", "pieces"} /\ t.to = 0))
CurrentInv == phase \in {"loading", "running"} =>
    \A m \in Mod : Stale(m) => \E k \in DOMAIN todo : Answers(todo[k], m)

\* The red team is as large as its ConVar says, or about to be made so; of a ConVar that
\* changed, another count of the players is to come, unless the code overlooks it, and
\* the setting that is to change one is followed by such a count.
NeedsCount(t) ==
    /\ t.op \in {"override", "override unset"}
    /\ t.for \in Counted /\ Kind[t.for] # "refresh"
    /\ ~(Kind[t.for] = "force" /\ t.to = 0)
RedInv ==
    /\ counts.red # MaxRed => todo # <<>> /\ At(1, "refresh", Keeper) /\ todo[1].to = MaxRed
    /\ \A k \in DOMAIN todo :
         At(k, "refresh", Keeper) /\ todo[k].to # 0 => k = 1 /\ todo[k].to = MaxRed
VisibleInv == \A v \in Counted \ unseen :
    counts.visible[v] = value[v] \/ Pending("refresh", Keeper)
NeedsInv == \A k \in DOMAIN todo : NeedsCount(todo[k]) =>
    \E j \in DOMAIN todo : j > k /\ At(j, "refresh", Keeper)
CountInv == RedInv /\ VisibleInv /\ NeedsInv

\* A mod whose patches no ConVar refreshes at any time: only Set_Credit_Team refreshes
\* them, when the mod is enabled and at once, or the keeper its own, during a mission.
RefreshInv == \A k \in DOMAIN todo :
    todo[k].op = "refresh" /\ todo[k].for # Keeper /\ Steady(todo[k].for)
      => k = 1 /\ todo[k].for \in enabled
PatchedInv == phase \in {"loading", "running"} => \A m \in Mod : Steady(m) =>
    (patched[m] # OFF <=> m \in enabled \ failed) \/ (todo # <<>> /\ At(1, "pieces", m))

-----------------------------------------------------------------------------

\* todo' is next and then what is left of todo, place by place.
Went(next) ==
    /\ Len(todo) \in Nat \ {0} /\ Len(next) \in Nat
    /\ DOMAIN todo = 1 .. Len(todo)
    /\ DOMAIN todo' = 1 .. (Len(next) + Len(todo) - 1)
    /\ \A k \in 1 .. Len(next) : todo'[k] = next[k]
    /\ \A k \in 2 .. Len(todo) : todo'[k - 1 + Len(next)] = todo[k]
    /\ \A k \in Len(next) + 1 .. Len(next) + Len(todo) - 1 : todo'[k] = todo[k - Len(next) + 1]

LEMMA Concats ==
    ASSUME NEW T, NEW s \in Seq(T), NEW t \in Seq(T), t # <<>>
    PROVE  LET u == s \o Tail(t) IN
           /\ u \in Seq(T) /\ Len(u) = Len(s) + Len(t) - 1
           /\ Len(s) \in Nat /\ Len(t) \in Nat \ {0}
           /\ \A k \in 1 .. Len(s) : u[k] = s[k]
           /\ \A k \in Len(s) + 1 .. Len(s) + Len(t) - 1 : u[k] = t[k - Len(s) + 1]
<1>1. Len(t) \in Nat \ {0} /\ Len(s) \in Nat
  OBVIOUS
<1>2. PICK r : r = Tail(t)
  OBVIOUS
<1>3. /\ r \in Seq(T) /\ Len(r) = Len(t) - 1
      /\ \A k \in 1 .. Len(t) - 1 : r[k] = t[k + 1]
  BY <1>1, <1>2
<1>4. PICK u : u = s \o r
  OBVIOUS
<1>5. u \in Seq(T) /\ Len(u) = Len(s) + Len(r)
  <2>1. r \in Seq(T)
    BY <1>3
  <2> QED BY <1>4, <2>1
<1>6. \A k \in 1 .. Len(s) : u[k] = s[k]
  BY <1>3, <1>4
<1>7. ASSUME NEW k \in Len(s) + 1 .. Len(s) + Len(t) - 1
      PROVE  u[k] = t[k - Len(s) + 1]
  <2>1. k - Len(s) \in 1 .. Len(t) - 1
    BY <1>1
  <2>2. u[k] = r[k - Len(s)]
    BY <1>1, <1>3, <1>4
  <2> QED BY <1>3, <2>1, <2>2
<1> QED BY <1>1, <1>2, <1>3, <1>4, <1>5, <1>6, <1>7

LEMMA Pairs ==
    ASSUME NEW r, NEW t
    PROVE  <<r>> \o <<t>> = <<r, t>>
<1>1. <<r>> \in Seq({r, t}) /\ <<t>> \in Seq({r, t}) /\ <<r, t>> \in Seq({r, t})
  OBVIOUS
<1>2. PICK u : u = <<r>> \o <<t>>
  OBVIOUS
<1>3. u \in Seq({r, t}) /\ Len(u) = 2 /\ u[1] = r /\ u[2] = t
  BY <1>1, <1>2
<1>4. PICK w : w = <<r, t>>
  OBVIOUS
<1>5. w \in Seq({r, t}) /\ Len(w) = 2 /\ w[1] = r /\ w[2] = t
  BY <1>1, <1>4
<1>6. \A k \in 1 .. Len(u) : u[k] = w[k]
  BY <1>3, <1>5
<1> QED BY <1>2, <1>3, <1>4, <1>5, <1>6, SeqEqual

LEMMA Single ==
    ASSUME NEW T, NEW u \in T
    PROVE  <<u>> \in Seq(T) /\ Len(<<u>>) = 1 /\ \A k \in 1 .. Len(<<u>>) : <<u>>[k] = u
<1>1. <<u>> \in Seq(T) /\ Len(<<u>>) = 1 /\ <<u>>[1] = u
  OBVIOUS
<1>2. \A k \in 1 .. 1 : k = 1
  OBVIOUS
<1> QED BY <1>1, <1>2

LEMMA Nothing ==
    ASSUME NEW T, NEW P, P = <<>>
    PROVE  P \in Seq(T) /\ Len(P) = 0 /\ 1 .. Len(P) = {}
OBVIOUS

LEMMA ThreeParts ==
    ASSUME NEW T, NEW a \in T, NEW b \in Seq(T), NEW c \in Seq(T)
    PROVE  LET g == (<<a>> \o b) \o c IN
           /\ g \in Seq(T) /\ Len(g) = 1 + Len(b) + Len(c)
           /\ Len(b) \in Nat /\ Len(c) \in Nat
           /\ g[1] = a
           /\ \A k \in 1 .. Len(b) : g[k + 1] = b[k]
           /\ \A k \in 1 .. Len(c) : g[k + Len(b) + 1] = c[k]
           /\ \A k \in 2 .. Len(g) : \/ \E j \in 1 .. Len(b) : k = j + 1 /\ g[k] = b[j]
                                    \/ \E j \in 1 .. Len(c) : k = j + Len(b) + 1 /\ g[k] = c[j]
<1>1. PICK h : h = <<a>> \o b
  OBVIOUS
<1>2. PICK g : g = h \o c
  OBVIOUS
<1>3. PICK m \in Nat : m = Len(b)
  OBVIOUS
<1>4. PICK n \in Nat : n = Len(c)
  OBVIOUS
<1>5. <<a>> \in Seq(T) /\ Len(<<a>>) = 1 /\ <<a>>[1] = a
  OBVIOUS
<1>6. /\ h \in Seq(T) /\ Len(h) = 1 + m
      /\ \A k \in 1 .. 1 + m : h[k] = IF k <= 1 THEN a ELSE b[k - 1]
  <2>1. /\ h \in Seq(T) /\ Len(h) = Len(<<a>>) + Len(b)
        /\ \A k \in 1 .. Len(<<a>>) + Len(b) :
             h[k] = IF k <= Len(<<a>>) THEN <<a>>[k] ELSE b[k - Len(<<a>>)]
    BY <1>1, <1>5, ConcatProperties
  <2>2. \A k \in 1 .. 1 + m : h[k] = IF k <= 1 THEN <<a>>[k] ELSE b[k - 1]
    BY <1>3, <1>5, <2>1
  <2>3. \A k \in 1 .. 1 + m : k <= 1 => k = 1
    OBVIOUS
  <2> QED BY <1>3, <1>5, <2>1, <2>2, <2>3
<1>7. /\ g \in Seq(T) /\ Len(g) = 1 + m + n
      /\ \A k \in 1 .. 1 + m + n : g[k] = IF k <= 1 + m THEN h[k] ELSE c[k - (1 + m)]
  <2>1. /\ g \in Seq(T) /\ Len(g) = Len(h) + Len(c)
        /\ \A k \in 1 .. Len(h) + Len(c) : g[k] = IF k <= Len(h) THEN h[k] ELSE c[k - Len(h)]
    BY <1>2, <1>6, ConcatProperties
  <2> QED BY <1>4, <1>6, <2>1
<1>8. g[1] = a
  BY <1>6, <1>7
<1>9. ASSUME NEW k \in 1 .. m PROVE g[k + 1] = b[k]
  <2>1. k + 1 \in 1 .. 1 + m /\ ~(k + 1 <= 1) /\ (k + 1) - 1 = k
    OBVIOUS
  <2>2. k + 1 \in 1 .. 1 + m + n /\ k + 1 <= 1 + m
    OBVIOUS
  <2> QED BY <1>6, <1>7, <2>1, <2>2
<1>10. ASSUME NEW k \in 1 .. n PROVE g[k + m + 1] = c[k]
  <2>1. k + m + 1 \in 1 .. 1 + m + n /\ ~(k + m + 1 <= 1 + m) /\ (k + m + 1) - (1 + m) = k
    OBVIOUS
  <2> QED BY <1>7, <2>1
<1>11. ASSUME NEW k \in 2 .. 1 + m + n
       PROVE  \/ \E j \in 1 .. m : k = j + 1 /\ g[k] = b[j]
              \/ \E j \in 1 .. n : k = j + m + 1 /\ g[k] = c[j]
  <2>1. CASE k <= 1 + m
    <3>1. k - 1 \in 1 .. m /\ k = (k - 1) + 1
      BY <2>1
    <3> QED BY <1>9, <3>1
  <2>2. CASE ~(k <= 1 + m)
    <3>1. k - (m + 1) \in 1 .. n /\ k = (k - (m + 1)) + m + 1
      BY <2>2
    <3> QED BY <1>10, <3>1
  <2> QED BY <2>1, <2>2
<1> QED BY <1>1, <1>2, <1>3, <1>4, <1>7, <1>8, <1>9, <1>10, <1>11

LEMMA Continues ==
    ASSUME todo \in Seq(AnyTask), todo # <<>>, NEW next, next \in Seq(AnyTask), Then(next)
    PROVE  /\ todo' \in Seq(AnyTask)
           /\ Went(next)
<1>1. todo' = next \o Tail(todo)
  BY DEF Then
<1>2. PICK u : u = next \o Tail(todo)
  OBVIOUS
<1>3. /\ u \in Seq(AnyTask) /\ Len(u) = Len(next) + Len(todo) - 1
      /\ Len(next) \in Nat /\ Len(todo) \in Nat \ {0}
      /\ \A k \in 1 .. Len(next) : u[k] = next[k]
      /\ \A k \in Len(next) + 1 .. Len(next) + Len(todo) - 1 : u[k] = todo[k - Len(next) + 1]
  BY <1>2, Concats
<1>4. \A k \in 2 .. Len(todo) : u[k - 1 + Len(next)] = todo[k]
  <2>1. TAKE k \in 2 .. Len(todo)
  <2>2. Len(next) \in Int /\ k \in Int
    BY <1>3
  <2>3. k - 1 + Len(next) \in Int
    BY <2>2
  <2>4. PICK j \in Int : j = k - 1 + Len(next)
    BY <2>3
  <2>5. j \in Len(next) + 1 .. Len(next) + Len(todo) - 1 /\ j - Len(next) + 1 = k
    BY <1>3, <2>4
  <2> QED BY <1>3, <2>4, <2>5
<1>5. DOMAIN todo = 1 .. Len(todo) /\ DOMAIN u = 1 .. (Len(next) + Len(todo) - 1)
  BY <1>3
<1>6. u = todo'
  BY <1>1, <1>2
<1> QED BY <1>3, <1>4, <1>5, <1>6 DEF Went

LEMMA Fields ==
    \A op, x, n : Task(op, x, n).op = op /\ Task(op, x, n).for = x /\ Task(op, x, n).to = n
BY DEF Task

LEMMA TasksForFacts ==
    ASSUME NEW S, NEW s \in Seq(S), NEW op, NEW n,
           \A x \in S : Task(op, x, n) \in AnyTask
    PROVE  /\ TasksFor(op, s, n) \in Seq(AnyTask)
           /\ Len(TasksFor(op, s, n)) = Len(s)
           /\ \A k \in 1 .. Len(s) : TasksFor(op, s, n)[k] = Task(op, s[k], n)
<1>1. PICK u : u = TasksFor(op, s, n)
  OBVIOUS
<1>2. DOMAIN s = 1 .. Len(s) /\ Len(s) \in Nat
  OBVIOUS
<1>3. u = [k \in 1 .. Len(s) |-> Task(op, s[k], n)]
  BY <1>1, <1>2 DEF TasksFor
<1>4. \A k \in 1 .. Len(s) : Task(op, s[k], n) \in AnyTask
  OBVIOUS
<1>5. u \in Seq(AnyTask) /\ Len(u) = Len(s)
  BY <1>2, <1>3, <1>4
<1>6. \A k \in 1 .. Len(s) : u[k] = Task(op, s[k], n)
  BY <1>3
<1> QED BY <1>1, <1>5, <1>6

LEMMA OverridesFacts ==
    /\ Overrides \in Seq(Overridable) /\ Overridable \subseteq Var
    /\ \A v \in Overridable : \E k \in 1 .. Len(Overrides) : Overrides[k] = v
<1>1. Overrides \in Seq(Var)
  BY Ordering
<1>2. \A k \in 1 .. Len(Overrides) : Overrides[k] \in Overridable
  BY <1>1 DEF Overridable, Elems
<1> QED BY <1>1, <1>2 DEF Overridable, Elems

\* What SetValue may lead to.
LEMMA SetLeads ==
    ASSUME TypeInv, todo # <<>>, NEW v \in Var, NEW n \in Nat, SetValue(v, n)
    PROVE  /\ value' \in [Var -> Nat]
           /\ todo' \in Seq(AnyTask)
           /\ \/ (value[v] = n \/ Kind[v] = "plain") /\ Went(<<>>)
              \/ /\ value[v] # n /\ Kind[v] = "refresh"
                 /\ Went(<<Task("refresh", ModOf[v], IF n > 0 THEN n ELSE DefaultRed)>>)
              \/ /\ value[v] # n /\ Kind[v] \notin {"refresh", "plain"}
                 /\ \E t \in Nat :
                      /\ Went(<<Task("toggle", ModOf[v], t)>>)
                      /\ Kind[v] # "force" => t = n
                      /\ Kind[v] = "force" => t = IF n # 0 THEN 1 ELSE EnableValue(ModOf[v], value)
                 /\ Kind[v] = "credit" => ~(ModOf[v] \in enabled /\ n # 0)
              \/ /\ value[v] # n /\ Kind[v] = "credit" /\ ModOf[v] \in enabled /\ n # 0
                 /\ Went(<<Task("refresh", ModOf[v], 0), Task("toggle", ModOf[v], n)>>)
<1> DEFINE m == ModOf[v]
<1>0. m \in Mod /\ Kind[v] \in {"enable", "force", "refresh", "credit", "plain"}
  BY Callbacks
<1>1. value' \in [Var -> Nat]
  BY DEF SetValue, TypeInv
<1>2. \A t \in Nat : Task("toggle", m, t) \in AnyTask /\ Task("refresh", m, t) \in AnyTask
  BY <1>0 DEF Task, AnyTask, ModTasks
<1>3. EnableValue(m, value) \in Nat
  BY DEF TypeInv, EnableValue
<1>4. todo \in Seq(AnyTask)
  BY DEF TypeInv
<1>5. CASE value[v] = n
  <2>1. Then(<<>>)
    BY <1>5 DEF SetValue
  <2>2. <<>> \in Seq(AnyTask)
    OBVIOUS
  <2> QED BY <1>1, <1>4, <1>5, <2>1, <2>2, Continues
<1>6. CASE value[v] # n
  <2>1. Then(Callback(v, n))
    BY <1>6 DEF SetValue
  <2>2. CASE Kind[v] = "refresh"
    <3> DEFINE t == IF n > 0 THEN n ELSE DefaultRed
    <3>1. Then(<<Task("refresh", m, t)>>)
      BY <2>1, <2>2 DEF Callback
    <3>2. t \in Nat
      BY DEF DefaultRed
    <3> HIDE DEF t
    <3>3. <<Task("refresh", m, t)>> \in Seq(AnyTask)
      BY <1>2, <3>2
    <3>4. /\ todo' \in Seq(AnyTask)
          /\ Went(<<Task("refresh", m, t)>>)
      BY <1>4, <3>1, <3>3, Continues
    <3> QED BY <1>1, <1>6, <2>2, <3>4 DEF t
  <2>3. CASE Kind[v] = "enable"
    <3>1. Then(<<Task("toggle", m, n)>>)
      BY <2>1, <2>3 DEF Callback
    <3>2. <<Task("toggle", m, n)>> \in Seq(AnyTask)
      BY <1>2
    <3>3. /\ todo' \in Seq(AnyTask)
          /\ Went(<<Task("toggle", m, n)>>)
      BY <1>4, <3>1, <3>2, Continues
    <3> QED BY <1>1, <1>6, <2>3, <3>3
  <2>4. CASE Kind[v] = "force"
    <3> DEFINE t == IF n # 0 THEN 1 ELSE EnableValue(m, value)
    <3>1. Then(<<Task("toggle", m, t)>>)
      BY <2>1, <2>4 DEF Callback
    <3>2. t \in Nat
      BY <1>3
    <3> HIDE DEF t
    <3>3. <<Task("toggle", m, t)>> \in Seq(AnyTask)
      BY <1>2, <3>2
    <3>4. /\ todo' \in Seq(AnyTask)
          /\ Went(<<Task("toggle", m, t)>>)
      BY <1>4, <3>1, <3>3, Continues
    <3> QED BY <1>1, <1>6, <2>4, <3>2, <3>4 DEF t
  <2>5. CASE Kind[v] = "credit" /\ m \in enabled /\ n # 0
    <3>1. Then(<<Task("refresh", m, 0)>> \o <<Task("toggle", m, n)>>)
      BY <2>1, <2>5 DEF Callback
    <3>2. <<Task("refresh", m, 0)>> \o <<Task("toggle", m, n)>>
            = <<Task("refresh", m, 0), Task("toggle", m, n)>>
      BY Pairs
    <3>3. <<Task("refresh", m, 0), Task("toggle", m, n)>> \in Seq(AnyTask)
      BY <1>2
    <3>4. /\ todo' \in Seq(AnyTask)
          /\ Went(<<Task("refresh", m, 0), Task("toggle", m, n)>>)
      BY <1>4, <3>1, <3>2, <3>3, Continues
    <3> QED BY <1>1, <1>6, <2>5, <3>4
  <2>6. CASE Kind[v] = "credit" /\ ~(m \in enabled /\ n # 0)
    <3>1. Then(<<>> \o <<Task("toggle", m, n)>>)
      BY <2>1, <2>6 DEF Callback
    <3>2. <<Task("toggle", m, n)>> \in Seq(AnyTask)
      BY <1>2
    <3>3. <<>> \o <<Task("toggle", m, n)>> = <<Task("toggle", m, n)>>
      BY <3>2
    <3>4. /\ todo' \in Seq(AnyTask)
          /\ Went(<<Task("toggle", m, n)>>)
      BY <1>4, <3>1, <3>2, <3>3, Continues
    <3> QED BY <1>1, <1>6, <2>6, <3>4
  <2>7. CASE Kind[v] = "plain"
    <3>1. Then(<<>>)
      BY <2>1, <2>7 DEF Callback
    <3>2. <<>> \in Seq(AnyTask)
      OBVIOUS
    <3> QED BY <1>1, <1>4, <2>7, <3>1, <3>2, Continues
  <2> QED BY <1>0, <2>2, <2>3, <2>4, <2>5, <2>6, <2>7
<1> QED BY <1>5, <1>6

\* The first task, when it is the one that is done.
LEMMA FirstTask ==
    ASSUME TypeInv, NEW op, NEW x, Doing(op, x)
    PROVE  /\ todo \in Seq(AnyTask) /\ todo # <<>>
           /\ Head(todo) = todo[1] /\ todo[1] \in AnyTask /\ todo[1].to \in Nat
           /\ todo[1].op = op /\ todo[1].for = x
           /\ 1 \in DOMAIN todo
<1>1. todo \in Seq(AnyTask) /\ todo # <<>>
  BY DEF TypeInv, Doing
<1>2. Head(todo) = todo[1] /\ todo[1] \in AnyTask /\ 1 \in DOMAIN todo
  BY <1>1
<1>3. todo[1].to \in Nat
  BY <1>2 DEF AnyTask, ModTasks, VarTasks, OverTasks
<1> QED BY <1>1, <1>2, <1>3 DEF Doing

LEMMA OverTask ==
    ASSUME TypeInv, NEW k \in DOMAIN todo,
           todo[k].op \in {"override", "override unset", "restore", "write", "unmark"}
    PROVE  todo[k].for \in Overridable
<1>1. todo \in Seq(AnyTask)
  BY DEF TypeInv
<1>2. todo[k] \in AnyTask
  BY <1>1, LenProperties, ElementOfSeq
<1> QED BY <1>2 DEF AnyTask, ModTasks, VarTasks, OverTasks

\* A call that has nothing more to do.
LEMMA Returns ==
    ASSUME TypeInv, todo # <<>>, Then(<<>>)
    PROVE  todo' \in Seq(AnyTask) /\ Went(<<>>)
<1>1. <<>> \in Seq(AnyTask)
  OBVIOUS
<1> QED BY <1>1, Continues DEF TypeInv

LEMMA Calls ==
    ASSUME TypeInv, todo # <<>>, NEW t \in AnyTask, Then(<<t>>)
    PROVE  todo' \in Seq(AnyTask) /\ Went(<<t>>)
<1>1. <<t>> \in Seq(AnyTask)
  OBVIOUS
<1> QED BY <1>1, Continues DEF TypeInv

LEMMA CallsTwo ==
    ASSUME TypeInv, todo # <<>>, NEW r \in AnyTask, NEW t \in AnyTask, Then(<<r, t>>)
    PROVE  todo' \in Seq(AnyTask) /\ Went(<<r, t>>)
<1>1. <<r, t>> \in Seq(AnyTask)
  OBVIOUS
<1> QED BY <1>1, Continues DEF TypeInv

LEMMA ResetFacts ==
    /\ ResetOverrides \in Seq(AnyTask)
    /\ Len(ResetOverrides) = Len(Overrides) /\ Len(Overrides) \in Nat
    /\ \A k \in 1 .. Len(Overrides) : ResetOverrides[k] = Task("restore", Overrides[k], 0)
<1>1. Overrides \in Seq(Overridable)
  BY OverridesFacts
<1>2. \A v \in Overridable : Task("restore", v, 0) \in AnyTask
  BY DEF AnyTask, OverTasks, Task
<1>3. /\ TasksFor("restore", Overrides, 0) \in Seq(AnyTask)
      /\ Len(TasksFor("restore", Overrides, 0)) = Len(Overrides)
      /\ \A k \in 1 .. Len(Overrides) :
           TasksFor("restore", Overrides, 0)[k] = Task("restore", Overrides[k], 0)
  BY <1>1, <1>2, TasksForFacts
<1> QED BY <1>1, <1>3, LenProperties DEF ResetOverrides

LEMMA ToggleLeads ==
    ASSUME TypeInv, NEW m \in Mod, Toggle(m)
    PROVE  LET n == todo[1].to IN
           /\ todo' \in Seq(AnyTask)
           /\ \/ /\ m \in enabled <=> n # 0
                 /\ Went(<<Task("pieces", m, n)>>)
              \/ /\ ~(m \in enabled <=> n # 0) /\ ~(m = Keeper /\ n = 0)
                 /\ Went(<<Task("flip", m, n), Task("pieces", m, n)>>)
              \/ /\ m = Keeper /\ n = 0 /\ m \in enabled
                 /\ \E next :
                      /\ Went(next) /\ Len(next) = Len(Overrides) + 2
                      /\ \A k \in 1 .. Len(Overrides) : next[k] = Task("restore", Overrides[k], 0)
                      /\ next[Len(Overrides) + 1] = Task("flip", m, n)
                      /\ next[Len(Overrides) + 2] = Task("pieces", m, n)
<1> DEFINE n == todo[1].to
           on == n # 0
           f  == Task("flip", m, n)
           p  == Task("pieces", m, n)
<1>1. Doing("toggle", m)
  BY DEF Toggle
<1>2. /\ todo \in Seq(AnyTask) /\ todo # <<>> /\ Head(todo) = todo[1] /\ n \in Nat
  BY <1>1, FirstTask
<1>3. Then((IF (m \in enabled) = on THEN <<>> ELSE Hook(m, on) \o <<f>>) \o <<p>>)
  BY <1>2 DEF Toggle
<1>4. f \in AnyTask /\ p \in AnyTask
  BY <1>2 DEF Task, AnyTask, ModTasks
<1> HIDE DEF f, p
<1>5. <<f>> \in Seq(AnyTask) /\ <<p>> \in Seq(AnyTask)
  BY <1>4
<1>6. CASE (m \in enabled) = on
  <2>1. Then(<<>> \o <<p>>)
    BY <1>3, <1>6
  <2>2. <<>> \o <<p>> = <<p>>
    BY <1>5, ConcatEmptySeq
  <2>3. todo' \in Seq(AnyTask) /\ Went(<<p>>)
    BY <1>2, <1>4, <2>1, <2>2, Calls
  <2> QED BY <1>6, <2>3 DEF p
<1>7. CASE (m \in enabled) # on /\ ~(m = Keeper /\ n = 0)
  <2>1. Hook(m, on) = <<>>
    BY <1>7 DEF Hook
  <2>2. Then((<<>> \o <<f>>) \o <<p>>)
    BY <1>3, <1>7, <2>1
  <2>3. <<>> \o <<f>> = <<f>>
    BY <1>5, ConcatEmptySeq
  <2>4. Then(<<f, p>>)
    BY <2>2, <2>3, Pairs
  <2>5. todo' \in Seq(AnyTask) /\ Went(<<f, p>>)
    BY <1>2, <1>4, <2>4, CallsTwo
  <2> QED BY <1>7, <2>5 DEF f, p
<1>8. CASE (m \in enabled) # on /\ m = Keeper /\ n = 0
  <2>1. Hook(m, on) = ResetOverrides
    BY <1>8 DEF Hook
  <2>2. Then((ResetOverrides \o <<f>>) \o <<p>>)
    BY <1>3, <1>8, <2>1
  <2>3. PICK h : h = ResetOverrides \o <<f>>
    OBVIOUS
  <2>4. /\ h \in Seq(AnyTask) /\ Len(h) = Len(Overrides) + 1
        /\ \A k \in 1 .. Len(Overrides) : h[k] = Task("restore", Overrides[k], 0)
        /\ h[Len(Overrides) + 1] = f
    BY <1>5, <2>3, ResetFacts, ConcatProperties
  <2>5. PICK g : g = h \o <<p>>
    OBVIOUS
  <2>6. /\ g \in Seq(AnyTask) /\ Len(g) = Len(Overrides) + 2
        /\ \A k \in 1 .. Len(Overrides) : g[k] = Task("restore", Overrides[k], 0)
        /\ g[Len(Overrides) + 1] = f /\ g[Len(Overrides) + 2] = p
    BY <1>5, <2>4, <2>5, ResetFacts, ConcatProperties
  <2>7. todo' \in Seq(AnyTask) /\ Went(g)
    BY <1>2, <2>2, <2>3, <2>5, <2>6, Continues
  <2>8. m \in enabled
    BY <1>8
  <2> QED BY <1>8, <2>6, <2>7, <2>8 DEF f, p
<1> QED BY <1>6, <1>7, <1>8

LEMMA UnloadLeads ==
    ASSUME TypeInv, NEW m \in Mod, UnloadMod(m)
    PROVE  /\ todo' \in Seq(AnyTask)
           /\ \E next, l :
                /\ Went(next) /\ l \in Nat /\ Len(next) = l + 2
                /\ next[1] = Task("toggle", m, 0) /\ next[l + 2] = Task("delete", m, 0)
                /\ \A k \in 2 .. l + 1 : next[k].op = "restore"
                /\ m = Keeper => /\ l = Len(Overrides)
                                 /\ \A k \in 1 .. l : next[k + 1] = Task("restore", Overrides[k], 0)
<1> DEFINE t == Task("toggle", m, 0)
           d == Task("delete", m, 0)
           hook == Hook(m, FALSE)
<1>1. Doing("unload", m)
  BY DEF UnloadMod
<1>2. todo \in Seq(AnyTask) /\ todo # <<>>
  BY <1>1, FirstTask
<1>3. Then((<<t>> \o hook) \o <<d>>)
  BY DEF UnloadMod
<1>4. t \in AnyTask /\ d \in AnyTask
  BY DEF Task, AnyTask, ModTasks
<1>5. /\ hook \in Seq(AnyTask) /\ Len(hook) \in Nat
      /\ \A k \in 1 .. Len(hook) : hook[k].op = "restore"
      /\ m = Keeper => /\ Len(hook) = Len(Overrides)
                       /\ \A k \in 1 .. Len(hook) : hook[k] = Task("restore", Overrides[k], 0)
  <2>0. PICK h : h = hook
    OBVIOUS
  <2>1. CASE m = Keeper
    <3>1. h = ResetOverrides
      BY <2>0, <2>1 DEF Hook
    <3>2. \A k \in 1 .. Len(Overrides) : Task("restore", Overrides[k], 0).op = "restore"
      BY DEF Task
    <3> HIDE DEF hook
    <3> QED BY <2>0, <2>1, <3>1, <3>2, ResetFacts
  <2>2. CASE m # Keeper
    <3>1. h = <<>>
      BY <2>0, <2>2 DEF Hook
    <3>2. h \in Seq(AnyTask) /\ Len(h) = 0 /\ 1 .. Len(h) = {}
      BY <3>1, Nothing
    <3> HIDE DEF hook
    <3> QED BY <2>0, <2>2, <3>2
  <2> QED BY <2>1, <2>2
<1> HIDE DEF t, d, hook
<1>6. <<d>> \in Seq(AnyTask) /\ Len(<<d>>) = 1 /\ <<d>>[1] = d
  BY <1>4
<1>7. PICK g : g = (<<t>> \o hook) \o <<d>>
  OBVIOUS
<1>8. PICK l \in Nat : l = Len(hook)
  BY <1>5
<1>9. /\ g \in Seq(AnyTask) /\ Len(g) = 1 + l + 1 /\ g[1] = t
      /\ \A k \in 1 .. l : g[k + 1] = hook[k]
      /\ \A k \in 1 .. 1 : g[k + l + 1] = d
  <2>1. /\ g \in Seq(AnyTask) /\ Len(g) = 1 + Len(hook) + Len(<<d>>) /\ g[1] = t
        /\ \A k \in 1 .. Len(hook) : g[k + 1] = hook[k]
        /\ \A k \in 1 .. Len(<<d>>) : g[k + Len(hook) + 1] = <<d>>[k]
    BY <1>4, <1>5, <1>6, <1>7, ThreeParts, SMTT(30)
  <2> QED BY <1>6, <1>8, <2>1
<1>10. Len(g) = l + 2 /\ g[l + 2] = d
  <2>1. g[1 + l + 1] = d
    BY <1>9
  <2>2. 1 + l + 1 = l + 2
    OBVIOUS
  <2> QED BY <1>9, <2>1, <2>2
<1>11. todo' \in Seq(AnyTask) /\ Went(g)
  BY <1>2, <1>3, <1>7, <1>9, Continues
<1>12. ASSUME NEW k \in 2 .. l + 1 PROVE g[k].op = "restore"
  <2>1. k - 1 \in 1 .. l /\ (k - 1) + 1 = k
    OBVIOUS
  <2>2. g[k] = hook[k - 1]
    BY <1>9, <2>1
  <2> QED BY <1>5, <1>8, <2>1, <2>2
<1>13. m = Keeper => /\ l = Len(Overrides)
                    /\ \A k \in 1 .. l : g[k + 1] = Task("restore", Overrides[k], 0)
  BY <1>5, <1>8, <1>9
<1> QED BY <1>8, <1>9, <1>10, <1>11, <1>12, <1>13 DEF t, d

\* What a setting of the mission file leads to.
LEMMA SettingLeads ==
    ASSUME TypeInv, NEW v \in Var, ParseSetting(v)
    PROVE  /\ todo' \in Seq(AnyTask)
           /\ todo # <<>> /\ 1 \in DOMAIN todo /\ todo[1].op = "setting" /\ todo[1].for = Keeper
           /\ v \in Overridable
           /\ \E next : \E n \in Nat :
                /\ Went(next) /\ Len(next) \in Nat \ {0}
                /\ next[1] = Task("override", v, n)
                /\ \A k \in 2 .. Len(next) :
                     \/ next[k].op = "override unset"
                     \/ next[k].op = "refresh" /\ next[k].for = Keeper /\ next[k].to = 0
                /\ (Kind[v] = "force" /\ n # 0) \/ Kind[v] \in {"enable", "plain"} =>
                     next[Len(next)] = Task("refresh", Keeper, 0)
                /\ (\E k \in 1 .. Len(next) : next[k].op = "override unset") =>
                     next[Len(next)] = Task("refresh", Keeper, 0)
<1>1. PICK n \in Values(v) : Then(Setting(v, n)) /\ v \in Overridable
  BY DEF ParseSetting, Overridable
<1>2. /\ todo \in Seq(AnyTask) /\ todo # <<>> /\ 1 \in DOMAIN todo
      /\ todo[1].op = "setting" /\ todo[1].for = Keeper
  BY FirstTask DEF ParseSetting
<1>3. n \in Nat
  <2>1. MaxValue[v] \in Nat
    BY Ordering
  <2> QED BY <2>1 DEF Values
<1> DEFINE toBlue == Kind[v] = "force" /\ n # 0
           Of(kind) == \E w \in Overridable : Kind[w] = kind
           one(kind) == Unless(CHOOSE w \in Overridable : Kind[w] = kind)
           also(kind) == IF toBlue /\ Of(kind) THEN <<one(kind)>> ELSE <<>>
           o == Task("override", v, n)
           r == Task("refresh", Keeper, 0)
           counted == toBlue \/ Kind[v] \in {"enable", "plain"}
           last == IF counted THEN <<r>> ELSE <<>>
<1>4. Setting(v, n) = ((<<o>> \o also("plain")) \o also("credit")) \o last
  BY DEF Setting, Overridable
<1>5. o \in AnyTask /\ r \in AnyTask
  BY <1>1, <1>3, Ordering DEF Task, AnyTask, OverTasks, ModTasks
<1>6. PICK U : U = {t \in AnyTask : t.op = "override unset"}
  OBVIOUS
<1>7. ASSUME NEW kind
      PROVE  /\ also(kind) \in Seq(AnyTask) /\ Len(also(kind)) \in Nat
             /\ \A k \in 1 .. Len(also(kind)) : toBlue /\ also(kind)[k] \in U
  <2>1. CASE toBlue /\ Of(kind)
    <3>1. PICK w \in Overridable : w = CHOOSE x \in Overridable : Kind[x] = kind
      BY <2>1
    <3>2. MaxValue[w] \in Nat
      BY OverridesFacts, Ordering
    <3>3. PICK u : u = Task("override unset", w, MaxValue[w])
      OBVIOUS
    <3>4. u \in AnyTask /\ u.op = "override unset"
      BY <3>2, <3>3 DEF Task, AnyTask, OverTasks
    <3>5. also(kind) = <<u>>
      BY <2>1, <3>1, <3>3 DEF Unless
    <3>6. <<u>> \in Seq(AnyTask) /\ Len(<<u>>) = 1 /\ \A k \in 1 .. Len(<<u>>) : <<u>>[k] = u
      BY <3>4, Single
    <3> HIDE DEF also
    <3> QED BY <1>6, <2>1, <3>4, <3>5, <3>6
  <2>2. CASE ~(toBlue /\ Of(kind))
    BY <2>2, Nothing
  <2> QED BY <2>1, <2>2
<1>8. /\ last \in Seq(AnyTask) /\ Len(last) \in Nat
      /\ \A k \in 1 .. Len(last) : last[k] = r
      /\ counted => Len(last) = 1
  <2>1. <<r>> \in Seq(AnyTask) /\ Len(<<r>>) = 1 /\ \A k \in 1 .. Len(<<r>>) : <<r>>[k] = r
    BY <1>5, Single
  <2> HIDE DEF r, counted
  <2> QED BY <2>1, Nothing
<1>9. PICK a, b, c, oo, rr :
        a = also("plain") /\ b = also("credit") /\ c = last /\ oo = o /\ rr = r
  OBVIOUS
<1> HIDE DEF also, last
<1>10. /\ oo \in AnyTask /\ rr \in AnyTask
       /\ a \in Seq(AnyTask) /\ Len(a) \in Nat /\ \A k \in 1 .. Len(a) : toBlue /\ a[k] \in U
       /\ b \in Seq(AnyTask) /\ Len(b) \in Nat /\ \A k \in 1 .. Len(b) : toBlue /\ b[k] \in U
       /\ c \in Seq(AnyTask) /\ Len(c) \in Nat /\ \A k \in 1 .. Len(c) : c[k] = rr
       /\ counted => Len(c) = 1
  BY <1>5, <1>7, <1>8, <1>9
<1>11. PICK q : q = (<<oo>> \o a) \o b
  OBVIOUS
<1>12. /\ q \in Seq(AnyTask) /\ Len(q) = 1 + Len(a) + Len(b) /\ q[1] = oo
       /\ \A k \in 2 .. Len(q) : \/ \E j \in 1 .. Len(a) : q[k] = a[j]
                                 \/ \E j \in 1 .. Len(b) : q[k] = b[j]
  <2>1. oo \in AnyTask /\ a \in Seq(AnyTask) /\ b \in Seq(AnyTask)
    BY <1>10
  <2>2. /\ q \in Seq(AnyTask) /\ Len(q) = 1 + Len(a) + Len(b) /\ q[1] = oo
        /\ \A k \in 2 .. Len(q) : \/ \E j \in 1 .. Len(a) : k = j + 1 /\ q[k] = a[j]
                                  \/ \E j \in 1 .. Len(b) : k = j + Len(a) + 1 /\ q[k] = b[j]
    BY <1>11, <2>1, ThreeParts, SMTT(30)
  <2> QED BY <2>2
<1>13. \A k \in 2 .. Len(q) : toBlue /\ q[k] \in U
  BY <1>10, <1>12
<1>14. PICK l \in Nat, m \in Nat : Len(q) = l /\ Len(c) = m /\ l > 0
  BY <1>10, <1>12
<1>15. PICK g : g = q \o c
  OBVIOUS
<1>16. /\ g \in Seq(AnyTask) /\ Len(g) = l + m
       /\ \A k \in 1 .. l + m : g[k] = IF k <= l THEN q[k] ELSE c[k - l]
  <2>1. /\ g \in Seq(AnyTask) /\ Len(g) = Len(q) + Len(c)
        /\ \A k \in 1 .. Len(q) + Len(c) : g[k] = IF k <= Len(q) THEN q[k] ELSE c[k - Len(q)]
    <3>1. q \in Seq(AnyTask) /\ c \in Seq(AnyTask)
      BY <1>10, <1>12
    <3> QED BY <1>15, <3>1, ConcatProperties
  <2>2. Len(q) = l /\ Len(c) = m
    BY <1>14
  <2> QED BY <2>1, <2>2
<1>17. g[1] = oo /\ 1 \in 1 .. l + m
  BY <1>12, <1>14, <1>16
<1>18. ASSUME NEW k \in 2 .. l + m PROVE (toBlue /\ g[k] \in U) \/ g[k] = rr
  <2>1. CASE k <= l
    BY <1>13, <1>14, <1>16, <2>1
  <2>2. CASE ~(k <= l)
    <3>1. k - l \in 1 .. m
      BY <2>2
    <3> QED BY <1>10, <1>14, <1>16, <2>2, <3>1
  <2> QED BY <2>1, <2>2
<1>19. counted => g[l + m] = rr
  <2>1. SUFFICES ASSUME counted PROVE g[l + m] = rr
    OBVIOUS
  <2>2. m = 1 /\ l + m \in 1 .. l + m /\ ~(l + m <= l) /\ (l + m) - l = 1
    BY <1>10, <1>14, <2>1
  <2> QED BY <1>10, <1>14, <1>16, <2>2
<1>20. Then(g)
  BY <1>1, <1>4, <1>9, <1>11, <1>15
<1>21. todo' \in Seq(AnyTask) /\ Went(g)
  BY <1>2, <1>16, <1>20, Continues
<1>22. oo.op = "override" /\ rr.op = "refresh" /\ rr.for = Keeper /\ rr.to = 0
  BY <1>9, Fields
<1>23. \A k \in 2 .. Len(g) : \/ g[k].op = "override unset"
                              \/ g[k].op = "refresh" /\ g[k].for = Keeper /\ g[k].to = 0
  BY <1>6, <1>16, <1>18, <1>22
<1>24. (\E k \in 1 .. Len(g) : g[k].op = "override unset") => counted
  <2>1. SUFFICES ASSUME NEW k \in 1 .. l + m, g[k].op = "override unset" PROVE counted
    BY <1>16
  <2>2. k # 1 /\ g[k] # rr
    BY <1>17, <1>22, <2>1
  <2>3. k \in 2 .. l + m
    BY <2>2
  <2> QED BY <1>18, <2>2, <2>3
<1>25. Len(g) \in Nat \ {0} /\ g[1] = Task("override", v, n)
  BY <1>9, <1>14, <1>16, <1>17
<1>26. counted => g[Len(g)] = Task("refresh", Keeper, 0)
  BY <1>9, <1>16, <1>19
<1> QED BY <1>1, <1>2, <1>3, <1>21, <1>23, <1>24, <1>25, <1>26

LEMMA SettingNews ==
    ASSUME TypeInv, NEW v \in Var, ParseSetting(v)
    PROVE  \E next :
             /\ Went(next) /\ Len(next) \in Nat \ {0}
             /\ next[1].op = "override" /\ next[1].for = v
             /\ \A k \in 2 .. Len(next) :
                  \/ next[k].op = "override unset"
                  \/ next[k].op = "refresh" /\ next[k].for = Keeper
<1>1. PICK next : \E n \in Nat :
        /\ Went(next) /\ Len(next) \in Nat \ {0}
        /\ next[1] = Task("override", v, n)
        /\ \A k \in 2 .. Len(next) :
             \/ next[k].op = "override unset"
             \/ next[k].op = "refresh" /\ next[k].for = Keeper /\ next[k].to = 0
        /\ (Kind[v] = "force" /\ n # 0) \/ Kind[v] \in {"enable", "plain"} =>
             next[Len(next)] = Task("refresh", Keeper, 0)
        /\ (\E k \in 1 .. Len(next) : next[k].op = "override unset") =>
             next[Len(next)] = Task("refresh", Keeper, 0)
  BY SettingLeads
<1>2. PICK n \in Nat : next[1] = Task("override", v, n)
  BY <1>1
<1>3. next[1].op = "override" /\ next[1].for = v
  BY <1>2, Fields
<1> QED BY <1>1, <1>3

LEMMA MissionLeads ==
    ASSUME TypeInv, ParseMission
    PROVE  /\ todo' \in Seq(AnyTask)
           /\ \A k \in 1 .. Len(todo') : \/ todo'[k] = Task("refresh", Keeper, 0)
                                        \/ todo'[k].op \in {"restore", "setting"}
<1>1. PICK r, U :
         /\ r = Task("refresh", Keeper, 0)
         /\ U = {t \in AnyTask : t.op \in {"restore", "setting"}}
  OBVIOUS
<1>2. PICK q \in Seq(AnyTask) :
         /\ \A k \in 1 .. Len(q) : q[k] \in U
         /\ todo' = <<r>> \o ResetOverrides \o q
  <2>1. PICK n \in 0 .. MaxSettings :
           todo' = <<r>> \o ResetOverrides \o [k \in 1 .. n |-> Task("setting", Keeper, 0)]
    BY <1>1 DEF ParseMission
  <2>2. PICK q : q = [k \in 1 .. n |-> Task("setting", Keeper, 0)]
    OBVIOUS
  <2>3. n \in Nat
    BY Ordering
  <2>4. ASSUME NEW k \in 1 .. n PROVE q[k] \in AnyTask /\ q[k] \in U
    <3>1. q[k] = Task("setting", Keeper, 0)
      BY <2>2
    <3>2. Task("setting", Keeper, 0) \in ModTasks /\ Task("setting", Keeper, 0).op = "setting"
      BY Ordering DEF Task, ModTasks
    <3> QED BY <1>1, <3>1, <3>2 DEF AnyTask
  <2>5. q \in Seq(AnyTask) /\ Len(q) = n
    <3>1. q \in [1 .. n -> AnyTask]
      BY <2>2, <2>4
    <3> QED BY <2>3, <3>1
  <2> QED BY <2>1, <2>2, <2>4, <2>5
<1>3. r \in AnyTask
  BY <1>1, Ordering DEF Task, AnyTask, ModTasks
<1>7. PICK h : h = ResetOverrides
  OBVIOUS
<1>8. h \in Seq(AnyTask) /\ \A k \in 1 .. Len(h) : h[k] \in U
  <2>1. /\ h \in Seq(AnyTask) /\ Len(h) = Len(Overrides)
        /\ \A k \in 1 .. Len(Overrides) : h[k] = Task("restore", Overrides[k], 0)
    BY <1>7, ResetFacts
  <2>2. ASSUME NEW k \in 1 .. Len(h) PROVE h[k] \in U
    <3>1. h[k] = Task("restore", Overrides[k], 0) /\ h[k] \in AnyTask
      BY <2>1
    <3> QED BY <1>1, <3>1 DEF Task
  <2> QED BY <2>1, <2>2
<1>9. PICK u : u = <<r>> \o h
  OBVIOUS
<1>10. PICK g : g = u \o q
  OBVIOUS
<1>11. /\ g \in Seq(AnyTask) /\ Len(g) \in Nat /\ g[1] = r
       /\ \A k \in 2 .. Len(g) : g[k] \in U
  <2>1. <<r>> \in Seq(AnyTask) /\ Len(<<r>>) = 1 /\ <<r>>[1] = r
    BY <1>3
  <2>2. h \in Seq(AnyTask) /\ Len(h) \in Nat
    BY <1>8
  <2>3. /\ u \in Seq(AnyTask) /\ Len(u) = 1 + Len(h)
        /\ \A k \in 1 .. 1 + Len(h) : u[k] = IF k <= 1 THEN <<r>>[k] ELSE h[k - 1]
    BY <1>9, <2>1, <2>2, ConcatProperties
  <2>4. /\ g \in Seq(AnyTask) /\ Len(g) = Len(u) + Len(q) /\ Len(q) \in Nat
        /\ \A k \in 1 .. Len(u) + Len(q) : g[k] = IF k <= Len(u) THEN u[k] ELSE q[k - Len(u)]
    <3>1. u \in Seq(AnyTask) /\ q \in Seq(AnyTask)
      BY <2>3
    <3> QED BY <1>10, <3>1, ConcatProperties, LenProperties
  <2>5. PICK i \in Nat, j \in Nat : i = Len(h) /\ j = Len(q)
    BY <2>2, <2>4
  <2>6. Len(u) = 1 + i /\ Len(g) = 1 + i + j
    BY <2>3, <2>4, <2>5
  <2>7. g[1] = r
    <3>1. u[1] = r
      BY <2>1, <2>3, <2>5
    <3> QED BY <2>4, <2>5, <2>6, <3>1
  <2>8. ASSUME NEW k \in 2 .. 1 + i + j PROVE g[k] \in U
    <3>1. CASE k <= 1 + i
      <4>1. k - 1 \in 1 .. i /\ ~(k <= 1) /\ k \in 1 .. 1 + i
        BY <3>1
      <4>2. g[k] = u[k] /\ u[k] = h[k - 1]
        BY <2>3, <2>4, <2>5, <2>6, <3>1, <4>1
      <4> QED BY <1>8, <2>5, <4>1, <4>2
    <3>2. CASE ~(k <= 1 + i)
      <4>1. k - (1 + i) \in 1 .. j
        BY <3>2
      <4>2. g[k] = q[k - (1 + i)]
        BY <2>4, <2>5, <2>6, <3>2
      <4> QED BY <1>2, <2>5, <4>1, <4>2
    <3> QED BY <3>1, <3>2
  <2> QED BY <2>4, <2>5, <2>6, <2>7, <2>8
<1>12. \A k \in 1 .. Len(g) : k = 1 \/ k \in 2 .. Len(g)
  BY <1>11
<1>13. todo' = g
  BY <1>2, <1>7, <1>9, <1>10
<1>14. \A k \in 2 .. Len(g) : g[k].op \in {"restore", "setting"}
  BY <1>1, <1>11
<1> QED BY <1>1, <1>11, <1>12, <1>13, <1>14

LEMMA RestoreLeads ==
    ASSUME TypeInv, NEW v \in Var, Restore(v)
    PROVE  /\ todo' \in Seq(AnyTask)
           /\ IF v \in overridden
              THEN Went(<<Task("write", v, backup[v]), Task("unmark", v, 0)>>) ELSE Went(<<>>)
<1>1. Doing("restore", v)
  BY DEF Restore
<1>2. /\ todo # <<>> /\ todo[1].op = "restore" /\ todo[1].for = v /\ 1 \in DOMAIN todo
  BY <1>1, FirstTask
<1>3. v \in Overridable
  BY <1>2, OverTask
<1>4. Task("write", v, backup[v]) \in AnyTask /\ Task("unmark", v, 0) \in AnyTask
  BY <1>3 DEF TypeInv, Task, AnyTask, OverTasks
<1>5. CASE v \in overridden
  <2>1. Then(<<Task("write", v, backup[v]), Task("unmark", v, 0)>>)
    BY <1>5 DEF Restore
  <2> QED BY <1>2, <1>4, <1>5, <2>1, CallsTwo
<1>6. CASE v \notin overridden
  <2>1. Then(<<>>)
    BY <1>6 DEF Restore
  <2> QED BY <1>2, <1>6, <2>1, Returns
<1> QED BY <1>5, <1>6

LEMMA OverrideUnsetLeads ==
    ASSUME TypeInv, NEW v \in Var, OverrideUnset(v)
    PROVE  /\ todo' \in Seq(AnyTask)
           /\ Went(<<>>) \/ Went(<<Task("override", v, todo[1].to)>>)
<1>1. Doing("override unset", v)
  BY DEF OverrideUnset
<1>2. /\ todo # <<>> /\ todo[1].op = "override unset" /\ todo[1].for = v /\ 1 \in DOMAIN todo
      /\ Head(todo) = todo[1] /\ todo[1].to \in Nat
  BY <1>1, FirstTask
<1>3. v \in Overridable
  BY <1>2, OverTask
<1>4. Task("override", v, todo[1].to) \in AnyTask
  BY <1>2, <1>3 DEF Task, AnyTask, OverTasks
<1>5. Then(<<>>) \/ Then(<<Task("override", v, todo[1].to)>>)
  BY <1>2 DEF OverrideUnset
<1> QED BY <1>2, <1>4, <1>5, Calls, Returns

LEMMA LoadLeads ==
    ASSUME TypeInv, NEW m \in Mod, LoadMod(m)
    PROVE  /\ todo' \in Seq(AnyTask)
           /\ IF m \in DefaultOn THEN Went(<<Task("toggle", m, 1)>>) ELSE Went(<<>>)
<1>1. Doing("load", m)
  BY DEF LoadMod
<1>2. todo # <<>>
  BY <1>1, FirstTask
<1>3. Task("toggle", m, 1) \in AnyTask
  BY DEF Task, AnyTask, ModTasks
<1>4. IF m \in DefaultOn THEN Then(<<Task("toggle", m, 1)>>) ELSE Then(<<>>)
  BY DEF LoadMod
<1> QED BY <1>2, <1>3, <1>4, Calls, Returns

\* The steps that add nothing to do.
LEMMA PlainLeads ==
    ASSUME TypeInv,
           \/ \E v \in Var : Unmark(v)
           \/ \E m \in Mod : Flip(m) \/ TogglePieces(m) \/ RefreshPatches(m) \/ DeletePieces(m)
    PROVE  todo' \in Seq(AnyTask) /\ Went(<<>>)
<1>1. todo # <<>> /\ Then(<<>>)
  BY DEF Unmark, Flip, TogglePieces, RefreshPatches, DeletePieces, Doing
<1> QED BY <1>1, Returns

\* Lists of things to do for every mod, or every ConVar.
LEMMA ListLeads ==
    ASSUME NEW op \in {"load", "unload", "set"}
    PROVE  LET s == IF op = "set" THEN VarOrder ELSE ModOrder
               q == TasksFor(op, s, 0)
           IN  /\ q \in Seq(AnyTask) /\ Len(q) = Len(s) /\ Len(s) \in Nat
               /\ \A k \in 1 .. Len(s) : q[k] = Task(op, s[k], 0)
<1>1. CASE op = "set"
  <2>1. \A x \in Var : Task(op, x, 0) \in AnyTask
    BY <1>1 DEF Task, AnyTask, VarTasks
  <2>2. VarOrder \in Seq(Var)
    BY Ordering
  <2> QED BY <1>1, <2>1, <2>2, TasksForFacts, LenProperties
<1>2. CASE op # "set"
  <2>1. \A x \in Mod : Task(op, x, 0) \in AnyTask
    BY <1>2 DEF Task, AnyTask, ModTasks
  <2>2. ModOrder \in Seq(Mod)
    BY Ordering
  <2> QED BY <1>2, <2>1, <2>2, TasksForFacts, LenProperties
<1> QED BY <1>1, <1>2

LEMMA PatchValueType ==
    ASSUME TypeInv, NEW m
    PROVE  /\ \A c \in PlayerCounts : PatchValue(m, c) \in Nat \cup PlayerCounts
           /\ \A n \in Nat : Recount(n) \in PlayerCounts
<1>1. ASSUME NEW c \in PlayerCounts PROVE PatchValue(m, c) \in Nat \cup PlayerCounts
  BY DEF TypeInv, PatchValue
<1>2. ASSUME NEW n \in Nat PROVE Recount(n) \in PlayerCounts
  <2>1. [v \in Counted |-> value[v]] \in [Counted -> Nat]
    BY Ordering DEF TypeInv
  <2> QED BY <2>1 DEF TypeInv, Recount, PlayerCounts
<1> QED BY <1>1, <1>2

LEMMA OverlookType ==
    ASSUME TypeInv, NEW v, NEW n, Overlook(v, n)
    PROVE  unseen' \subseteq Counted
BY DEF TypeInv, Overlook

LEMMA InitTypes == Init => TypeInv
<1> SUFFICES ASSUME Init PROVE TypeInv
  OBVIOUS
<1>1. todo \in Seq(AnyTask)
  <2>1. TasksFor("load", ModOrder, 0) \in Seq(AnyTask)
    BY ListLeads
  <2> QED BY <2>1 DEF Init
<1>2. value \in [Var -> Nat] /\ patched \in [Mod -> Nat \cup PlayerCounts \cup {OFF}]
  BY DEF Init
<1>3. counts \in PlayerCounts
  BY DEF Init, PlayerCounts, DefaultRed
<1> QED BY <1>1, <1>2, <1>3 DEF Init, TypeInv

LEMMA Types == TypeInv /\ [Next]_vars => TypeInv'
<1> SUFFICES ASSUME TypeInv, [Next]_vars PROVE TypeInv'
  OBVIOUS
<1>2. ASSUME NEW v \in Var, SetByUser(v) PROVE TypeInv'
  <2>1. todo # <<>> /\ todo[1].to \in Nat /\ SetValue(v, todo[1].to)
    BY <1>2, FirstTask DEF SetByUser
  <2>2. value' \in [Var -> Nat] /\ todo' \in Seq(AnyTask)
    BY <2>1, SetLeads
  <2>3. user' \in [Var -> Nat]
    BY <1>2, <2>1, FirstTask DEF SetByUser, TypeInv
  <2>4. unseen' \subseteq Counted
    BY <1>2, OverlookType DEF SetByUser
  <2> QED BY <1>2, <2>2, <2>3, <2>4 DEF SetByUser, TypeInv, modVars
<1>3. ASSUME NEW v \in Var, Override(v) PROVE TypeInv'
  <2>1. /\ todo # <<>> /\ todo[1].to \in Nat /\ SetValue(v, todo[1].to)
        /\ 1 \in DOMAIN todo /\ todo[1].op = "override" /\ todo[1].for = v
    BY <1>3, FirstTask DEF Override
  <2>2. value' \in [Var -> Nat] /\ todo' \in Seq(AnyTask)
    BY <2>1, SetLeads
  <2>3. v \in Overridable
    BY <2>1, OverTask
  <2>4. backup' \in [Var -> Nat]
    BY <1>3 DEF Override, TypeInv
  <2>5. overridden' \subseteq Overridable
    BY <1>3, <2>3 DEF Override, TypeInv
  <2>6. unseen' \subseteq Counted
    <3>1. UNCHANGED unseen \/ Overlook(v, 0)
      BY <1>3 DEF Override
    <3> QED BY <3>1, OverlookType DEF TypeInv
  <2> QED BY <1>3, <2>2, <2>4, <2>5, <2>6 DEF Override, TypeInv, modVars
<1>4. ASSUME NEW v \in Var, WriteBack(v) PROVE TypeInv'
  <2>1. todo # <<>> /\ todo[1].to \in Nat /\ SetValue(v, todo[1].to)
    BY <1>4, FirstTask DEF WriteBack
  <2>2. value' \in [Var -> Nat] /\ todo' \in Seq(AnyTask)
    BY <2>1, SetLeads
  <2>3. unseen' \subseteq Counted
    BY <1>4, OverlookType DEF WriteBack
  <2> QED BY <1>4, <2>2, <2>3 DEF WriteBack, TypeInv, modVars
<1>5. ASSUME NEW v \in Var, OverrideUnset(v) \/ Restore(v) \/ ParseSetting(v) PROVE TypeInv'
  <2>1. todo' \in Seq(AnyTask)
    BY <1>5, OverrideUnsetLeads, RestoreLeads, SettingLeads
  <2>2. UNCHANGED <<phase, modVars, varVars>>
    BY <1>5 DEF OverrideUnset, Restore, ParseSetting
  <2> QED BY <2>1, <2>2 DEF TypeInv, modVars, varVars
<1>6. ASSUME NEW m \in Mod, Toggle(m) \/ UnloadMod(m) PROVE TypeInv'
  <2>1. todo' \in Seq(AnyTask)
    BY <1>6, ToggleLeads, UnloadLeads
  <2>2. UNCHANGED <<phase, modVars, varVars>>
    BY <1>6 DEF Toggle, UnloadMod
  <2> QED BY <2>1, <2>2 DEF TypeInv, modVars, varVars
<1>7. ASSUME NEW v \in Var, Unmark(v) PROVE TypeInv'
  <2>1. todo' \in Seq(AnyTask)
    BY <1>7, PlainLeads
  <2> QED BY <1>7, <2>1 DEF TypeInv, modVars, Unmark
<1>8. ASSUME NEW m \in Mod, Flip(m) PROVE TypeInv'
  <2>1. todo' \in Seq(AnyTask)
    BY <1>8, PlainLeads
  <2>2. enabled' \subseteq Mod
    BY <1>8 DEF Flip, TypeInv
  <2> QED BY <1>8, <2>1, <2>2 DEF TypeInv, varVars, Flip
<1>9. ASSUME NEW m \in Mod, TogglePieces(m) PROVE TypeInv'
  <2>1. todo' \in Seq(AnyTask)
    BY <1>9, PlainLeads
  <2>2. detours' \subseteq Mod /\ patched' \in [Mod -> Nat \cup PlayerCounts \cup {OFF}]
    BY <1>9, PatchValueType DEF TogglePieces, TypeInv
  <2> QED BY <1>9, <2>1, <2>2 DEF TypeInv, varVars, TogglePieces
<1>10. ASSUME NEW m \in Mod, RefreshPatches(m) PROVE TypeInv'
  <2>1. todo' \in Seq(AnyTask)
    BY <1>10, PlainLeads
  <2>2. Head(todo).to \in Nat
    BY <1>10, FirstTask DEF RefreshPatches
  <2>3. PICK now : now = IF m = Keeper THEN Recount(Head(todo).to) ELSE counts
    OBVIOUS
  <2>4. now \in PlayerCounts
    BY <2>2, <2>3, PatchValueType DEF TypeInv
  <2>5. PICK x : x = PatchValue(m, now)
    OBVIOUS
  <2>6. x \in Nat \cup PlayerCounts
    BY <2>4, <2>5, PatchValueType
  <2>7. /\ counts' = now
        /\ patched' = [patched EXCEPT ![m] = IF CanToggle(m) THEN x ELSE @]
    BY <1>10, <2>3, <2>5 DEF RefreshPatches
  <2>8. patched' \in [Mod -> Nat \cup PlayerCounts \cup {OFF}]
    BY <2>6, <2>7 DEF TypeInv
  <2>9. unseen' \subseteq Counted
    BY <1>10 DEF RefreshPatches, TypeInv
  <2> QED BY <1>10, <2>1, <2>4, <2>7, <2>8, <2>9 DEF TypeInv, RefreshPatches
<1>11. ASSUME NEW m \in Mod, LoadMod(m) PROVE TypeInv'
  <2>1. todo' \in Seq(AnyTask)
    BY <1>11, LoadLeads
  <2>2. present' \subseteq Mod /\ failed' \subseteq Mod
    BY <1>11 DEF LoadMod, TypeInv
  <2> QED BY <1>11, <2>1, <2>2 DEF TypeInv, varVars, LoadMod
<1>12. ASSUME NEW m \in Mod, DeletePieces(m) PROVE TypeInv'
  <2>1. todo' \in Seq(AnyTask)
    BY <1>12, PlainLeads
  <2>2. present' \subseteq Mod /\ detours' \subseteq Mod /\ patched' \in [Mod -> Nat \cup PlayerCounts \cup {OFF}]
    BY <1>12 DEF DeletePieces, TypeInv
  <2> QED BY <1>12, <2>1, <2>2 DEF TypeInv, varVars, DeletePieces
<1>13. CASE EndOfList
  BY <1>13 DEF EndOfList, TypeInv, modVars, varVars
<1>14. ASSUME NEW v \in Var, Console(v) PROVE TypeInv'
  <2>1. PICK n \in Values(v) : todo' = <<Task("set", v, n)>>
    BY <1>14 DEF Console
  <2>2. MaxValue[v] \in Nat
    BY Ordering
  <2>3. n \in Nat
    BY <2>2 DEF Values
  <2>4. Task("set", v, n) \in AnyTask
    BY <2>3 DEF Task, AnyTask, VarTasks
  <2>5. todo' \in Seq(AnyTask)
    BY <2>1, <2>4, Single
  <2> QED BY <1>14, <2>5 DEF Console, TypeInv, modVars, varVars
<1>15. CASE ResetConVars
  <2>1. todo' \in Seq(AnyTask)
    BY <1>15, ListLeads DEF ResetConVars
  <2> QED BY <1>15, <2>1 DEF ResetConVars, TypeInv, modVars, varVars
<1>16. CASE ParseMission
  <2>1. todo' \in Seq(AnyTask)
    BY <1>16, MissionLeads
  <2> QED BY <1>16, <2>1 DEF ParseMission, TypeInv, modVars, varVars
<1>17. CASE LevelChange
  <2>1. todo' \in Seq(AnyTask)
    BY <1>17, ResetFacts DEF LevelChange
  <2> QED BY <1>17, <2>1 DEF LevelChange, TypeInv, modVars, varVars
<1>18. CASE UnloadExtension
  <2>1. todo' \in Seq(AnyTask)
    BY <1>18, ListLeads DEF UnloadExtension
  <2> QED BY <1>18, <2>1 DEF UnloadExtension, TypeInv, modVars, varVars
<1>19. CASE UNCHANGED vars
  BY <1>19 DEF TypeInv, vars, modVars, varVars
<1> QED
  BY <1>2, <1>3, <1>4, <1>5, <1>6, <1>7, <1>8, <1>9, <1>10, <1>11, <1>12, <1>13, <1>14,
     <1>15, <1>16, <1>17, <1>18, <1>19 DEF Next

-----------------------------------------------------------------------------

\* Where the tasks after a step come from, and where those before it went.
LEMMA CameFrom ==
    ASSUME NEW next, Went(next), NEW k \in DOMAIN todo'
    PROVE  \/ k \in 1 .. Len(next) /\ todo'[k] = next[k]
           \/ /\ k > Len(next) /\ k - Len(next) + 1 \in DOMAIN todo /\ k - Len(next) + 1 > 1
              /\ todo'[k] = todo[k - Len(next) + 1]
BY DEF Went

LEMMA WentTo ==
    ASSUME NEW next, Went(next), NEW k \in DOMAIN todo, k # 1
    PROVE  /\ k - 1 + Len(next) \in DOMAIN todo' /\ k - 1 + Len(next) > Len(next)
           /\ todo'[k - 1 + Len(next)] = todo[k]
BY DEF Went

LEMMA WentLengths ==
    ASSUME NEW next, Went(next)
    PROVE  /\ Len(next) \in Nat /\ Len(todo) \in Nat /\ DOMAIN todo = 1 .. Len(todo)
           /\ DOMAIN todo' = 1 .. (Len(next) + Len(todo) - 1)
BY DEF Went

LEMMA StaysPending ==
    ASSUME NEW next, Went(next), NEW op, NEW x, Pending(op, x), ~At(1, op, x)
    PROVE  Pending(op, x)'
<1>1. PICK k \in DOMAIN todo : At(k, op, x)
  BY DEF Pending
<1>2. k - 1 + Len(next) \in DOMAIN todo' /\ todo'[k - 1 + Len(next)] = todo[k]
  BY <1>1, WentTo
<1> QED BY <1>1, <1>2 DEF Pending, At

LEMMA NowPending ==
    ASSUME NEW next, Went(next), NEW k \in 1 .. Len(next)
    PROVE  Pending(next[k].op, next[k].for)'
<1>1. k \in DOMAIN todo' /\ todo'[k] = next[k]
  BY DEF Went
<1> QED BY <1>1 DEF Pending, At

ListOps == {"load", "unload", "delete"}

LEMMA LoadKept ==
    ASSUME LoadInv, NEW next, Went(next),
           todo[1].op \notin ListOps,
           \A k \in 1 .. Len(next) : next[k].op \notin ListOps,
           UNCHANGED <<phase, present, failed>>,
           \A m \in Mod : m \in failed \/ m \notin present => m \notin detours' /\ patched'[m] = OFF
    PROVE  LoadInv'
<1>1. ASSUME NEW k \in DOMAIN todo', todo'[k].op \in ListOps
      PROVE  /\ k - Len(next) + 1 \in DOMAIN todo /\ k - Len(next) + 1 > 1
             /\ todo'[k] = todo[k - Len(next) + 1]
  BY <1>1, CameFrom
<1>2. \A k \in DOMAIN todo' : todo'[k].op = "load" =>
        phase' = "loading" /\ todo'[k].for \notin present' \cup failed'
  BY <1>1 DEF LoadInv, ListOps
<1>3. \A j, k \in DOMAIN todo' :
        todo'[j].op = "load" /\ todo'[k].op = "load" /\ todo'[j].for = todo'[k].for => j = k
  <2>1. SUFFICES ASSUME NEW j \in DOMAIN todo', NEW k \in DOMAIN todo',
                        todo'[j].op = "load", todo'[k].op = "load", todo'[j].for = todo'[k].for
                 PROVE  j = k
    OBVIOUS
  <2>2. j - Len(next) + 1 = k - Len(next) + 1
    BY <1>1, <2>1 DEF LoadInv, ListOps
  <2>3. j \in Int /\ k \in Int /\ Len(next) \in Int
    BY <2>1 DEF Went
  <2> QED BY <2>2, <2>3
<1>4. \A m \in Mod : m \in failed' \/ m \notin present' => m \notin detours' /\ patched'[m] = OFF
  OBVIOUS
<1>5. phase' = "running" => present' = Mod
  BY DEF LoadInv
<1>6. \A k \in DOMAIN todo' : todo'[k].op \in {"unload", "delete"} => phase' = "unloading"
  BY <1>1 DEF LoadInv, ListOps
<1>7. phase' = "unloading" => \A m \in present' : Pending("unload", m)' \/ Pending("delete", m)'
  <2>1. SUFFICES ASSUME phase' = "unloading", NEW m \in present'
                 PROVE  Pending("unload", m)' \/ Pending("delete", m)'
    OBVIOUS
  <2>2. Pending("unload", m) \/ Pending("delete", m)
    BY <2>1 DEF LoadInv
  <2>3. ~At(1, "unload", m) /\ ~At(1, "delete", m)
    BY DEF At, ListOps
  <2> QED BY <2>2, <2>3, StaysPending
<1>8. phase' = "gone" => present' = {}
  BY DEF LoadInv
<1>9. phase # "gone"
  <2>1. DOMAIN todo # {}
    BY DEF Went
  <2> QED BY <2>1 DEF LoadInv
<1>10. phase' = "loading" => \A m \in Mod \ present' : Pending("load", m)'
  <2>1. SUFFICES ASSUME phase = "loading", NEW m \in Mod \ present PROVE Pending("load", m)'
    OBVIOUS
  <2>2. Pending("load", m)
    BY <2>1 DEF LoadInv
  <2>3. ~At(1, "load", m)
    BY DEF At, ListOps
  <2> QED BY <2>2, <2>3, StaysPending
<1> QED BY <1>2, <1>3, <1>4, <1>5, <1>6, <1>7, <1>8, <1>9, <1>10 DEF LoadInv

\* The elements of short lists of tasks.
LEMMA Shorts ==
    /\ \A k \in 1 .. Len(<<>>) : FALSE
    /\ \A t : Len(<<t>>) = 1 /\ \A k \in 1 .. Len(<<t>>) : k = 1 /\ <<t>>[k] = t
    /\ \A r, t : Len(<<r, t>>) = 2
    /\ \A r, t : <<r, t>>[1] = r /\ <<r, t>>[2] = t
    /\ \A r, t : \A k \in 1 .. Len(<<r, t>>) : k = 1 \/ k = 2
    /\ Len(<<>>) = 0
<1>1. ASSUME NEW t PROVE Len(<<t>>) = 1 /\ \A k \in 1 .. Len(<<t>>) : k = 1 /\ <<t>>[k] = t
  OBVIOUS
<1>2. ASSUME NEW r, NEW t
      PROVE  /\ Len(<<r, t>>) = 2 /\ <<r, t>>[1] = r /\ <<r, t>>[2] = t
             /\ \A k \in 1 .. Len(<<r, t>>) : k = 1 \/ k = 2
  OBVIOUS
<1> QED BY <1>1, <1>2

LEMMA PlainShift ==
    ASSUME Went(<<>>)
    PROVE  \E n \in Nat \ {0} : /\ DOMAIN todo = 1 .. n /\ DOMAIN todo' = 1 .. n - 1
                                /\ \A k \in 1 .. n - 1 : todo'[k] = todo[k + 1]
<1>1. PICK n \in Nat \ {0} : n = Len(todo)
  BY DEF Went
<1>2. PICK l : l = <<>>
  OBVIOUS
<1>3. Len(l) = 0
  BY <1>2, Shorts
<1>4. /\ DOMAIN todo = 1 .. n /\ DOMAIN todo' = 1 .. (0 + n - 1)
      /\ \A k \in 2 .. n : todo'[k - 1 + 0] = todo[k]
  BY <1>1, <1>2, <1>3 DEF Went
<1>5. 0 + n - 1 = n - 1
  OBVIOUS
<1>6. ASSUME NEW k \in 1 .. n - 1 PROVE todo'[k] = todo[k + 1]
  <2>1. k + 1 \in 2 .. n /\ (k + 1) - 1 + 0 = k
    OBVIOUS
  <2>2. todo'[(k + 1) - 1 + 0] = todo[k + 1]
    BY <1>4, <2>1
  <2> QED BY <2>1, <2>2
<1> QED BY <1>4, <1>5, <1>6, SMTT(30)

LEMMA SetNews ==
    ASSUME TypeInv, todo # <<>>, NEW v \in Var, NEW n \in Nat, SetValue(v, n)
    PROVE  \E next : /\ Went(next)
                     /\ \A k \in 1 .. Len(next) : /\ next[k].op \in {"toggle", "refresh"}
                                                  /\ next[k].for = ModOf[v]
<1>1. CASE Went(<<>>)
  BY <1>1, Shorts
<1>2. ASSUME NEW op \in {"toggle", "refresh"}, NEW t, Went(<<Task(op, ModOf[v], t)>>)
      PROVE  \E next : /\ Went(next)
                       /\ \A k \in 1 .. Len(next) : /\ next[k].op \in {"toggle", "refresh"}
                                                    /\ next[k].for = ModOf[v]
  <2>1. PICK r : r = Task(op, ModOf[v], t)
    OBVIOUS
  <2>2. r.op \in {"toggle", "refresh"} /\ r.for = ModOf[v]
    BY <2>1 DEF Task
  <2> QED BY <1>2, <2>1, <2>2, Shorts
<1>3. ASSUME Went(<<Task("refresh", ModOf[v], 0), Task("toggle", ModOf[v], n)>>)
      PROVE  \E next : /\ Went(next)
                       /\ \A k \in 1 .. Len(next) : /\ next[k].op \in {"toggle", "refresh"}
                                                    /\ next[k].for = ModOf[v]
  <2>1. PICK r, t : r = Task("refresh", ModOf[v], 0) /\ t = Task("toggle", ModOf[v], n)
    OBVIOUS
  <2>2. /\ r.op \in {"toggle", "refresh"} /\ r.for = ModOf[v]
        /\ t.op \in {"toggle", "refresh"} /\ t.for = ModOf[v]
    BY <2>1 DEF Task
  <2>3. \A k \in 1 .. Len(<<r, t>>) : <<r, t>>[k] \in {r, t}
    BY Shorts
  <2> QED BY <1>3, <2>1, <2>2, <2>3
<1> QED BY <1>1, <1>2, <1>3, SetLeads

\* The steps other than loading, unloading and commands.
Setting3(v) == SetByUser(v) \/ Override(v) \/ WriteBack(v)
Ordinary ==
    \/ \E v \in Var : \/ Setting3(v) \/ OverrideUnset(v)
                      \/ Restore(v) \/ Unmark(v) \/ ParseSetting(v)
    \/ \E m \in Mod : Toggle(m) \/ Flip(m) \/ TogglePieces(m) \/ RefreshPatches(m)

LEMMA SetsFirst ==
    ASSUME TypeInv, NEW v \in Var, Setting3(v)
    PROVE  /\ todo # <<>> /\ 1 \in DOMAIN todo
           /\ todo[1].op \in {"set", "override", "write"} /\ todo[1].for = v
           /\ todo[1].to \in Nat /\ SetValue(v, todo[1].to)
           /\ todo[1].op # "set" => v \in Overridable
<1>1. CASE SetByUser(v)
  BY <1>1, FirstTask DEF SetByUser
<1>2. CASE Override(v)
  BY <1>2, FirstTask, OverTask DEF Override
<1>3. CASE WriteBack(v)
  BY <1>3, FirstTask, OverTask DEF WriteBack
<1> QED BY <1>1, <1>2, <1>3 DEF Setting3

LEMMA OrdinaryNews ==
    ASSUME TypeInv, Ordinary
    PROVE  /\ todo # <<>> /\ 1 \in DOMAIN todo /\ todo[1].op \notin ListOps
           /\ UNCHANGED <<phase, present, failed>>
           /\ \E next : Went(next) /\ \A k \in 1 .. Len(next) : next[k].op \notin ListOps
<1> DEFINE News == \E next : Went(next) /\ \A k \in 1 .. Len(next) : next[k].op \notin ListOps
           Start == todo # <<>> /\ 1 \in DOMAIN todo /\ todo[1].op \notin ListOps
<1>1. ASSUME NEW op, NEW x, Doing(op, x), op \notin ListOps PROVE Start
  BY <1>1, FirstTask
<1>2. ASSUME Went(<<>>) PROVE News
  BY <1>2, Shorts
<1>3. ASSUME NEW op, NEW x, NEW n, Went(<<Task(op, x, n)>>), op \notin ListOps PROVE News
  <2>1. PICK r : r = Task(op, x, n)
    OBVIOUS
  <2>2. r.op \notin ListOps
    BY <1>3, <2>1 DEF Task
  <2> QED BY <1>3, <2>1, <2>2, Shorts
<1>4. ASSUME NEW op, NEW x, NEW n, NEW op2, NEW x2, NEW n2,
             Went(<<Task(op, x, n), Task(op2, x2, n2)>>), op \notin ListOps, op2 \notin ListOps
      PROVE  News
  <2>1. PICK r, t : r = Task(op, x, n) /\ t = Task(op2, x2, n2)
    OBVIOUS
  <2>2. r.op \notin ListOps /\ t.op \notin ListOps
    BY <1>4, <2>1 DEF Task
  <2>3. \A k \in 1 .. Len(<<r, t>>) : <<r, t>>[k] \in {r, t}
    BY Shorts
  <2> QED BY <1>4, <2>1, <2>2, <2>3
<1>5. ASSUME NEW v \in Var, Setting3(v) PROVE Start /\ News /\ UNCHANGED <<phase, present, failed>>
  <2>1. Start
    BY <1>5, SetsFirst DEF ListOps
  <2>2. PICK next : /\ Went(next)
                    /\ \A k \in 1 .. Len(next) : /\ next[k].op \in {"toggle", "refresh"}
                                                 /\ next[k].for = ModOf[v]
    BY <1>5, SetsFirst, SetNews
  <2>3. News
    BY <2>2 DEF ListOps
  <2> QED BY <1>5, <2>1, <2>3 DEF Setting3, SetByUser, Override, WriteBack, modVars
<1>6. ASSUME NEW v \in Var, OverrideUnset(v) PROVE Start /\ News /\ UNCHANGED <<phase, present, failed>>
  <2>1. Start
    BY <1>1, <1>6 DEF OverrideUnset, ListOps
  <2>2. News
    <3>1. "override" \notin ListOps
      BY DEF ListOps
    <3>2. Went(<<>>) \/ Went(<<Task("override", v, todo[1].to)>>)
      BY <1>6, OverrideUnsetLeads
    <3> HIDE DEF News
    <3> QED BY <1>2, <1>3, <3>1, <3>2
  <2> QED BY <1>6, <2>1, <2>2 DEF OverrideUnset, modVars
<1>7. ASSUME NEW v \in Var, Restore(v) PROVE Start /\ News /\ UNCHANGED <<phase, present, failed>>
  <2>1. Start
    BY <1>1, <1>7 DEF Restore, ListOps
  <2>2. News
    <3>1. "write" \notin ListOps /\ "unmark" \notin ListOps
      BY DEF ListOps
    <3>2. Went(<<>>) \/ Went(<<Task("write", v, backup[v]), Task("unmark", v, 0)>>)
      BY <1>7, RestoreLeads
    <3> HIDE DEF News
    <3> QED BY <1>2, <1>4, <3>1, <3>2
  <2> QED BY <1>7, <2>1, <2>2 DEF Restore, modVars
<1>8. ASSUME NEW v \in Var, Unmark(v) PROVE Start /\ News /\ UNCHANGED <<phase, present, failed>>
  <2>1. Start
    BY <1>1, <1>8 DEF Unmark, ListOps
  <2>2. News
    BY <1>2, <1>8, PlainLeads
  <2> QED BY <1>8, <2>1, <2>2 DEF Unmark, modVars
<1>9. ASSUME NEW v \in Var, ParseSetting(v) PROVE Start /\ News /\ UNCHANGED <<phase, present, failed>>
  <2>1. Start
    BY <1>1, <1>9 DEF ParseSetting, ListOps
  <2>2. PICK next : /\ Went(next) /\ Len(next) \in Nat \ {0}
                    /\ next[1].op = "override" /\ next[1].for = v
                    /\ \A k \in 2 .. Len(next) :
                         \/ next[k].op = "override unset"
                         \/ next[k].op = "refresh" /\ next[k].for = Keeper
    BY <1>9, SettingNews
  <2>3. Len(next) \in Nat
    BY <2>2
  <2>4. \A k \in 1 .. Len(next) : k = 1 \/ k \in 2 .. Len(next)
    BY <2>3
  <2>5. \A k \in 1 .. Len(next) : next[k].op \in {"override", "override unset", "refresh"}
    BY <2>2, <2>4
  <2>6. News
    BY <2>2, <2>5 DEF ListOps
  <2> QED BY <1>9, <2>1, <2>6 DEF ParseSetting, modVars
<1>10. ASSUME NEW m \in Mod, Toggle(m) PROVE Start /\ News /\ UNCHANGED <<phase, present, failed>>
  <2>1. Start
    BY <1>1, <1>10 DEF Toggle, ListOps
  <2>2. ASSUME \E next :
                /\ Went(next) /\ Len(next) = Len(Overrides) + 2
                /\ \A k \in 1 .. Len(Overrides) : next[k] = Task("restore", Overrides[k], 0)
                /\ next[Len(Overrides) + 1] = Task("flip", m, todo[1].to)
                /\ next[Len(Overrides) + 2] = Task("pieces", m, todo[1].to)
        PROVE News
    <3>1. PICK next :
                /\ Went(next) /\ Len(next) = Len(Overrides) + 2
                /\ \A k \in 1 .. Len(Overrides) : next[k] = Task("restore", Overrides[k], 0)
                /\ next[Len(Overrides) + 1] = Task("flip", m, todo[1].to)
                /\ next[Len(Overrides) + 2] = Task("pieces", m, todo[1].to)
      BY <2>2
    <3>2. ASSUME NEW k \in 1 .. Len(next) PROVE next[k].op \in {"restore", "flip", "pieces"}
      <4>1. PICK l \in Nat : l = Len(Overrides)
        BY ResetFacts
      <4>2. \/ k \in 1 .. l
            \/ k = l + 1 \/ k = l + 2
        BY <3>1, <4>1
      <4>3. \/ next[k] = Task("restore", Overrides[k], 0)
            \/ next[k] = Task("flip", m, todo[1].to) \/ next[k] = Task("pieces", m, todo[1].to)
        BY <3>1, <4>1, <4>2
      <4> QED BY <4>3, Fields
    <3>3. News
      BY <3>1, <3>2 DEF ListOps
    <3> QED BY <3>3
  <2>3. News
    <3>1. "flip" \notin ListOps /\ "pieces" \notin ListOps
      BY DEF ListOps
    <3> HIDE DEF News
    <3>2. \/ Went(<<Task("pieces", m, todo[1].to)>>)
          \/ Went(<<Task("flip", m, todo[1].to), Task("pieces", m, todo[1].to)>>)
          \/ News
      BY <1>10, <2>2, ToggleLeads
    <3> QED BY <1>3, <1>4, <3>1, <3>2
  <2> QED BY <1>10, <2>1, <2>3 DEF Toggle, modVars
<1>11. ASSUME NEW m \in Mod, Flip(m) \/ TogglePieces(m) \/ RefreshPatches(m)
       PROVE  Start /\ News /\ UNCHANGED <<phase, present, failed>>
  <2>1. Start
    BY <1>1, <1>11 DEF Flip, TogglePieces, RefreshPatches, ListOps
  <2>2. News
    BY <1>2, <1>11, PlainLeads
  <2> QED BY <1>11, <2>1, <2>2 DEF Flip, TogglePieces, RefreshPatches
<1> QED BY <1>5, <1>6, <1>7, <1>8, <1>9, <1>10, <1>11 DEF Ordinary

LEMMA LoadInit == Init => LoadInv
<1> SUFFICES ASSUME Init PROVE LoadInv
  OBVIOUS
<1>1. PICK l \in Nat : l = Len(ModOrder)
  BY ListLeads
<1>2. /\ DOMAIN todo = 1 .. l
      /\ \A k \in 1 .. l : todo[k] = Task("load", ModOrder[k], 0)
  <2>1. PICK q : q = TasksFor("load", ModOrder, 0)
    OBVIOUS
  <2>2. /\ q \in Seq(AnyTask) /\ Len(q) = l
        /\ \A k \in 1 .. l : q[k] = Task("load", ModOrder[k], 0)
    BY <1>1, <2>1, ListLeads
  <2>3. DOMAIN q = 1 .. l
    BY <2>2
  <2> QED BY <2>1, <2>2, <2>3 DEF Init
<1>3. \A k \in 1 .. l : todo[k].op = "load" /\ todo[k].for = ModOrder[k]
  BY <1>2, Fields
<1>4. \A j, k \in 1 .. l : ModOrder[j] = ModOrder[k] => j = k
  <2>1. DOMAIN ModOrder = 1 .. l
    BY <1>1, Ordering
  <2> QED BY <2>1, Ordering
<1>5. \A j, k \in DOMAIN todo :
        todo[j].op = "load" /\ todo[k].op = "load" /\ todo[j].for = todo[k].for => j = k
  BY <1>2, <1>3, <1>4
<1>6. \A k \in DOMAIN todo : todo[k].op = "load" =>
        phase = "loading" /\ todo[k].for \notin present \cup failed
  BY DEF Init
<1>7. /\ \A m \in Mod : m \notin detours /\ patched[m] = OFF
      /\ phase = "loading"
  BY DEF Init
<1>8. \A k \in DOMAIN todo : todo[k].op \notin {"unload", "delete"}
  BY <1>2, <1>3
<1>9. \A m \in Mod : Pending("load", m)
  <2>1. ModOrder \in Seq(Mod) /\ Elems(ModOrder) = Mod
    BY Ordering
  <2>2. \A m \in Mod : \E k \in 1 .. l : ModOrder[k] = m
    BY <1>1, <2>1 DEF Elems
  <2> QED BY <1>2, <1>3, <2>2 DEF Pending, At
<1> QED BY <1>5, <1>6, <1>7, <1>8, <1>9 DEF LoadInv

LEMMA LoadNext == TypeInv /\ LoadInv /\ [Next]_vars => LoadInv'
<1> SUFFICES ASSUME TypeInv, LoadInv, [Next]_vars PROVE LoadInv'
  OBVIOUS
<1>1. CASE Ordinary
  <2>1. PICK next : Went(next) /\ \A k \in 1 .. Len(next) : next[k].op \notin ListOps
    BY <1>1, OrdinaryNews
  <2>2. \A m \in Mod : m \in failed \/ m \notin present => m \notin detours' /\ patched'[m] = OFF
    <3>1. CASE UNCHANGED <<detours, patched>>
      BY <3>1 DEF LoadInv
    <3>2. ASSUME NEW m \in Mod, TogglePieces(m)
          PROVE  \A w \in Mod : w \in failed \/ w \notin present => w \notin detours' /\ patched'[w] = OFF
      BY <3>2 DEF TogglePieces, CanToggle, LoadInv, TypeInv
    <3>3. ASSUME NEW m \in Mod, RefreshPatches(m)
          PROVE  \A w \in Mod : w \in failed \/ w \notin present => w \notin detours' /\ patched'[w] = OFF
      BY <3>3 DEF RefreshPatches, CanToggle, LoadInv, TypeInv
    <3>4. UNCHANGED <<detours, patched>> \/ \E m \in Mod : TogglePieces(m) \/ RefreshPatches(m)
      BY <1>1 DEF Ordinary, Setting3, SetByUser, Override, WriteBack, OverrideUnset, Restore, Unmark,
                  ParseSetting, Toggle, Flip, modVars
    <3> QED BY <3>1, <3>2, <3>3, <3>4
  <2> QED BY <1>1, <2>1, <2>2, OrdinaryNews, LoadKept
<1>2. ASSUME NEW m \in Mod, LoadMod(m) PROVE LoadInv'
  <2>1. /\ todo # <<>> /\ 1 \in DOMAIN todo /\ todo[1].op = "load" /\ todo[1].for = m
    BY <1>2, FirstTask DEF LoadMod
  <2>2. PICK next : Went(next) /\ \A k \in 1 .. Len(next) : next[k].op = "toggle"
    <3>1. PICK t : t = Task("toggle", m, 1)
      OBVIOUS
    <3>2. t.op = "toggle"
      BY <3>1, Fields
    <3>3. Went(<<>>) \/ Went(<<t>>)
      BY <1>2, <3>1, LoadLeads
    <3> QED BY <3>2, <3>3, Shorts
  <2>3. ASSUME NEW k \in DOMAIN todo', todo'[k].op \in ListOps
        PROVE  /\ k - Len(next) + 1 \in DOMAIN todo /\ k - Len(next) + 1 > 1
               /\ todo'[k] = todo[k - Len(next) + 1]
    BY <2>2, <2>3, CameFrom DEF ListOps
  <2>4. phase = "loading" /\ m \notin present /\ m \notin failed
    BY <2>1 DEF LoadInv
  <2>5. /\ present' = present \cup {m} /\ failed' \subseteq failed \cup {m} /\ phase' = phase
        /\ UNCHANGED <<detours, patched>>
    BY <1>2 DEF LoadMod
  <2>6. \A k \in DOMAIN todo' : todo'[k].op = "load" =>
          phase' = "loading" /\ todo'[k].for \notin present' \cup failed'
    <3>1. SUFFICES ASSUME NEW k \in DOMAIN todo', todo'[k].op = "load"
                   PROVE  todo'[k].for \notin present' \cup failed'
      BY <2>4, <2>5
    <3>2. PICK j \in DOMAIN todo : j # 1 /\ todo'[k] = todo[j]
      BY <2>3, <3>1 DEF ListOps
    <3>3. todo[j].for # m
      BY <2>1, <3>1, <3>2 DEF LoadInv
    <3> QED BY <2>5, <3>1, <3>2, <3>3 DEF LoadInv
  <2>7. \A j, k \in DOMAIN todo' :
          todo'[j].op = "load" /\ todo'[k].op = "load" /\ todo'[j].for = todo'[k].for => j = k
    <3>1. SUFFICES ASSUME NEW j \in DOMAIN todo', NEW k \in DOMAIN todo',
                          todo'[j].op = "load", todo'[k].op = "load", todo'[j].for = todo'[k].for
                   PROVE  j = k
      OBVIOUS
    <3>2. j - Len(next) + 1 = k - Len(next) + 1
      BY <2>3, <3>1 DEF LoadInv, ListOps
    <3>3. j \in Int /\ k \in Int /\ Len(next) \in Int
      BY <2>2, <3>1 DEF Went
    <3> QED BY <3>2, <3>3
  <2>8. \A w \in Mod : w \in failed' \/ w \notin present' => w \notin detours' /\ patched'[w] = OFF
    BY <2>4, <2>5 DEF LoadInv
  <2>9. \A k \in DOMAIN todo' : todo'[k].op \in {"unload", "delete"} => phase' = "unloading"
    BY <2>3, <2>5 DEF LoadInv, ListOps
  <2>10. ASSUME NEW w \in Mod \ present' PROVE Pending("load", w)'
    <3>1. w \in Mod \ present /\ w # m
      BY <2>5, <2>10
    <3>2. Pending("load", w) /\ ~At(1, "load", w)
      BY <2>1, <2>4, <3>1 DEF LoadInv, At
    <3> QED BY <2>2, <3>2, StaysPending
  <2> QED BY <2>4, <2>5, <2>6, <2>7, <2>8, <2>9, <2>10 DEF LoadInv
<1>3. ASSUME NEW m \in Mod, UnloadMod(m) PROVE LoadInv'
  <2>1. /\ todo # <<>> /\ 1 \in DOMAIN todo /\ todo[1].op = "unload" /\ todo[1].for = m
    BY <1>3, FirstTask DEF UnloadMod
  <2>2. UNCHANGED <<phase, modVars, varVars>> /\ phase = "unloading"
    BY <1>3, <2>1 DEF UnloadMod, LoadInv
  <2>3. PICK next, l :
          /\ Went(next) /\ l \in Nat /\ Len(next) = l + 2
          /\ next[1] = Task("toggle", m, 0) /\ next[l + 2] = Task("delete", m, 0)
          /\ \A k \in 2 .. l + 1 : next[k].op = "restore"
    BY <1>3, UnloadLeads
  <2>4. \A k \in DOMAIN todo' : todo'[k].op # "load"
    <3>1. SUFFICES ASSUME NEW k \in DOMAIN todo', todo'[k].op = "load" PROVE FALSE
      OBVIOUS
    <3>2. \A j \in DOMAIN todo : todo[j].op # "load"
      BY <2>2 DEF LoadInv
    <3>3. k \in 1 .. l + 2 /\ todo'[k] = next[k]
      BY <2>3, <3>1, <3>2, CameFrom
    <3>4. k = 1 \/ k = l + 2 \/ k \in 2 .. l + 1
      BY <2>3, <3>3
    <3> QED BY <2>3, <3>1, <3>3, <3>4, Fields
  <2>5. Pending("delete", m)'
    <3>1. l + 2 \in 1 .. Len(next)
      BY <2>3
    <3> QED BY <2>3, <3>1, NowPending, Fields
  <2>6. ASSUME NEW w \in present, w # m PROVE Pending("unload", w)' \/ Pending("delete", w)'
    <3>1. Pending("unload", w) \/ Pending("delete", w)
      BY <2>2 DEF LoadInv
    <3>2. ~At(1, "unload", w) /\ ~At(1, "delete", w)
      BY <2>1, <2>6 DEF At
    <3> QED BY <2>3, <3>1, <3>2, StaysPending
  <2> QED BY <2>2, <2>4, <2>5, <2>6 DEF LoadInv, modVars
<1>4. ASSUME NEW m \in Mod, DeletePieces(m) PROVE LoadInv'
  <2>1. /\ todo # <<>> /\ 1 \in DOMAIN todo /\ todo[1].op = "delete" /\ todo[1].for = m
    BY <1>4, FirstTask DEF DeletePieces
  <2>2. phase = "unloading" /\ phase' = phase /\ failed' = failed
    BY <1>4, <2>1 DEF DeletePieces, LoadInv
  <2>3. Went(<<>>)
    BY <1>4, PlainLeads
  <2>4. \A k \in DOMAIN todo' : todo'[k].op # "load"
    <3>1. \A j \in DOMAIN todo : todo[j].op # "load"
      BY <2>2 DEF LoadInv
    <3> QED BY <2>3, <3>1, CameFrom, Shorts
  <2>5. ASSUME NEW w \in present' PROVE Pending("unload", w)' \/ Pending("delete", w)'
    <3>1. w \in present /\ w # m
      BY <1>4, <2>5 DEF DeletePieces
    <3>2. Pending("unload", w) \/ Pending("delete", w)
      BY <2>2, <3>1 DEF LoadInv
    <3>3. ~At(1, "unload", w) /\ ~At(1, "delete", w)
      BY <2>1, <3>1 DEF At
    <3> QED BY <2>3, <3>2, <3>3, StaysPending
  <2>6. \A w \in Mod : w \in failed' \/ w \notin present' => w \notin detours' /\ patched'[w] = OFF
    BY <1>4 DEF DeletePieces, LoadInv, TypeInv
  <2> QED BY <2>2, <2>4, <2>5, <2>6 DEF LoadInv
<1>5. CASE EndOfList
  <2>1. todo = <<>> /\ todo' = <<>> /\ DOMAIN todo = {}
    BY <1>5 DEF EndOfList
  <2>2. \A op, x : ~Pending(op, x)
    BY <2>1 DEF Pending
  <2>3. /\ UNCHANGED <<enabled, failed, present, detours, patched>>
        /\ \A m \in Mod : m \in failed \/ m \notin present => m \notin detours /\ patched[m] = OFF
    BY <1>5 DEF EndOfList, modVars, LoadInv
  <2>4. CASE phase = "loading"
    <3>1. present = Mod
      BY <2>2, <2>4 DEF LoadInv, TypeInv
    <3> QED BY <1>5, <2>1, <2>3, <2>4, <3>1 DEF EndOfList, LoadInv
  <2>5. CASE phase = "unloading"
    <3>1. present = {}
      BY <2>2, <2>5 DEF LoadInv
    <3> QED BY <1>5, <2>1, <2>3, <2>5, <3>1 DEF EndOfList, LoadInv
  <2> QED BY <1>5, <2>4, <2>5 DEF EndOfList
<1>6. ASSUME Idle, phase' \in {"running"}, UNCHANGED modVars,
             \A k \in DOMAIN todo' : todo'[k].op \notin ListOps
      PROVE  LoadInv'
  BY <1>6 DEF LoadInv, Idle, modVars, ListOps
<1>7. ASSUME NEW v \in Var, Console(v) PROVE LoadInv'
  <2>1. PICK n, t : todo' = <<t>> /\ t = Task("set", v, n)
    BY <1>7 DEF Console
  <2>2. t.op = "set"
    BY <2>1, Fields
  <2>3. \A k \in DOMAIN todo' : todo'[k].op \notin ListOps
    BY <2>1, <2>2 DEF ListOps
  <2> QED BY <1>6, <1>7, <2>3 DEF Console, Idle
<1>8. CASE ResetConVars
  <2>1. \A k \in DOMAIN todo' : todo'[k].op = "set"
    BY <1>8, ListLeads, Fields, LenProperties DEF ResetConVars
  <2> QED BY <1>6, <1>8, <2>1 DEF ResetConVars, Idle, ListOps
<1>9. CASE ParseMission
  <2>1. \A k \in DOMAIN todo' : todo'[k].op \in {"refresh", "restore", "setting"}
    BY <1>9, MissionLeads, Fields, LenProperties
  <2> QED BY <1>6, <1>9, <2>1 DEF ParseMission, Idle, ListOps
<1>10. CASE LevelChange
  <2>1. \A k \in DOMAIN todo' : todo'[k].op = "restore"
    BY <1>10, ResetFacts, Fields, LenProperties DEF LevelChange
  <2> QED BY <1>6, <1>10, <2>1 DEF LevelChange, Idle, ListOps
<1>11. CASE UnloadExtension
  <2>1. /\ todo' \in Seq(AnyTask) /\ Len(todo') = Len(ModOrder) /\ Len(ModOrder) \in Nat
        /\ \A k \in 1 .. Len(ModOrder) : todo'[k] = Task("unload", ModOrder[k], 0)
    BY <1>11, ListLeads DEF UnloadExtension
  <2>2. /\ DOMAIN todo' = 1 .. Len(ModOrder)
        /\ \A k \in DOMAIN todo' : todo'[k].op = "unload" /\ todo'[k].for = ModOrder[k]
    BY <2>1, Fields, LenProperties
  <2>3. \A m \in Mod : \E k \in 1 .. Len(ModOrder) : ModOrder[k] = m
    BY Ordering DEF Elems
  <2>4. \A m \in Mod : Pending("unload", m)'
    BY <2>2, <2>3 DEF Pending, At
  <2> QED BY <1>11, <2>2, <2>4 DEF UnloadExtension, LoadInv, Idle, modVars
<1>12. CASE UNCHANGED vars
  BY <1>12 DEF LoadInv, vars, modVars, Pending, At
<1> QED
  BY <1>1, <1>2, <1>3, <1>4, <1>5, <1>7, <1>8, <1>9, <1>10, <1>11, <1>12
  DEF Next, Ordinary, Setting3

\* CModManager::Load and Unload come to every mod once, pieces are only on between a
\* mod's loading and its deletion, and everything keeps to its type.
THEOREM LoadAlways == Spec => [](TypeInv /\ LoadInv)
<1>1. Init => TypeInv /\ LoadInv
  BY InitTypes, LoadInit
<1>2. (TypeInv /\ LoadInv) /\ [Next]_vars => (TypeInv /\ LoadInv)'
  BY Types, LoadNext
<1> QED BY <1>1, <1>2, PTL DEF Spec

\* ToggleAllPatches, ToggleAllDetours and ToggleAllVirtualHooks look at m_bFailed, so
\* nothing of a failed mod is ever on.
THEOREM FailedModsStayOff == Spec => []FailedStaysOff
<1>1. TypeInv /\ LoadInv => FailedStaysOff
  BY DEF TypeInv, LoadInv, FailedStaysOff
<1> QED BY <1>1, LoadAlways, PTL

\* IMod::InvokeUnload deletes the pieces of every mod, and those of a mod that is
\* enabled again by the unloading of another stay off.
THEOREM NothingIsLeft == Spec => []NothingLeftBehind
<1>1. TypeInv /\ LoadInv => NothingLeftBehind
  BY DEF TypeInv, LoadInv, NothingLeftBehind
<1> QED BY <1>1, LoadAlways, PTL

-----------------------------------------------------------------------------

\* New tasks that keep m_bEnabled and the detours of a mod together.
Paired(next) ==
    /\ \A k \in 1 .. Len(next) : next[k].op = "flip" =>
         /\ k + 1 \in 1 .. Len(next)
         /\ next[k+1].op = "pieces" /\ next[k+1].for = next[k].for /\ next[k+1].to = next[k].to
    /\ \A k \in 1 .. Len(next) : next[k].op = "pieces" =>
         IF k = 1 THEN next[k].for \in enabled <=> next[k].to # 0
         ELSE next[k-1].op = "flip" /\ next[k-1].for = next[k].for

LEMMA FollowKept ==
    ASSUME FollowInv, NEW next, Went(next), Paired(next),
           todo[1].op \notin {"flip", "pieces"}, enabled' = enabled,
           phase' \in {"loading", "running"} =>
             \A m \in Mod : m \in detours' <=> m \in enabled \ failed'
    PROVE  FollowInv'
<1>0. PICK l \in Nat : l = Len(next)
  BY DEF Went
<1>1. ASSUME NEW k \in DOMAIN todo', todo'[k].op = "flip"
      PROVE  /\ k + 1 \in DOMAIN todo'
             /\ At(k + 1, "pieces", todo[k].for)' /\ todo'[k+1].to = todo'[k].to
  <2>1. CASE k \in 1 .. l /\ todo'[k] = next[k]
    <3>1. /\ k + 1 \in 1 .. l
          /\ next[k+1].op = "pieces" /\ next[k+1].for = next[k].for /\ next[k+1].to = next[k].to
      BY <1>0, <1>1, <2>1 DEF Paired
    <3>2. k + 1 \in DOMAIN todo' /\ todo'[k+1] = next[k+1]
      BY <1>0, <3>1 DEF Went
    <3> QED BY <2>1, <3>1, <3>2 DEF At
  <2>2. CASE /\ k > l /\ k - l + 1 \in DOMAIN todo /\ k - l + 1 > 1
             /\ todo'[k] = todo[k - l + 1]
    <3>1. PICK j \in DOMAIN todo : j = k - l + 1
      BY <2>2
    <3>2. /\ j + 1 \in DOMAIN todo
          /\ At(j + 1, "pieces", todo[j].for) /\ todo[j+1].to = todo[j].to
      BY <1>1, <2>2, <3>1 DEF FollowInv
    <3>3. j \in Int /\ j > 1 /\ k \in Int
      BY <2>2, <3>1 DEF Went
    <3>4. j + 1 # 1 /\ (j + 1) - 1 + l = k + 1
      BY <3>1, <3>3
    <3>5. k + 1 \in DOMAIN todo' /\ todo'[k+1] = todo[j+1]
      BY <1>0, <3>2, <3>4, WentTo
    <3> QED BY <2>2, <3>1, <3>2, <3>5 DEF At
  <2> QED BY <1>0, <2>1, <2>2, CameFrom
<1>2. ASSUME NEW k \in DOMAIN todo', todo'[k].op = "pieces"
      PROVE  IF k = 1 THEN todo'[k].for \in enabled' <=> todo'[k].to # 0
             ELSE todo'[k-1].op = "flip" /\ todo'[k-1].for = todo'[k].for
  <2>1. CASE k \in 1 .. l /\ todo'[k] = next[k]
    <3>1. CASE k = 1
      BY <1>0, <1>2, <2>1, <3>1 DEF Paired
    <3>2. CASE k # 1
      <4>1. k - 1 \in 1 .. l
        BY <2>1, <3>2
      <4>2. todo'[k-1] = next[k-1]
        BY <1>0, <4>1 DEF Went
      <4> QED BY <1>0, <1>2, <2>1, <3>2, <4>2 DEF Paired
    <3> QED BY <3>1, <3>2
  <2>2. CASE /\ k > l /\ k - l + 1 \in DOMAIN todo /\ k - l + 1 > 1
             /\ todo'[k] = todo[k - l + 1]
    <3>1. PICK j \in DOMAIN todo : j = k - l + 1
      BY <2>2
    <3>2. j \in Int /\ j > 1 /\ k \in Int
      BY <2>2, <3>1 DEF Went
    <3>3. todo[j-1].op = "flip" /\ todo[j-1].for = todo[j].for
      BY <1>2, <2>2, <3>1, <3>2 DEF FollowInv
    <3>4. j - 1 # 1 /\ j - 1 \in DOMAIN todo
      <4>1. PICK n \in Nat : DOMAIN todo = 1 .. n
        BY WentLengths
      <4>2. j \in 1 .. n
        BY <4>1
      <4>3. j - 1 \in 1 .. n
        BY <3>2, <4>2
      <4>4. j - 1 # 1
        BY <3>3
      <4> QED BY <4>1, <4>3, <4>4
    <3>5. todo'[(j - 1) - 1 + l] = todo[j-1]
      BY <1>0, <3>4, WentTo
    <3>6. (j - 1) - 1 + l = k - 1 /\ k # 1
      BY <3>1, <3>2, <3>4
    <3> QED BY <2>2, <3>1, <3>3, <3>5, <3>6
  <2> QED BY <1>0, <2>1, <2>2, CameFrom
<1> QED BY <1>1, <1>2 DEF FollowInv

LEMMA FollowInit == Init => FollowInv /\ LoadingInv
<1> SUFFICES ASSUME Init PROVE FollowInv /\ LoadingInv
  OBVIOUS
<1>1. \A k \in DOMAIN todo : todo[k].op = "load"
  <2>1. PICK q : q = TasksFor("load", ModOrder, 0)
    OBVIOUS
  <2>2. /\ q \in Seq(AnyTask) /\ Len(q) = Len(ModOrder)
        /\ \A k \in 1 .. Len(ModOrder) : q[k] = Task("load", ModOrder[k], 0)
    BY <2>1, ListLeads
  <2>3. \A k \in DOMAIN q : q[k].op = "load"
    BY <2>2, Fields, LenProperties
  <2> QED BY <2>1, <2>3 DEF Init
<1>2. /\ detours = {} /\ enabled = {} /\ overridden = {}
      /\ \A v \in Var : value[v] = 0
  BY DEF Init
<1> QED BY <1>1, <1>2 DEF FollowInv, LoadingInv

LEMMA LoadingNext == TypeInv /\ LoadInv /\ LoadingInv /\ [Next]_vars => LoadingInv'
<1> SUFFICES ASSUME TypeInv, LoadInv, LoadingInv, [Next]_vars, phase' = "loading"
             PROVE  LoadingInv'
  BY DEF LoadingInv
<1> DEFINE Good(t, p) == /\ t.op \in {"toggle", "flip", "pieces"}
                         /\ t.for \in p \cap DefaultOn /\ t.to # 0
<1>0. phase = "loading" \/ ~(phase = "loading")
  OBVIOUS
<1>1. CASE UNCHANGED vars
  BY <1>1 DEF LoadingInv, vars, modVars, varVars
<1>2. ASSUME Next PROVE phase = "loading" /\ todo # <<>> /\ 1 \in DOMAIN todo
  <2>1. phase = "loading"
    BY <1>2, ZenonT(40)
    DEF Next, SetByUser, Override, OverrideUnset, Restore, WriteBack, Unmark, ParseSetting,
                Toggle, Flip, TogglePieces, RefreshPatches, LoadMod, UnloadMod, DeletePieces,
                EndOfList, Console, ResetConVars, ParseMission, LevelChange, UnloadExtension, Idle
  <2>2. todo # <<>>
    BY <1>2, <2>1 DEF Next, SetByUser, Override, OverrideUnset, Restore, WriteBack, Unmark, ParseSetting,
                Toggle, Flip, TogglePieces, RefreshPatches, LoadMod, UnloadMod, DeletePieces,
                EndOfList, Console, ResetConVars, ParseMission, LevelChange, UnloadExtension, Idle,
                Doing
  <2> QED BY <2>1, <2>2 DEF TypeInv
<1>3. ASSUME Next
      PROVE  \E m \in Mod : Toggle(m) \/ Flip(m) \/ TogglePieces(m) \/ LoadMod(m)
  <2>1. /\ phase = "loading" /\ todo # <<>> /\ 1 \in DOMAIN todo /\ Head(todo) = todo[1]
    BY <1>2, <1>3, HeadTailProperties DEF TypeInv
  <2>2. todo[1].op \in {"load", "toggle", "flip", "pieces"}
    BY <2>1 DEF LoadingInv
  <2> QED BY <1>3, <2>1, <2>2
          DEF Next, SetByUser, Override, OverrideUnset, Restore, WriteBack, Unmark, ParseSetting,
              RefreshPatches, UnloadMod, DeletePieces,
              EndOfList, Console, ResetConVars, ParseMission, LevelChange, UnloadExtension, Idle,
              Doing
<1>4. ASSUME phase = "loading", NEW next, Went(next),
             \A k \in 1 .. Len(next) : Good(next[k], present'), present \subseteq present'
      PROVE  \A k \in DOMAIN todo' : todo'[k].op # "load" => Good(todo'[k], present')
  <2>1. \A k \in DOMAIN todo : todo[k].op # "load" => Good(todo[k], present)
    BY <1>4 DEF LoadingInv
  <2> QED BY <1>4, <2>1, CameFrom
<1>5. ASSUME NEW m \in Mod, Next, Toggle(m) PROVE LoadingInv'
  <2>1. phase = "loading" /\ 1 \in DOMAIN todo /\ UNCHANGED <<phase, modVars, varVars>>
        /\ todo[1].op = "toggle" /\ todo[1].for = m
    BY <1>2, <1>5, FirstTask DEF Toggle
  <2>2. m \in present \cap DefaultOn /\ todo[1].to # 0
    BY <2>1 DEF LoadingInv
  <2>3. PICK f, p : f = Task("flip", m, todo[1].to) /\ p = Task("pieces", m, todo[1].to)
    OBVIOUS
  <2>4. Good(f, present) /\ Good(p, present)
    BY <2>2, <2>3, Fields
  <2>5. Went(<<p>>) \/ Went(<<f, p>>)
    BY <1>5, <2>2, <2>3, ToggleLeads
  <2>6. present' = present
    BY <2>1 DEF modVars
  <2>7. \A k \in DOMAIN todo' : todo'[k].op # "load" => Good(todo'[k], present')
    <3>1. \A k \in 1 .. Len(<<f, p>>) : <<f, p>>[k] \in {f, p}
      BY Shorts
    <3>2. \A k \in 1 .. Len(<<p>>) : <<p>>[k] = p
      BY Shorts
    <3> HIDE DEF Good
    <3> QED BY <1>4, <2>1, <2>4, <2>5, <2>6, <3>1, <3>2
  <2> QED BY <2>1, <2>7 DEF LoadingInv, modVars, varVars
<1>6. ASSUME NEW m \in Mod, Next, LoadMod(m) PROVE LoadingInv'
  <2>1. phase = "loading" /\ UNCHANGED <<phase, enabled, varVars>> /\ present' = present \cup {m}
    BY <1>2, <1>6 DEF LoadMod
  <2>2. PICK t : t = Task("toggle", m, 1)
    OBVIOUS
  <2>3. m \in DefaultOn => Good(t, present')
    BY <2>1, <2>2, Fields
  <2>4. IF m \in DefaultOn THEN Went(<<t>>) ELSE Went(<<>>)
    BY <1>6, <2>2, LoadLeads
  <2>5. \A k \in DOMAIN todo' : todo'[k].op # "load" => Good(todo'[k], present')
    <3> HIDE DEF Good
    <3>1. PICK next : Went(next) /\ \A k \in 1 .. Len(next) : Good(next[k], present')
      <4>1. CASE m \in DefaultOn
        BY <2>3, <2>4, <4>1, Shorts
      <4>2. CASE m \notin DefaultOn
        BY <2>4, <4>2, Shorts
      <4> QED BY <4>1, <4>2
    <3> QED BY <1>4, <2>1, <3>1
  <2> QED BY <2>1, <2>5 DEF LoadingInv, varVars
<1>7. ASSUME NEW m \in Mod, Next, Flip(m) \/ TogglePieces(m) PROVE LoadingInv'
  <2>1. /\ phase = "loading" /\ 1 \in DOMAIN todo /\ todo[1].op \in {"flip", "pieces"}
        /\ todo[1].for = m /\ Head(todo) = todo[1]
    BY <1>2, <1>7, FirstTask DEF Flip, TogglePieces
  <2>2. m \in present \cap DefaultOn /\ todo[1].to # 0
    BY <2>1 DEF LoadingInv
  <2>3. UNCHANGED <<phase, present, varVars>> /\ (enabled' = enabled \/ enabled' = enabled \cup {m})
    BY <1>7, <2>1, <2>2 DEF Flip, TogglePieces
  <2>4. Went(<<>>)
    BY <1>7, PlainLeads
  <2>5. \A k \in DOMAIN todo' : todo'[k].op # "load" => Good(todo'[k], present')
    <3> HIDE DEF Good
    <3> QED BY <1>4, <2>1, <2>3, <2>4, Shorts
  <2>6. phase = "loading" /\ LoadingInv
    BY <2>1
  <2> QED BY <2>2, <2>3, <2>5, <2>6 DEF LoadingInv, varVars
<1> QED BY <1>1, <1>3, <1>5, <1>6, <1>7

\* What a command of the console or of the engine starts.
Command ==
    (\E v \in Var : Console(v)) \/ ResetConVars \/ ParseMission \/ LevelChange \/ UnloadExtension

LEMMA CommandNews ==
    ASSUME TypeInv, Command
    PROVE  /\ phase = "running" /\ todo = <<>> /\ UNCHANGED <<modVars, varVars>>
           /\ todo' \in Seq(AnyTask)
           /\ \/ phase' = "running" /\ \A k \in DOMAIN todo' : todo'[k].op = "set"
              \/ phase' = "running" /\ Keeper \in enabled /\ \A k \in DOMAIN todo' : todo'[k].op = "restore"
              \/ /\ phase' = "running" /\ Keeper \in detours
                 /\ \A k \in DOMAIN todo' : \/ /\ todo'[k].op = "refresh"
                                               /\ todo'[k].for = Keeper /\ todo'[k].to = 0
                                            \/ todo'[k].op \in {"restore", "setting"}
              \/ /\ phase' = "unloading"
                 /\ \A k \in DOMAIN todo' : todo'[k].op = "unload"
                 /\ \A m \in Mod : Pending("unload", m)'
<1>0. todo' \in Seq(AnyTask)
  <2>1. [Next]_vars
    BY DEF Command, Next
  <2> QED BY <2>1, Types DEF TypeInv
<1>1. ASSUME NEW v \in Var, Console(v) PROVE \A k \in DOMAIN todo' : todo'[k].op = "set"
  <2>1. PICK n, t : todo' = <<t>> /\ t = Task("set", v, n)
    BY <1>1 DEF Console
  <2>2. t.op = "set"
    BY <2>1, Fields
  <2> QED BY <2>1, <2>2
<1>2. ASSUME ResetConVars PROVE \A k \in DOMAIN todo' : todo'[k].op = "set"
  BY <1>2, ListLeads, Fields, LenProperties DEF ResetConVars
<1>3. ASSUME ParseMission
      PROVE  \A k \in DOMAIN todo' : \/ /\ todo'[k].op = "refresh"
                                        /\ todo'[k].for = Keeper /\ todo'[k].to = 0
                                     \/ todo'[k].op \in {"restore", "setting"}
  BY <1>3, MissionLeads, Fields, LenProperties
<1>4. ASSUME LevelChange PROVE \A k \in DOMAIN todo' : todo'[k].op = "restore"
  BY <1>4, ResetFacts, Fields, LenProperties DEF LevelChange
<1>5. ASSUME UnloadExtension
      PROVE  /\ \A k \in DOMAIN todo' : todo'[k].op = "unload"
             /\ \A m \in Mod : Pending("unload", m)'
  <2>1. /\ todo' \in Seq(AnyTask) /\ Len(todo') = Len(ModOrder) /\ Len(ModOrder) \in Nat
        /\ \A k \in 1 .. Len(ModOrder) : todo'[k] = Task("unload", ModOrder[k], 0)
    BY <1>5, ListLeads DEF UnloadExtension
  <2>2. /\ DOMAIN todo' = 1 .. Len(ModOrder)
        /\ \A k \in DOMAIN todo' : todo'[k].op = "unload" /\ todo'[k].for = ModOrder[k]
    BY <2>1, Fields, LenProperties
  <2>3. \A m \in Mod : \E k \in 1 .. Len(ModOrder) : ModOrder[k] = m
    BY Ordering DEF Elems
  <2> QED BY <2>2, <2>3 DEF Pending, At
<1>6. Idle /\ UNCHANGED <<modVars, varVars>>
  BY DEF Command, Console, ResetConVars, ParseMission, LevelChange, UnloadExtension
<1>7. CASE \E v \in Var : Console(v)
  BY <1>0, <1>1, <1>6, <1>7 DEF Console, Idle
<1>8. CASE ResetConVars
  BY <1>0, <1>2, <1>6, <1>8 DEF ResetConVars, Idle
<1>9. CASE ParseMission
  BY <1>0, <1>3, <1>6, <1>9 DEF ParseMission, Idle
<1>10. CASE LevelChange
  BY <1>0, <1>4, <1>6, <1>10 DEF LevelChange, Idle
<1>11. CASE UnloadExtension
  BY <1>0, <1>5, <1>6, <1>11 DEF UnloadExtension, Idle
<1> QED BY <1>7, <1>8, <1>9, <1>10, <1>11 DEF Command

\* The operations that the other ordinary steps leave to do.
LeadsTo ==
    ({"set", "override", "write"} \X {"toggle", "refresh"})
      \cup ({"override unset"} \X {"override"})
      \cup ({"restore"} \X {"write", "unmark"})
      \cup ({"setting"} \X {"override", "override unset", "refresh"})

VarStep(v) == Setting3(v) \/ OverrideUnset(v) \/ Restore(v) \/ Unmark(v) \/ ParseSetting(v)

LEMMA VarNews ==
    ASSUME TypeInv, NEW v \in Var, VarStep(v)
    PROVE  /\ todo # <<>> /\ 1 \in DOMAIN todo
           /\ todo[1].op \in {"set", "override", "write", "override unset", "restore", "unmark", "setting"}
           /\ UNCHANGED <<phase, modVars>>
           /\ \E next : /\ Went(next)
                        /\ \A k \in 1 .. Len(next) : <<todo[1].op, next[k].op>> \in LeadsTo
<1>1. CASE Setting3(v)
  <2>1. PICK next : /\ Went(next)
                    /\ \A k \in 1 .. Len(next) : next[k].op \in {"toggle", "refresh"}
    BY <1>1, SetsFirst, SetNews
  <2>2. \A k \in 1 .. Len(next) : <<todo[1].op, next[k].op>> \in LeadsTo
    BY <1>1, <2>1, SetsFirst DEF LeadsTo
  <2> QED BY <1>1, <2>1, <2>2, SetsFirst DEF Setting3, SetByUser, Override, WriteBack
<1>2. CASE OverrideUnset(v)
  <2>1. todo # <<>> /\ 1 \in DOMAIN todo /\ todo[1].op = "override unset"
    BY <1>2, FirstTask DEF OverrideUnset
  <2>2. PICK t : t = Task("override", v, todo[1].to)
    OBVIOUS
  <2>3. t.op = "override"
    BY <2>2, Fields
  <2>4. Went(<<>>) \/ Went(<<t>>)
    BY <1>2, <2>2, OverrideUnsetLeads
  <2>5. PICK next : Went(next) /\ \A k \in 1 .. Len(next) : next[k].op = "override"
    BY <2>3, <2>4, Shorts
  <2> QED BY <1>2, <2>1, <2>5 DEF OverrideUnset, LeadsTo
<1>3. CASE Restore(v)
  <2>1. todo # <<>> /\ 1 \in DOMAIN todo /\ todo[1].op = "restore"
    BY <1>3, FirstTask DEF Restore
  <2>2. PICK r, t : r = Task("write", v, backup[v]) /\ t = Task("unmark", v, 0)
    OBVIOUS
  <2>3. r.op = "write" /\ t.op = "unmark"
    BY <2>2, Fields
  <2>4. Went(<<>>) \/ Went(<<r, t>>)
    BY <1>3, <2>2, RestoreLeads
  <2>5. \A k \in 1 .. Len(<<r, t>>) : <<r, t>>[k] \in {r, t}
    BY Shorts
  <2>6. PICK next : Went(next) /\ \A k \in 1 .. Len(next) : next[k].op \in {"write", "unmark"}
    BY <2>3, <2>4, <2>5, Shorts
  <2> QED BY <1>3, <2>1, <2>6 DEF Restore, LeadsTo
<1>4. CASE Unmark(v)
  <2>1. todo # <<>> /\ 1 \in DOMAIN todo /\ todo[1].op = "unmark"
    BY <1>4, FirstTask DEF Unmark
  <2> QED BY <1>4, <2>1, PlainLeads, Shorts DEF Unmark
<1>5. CASE ParseSetting(v)
  <2>1. todo # <<>> /\ 1 \in DOMAIN todo /\ todo[1].op = "setting"
    BY <1>5, FirstTask DEF ParseSetting
  <2>2. PICK next : /\ Went(next) /\ Len(next) \in Nat \ {0}
                    /\ next[1].op = "override" /\ next[1].for = v
                    /\ \A k \in 2 .. Len(next) :
                         \/ next[k].op = "override unset"
                         \/ next[k].op = "refresh" /\ next[k].for = Keeper
    BY <1>5, SettingNews
  <2>3. Len(next) \in Nat
    BY <2>2
  <2>4. \A k \in 1 .. Len(next) : k = 1 \/ k \in 2 .. Len(next)
    BY <2>3
  <2>5. \A k \in 1 .. Len(next) : next[k].op \in {"override", "override unset", "refresh"}
    BY <2>2, <2>4
  <2> QED BY <1>5, <2>1, <2>2, <2>5 DEF ParseSetting, LeadsTo
<1> QED BY <1>1, <1>2, <1>3, <1>4, <1>5 DEF VarStep

LEMMA TogglePaired ==
    ASSUME TypeInv, NEW m \in Mod, Toggle(m)
    PROVE  \E next : Went(next) /\ Paired(next)
<1>1. PICK n : n = todo[1].to
  OBVIOUS
<1>2. PICK f, p : f = Task("flip", m, n) /\ p = Task("pieces", m, n)
  OBVIOUS
<1>3. /\ f.op = "flip" /\ f.for = m /\ f.to = n
      /\ p.op = "pieces" /\ p.for = m /\ p.to = n
  BY <1>2, Fields
<1>4. ASSUME m \in enabled <=> n # 0 PROVE Paired(<<p>>)
  BY <1>3, <1>4, Shorts DEF Paired
<1>5. Paired(<<f, p>>)
  <2>1. PICK g : g = <<f, p>>
    OBVIOUS
  <2>2. Len(g) = 2 /\ g[1] = f /\ g[2] = p
    BY <2>1
  <2>3. Paired(g)
    BY <1>3, <2>2 DEF Paired
  <2> QED BY <2>1, <2>3
<1>6. ASSUME NEW g, NEW l \in Nat, Len(g) = l + 2,
             \A k \in 1 .. l : g[k].op = "restore", g[l + 1] = f, g[l + 2] = p
      PROVE  Paired(g)
  <2>1. \A k \in 1 .. l + 2 : k \in 1 .. l \/ k = l + 1 \/ k = l + 2
    OBVIOUS
  <2>2. /\ l + 1 + 1 = l + 2 /\ l + 2 - 1 = l + 1 /\ l + 2 # 1 /\ l + 2 \in 1 .. l + 2
    OBVIOUS
  <2>3. \A k \in 1 .. l + 2 : g[k].op = "flip" => k = l + 1
    BY <1>3, <1>6, <2>1
  <2>4. \A k \in 1 .. l + 2 : g[k].op = "pieces" => k = l + 2
    BY <1>3, <1>6, <2>1
  <2> QED BY <1>3, <1>6, <2>2, <2>3, <2>4 DEF Paired
<1>7. \/ (m \in enabled <=> n # 0) /\ Went(<<p>>)
      \/ Went(<<f, p>>)
      \/ \E next : /\ Went(next) /\ Len(next) = Len(Overrides) + 2
                   /\ \A k \in 1 .. Len(Overrides) : next[k] = Task("restore", Overrides[k], 0)
                   /\ next[Len(Overrides) + 1] = f /\ next[Len(Overrides) + 2] = p
  BY <1>1, <1>2, ToggleLeads
<1>8. ASSUME NEW next, Went(next), Len(next) = Len(Overrides) + 2,
             \A k \in 1 .. Len(Overrides) : next[k] = Task("restore", Overrides[k], 0),
             next[Len(Overrides) + 1] = f, next[Len(Overrides) + 2] = p
      PROVE  Paired(next)
  <2>1. PICK l \in Nat : l = Len(Overrides)
    BY ResetFacts
  <2>2. \A k \in 1 .. l : next[k].op = "restore"
    BY <1>8, <2>1, Fields
  <2> QED BY <1>6, <1>8, <2>1, <2>2
<1> QED BY <1>4, <1>5, <1>7, <1>8

LEMMA FollowNext ==
    TypeInv /\ LoadInv /\ LoadingInv /\ FollowInv /\ [Next]_vars => FollowInv'
<1> SUFFICES ASSUME TypeInv, LoadInv, LoadingInv, FollowInv, [Next]_vars PROVE FollowInv'
  OBVIOUS
<1>1. ASSUME todo # <<>>, todo[1].op # "pieces", UNCHANGED <<phase, enabled, failed, detours>>
      PROVE  phase' \in {"loading", "running"} =>
               \A m \in Mod : m \in detours' <=> m \in enabled \ failed'
  BY <1>1 DEF FollowInv, At
<1>2. ASSUME NEW v \in Var, VarStep(v) PROVE FollowInv'
  <2>1. /\ todo # <<>> /\ todo[1].op \notin {"flip", "pieces"}
        /\ UNCHANGED <<phase, enabled, failed, detours>>
    BY <1>2, VarNews DEF modVars
  <2>2. PICK next : /\ Went(next)
                    /\ \A k \in 1 .. Len(next) : <<todo[1].op, next[k].op>> \in LeadsTo
    BY <1>2, VarNews
  <2>3. Paired(next)
    BY <2>2 DEF Paired, LeadsTo
  <2> QED BY <1>1, <2>1, <2>2, <2>3, FollowKept
<1>3. ASSUME NEW m \in Mod, Toggle(m) PROVE FollowInv'
  <2>1. /\ todo # <<>> /\ todo[1].op \notin {"flip", "pieces"}
        /\ UNCHANGED <<phase, enabled, failed, detours>>
    BY <1>3, FirstTask DEF Toggle, modVars
  <2> QED BY <1>1, <1>3, <2>1, TogglePaired, FollowKept
<1>4. ASSUME NEW m \in Mod, RefreshPatches(m) PROVE FollowInv'
  <2>1. /\ todo # <<>> /\ todo[1].op \notin {"flip", "pieces"}
        /\ UNCHANGED <<phase, enabled, failed, detours>>
    BY <1>4, FirstTask DEF RefreshPatches
  <2>2. Went(<<>>) /\ Paired(<<>>)
    BY <1>4, PlainLeads, Shorts DEF Paired
  <2> QED BY <1>1, <2>1, <2>2, FollowKept
<1>5. ASSUME NEW m \in Mod, LoadMod(m) PROVE FollowInv'
  <2>1. /\ todo # <<>> /\ 1 \in DOMAIN todo /\ todo[1].op = "load" /\ todo[1].for = m
    BY <1>5, FirstTask DEF LoadMod
  <2>2. phase = "loading" /\ m \notin present
    BY <2>1 DEF LoadInv
  <2>3. m \notin detours /\ m \notin enabled
    BY <2>2 DEF LoadInv, LoadingInv
  <2>4. \A w \in Mod : w \in detours <=> w \in enabled \ failed
    BY <2>1, <2>2 DEF FollowInv, At
  <2>5. /\ UNCHANGED <<phase, enabled, detours>> /\ failed \subseteq failed'
        /\ failed' \subseteq failed \cup {m}
    BY <1>5 DEF LoadMod
  <2>6. \A w \in Mod : w \in detours' <=> w \in enabled \ failed'
    BY <2>3, <2>4, <2>5
  <2>7. PICK t : t = Task("toggle", m, 1)
    OBVIOUS
  <2>8. t.op = "toggle"
    BY <2>7, Fields
  <2>9. Went(<<>>) \/ Went(<<t>>)
    BY <1>5, <2>7, LoadLeads
  <2>10. Paired(<<>>) /\ Paired(<<t>>)
    BY <2>8, Shorts DEF Paired
  <2> QED BY <2>1, <2>5, <2>6, <2>9, <2>10, FollowKept
<1>6. ASSUME NEW m \in Mod, UnloadMod(m) PROVE FollowInv'
  <2>1. /\ todo # <<>> /\ 1 \in DOMAIN todo /\ todo[1].op = "unload" /\ todo[1].for = m
    BY <1>6, FirstTask DEF UnloadMod
  <2>2. UNCHANGED <<phase, enabled>> /\ phase = "unloading"
    BY <1>6, <2>1 DEF UnloadMod, LoadInv, modVars
  <2>3. PICK next, l :
          /\ Went(next) /\ l \in Nat /\ Len(next) = l + 2
          /\ next[1] = Task("toggle", m, 0) /\ next[l + 2] = Task("delete", m, 0)
          /\ \A k \in 2 .. l + 1 : next[k].op = "restore"
    BY <1>6, UnloadLeads
  <2>4. \A k \in 1 .. l + 2 : k = 1 \/ k = l + 2 \/ k \in 2 .. l + 1
    BY <2>3
  <2>5. \A k \in 1 .. Len(next) : next[k].op \in {"toggle", "delete", "restore"}
    BY <2>3, <2>4, Fields
  <2>6. Paired(next)
    BY <2>5 DEF Paired
  <2> QED BY <2>1, <2>2, <2>3, <2>6, FollowKept
<1>7. ASSUME NEW m \in Mod, DeletePieces(m) PROVE FollowInv'
  <2>1. /\ todo # <<>> /\ 1 \in DOMAIN todo /\ todo[1].op = "delete" /\ todo[1].for = m
    BY <1>7, FirstTask DEF DeletePieces
  <2>2. UNCHANGED <<phase, enabled>> /\ phase = "unloading"
    BY <1>7, <2>1 DEF DeletePieces, LoadInv
  <2>3. Went(<<>>) /\ Paired(<<>>)
    BY <1>7, PlainLeads, Shorts DEF Paired
  <2> QED BY <2>1, <2>2, <2>3, FollowKept
<1>8. CASE EndOfList
  <2>1. todo = <<>> /\ todo' = <<>> /\ DOMAIN todo' = {} /\ UNCHANGED <<enabled, failed, detours>>
    BY <1>8 DEF EndOfList, modVars
  <2>2. phase' \in {"loading", "running"} => phase = "loading"
    BY <1>8 DEF EndOfList
  <2> QED BY <2>1, <2>2 DEF FollowInv
<1>9. CASE Command
  <2>1. phase = "running" /\ todo = <<>> /\ UNCHANGED <<enabled, failed, detours>>
    BY <1>9, CommandNews DEF modVars
  <2>2. \A k \in DOMAIN todo' : todo'[k].op \notin {"flip", "pieces"}
    BY <1>9, CommandNews
  <2> QED BY <2>1, <2>2 DEF FollowInv
<1>12. CASE UNCHANGED vars
  BY <1>12 DEF FollowInv, vars, modVars, At
<1>10. ASSUME NEW m \in Mod, Flip(m) PROVE FollowInv'
  <2>1. /\ todo # <<>> /\ 1 \in DOMAIN todo /\ todo[1].op = "flip" /\ todo[1].for = m
        /\ Head(todo) = todo[1] /\ todo[1].to \in Nat
    BY <1>10, FirstTask DEF Flip
  <2>2. Went(<<>>)
    BY <1>10, PlainLeads
  <2>3. PICK n \in Nat \ {0} : /\ DOMAIN todo = 1 .. n /\ DOMAIN todo' = 1 .. n - 1
                                /\ \A k \in 1 .. n - 1 : todo'[k] = todo[k + 1]
    BY <2>2, PlainShift
  <2>4. \A k \in 1 .. n - 1 : todo'[k] = todo[k + 1]
    BY <2>3
  <2>5. 2 \in DOMAIN todo /\ At(2, "pieces", m) /\ todo[2].to = todo[1].to
    BY <2>1 DEF FollowInv
  <2>6. UNCHANGED <<phase, failed, detours>> /\ (m \in enabled' <=> todo[1].to # 0)
        /\ \A w \in Mod : w # m => (w \in enabled' <=> w \in enabled)
    BY <1>10, <2>1 DEF Flip
  <2>7. 1 \in DOMAIN todo' /\ todo'[1] = todo[2]
    BY <2>3, <2>4, <2>5
  <2>8. ASSUME NEW k \in DOMAIN todo', todo'[k].op = "flip"
        PROVE  /\ k + 1 \in DOMAIN todo'
               /\ At(k + 1, "pieces", todo[k].for)' /\ todo'[k+1].to = todo'[k].to
    <3>1. PICK j \in DOMAIN todo : j = k + 1 /\ todo'[k] = todo[j]
      BY <2>3, <2>4
    <3>2. j + 1 \in DOMAIN todo /\ At(j + 1, "pieces", todo[j].for) /\ todo[j+1].to = todo[j].to
      BY <2>8, <3>1 DEF FollowInv
    <3>3. k + 1 \in DOMAIN todo' /\ todo'[k + 1] = todo[j + 1]
      BY <2>3, <2>4, <3>1, <3>2
    <3> QED BY <3>1, <3>2, <3>3 DEF At
  <2>9. ASSUME NEW k \in DOMAIN todo', todo'[k].op = "pieces"
        PROVE  IF k = 1 THEN todo'[k].for \in enabled' <=> todo'[k].to # 0
               ELSE todo'[k-1].op = "flip" /\ todo'[k-1].for = todo'[k].for
    <3>1. CASE k = 1
      BY <2>5, <2>6, <2>7, <3>1 DEF At
    <3>2. CASE k # 1
      <4>1. PICK j \in DOMAIN todo : j = k + 1 /\ todo'[k] = todo[j] /\ j # 1
        BY <2>3, <2>4, <3>2
      <4>2. todo[j-1].op = "flip" /\ todo[j-1].for = todo[j].for
        BY <2>9, <4>1 DEF FollowInv
      <4>3. todo'[k-1] = todo[j-1]
        <5>1. k - 1 \in 1 .. n - 1 /\ (k - 1) + 1 = j - 1
          BY <2>3, <3>2, <4>1
        <5> QED BY <2>4, <5>1
      <4> QED BY <3>2, <4>1, <4>2, <4>3
    <3> QED BY <3>1, <3>2
  <2>10. phase' \in {"loading", "running"} => \A w \in Mod :
           (w \in detours' <=> w \in enabled' \ failed') \/ (todo' # <<>> /\ At(1, "pieces", w)')
    <3>1. SUFFICES ASSUME phase \in {"loading", "running"}, NEW w \in Mod
                   PROVE  (w \in detours' <=> w \in enabled' \ failed')
                            \/ (todo' # <<>> /\ At(1, "pieces", w)')
      BY <2>6
    <3>2. todo' # <<>> /\ At(1, "pieces", m)'
      BY <2>5, <2>7 DEF At
    <3>3. w # m => (w \in detours <=> w \in enabled \ failed)
      BY <2>1, <3>1 DEF FollowInv, At
    <3> QED BY <2>6, <3>2, <3>3
  <2> QED BY <2>8, <2>9, <2>10 DEF FollowInv
<1>11. ASSUME NEW m \in Mod, TogglePieces(m) PROVE FollowInv'
  <2>1. /\ todo # <<>> /\ 1 \in DOMAIN todo /\ todo[1].op = "pieces" /\ todo[1].for = m
        /\ Head(todo) = todo[1] /\ todo[1].to \in Nat
    BY <1>11, FirstTask DEF TogglePieces
  <2>2. Went(<<>>)
    BY <1>11, PlainLeads
  <2>3. PICK n \in Nat \ {0} : /\ DOMAIN todo = 1 .. n /\ DOMAIN todo' = 1 .. n - 1
                                /\ \A k \in 1 .. n - 1 : todo'[k] = todo[k + 1]
    BY <2>2, PlainShift
  <2>4. \A k \in 1 .. n - 1 : todo'[k] = todo[k + 1]
    BY <2>3
  <2>5. m \in enabled <=> todo[1].to # 0
    BY <2>1 DEF FollowInv
  <2>6. UNCHANGED <<phase, failed, enabled>>
    BY <1>11 DEF TogglePieces
  <2>7. \A w \in Mod : w # m => (w \in detours' <=> w \in detours)
    BY <1>11 DEF TogglePieces
  <2>8. ASSUME NEW k \in DOMAIN todo', todo'[k].op = "flip"
        PROVE  /\ k + 1 \in DOMAIN todo'
               /\ At(k + 1, "pieces", todo[k].for)' /\ todo'[k+1].to = todo'[k].to
    <3>1. PICK j \in DOMAIN todo : j = k + 1 /\ todo'[k] = todo[j]
      BY <2>3, <2>4
    <3>2. j + 1 \in DOMAIN todo /\ At(j + 1, "pieces", todo[j].for) /\ todo[j+1].to = todo[j].to
      BY <2>8, <3>1 DEF FollowInv
    <3>3. k + 1 \in DOMAIN todo' /\ todo'[k + 1] = todo[j + 1]
      BY <2>3, <2>4, <3>1, <3>2
    <3> QED BY <3>1, <3>2, <3>3 DEF At
  <2>9. ASSUME NEW k \in DOMAIN todo', todo'[k].op = "pieces"
        PROVE  IF k = 1 THEN todo'[k].for \in enabled' <=> todo'[k].to # 0
               ELSE todo'[k-1].op = "flip" /\ todo'[k-1].for = todo'[k].for
    <3>1. PICK j \in DOMAIN todo : j = k + 1 /\ todo'[k] = todo[j] /\ j # 1
      BY <2>3, <2>4
    <3>2. todo[j-1].op = "flip" /\ todo[j-1].for = todo[j].for
      BY <2>9, <3>1 DEF FollowInv
    <3>3. k # 1
      BY <2>1, <2>3, <3>1, <3>2
    <3>4. todo'[k-1] = todo[j-1]
      <4>1. k - 1 \in 1 .. n - 1 /\ (k - 1) + 1 = j - 1
        BY <2>3, <3>1, <3>3
      <4> QED BY <2>4, <4>1
    <3> QED BY <3>1, <3>2, <3>3, <3>4
  <2>10. phase' \in {"loading", "running"} => \A w \in Mod : w \in detours' <=> w \in enabled' \ failed'
    <3>1. SUFFICES ASSUME phase \in {"loading", "running"}, NEW w \in Mod
                   PROVE  w \in detours' <=> w \in enabled \ failed
      BY <2>6
    <3>2. w # m => (w \in detours <=> w \in enabled \ failed)
      BY <2>1, <3>1 DEF FollowInv, At
    <3>3. m \in present
      <4>1. CASE phase = "loading"
        BY <2>1, <4>1 DEF LoadingInv
      <4>2. CASE phase = "running"
        BY <4>2 DEF LoadInv
      <4> QED BY <3>1, <4>1, <4>2
    <3>4. m \in detours' <=> m \in enabled \ failed
      <4>1. CASE m \in failed
        BY <1>11, <4>1 DEF LoadInv, TogglePieces, CanToggle
      <4>2. CASE m \notin failed
        BY <1>11, <2>1, <2>5, <3>3, <4>2 DEF TogglePieces, CanToggle
      <4> QED BY <4>1, <4>2
    <3> QED BY <2>7, <3>2, <3>4
  <2> QED BY <2>8, <2>9, <2>10 DEF FollowInv
<1> QED
  BY <1>2, <1>3, <1>4, <1>5, <1>6, <1>7, <1>8, <1>9, <1>10, <1>11, <1>12
  DEF Next, VarStep, Setting3, Command

\* In IMod::Toggle nothing comes between m_bEnabled and the pieces, and until the last mod
\* is loaded only the mods that are on by default are switched.
THEOREM FollowAlways == Spec => [](LoadingInv /\ FollowInv)
<1>1. Init => LoadingInv /\ FollowInv
  BY FollowInit
<1>2. (TypeInv /\ LoadInv) /\ (LoadingInv /\ FollowInv) /\ [Next]_vars
        => (LoadingInv /\ FollowInv)'
  BY LoadingNext, FollowNext
<1> QED BY <1>1, <1>2, LoadAlways, PTL DEF Spec

\* IMod::Toggle switches the detours and virtual hooks after every change of m_bEnabled,
\* however the calls that change it are nested.
THEOREM DetoursFollow == Spec => []DetoursFollowMods
<1>1. TypeInv /\ FollowInv => DetoursFollowMods
  BY DEF TypeInv, FollowInv, DetoursFollowMods, Idle
<1> QED BY <1>1, LoadAlways, FollowAlways, PTL

-----------------------------------------------------------------------------

Sets == {"set", "setting", "override", "override unset"}

\* New tasks that toggle at once.
Prompt(next) == \A k \in 1 .. Len(next) : next[k].op \in {"toggle", "flip"} =>
    IF next[k].for = Keeper
    THEN \A j \in 1 .. k : next[j].op \notin Sets
    ELSE k = 1 \/ (k = 2 /\ next[1].op = "refresh" /\ next[1].for = next[k].for)

LEMMA PromptKept ==
    ASSUME PromptInv, NEW next, Went(next), Prompt(next),
           todo[1].op \in Sets \/ \A k \in 1 .. Len(next) : next[k].op \notin Sets,
           todo[1].op = "refresh" => Len(next) = 0
    PROVE  PromptInv'
<1> SUFFICES ASSUME NEW k \in DOMAIN todo', todo'[k].op \in {"toggle", "flip"}
             PROVE  IF todo'[k].for = Keeper
                    THEN \A j \in 1 .. k : todo'[j].op \notin Sets
                    ELSE k = 1 \/ (k = 2 /\ At(1, "refresh", todo[k].for)')
  BY DEF PromptInv, Sets
<1>0. PICK l \in Nat : l = Len(next)
  BY WentLengths
<1>1. PICK n \in Nat : DOMAIN todo = 1 .. n /\ DOMAIN todo' = 1 .. (l + n - 1) /\ n = Len(todo)
  BY <1>0, WentLengths
<1>2. \A j \in 1 .. l : todo'[j] = next[j]
  BY <1>0 DEF Went
<1>3. CASE k \in 1 .. l
  <2>1. todo'[k] = next[k] /\ todo'[1] = next[1] /\ \A j \in 1 .. k : todo'[j] = next[j]
    BY <1>2, <1>3
  <2> QED BY <1>0, <1>3, <2>1 DEF Prompt, At
<1>4. CASE k \notin 1 .. l
  <2>1. PICK i \in 2 .. n : i = k - l + 1 /\ todo'[k] = todo[i]
    BY <1>0, <1>1, <1>4, CameFrom
  <2>0. k \in Int /\ i \in DOMAIN todo /\ i # 1
    BY <1>1
  <2>2. \A j \in l + 1 .. k : todo'[j] = todo[j - l + 1] /\ j - l + 1 \in 1 .. i
    <3>1. TAKE j \in l + 1 .. k
    <3>2. j \in l + 1 .. l + n - 1
      BY <1>1, <2>1
    <3>3. todo'[j] = todo[j - l + 1]
      BY <1>0, <1>1, <3>2 DEF Went
    <3>4. j - l + 1 \in 1 .. i
      BY <2>0, <2>1
    <3> QED BY <3>3, <3>4
  <2>3. CASE todo[i].for = Keeper
    <3>1. \A j \in 1 .. i : todo[j].op \notin Sets
      BY <2>0, <2>1, <2>3 DEF PromptInv, Sets
    <3>2. \A j \in 1 .. l : next[j].op \notin Sets
      BY <1>0, <2>1, <3>1
    <3>3. \A j \in 1 .. k : j \in 1 .. l \/ j \in l + 1 .. k
      BY <1>1
    <3> QED BY <1>2, <2>1, <2>2, <2>3, <3>1, <3>2, <3>3
  <2>4. CASE todo[i].for # Keeper
    <3>1. i = 2 /\ At(1, "refresh", todo[i].for)
      BY <2>0, <2>1, <2>4 DEF PromptInv
    <3>2. l = 0
      BY <1>0, <3>1 DEF At
    <3>3. k = 1
      BY <1>1, <2>1, <3>1, <3>2
    <3> QED BY <2>1, <2>4, <3>3
  <2> QED BY <2>3, <2>4
<1> QED BY <1>3, <1>4

\* What SetValue leaves to do, for one toggle and one refresh.
LEMMA SetPrompt ==
    ASSUME TypeInv, todo # <<>>, NEW v \in Var, NEW n \in Nat, SetValue(v, n)
    PROVE  \E next : Went(next) /\ Prompt(next) /\ \A k \in 1 .. Len(next) : next[k].op \notin Sets
<1> DEFINE Goal(next) == Prompt(next) /\ \A k \in 1 .. Len(next) : next[k].op \notin Sets
<1>1. Goal(<<>>)
  BY Shorts DEF Prompt
<1>2. ASSUME NEW op \in {"toggle", "refresh"}, NEW t PROVE Goal(<<Task(op, ModOf[v], t)>>)
  <2>1. PICK r : r = Task(op, ModOf[v], t)
    OBVIOUS
  <2>2. r.op \in {"toggle", "refresh"}
    BY <2>1, Fields
  <2>3. PICK g : g = <<r>>
    OBVIOUS
  <2>4. Len(g) = 1 /\ g[1] = r
    BY <2>3
  <2>5. \A j \in 1 .. 1 : j = 1
    OBVIOUS
  <2>6. r.op \notin Sets
    BY <2>2 DEF Sets
  <2> QED BY <2>1, <2>3, <2>4, <2>5, <2>6 DEF Prompt
<1>3. Goal(<<Task("refresh", ModOf[v], 0), Task("toggle", ModOf[v], n)>>)
  <2>1. PICK r, t : r = Task("refresh", ModOf[v], 0) /\ t = Task("toggle", ModOf[v], n)
    OBVIOUS
  <2>2. r.op = "refresh" /\ r.for = ModOf[v] /\ t.op = "toggle" /\ t.for = ModOf[v]
    BY <2>1, Fields
  <2>3. PICK g : g = <<r, t>>
    OBVIOUS
  <2>4. Len(g) = 2 /\ g[1] = r /\ g[2] = t
    BY <2>3
  <2>5. \A j \in 1 .. 2 : j = 1 \/ j = 2
    OBVIOUS
  <2>6. r.op \notin Sets /\ t.op \notin Sets
    BY <2>2 DEF Sets
  <2>7. \A k \in 1 .. 2 : \A j \in 1 .. k : j \in 1 .. 2
    OBVIOUS
  <2>8. \A j \in 1 .. 2 : g[j].op \notin Sets
    BY <2>4, <2>5, <2>6
  <2>9. Prompt(g)
    BY <2>2, <2>4, <2>5, <2>7, <2>8 DEF Prompt
  <2> QED BY <2>1, <2>3, <2>4, <2>8, <2>9
<1>4. \/ Went(<<>>)
      \/ \E t : Went(<<Task("toggle", ModOf[v], t)>>) \/ Went(<<Task("refresh", ModOf[v], t)>>)
      \/ Went(<<Task("refresh", ModOf[v], 0), Task("toggle", ModOf[v], n)>>)
  BY SetLeads
<1> QED BY <1>1, <1>2, <1>3, <1>4

LEMMA PromptNext == TypeInv /\ PromptInv /\ [Next]_vars => PromptInv'
<1> SUFFICES ASSUME TypeInv, PromptInv, [Next]_vars PROVE PromptInv'
  OBVIOUS
<1>1. ASSUME Went(<<>>) PROVE PromptInv'
  BY <1>1, Shorts, PromptKept DEF Prompt
<1>2. ASSUME NEW v \in Var, Setting3(v) PROVE PromptInv'
  <2>1. /\ todo # <<>> /\ todo[1].op \in {"set", "override", "write"}
        /\ todo[1].to \in Nat /\ SetValue(v, todo[1].to)
    BY <1>2, SetsFirst
  <2>2. PICK next : Went(next) /\ Prompt(next) /\ \A k \in 1 .. Len(next) : next[k].op \notin Sets
    BY <2>1, SetPrompt
  <2> QED BY <2>1, <2>2, PromptKept
<1>3. ASSUME NEW v \in Var, OverrideUnset(v) \/ Restore(v) \/ ParseSetting(v) PROVE PromptInv'
  <2>1. todo[1].op \in {"override unset", "restore", "setting"}
    BY <1>3, FirstTask DEF OverrideUnset, Restore, ParseSetting
  <2>2. PICK next : /\ Went(next)
                    /\ \A k \in 1 .. Len(next) : <<todo[1].op, next[k].op>> \in LeadsTo
    BY <1>3, VarNews DEF VarStep
  <2>3. Prompt(next)
    BY <2>1, <2>2 DEF Prompt, LeadsTo
  <2>4. todo[1].op \in Sets \/ \A k \in 1 .. Len(next) : next[k].op \notin Sets
    BY <2>1, <2>2 DEF Sets, LeadsTo
  <2> QED BY <2>1, <2>2, <2>3, <2>4, PromptKept
<1>4. ASSUME NEW m \in Mod, Toggle(m) PROVE PromptInv'
  <2>1. todo[1].op = "toggle"
    BY <1>4, FirstTask DEF Toggle
  <2>2. PICK n : n = todo[1].to
    OBVIOUS
  <2>3. PICK f, p : f = Task("flip", m, n) /\ p = Task("pieces", m, n)
    OBVIOUS
  <2>4. f.op = "flip" /\ f.for = m /\ p.op = "pieces" /\ p.for = m
    BY <2>3, Fields
  <2>5. f.op \notin Sets /\ p.op \notin Sets
    BY <2>4 DEF Sets
  <2>6. ASSUME Went(<<p>>) PROVE PromptInv'
    <3>1. \A k \in 1 .. Len(<<p>>) : <<p>>[k] = p
      BY Shorts
    <3> QED BY <2>1, <2>4, <2>5, <2>6, <3>1, PromptKept DEF Prompt
  <2>7. ASSUME Went(<<f, p>>) PROVE PromptInv'
    <3>1. PICK g : g = <<f, p>>
      OBVIOUS
    <3>2. Len(g) = 2 /\ g[1] = f /\ g[2] = p
      BY <3>1
    <3>3. \A k \in 1 .. 2 : k = 1 \/ k = 2
      OBVIOUS
    <3>4. \A k \in 1 .. 2 : \A j \in 1 .. k : j \in 1 .. 2
      OBVIOUS
    <3>5. \A k \in 1 .. 2 : g[k].op \notin Sets
      BY <2>5, <3>2, <3>3
    <3>6. Prompt(g)
      BY <2>4, <3>2, <3>3, <3>4, <3>5 DEF Prompt
    <3> QED BY <2>1, <2>7, <3>1, <3>2, <3>5, <3>6, PromptKept
  <2>8. ASSUME m = Keeper,
               NEW g, Went(g), NEW l \in Nat, Len(g) = l + 2,
               \A k \in 1 .. l : g[k] = Task("restore", Overrides[k], 0),
               g[l + 1] = f, g[l + 2] = p
        PROVE  PromptInv'
    <3>1. \A k \in 1 .. l + 2 : k \in 1 .. l \/ k = l + 1 \/ k = l + 2
      OBVIOUS
    <3>2. \A k \in 1 .. l : g[k].op = "restore"
      BY <2>8, Fields
    <3>3. \A k \in 1 .. l + 2 : g[k].op \notin Sets
      <4>1. "restore" \notin Sets
        BY DEF Sets
      <4> QED BY <2>5, <2>8, <3>1, <3>2, <4>1
    <3>4. \A k \in 1 .. l + 2 : g[k].op \in {"toggle", "flip"} => g[k].for = Keeper
      BY <2>4, <2>8, <3>1, <3>2
    <3>5. \A k \in 1 .. l + 2 : \A j \in 1 .. k : j \in 1 .. l + 2
      OBVIOUS
    <3>6. Prompt(g)
      BY <2>8, <3>3, <3>4, <3>5 DEF Prompt
    <3> QED BY <2>1, <2>8, <3>3, <3>6, PromptKept
  <2>9. \/ Went(<<p>>) \/ Went(<<f, p>>)
        \/ /\ m = Keeper
           /\ \E next : /\ Went(next) /\ Len(next) = Len(Overrides) + 2
                        /\ \A k \in 1 .. Len(Overrides) : next[k] = Task("restore", Overrides[k], 0)
                        /\ next[Len(Overrides) + 1] = f /\ next[Len(Overrides) + 2] = p
    BY <1>4, <2>2, <2>3, ToggleLeads
  <2>10. PICK l \in Nat : l = Len(Overrides)
    BY ResetFacts
  <2>11. ASSUME m = Keeper,
                NEW next, Went(next), Len(next) = Len(Overrides) + 2,
                \A k \in 1 .. Len(Overrides) : next[k] = Task("restore", Overrides[k], 0),
                next[Len(Overrides) + 1] = f, next[Len(Overrides) + 2] = p
         PROVE  PromptInv'
    <3>1. /\ Went(next) /\ Len(next) = l + 2
          /\ \A k \in 1 .. l : next[k] = Task("restore", Overrides[k], 0)
          /\ next[l + 1] = f /\ next[l + 2] = p
      BY <2>10, <2>11
    <3> QED BY <2>8, <2>11, <3>1
  <2> QED BY <2>6, <2>7, <2>9, <2>11
<1>5. ASSUME NEW m \in Mod, LoadMod(m) PROVE PromptInv'
  <2>1. PICK r : r = Task("toggle", m, 1)
    OBVIOUS
  <2>2. r.op = "toggle" /\ r.for = m /\ todo[1].op = "load"
    BY <1>5, <2>1, Fields, FirstTask DEF LoadMod
  <2>3. PICK g : g = <<r>>
    OBVIOUS
  <2>4. Len(g) = 1 /\ g[1] = r
    BY <2>3
  <2>5. \A j \in 1 .. 1 : j = 1
    OBVIOUS
  <2>6. \A j \in 1 .. 1 : g[j].op \notin Sets
    BY <2>2, <2>4, <2>5 DEF Sets
  <2>7. Prompt(g)
    BY <2>4, <2>5, <2>6 DEF Prompt
  <2>8. Went(<<>>) \/ Went(g)
    BY <1>5, <2>1, <2>3, LoadLeads
  <2> QED BY <1>1, <2>2, <2>4, <2>6, <2>7, <2>8, PromptKept
<1>6. ASSUME NEW m \in Mod, UnloadMod(m) PROVE PromptInv'
  <2>1. todo[1].op = "unload"
    BY <1>6, FirstTask DEF UnloadMod
  <2>2. PICK next, l :
          /\ Went(next) /\ l \in Nat /\ Len(next) = l + 2
          /\ next[1] = Task("toggle", m, 0) /\ next[l + 2] = Task("delete", m, 0)
          /\ \A k \in 2 .. l + 1 : next[k].op = "restore"
    BY <1>6, UnloadLeads
  <2>3. \A k \in 1 .. l + 2 : k = 1 \/ k = l + 2 \/ k \in 2 .. l + 1
    BY <2>2
  <2>4. next[1].op = "toggle" /\ next[l + 2].op = "delete"
    BY <2>2, Fields
  <2>5. \A k \in 1 .. l + 2 : next[k].op \notin Sets
    <3>1. "toggle" \notin Sets /\ "delete" \notin Sets /\ "restore" \notin Sets
      BY DEF Sets
    <3> QED BY <2>2, <2>3, <2>4, <3>1
  <2>6. \A k \in 1 .. l + 2 : next[k].op \in {"toggle", "flip"} => k = 1
    BY <2>2, <2>3, <2>4
  <2>7. \A k \in 1 .. l + 2 : \A j \in 1 .. k : j \in 1 .. l + 2
    BY <2>2
  <2>8. Prompt(next)
    BY <2>2, <2>5, <2>6, <2>7 DEF Prompt
  <2> QED BY <2>1, <2>2, <2>5, <2>8, PromptKept
<1>7. CASE Command
  <2>1. \A k \in DOMAIN todo' : todo'[k].op \notin {"toggle", "flip"}
    BY <1>7, CommandNews
  <2> QED BY <2>1 DEF PromptInv
<1>8. CASE EndOfList \/ UNCHANGED vars
  BY <1>8 DEF PromptInv, EndOfList, vars, At
<1> QED
  BY <1>1, <1>2, <1>3, <1>4, <1>5, <1>6, <1>7, <1>8, PlainLeads
  DEF Next, Setting3, Command

LEMMA RightFacts ==
    ASSUME NEW m, NEW n, NEW k, n # 0 <=> k # 0, Right(m, n)
    PROVE  Right(m, k)
BY DEF Right

\* The callback of a ConVar is right about its mod.
LEMMA SetRight ==
    ASSUME TypeInv, NEW v \in Var, NEW n \in Nat, value' = [value EXCEPT ![v] = n],
           Kind[v] \notin {"refresh", "plain"},
           NEW t \in Nat,
           Kind[v] # "force" => t = n,
           Kind[v] = "force" => t = IF n # 0 THEN 1 ELSE EnableValue(ModOf[v], value)
    PROVE  Right(ModOf[v], t)'
<1> DEFINE m == ModOf[v]
<1>0. /\ m \in Mod /\ v \in Switches(m)
      /\ Kind \in [Var -> {"enable", "force", "refresh", "credit", "plain"}]
      /\ value \in [Var -> Nat] /\ value'[v] = n /\ \A w \in Var : w # v => value'[w] = value[w]
  BY Callbacks DEF Switches, TypeInv
<1>1. \A w \in Switches(m) : Kind[w] = Kind[v] => w = v
  BY Callbacks DEF Switches
<1>2. CASE Kind[v] # "force"
  <2>1. t = n
    BY <1>2
  <2>2. \A w \in Switches(m) : Kind[w] # "force" => w = v
    BY <1>0, <1>2, Callbacks DEF Switches
  <2> QED BY <1>0, <2>1, <2>2 DEF Right, Switches
<1>3. CASE Kind[v] = "force"
  <2> DEFINE vs == {w \in Var : ModOf[w] = m /\ Kind[w] = "enable"}
  <2>1. \A w \in Switches(m) : Kind[w] # "force" => w \in vs
    BY <1>0, <1>3, Callbacks DEF Switches
  <2>2. CASE n # 0
    BY <1>0, <1>3, <2>2 DEF Right, Switches
  <2>3. CASE n = 0
    <3>1. t = IF vs = {} THEN 0 ELSE value[CHOOSE w \in vs : TRUE]
      BY <1>3, <2>3 DEF EnableValue
    <3>2. CASE vs = {}
      BY <1>0, <2>1, <3>1, <3>2 DEF Right, Switches
    <3>3. CASE vs # {}
      <4>1. PICK w \in vs : w = CHOOSE x \in vs : TRUE
        BY <3>3
      <4>2. \A x \in vs : x = w
        BY Callbacks
      <4>3. w \in Switches(m) /\ w # v /\ t = value[w] /\ value'[w] = value[w]
        BY <1>0, <1>3, <3>1, <3>3, <4>1 DEF Switches
      <4>4. \A x \in Switches(m) : Kind[x] # "force" => value'[x] = t
        BY <2>1, <4>2, <4>3
      <4> QED BY <4>3, <4>4 DEF Right, Switches
    <3> QED BY <3>2, <3>3
  <2> QED BY <2>2, <2>3
<1> QED BY <1>2, <1>3

\* A step that switches no mod and leaves the ConVars that do alone.
LEMMA BalanceKept ==
    ASSUME BalanceInv, NEW next, Went(next), phase' = "running" => phase = "running",
           NEW m \in Mod \ DefaultOn, phase' = "running",
           todo[1].op \notin {"toggle", "flip"} \/ todo[1].for # m,
           m \in enabled' <=> m \in enabled, \A v \in Switches(m) : value'[v] = value[v],
           \A k \in 1 .. Len(next) : next[k].op \notin {"toggle", "flip"} \/ next[k].for # m
    PROVE  /\ \A k \in DOMAIN todo' :
                todo'[k].op \in {"toggle", "flip"} /\ todo'[k].for = m => Right(m, todo[k].to)'
           /\ \/ Right(m, IF m \in enabled THEN 1 ELSE 0)'
              \/ Pending("toggle", m)' \/ Pending("flip", m)'
<1>1. \A n : Right(m, n) => Right(m, n)'
  BY DEF Right, Switches
<1>2. ASSUME NEW k \in DOMAIN todo', todo'[k].op \in {"toggle", "flip"}, todo'[k].for = m
      PROVE  Right(m, todo[k].to)'
  <2>1. PICK j \in DOMAIN todo : todo'[k] = todo[j]
    BY <1>2, CameFrom
  <2>2. Right(m, todo[j].to)
    BY <1>2, <2>1 DEF BalanceInv
  <2>3. Right(m, todo'[k].to)
    BY <2>1, <2>2
  <2> QED BY <2>3 DEF Right, Switches
<1>3. CASE Right(m, IF m \in enabled THEN 1 ELSE 0)
  <2>1. Right(m, IF m \in enabled' THEN 1 ELSE 0)
    BY <1>3
  <2> QED BY <1>2, <2>1 DEF Right, Switches
<1>4. CASE Pending("toggle", m) \/ Pending("flip", m)
  <2>1. ~At(1, "toggle", m) /\ ~At(1, "flip", m)
    BY DEF At
  <2> QED BY <1>2, <1>4, <2>1, StaysPending
<1> QED BY <1>3, <1>4 DEF BalanceInv

LEMMA BalanceSet ==
    ASSUME TypeInv, PromptInv, BalanceInv, phase = "running", phase' = "running",
           NEW v \in Var, Setting3(v), NEW m \in Mod \ DefaultOn
    PROVE  /\ \A k \in DOMAIN todo' :
                todo'[k].op \in {"toggle", "flip"} /\ todo'[k].for = m => Right(m, todo[k].to)'
           /\ \/ Right(m, IF m \in enabled THEN 1 ELSE 0)'
              \/ Pending("toggle", m)' \/ Pending("flip", m)'
<1>1. PICK n \in Nat : n = todo[1].to /\ SetValue(v, n)
  BY SetsFirst
<1>2. /\ todo # <<>> /\ todo[1].op \in {"set", "override", "write"} /\ todo[1].for = v
      /\ 1 \in DOMAIN todo
  BY SetsFirst
<1>3. /\ value' = [value EXCEPT ![v] = n] /\ value \in [Var -> Nat]
      /\ \A w \in Var : w # v => value'[w] = value[w]
  BY <1>1 DEF SetValue, TypeInv
<1>0. \/ (value[v] = n \/ Kind[v] = "plain") /\ Went(<<>>)
      \/ /\ value[v] # n /\ Kind[v] = "refresh"
         /\ Went(<<Task("refresh", ModOf[v], IF n > 0 THEN n ELSE DefaultRed)>>)
      \/ /\ value[v] # n /\ Kind[v] \notin {"refresh", "plain"}
         /\ \E t \in Nat :
              /\ Went(<<Task("toggle", ModOf[v], t)>>)
              /\ Kind[v] # "force" => t = n
              /\ Kind[v] = "force" => t = IF n # 0 THEN 1 ELSE EnableValue(ModOf[v], value)
         /\ Kind[v] = "credit" => ~(ModOf[v] \in enabled /\ n # 0)
      \/ /\ value[v] # n /\ Kind[v] = "credit" /\ ModOf[v] \in enabled /\ n # 0
         /\ Went(<<Task("refresh", ModOf[v], 0), Task("toggle", ModOf[v], n)>>)
  BY <1>1, <1>2, SetLeads
<1>4. UNCHANGED enabled
  BY DEF Setting3, SetByUser, Override, WriteBack, modVars
<1>5. CASE m # ModOf[v] \/ Kind[v] \in {"refresh", "plain"} \/ value[v] = n
  <2>1. \A w \in Switches(m) : value'[w] = value[w]
    BY <1>3, <1>5 DEF Switches
  <2>2. PICK next : /\ Went(next)
                    /\ \A k \in 1 .. Len(next) : next[k].op \notin {"toggle", "flip"} \/ next[k].for # m
    <3>1. CASE value[v] = n \/ Kind[v] = "plain"
      BY <1>0, <3>1, Shorts
    <3>2. CASE value[v] # n /\ Kind[v] = "refresh"
      <4>1. PICK r : r = Task("refresh", ModOf[v], IF n > 0 THEN n ELSE DefaultRed)
        OBVIOUS
      <4>2. Went(<<r>>) /\ r.op = "refresh"
        BY <1>0, <3>2, <4>1, Fields
      <4> QED BY <4>2, Shorts
    <3>3. CASE m # ModOf[v]
      <4>1. PICK next : /\ Went(next)
                        /\ \A k \in 1 .. Len(next) : next[k].for = ModOf[v]
        BY <1>1, <1>2, SetNews
      <4> QED BY <3>3, <4>1
    <3> QED BY <1>5, <3>1, <3>2, <3>3
  <2> QED BY <1>2, <1>4, <2>1, <2>2, BalanceKept
<1>6. CASE m = ModOf[v] /\ Kind[v] \notin {"refresh", "plain"} /\ value[v] # n
  <2>1. \A k \in DOMAIN todo : todo[k].op \in {"toggle", "flip"} => todo[k].for # m
    <3>1. SUFFICES ASSUME NEW k \in DOMAIN todo, todo[k].op \in {"toggle", "flip"}, todo[k].for = m
                   PROVE  FALSE
      OBVIOUS
    <3>2. CASE m # Keeper
      <4>1. k = 1 \/ (k = 2 /\ At(1, "refresh", todo[k].for))
        BY <3>1, <3>2 DEF PromptInv
      <4> QED BY <1>2, <3>1, <4>1 DEF At
    <3>3. CASE m = Keeper
      <4>1. k \in Nat \ {0}
        <5>1. todo \in Seq(AnyTask)
          BY DEF TypeInv
        <5> QED BY <3>1, <5>1
      <4>4. \A j \in 1 .. k : todo[j].op \notin {"set", "setting", "override", "override unset"}
        BY <3>1, <3>3 DEF PromptInv
      <4>5. 1 \in 1 .. k
        BY <4>1
      <4>2. todo[1].op \notin {"set", "override"}
        BY <4>4, <4>5
      <4>3. v \in Overridable
        BY <1>2, <4>2, SetsFirst
      <4> QED BY <1>6, <3>3, <4>3, Callbacks DEF Overridable
    <3> QED BY <3>2, <3>3
  <2>2. PICK t \in Nat : /\ Kind[v] # "force" => t = n
                         /\ Kind[v] = "force" => t = IF n # 0 THEN 1 ELSE EnableValue(m, value)
                         /\ \/ Went(<<Task("toggle", m, t)>>)
                            \/ Went(<<Task("refresh", m, 0), Task("toggle", m, t)>>)
    <3>1. \/ \E t \in Nat :
               /\ Went(<<Task("toggle", ModOf[v], t)>>)
               /\ Kind[v] # "force" => t = n
               /\ Kind[v] = "force" => t = IF n # 0 THEN 1 ELSE EnableValue(ModOf[v], value)
          \/ /\ Kind[v] = "credit"
             /\ Went(<<Task("refresh", ModOf[v], 0), Task("toggle", ModOf[v], n)>>)
      BY <1>0, <1>6
    <3> QED BY <1>6, <3>1
  <2>3. Right(m, t)'
    BY <1>3, <1>6, <2>2, SetRight
  <2>4. PICK r, u : r = Task("refresh", m, 0) /\ u = Task("toggle", m, t)
    OBVIOUS
  <2>5. r.op = "refresh" /\ u.op = "toggle" /\ u.for = m /\ u.to = t
    BY <2>4, Fields
  <2>6. PICK next, i : /\ Went(next) /\ i \in 1 .. Len(next) /\ next[i] = u
                       /\ \A k \in 1 .. Len(next) : next[k] \in {r, u}
    <3>1. Went(<<u>>) \/ Went(<<r, u>>)
      BY <2>2, <2>4
    <3>2. ASSUME Went(<<u>>)
          PROVE  \E next, i : /\ Went(next) /\ i \in 1 .. Len(next) /\ next[i] = u
                              /\ \A k \in 1 .. Len(next) : next[k] \in {r, u}
      <4>1. PICK g : g = <<u>>
        OBVIOUS
      <4>2. Len(g) = 1 /\ g[1] = u /\ 1 \in 1 .. 1 /\ \A k \in 1 .. 1 : k = 1
        BY <4>1
      <4> QED BY <3>2, <4>1, <4>2
    <3>3. ASSUME Went(<<r, u>>)
          PROVE  \E next, i : /\ Went(next) /\ i \in 1 .. Len(next) /\ next[i] = u
                              /\ \A k \in 1 .. Len(next) : next[k] \in {r, u}
      <4>1. PICK g : g = <<r, u>>
        OBVIOUS
      <4>2. Len(g) = 2 /\ g[1] = r /\ g[2] = u /\ 2 \in 1 .. 2 /\ \A k \in 1 .. 2 : k = 1 \/ k = 2
        BY <4>1
      <4> QED BY <3>3, <4>1, <4>2
    <3> QED BY <3>1, <3>2, <3>3
  <2>7. Pending("toggle", m)'
    BY <2>5, <2>6, NowPending
  <2>8. ASSUME NEW k \in DOMAIN todo', todo'[k].op \in {"toggle", "flip"}, todo'[k].for = m
        PROVE  Right(m, todo[k].to)'
    <3>1. todo'[k] \in {r, u} \/ \E j \in DOMAIN todo : todo'[k] = todo[j]
      BY <2>6, CameFrom
    <3>2. todo'[k] = u
      BY <2>1, <2>5, <2>8, <3>1
    <3> QED BY <2>3, <2>5, <3>2
  <2> QED BY <2>7, <2>8
<1> QED BY <1>5, <1>6

LEMMA ToggleNews ==
    ASSUME TypeInv, NEW m \in Mod, Toggle(m)
    PROVE  LET n == todo[1].to IN
           \E next : /\ Went(next)
                     /\ \A k \in 1 .. Len(next) :
                          \/ next[k].op = "restore"
                          \/ next[k].op \in {"flip", "pieces"} /\ next[k].for = m /\ next[k].to = n
                     /\ \/ m \in enabled <=> n # 0
                        \/ \E k \in 1 .. Len(next) : next[k].op = "flip" /\ next[k].for = m
<1>1. PICK n : n = todo[1].to
  OBVIOUS
<1> DEFINE Goal(next) ==
      /\ \A k \in 1 .. Len(next) :
           \/ next[k].op = "restore"
           \/ next[k].op \in {"flip", "pieces"} /\ next[k].for = m /\ next[k].to = n
      /\ \/ m \in enabled <=> n # 0
         \/ \E k \in 1 .. Len(next) : next[k].op = "flip" /\ next[k].for = m
<1>2. PICK f, p : f = Task("flip", m, n) /\ p = Task("pieces", m, n)
  OBVIOUS
<1>3. /\ f.op = "flip" /\ f.for = m /\ f.to = n
      /\ p.op = "pieces" /\ p.for = m /\ p.to = n
  BY <1>2, Fields
<1>4. ASSUME m \in enabled <=> n # 0 PROVE Goal(<<p>>)
  BY <1>3, <1>4, Shorts
<1>5. Goal(<<f, p>>)
  <2>1. PICK g : g = <<f, p>>
    OBVIOUS
  <2>2. Len(g) = 2 /\ g[1] = f /\ g[2] = p
    BY <2>1
  <2>3. \A k \in 1 .. 2 : k = 1 \/ k = 2
    OBVIOUS
  <2>4. Goal(g)
    BY <1>3, <2>2, <2>3
  <2> QED BY <2>1, <2>4
<1>6. ASSUME NEW g, Went(g), Len(g) = Len(Overrides) + 2,
             \A k \in 1 .. Len(Overrides) : g[k] = Task("restore", Overrides[k], 0),
             g[Len(Overrides) + 1] = f, g[Len(Overrides) + 2] = p
      PROVE  Goal(g)
  <2>1. PICK l \in Nat : l = Len(Overrides)
    BY ResetFacts
  <2>2. \A k \in 1 .. l : g[k].op = "restore"
    BY <1>6, <2>1, Fields
  <2>3. Len(g) = l + 2 /\ g[l + 1] = f /\ g[l + 2] = p
    BY <1>6, <2>1
  <2>4. \A k \in 1 .. l + 2 : k \in 1 .. l \/ k = l + 1 \/ k = l + 2
    OBVIOUS
  <2>5. l + 1 \in 1 .. l + 2
    OBVIOUS
  <2>6. \A k \in 1 .. l + 2 :
          \/ g[k].op = "restore"
          \/ g[k].op \in {"flip", "pieces"} /\ g[k].for = m /\ g[k].to = n
    BY <1>3, <2>2, <2>3, <2>4
  <2> QED BY <1>3, <2>3, <2>5, <2>6
<1>7. \/ (m \in enabled <=> n # 0) /\ Went(<<p>>)
      \/ Went(<<f, p>>)
      \/ \E next : /\ Went(next) /\ Len(next) = Len(Overrides) + 2
                   /\ \A k \in 1 .. Len(Overrides) : next[k] = Task("restore", Overrides[k], 0)
                   /\ next[Len(Overrides) + 1] = f /\ next[Len(Overrides) + 2] = p
  BY <1>1, <1>2, ToggleLeads
<1> HIDE DEF Goal
<1>8. \E next : Went(next) /\ Goal(next)
  BY <1>4, <1>5, <1>6, <1>7
<1> QED BY <1>1, <1>8 DEF Goal

ModStep(m) == \/ Toggle(m) \/ Flip(m) \/ TogglePieces(m) \/ RefreshPatches(m)
              \/ LoadMod(m) \/ UnloadMod(m) \/ DeletePieces(m)

LEMMA Kinds ==
    ASSUME [Next]_vars
    PROVE  \/ \E v \in Var : VarStep(v)
           \/ \E m \in Mod : ModStep(m)
           \/ EndOfList \/ Command \/ UNCHANGED vars
BY DEF Next, VarStep, Setting3, ModStep, Command

LEMMA BalanceNext ==
    TypeInv /\ LoadInv /\ LoadingInv /\ PromptInv /\ BalanceInv /\ [Next]_vars => BalanceInv'
<1> SUFFICES ASSUME TypeInv, LoadInv, LoadingInv, PromptInv, BalanceInv, [Next]_vars,
                    phase' = "running", NEW m \in Mod \ DefaultOn
             PROVE  /\ \A k \in DOMAIN todo' :
                         todo'[k].op \in {"toggle", "flip"} /\ todo'[k].for = m => Right(m, todo[k].to)'
                    /\ \/ Right(m, IF m \in enabled THEN 1 ELSE 0)'
                       \/ Pending("toggle", m)' \/ Pending("flip", m)'
  BY DEF BalanceInv
<1> DEFINE Goal ==
      /\ \A k \in DOMAIN todo' :
           todo'[k].op \in {"toggle", "flip"} /\ todo'[k].for = m => Right(m, todo[k].to)'
      /\ \/ Right(m, IF m \in enabled THEN 1 ELSE 0)'
         \/ Pending("toggle", m)' \/ Pending("flip", m)'
<1>1. ASSUME NEW next, Went(next), phase = "running",
             todo[1].op \notin {"toggle", "flip"},
             UNCHANGED <<enabled, value>>,
             \A k \in 1 .. Len(next) : next[k].op \notin {"toggle", "flip"}
      PROVE  Goal
  BY <1>1, BalanceKept
<1>2. ASSUME NEW v \in Var, Setting3(v) PROVE Goal
  <2>1. phase = "running"
    BY <1>2 DEF Setting3, SetByUser, Override, WriteBack
  <2> QED BY <1>2, <2>1, BalanceSet
<1>3. ASSUME NEW v \in Var, VarStep(v), ~Setting3(v) PROVE Goal
  <2>1. todo[1].op \in {"override unset", "restore", "unmark", "setting"} /\ UNCHANGED <<value>>
    BY <1>3, FirstTask DEF VarStep, OverrideUnset, Restore, Unmark, ParseSetting, varVars
  <2>2. UNCHANGED <<enabled, phase>>
    BY <1>3, VarNews DEF modVars
  <2>3. PICK next : /\ Went(next)
                    /\ \A k \in 1 .. Len(next) : <<todo[1].op, next[k].op>> \in LeadsTo
    BY <1>3, VarNews
  <2>4. \A k \in 1 .. Len(next) : next[k].op \notin {"toggle", "flip"}
    BY <2>1, <2>3 DEF LeadsTo
  <2> QED BY <1>1, <2>1, <2>2, <2>3, <2>4
<1>4. ASSUME NEW w \in Mod, RefreshPatches(w) \/ TogglePieces(w) PROVE Goal
  <2>1. todo[1].op \in {"refresh", "pieces"} /\ UNCHANGED <<enabled, value, phase>>
    BY <1>4, FirstTask DEF RefreshPatches, TogglePieces, varVars
  <2>2. Went(<<>>)
    BY <1>4, PlainLeads
  <2> QED BY <1>1, <2>1, <2>2, Shorts
<1>5. ASSUME NEW w \in Mod, LoadMod(w) \/ UnloadMod(w) \/ DeletePieces(w) PROVE Goal
  <2>1. todo[1].op \in {"load", "unload", "delete"} /\ 1 \in DOMAIN todo /\ phase = "running"
    BY <1>5, FirstTask DEF LoadMod, UnloadMod, DeletePieces
  <2> QED BY <2>1 DEF LoadInv
<1>6. CASE Command
  <2>1. /\ phase = "running" /\ todo = <<>> /\ UNCHANGED <<value, enabled>>
        /\ \A k \in DOMAIN todo' : todo'[k].op \notin {"toggle", "flip"}
    BY <1>6, CommandNews DEF modVars, varVars
  <2>2. Right(m, IF m \in enabled THEN 1 ELSE 0)
    BY <2>1 DEF BalanceInv, Pending
  <2>3. Right(m, IF m \in enabled THEN 1 ELSE 0)'
    BY <2>1, <2>2 DEF Right, Switches
  <2> QED BY <2>1, <2>3
<1>7. CASE EndOfList
  <2>1. phase = "loading" /\ DOMAIN todo' = {} /\ UNCHANGED <<value, enabled>>
    BY <1>7 DEF EndOfList, modVars, varVars
  <2>2. m \notin enabled /\ \A v \in Var : value[v] = 0
    BY <2>1 DEF LoadingInv
  <2>3. Right(m, IF m \in enabled THEN 1 ELSE 0)'
    BY <2>1, <2>2 DEF Right, Switches
  <2> QED BY <2>1, <2>3
<1>8. CASE UNCHANGED vars
  BY <1>8 DEF BalanceInv, vars, modVars, varVars, Right, Switches, Pending, At
<1>9. ASSUME NEW w \in Mod, Toggle(w) PROVE Goal
  <2>1. todo[1].op = "toggle" /\ todo[1].for = w /\ 1 \in DOMAIN todo
    BY <1>9, FirstTask DEF Toggle
  <2>2. UNCHANGED <<enabled, value, phase>>
    BY <1>9 DEF Toggle, modVars, varVars
  <2>3. PICK n : n = todo[1].to
    OBVIOUS
  <2>4. PICK next : /\ Went(next)
                    /\ \A k \in 1 .. Len(next) :
                         \/ next[k].op = "restore"
                         \/ next[k].op \in {"flip", "pieces"} /\ next[k].for = w /\ next[k].to = n
                    /\ \/ w \in enabled <=> n # 0
                       \/ \E k \in 1 .. Len(next) : next[k].op = "flip" /\ next[k].for = w
    BY <1>9, <2>3, ToggleNews
  <2>5. CASE w # m
    BY <2>1, <2>2, <2>4, <2>5, BalanceKept
  <2>6. CASE w = m
    <3>1. Right(m, n)
      BY <2>1, <2>2, <2>3, <2>6 DEF BalanceInv
    <3>2. Right(m, n)'
      BY <2>2, <3>1 DEF Right, Switches
    <3>3. ASSUME NEW k \in DOMAIN todo', todo'[k].op \in {"toggle", "flip"}, todo'[k].for = m
          PROVE  Right(m, todo[k].to)'
      <4>1. todo'[k].to = n \/ \E j \in DOMAIN todo : todo'[k] = todo[j]
        BY <2>4, <3>3, CameFrom
      <4>2. Right(m, todo'[k].to)
        BY <2>2, <3>1, <3>3, <4>1 DEF BalanceInv
      <4> QED BY <2>2, <4>2 DEF Right, Switches
    <3>4. CASE m \in enabled <=> n # 0
      <4>1. Right(m, IF m \in enabled THEN 1 ELSE 0)
        BY <3>1, <3>4, RightFacts
      <4>2. Right(m, IF m \in enabled THEN 1 ELSE 0)'
        BY <2>2, <4>1 DEF Right, Switches
      <4> QED BY <3>3, <4>2
    <3>5. CASE \E k \in 1 .. Len(next) : next[k].op = "flip" /\ next[k].for = w
      <4>1. Pending("flip", m)'
        BY <2>4, <2>6, <3>5, NowPending
      <4> QED BY <3>3, <4>1
    <3> QED BY <2>4, <2>6, <3>4, <3>5
  <2> QED BY <2>5, <2>6
<1>10. ASSUME NEW w \in Mod, Flip(w) PROVE Goal
  <2>1. /\ todo[1].op = "flip" /\ todo[1].for = w /\ 1 \in DOMAIN todo
        /\ Head(todo) = todo[1] /\ todo[1].to \in Nat
    BY <1>10, FirstTask DEF Flip
  <2>2. UNCHANGED <<value, phase>>
    BY <1>10 DEF Flip, varVars
  <2>3. Went(<<>>)
    BY <1>10, PlainLeads
  <2>4. CASE w # m
    <3>1. m \in enabled' <=> m \in enabled
      BY <1>10, <2>4 DEF Flip
    <3> QED BY <2>1, <2>2, <2>3, <2>4, <3>1, Shorts, BalanceKept
  <2>5. CASE w = m
    <3>1. Right(m, todo[1].to)
      BY <2>1, <2>2, <2>5 DEF BalanceInv
    <3>2. m \in enabled' <=> todo[1].to # 0
      BY <1>10, <2>1, <2>5 DEF Flip
    <3>3. Right(m, IF m \in enabled' THEN 1 ELSE 0)
      BY <3>1, <3>2, RightFacts
    <3>4. Right(m, IF m \in enabled THEN 1 ELSE 0)'
      BY <2>2, <3>3 DEF Right, Switches
    <3>5. ASSUME NEW k \in DOMAIN todo', todo'[k].op \in {"toggle", "flip"}, todo'[k].for = m
          PROVE  Right(m, todo[k].to)'
      <4>1. \E j \in DOMAIN todo : todo'[k] = todo[j]
        BY <2>3, CameFrom, Shorts
      <4>2. Right(m, todo'[k].to)
        BY <2>2, <3>5, <4>1 DEF BalanceInv
      <4> QED BY <2>2, <4>2 DEF Right, Switches
    <3> QED BY <3>4, <3>5
  <2> QED BY <2>4, <2>5
<1> HIDE DEF Goal
<1>11. ASSUME NEW v \in Var, VarStep(v) PROVE Goal
  BY <1>2, <1>3, <1>11
<1>12. ASSUME NEW w \in Mod, ModStep(w) PROVE Goal
  BY <1>4, <1>5, <1>9, <1>10, <1>12 DEF ModStep
<1>13. \/ \E v \in Var : VarStep(v)
       \/ \E w \in Mod : ModStep(w)
       \/ EndOfList \/ Command \/ UNCHANGED vars
  BY Kinds
<1>14. EndOfList \/ Command \/ UNCHANGED vars => Goal
  BY <1>6, <1>7, <1>8 DEF Goal
<1>15. Goal
  BY <1>11, <1>12, <1>13, <1>14
<1> QED BY <1>15 DEF Goal

\* However change callbacks are nested, a pending toggle is right for the values that the
\* mod's ConVars have by now, and every mod that is not as they say has one.
THEOREM BalanceAlways == Spec => [](PromptInv /\ BalanceInv)
<1>1. Init => PromptInv /\ BalanceInv
  <2>1. Init => FollowInv /\ LoadInv
    BY FollowInit, LoadInit
  <2>2. ASSUME Init PROVE \A k \in DOMAIN todo : todo[k].op \notin {"toggle", "flip"}
    <3>1. phase = "loading" /\ LoadingInv /\ present = {}
      BY <2>2, FollowInit DEF Init
    <3> QED BY <3>1 DEF LoadingInv
  <2> QED BY <2>2 DEF PromptInv, BalanceInv, Init
<1>2. (TypeInv /\ LoadInv) /\ (LoadingInv /\ FollowInv) /\ (PromptInv /\ BalanceInv) /\ [Next]_vars
        => (PromptInv /\ BalanceInv)'
  BY PromptNext, BalanceNext
<1> QED BY <1>1, <1>2, LoadAlways, FollowAlways, PTL DEF Spec

\* Whatever changes a ConVar, a mod is enabled as its ConVars say once the calls have
\* returned: the change callbacks toggle it at once.
THEOREM EnabledFollows == Spec => []EnabledFollowsVars
<1>1. ASSUME TypeInv, BalanceInv PROVE EnabledFollowsVars
  <2>1. SUFFICES ASSUME phase = "running", todo = <<>>, NEW m \in Mod \ DefaultOn
                 PROVE  /\ m \in enabled => \E v \in Switches(m) : value[v] # 0
                        /\ \A v \in Switches(m) : Kind[v] # "force" /\ value[v] # 0 => m \in enabled
    BY DEF EnabledFollowsVars, Idle
  <2>2. Right(m, IF m \in enabled THEN 1 ELSE 0)
    BY <1>1, <2>1 DEF BalanceInv, Pending
  <2> QED BY <2>2 DEF Right
<1>2. TypeInv /\ BalanceInv => EnabledFollowsVars
  BY <1>1
<1> QED BY <1>2, LoadAlways, BalanceAlways, PTL

-----------------------------------------------------------------------------

LEMMA SetKinds ==
    ASSUME TypeInv, todo # <<>>, NEW v \in Var, NEW n \in Nat, SetValue(v, n)
    PROVE  \E next : /\ Went(next)
                     /\ \A k \in 1 .. Len(next) :
                          /\ next[k].for = ModOf[v]
                          /\ \/ next[k].op = "toggle" /\ Kind[v] \notin {"refresh", "plain"}
                             \/ next[k].op = "refresh" /\ Kind[v] \in {"refresh", "credit"}
<1> DEFINE Good(t) ==
      /\ t.for = ModOf[v]
      /\ \/ t.op = "toggle" /\ Kind[v] \notin {"refresh", "plain"}
         \/ t.op = "refresh" /\ Kind[v] \in {"refresh", "credit"}
<1>1. \/ Went(<<>>)
      \/ Kind[v] = "refresh" /\ \E t : Went(<<Task("refresh", ModOf[v], t)>>)
      \/ Kind[v] \notin {"refresh", "plain"} /\ \E t : Went(<<Task("toggle", ModOf[v], t)>>)
      \/ Kind[v] = "credit" /\ Went(<<Task("refresh", ModOf[v], 0), Task("toggle", ModOf[v], n)>>)
  BY SetLeads
<1>2. /\ Kind[v] \notin {"refresh", "plain"} => \A t : Good(Task("toggle", ModOf[v], t))
      /\ Kind[v] \in {"refresh", "credit"} => \A t : Good(Task("refresh", ModOf[v], t))
  BY Fields
<1> HIDE DEF Good
<1>3. ASSUME NEW u, Went(<<u>>), Good(u)
      PROVE  \E next : Went(next) /\ \A k \in 1 .. Len(next) : Good(next[k])
  BY <1>3, Shorts
<1>4. ASSUME NEW r, NEW u, Went(<<r, u>>), Good(r), Good(u)
      PROVE  \E next : Went(next) /\ \A k \in 1 .. Len(next) : Good(next[k])
  <2>1. \A k \in 1 .. Len(<<r, u>>) : <<r, u>>[k] \in {r, u}
    BY Shorts
  <2> QED BY <1>4, <2>1
<1>5. CASE Went(<<>>)
  BY <1>5, Shorts DEF Good
<1>6. ASSUME NEW t, Kind[v] = "refresh", Went(<<Task("refresh", ModOf[v], t)>>)
      PROVE  \E next : Went(next) /\ \A k \in 1 .. Len(next) : Good(next[k])
  BY <1>2, <1>3, <1>6
<1>7. ASSUME NEW t, Kind[v] \notin {"refresh", "plain"}, Went(<<Task("toggle", ModOf[v], t)>>)
      PROVE  \E next : Went(next) /\ \A k \in 1 .. Len(next) : Good(next[k])
  BY <1>2, <1>3, <1>7
<1>8. ASSUME Kind[v] = "credit", Went(<<Task("refresh", ModOf[v], 0), Task("toggle", ModOf[v], n)>>)
      PROVE  \E next : Went(next) /\ \A k \in 1 .. Len(next) : Good(next[k])
  <2>1. Good(Task("refresh", ModOf[v], 0)) /\ Good(Task("toggle", ModOf[v], n))
    BY <1>2, <1>8
  <2> QED BY <1>4, <1>8, <2>1
<1> QED BY <1>1, <1>5, <1>6, <1>7, <1>8 DEF Good

InParseTask(t) == \/ t.op \in {"setting", "override", "override unset"}
                  \/ t.op = "refresh" /\ t.for = Keeper /\ Steady(Keeper)
Parsing == \E k \in DOMAIN todo : InParse(k)

LEMMA ParseKept ==
    ASSUME ParseInv, NEW next, Went(next), phase' = phase,
           \A k \in 1 .. Len(next) : InParseTask(next[k]) => Parsing,
           Parsing => /\ Keeper \in enabled' \ failed'
                      /\ \A k \in 1 .. Len(next) :
                           /\ next[k].op # "set"
                           /\ next[k].op \in {"toggle", "flip", "pieces"} => next[k].for # Keeper
    PROVE  ParseInv'
<1>1. ASSUME NEW k \in DOMAIN todo', InParse(k)' PROVE Parsing
  <2>1. InParseTask(todo'[k])
    BY <1>1 DEF InParse, InParseTask, At, Steady
  <2>2. CASE k \in 1 .. Len(next) /\ todo'[k] = next[k]
    BY <2>1, <2>2
  <2>3. CASE \E j \in DOMAIN todo : todo'[k] = todo[j]
    BY <2>1, <2>3 DEF Parsing, InParse, InParseTask, At
  <2> QED BY <2>2, <2>3, CameFrom
<1>2. ASSUME Parsing, NEW k \in DOMAIN todo'
      PROVE  /\ todo'[k].op # "set"
             /\ todo'[k].op \in {"toggle", "flip", "pieces"} => todo'[k].for # Keeper
  <2>1. CASE k \in 1 .. Len(next) /\ todo'[k] = next[k]
    BY <1>2, <2>1
  <2>2. CASE \E j \in DOMAIN todo : todo'[k] = todo[j]
    BY <1>2, <2>2 DEF ParseInv, Parsing
  <2> QED BY <2>1, <2>2, CameFrom
<1>3. Parsing => phase' = "running"
  BY DEF ParseInv, Parsing
<1>4. ASSUME \E k \in DOMAIN todo' : InParse(k)' PROVE Parsing
  BY <1>1, <1>4
<1> QED BY <1>2, <1>3, <1>4 DEF ParseInv

LEMMA ParseNext ==
    TypeInv /\ LoadInv /\ FollowInv /\ ParseInv /\ [Next]_vars => ParseInv'
<1> SUFFICES ASSUME TypeInv, LoadInv, FollowInv, ParseInv, [Next]_vars PROVE ParseInv'
  OBVIOUS
<1>0. Parsing => /\ phase = "running" /\ Keeper \in enabled \ failed
                 /\ \A k \in DOMAIN todo :
                      /\ todo[k].op # "set"
                      /\ todo[k].op \in {"toggle", "flip", "pieces"} => todo[k].for # Keeper
  BY DEF ParseInv, Parsing
<1>1. ASSUME NEW v \in Var, Setting3(v) PROVE ParseInv'
  <2>1. /\ todo # <<>> /\ 1 \in DOMAIN todo
        /\ todo[1].op \in {"set", "override", "write"} /\ todo[1].for = v
        /\ todo[1].to \in Nat /\ SetValue(v, todo[1].to)
        /\ todo[1].op # "set" => v \in Overridable
    BY <1>1, SetsFirst
  <2>2. PICK next : /\ Went(next)
                    /\ \A k \in 1 .. Len(next) :
                         /\ next[k].for = ModOf[v]
                         /\ \/ next[k].op = "toggle" /\ Kind[v] \notin {"refresh", "plain"}
                            \/ next[k].op = "refresh" /\ Kind[v] \in {"refresh", "credit"}
    BY <2>1, SetKinds
  <2>3. UNCHANGED <<phase, enabled, failed>>
    BY <1>1, VarNews DEF VarStep, modVars
  <2>4. \A k \in 1 .. Len(next) : ~InParseTask(next[k])
    BY <2>2, Callbacks DEF InParseTask, Steady
  <2>5. Parsing => \A k \in 1 .. Len(next) :
                     /\ next[k].op # "set"
                     /\ next[k].op \in {"toggle", "flip", "pieces"} => next[k].for # Keeper
    <3>1. Parsing => v \in Overridable
      BY <1>0, <2>1
    <3>2. Parsing => (ModOf[v] = Keeper => Kind[v] \in {"refresh", "plain"})
      BY <3>1, Callbacks DEF Overridable
    <3> QED BY <2>2, <3>2
  <2> QED BY <1>0, <2>2, <2>3, <2>4, <2>5, ParseKept
<1>2. ASSUME NEW v \in Var, OverrideUnset(v) \/ Restore(v) \/ Unmark(v) \/ ParseSetting(v)
      PROVE  ParseInv'
  <2>1. todo[1].op \in {"override unset", "restore", "unmark", "setting"} /\ 1 \in DOMAIN todo
    BY <1>2, FirstTask DEF OverrideUnset, Restore, Unmark, ParseSetting
  <2>2. PICK next : /\ Went(next)
                    /\ \A k \in 1 .. Len(next) : <<todo[1].op, next[k].op>> \in LeadsTo
    BY <1>2, VarNews DEF VarStep
  <2>3. UNCHANGED <<phase, enabled, failed>>
    BY <1>2, VarNews DEF VarStep, modVars
  <2>4. todo[1].op \in {"override unset", "setting"} => Parsing
    BY <2>1 DEF Parsing, InParse
  <2>5. \A k \in 1 .. Len(next) : InParseTask(next[k]) => Parsing
    BY <2>1, <2>2, <2>4 DEF LeadsTo, InParseTask
  <2>6. \A k \in 1 .. Len(next) : next[k].op \notin {"set", "toggle", "flip", "pieces"}
    BY <2>1, <2>2 DEF LeadsTo
  <2> QED BY <1>0, <2>2, <2>3, <2>5, <2>6, ParseKept
<1>3. ASSUME NEW m \in Mod, Toggle(m) PROVE ParseInv'
  <2>1. todo[1].op = "toggle" /\ todo[1].for = m /\ 1 \in DOMAIN todo
    BY <1>3, FirstTask DEF Toggle
  <2>2. UNCHANGED <<phase, enabled, failed>>
    BY <1>3 DEF Toggle, modVars
  <2>3. PICK next : /\ Went(next)
                    /\ \A k \in 1 .. Len(next) :
                         \/ next[k].op = "restore"
                         \/ next[k].op \in {"flip", "pieces"} /\ next[k].for = m
    BY <1>3, ToggleNews
  <2>4. \A k \in 1 .. Len(next) : ~InParseTask(next[k])
    BY <2>3 DEF InParseTask
  <2>5. Parsing => m # Keeper
    BY <1>0, <2>1
  <2> QED BY <1>0, <2>2, <2>3, <2>4, <2>5, ParseKept
<1>4. ASSUME NEW m \in Mod, Flip(m) \/ TogglePieces(m) \/ RefreshPatches(m) PROVE ParseInv'
  <2>1. Went(<<>>)
    BY <1>4, PlainLeads
  <2>2. UNCHANGED <<phase, failed>>
    BY <1>4 DEF Flip, TogglePieces, RefreshPatches
  <2>3. Parsing => Keeper \in enabled'
    <3>1. CASE Flip(m)
      <4>1. todo[1].op = "flip" /\ todo[1].for = m /\ 1 \in DOMAIN todo
        BY <3>1, FirstTask DEF Flip
      <4>2. Parsing => m # Keeper
        BY <1>0, <4>1
      <4> QED BY <1>0, <3>1, <4>2 DEF Flip
    <3>2. CASE TogglePieces(m) \/ RefreshPatches(m)
      BY <1>0, <3>2 DEF TogglePieces, RefreshPatches
    <3> QED BY <1>4, <3>1, <3>2
  <2> QED BY <1>0, <2>1, <2>2, <2>3, Shorts, ParseKept
<1>5. ASSUME NEW m \in Mod, LoadMod(m) PROVE ParseInv'
  <2>1. todo[1].op = "load" /\ 1 \in DOMAIN todo
    BY <1>5, FirstTask DEF LoadMod
  <2>2. ~Parsing /\ phase' = phase
    BY <1>0, <1>5, <2>1 DEF LoadInv, LoadMod
  <2>3. PICK t : t = Task("toggle", m, 1)
    OBVIOUS
  <2>4. t.op = "toggle" /\ (Went(<<>>) \/ Went(<<t>>))
    BY <1>5, <2>3, LoadLeads, Fields
  <2>6. ~InParseTask(t)
    BY <2>4 DEF InParseTask
  <2>5. PICK next : Went(next) /\ \A k \in 1 .. Len(next) : ~InParseTask(next[k])
    BY <2>4, <2>6, Shorts
  <2> QED BY <2>2, <2>5, ParseKept
<1>6. ASSUME NEW m \in Mod, UnloadMod(m) PROVE ParseInv'
  <2>1. todo[1].op = "unload" /\ 1 \in DOMAIN todo
    BY <1>6, FirstTask DEF UnloadMod
  <2>2. ~Parsing /\ phase' = phase
    BY <1>0, <1>6, <2>1 DEF LoadInv, UnloadMod
  <2>3. PICK next, l :
          /\ Went(next) /\ l \in Nat /\ Len(next) = l + 2
          /\ next[1] = Task("toggle", m, 0) /\ next[l + 2] = Task("delete", m, 0)
          /\ \A k \in 2 .. l + 1 : next[k].op = "restore"
    BY <1>6, UnloadLeads
  <2>4. \A k \in 1 .. l + 2 : k = 1 \/ k = l + 2 \/ k \in 2 .. l + 1
    BY <2>3
  <2>5. \A k \in 1 .. Len(next) : next[k].op \in {"toggle", "delete", "restore"}
    BY <2>3, <2>4, Fields
  <2>6. \A k \in 1 .. Len(next) : ~InParseTask(next[k])
    BY <2>5 DEF InParseTask
  <2> QED BY <2>2, <2>3, <2>6, ParseKept
<1>7. ASSUME NEW m \in Mod, DeletePieces(m) PROVE ParseInv'
  <2>1. todo[1].op = "delete" /\ 1 \in DOMAIN todo
    BY <1>7, FirstTask DEF DeletePieces
  <2>2. ~Parsing /\ phase' = phase
    BY <1>0, <1>7, <2>1 DEF LoadInv, DeletePieces
  <2>3. Went(<<>>)
    BY <1>7, PlainLeads
  <2> QED BY <2>2, <2>3, Shorts, ParseKept
<1>8. CASE Command
  <2>1. phase = "running" /\ todo = <<>> /\ UNCHANGED <<enabled, failed, detours>>
    BY <1>8, CommandNews DEF modVars
  <2>2. CASE \A k \in DOMAIN todo' : todo'[k].op \in {"set", "restore", "unload"}
    BY <2>2 DEF ParseInv, InParse, At
  <2>3. CASE /\ phase' = "running" /\ Keeper \in detours
             /\ \A k \in DOMAIN todo' : \/ todo'[k].op = "refresh" /\ todo'[k].for = Keeper
                                        \/ todo'[k].op \in {"restore", "setting"}
    <3>1. Keeper \in enabled \ failed
      BY <2>1, <2>3, Ordering DEF FollowInv
    <3> QED BY <2>1, <2>3, <3>1 DEF ParseInv
  <2> QED BY <1>8, <2>2, <2>3, CommandNews
<1>9. CASE EndOfList \/ UNCHANGED vars
  <2>1. UNCHANGED <<todo, enabled, failed>>
    BY <1>9 DEF EndOfList, vars, modVars
  <2>2. ~Parsing \/ phase' = phase
    BY <1>9, <1>0 DEF EndOfList, vars
  <2> QED BY <1>0, <2>1, <2>2 DEF ParseInv, Parsing, InParse, At, Steady
<1>10. ASSUME NEW v \in Var, VarStep(v) PROVE ParseInv'
  BY <1>1, <1>2, <1>10 DEF VarStep
<1>11. ASSUME NEW m \in Mod, ModStep(m) PROVE ParseInv'
  BY <1>3, <1>4, <1>5, <1>6, <1>7, <1>11 DEF ModStep
<1> QED BY <1>8, <1>9, <1>10, <1>11, Kinds

-----------------------------------------------------------------------------

NeverWrites == \A k \in DOMAIN todo : todo[k].op # "write"
Restored(v) == At(1, "restore", v) \/ At(1, "unmark", v)

LEMMA HeadWrites ==
    ASSUME TypeInv, TraceInv, todo[1].op # "write"
    PROVE  /\ NeverWrites
           /\ \A k \in DOMAIN todo : k # 1 /\ todo[k].op = "unmark" =>
                /\ Quiet(todo[1])
                /\ \A j \in 1 .. k-1 : Quiet(todo[j])
                /\ value[todo[k].for] = user[todo[k].for]
<1>1. NeverWrites
  BY DEF TraceInv, NeverWrites
<1>2. ASSUME NEW k \in DOMAIN todo, k # 1, todo[k].op = "unmark"
      PROVE  /\ Quiet(todo[1])
             /\ \A j \in 1 .. k-1 : Quiet(todo[j])
             /\ value[todo[k].for] = user[todo[k].for]
  <2>1. ~At(1, "write", todo[2].for)
    BY DEF At
  <2>2. /\ \A j \in 1 .. k-1 : Quiet(todo[j])
        /\ value[todo[k].for] = user[todo[k].for]
    BY <1>2, <2>1 DEF TraceInv
  <2>3. 1 \in 1 .. k-1
    <3>1. todo \in Seq(AnyTask)
      BY DEF TypeInv
    <3>2. k \in Nat \ {0, 1}
      BY <1>2, <3>1
    <3> QED BY <3>2
  <2> QED BY <2>2, <2>3
<1> QED BY <1>1, <1>2

\* A step that begins or ends no restoring of a ConVar.
LEMMA TraceKept ==
    ASSUME TypeInv, PromptInv, TraceInv, NEW next, Went(next), todo[1].op # "write",
           phase' = phase, phase # "gone",
           \A k \in 1 .. Len(next) : next[k].op \notin {"write", "unmark"},
           ~Quiet(todo[1]) \/ ((\A k \in 1 .. Len(next) : Quiet(next[k])) /\ UNCHANGED <<value, user>>),
           \A v \in Var : IF v \in overridden' THEN backup'[v] = user'[v] ELSE value'[v] = user'[v],
           overridden' # {} => Keeper \notin failed',
           phase = "running" /\ overridden' # {} => Keeper \in enabled',
           phase = "running" => \A k \in 1 .. Len(next) :
             next[k].op = "flip" /\ next[k].for = Keeper /\ next[k].to = 0 =>
               \A v \in overridden' : \E j \in 1 .. k-1 : next[j].op = "restore" /\ next[j].for = v,
           todo[1].op \in Sets \/ (\A v \in overridden' : v \in overridden /\ ~Restored(v)),
           phase = "unloading" => \A v \in overridden' :
             \/ v \in overridden /\ ~Restored(v) /\ ~At(1, "unload", Keeper)
             \/ Pending("restore", v)'
    PROVE  TraceInv'
<1>0. PICK l \in Nat : l = Len(next)
  BY WentLengths
<1>1. PICK n \in Nat : DOMAIN todo = 1 .. n /\ DOMAIN todo' = 1 .. (l + n - 1) /\ n = Len(todo)
  BY <1>0, WentLengths
<1>2. \A j \in 1 .. l : todo'[j] = next[j]
  BY <1>0 DEF Went
<1>3. ASSUME NEW k \in DOMAIN todo', k \notin 1 .. l
      PROVE  \E i \in 2 .. n : /\ i = k - l + 1 /\ todo'[k] = todo[i]
                               /\ \A j \in l + 1 .. k : todo'[j] = todo[j - l + 1] /\ j - l + 1 \in 1 .. i
  <2>1. PICK i \in 2 .. n : i = k - l + 1 /\ todo'[k] = todo[i]
    BY <1>0, <1>1, <1>3, CameFrom
  <2>2. k \in Int
    BY <1>1
  <2>3. ASSUME NEW j \in l + 1 .. k PROVE todo'[j] = todo[j - l + 1] /\ j - l + 1 \in 1 .. i
    <3>1. j \in l + 1 .. l + n - 1
      BY <1>1
    <3>2. todo'[j] = todo[j - l + 1]
      BY <1>0, <1>1, <3>1 DEF Went
    <3>3. j - l + 1 \in 1 .. i
      BY <2>1, <2>2
    <3> QED BY <3>2, <3>3
  <2> QED BY <2>1, <2>3
<1>4. ASSUME NEW k \in DOMAIN todo' PROVE todo'[k].op # "write"
  BY <1>0, <1>2, <1>4, HeadWrites, CameFrom DEF NeverWrites
<1>5. ASSUME NEW k \in DOMAIN todo', todo'[k].op = "unmark"
      PROVE  /\ \A j \in 1 .. k-1 : Quiet(todo[j])'
             /\ value'[todo'[k].for] = user'[todo'[k].for]
  <2>1. k \notin 1 .. l
    BY <1>0, <1>2, <1>5
  <2>2. PICK i \in 2 .. n : /\ i = k - l + 1 /\ todo'[k] = todo[i]
                            /\ \A j \in l + 1 .. k : todo'[j] = todo[j - l + 1] /\ j - l + 1 \in 1 .. i
    BY <1>3, <2>1
  <2>3. /\ Quiet(todo[1]) /\ \A j \in 1 .. i-1 : Quiet(todo[j])
        /\ value[todo[i].for] = user[todo[i].for]
    BY <1>1, <1>5, <2>2, HeadWrites
  <2>4. ASSUME NEW j \in 1 .. k-1 PROVE Quiet(todo'[j])
    <3>1. CASE j \in 1 .. l
      BY <1>0, <1>2, <2>3, <3>1
    <3>2. CASE j \notin 1 .. l
      <4>0. k \in Int
        BY <1>1
      <4>1. j \in l + 1 .. k /\ j - l + 1 \in 1 .. i-1
        BY <2>2, <3>2, <4>0
      <4> QED BY <2>2, <2>3, <4>1
    <3> QED BY <3>1, <3>2
  <2> QED BY <2>2, <2>3, <2>4 DEF Quiet
<1>6. ASSUME phase = "running", NEW k \in DOMAIN todo', At(k, "flip", Keeper)', todo'[k].to = 0,
             NEW v \in overridden'
      PROVE  \E j \in 1 .. k-1 : At(j, "restore", v)' \/ At(j, "unmark", v)'
  <2>1. CASE k \in 1 .. l
    <3>1. PICK j \in 1 .. k-1 : next[j].op = "restore" /\ next[j].for = v
      BY <1>0, <1>2, <1>6, <2>1 DEF At
    <3>2. todo'[j] = next[j]
      BY <1>2, <2>1
    <3> QED BY <3>1, <3>2 DEF At
  <2>2. CASE k \notin 1 .. l
    <3>1. PICK i \in 2 .. n : /\ i = k - l + 1 /\ todo'[k] = todo[i]
      BY <1>3, <2>2
    <3>2. i \in DOMAIN todo /\ At(i, "flip", Keeper) /\ todo[i].to = 0 /\ k \in Int
      BY <1>1, <1>6, <3>1 DEF At
    <3>3. todo[1].op \notin Sets
      <4>1. \A j \in 1 .. i : todo[j].op \notin Sets
        BY <3>2 DEF PromptInv, At, Sets
      <4>2. 1 \in 1 .. i
        OBVIOUS
      <4> QED BY <4>1, <4>2
    <3>4. v \in overridden /\ ~Restored(v)
      BY <3>3
    <3>5. PICK j \in 1 .. i-1 : At(j, "restore", v) \/ At(j, "unmark", v)
      BY <1>6, <3>2, <3>4 DEF TraceInv
    <3>6. j # 1
      BY <3>4, <3>5 DEF Restored
    <3>7. j \in DOMAIN todo
      BY <1>1
    <3>8. todo'[j - 1 + l] = todo[j]
      BY <1>0, <3>6, <3>7, WentTo
    <3>9. j - 1 + l \in 1 .. k-1
      BY <3>1, <3>2, <3>6
    <3> QED BY <3>5, <3>8, <3>9 DEF At
  <2> QED BY <2>1, <2>2
<1>7. ASSUME phase = "unloading", NEW v \in overridden'
      PROVE  Pending("unload", Keeper)' \/ Pending("restore", v)' \/ Pending("unmark", v)'
  <2>1. CASE v \in overridden /\ ~Restored(v) /\ ~At(1, "unload", Keeper)
    <3>1. Pending("unload", Keeper) \/ Pending("restore", v) \/ Pending("unmark", v)
      BY <1>7, <2>1 DEF TraceInv
    <3> QED BY <2>1, <3>1, StaysPending DEF Restored
  <2> QED BY <1>7, <2>1
<1> QED BY <1>4, <1>5, <1>6, <1>7 DEF TraceInv

\* The first two steps of IPopOverride::Reset: Restore, and SetValue in it.
LEMMA TraceRestore ==
    ASSUME TypeInv, LoadInv, PromptInv, TraceInv, NEW v \in Var, Restore(v)
    PROVE  TraceInv'
<1>1. /\ todo[1].op = "restore" /\ todo[1].for = v /\ 1 \in DOMAIN todo
      /\ UNCHANGED <<phase, modVars, varVars>>
  BY FirstTask DEF Restore
<1>2. phase # "gone"
  BY <1>1 DEF LoadInv
<1>3. ~Quiet(todo[1]) /\ todo[1].op # "write"
  BY <1>1 DEF Quiet
<1>4. CASE v \notin overridden
  <2>1. Went(<<>>)
    BY <1>4, RestoreLeads
  <2>2. \A w \in overridden : ~Restored(w) /\ ~At(1, "unload", Keeper)
    BY <1>1, <1>4 DEF Restored, At
  <2>3. /\ \A w \in Var : IF w \in overridden' THEN backup'[w] = user'[w] ELSE value'[w] = user'[w]
        /\ overridden' # {} => Keeper \notin failed'
        /\ phase = "running" /\ overridden' # {} => Keeper \in enabled'
        /\ overridden' = overridden /\ phase' = phase
    BY <1>1 DEF TraceInv, modVars, varVars
  <2> QED BY <1>2, <1>3, <2>1, <2>2, <2>3, Shorts, TraceKept
<1>5. CASE v \in overridden
  <2>1. PICK w, u : w = Task("write", v, backup[v]) /\ u = Task("unmark", v, 0)
    OBVIOUS
  <2>2. /\ w.op = "write" /\ w.for = v /\ w.to = backup[v]
        /\ u.op = "unmark" /\ u.for = v
    BY <2>1, Fields
  <2>3. PICK g : g = <<w, u>>
    OBVIOUS
  <2>4. Len(g) = 2 /\ g[1] = w /\ g[2] = u
    BY <2>3
  <2>5. Went(g)
    BY <1>5, <2>1, <2>3, RestoreLeads
  <2>6. PICK n \in Nat \ {0} : DOMAIN todo = 1 .. n /\ DOMAIN todo' = 1 .. (2 + n - 1) /\ n = Len(todo)
    BY <2>4, <2>5 DEF Went
  <2>7. todo'[1] = w /\ todo'[2] = u /\ 1 \in DOMAIN todo' /\ 2 \in DOMAIN todo'
    <3>1. 1 \in 1 .. Len(g) /\ 2 \in 1 .. Len(g)
      BY <2>4
    <3> QED BY <2>4, <2>5, <2>6, <3>1 DEF Went
  <2>8. ASSUME NEW k \in DOMAIN todo', k # 1, k # 2
        PROVE  k - 1 \in DOMAIN todo /\ k - 1 # 1 /\ todo'[k] = todo[k - 1]
    <3>1. k \in 3 .. 2 + n - 1
      BY <2>6, <2>8
    <3>2. k \in Len(g) + 1 .. Len(g) + Len(todo) - 1 /\ k - Len(g) + 1 = k - 1
      BY <2>4, <2>6, <3>1
    <3>3. todo'[k] = todo[k - Len(g) + 1]
      BY <2>5, <3>2 DEF Went
    <3> QED BY <2>6, <3>1, <3>2, <3>3
  <2>9. /\ NeverWrites
        /\ \A k \in DOMAIN todo : k # 1 => todo[k].op # "unmark"
    BY <1>3, HeadWrites
  <2>10. ASSUME NEW k \in DOMAIN todo', todo'[k].op = "write"
         PROVE  /\ k = 1 /\ 2 \in DOMAIN todo' /\ At(2, "unmark", todo[1].for)'
                /\ todo'[1].for \in overridden' /\ todo'[1].to = user'[todo'[1].for]
    <3>1. k = 1
      BY <2>2, <2>7, <2>8, <2>9, <2>10 DEF NeverWrites
    <3>2. backup[v] = user[v]
      BY <1>5 DEF TraceInv
    <3> QED BY <1>1, <1>5, <2>2, <2>7, <3>1, <3>2 DEF At, varVars
  <2>11. ASSUME NEW k \in DOMAIN todo', todo'[k].op = "unmark"
         PROVE  k = 2 /\ At(1, "write", todo[2].for)'
    <3>1. k = 2
      BY <2>2, <2>7, <2>8, <2>9, <2>11
    <3> QED BY <2>2, <2>7, <3>1 DEF At
  <2>12. ASSUME phase = "running", NEW k \in DOMAIN todo', At(k, "flip", Keeper)', todo'[k].to = 0,
                NEW x \in overridden
         PROVE  \E j \in 1 .. k-1 : At(j, "restore", x)' \/ At(j, "unmark", x)'
    <3>1. k # 1 /\ k # 2
      BY <2>2, <2>7, <2>12 DEF At
    <3>2. PICK i \in DOMAIN todo : i = k - 1 /\ i # 1 /\ todo'[k] = todo[i]
      BY <2>8, <3>1
    <3>3. PICK j \in 1 .. i-1 : At(j, "restore", x) \/ At(j, "unmark", x)
      BY <2>12, <3>2 DEF TraceInv, At
    <3>4. i \in Nat /\ i > 1 /\ k \in Nat /\ k > 2
      BY <2>6, <3>1, <3>2
    <3>5. CASE j = 1
      <4>1. x = v
        BY <1>1, <3>3, <3>5 DEF At
      <4>2. 2 \in 1 .. k-1
        BY <3>4
      <4> QED BY <2>2, <2>7, <4>1, <4>2 DEF At
    <3>6. CASE j # 1
      <4>1. j \in DOMAIN todo
        BY <2>6, <3>2
      <4>2. j - 1 + 2 = j + 1 /\ j + 1 \in 1 .. k-1
        BY <3>2, <3>4
      <4>3. todo'[j + 1] = todo[j]
        <5>1. todo'[j - 1 + Len(g)] = todo[j]
          BY <2>5, <3>6, <4>1, WentTo
        <5>2. j - 1 + Len(g) = j + 1
          BY <2>4, <4>2
        <5> QED BY <5>1, <5>2
      <4> QED BY <3>3, <4>2, <4>3 DEF At
    <3> QED BY <3>5, <3>6
  <2>13. ASSUME phase = "unloading", NEW x \in overridden
         PROVE  Pending("unload", Keeper)' \/ Pending("restore", x)' \/ Pending("unmark", x)'
    <3>1. CASE x = v
      BY <2>2, <2>7, <3>1 DEF Pending, At
    <3>2. CASE x # v
      <4>1. Pending("unload", Keeper) \/ Pending("restore", x) \/ Pending("unmark", x)
        BY <2>13 DEF TraceInv
      <4>2. ~At(1, "unload", Keeper) /\ ~At(1, "restore", x) /\ ~At(1, "unmark", x)
        BY <1>1, <3>2 DEF At
      <4> QED BY <2>5, <4>1, <4>2, StaysPending
    <3> QED BY <3>1, <3>2
  <2>14. /\ UNCHANGED <<value, overridden, backup, user, phase, enabled, failed>>
    BY <1>1 DEF modVars, varVars
  <2> QED BY <1>2, <2>10, <2>11, <2>12, <2>13, <2>14 DEF TraceInv
<1> QED BY <1>4, <1>5

LEMMA TraceWrite ==
    ASSUME TypeInv, LoadInv, PromptInv, TraceInv, NEW v \in Var, WriteBack(v)
    PROVE  TraceInv'
<1>1. /\ todo[1].op = "write" /\ todo[1].for = v /\ 1 \in DOMAIN todo /\ todo # <<>>
      /\ todo[1].to \in Nat /\ SetValue(v, todo[1].to) /\ v \in Overridable
      /\ UNCHANGED <<phase, modVars, overridden, backup, user>>
  <2>1. Setting3(v)
    BY DEF Setting3
  <2>2. todo[1].op = "write" /\ UNCHANGED <<phase, modVars, overridden, backup, user>>
    BY FirstTask DEF WriteBack
  <2>3. /\ todo # <<>> /\ 1 \in DOMAIN todo /\ todo[1].for = v
        /\ todo[1].to \in Nat /\ SetValue(v, todo[1].to) /\ v \in Overridable
    BY <2>1, <2>2, SetsFirst
  <2> QED BY <2>2, <2>3
<1>2. /\ phase # "gone"
      /\ 2 \in DOMAIN todo /\ At(2, "unmark", v)
      /\ v \in overridden /\ todo[1].to = user[v]
  BY <1>1 DEF LoadInv, TraceInv
<1>3. /\ value'[v] = user[v] /\ \A w \in Var : w # v => value'[w] = value[w]
  <2>1. value' = [value EXCEPT ![v] = todo[1].to]
    BY <1>1 DEF SetValue
  <2>2. value \in [Var -> Nat]
    BY DEF TypeInv
  <2> QED BY <1>2, <2>1, <2>2
<1>4. PICK next : /\ Went(next)
                  /\ \A k \in 1 .. Len(next) :
                       /\ next[k].for = ModOf[v]
                       /\ \/ next[k].op = "toggle" /\ Kind[v] \notin {"refresh", "plain"}
                          \/ next[k].op = "refresh" /\ Kind[v] \in {"refresh", "credit"}
  BY <1>1, SetKinds
<1>5. \A k \in 1 .. Len(next) : Quiet(next[k])
  <2>1. ModOf[v] = Keeper => Kind[v] \in {"refresh", "plain"}
    BY <1>1, Callbacks DEF Overridable
  <2> QED BY <1>4, <2>1 DEF Quiet
<1>6. PICK l \in Nat : l = Len(next)
  <2>1. Went(next)
    BY <1>4
  <2>2. Len(next) \in Nat
    BY <2>1, WentLengths, ZenonT(40)
  <2> QED BY <2>2
<1>7. PICK n \in Nat : DOMAIN todo = 1 .. n /\ DOMAIN todo' = 1 .. (l + n - 1) /\ n = Len(todo)
  <2>1. /\ Len(todo) \in Nat /\ DOMAIN todo = 1 .. Len(todo)
        /\ DOMAIN todo' = 1 .. (Len(next) + Len(todo) - 1)
    BY <1>4, WentLengths
  <2> QED BY <1>6, <2>1
<1>8. ASSUME NEW k \in DOMAIN todo, k # 1 PROVE todo[k].op # "write"
  BY <1>8 DEF TraceInv
<1>9. ASSUME NEW k \in DOMAIN todo, todo[k].op = "unmark" PROVE k = 2
  <2>1. SUFFICES ASSUME k # 2 PROVE FALSE
    OBVIOUS
  <2>2. k # 1
    BY <1>1, <1>9
  <2>3. \A j \in 1 .. k-1 : Quiet(todo[j])
    BY <1>9, <2>1 DEF TraceInv
  <2>4. 1 \in 1 .. k-1
    BY <1>7, <2>2
  <2> QED BY <1>1, <2>3, <2>4 DEF Quiet
<1>10. ASSUME NEW k \in DOMAIN todo' PROVE todo'[k].op # "write"
  BY <1>4, <1>8, CameFrom
<1>11. ASSUME NEW k \in DOMAIN todo', todo'[k].op = "unmark"
       PROVE  /\ \A j \in 1 .. k-1 : Quiet(todo[j])'
              /\ value'[todo'[k].for] = user'[todo'[k].for]
  <2>1. PICK i \in DOMAIN todo : i = k - l + 1 /\ todo'[k] = todo[i]
    BY <1>4, <1>6, <1>11, CameFrom
  <2>2. i = 2
    BY <1>9, <1>11, <2>1
  <2>3. k = l + 1
    BY <1>7, <2>1, <2>2
  <2>4. \A j \in 1 .. k-1 : Quiet(todo'[j])
    <3>1. \A j \in 1 .. l : todo'[j] = next[j]
      BY <1>4, <1>6 DEF Went
    <3>2. k - 1 = l
      BY <2>3
    <3> QED BY <1>5, <1>6, <3>1, <3>2
  <2> QED BY <1>1, <1>2, <1>3, <2>1, <2>2, <2>4 DEF Quiet, At
<1>12. ASSUME phase = "running", NEW k \in DOMAIN todo', At(k, "flip", Keeper)', todo'[k].to = 0,
              NEW x \in overridden
       PROVE  \E j \in 1 .. k-1 : At(j, "restore", x)' \/ At(j, "unmark", x)'
  <2>1. PICK i \in DOMAIN todo : i = k - l + 1 /\ i > 1 /\ todo'[k] = todo[i]
    BY <1>4, <1>6, <1>12, CameFrom DEF At
  <2>2. PICK j \in 1 .. i-1 : At(j, "restore", x) \/ At(j, "unmark", x)
    BY <1>12, <2>1 DEF TraceInv, At
  <2>3. j # 1
    BY <1>1, <2>2 DEF At
  <2>4. j \in DOMAIN todo /\ k \in Int
    BY <1>7
  <2>5. todo'[j - 1 + l] = todo[j]
    BY <1>4, <1>6, <2>3, <2>4, WentTo
  <2>6. j - 1 + l \in 1 .. k-1
    <3>1. i \in Int /\ j \in Int /\ j > 1 /\ j < i
      BY <1>7, <2>3
    <3> QED BY <2>1, <2>4, <3>1
  <2> QED BY <2>2, <2>5, <2>6 DEF At
<1>13. ASSUME phase = "unloading", NEW x \in overridden
       PROVE  Pending("unload", Keeper)' \/ Pending("restore", x)' \/ Pending("unmark", x)'
  <2>1. Pending("unload", Keeper) \/ Pending("restore", x) \/ Pending("unmark", x)
    BY <1>13 DEF TraceInv
  <2>2. ~At(1, "unload", Keeper) /\ ~At(1, "restore", x) /\ ~At(1, "unmark", x)
    BY <1>1 DEF At
  <2> QED BY <1>4, <2>1, <2>2, StaysPending
<1>14. \A w \in Var : IF w \in overridden THEN backup[w] = user[w] ELSE value'[w] = user[w]
  BY <1>2, <1>3 DEF TraceInv
<1>15. UNCHANGED <<phase, enabled, failed, overridden, backup, user>>
  BY <1>1 DEF modVars
<1> QED BY <1>2, <1>10, <1>11, <1>12, <1>13, <1>14, <1>15 DEF TraceInv

LEMMA TraceSet ==
    ASSUME TypeInv, LoadInv, ParseInv, PromptInv, TraceInv,
           NEW v \in Var, SetByUser(v) \/ Override(v)
    PROVE  TraceInv'
<1>1. /\ todo[1].op \in {"set", "override"} /\ todo[1].for = v /\ 1 \in DOMAIN todo /\ todo # <<>>
      /\ todo[1].to \in Nat /\ SetValue(v, todo[1].to)
      /\ todo[1].op # "set" => v \in Overridable
  <2>1. Setting3(v)
    BY DEF Setting3
  <2>2. todo[1].op \in {"set", "override"}
    BY FirstTask DEF SetByUser, Override
  <2> QED BY <2>1, <2>2, SetsFirst
<1>2. PICK next : /\ Went(next)
                  /\ \A k \in 1 .. Len(next) : next[k].op \in {"toggle", "refresh"}
  BY <1>1, SetNews
<1>3. /\ phase # "gone" /\ phase' = phase /\ todo[1].op \in Sets /\ ~Quiet(todo[1])
      /\ todo[1].op # "write"
      /\ ~At(1, "unload", Keeper) /\ \A w : ~Restored(w)
  BY <1>1 DEF LoadInv, SetByUser, Override, Sets, Quiet, At, Restored
<1>4. /\ value' = [value EXCEPT ![v] = todo[1].to] /\ value'[v] = todo[1].to
      /\ \A w \in Var : w # v => value'[w] = value[w]
  BY <1>1 DEF SetValue, TypeInv
<1>5. UNCHANGED <<enabled, failed>>
  BY DEF SetByUser, Override, modVars
<1>6. CASE SetByUser(v)
  <2>1. \A w \in Var : IF w \in overridden' THEN backup'[w] = user'[w] ELSE value'[w] = user'[w]
    <3>1. Head(todo) = todo[1]
      BY <1>6, FirstTask DEF SetByUser
    <3>2. UNCHANGED <<overridden, backup>> /\ user \in [Var -> Nat]
      BY <1>6 DEF SetByUser, TypeInv
    <3>3. CASE v \in overridden
      <4>1. user' = user
        BY <1>6, <3>3 DEF SetByUser
      <4> QED BY <1>4, <3>2, <3>3, <4>1 DEF TraceInv
    <3>4. CASE v \notin overridden
      <4>1. user' = [user EXCEPT ![v] = todo[1].to]
        BY <1>6, <3>1, <3>4 DEF SetByUser
      <4>2. user'[v] = todo[1].to /\ \A w \in Var : w # v => user'[w] = user[w]
        BY <3>2, <4>1
      <4> QED BY <1>4, <3>2, <3>4, <4>2 DEF TraceInv
    <3> QED BY <3>3, <3>4
  <2>2. overridden' = overridden
    BY <1>6 DEF SetByUser
  <2>3. /\ overridden' # {} => Keeper \notin failed'
        /\ phase = "running" /\ overridden' # {} => Keeper \in enabled'
    BY <1>5, <2>2 DEF TraceInv
  <2> QED BY <1>2, <1>3, <2>1, <2>2, <2>3, TraceKept
<1>7. CASE Override(v)
  <2>1. todo[1].op = "override"
    BY <1>7, FirstTask DEF Override
  <2>2. phase = "running" /\ Keeper \in enabled \ failed
    BY <1>1, <2>1 DEF ParseInv, InParse
  <2>3. user' = user /\ overridden' = overridden \cup {v}
    BY <1>7 DEF Override
  <2>4. \A w \in Var : IF w \in overridden' THEN backup'[w] = user'[w] ELSE value'[w] = user'[w]
    <3>1. CASE v \in overridden
      <4>1. backup' = backup /\ overridden' = overridden
        BY <1>7, <2>3, <3>1 DEF Override
      <4> QED BY <1>4, <2>3, <3>1, <4>1 DEF TraceInv
    <3>2. CASE v \notin overridden
      <4>1. backup' = [backup EXCEPT ![v] = value[v]] /\ backup \in [Var -> Nat]
        BY <1>7, <3>2 DEF Override, TypeInv
      <4>2. backup'[v] = value[v] /\ \A w \in Var : w # v => backup'[w] = backup[w]
        BY <4>1
      <4>3. value[v] = user[v]
        BY <3>2 DEF TraceInv
      <4> QED BY <1>4, <2>3, <4>2, <4>3 DEF TraceInv
    <3> QED BY <3>1, <3>2
  <2>5. phase # "unloading"
    BY <2>2
  <2> QED BY <1>2, <1>3, <1>5, <2>2, <2>4, <2>5, TraceKept
<1> QED BY <1>6, <1>7

LEMMA ToggleTraces ==
    ASSUME TypeInv, NEW m \in Mod, Toggle(m)
    PROVE  \E next :
             /\ Went(next)
             /\ \A k \in 1 .. Len(next) : next[k].op \notin {"write", "unmark"}
             /\ m # Keeper => \A k \in 1 .. Len(next) : Quiet(next[k])
             /\ \A k \in 1 .. Len(next) :
                  next[k].op = "flip" /\ next[k].for = Keeper /\ next[k].to = 0 =>
                    \A v \in overridden : \E j \in 1 .. k-1 : next[j].op = "restore" /\ next[j].for = v
<1> DEFINE Goal(next) ==
      /\ \A k \in 1 .. Len(next) : next[k].op \notin {"write", "unmark"}
      /\ m # Keeper => \A k \in 1 .. Len(next) : Quiet(next[k])
      /\ \A k \in 1 .. Len(next) :
           next[k].op = "flip" /\ next[k].for = Keeper /\ next[k].to = 0 =>
             \A v \in overridden : \E j \in 1 .. k-1 : next[j].op = "restore" /\ next[j].for = v
<1>1. PICK n : n = todo[1].to
  OBVIOUS
<1>2. PICK f, p : f = Task("flip", m, n) /\ p = Task("pieces", m, n)
  OBVIOUS
<1>3. /\ f.op = "flip" /\ f.for = m /\ f.to = n
      /\ p.op = "pieces" /\ p.for = m /\ p.to = n
  BY <1>2, Fields
<1>4. Quiet(p) /\ (m # Keeper => Quiet(f))
  BY <1>3 DEF Quiet
<1>5. Goal(<<p>>)
  BY <1>3, <1>4, Shorts
<1>6. ASSUME ~(m = Keeper /\ n = 0) PROVE Goal(<<f, p>>)
  <2>1. \A k \in 1 .. Len(<<f, p>>) : <<f, p>>[k] \in {f, p}
    BY Shorts
  <2> QED BY <1>3, <1>4, <1>6, <2>1
<1>7. ASSUME m = Keeper, NEW g, Went(g), Len(g) = Len(Overrides) + 2,
             \A k \in 1 .. Len(Overrides) : g[k] = Task("restore", Overrides[k], 0),
             g[Len(Overrides) + 1] = f, g[Len(Overrides) + 2] = p
      PROVE  Goal(g)
  <2>1. PICK l \in Nat : l = Len(Overrides)
    BY ResetFacts
  <2>2. \A k \in 1 .. l : g[k].op = "restore" /\ g[k].for = Overrides[k]
    BY <1>7, <2>1, Fields
  <2>3. Len(g) = l + 2 /\ g[l + 1] = f /\ g[l + 2] = p
    BY <1>7, <2>1
  <2>4. \A k \in 1 .. l + 2 : k \in 1 .. l \/ k = l + 1 \/ k = l + 2
    OBVIOUS
  <2>5. \A k \in 1 .. l + 2 : g[k].op \notin {"write", "unmark"}
    BY <1>3, <2>2, <2>3, <2>4
  <2>6. \A k \in 1 .. l + 2 : g[k].op = "flip" => k = l + 1
    BY <1>3, <2>2, <2>3, <2>4
  <2>7. ASSUME NEW v \in overridden
        PROVE  \E j \in 1 .. (l + 1) - 1 : g[j].op = "restore" /\ g[j].for = v
    <3>1. PICK k \in 1 .. l : Overrides[k] = v
      BY <2>1, OverridesFacts DEF TypeInv
    <3>2. (l + 1) - 1 = l
      OBVIOUS
    <3> QED BY <2>2, <3>1, <3>2
  <2> QED BY <1>7, <2>3, <2>5, <2>6, <2>7
<1>8. \/ Went(<<p>>)
      \/ ~(m = Keeper /\ n = 0) /\ Went(<<f, p>>)
      \/ /\ m = Keeper
         /\ \E next : /\ Went(next) /\ Len(next) = Len(Overrides) + 2
                      /\ \A k \in 1 .. Len(Overrides) : next[k] = Task("restore", Overrides[k], 0)
                      /\ next[Len(Overrides) + 1] = f /\ next[Len(Overrides) + 2] = p
  BY <1>1, <1>2, ToggleLeads
<1> HIDE DEF Goal
<1>9. \E next : Went(next) /\ Goal(next)
  BY <1>5, <1>6, <1>7, <1>8
<1> QED BY <1>9 DEF Goal

LEMMA TraceNext ==
    TypeInv /\ LoadInv /\ LoadingInv /\ ParseInv /\ PromptInv /\ TraceInv /\ [Next]_vars => TraceInv'
<1> SUFFICES ASSUME TypeInv, LoadInv, LoadingInv, ParseInv, PromptInv, TraceInv, [Next]_vars
             PROVE  TraceInv'
  OBVIOUS
<1>1. ASSUME NEW next, Went(next), todo[1].op # "write", 1 \in DOMAIN todo, phase' = phase,
             UNCHANGED <<failed, value, overridden, backup, user>>,
             phase = "running" /\ overridden # {} => Keeper \in enabled',
             \A k \in 1 .. Len(next) : next[k].op \notin {"write", "unmark"},
             ~Quiet(todo[1]) \/ \A k \in 1 .. Len(next) : Quiet(next[k]),
             phase = "running" => \A k \in 1 .. Len(next) :
               next[k].op = "flip" /\ next[k].for = Keeper /\ next[k].to = 0 =>
                 \A v \in overridden : \E j \in 1 .. k-1 : next[j].op = "restore" /\ next[j].for = v,
             \A v \in overridden : ~Restored(v),
             At(1, "unload", Keeper) => \A v \in overridden : Pending("restore", v)'
      PROVE  TraceInv'
  <2>1. UNCHANGED <<value, overridden, backup, user>>
    BY <1>1
  <2>2. /\ \A v \in Var : IF v \in overridden' THEN backup'[v] = user'[v] ELSE value'[v] = user'[v]
        /\ overridden' # {} => Keeper \notin failed'
        /\ phase = "running" /\ overridden' # {} => Keeper \in enabled'
    BY <1>1, <2>1 DEF TraceInv
  <2>3. phase # "gone"
    BY <1>1 DEF LoadInv
  <2>4. phase = "unloading" => \A v \in overridden' :
          \/ v \in overridden /\ ~Restored(v) /\ ~At(1, "unload", Keeper)
          \/ Pending("restore", v)'
    BY <1>1, <2>1
  <2> QED BY <1>1, <2>1, <2>2, <2>3, <2>4, TraceKept DEF varVars
<1>2. ASSUME NEW v \in Var, OverrideUnset(v) \/ ParseSetting(v) PROVE TraceInv'
  <2>1. todo[1].op \in {"override unset", "setting"} /\ 1 \in DOMAIN todo
        /\ UNCHANGED <<phase, modVars, varVars>>
    BY <1>2, FirstTask DEF OverrideUnset, ParseSetting
  <2>2. PICK next : /\ Went(next)
                    /\ \A k \in 1 .. Len(next) : <<todo[1].op, next[k].op>> \in LeadsTo
    BY <1>2, VarNews DEF VarStep
  <2>3. \A k \in 1 .. Len(next) : next[k].op \notin {"write", "unmark", "flip"}
    BY <2>1, <2>2 DEF LeadsTo
  <2>4. ~Quiet(todo[1]) /\ (\A w : ~Restored(w)) /\ ~At(1, "unload", Keeper)
    BY <2>1 DEF Quiet, Restored, At
  <2>5. phase = "running" /\ overridden # {} => Keeper \in enabled'
    BY <2>1 DEF TraceInv, modVars
  <2>6. failed' = failed
    BY <2>1 DEF modVars
  <2> QED BY <1>1, <2>1, <2>2, <2>3, <2>4, <2>5, <2>6 DEF varVars
<1>3. ASSUME NEW v \in Var, Unmark(v) PROVE TraceInv'
  <2>1. /\ todo[1].op = "unmark" /\ todo[1].for = v /\ 1 \in DOMAIN todo
        /\ UNCHANGED <<phase, modVars, value, backup, user>> /\ overridden' = overridden \ {v}
    BY <1>3, FirstTask DEF Unmark
  <2>2. Went(<<>>)
    BY <1>3, PlainLeads
  <2>3. value[v] = user[v]
    BY <2>1 DEF TraceInv
  <2>4. /\ \A w \in Var : IF w \in overridden' THEN backup'[w] = user'[w] ELSE value'[w] = user'[w]
        /\ overridden' # {} => Keeper \notin failed'
        /\ phase = "running" /\ overridden' # {} => Keeper \in enabled'
    BY <2>1, <2>3 DEF TraceInv, modVars
  <2>5. phase # "gone" /\ phase' = phase
    BY <2>1 DEF LoadInv
  <2>6. \A w \in overridden' : w \in overridden /\ ~Restored(w) /\ ~At(1, "unload", Keeper)
    BY <2>1 DEF Restored, At
  <2>7. ~Quiet(todo[1]) /\ todo[1].op # "write"
    BY <2>1 DEF Quiet
  <2> QED BY <2>2, <2>4, <2>5, <2>6, <2>7, Shorts, TraceKept
<1>4. ASSUME NEW m \in Mod, Toggle(m) PROVE TraceInv'
  <2>1. /\ todo[1].op = "toggle" /\ todo[1].for = m /\ 1 \in DOMAIN todo
        /\ UNCHANGED <<phase, modVars, varVars>>
    BY <1>4, FirstTask DEF Toggle
  <2>2. (\A w : ~Restored(w)) /\ ~At(1, "unload", Keeper)
    BY <2>1 DEF Restored, At
  <2>3. phase = "running" /\ overridden # {} => Keeper \in enabled'
    BY <2>1 DEF TraceInv, modVars
  <2>4. failed' = failed
    BY <2>1 DEF modVars
  <2>5. PICK next :
          /\ Went(next)
          /\ \A k \in 1 .. Len(next) : next[k].op \notin {"write", "unmark"}
          /\ m # Keeper => \A k \in 1 .. Len(next) : Quiet(next[k])
          /\ \A k \in 1 .. Len(next) :
               next[k].op = "flip" /\ next[k].for = Keeper /\ next[k].to = 0 =>
                 \A v \in overridden : \E j \in 1 .. k-1 : next[j].op = "restore" /\ next[j].for = v
    BY <1>4, ToggleTraces
  <2>6. m = Keeper => ~Quiet(todo[1])
    BY <2>1 DEF Quiet
  <2> QED BY <1>1, <2>1, <2>2, <2>3, <2>4, <2>5, <2>6 DEF varVars
<1>5. ASSUME NEW m \in Mod, Flip(m) PROVE TraceInv'
  <2>1. /\ todo[1].op = "flip" /\ todo[1].for = m /\ 1 \in DOMAIN todo
        /\ UNCHANGED <<phase, failed, varVars>> /\ Head(todo) = todo[1] /\ todo[1].to \in Nat
    BY <1>5, FirstTask DEF Flip
  <2>2. Went(<<>>)
    BY <1>5, PlainLeads
  <2>3. (\A w : ~Restored(w)) /\ ~At(1, "unload", Keeper)
    BY <2>1 DEF Restored, At
  <2>4. phase = "running" /\ overridden # {} => Keeper \in enabled'
    <3>1. SUFFICES ASSUME phase = "running", NEW v \in overridden PROVE Keeper \in enabled'
      OBVIOUS
    <3>2. Keeper \in enabled
      BY <3>1 DEF TraceInv
    <3>3. ~(m = Keeper /\ todo[1].to = 0)
      <4>1. SUFFICES ASSUME m = Keeper, todo[1].to = 0 PROVE FALSE
        OBVIOUS
      <4>2. At(1, "flip", Keeper)
        BY <2>1, <4>1 DEF At
      <4>3. \E j \in 1 .. 1-1 : At(j, "restore", v) \/ At(j, "unmark", v)
        BY <2>1, <3>1, <4>1, <4>2 DEF TraceInv
      <4> QED BY <4>3
    <3> QED BY <1>5, <2>1, <3>2, <3>3 DEF Flip
  <2> QED BY <1>1, <2>1, <2>2, <2>3, <2>4, Shorts DEF varVars
<1>6. ASSUME NEW m \in Mod, TogglePieces(m) \/ RefreshPatches(m) \/ DeletePieces(m) PROVE TraceInv'
  <2>1. /\ todo[1].op \in {"pieces", "refresh", "delete"} /\ 1 \in DOMAIN todo
        /\ UNCHANGED <<phase, enabled, failed, value, overridden, backup, user>>
    BY <1>6, FirstTask DEF TogglePieces, RefreshPatches, DeletePieces, varVars
  <2>2. Went(<<>>)
    BY <1>6, PlainLeads
  <2>3. (\A w : ~Restored(w)) /\ ~At(1, "unload", Keeper)
    BY <2>1 DEF Restored, At
  <2>4. phase = "running" /\ overridden # {} => Keeper \in enabled'
    BY <2>1 DEF TraceInv
  <2> QED BY <1>1, <2>1, <2>2, <2>3, <2>4, Shorts DEF varVars
<1>7. ASSUME NEW m \in Mod, LoadMod(m) PROVE TraceInv'
  <2>1. /\ todo[1].op = "load" /\ 1 \in DOMAIN todo
        /\ UNCHANGED <<phase, enabled, varVars>>
    BY <1>7, FirstTask DEF LoadMod
  <2>2. phase = "loading"
    BY <2>1 DEF LoadInv
  <2>3. overridden = {}
    BY <2>2 DEF LoadingInv
  <2>4. ~Quiet(todo[1]) /\ todo[1].op # "write"
    BY <2>1 DEF Quiet
  <2>5. PICK t : t = Task("toggle", m, 1)
    OBVIOUS
  <2>6. t.op = "toggle" /\ (Went(<<>>) \/ Went(<<t>>))
    BY <1>7, <2>5, LoadLeads, Fields
  <2>7. PICK next : Went(next) /\ \A k \in 1 .. Len(next) : next[k].op = "toggle"
    BY <2>6, Shorts
  <2>8. /\ overridden' = {} /\ phase' = phase /\ phase # "gone" /\ phase # "running" /\ phase # "unloading"
        /\ \A w \in Var : IF w \in overridden' THEN backup'[w] = user'[w] ELSE value'[w] = user'[w]
    BY <2>1, <2>2, <2>3 DEF TraceInv, varVars
  <2> QED BY <2>4, <2>7, <2>8, TraceKept
<1>8. ASSUME NEW m \in Mod, UnloadMod(m) PROVE TraceInv'
  <2>1. /\ todo[1].op = "unload" /\ todo[1].for = m /\ 1 \in DOMAIN todo
        /\ UNCHANGED <<phase, modVars, varVars>>
    BY <1>8, FirstTask DEF UnloadMod
  <2>2. PICK next, l :
          /\ Went(next) /\ l \in Nat /\ Len(next) = l + 2
          /\ next[1] = Task("toggle", m, 0) /\ next[l + 2] = Task("delete", m, 0)
          /\ \A k \in 2 .. l + 1 : next[k].op = "restore"
          /\ m = Keeper => /\ l = Len(Overrides)
                           /\ \A k \in 1 .. l : next[k + 1] = Task("restore", Overrides[k], 0)
    BY <1>8, UnloadLeads
  <2>3. \A k \in 1 .. l + 2 : k = 1 \/ k = l + 2 \/ k \in 2 .. l + 1
    BY <2>2
  <2>4. \A k \in 1 .. Len(next) : next[k].op \in {"toggle", "delete", "restore"}
    BY <2>2, <2>3, Fields
  <2>5. At(1, "unload", Keeper) => \A v \in overridden : Pending("restore", v)'
    <3>1. SUFFICES ASSUME m = Keeper, NEW v \in overridden PROVE Pending("restore", v)'
      BY <2>1 DEF At
    <3>2. v \in Overridable
      BY DEF TypeInv
    <3>3. PICK k \in 1 .. l : Overrides[k] = v
      BY <2>2, <3>1, <3>2, OverridesFacts
    <3>4. next[k + 1].op = "restore" /\ next[k + 1].for = v /\ k + 1 \in 1 .. Len(next)
      BY <2>2, <3>1, <3>3, Fields
    <3> QED BY <2>2, <3>4, NowPending
  <2>6. ~Quiet(todo[1]) /\ \A w : ~Restored(w)
    BY <2>1 DEF Quiet, Restored, At
  <2>7. phase = "running" /\ overridden # {} => Keeper \in enabled'
    BY <2>1 DEF TraceInv, modVars
  <2>8. failed' = failed
    BY <2>1 DEF modVars
  <2> QED BY <1>1, <2>1, <2>2, <2>4, <2>5, <2>6, <2>7, <2>8 DEF varVars
<1>9. CASE Command
  <2>1. /\ phase = "running" /\ todo = <<>> /\ UNCHANGED <<modVars, varVars>>
        /\ \A k \in DOMAIN todo' : todo'[k].op \notin {"write", "unmark", "flip"}
        /\ phase' \in {"running", "unloading"}
        /\ phase' = "unloading" => Pending("unload", Keeper)'
    BY <1>9, CommandNews, Ordering
  <2> QED BY <2>1 DEF TraceInv, modVars, varVars, At
<1>10. CASE EndOfList
  <2>1. /\ todo = <<>> /\ todo' = <<>> /\ DOMAIN todo' = {} /\ DOMAIN todo = {}
        /\ UNCHANGED <<value, overridden, backup, user, enabled, failed>>
        /\ phase' \in {"running", "gone"}
    BY <1>10 DEF EndOfList, modVars, varVars
  <2>2. overridden = {}
    BY <1>10, <2>1 DEF EndOfList, LoadingInv, TraceInv, Pending
  <2> QED BY <2>1, <2>2 DEF TraceInv
<1>11. CASE UNCHANGED vars
  BY <1>11 DEF TraceInv, vars, modVars, varVars, At, Pending, Quiet
<1>12. ASSUME NEW v \in Var, VarStep(v) PROVE TraceInv'
  BY <1>2, <1>3, <1>12, TraceSet, TraceWrite, TraceRestore DEF VarStep, Setting3
<1>13. ASSUME NEW m \in Mod, ModStep(m) PROVE TraceInv'
  BY <1>4, <1>5, <1>6, <1>7, <1>8, <1>13 DEF ModStep
<1> QED BY <1>9, <1>10, <1>11, <1>12, <1>13, Kinds

\* IPopOverride keeps the user's value from Set until Restore, and while a mission is parsed
\* the mod that overrides stays enabled.
THEOREM TraceAlways == Spec => [](ParseInv /\ TraceInv)
<1>1. Init => ParseInv /\ TraceInv
  <2>1. SUFFICES ASSUME Init PROVE ParseInv /\ TraceInv
    OBVIOUS
  <2>2. phase = "loading" /\ present = {} /\ overridden = {} /\ value = user
    BY <2>1 DEF Init
  <2>3. \A k \in DOMAIN todo : todo[k].op = "load"
    BY <2>1, <2>2, FollowInit DEF LoadingInv
  <2> QED BY <2>2, <2>3 DEF ParseInv, InParse, TraceInv, At
<1>2. (TypeInv /\ LoadInv) /\ (LoadingInv /\ FollowInv) /\ (PromptInv /\ BalanceInv)
        /\ (ParseInv /\ TraceInv) /\ [Next]_vars => (ParseInv /\ TraceInv)'
  BY ParseNext, TraceNext
<1> QED BY <1>1, <1>2, LoadAlways, FollowAlways, BalanceAlways, PTL DEF Spec

\* What a mission overrides is put back: when the next mission or level starts, and when
\* the mod that does it is disabled or unloaded, in the middle of a mission too.
THEOREM MissionsAreUndone == Spec => []MissionsLeaveNoTrace
<1>1. TypeInv /\ TraceInv => MissionsLeaveNoTrace
  BY DEF TypeInv, TraceInv, MissionsLeaveNoTrace, Idle
<1> QED BY <1>1, LoadAlways, TraceAlways, PTL

-----------------------------------------------------------------------------

LEMMA RefreshKept ==
    ASSUME RefreshInv, NEW next, Went(next),
           \A k \in 1 .. Len(next) :
             next[k].op = "refresh" /\ next[k].for # Keeper /\ Steady(next[k].for)
               => k = 1 /\ next[k].for \in enabled'
    PROVE  RefreshInv'
<1>1. ASSUME NEW k \in DOMAIN todo', todo'[k].op = "refresh", todo'[k].for # Keeper,
             Steady(todo'[k].for)
      PROVE  k = 1 /\ todo'[k].for \in enabled'
  <2>1. CASE k \in 1 .. Len(next) /\ todo'[k] = next[k]
    BY <1>1, <2>1
  <2>2. CASE k \notin 1 .. Len(next) \/ todo'[k] # next[k]
    <3>1. PICK j \in DOMAIN todo : j > 1 /\ todo'[k] = todo[j]
      BY <2>2, CameFrom
    <3> QED BY <1>1, <3>1 DEF RefreshInv
  <2> QED BY <2>1, <2>2
<1> QED BY <1>1 DEF RefreshInv, Steady

\* What a ConVar that is set leaves to do for the patches of its mod.
LEMMA SetPatches ==
    ASSUME TypeInv, PatchedInv, NEW v \in Var, Setting3(v)
    PROVE  \E next :
             /\ Went(next)
             /\ \A k \in 1 .. Len(next) : next[k].op = "refresh" /\ Steady(next[k].for)
                  => k = 1 /\ next[k].for \in enabled
             /\ value'[v] # value[v] /\ Kind[v] \in {"refresh", "credit"} =>
                  \/ phase \notin {"loading", "running"} \/ patched[ModOf[v]] = OFF
                  \/ \E k \in 1 .. Len(next) : Answers(next[k], ModOf[v])
<1> DEFINE m == ModOf[v]
           Good(next) ==
             /\ \A k \in 1 .. Len(next) : next[k].op = "refresh" /\ Steady(next[k].for)
                  => k = 1 /\ next[k].for \in enabled
             /\ value'[v] # value[v] /\ Kind[v] \in {"refresh", "credit"} =>
                  \/ phase \notin {"loading", "running"} \/ patched[m] = OFF
                  \/ \E k \in 1 .. Len(next) : Answers(next[k], m)
<1>1. PICK n \in Nat : n = todo[1].to /\ SetValue(v, n)
  BY SetsFirst
<1>2. /\ todo # <<>> /\ todo[1].op # "pieces" /\ m \in Mod
      /\ value' = [value EXCEPT ![v] = n] /\ value \in [Var -> Nat]
  BY <1>1, SetsFirst, Callbacks DEF SetValue, TypeInv
<1>3. value'[v] = n
  BY <1>2
<1>4. \/ (value[v] = n \/ Kind[v] = "plain") /\ Went(<<>>)
      \/ Kind[v] = "refresh" /\ \E t : Went(<<Task("refresh", m, t)>>)
      \/ /\ Kind[v] # "refresh"
         /\ \E t \in Nat : /\ Went(<<Task("toggle", m, t)>>)
                           /\ Kind[v] # "force" => t = n
         /\ Kind[v] = "credit" => ~(m \in enabled /\ n # 0)
      \/ Kind[v] = "credit" /\ m \in enabled /\ Went(<<Task("refresh", m, 0), Task("toggle", m, n)>>)
  <2>1. \/ (value[v] = n \/ Kind[v] = "plain") /\ Went(<<>>)
        \/ /\ value[v] # n /\ Kind[v] = "refresh"
           /\ Went(<<Task("refresh", m, IF n > 0 THEN n ELSE DefaultRed)>>)
        \/ /\ value[v] # n /\ Kind[v] \notin {"refresh", "plain"}
           /\ \E t \in Nat :
                /\ Went(<<Task("toggle", m, t)>>)
                /\ Kind[v] # "force" => t = n
                /\ Kind[v] = "force" => t = IF n # 0 THEN 1 ELSE EnableValue(m, value)
           /\ Kind[v] = "credit" => ~(m \in enabled /\ n # 0)
        \/ /\ value[v] # n /\ Kind[v] = "credit" /\ m \in enabled /\ n # 0
           /\ Went(<<Task("refresh", m, 0), Task("toggle", m, n)>>)
    BY <1>1, <1>2, SetLeads
  <2> QED BY <2>1
<1>5. ASSUME value[v] = n \/ Kind[v] = "plain", Went(<<>>) PROVE Good(<<>>)
  BY <1>3, <1>5, Shorts
<1>6. ASSUME NEW t, Kind[v] = "refresh" PROVE Good(<<Task("refresh", m, t)>>)
  <2>1. PICK r : r = Task("refresh", m, t)
    OBVIOUS
  <2>2. r.op = "refresh" /\ r.for = m
    BY <2>1, Fields
  <2>3. Answers(r, m) /\ ~Steady(m)
    BY <1>6, <2>2 DEF Answers, Steady
  <2>4. 1 \in 1 .. Len(<<r>>) /\ <<r>>[1] = r
    OBVIOUS
  <2>5. Good(<<r>>)
    BY <2>2, <2>3, <2>4, Shorts
  <2> QED BY <2>1, <2>5
<1>7. ASSUME NEW t \in Nat, Kind[v] # "refresh", Kind[v] # "force" => t = n,
             Kind[v] = "credit" => ~(m \in enabled /\ n # 0)
      PROVE  Good(<<Task("toggle", m, t)>>)
  <2>1. PICK r : r = Task("toggle", m, t)
    OBVIOUS
  <2>2. r.op = "toggle" /\ r.for = m /\ r.to = t
    BY <2>1, Fields
  <2>3. 1 \in 1 .. Len(<<r>>) /\ <<r>>[1] = r
    OBVIOUS
  <2>4. ASSUME Kind[v] = "credit" PROVE phase \notin {"loading", "running"} \/ patched[m] = OFF \/ Answers(r, m)
    <3>1. CASE n = 0
      BY <1>7, <2>2, <2>4, <3>1 DEF Answers
    <3>2. CASE m \notin enabled
      <4>1. Steady(m)
        BY <2>4, Callbacks DEF Steady
      <4> QED BY <1>2, <3>2, <4>1 DEF PatchedInv, At
    <3> QED BY <1>7, <2>4, <3>1, <3>2
  <2>5. Good(<<r>>)
    BY <1>7, <2>2, <2>3, <2>4, Shorts
  <2> QED BY <2>1, <2>5
<1>8. ASSUME Kind[v] = "credit", m \in enabled
      PROVE  Good(<<Task("refresh", m, 0), Task("toggle", m, n)>>)
  <2>1. PICK r, u : r = Task("refresh", m, 0) /\ u = Task("toggle", m, n)
    OBVIOUS
  <2>2. r.op = "refresh" /\ r.for = m /\ u.op = "toggle"
    BY <2>1, Fields
  <2>3. Answers(r, m)
    BY <2>2 DEF Answers
  <2>4. PICK g : g = <<r, u>>
    OBVIOUS
  <2>5. Len(g) = 2 /\ g[1] = r /\ g[2] = u
    BY <2>4
  <2>6. 1 \in 1 .. 2 /\ \A k \in 1 .. 2 : k = 1 \/ k = 2
    OBVIOUS
  <2>7. Good(g)
    BY <1>8, <2>2, <2>3, <2>5, <2>6
  <2> QED BY <2>1, <2>4, <2>7
<1> HIDE DEF Good
<1>9. \E next : Went(next) /\ Good(next)
  BY <1>4, <1>5, <1>6, <1>7, <1>8
<1> QED BY <1>9 DEF Good

LEMMA RefreshNext == TypeInv /\ RefreshInv /\ PatchedInv /\ [Next]_vars => RefreshInv'
<1> SUFFICES ASSUME TypeInv, RefreshInv, PatchedInv, [Next]_vars PROVE RefreshInv'
  OBVIOUS
<1>1. ASSUME NEW next, Went(next), \A k \in 1 .. Len(next) : next[k].op # "refresh"
      PROVE  RefreshInv'
  BY <1>1, RefreshKept

<1>2. ASSUME NEW v \in Var, Setting3(v) PROVE RefreshInv'
  <2>1. UNCHANGED enabled
    BY <1>2 DEF Setting3, SetByUser, Override, WriteBack, modVars
  <2>2. PICK next : /\ Went(next)
                    /\ \A k \in 1 .. Len(next) : next[k].op = "refresh" /\ Steady(next[k].for)
                         => k = 1 /\ next[k].for \in enabled
    BY <1>2, SetPatches
  <2> QED BY <2>1, <2>2, RefreshKept
<1>3. ASSUME NEW v \in Var, ParseSetting(v) PROVE RefreshInv'
  <2>1. PICK next : /\ Went(next) /\ Len(next) \in Nat \ {0}
                    /\ next[1].op = "override" /\ next[1].for = v
                    /\ \A k \in 2 .. Len(next) :
                         \/ next[k].op = "override unset"
                         \/ next[k].op = "refresh" /\ next[k].for = Keeper
    BY <1>3, SettingNews
  <2>2. \A k \in 1 .. Len(next) : k = 1 \/ k \in 2 .. Len(next)
    <3>1. Len(next) \in Nat
      BY <2>1
    <3> QED BY <3>1
  <2>3. \A k \in 1 .. Len(next) : next[k].op = "refresh" => next[k].for = Keeper
    BY <2>1, <2>2
  <2> QED BY <2>1, <2>3, RefreshKept
<1>4. ASSUME NEW v \in Var, OverrideUnset(v) \/ Restore(v) \/ Unmark(v) PROVE RefreshInv'
  <2>1. /\ VarStep(v) /\ todo[1].op \in {"override unset", "restore", "unmark"}
    BY <1>4, FirstTask DEF VarStep, OverrideUnset, Restore, Unmark
  <2>2. PICK next : /\ Went(next)
                    /\ \A k \in 1 .. Len(next) : <<todo[1].op, next[k].op>> \in LeadsTo
    BY <2>1, VarNews
  <2>3. \A k \in 1 .. Len(next) : next[k].op # "refresh"
    BY <2>1, <2>2 DEF LeadsTo
  <2> QED BY <1>1, <2>2, <2>3
<1>5. ASSUME NEW m \in Mod, Toggle(m) PROVE RefreshInv'
  <2>1. PICK n : n = todo[1].to
    OBVIOUS
  <2>2. PICK next : /\ Went(next)
                    /\ \A k \in 1 .. Len(next) :
                         \/ next[k].op = "restore"
                         \/ next[k].op \in {"flip", "pieces"} /\ next[k].for = m /\ next[k].to = n
    BY <1>5, <2>1, ToggleNews
  <2>3. \A k \in 1 .. Len(next) : next[k].op # "refresh"
    BY <2>2
  <2> QED BY <1>1, <2>2, <2>3
<1>6. ASSUME NEW m \in Mod, Flip(m) \/ TogglePieces(m) \/ RefreshPatches(m) \/ DeletePieces(m)
      PROVE  RefreshInv'
  BY <1>1, <1>6, PlainLeads, Shorts
<1>7. ASSUME NEW m \in Mod, LoadMod(m) PROVE RefreshInv'
  <2>1. PICK t : t = Task("toggle", m, 1)
    OBVIOUS
  <2>2. t.op = "toggle"
    BY <2>1, Fields
  <2>3. Went(<<>>) \/ Went(<<t>>)
    BY <1>7, <2>1, LoadLeads
  <2> QED BY <1>1, <2>2, <2>3, Shorts
<1>8. ASSUME NEW m \in Mod, UnloadMod(m) PROVE RefreshInv'
  <2>1. PICK next, l :
          /\ Went(next) /\ l \in Nat /\ Len(next) = l + 2
          /\ next[1] = Task("toggle", m, 0) /\ next[l + 2] = Task("delete", m, 0)
          /\ \A k \in 2 .. l + 1 : next[k].op = "restore"
    BY <1>8, UnloadLeads
  <2>2. \A k \in 1 .. l + 2 : k = 1 \/ k = l + 2 \/ k \in 2 .. l + 1
    BY <2>1
  <2>3. \A k \in 1 .. Len(next) : next[k].op \in {"toggle", "delete", "restore"}
    BY <2>1, <2>2, Fields
  <2> QED BY <1>1, <2>1, <2>3
<1>9. CASE EndOfList
  BY <1>9 DEF EndOfList, RefreshInv
<1>10. CASE Command
  <2>1. \A k \in DOMAIN todo' : todo'[k].op = "refresh" => todo'[k].for = Keeper
    BY <1>10, CommandNews
  <2> QED BY <2>1 DEF RefreshInv
<1>11. CASE UNCHANGED vars
  BY <1>11 DEF RefreshInv, Steady, vars, modVars
<1>12. ASSUME NEW v \in Var, VarStep(v) PROVE RefreshInv'
  BY <1>2, <1>3, <1>4, <1>12 DEF VarStep
<1>13. ASSUME NEW m \in Mod, ModStep(m) PROVE RefreshInv'
  BY <1>5, <1>6, <1>7, <1>8, <1>13 DEF ModStep
<1> QED BY <1>9, <1>10, <1>11, <1>12, <1>13, Kinds

LEMMA RefreshFacts ==
    ASSUME TypeInv, NEW m \in Mod, RefreshPatches(m)
    PROVE  /\ counts' \in PlayerCounts
           /\ counts' = IF m = Keeper THEN Recount(todo[1].to) ELSE counts
           /\ unseen' = IF m = Keeper THEN {} ELSE unseen
           /\ patched'[m] = IF m \notin present \ failed THEN patched[m]
                            ELSE PatchValue(m, counts')
<1>1. Head(todo) = todo[1] /\ todo[1].to \in Nat
  BY FirstTask DEF RefreshPatches
<1>2. counts' = IF m = Keeper THEN Recount(todo[1].to) ELSE counts
  BY <1>1 DEF RefreshPatches
<1>3. counts' \in PlayerCounts
  BY <1>1, <1>2, PatchValueType DEF TypeInv
<1>4. patched'[m] = IF m \notin present \ failed THEN patched[m] ELSE PatchValue(m, counts')
  BY <1>1, <1>2 DEF RefreshPatches, CanToggle, TypeInv
<1> QED
  BY <1>2, <1>3, <1>4 DEF RefreshPatches

LEMMA PatchedNext ==
    TypeInv /\ LoadInv /\ LoadingInv /\ FollowInv /\ ParseInv /\ RefreshInv /\ PatchedInv
      /\ [Next]_vars => PatchedInv'
<1> SUFFICES ASSUME TypeInv, LoadInv, LoadingInv, FollowInv, ParseInv, RefreshInv, PatchedInv,
                    [Next]_vars, phase' \in {"loading", "running"}, NEW m \in Mod, Steady(m)
             PROVE  (patched'[m] # OFF <=> m \in enabled' \ failed')
                      \/ (todo' # <<>> /\ At(1, "pieces", m)')
  BY DEF PatchedInv, Steady
<1> DEFINE Right1 == patched[m] # OFF <=> m \in enabled \ failed
           Goal == (patched'[m] # OFF <=> m \in enabled' \ failed')
                     \/ (todo' # <<>> /\ At(1, "pieces", m)')
<1>1. ASSUME phase' = phase, todo = <<>> \/ todo[1].op # "pieces",
             UNCHANGED <<enabled, failed, patched>>
      PROVE  Goal
  BY <1>1 DEF PatchedInv, At
<1>2. ASSUME NEW v \in Var, VarStep(v) PROVE Goal
  BY <1>1, <1>2, VarNews DEF modVars
<1>3. ASSUME NEW w \in Mod, Toggle(w) PROVE Goal
  <2>1. todo[1].op = "toggle" /\ UNCHANGED <<phase, enabled, failed, patched>>
    BY <1>3, FirstTask DEF Toggle, modVars
  <2> QED BY <1>1, <2>1
<1>4. ASSUME NEW w \in Mod, UnloadMod(w) \/ DeletePieces(w) PROVE Goal
  <2>1. todo[1].op \in {"unload", "delete"} /\ 1 \in DOMAIN todo /\ UNCHANGED phase
    BY <1>4, FirstTask DEF UnloadMod, DeletePieces
  <2> QED BY <2>1 DEF LoadInv
<1>5. ASSUME NEW w \in Mod, LoadMod(w) PROVE Goal
  <2>1. 1 \in DOMAIN todo /\ todo[1].op = "load" /\ todo[1].for = w
    BY <1>5, FirstTask DEF LoadMod
  <2>2. phase = "loading" /\ w \notin present
    BY <2>1 DEF LoadInv
  <2>3. w \notin enabled
    BY <2>2 DEF LoadingInv
  <2>4. UNCHANGED <<enabled, patched>> /\ failed \subseteq failed' /\ failed' \subseteq failed \cup {w}
    BY <1>5 DEF LoadMod
  <2>5. Right1
    BY <2>1, <2>2 DEF PatchedInv, At
  <2> QED BY <2>3, <2>4, <2>5
<1>6. ASSUME NEW w \in Mod, Flip(w) PROVE Goal
  <2>1. /\ todo # <<>> /\ 1 \in DOMAIN todo /\ todo[1].op = "flip" /\ todo[1].for = w
    BY <1>6, FirstTask DEF Flip
  <2>2. 2 \in DOMAIN todo /\ At(2, "pieces", w)
    BY <2>1 DEF FollowInv
  <2>3. PICK n \in Nat \ {0} : /\ DOMAIN todo = 1 .. n /\ DOMAIN todo' = 1 .. n - 1
                                /\ \A k \in 1 .. n - 1 : todo'[k] = todo[k + 1]
    BY <1>6, PlainLeads, PlainShift
  <2>4. 1 \in DOMAIN todo' /\ todo'[1] = todo[2]
    BY <2>2, <2>3
  <2>5. w = m => todo' # <<>> /\ At(1, "pieces", m)'
    BY <2>2, <2>4 DEF At
  <2>6. UNCHANGED <<phase, failed, patched>> /\ (w # m => (m \in enabled' <=> m \in enabled))
    BY <1>6 DEF Flip
  <2>7. Right1
    BY <2>1, <2>6 DEF PatchedInv, At
  <2> QED BY <2>5, <2>6, <2>7
<1>7. ASSUME NEW w \in Mod, TogglePieces(w) PROVE Goal
  <2>1. /\ todo # <<>> /\ 1 \in DOMAIN todo /\ todo[1].op = "pieces" /\ todo[1].for = w
        /\ Head(todo) = todo[1] /\ todo[1].to \in Nat
    BY <1>7, FirstTask DEF TogglePieces
  <2>2. UNCHANGED <<phase, failed, enabled>> /\ (w # m => patched'[m] = patched[m])
    BY <1>7 DEF TogglePieces, TypeInv
  <2>3. w \in enabled <=> todo[1].to # 0
    BY <2>1 DEF FollowInv
  <2>4. CASE w # m
    BY <2>1, <2>2, <2>4 DEF PatchedInv, At
  <2>5. CASE w = m
    <3>1. m \in enabled => m \in present
      <4>1. CASE phase = "loading"
        BY <4>1 DEF LoadingInv
      <4>2. CASE phase = "running"
        BY <4>2 DEF LoadInv
      <4> QED BY <2>2, <4>1, <4>2
    <3>2. PatchValue(m, counts) # OFF
      BY PatchValueType, Ordering DEF TypeInv
    <3>3. m \in present \ failed \/ patched[m] = OFF
      BY DEF LoadInv
    <3>4. patched'[m] = IF m \notin present \ failed THEN patched[m]
                        ELSE IF todo[1].to = 0 THEN OFF
                        ELSE IF patched[m] = OFF THEN PatchValue(m, counts) ELSE patched[m]
      BY <1>7, <2>1, <2>5 DEF TogglePieces, CanToggle, TypeInv
    <3> QED BY <2>2, <2>3, <2>5, <3>1, <3>2, <3>3, <3>4
  <2> QED BY <2>4, <2>5
<1>8. ASSUME NEW w \in Mod, RefreshPatches(w) PROVE Goal
  <2>1. todo # <<>> /\ 1 \in DOMAIN todo /\ todo[1].op = "refresh" /\ todo[1].for = w
    BY <1>8, FirstTask DEF RefreshPatches
  <2>2. UNCHANGED <<phase, failed, enabled>> /\ (w # m => patched'[m] = patched[m])
    BY <1>8 DEF RefreshPatches, TypeInv
  <2>3. Right1
    BY <2>1, <2>2 DEF PatchedInv, At
  <2>4. CASE w = m
    <3>1. m \in enabled
      <4>1. CASE m = Keeper
        <5>1. InParse(1)
          BY <2>1, <2>4, <4>1 DEF InParse, At
        <5> QED BY <2>1, <4>1, <5>1 DEF ParseInv
      <4>2. CASE m # Keeper
        BY <2>1, <2>4, <4>2 DEF RefreshInv
      <4> QED BY <4>1, <4>2
    <3>2. PICK c \in PlayerCounts :
            patched'[m] = IF m \notin present \ failed THEN patched[m] ELSE PatchValue(m, c)
      BY <1>8, <2>4, RefreshFacts
    <3>3. m \in present \ failed \/ patched[m] = OFF
      BY DEF LoadInv
    <3>4. PatchValue(m, c) # OFF
      BY PatchValueType, Ordering
    <3> QED BY <2>2, <2>3, <3>1, <3>2, <3>3, <3>4
  <2> QED BY <2>2, <2>3, <2>4
<1>9. CASE EndOfList
  <2>1. todo = <<>> /\ phase = "loading" /\ UNCHANGED <<enabled, failed, patched>>
    BY <1>9 DEF EndOfList, modVars
  <2> QED BY <2>1 DEF PatchedInv
<1>10. CASE Command
  <2>1. todo = <<>> /\ phase = "running" /\ UNCHANGED <<enabled, failed, patched>>
    BY <1>10, CommandNews DEF modVars
  <2> QED BY <2>1 DEF PatchedInv
<1>11. CASE UNCHANGED vars
  BY <1>11 DEF PatchedInv, vars, modVars, At
<1> HIDE DEF Goal
<1>12. ASSUME NEW w \in Mod, ModStep(w) PROVE Goal
  BY <1>3, <1>4, <1>5, <1>6, <1>7, <1>8, <1>12 DEF ModStep
<1>13. EndOfList \/ Command \/ UNCHANGED vars => Goal
  BY <1>9, <1>10, <1>11 DEF Goal
<1>14. Goal
  BY <1>2, <1>12, <1>13, Kinds
<1> QED BY <1>14 DEF Goal

\* Patches that are stale after a step were so before it or are answered for by the step.
LEMMA CurrentKept ==
    ASSUME CurrentInv, phase \in {"loading", "running"}, NEW next, Went(next), NEW m \in Mod,
           \/ Stale(m) /\ ~Answers(todo[1], m)
           \/ \E k \in 1 .. Len(next) : Answers(next[k], m)
    PROVE  \E k \in DOMAIN todo' : Answers(todo'[k], m)
<1>1. ASSUME Stale(m), ~Answers(todo[1], m) PROVE \E k \in DOMAIN todo' : Answers(todo'[k], m)
  <2>1. PICK j \in DOMAIN todo : Answers(todo[j], m)
    BY <1>1 DEF CurrentInv
  <2>2. \E k \in DOMAIN todo' : todo'[k] = todo[j]
    BY <1>1, <2>1, WentTo
  <2> QED BY <2>1, <2>2
<1>2. ASSUME NEW k \in 1 .. Len(next), Answers(next[k], m)
      PROVE  \E j \in DOMAIN todo' : Answers(todo'[j], m)
  <2>1. k \in DOMAIN todo' /\ todo'[k] = next[k]
    BY DEF Went
  <2> QED BY <1>2, <2>1
<1> QED BY <1>1, <1>2

LEMMA CurrentNext ==
    TypeInv /\ LoadInv /\ PatchedInv /\ CurrentInv /\ [Next]_vars => CurrentInv'
<1> SUFFICES ASSUME TypeInv, LoadInv, PatchedInv, CurrentInv, [Next]_vars,
                    phase' \in {"loading", "running"}, NEW m \in Mod, Stale(m)'
             PROVE  \E k \in DOMAIN todo' : Answers(todo'[k], m)
  BY DEF CurrentInv, Answers
<1> DEFINE Goal == \E k \in DOMAIN todo' : Answers(todo'[k], m)
<1>1. ASSUME NEW next, Went(next), phase' = phase, UNCHANGED <<value, patched[m]>>,
             m # Keeper \/ UNCHANGED counts, ~Answers(todo[1], m)
      PROVE  Goal
  <2>1. Stale(m)
    BY <1>1 DEF Stale, PatchValue
  <2> QED BY <1>1, <2>1, CurrentKept
<1>2. ASSUME NEW v \in Var, Setting3(v) PROVE Goal
  <2>1. /\ UNCHANGED <<phase, patched, counts>> /\ todo[1].op \in {"set", "override", "write"}
        /\ value \in [Var -> Nat] /\ \E n \in Nat : value' = [value EXCEPT ![v] = n]
    BY <1>2, SetsFirst DEF Setting3, SetByUser, Override, WriteBack, modVars, SetValue, TypeInv
  <2>2. ~Answers(todo[1], m)
    BY <2>1 DEF Answers
  <2>3. PICK next : /\ Went(next)
                    /\ value'[v] # value[v] /\ Kind[v] \in {"refresh", "credit"} =>
                         \/ phase \notin {"loading", "running"} \/ patched[ModOf[v]] = OFF
                         \/ \E k \in 1 .. Len(next) : Answers(next[k], ModOf[v])
    BY <1>2, SetPatches
  <2>4. CASE PatchValue(m, counts)' = PatchValue(m, counts)
    <3>1. Stale(m)
      BY <2>1, <2>4 DEF Stale
    <3> QED BY <2>1, <2>2, <2>3, <3>1, CurrentKept
  <2>5. CASE PatchValue(m, counts)' # PatchValue(m, counts)
    <3>1. ModOf[v] = m /\ Kind[v] \in {"refresh", "credit"} /\ value'[v] # value[v]
      <4> DEFINE vs == {w \in Var : ModOf[w] = m /\ Kind[w] = "credit"}
      <4>1. PICK w : w = CHOOSE x \in vs : TRUE
        OBVIOUS
      <4>2. /\ PatchValue(m, counts) = IF m = Keeper THEN counts ELSE IF vs = {} THEN 0 ELSE value[w]
            /\ PatchValue(m, counts)' = IF m = Keeper THEN counts' ELSE IF vs = {} THEN 0 ELSE value'[w]
        BY <4>1 DEF PatchValue
      <4>3. vs # {} /\ value'[w] # value[w]
        BY <2>1, <2>5, <4>2
      <4>4. w \in vs
        BY <4>1, <4>3
      <4>5. w = v
        BY <2>1, <4>3, <4>4
      <4> QED BY <4>3, <4>4, <4>5
    <3>2. patched[m] # OFF
      BY <2>1 DEF Stale
    <3> QED BY <2>1, <2>3, <3>1, <3>2, CurrentKept
  <2> QED BY <2>4, <2>5
<1>3. ASSUME NEW v \in Var, VarStep(v), ~Setting3(v) PROVE Goal
  <2>1. todo[1].op \in {"override unset", "restore", "unmark", "setting"} /\ UNCHANGED value
    BY <1>3, FirstTask DEF VarStep, OverrideUnset, Restore, Unmark, ParseSetting, varVars
  <2>2. UNCHANGED <<phase, patched, counts>> /\ \E next : Went(next)
    BY <1>3, VarNews DEF modVars
  <2> QED BY <1>1, <2>1, <2>2 DEF Answers
<1>4. ASSUME NEW w \in Mod, Toggle(w) PROVE Goal
  <2>1. /\ todo[1].op = "toggle" /\ todo[1].for = w
        /\ UNCHANGED <<phase, value, patched, counts>>
    BY <1>4, FirstTask DEF Toggle, modVars, varVars
  <2>2. PICK n, p : n = todo[1].to /\ p = Task("pieces", w, n)
    OBVIOUS
  <2>3. p.op = "pieces" /\ p.for = w /\ p.to = n
    BY <2>2, Fields
  <2>4. PICK next : Went(next) /\ \E k \in 1 .. Len(next) : next[k] = p
    <3>1. \/ Went(<<p>>)
          \/ Went(<<Task("flip", w, n), p>>)
          \/ \E next : /\ Went(next) /\ Len(next) = Len(Overrides) + 2
                       /\ next[Len(Overrides) + 2] = p
      BY <1>4, <2>2, ToggleLeads
    <3>2. 1 \in 1 .. Len(<<p>>) /\ <<p>>[1] = p
      OBVIOUS
    <3>3. 2 \in 1 .. Len(<<Task("flip", w, n), p>>) /\ <<Task("flip", w, n), p>>[2] = p
      OBVIOUS
    <3>4. Len(Overrides) + 2 \in 1 .. Len(Overrides) + 2
      BY ResetFacts
    <3> QED BY <3>1, <3>2, <3>3, <3>4
  <2>5. Answers(todo[1], m) => Answers(p, m)
    BY <2>1, <2>2, <2>3 DEF Answers
  <2>6. phase \in {"loading", "running"} /\ Stale(m)
    BY <2>1 DEF Stale, PatchValue
  <2>7. CASE Answers(todo[1], m)
    BY <2>4, <2>5, <2>6, <2>7, CurrentKept
  <2>8. CASE ~Answers(todo[1], m)
    BY <2>4, <2>6, <2>8, CurrentKept
  <2> QED BY <2>7, <2>8
<1>5. ASSUME NEW w \in Mod, Flip(w) PROVE Goal
  <2>1. todo[1].op = "flip" /\ Went(<<>>) /\ UNCHANGED <<phase, value, patched, counts>>
    BY <1>5, FirstTask, PlainLeads DEF Flip, varVars
  <2> QED BY <1>1, <2>1 DEF Answers
<1>6. ASSUME NEW w \in Mod, TogglePieces(w) \/ RefreshPatches(w) PROVE Goal
  <2>1. /\ todo[1].for = w /\ Went(<<>>) /\ UNCHANGED <<phase, value>>
        /\ patched \in [Mod -> Nat \cup PlayerCounts \cup {OFF}]
        /\ w # m => patched'[m] = patched[m]
        /\ w # Keeper => counts' = counts
    BY <1>6, FirstTask, PlainLeads DEF TogglePieces, RefreshPatches, varVars, TypeInv
  <2>2. CASE w # m
    <3>1. m # Keeper \/ UNCHANGED counts
      BY <2>1, <2>2
    <3> QED BY <1>1, <2>1, <2>2, <3>1 DEF Answers
  <2>3. CASE w = m
    <3>1. PatchValue(m, counts)' = PatchValue(m, counts')
      BY <2>1 DEF PatchValue
    <3>2. patched'[m] # OFF /\ patched'[m] # PatchValue(m, counts')
      BY <3>1 DEF Stale
    <3>3. m \in present \ failed \/ patched[m] = OFF
      BY DEF LoadInv
    <3>4. CASE RefreshPatches(w)
      BY <2>3, <3>2, <3>3, <3>4, RefreshFacts
    <3>5. CASE TogglePieces(w)
      <4>1. todo[1].op = "pieces" /\ Head(todo) = todo[1]
        BY <3>5, FirstTask DEF TogglePieces
      <4>2. patched'[m] = IF m \notin present \ failed THEN patched[m]
                          ELSE IF todo[1].to = 0 THEN OFF
                          ELSE IF patched[m] = OFF THEN PatchValue(m, counts) ELSE patched[m]
        BY <2>1, <2>3, <3>5, <4>1 DEF TogglePieces, CanToggle
      <4>5. UNCHANGED counts
        BY <3>5 DEF TogglePieces
      <4>3. todo[1].to # 0 /\ patched'[m] = patched[m]
        BY <3>2, <3>3, <4>2, <4>5
      <4>4. ~Answers(todo[1], m)
        BY <4>1, <4>3 DEF Answers
      <4> QED BY <1>1, <2>1, <4>3, <4>4, <4>5
    <3> QED BY <1>6, <3>4, <3>5
  <2> QED BY <2>2, <2>3
<1>7. ASSUME NEW w \in Mod, LoadMod(w) PROVE Goal
  <2>1. todo[1].op = "load" /\ UNCHANGED <<phase, value, patched, counts>>
    BY <1>7, FirstTask DEF LoadMod, varVars
  <2>2. \E next : Went(next)
    BY <1>7, LoadLeads
  <2> QED BY <1>1, <2>1, <2>2 DEF Answers
<1>8. ASSUME NEW w \in Mod, UnloadMod(w) \/ DeletePieces(w) PROVE Goal
  <2>1. todo[1].op \in {"unload", "delete"} /\ 1 \in DOMAIN todo /\ UNCHANGED phase
    BY <1>8, FirstTask DEF UnloadMod, DeletePieces
  <2> QED BY <2>1 DEF LoadInv
<1>9. ASSUME EndOfList \/ Command PROVE Goal
  <2>1. todo = <<>> /\ phase \in {"loading", "running"} /\ UNCHANGED <<value, patched, counts>>
    BY <1>9, CommandNews DEF EndOfList, modVars, varVars
  <2>2. Stale(m)
    BY <2>1 DEF Stale, PatchValue
  <2> QED BY <2>1, <2>2 DEF CurrentInv
<1>10. CASE UNCHANGED vars
  <2>1. Stale(m) /\ phase' = phase /\ todo' = todo
    BY <1>10 DEF Stale, PatchValue, vars, modVars, varVars
  <2> QED BY <2>1 DEF CurrentInv
<1> HIDE DEF Goal
<1>11. ASSUME NEW v \in Var, VarStep(v) PROVE Goal
  BY <1>2, <1>3, <1>11
<1>12. ASSUME NEW w \in Mod, ModStep(w) PROVE Goal
  BY <1>4, <1>5, <1>6, <1>7, <1>8, <1>12 DEF ModStep
<1>13. UNCHANGED vars => Goal
  BY <1>10 DEF Goal
<1>14. Goal
  BY <1>9, <1>11, <1>12, <1>13, Kinds
<1> QED BY <1>14 DEF Goal

\* The size of the red team the ConVar asks for.
LEMMA MaxRedIs ==
    TypeInv =>
      /\ MaxRed \in Nat \ {0}
      /\ \A v \in Var : Kind[v] = "refresh" =>
           MaxRed = IF value[v] > 0 THEN value[v] ELSE DefaultRed
<1> SUFFICES ASSUME TypeInv
             PROVE  /\ MaxRed \in Nat \ {0}
                    /\ \A v \in Var : Kind[v] = "refresh" =>
                         MaxRed = IF value[v] > 0 THEN value[v] ELSE DefaultRed
  OBVIOUS
<1> DEFINE vs == {v \in Var : Kind[v] = "refresh" /\ value[v] > 0}
<1>1. MaxRed = IF vs = {} THEN DefaultRed ELSE value[CHOOSE v \in vs : TRUE]
  BY DEF MaxRed
<1>2. value \in [Var -> Nat] /\ DefaultRed = 6
  BY DEF TypeInv, DefaultRed
<1>3. PICK w : w = CHOOSE v \in vs : TRUE
  OBVIOUS
<1>4. vs # {} => w \in vs
  BY <1>3
<1>5. \A v, u \in Var : Kind[v] = "refresh" /\ Kind[u] = "refresh" => v = u
  BY Callbacks
<1>6. MaxRed \in Nat \ {0}
  BY <1>1, <1>2, <1>3, <1>4
<1>7. ASSUME NEW v \in Var, Kind[v] = "refresh"
      PROVE  MaxRed = IF value[v] > 0 THEN value[v] ELSE DefaultRed
  <2>1. CASE value[v] > 0
    <3>1. v \in vs
      BY <1>7, <2>1
    <3>2. w \in Var /\ Kind[w] = "refresh" /\ vs # {}
      BY <1>4, <3>1
    <3>3. w = v
      BY <1>5, <1>7, <3>2
    <3>4. MaxRed = value[w]
      BY <1>1, <1>3, <3>2
    <3> QED BY <2>1, <3>3, <3>4
  <2>2. CASE ~(value[v] > 0)
    <3>1. vs = {}
      BY <1>5, <1>7, <2>2
    <3> QED BY <1>1, <2>2, <3>1
  <2> QED BY <2>1, <2>2
<1> QED BY <1>6, <1>7

LEMMA MaxRedWill ==
    ASSUME TypeInv', NEW w \in Var, Kind[w] = "refresh"
    PROVE  MaxRed' = IF value'[w] > 0 THEN value'[w] ELSE DefaultRed
<1>1. (TypeInv =>
         /\ MaxRed \in Nat \ {0}
         /\ \A v \in Var : Kind[v] = "refresh" =>
              MaxRed = IF value[v] > 0 THEN value[v] ELSE DefaultRed)'
  BY MaxRedIs, PTL
<1> QED BY <1>1 DEF DefaultRed

LEMMA MaxRedKept ==
    ASSUME TypeInv, TypeInv', \A v \in Var : Kind[v] = "refresh" => value'[v] = value[v]
    PROVE  MaxRed' = MaxRed
<1>2. ASSUME NEW v \in Var, Kind[v] = "refresh" PROVE MaxRed' = MaxRed
  <2>1. MaxRed = IF value[v] > 0 THEN value[v] ELSE DefaultRed
    BY <1>2, MaxRedIs
  <2>2. MaxRed' = IF value'[v] > 0 THEN value'[v] ELSE DefaultRed
    BY <1>2, MaxRedWill
  <2> QED BY <1>2, <2>1, <2>2
<1>3. ASSUME \A v \in Var : Kind[v] # "refresh" PROVE MaxRed' = MaxRed
  BY <1>3 DEF MaxRed, DefaultRed
<1> QED BY <1>2, <1>3

\* What a step leaves to do for the players that are not counted yet.
Counts(t) == t.op = "refresh" /\ t.for = Keeper
LEMMA NeedsKept ==
    ASSUME NeedsInv, 1 \in DOMAIN todo, NEW next, Went(next),
           \A k \in 1 .. Len(next) : NeedsCount(next[k]) =>
             NeedsCount(todo[1]) \/ \E j \in 1 .. Len(next) : j > k /\ Counts(next[j])
    PROVE  NeedsInv'
<1>1. SUFFICES ASSUME NEW k \in DOMAIN todo', NeedsCount(todo'[k])
               PROVE  \E j \in DOMAIN todo' : j > k /\ Counts(todo'[j])
  BY DEF NeedsInv, NeedsCount, Counts, At
<1>2. \A i \in DOMAIN todo : NeedsCount(todo[i]) => \E j \in DOMAIN todo : j > i /\ Counts(todo[j])
  BY DEF NeedsInv, Counts, At
<1>3. PICK l \in Nat, n \in Nat :
        /\ l = Len(next) /\ n = Len(todo)
        /\ DOMAIN todo = 1 .. n /\ DOMAIN todo' = 1 .. l + n - 1
  BY WentLengths
<1>4. /\ \A i \in 1 .. l : todo'[i] = next[i]
      /\ \A i \in 2 .. n : todo'[i - 1 + l] = todo[i]
  BY <1>3 DEF Went
<1>5. ASSUME NEW i \in 1 .. n, NeedsCount(todo[i]), i = 1 => k <= l, i # 1 => k = i - 1 + l
      PROVE  \E j \in DOMAIN todo' : j > k /\ Counts(todo'[j])
  <2>1. PICK j \in 1 .. n : j > i /\ Counts(todo[j])
    BY <1>2, <1>3, <1>4, <1>5
  <2>2. j \in 2 .. n /\ j - 1 + l \in 1 .. l + n - 1 /\ k \in 1 .. l + n - 1
    BY <1>1, <1>3, <1>4, <2>1
  <2>3. j - 1 + l > k
    BY <1>5, <2>1, <2>2
  <2> QED BY <1>3, <1>4, <2>1, <2>2, <2>3
<1>6. CASE k <= l
  <2>1. k \in 1 .. l /\ NeedsCount(next[k])
    BY <1>1, <1>3, <1>4, <1>6
  <2>2. CASE NeedsCount(todo[1])
    BY <1>3, <1>4, <1>5, <1>6, <2>2
  <2>3. CASE \E j \in 1 .. l : j > k /\ Counts(next[j])
    <3>1. PICK j \in 1 .. l : j > k /\ Counts(next[j])
      BY <2>3
    <3>2. j \in 1 .. l + n - 1
      BY <1>3, <1>4
    <3> QED BY <1>3, <1>4, <3>1, <3>2
  <2> QED BY <1>3, <1>4, <2>1, <2>2, <2>3
<1>7. CASE ~(k <= l)
  <2>1. PICK i : i = k - l + 1
    OBVIOUS
  <2>2. i \in 2 .. n /\ i \in 1 .. n /\ i # 1 /\ k = i - 1 + l
    BY <1>1, <1>3, <1>4, <1>7, <2>1
  <2>3. NeedsCount(todo[i])
    BY <1>1, <1>3, <1>4, <2>2
  <2> QED BY <1>5, <2>2, <2>3
<1> QED BY <1>6, <1>7

\* A step that is not about the size of the red team.
LEMMA RedKept ==
    ASSUME TypeInv, TypeInv', RedInv, NEW next, Went(next), 1 \in DOMAIN todo,
           \A v \in Var : Kind[v] = "refresh" => value'[v] = value[v],
           UNCHANGED counts, ~At(1, "refresh", Keeper),
           \A k \in 1 .. Len(next) : Counts(next[k]) => next[k].to = 0
    PROVE  RedInv'
<1>1. MaxRed' = MaxRed
  BY MaxRedKept
<1>2. counts.red = MaxRed
  BY DEF RedInv
<1>3. ASSUME NEW k \in DOMAIN todo', Counts(todo'[k]) PROVE todo'[k].to = 0
  <2>1. CASE k \in 1 .. Len(next) /\ todo'[k] = next[k]
    BY <1>3, <2>1
  <2>2. CASE ~(k \in 1 .. Len(next) /\ todo'[k] = next[k])
    <3>1. PICK j \in DOMAIN todo : j > 1 /\ todo'[k] = todo[j]
      BY <2>2, CameFrom
    <3>2. j # 1
      BY <3>1
    <3> QED BY <1>3, <3>1, <3>2 DEF RedInv, Counts, At
  <2> QED BY <2>1, <2>2
<1>4. \A k \in DOMAIN todo' : At(k, "refresh", Keeper)' => todo'[k].to = 0
  BY <1>3 DEF Counts, At
<1>5. counts'.red = MaxRed'
  BY <1>1, <1>2
<1> QED BY <1>4, <1>5 DEF RedInv

LEMMA CountKept ==
    ASSUME TypeInv, TypeInv', CountInv, NEW next, Went(next), 1 \in DOMAIN todo,
           UNCHANGED <<value, counts, unseen>>, ~At(1, "refresh", Keeper),
           \A k \in 1 .. Len(next) : Counts(next[k]) => next[k].to = 0,
           \A k \in 1 .. Len(next) : NeedsCount(next[k]) =>
             NeedsCount(todo[1]) \/ \E j \in 1 .. Len(next) : j > k /\ Counts(next[j])
    PROVE  CountInv'
<1>1. RedInv'
  BY RedKept DEF CountInv
<1>2. NeedsInv'
  BY NeedsKept DEF CountInv
<1>3. Pending("refresh", Keeper) => Pending("refresh", Keeper)'
  BY StaysPending
<1>4. VisibleInv'
  BY <1>3 DEF CountInv, VisibleInv
<1> QED BY <1>1, <1>2, <1>4 DEF CountInv

LEMMA CountSet ==
    ASSUME TypeInv, TypeInv', CountInv, NEW v \in Var, Setting3(v)
    PROVE  CountInv'
<1>1. PICK n \in Nat : n = todo[1].to /\ SetValue(v, n)
  BY SetsFirst
<1>2. /\ todo # <<>> /\ 1 \in DOMAIN todo /\ todo[1].for = v /\ Head(todo) = todo[1]
      /\ todo[1].op \in {"set", "override", "write"}
  BY SetsFirst DEF TypeInv
<1>3. /\ value'[v] = n /\ \A w \in Var : w # v => value'[w] = value[w]
      /\ UNCHANGED counts
  BY <1>1 DEF SetValue, TypeInv, Setting3, SetByUser, Override, WriteBack, modVars
<1>4. ~At(1, "refresh", Keeper)
  BY <1>2 DEF At
<1>5. RedInv /\ VisibleInv /\ NeedsInv
  BY DEF CountInv
<1>6. CASE Kind[v] = "refresh" /\ value[v] # n
  <2>1. ModOf[v] = Keeper
    BY <1>6, Callbacks
  <2>2. PICK t : t = IF n > 0 THEN n ELSE DefaultRed
    OBVIOUS
  <2>3. Went(<<Task("refresh", Keeper, t)>>)
    <3>1. Went(<<Task("refresh", ModOf[v], IF n > 0 THEN n ELSE DefaultRed)>>)
      BY <1>1, <1>2, <1>6, SetLeads
    <3> QED BY <2>1, <2>2, <3>1
  <2>4. MaxRed' = t
    <3>1. MaxRed' = IF value'[v] > 0 THEN value'[v] ELSE DefaultRed
      BY <1>6, MaxRedWill
    <3> QED BY <1>3, <1>6, <2>2, <3>1 DEF DefaultRed
  <2>5. PICK r, next : r = Task("refresh", Keeper, t) /\ next = <<r>>
    OBVIOUS
  <2>6. /\ r.op = "refresh" /\ r.for = Keeper /\ r.to = t
        /\ Went(next) /\ Len(next) = 1 /\ next[1] = r /\ 1 \in 1 .. 1
        /\ \A k \in 1 .. Len(next) : k = 1 /\ next[k] = r
    BY <2>3, <2>5, Fields, Shorts
  <2>7. 1 \in DOMAIN todo' /\ todo'[1] = r /\ todo' # <<>>
    BY <1>2, <2>6 DEF Went
  <2>8. ASSUME NEW k \in DOMAIN todo', k # 1, Counts(todo'[k]) PROVE todo'[k].to = 0
    <3>1. PICK j \in DOMAIN todo : j > 1 /\ todo'[k] = todo[j]
      BY <2>6, <2>8, CameFrom
    <3>2. j # 1
      BY <3>1
    <3> QED BY <1>5, <2>8, <3>1, <3>2 DEF RedInv, Counts, At
  <2>9. RedInv'
    <3>1. \A k \in DOMAIN todo' :
            At(k, "refresh", Keeper)' /\ todo'[k].to # 0 => k = 1 /\ todo'[k].to = MaxRed'
      BY <2>4, <2>6, <2>7, <2>8 DEF Counts, At
    <3>2. At(1, "refresh", Keeper)' /\ todo'[1].to = MaxRed'
      BY <2>4, <2>6, <2>7 DEF At
    <3> QED BY <2>7, <3>1, <3>2 DEF RedInv
  <2>10. Pending("refresh", Keeper)'
    BY <2>6, <2>7 DEF Pending, At
  <2>11. VisibleInv'
    BY <2>10 DEF VisibleInv
  <2>12. NeedsInv'
    BY <1>2, <1>5, <2>6, NeedsKept DEF NeedsCount
  <2> QED BY <2>9, <2>11, <2>12 DEF CountInv
<1>7. CASE ~(Kind[v] = "refresh" /\ value[v] # n)
  <2>1. PICK next : /\ Went(next)
                    /\ \A k \in 1 .. Len(next) : ~Counts(next[k]) /\ ~NeedsCount(next[k])
    <3>1. CASE value[v] = n
      <4>1. Went(<<>>)
        BY <1>1, <1>2, <3>1, SetLeads
      <4> QED BY <4>1, Shorts
    <3>2. CASE value[v] # n
      <4>1. PICK next : /\ Went(next)
                        /\ \A k \in 1 .. Len(next) :
                             /\ next[k].for = ModOf[v]
                             /\ \/ next[k].op = "toggle" /\ Kind[v] \notin {"refresh", "plain"}
                                \/ next[k].op = "refresh" /\ Kind[v] \in {"refresh", "credit"}
        BY <1>1, <1>2, SetKinds
      <4>2. Kind[v] = "credit" => ModOf[v] # Keeper
        BY Callbacks
      <4> QED BY <1>7, <3>2, <4>1, <4>2 DEF Counts, NeedsCount
    <3> QED BY <3>1, <3>2
  <2>2. RedInv'
    <3>1. \A w \in Var : Kind[w] = "refresh" => value'[w] = value[w]
      BY <1>3, <1>7
    <3> QED BY <1>2, <1>3, <1>4, <1>5, <2>1, <3>1, RedKept
  <2>3. NeedsInv'
    BY <1>2, <1>5, <2>1, NeedsKept
  <2>4. Pending("refresh", Keeper) => Pending("refresh", Keeper)'
    BY <1>4, <2>1, StaysPending
  <2>5. Overlook(v, n) \/ (Override(v) /\ UNCHANGED unseen /\ ~(Kind[v] = "force" /\ n = 0))
    BY <1>1, <1>2 DEF Setting3, SetByUser, Override, WriteBack
  <2>6. ASSUME NEW u \in Counted \ unseen'
        PROVE  counts.visible[u] = value'[u] \/ Pending("refresh", Keeper)'
    <3>1. u \in Var
      BY Ordering
    <3>2. CASE u # v
      <4>1. u \notin unseen
        BY <2>5, <2>6, <3>2 DEF Overlook
      <4> QED BY <1>3, <1>5, <2>4, <2>6, <3>1, <3>2, <4>1 DEF VisibleInv
    <3>3. CASE u = v /\ Overlook(v, n)
      BY <1>3, <2>6, <3>3 DEF Overlook
    <3>4. CASE u = v /\ Override(v) /\ UNCHANGED unseen /\ ~(Kind[v] = "force" /\ n = 0)
      <4>1. CASE value[v] = n
        BY <1>3, <1>5, <2>4, <2>6, <3>4, <4>1 DEF VisibleInv
      <4>2. CASE value[v] # n
        <5>1. todo[1].op = "override"
          BY <3>4, FirstTask DEF Override
        <5>2. NeedsCount(todo[1])
          BY <1>1, <1>2, <1>7, <2>6, <3>4, <4>2, <5>1 DEF NeedsCount
        <5>3. PICK j \in DOMAIN todo : j > 1 /\ At(j, "refresh", Keeper)
          BY <1>2, <1>5, <5>2 DEF NeedsInv
        <5> QED BY <2>4, <5>3 DEF Pending
      <4> QED BY <4>1, <4>2
    <3> QED BY <2>5, <3>2, <3>3, <3>4
  <2>7. VisibleInv'
    BY <1>3, <2>6 DEF VisibleInv
  <2> QED BY <2>2, <2>3, <2>7 DEF CountInv
<1> QED BY <1>6, <1>7

\* The players are counted.
LEMMA CountRefresh ==
    ASSUME TypeInv, TypeInv', CountInv, NEW m \in Mod, RefreshPatches(m)
    PROVE  CountInv'
<1>1. /\ todo # <<>> /\ 1 \in DOMAIN todo /\ todo[1].op = "refresh" /\ todo[1].for = m
      /\ todo[1].to \in Nat
  BY FirstTask DEF RefreshPatches
<1>2. Went(<<>>) /\ UNCHANGED value
  BY PlainLeads DEF RefreshPatches
<1>3. CASE m # Keeper
  <2>1. ~At(1, "refresh", Keeper)
    BY <1>1, <1>3 DEF At
  <2>2. UNCHANGED <<counts, unseen>>
    BY <1>3, RefreshFacts
  <2> QED BY <1>1, <1>2, <2>1, <2>2, CountKept, Shorts
<1>4. CASE m = Keeper
  <2>1. counts' = Recount(todo[1].to)
    BY <1>4, RefreshFacts
  <2>2. /\ counts'.red = IF todo[1].to = 0 THEN counts.red ELSE todo[1].to
        /\ \A v \in Counted : counts'.visible[v] = value[v]
    BY <2>1 DEF Recount
  <2>3. MaxRed' = MaxRed /\ MaxRed # 0
    BY <1>2, MaxRedKept, MaxRedIs
  <2>4. RedInv
    BY DEF CountInv
  <2>5. counts'.red = MaxRed'
    BY <1>1, <1>4, <2>2, <2>3, <2>4 DEF RedInv, At
  <2>6. ASSUME NEW k \in DOMAIN todo', Counts(todo'[k]) PROVE todo'[k].to = 0
    <3>1. PICK j \in DOMAIN todo : j > 1 /\ todo'[k] = todo[j]
      BY <1>2, CameFrom, Shorts
    <3>2. j # 1
      BY <3>1
    <3> QED BY <2>4, <2>6, <3>1, <3>2 DEF RedInv, Counts, At
  <2>7. RedInv'
    <3>1. \A k \in DOMAIN todo' : At(k, "refresh", Keeper)' => todo'[k].to = 0
      BY <2>6 DEF Counts, At
    <3> QED BY <2>5, <3>1 DEF RedInv
  <2>8. VisibleInv'
    BY <1>2, <2>2 DEF VisibleInv
  <2>9. NeedsInv'
    BY <1>1, <1>2, NeedsKept, Shorts DEF CountInv
  <2> QED BY <2>7, <2>8, <2>9 DEF CountInv
<1> QED BY <1>3, <1>4

\* A setting of the mission ends in a count of the players where it changes one.
LEMMA CountSetting ==
    ASSUME TypeInv, TypeInv', CountInv, NEW v \in Var, ParseSetting(v)
    PROVE  CountInv'
<1>1. /\ 1 \in DOMAIN todo /\ todo[1].op = "setting"
  BY SettingLeads
<1>2. PICK next : \E n \in Nat :
        /\ Went(next) /\ Len(next) \in Nat \ {0}
        /\ next[1] = Task("override", v, n)
        /\ \A k \in 2 .. Len(next) :
             \/ next[k].op = "override unset"
             \/ next[k].op = "refresh" /\ next[k].for = Keeper /\ next[k].to = 0
        /\ (Kind[v] = "force" /\ n # 0) \/ Kind[v] \in {"enable", "plain"} =>
             next[Len(next)] = Task("refresh", Keeper, 0)
        /\ (\E k \in 1 .. Len(next) : next[k].op = "override unset") =>
             next[Len(next)] = Task("refresh", Keeper, 0)
  BY SettingLeads
<1>3. PICK n \in Nat :
        /\ Went(next) /\ Len(next) \in Nat \ {0}
        /\ next[1] = Task("override", v, n)
        /\ \A k \in 2 .. Len(next) :
             \/ next[k].op = "override unset"
             \/ next[k].op = "refresh" /\ next[k].for = Keeper /\ next[k].to = 0
        /\ (Kind[v] = "force" /\ n # 0) \/ Kind[v] \in {"enable", "plain"} =>
             next[Len(next)] = Task("refresh", Keeper, 0)
        /\ (\E k \in 1 .. Len(next) : next[k].op = "override unset") =>
             next[Len(next)] = Task("refresh", Keeper, 0)
  BY <1>2
<1>4. PICK l, r : l = Len(next) /\ r = Task("refresh", Keeper, 0)
  OBVIOUS
<1>5. /\ next[1].op = "override" /\ next[1].for = v /\ next[1].to = n
      /\ r.op = "refresh" /\ r.for = Keeper /\ r.to = 0
  <2>1. next[1] = Task("override", v, n)
    BY <1>3
  <2>2. next[1].op = "override" /\ next[1].for = v /\ next[1].to = n
    BY <2>1, Fields
  <2>3. r.op = "refresh" /\ r.for = Keeper /\ r.to = 0
    BY <1>4, Fields
  <2> QED BY <2>2, <2>3
<1>6. l \in Nat \ {0} /\ \A k \in 1 .. l : k = 1 \/ k \in 2 .. l
  <2>1. l \in Nat \ {0}
    BY <1>3, <1>4
  <2> QED BY <2>1
<1>7. \A k \in 1 .. Len(next) : Counts(next[k]) => next[k].to = 0
  BY <1>3, <1>4, <1>5, <1>6 DEF Counts
<1>8. ASSUME NEW k \in 1 .. l, NeedsCount(next[k]) PROVE next[l] = r
  <2>1. CASE k = 1
    <3>1. v \in Counted /\ Kind[v] # "refresh" /\ ~(Kind[v] = "force" /\ n = 0)
      BY <1>5, <1>8, <2>1 DEF NeedsCount
    <3>2. Kind[v] \in {"enable", "force", "plain"}
      BY <3>1, Callbacks
    <3> QED BY <1>3, <1>4, <3>1, <3>2
  <2>2. CASE k \in 2 .. l
    <3>1. next[k].op = "override unset"
      BY <1>3, <1>4, <1>8, <2>2 DEF NeedsCount
    <3> QED BY <1>3, <1>4, <3>1
  <2> QED BY <1>6, <2>1, <2>2
<1>9. ASSUME NEW k \in 1 .. Len(next), NeedsCount(next[k])
      PROVE  \E j \in 1 .. Len(next) : j > k /\ Counts(next[j])
  <2>1. next[l] = r /\ k \in 1 .. l
    BY <1>4, <1>8, <1>9
  <2>2. k # l
    BY <1>5, <1>9, <2>1 DEF NeedsCount
  <2>3. l \in 1 .. Len(next) /\ l > k /\ Counts(next[l])
    BY <1>4, <1>5, <2>1, <2>2 DEF Counts
  <2> QED BY <2>3
<1>10. ~At(1, "refresh", Keeper) /\ UNCHANGED <<value, counts, unseen>>
  BY <1>1 DEF At, ParseSetting, modVars, varVars
<1> QED BY <1>1, <1>3, <1>7, <1>9, <1>10, CountKept

LEMMA CountNext == TypeInv /\ TypeInv' /\ CountInv /\ [Next]_vars => CountInv'
<1> SUFFICES ASSUME TypeInv, TypeInv', CountInv, [Next]_vars PROVE CountInv'
  OBVIOUS
<1>1. ASSUME NEW next, Went(next), 1 \in DOMAIN todo, todo[1].op # "refresh",
             UNCHANGED <<value, counts, unseen>>,
             \A k \in 1 .. Len(next) : next[k].op \notin {"refresh", "override", "override unset"}
      PROVE  CountInv'
  <2>1. ~At(1, "refresh", Keeper)
    BY <1>1 DEF At
  <2>2. \A k \in 1 .. Len(next) : ~Counts(next[k]) /\ ~NeedsCount(next[k])
    BY <1>1 DEF Counts, NeedsCount
  <2> QED BY <1>1, <2>1, <2>2, CountKept
<1>2. ASSUME NEW v \in Var, OverrideUnset(v) PROVE CountInv'
  <2>1. /\ 1 \in DOMAIN todo /\ todo[1].op = "override unset" /\ todo[1].for = v
        /\ UNCHANGED <<value, counts, unseen>>
    BY <1>2, FirstTask DEF OverrideUnset, modVars, varVars
  <2>2. PICK t : t = Task("override", v, todo[1].to)
    OBVIOUS
  <2>3. t.op = "override" /\ t.for = v /\ t.to = todo[1].to
    BY <2>2, Fields
  <2>4. Went(<<>>) \/ Went(<<t>>)
    BY <1>2, <2>2, OverrideUnsetLeads
  <2>5. (NeedsCount(t) => NeedsCount(todo[1])) /\ ~Counts(t) /\ ~At(1, "refresh", Keeper)
    BY <2>1, <2>3 DEF NeedsCount, Counts, At
  <2>6. PICK next : Went(next) /\ \A k \in 1 .. Len(next) : next[k] = t
    BY <2>4, Shorts
  <2> QED BY <2>1, <2>5, <2>6, CountKept
<1>3. ASSUME NEW v \in Var, Restore(v) \/ Unmark(v) PROVE CountInv'
  <2>1. /\ todo[1].op \in {"restore", "unmark"} /\ 1 \in DOMAIN todo
        /\ UNCHANGED <<value, counts, unseen>> /\ VarStep(v)
    BY <1>3, FirstTask DEF Restore, Unmark, VarStep, modVars, varVars
  <2>2. PICK next : /\ Went(next)
                    /\ \A k \in 1 .. Len(next) : <<todo[1].op, next[k].op>> \in LeadsTo
    BY <2>1, VarNews
  <2>3. \A k \in 1 .. Len(next) : next[k].op \notin {"refresh", "override", "override unset"}
    BY <2>1, <2>2 DEF LeadsTo
  <2> QED BY <1>1, <2>1, <2>2, <2>3
<1>4. ASSUME NEW m \in Mod, Toggle(m) PROVE CountInv'
  <2>1. /\ todo[1].op = "toggle" /\ 1 \in DOMAIN todo
        /\ UNCHANGED <<value, counts, unseen>>
    BY <1>4, FirstTask DEF Toggle, modVars, varVars
  <2>2. PICK next : /\ Went(next)
                    /\ \A k \in 1 .. Len(next) : next[k].op \in {"restore", "flip", "pieces"}
    BY <1>4, ToggleNews
  <2> QED BY <1>1, <2>1, <2>2
<1>5. ASSUME NEW m \in Mod, Flip(m) \/ TogglePieces(m) \/ DeletePieces(m) PROVE CountInv'
  <2>1. /\ todo[1].op \in {"flip", "pieces", "delete"} /\ 1 \in DOMAIN todo
        /\ UNCHANGED <<value, counts, unseen>>
    BY <1>5, FirstTask DEF Flip, TogglePieces, DeletePieces, varVars
  <2>2. Went(<<>>)
    BY <1>5, PlainLeads
  <2> QED BY <1>1, <2>1, <2>2, Shorts
<1>6. ASSUME NEW m \in Mod, LoadMod(m) PROVE CountInv'
  <2>1. /\ todo[1].op = "load" /\ 1 \in DOMAIN todo
        /\ UNCHANGED <<value, counts, unseen>>
    BY <1>6, FirstTask DEF LoadMod, varVars
  <2>2. PICK t : t = Task("toggle", m, 1)
    OBVIOUS
  <2>3. t.op = "toggle" /\ (Went(<<>>) \/ Went(<<t>>))
    BY <1>6, <2>2, LoadLeads, Fields
  <2>4. PICK next : Went(next) /\ \A k \in 1 .. Len(next) : next[k].op = "toggle"
    BY <2>3, Shorts
  <2> QED BY <1>1, <2>1, <2>4
<1>7. ASSUME NEW m \in Mod, UnloadMod(m) PROVE CountInv'
  <2>1. /\ todo[1].op = "unload" /\ 1 \in DOMAIN todo
        /\ UNCHANGED <<value, counts, unseen>>
    BY <1>7, FirstTask DEF UnloadMod, modVars, varVars
  <2>2. PICK next, l :
          /\ Went(next) /\ l \in Nat /\ Len(next) = l + 2
          /\ next[1] = Task("toggle", m, 0) /\ next[l + 2] = Task("delete", m, 0)
          /\ \A k \in 2 .. l + 1 : next[k].op = "restore"
    BY <1>7, UnloadLeads
  <2>3. \A k \in 1 .. l + 2 : k = 1 \/ k = l + 2 \/ k \in 2 .. l + 1
    BY <2>2
  <2>4. \A k \in 1 .. Len(next) : next[k].op \in {"toggle", "delete", "restore"}
    BY <2>2, <2>3, Fields
  <2> QED BY <1>1, <2>1, <2>2, <2>4
<1>8. CASE EndOfList
  <2>1. todo' = todo /\ UNCHANGED <<value, counts, unseen>>
    BY <1>8 DEF EndOfList, modVars, varVars
  <2> QED BY <2>1 DEF CountInv, RedInv, VisibleInv, NeedsInv, NeedsCount, MaxRed, Pending, At
<1>9. CASE Command
  <2>1. /\ todo = <<>> /\ UNCHANGED <<value, counts, unseen>>
        /\ \A k \in DOMAIN todo' :
             /\ todo'[k].op \notin {"override", "override unset"}
             /\ todo'[k].op = "refresh" => todo'[k].to = 0
    BY <1>9, CommandNews DEF modVars, varVars
  <2>2. MaxRed' = MaxRed
    BY <2>1, MaxRedKept
  <2>3. counts.red = MaxRed
    BY <2>1 DEF CountInv, RedInv
  <2>4. RedInv'
    <3>1. \A k \in DOMAIN todo' : At(k, "refresh", Keeper)' => todo'[k].to = 0
      BY <2>1 DEF At
    <3>2. counts'.red = MaxRed'
      BY <2>1, <2>2, <2>3
    <3> QED BY <3>1, <3>2 DEF RedInv
  <2>5. VisibleInv'
    <3>1. ~Pending("refresh", Keeper)
      <4>1. todo = <<>>
        BY <2>1
      <4>2. DOMAIN todo = {}
        BY <4>1
      <4> QED BY <4>2 DEF Pending
    <3>2. \A v \in Counted \ unseen : counts.visible[v] = value[v]
      BY <3>1 DEF CountInv, VisibleInv
    <3> QED BY <2>1, <3>2 DEF VisibleInv
  <2>6. NeedsInv'
    BY <2>1 DEF NeedsInv, NeedsCount
  <2> QED BY <2>4, <2>5, <2>6 DEF CountInv
<1>10. CASE UNCHANGED vars
  BY <1>10 DEF CountInv, RedInv, VisibleInv, NeedsInv, NeedsCount, MaxRed, Pending, At,
               vars, modVars, varVars
<1>11. ASSUME NEW v \in Var, VarStep(v) PROVE CountInv'
  BY <1>2, <1>3, <1>11, CountSet, CountSetting DEF VarStep
<1>12. ASSUME NEW m \in Mod, ModStep(m) PROVE CountInv'
  BY <1>4, <1>5, <1>6, <1>7, <1>12, CountRefresh DEF ModStep
<1> QED BY <1>8, <1>9, <1>10, <1>11, <1>12, Kinds

\* The patches of a mod are on or off as the mod is; those that are on with a value that
\* their ConVar, or the keeper's variables, have lost are refreshed or taken off by a call
\* in progress; and by a call in progress the keeper's variables are counted anew from
\* each ConVar that changed, but for those whose change the code overlooks.
THEOREM PatchesAlways == Spec => [](RefreshInv /\ PatchedInv /\ CurrentInv /\ CountInv)
<1>1. Init => RefreshInv /\ PatchedInv /\ CurrentInv /\ CountInv
  <2>1. SUFFICES ASSUME Init PROVE RefreshInv /\ PatchedInv /\ CurrentInv /\ CountInv
    OBVIOUS
  <2>2. phase = "loading" /\ present = {} /\ enabled = {} /\ \A m \in Mod : patched[m] = OFF
    BY <2>1 DEF Init
  <2>3. \A k \in DOMAIN todo : todo[k].op = "load"
    BY <2>1, <2>2, FollowInit DEF LoadingInv
  <2>4. \A v \in Var : value[v] = 0
    BY <2>1 DEF Init
  <2>5. counts.red = DefaultRed /\ \A v \in Counted : counts.visible[v] = 0
    BY <2>1 DEF Init
  <2>6. MaxRed = DefaultRed
    BY <2>4 DEF MaxRed
  <2>7. RedInv
    BY <2>3, <2>5, <2>6 DEF RedInv, At
  <2>8. VisibleInv
    BY <2>4, <2>5, Ordering DEF VisibleInv
  <2>9. NeedsInv
    BY <2>3 DEF NeedsInv, NeedsCount
  <2> QED BY <2>2, <2>3, <2>7, <2>8, <2>9 DEF RefreshInv, PatchedInv, CurrentInv, CountInv, Stale
<1>2. (TypeInv /\ LoadInv) /\ (TypeInv /\ LoadInv)' /\ (LoadingInv /\ FollowInv)
        /\ (ParseInv /\ TraceInv)
        /\ (RefreshInv /\ PatchedInv /\ CurrentInv /\ CountInv) /\ [Next]_vars
        => (RefreshInv /\ PatchedInv /\ CurrentInv /\ CountInv)'
  BY RefreshNext, PatchedNext, CurrentNext, CountNext
<1> QED BY <1>1, <1>2, LoadAlways, FollowAlways, TraceAlways, PTL DEF Spec

\* A change callback that applies patches again takes them off first, and one that only
\* toggles its mod meets patches that are off: between commands no patch is on with a
\* value that its ConVar has lost, also while or after a mission overrides it.  Those of
\* the keeper hold the size of the red team that its ConVar has, and of the ConVars the
\* visible players depend on the values they have, but for those in unseen.
THEOREM PatchesStayCurrent == Spec => []PatchesAreCurrent
<1>1. TypeInv /\ CurrentInv /\ CountInv => PatchesAreCurrent
  <2>1. SUFFICES ASSUME TypeInv, CurrentInv, CountInv, phase = "running", todo = <<>>,
                        NEW m \in Mod, patched[m] # OFF
                 PROVE  IF m = Keeper
                        THEN /\ patched[m].red = MaxRed
                             /\ \A v \in Counted \ unseen : patched[m].visible[v] = value[v]
                        ELSE patched[m] = PatchValue(m, counts)
    BY DEF PatchesAreCurrent, Idle
  <2>2. DOMAIN todo = {}
    BY <2>1
  <2>3. patched[m] = PatchValue(m, counts)
    BY <2>1, <2>2 DEF CurrentInv, Stale
  <2>4. counts.red = MaxRed
    BY <2>1 DEF CountInv, RedInv
  <2>5. \A v \in Counted \ unseen : counts.visible[v] = value[v]
    BY <2>1, <2>2 DEF CountInv, VisibleInv, Pending
  <2>6. m = Keeper => PatchValue(m, counts) = counts
    BY DEF PatchValue
  <2> QED BY <2>3, <2>4, <2>5, <2>6
<1> QED BY <1>1, LoadAlways, PatchesAlways, PTL

\* Where no ConVar refreshes patches whether its mod is enabled or not, the patches that
\* are on between commands are those of the enabled mods that loaded.
THEOREM PatchesFollow ==
    ASSUME \A v \in Var : Kind[v] # "refresh"
    PROVE  Spec => []PatchesFollowMods
<1>1. ASSUME TypeInv, PatchedInv PROVE PatchesFollowMods
  <2>1. \A m \in Mod : Steady(m)
    BY DEF Steady
  <2>2. SUFFICES ASSUME phase = "running", todo = <<>>
                 PROVE  {m \in Mod : patched[m] # OFF} = enabled \ failed
    BY DEF PatchesFollowMods, Idle
  <2>3. \A m \in Mod : patched[m] # OFF <=> m \in enabled \ failed
    BY <1>1, <2>1, <2>2 DEF PatchedInv
  <2> QED BY <1>1, <2>3 DEF TypeInv
<1>2. TypeInv /\ PatchedInv => PatchesFollowMods
  BY <1>1
<1> QED BY <1>2, LoadAlways, PatchesAlways, PTL
=============================================================================
