----------------------------- MODULE PackedPlayer -----------------------------
(***************************************************************************)
(* Perf:SendProp_Optimize (sendprop_optimize.cpp): the state of a player   *)
(* that is sent to clients.  Once per tick the engine packs every player   *)
(* whose FL_EDICT_CHANGED is set.  The mod compares the memory of the      *)
(* player with the values it saw last and writes only the properties that  *)
(* changed into a copy of the previous packet, at the offsets they had     *)
(* when all of them were encoded last; when that will not do, the engine   *)
(* encodes everything.                                                     *)
(*                                                                         *)
(* A property is the value of a few words of memory.  The words of the     *)
(* list prop_offset_sendtable are compared; the others change only in      *)
(* functions that the mod detours to force an encoding of everything.      *)
(***************************************************************************)
EXTENDS ChangeFrames, SequencesExt, FiniteSetsExt

CONSTANTS
    Player,
    Word,         \* the words of a player's memory, 1 .. n; words hold 0 or 1
    Slots,        \* prop_offset_sendtable: words 1 .. Slots
    WordsOf,      \* the words each property is made of
    PropsAt,      \* index1 and index2 of each word in the list
    VarLen,       \* properties whose encoding is longer for some values
    LocalOnly,    \* properties that are sent only to the player itself
    MaxChanges,   \* the 100 elements of propOffsets
    MaxTick,      \* bound on the number of ticks
    MaxSwitches   \* bound on the changes of sig_perf_sendprop_optimize

ASSUME Layout ==
    /\ IsFiniteSet(Prop) /\ Prop = 1 .. Cardinality(Prop)
    /\ IsFiniteSet(Word) /\ Word = 1 .. Cardinality(Word)
    /\ Slots \in 0 .. Cardinality(Word) /\ Player \subseteq Nat
    /\ WordsOf \in [Prop -> SUBSET Word]
    /\ PropsAt \in [1 .. Slots -> Seq(Prop)]
    /\ \A s \in 1 .. Slots :
         /\ Len(PropsAt[s]) \in {1, 2}
         /\ Listed(PropsAt[s]) \subseteq {p \in Prop : s \in WordsOf[p]}
    /\ LocalOnly \subseteq Prop /\ VarLen \subseteq Prop

VARIABLES
    enabled,      \* the detours of the mod are on
    firsttime,
    bots,         \* players that are bots
    tick,         \* gpGlobals->tickcount, when the last snapshot was taken
    toPack,       \* players the current snapshot still needs
    switches,     \* how often the mod was switched on or off
    mem,          \* the memory of each player
    changed,      \* players with FL_EDICT_CHANGED
    force,        \* force_player_update
    old,          \* player_prop_value_old
    offs,         \* player_prop_write_offset, 0 where not set
    list,         \* m_pChangeFrameList of the last packet
    shots,        \* the packed properties of the player in each snapshot
    sent,         \* what the memory was when the last packet was made
    ownOffs,      \* players whose properties were last all encoded under the mod
    doubt,        \* properties of which a word was not looked at in time
    astray        \* players with a packet written at the wrong offsets

playerVars == <<mem, changed, force, old, offs, list, shots, sent, ownOffs, doubt, astray>>
vars == <<enabled, firsttime, bots, tick, toPack, switches, playerVars>>

Zero == [w \in Word |-> 0]

Init ==
    /\ enabled = FALSE /\ firsttime = TRUE
    /\ bots \in SUBSET Player
    /\ tick = 0 /\ toPack = {} /\ switches = 0
    /\ mem = [pl \in Player |-> Zero]
    /\ changed = Player /\ force = {}
    /\ old = [pl \in Player |-> Zero]
    /\ offs = [pl \in Player |-> [p \in Prop |-> 0]]
    /\ list = [pl \in Player |-> NewList(0, FALSE)]
    /\ shots = [pl \in Player |-> <<>>]
    /\ sent = [pl \in Player |-> Zero]
    /\ ownOffs = {} /\ astray = {}
    /\ doubt = [pl \in Player |-> {}]

-----------------------------------------------------------------------------
(***************************************************************************)
(* Packets.                                                                *)
(***************************************************************************)

\* The properties of a player with this memory.
Packed(m) == [p \in Prop |-> [w \in WordsOf[p] |-> m[w]]]

\* The length of the value x of p, in units, after the index of p.
Width(p, x) == 1 + (IF p \in VarLen THEN Cardinality({w \in DOMAIN x : x[w] # 0}) ELSE 0)

\* Where the values are in a packet.
Lengths(packet) == [p \in Prop |-> 1 + Width(p, packet[p])]
Total(f, S)     == MapThenSumSet(LAMBDA q : f[q], S)
Offsets(packet) == [p \in Prop |-> 1 + Total(Lengths(packet), 1 .. p - 1)]

HasPacket(pl) == shots[pl] # <<>>
Previous(pl)  == Last(shots[pl])

\* Local-only properties of bots are not looked at.
Culled(pl, p) == pl \in bots /\ p \in LocalOnly

\* The values of f in ascending order (the insertion sort of propOffsets).
Place(f, i) == Cardinality({j \in DOMAIN f : f[j] < f[i] \/ (f[j] = f[i] /\ j <= i)})
Sorted(f)   == [k \in 1 .. Cardinality(DOMAIN f) |-> f[CHOOSE i \in DOMAIN f : Place(f, i) = k]]

\* The properties of the word s that are noted.
Shown(pl, p) == IF Culled(pl, p) THEN <<>> ELSE <<p>>
Noted(pl, s) ==
    Shown(pl, PropsAt[s][1]) \o (IF Len(PropsAt[s]) = 1 THEN <<>> ELSE Shown(pl, PropsAt[s][2]))

\* The first loop of DoEncodePlayer for the word s: where the word changed, its
\* properties are noted, unless the one noted last is among them.
LookAtFirst(pl, seen, s) ==              \* mutant: the second property of a word is forgotten
    IF seen.over \/ seen.old[s] = mem[pl][s] THEN seen
    ELSE IF Len(seen.props) >= MaxChanges THEN [seen EXCEPT !.over = TRUE]
    ELSE IF seen.props # <<>> /\ Last(seen.props) = PropsAt[s][1] THEN seen
    ELSE [seen EXCEPT !.old[s] = mem[pl][s], !.props = Append(@, PropsAt[s][1])]
LookAt(pl, seen, s) ==
    IF seen.over \/ seen.old[s] = mem[pl][s] THEN seen
    ELSE IF Len(seen.props) >= MaxChanges THEN [seen EXCEPT !.over = TRUE]
    ELSE IF seen.props # <<>> /\ Last(seen.props) \in Listed(PropsAt[s]) THEN seen
    ELSE [seen EXCEPT !.old[s] = mem[pl][s],
                      !.props = @ \o Noted(pl, s)]

\* ... for all of them.
LookAtAll(pl) ==
    LET seen[s \in 0 .. Slots] ==
          IF s = 0 THEN [old |-> old[pl], props |-> <<>>, over |-> FALSE]
          ELSE LookAt(pl, seen[s - 1], s)
    IN  seen[Slots]

\* Properties of which a word is behind, and which are not written now either.
Behind(pl, ps) ==
    {p \in Prop \ Listed(ps) : \E w \in WordsOf[p] \cap 1 .. Slots : old[pl][w] # sent[pl][w]}

-----------------------------------------------------------------------------
(***************************************************************************)
(* The ways in which a player gets into the snapshot.                      *)
(***************************************************************************)

\* The engine encodes everything and compares it with the previous packet.
Encode(pl) ==
    LET packet == Packed(mem[pl])
    IN  /\ shots' = [shots EXCEPT ![pl] = Append(@, packet)]
        /\ list' = [list EXCEPT ![pl] =
             IF ~HasPacket(pl) THEN NewList(tick, enabled)
             ELSE LET diff == {p \in Prop : packet[p] # Previous(pl)[p]}
                  IN  IF diff = {} THEN @ ELSE SetChangeTick(@, Sorted([p \in diff |-> p]), tick)]
        /\ changed' = changed \ {pl}
        /\ sent' = [sent EXCEPT ![pl] = mem[pl]]
        /\ doubt' = [doubt EXCEPT ![pl] = {}]
        /\ UNCHANGED astray

\* ... after which Run notes the offsets.
EncodeAll(pl) ==
    /\ Encode(pl)
    /\ offs' = [offs EXCEPT ![pl] = Offsets(Packed(mem[pl]))]
    /\ ownOffs' = ownOffs \cup {pl}
    /\ firsttime' = FALSE

\* UsePreviouslySentPacket.
Reuse(pl) ==
    /\ shots' = [shots EXCEPT ![pl] = Append(@, Previous(pl))]
    /\ UNCHANGED <<firsttime, changed, force, old, offs, list, sent, ownOffs, doubt, astray>>

\* The second half of DoEncodePlayer: ps are written into a copy of the previous packet.
WriteChanged(pl, ps) ==
    /\ shots' = [shots EXCEPT ![pl] = Append(@,
         [p \in Prop |-> IF p \in Listed(ps) THEN Packed(mem[pl])[p] ELSE Previous(pl)[p]])]
    /\ list' = [list EXCEPT ![pl] = SetChangeTick(@, Sorted(ps), tick)]
    /\ changed' = changed \ {pl}
    /\ sent' = [sent EXCEPT ![pl] = mem[pl]]
    /\ doubt' = [doubt EXCEPT ![pl] = (@ \ Listed(ps)) \cup Behind(pl, ps)]
    /\ UNCHANGED <<firsttime, offs, ownOffs, astray>>

\* The offsets of ps are those of the previous packet.
Found(pl, ps) == \A p \in Listed(ps) : offs[pl][p] = Offsets(Previous(pl))[p]

\* No value becomes longer or shorter.
FitsAlways(pl, ps) == TRUE               \* mutant: later properties are not moved
Fits(pl, ps) ==
    \A p \in Listed(ps) : Width(p, Packed(mem[pl])[p]) = Width(p, Previous(pl)[p])

\* DoEncodePlayer; Run has everything encoded when it returns false.  What is decoded
\* at a wrong offset may have any length.
DoEncodePlayer(pl) ==
    LET seen  == LookAtAll(pl)
        ps    == seen.props
        may   == ~seen.over /\ ~firsttime /\ pl \in changed /\ pl \notin force /\ HasPacket(pl)
    IN  /\ old' = [old EXCEPT ![pl] = seen.old]
        /\ force' = IF seen.over \/ firsttime THEN force ELSE force \ {pl}
        /\ \/ may /\ Found(pl, ps) /\ Fits(pl, ps) /\ WriteChanged(pl, ps)
           \/ ~(may /\ Found(pl, ps) /\ Fits(pl, ps)) /\ EncodeAll(pl)
           \/ may /\ ~Found(pl, ps) /\ astray' = astray \cup {pl}
              /\ UNCHANGED <<firsttime, changed, offs, list, shots, sent, ownOffs, doubt>>

\* CParallelProcessor<PackWork_t>::Run for one player, with the mod on or off.  Nothing
\* is said of a player that went astray.
Pack(pl) ==
    /\ pl \in toPack /\ \A other \in toPack : pl <= other
    /\ toPack' = toPack \ {pl}
    /\ \/ /\ pl \in astray
          /\ UNCHANGED <<firsttime, changed, force, old, offs, list, shots, sent, ownOffs, doubt, astray>>
       \/ pl \notin astray /\ pl \notin changed /\ HasPacket(pl) /\ Reuse(pl)
       \/ /\ pl \notin astray /\ (pl \in changed \/ ~HasPacket(pl))
          /\ enabled /\ DoEncodePlayer(pl)
       \/ /\ pl \notin astray /\ (pl \in changed \/ ~HasPacket(pl))
          /\ ~enabled /\ Encode(pl)
          /\ ownOffs' = ownOffs \ {pl}
          /\ UNCHANGED <<firsttime, force, old, offs>>
    /\ UNCHANGED <<enabled, bots, tick, switches, mem>>

-----------------------------------------------------------------------------
(***************************************************************************)
(* What happens between snapshots.                                         *)
(***************************************************************************)

\* The game runs a frame, in which it touches some players, and a snapshot is begun.
\* CTFPlayer::AddObject and the like force an encoding while they are detoured, and
\* PackEntities_Normal of the mod leaves out bots that are dead.
RunFrame ==
    /\ toPack = {} /\ tick < MaxTick
    /\ tick' = tick + 1 /\ toPack' = Player
    /\ \E m \in [Player -> [Word -> 0 .. 1]], touched, forced, dead \in SUBSET Player :
         /\ forced \subseteq touched /\ dead \subseteq (IF enabled THEN bots ELSE {})
         /\ \A pl \in Player \ touched : m[pl] = mem[pl]
         /\ \A pl \in Player \ forced : \A w \in Word : w > Slots => m[pl][w] = mem[pl][w]
         /\ mem' = m
         /\ changed' = (changed \cup touched) \ dead
         /\ force' = IF enabled THEN force \cup forced ELSE force
    /\ UNCHANGED <<enabled, firsttime, bots, switches, old, offs, list, shots, sent, ownOffs, doubt, astray>>

\* Another client, a bot perhaps, gets the place of a player.
Reconnect(pl) ==
    /\ toPack = {} /\ HasPacket(pl)
    /\ bots' \in {bots \ {pl}, bots \cup {pl}}
    /\ mem' = [mem EXCEPT ![pl] = Zero]
    /\ changed' = changed \cup {pl}
    /\ shots' = [shots EXCEPT ![pl] = <<>>]
    /\ doubt' = [doubt EXCEPT ![pl] = {}]
    /\ ownOffs' = ownOffs \ {pl}
    /\ UNCHANGED <<enabled, firsttime, tick, toPack, switches, force, old, offs, list, sent, astray>>

\* The ConVar sig_perf_sendprop_optimize.
Switch ==
    /\ toPack = {} /\ switches < MaxSwitches
    /\ switches' = switches + 1
    /\ enabled' = ~enabled
    /\ UNCHANGED <<firsttime, bots, tick, toPack, playerVars>>

\* OnUnload: every packet gets a new list of the engine's.
Unload ==
    /\ toPack = {} /\ switches < MaxSwitches
    /\ switches' = MaxSwitches
    /\ enabled' = FALSE
    /\ list' = [pl \in Player |-> NewList(tick, FALSE)]
    /\ UNCHANGED <<firsttime, bots, tick, toPack, mem, changed, force, old, offs, shots, sent,
                   ownOffs, doubt, astray>>

Next ==
    \/ RunFrame \/ Switch \/ Unload
    \/ \E pl \in Player : Pack(pl) \/ Reconnect(pl)

Spec == Init /\ [][Next]_vars

-----------------------------------------------------------------------------
(***************************************************************************)
(* Properties.                                                             *)
(***************************************************************************)

\* What is sent of a player is what its memory was, though only some properties were
\* written: all but those of which a word had been left behind, by the limit on changes,
\* by the property noted before it, or while the mod was off.
PacketsAreCurrent ==
    \A pl \in Player \ astray :
      HasPacket(pl) =>
        \A p \in Prop \ doubt[pl] :
          ~Culled(pl, p) => Previous(pl)[p] = Packed(sent[pl])[p]

\* Properties are written where they are in the packet, provided it goes back to an
\* encoding of everything that was made with the mod on.
OffsetsFit ==
    \A pl \in ownOffs : pl \notin astray /\ offs[pl] = Offsets(Previous(pl))

\* Whatever differs between two snapshots is among the properties changed after the
\* first: a client that has the first gets them, also when the list is shared with
\* newer packets, as it is while a SourceTV client is active.
DeltasAreComplete ==
    toPack = {} => \A pl \in Player \ astray :
      LET n == Len(shots[pl]) IN
      \A i, j \in 1 .. n : i < j =>
        {p \in Prop : shots[pl][i][p] # shots[pl][j][p]}
          \subseteq ChangedAfter(list[pl], tick - n + i)
=============================================================================
