----------------------------- MODULE ChangeFrames -----------------------------
(***************************************************************************)
(* The change frame list of an entity: the tick at which each property was *)
(* last changed.  CachedChangeFrameList (sendprop_optimize.cpp) answers    *)
(* most questions from the list of the last changes instead of looking at  *)
(* every property.                                                         *)
(***************************************************************************)
EXTENDS Integers, Sequences

CONSTANT Prop

Listed(ps) == {ps[i] : i \in DOMAIN ps}

\* Alloc and Init; cached is FALSE for a list of the engine's own kind.
NewList(tick, cached) ==
    [ticks |-> [p \in Prop |-> tick], last |-> <<>>,
     lastTick |-> 0,    \* m_LastChangeTickNum
     sameTick |-> 0,    \* m_LastSameTickNum
     cached |-> cached]

\* The properties ps are changed at the tick.
SetChangeTickSame(l, ps, tick) ==        \* mutant: lists of one length are the same
    [l EXCEPT !.ticks = [p \in Prop |-> IF p \in Listed(ps) THEN tick ELSE @[p]],
              !.last = ps,
              !.lastTick = tick,
              !.sameTick = IF Len(l.last) = Len(ps) THEN @ ELSE tick]
SetChangeTick(l, ps, tick) ==
    [l EXCEPT !.ticks = [p \in Prop |-> IF p \in Listed(ps) THEN tick ELSE @[p]],
              !.last = ps,
              !.lastTick = tick,
              !.sameTick = IF l.last = ps THEN @ ELSE tick]

\* "Get a list of all properties with a change frame > iFrame."
Scan(l, tick) == {p \in Prop : l.ticks[p] > tick}

\* GetPropsChangedAfterTick.
ChangedAfter(l, tick) ==
    IF ~l.cached \/ tick + 1 < l.sameTick THEN Scan(l, tick)
    ELSE IF tick >= l.lastTick THEN {}
    ELSE Listed(l.last)
=============================================================================
