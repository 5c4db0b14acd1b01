----------------------------- MODULE MCDetourCall -----------------------------
(***************************************************************************)
(* A small instance of DetourCall: a function f1 with two detours and a    *)
(* trace and a function f2 with one detour, so that a call of one can be   *)
(* made inside a call of the other, and chunks of one be reused by the     *)
(* other.                                                                  *)
(***************************************************************************)
EXTENDS DetourCall, TLC

CONSTANTS f1, f2, a, b, c, d1, d2, d3, t1

\* d3 on f2, the others on f1, where d1 is above d2.
MCTwoFuncs == [o \in Object |-> IF o = d3 THEN f2 ELSE f1]
MCRanked   == [d \in Detour |-> IF d = d1 THEN 1 ELSE 0]

MCCallbackOf == [d \in Detour |-> IF d = d1 THEN a ELSE IF d = d2 THEN b ELSE c]

\* Inside calls: a detour is switched off, CleanUp erases its function's entry and
\* the switching of another one hands out the chunks again.
MCMidCall == [detour |-> 3, trace |-> 2, cleanup |-> 2]

\* Chunk addresses are interchangeable.
MCSymmetry == Permutations(TChunk) \cup Permutations(WChunk)
=============================================================================
