--------------------------- MODULE MCDetouredFunc ---------------------------
(***************************************************************************)
(* Small instance of DetouredFunc: three detours of different priority and *)
(* one trace on the function f1, and a detour on f2 that was declared with *)
(* the callback of a detour of f1.                                         *)
(***************************************************************************)
EXTENDS DetouredFunc, TLC

CONSTANTS f1, f2, a, b, c, d1, d2, d3, d4, t1

MCFuncOf == (d1 :> f1) @@ (d2 :> f1) @@ (d3 :> f1) @@ (d4 :> f2) @@ (t1 :> f1)
MCCallbackOf == (d1 :> a) @@ (d2 :> b) @@ (d3 :> c) @@ (d4 :> c)
MCPriority == (d1 :> 0) @@ (d2 :> 0) @@ (d3 :> 2) @@ (d4 :> -2)

\* Chunk addresses are interchangeable.
MCSymmetry == Permutations(TChunk) \cup Permutations(WChunk)
=============================================================================
