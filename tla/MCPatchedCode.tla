---------------------------- MODULE MCPatchedCode ----------------------------
(***************************************************************************)
(* PatchedCode with three patches whose ranges overlap each other and, one *)
(* of them, the prologue.                                                  *)
(***************************************************************************)
EXTENDS PatchedCode, TLC

CONSTANTS p1, p2, p3

MCRange  == (p1 :> 1 .. 4) @@ (p2 :> 3 .. 5) @@ (p3 :> 4 .. 6)
MCMask   == (p1 :> {3}) @@ (p2 :> {4, 5}) @@ (p3 :> {6})
MCVerify == (p1 :> 1 .. 4) @@ (p2 :> {3, 4, 5}) @@ (p3 :> {4, 6})
=============================================================================
