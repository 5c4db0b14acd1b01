------------------------------ MODULE MCExecMem ------------------------------
(***************************************************************************)
(* ExecMem with few pages and chunks; the requests stop when every page    *)
(* mmap can return is full.                                                *)
(***************************************************************************)
EXTENDS ExecMem, TLC

MCSymmetry == Permutations(Page)
=============================================================================
