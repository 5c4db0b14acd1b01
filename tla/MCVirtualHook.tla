---------------------------- MODULE MCVirtualHook ----------------------------
(***************************************************************************)
(* VirtualHook with two classes that share a function: CTFWeaponBuilder,   *)
(* whose table is at words 1 and 2, and CTFWeaponSapper at 3 and 4, both   *)
(* with CTFWeaponBase::Equip in the second word.                           *)
(***************************************************************************)
EXTENDS VirtualHook, TLC

CONSTANTS h1, h2, h3, h4, c1, c2, c3, c4, equip, think, touch

MCPristine   == <<think, equip, touch, equip>>
MCTarget     == [h \in Hook |-> equip]
MCTableStart == [h \in Hook |-> IF h = h4 THEN 3 ELSE 1]
MCCallbackOf == [h \in Hook |->
    IF h = h1 THEN c1 ELSE IF h = h2 THEN c2 ELSE IF h = h3 THEN c3 ELSE c4]
=============================================================================
