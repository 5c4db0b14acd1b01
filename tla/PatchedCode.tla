----------------------------- MODULE PatchedCode -----------------------------
(***************************************************************************)
(* CPatch (src/mem/patch.cpp) and the entry jump of a CDetouredFunc        *)
(* (InstallJump and UninstallJump of src/mem/detour.cpp) on the bytes of   *)
(* one function.  A patch saves and checks every byte of its range and     *)
(* changes only those of its mask; a detour saves and overwrites the whole *)
(* prologue.  Nothing keeps patches and detours of one function apart (the *)
(* TODO in patch.h): NoClash says what the mods keep to.                   *)
(***************************************************************************)
EXTENDS Integers, FiniteSets

CONSTANTS
    Length,     \* length of the function
    Prologue,   \* length of the prologue that the jump overwrites
    Patch,      \* CPatch objects
    Range,      \* the bytes of each patch: m_iFuncOffActual and m_iLength
    Mask,       \* the bytes m_MaskPatch selects
    Verify,     \* the bytes m_MaskVerify selects
    NewByte,    \* what AdjustPatchInfo can put in m_BufPatch
    ORIG, JUMP  \* the function's own bytes, and those of a jump

Byte == 1 .. Length
Code == {ORIG, JUMP} \cup NewByte

ASSUME PatchShape ==
    /\ Length \in Nat /\ Prologue \in 1 .. Length
    /\ Range \in [Patch -> SUBSET Byte]
    /\ Mask \in [Patch -> SUBSET Byte] /\ Verify \in [Patch -> SUBSET Byte]
    /\ \A p \in Patch : Mask[p] \subseteq Range[p] /\ Verify[p] \subseteq Range[p]
    /\ ORIG # JUMP /\ ORIG \notin NewByte /\ JUMP \notin NewByte

\* No byte is changed by two patches, or by a patch and a jump.
ASSUME NoClash ==
    \A p \in Patch :
      /\ Mask[p] \cap 1 .. Prologue = {}
      /\ \A q \in Patch \ {p} : Mask[p] \cap Mask[q] = {}

VARIABLES
    code,      \* the bytes of the function
    checked,   \* patches whose Init and Check have run
    found,     \* patches whose m_bFoundOffset is set
    applied,   \* patches whose m_bApplied is set
    newByte,   \* m_BufPatch of each patch, the same for all bytes
    restore,   \* m_BufRestore of each patch
    jump,      \* m_bJumpInstalled of the function
    snapshot   \* m_OriginalPrologue, once the CDetouredFunc exists

vars == <<code, checked, found, applied, newByte, restore, jump, snapshot>>

NoSnapshot == [b \in {} |-> ORIG]

Init ==
    /\ code = [b \in Byte |-> ORIG]
    /\ checked = {} /\ found = {} /\ applied = {}
    /\ newByte = [p \in Patch |-> ORIG]
    /\ restore = [p \in Patch |-> [b \in Range[p] |-> ORIG]]
    /\ jump = FALSE
    /\ snapshot = NoSnapshot

-----------------------------------------------------------------------------

\* Init and Check: the bytes to verify must be those of the game.
Check(p) ==
    /\ p \notin checked
    /\ checked' = checked \cup {p}
    /\ found' = IF \A b \in Verify[p] : code[b] = ORIG THEN found \cup {p} ELSE found
    /\ UNCHANGED <<code, applied, newByte, restore, jump, snapshot>>

\* Apply: every byte of the range is saved, those of the mask are replaced.
Apply(p) ==
    /\ p \in found \ applied
    /\ applied' = applied \cup {p}
    /\ \E n \in NewByte :
         /\ newByte' = [newByte EXCEPT ![p] = n]
         /\ restore' = [restore EXCEPT ![p] = [b \in Range[p] |-> code[b]]]
         /\ code' = [b \in Byte |-> IF b \in Mask[p] THEN n ELSE code[b]]
    /\ UNCHANGED <<checked, found, jump, snapshot>>

\* UnApply: only the bytes of the mask are put back.
UnApplyRange(p) ==                   \* mutant: the mask is ignored
    /\ p \in applied
    /\ applied' = applied \ {p}
    /\ code' = [b \in Byte |-> IF b \in Range[p] THEN restore[p][b] ELSE code[b]]
    /\ UNCHANGED <<checked, found, newByte, restore, jump, snapshot>>
UnApply(p) ==
    /\ p \in applied
    /\ applied' = applied \ {p}
    /\ code' = [b \in Byte |-> IF b \in Mask[p] THEN restore[p][b] ELSE code[b]]
    /\ UNCHANGED <<checked, found, newByte, restore, jump, snapshot>>

\* The prologue is saved when the CDetouredFunc is made, and the jump is written over it.
InstallJump ==
    /\ ~jump
    /\ jump' = TRUE
    /\ snapshot' = IF snapshot = NoSnapshot THEN [b \in 1 .. Prologue |-> code[b]] ELSE snapshot
    /\ code' = [b \in Byte |-> IF b <= Prologue THEN JUMP ELSE code[b]]
    /\ UNCHANGED <<checked, found, applied, newByte, restore>>

\* The saved prologue is written back as a whole.
UninstallJump ==
    /\ jump
    /\ jump' = FALSE
    /\ code' = [b \in Byte |-> IF b <= Prologue THEN snapshot[b] ELSE code[b]]
    /\ UNCHANGED <<checked, found, applied, newByte, restore, snapshot>>

\* CDetouredFunc::CleanUp of a function without detours.
ForgetFunc ==
    /\ ~jump /\ snapshot # NoSnapshot
    /\ snapshot' = NoSnapshot
    /\ UNCHANGED <<code, checked, found, applied, newByte, restore, jump>>

Next ==
    \/ \E p \in Patch : Check(p) \/ Apply(p) \/ UnApply(p)
    \/ InstallJump \/ UninstallJump \/ ForgetFunc

Spec == Init /\ [][Next]_vars

-----------------------------------------------------------------------------
(***************************************************************************)
(* Properties.                                                             *)
(***************************************************************************)

TypeOK ==
    /\ code \in [Byte -> Code]
    /\ checked \subseteq Patch /\ found \subseteq checked /\ applied \subseteq found
    /\ newByte \in [Patch -> NewByte \cup {ORIG}]
    /\ restore = [p \in Patch |-> restore[p]]
    /\ \A p \in Patch : restore[p] \in [Range[p] -> Code]
    /\ jump \in BOOLEAN
    /\ snapshot = NoSnapshot \/ snapshot \in [1 .. Prologue -> Code]

\* At every moment each byte is what the patch or the jump that owns it has put
\* there, or the game's: patches and the jump come and go in any order, also when
\* their ranges overlap and one has saved the bytes of another.
EachByteHasItsOwner ==
    /\ \A p \in applied : \A b \in Mask[p] : code[b] = newByte[p]
    /\ \A b \in Byte : (\A p \in applied : b \notin Mask[p]) =>
          code[b] = IF jump /\ b <= Prologue THEN JUMP ELSE ORIG

\* What a patch would put back, and what the detour would, are bytes of the game: none
\* of them has saved what another one wrote.
SavedBytesAreOriginal ==
    /\ \A p \in applied : \A b \in Mask[p] : restore[p][b] = ORIG
    /\ \A b \in DOMAIN snapshot : snapshot[b] = ORIG
=============================================================================
