------------------------- MODULE PatchedCode_proofs -------------------------
(***************************************************************************)
(* Proofs about PatchedCode: for any function, any patches and any detour  *)
(* that keep to NoClash, whatever the overlap of their ranges.             *)
(***************************************************************************)
EXTENDS PatchedCode, TLAPS

\* A jump is in place only over a saved prologue.
JumpIsSaved == jump => snapshot \in [1 .. Prologue -> Code]

IInv == TypeOK /\ EachByteHasItsOwner /\ SavedBytesAreOriginal /\ JumpIsSaved

\* The bytes of a patch lie behind the prologue and belong to no other patch.
LEMMA MaskIsOwn ==
    ASSUME NEW p \in Patch, NEW b \in Mask[p]
    PROVE  /\ b \in Byte /\ b \in Range[p] /\ b \in Int /\ ~(b <= Prologue)
           /\ \A q \in Patch : b \in Mask[q] => q = p
  <1>1. b \in Byte /\ b \in Range[p]
    BY PatchShape
  <1>2. b \in Int /\ b >= 1 /\ Prologue \in Int
    BY <1>1, PatchShape DEF Byte
  <1>3. b \notin 1 .. Prologue
    BY NoClash
  <1> QED
    BY <1>1, <1>2, <1>3, NoClash

\* The functions begin pristine.
LEMMA InitHolds == Init => IInv
  <1> SUFFICES ASSUME Init
               PROVE  IInv
    OBVIOUS
  <1>1. TypeOK
    BY DEF Init, TypeOK, Code
  <1>2. EachByteHasItsOwner
    BY DEF Init, EachByteHasItsOwner
  <1>3. SavedBytesAreOriginal
    BY DEF Init, SavedBytesAreOriginal, NoSnapshot
  <1> QED
    BY <1>1, <1>2, <1>3 DEF Init, IInv, JumpIsSaved

\* Every operation of a patch and of the jump keeps the invariant.
LEMMA StepHolds == IInv /\ [Next]_vars => IInv'
  <1> SUFFICES ASSUME IInv, [Next]_vars
               PROVE  IInv'
    OBVIOUS
  <1> USE DEF IInv
  <1>1. CASE UNCHANGED vars
    BY <1>1 DEF vars, TypeOK, EachByteHasItsOwner, SavedBytesAreOriginal, JumpIsSaved
  <1>2. ASSUME NEW p \in Patch, Check(p)
        PROVE  IInv'
    BY <1>2 DEF Check, TypeOK, EachByteHasItsOwner, SavedBytesAreOriginal, JumpIsSaved
  <1>3. ASSUME NEW p \in Patch, Apply(p)
        PROVE  IInv'
    <2>1. PICK n \in NewByte :
            /\ newByte' = [newByte EXCEPT ![p] = n]
            /\ restore' = [restore EXCEPT ![p] = [b \in Range[p] |-> code[b]]]
            /\ code' = [b \in Byte |-> IF b \in Mask[p] THEN n ELSE code[b]]
      BY <1>3 DEF Apply
    <2>2. p \in found /\ p \notin applied /\ applied' = applied \cup {p}
      BY <1>3 DEF Apply
    <2>3. UNCHANGED <<checked, found, jump, snapshot>>
      BY <1>3 DEF Apply
    <2>4. ASSUME NEW b \in Mask[p]
          PROVE  code[b] = ORIG /\ b \in Range[p] /\ b \in Byte
      BY <2>2, MaskIsOwn DEF EachByteHasItsOwner, TypeOK
    <2>5. TypeOK'
      <3>1. code' \in [Byte -> Code] /\ newByte' \in [Patch -> NewByte \cup {ORIG}]
        BY <2>1 DEF TypeOK, Code
      <3>2. ASSUME NEW q \in Patch
            PROVE  restore'[q] \in [Range[q] -> Code]
        <4>1. Range[p] \subseteq Byte
          BY PatchShape
        <4>2. [b \in Range[p] |-> code[b]] \in [Range[p] -> Code]
          BY <4>1 DEF TypeOK
        <4> QED
          BY <2>1, <4>2 DEF TypeOK
      <3>3. restore' = [q \in Patch |-> restore'[q]]
        BY <2>1 DEF TypeOK
      <3> QED
        BY <2>2, <2>3, <3>1, <3>2, <3>3 DEF TypeOK
    <2>6. EachByteHasItsOwner'
      <3>1. ASSUME NEW q \in applied', NEW b \in Mask[q]
            PROVE  code'[b] = newByte'[q]
        <4>1. q \in Patch
          BY <2>2 DEF TypeOK
        <4>2. b \in Byte
          BY <4>1, MaskIsOwn
        <4>3. CASE q = p
          BY <2>1, <4>2, <4>3 DEF TypeOK
        <4>4. CASE q # p
          <5>1. b \notin Mask[p]
            BY <4>1, <4>4, MaskIsOwn
          <5>2. code[b] = newByte[q]
            BY <2>2, <4>4 DEF EachByteHasItsOwner
          <5> QED
            BY <2>1, <4>1, <4>2, <4>4, <5>1, <5>2 DEF TypeOK
        <4> QED
          BY <4>3, <4>4
      <3>2. ASSUME NEW b \in Byte, \A q \in applied' : b \notin Mask[q]
            PROVE  code'[b] = IF jump' /\ b <= Prologue THEN JUMP ELSE ORIG
        BY <2>1, <2>2, <2>3, <3>2 DEF EachByteHasItsOwner
      <3> QED
        BY <3>1, <3>2 DEF EachByteHasItsOwner
    <2>7. SavedBytesAreOriginal'
      <3>1. ASSUME NEW q \in applied', NEW b \in Mask[q]
            PROVE  restore'[q][b] = ORIG
        <4>1. q \in Patch
          BY <2>2 DEF TypeOK
        <4>2. CASE q = p
          <5>1. restore'[p] = [x \in Range[p] |-> code[x]]
            BY <2>1 DEF TypeOK, SavedBytesAreOriginal
          <5> QED
            BY <2>4, <4>2, <5>1
        <4>3. CASE q # p
          BY <2>1, <2>2, <4>1, <4>3 DEF SavedBytesAreOriginal, TypeOK
        <4> QED
          BY <4>2, <4>3
      <3> QED
        BY <2>3, <3>1 DEF SavedBytesAreOriginal
    <2> QED
      BY <2>3, <2>5, <2>6, <2>7 DEF JumpIsSaved
  <1>4. ASSUME NEW p \in Patch, UnApply(p)
        PROVE  IInv'
    <2>1. /\ p \in applied /\ applied' = applied \ {p}
          /\ code' = [b \in Byte |-> IF b \in Mask[p] THEN restore[p][b] ELSE code[b]]
          /\ UNCHANGED <<checked, found, newByte, restore, jump, snapshot>>
      BY <1>4 DEF UnApply
    <2>2. ASSUME NEW b \in Mask[p]
          PROVE  code'[b] = ORIG
      BY <2>1, MaskIsOwn DEF SavedBytesAreOriginal
    <2>3. code' \in [Byte -> Code]
      BY <2>1, <2>2 DEF TypeOK, Code, SavedBytesAreOriginal
    <2>4. ASSUME NEW q \in applied', NEW b \in Mask[q]
          PROVE  code'[b] = newByte'[q]
      <3>1. q \in Patch /\ q # p /\ q \in applied
        BY <2>1 DEF TypeOK
      <3>2. b \in Byte /\ b \notin Mask[p]
        BY <3>1, MaskIsOwn
      <3> QED
        BY <2>1, <3>1, <3>2 DEF EachByteHasItsOwner
    <2>5. ASSUME NEW b \in Byte, \A q \in applied' : b \notin Mask[q]
          PROVE  code'[b] = IF jump' /\ b <= Prologue THEN JUMP ELSE ORIG
      <3>1. CASE b \in Mask[p]
        BY <2>1, <2>2, <3>1, MaskIsOwn
      <3>2. CASE b \notin Mask[p]
        <4>1. \A q \in applied : b \notin Mask[q]
          BY <2>1, <2>5, <3>2
        <4> QED
          BY <2>1, <3>2, <4>1 DEF EachByteHasItsOwner
      <3> QED
        BY <3>1, <3>2
    <2> QED
      BY <2>1, <2>3, <2>4, <2>5, ZenonT(40)
      DEF TypeOK, EachByteHasItsOwner, SavedBytesAreOriginal, JumpIsSaved
  <1>5. CASE InstallJump
    <2>1. /\ ~jump /\ jump' = TRUE
          /\ snapshot' = IF snapshot = NoSnapshot
                         THEN [b \in 1 .. Prologue |-> code[b]] ELSE snapshot
          /\ code' = [b \in Byte |-> IF b <= Prologue THEN JUMP ELSE code[b]]
          /\ UNCHANGED <<checked, found, applied, newByte, restore>>
      BY <1>5 DEF InstallJump
    <2>2. 1 .. Prologue \subseteq Byte
      BY PatchShape DEF Byte
    <2>3. ASSUME NEW b \in 1 .. Prologue
          PROVE  code[b] = ORIG
      <3>1. b \in Byte /\ \A p \in applied : b \notin Mask[p]
        BY <2>2, NoClash DEF TypeOK
      <3> QED
        BY <2>1, <3>1 DEF EachByteHasItsOwner
    <2>4. snapshot' \in [1 .. Prologue -> Code] /\ \A b \in DOMAIN snapshot' : snapshot'[b] = ORIG
      BY <2>1, <2>3 DEF TypeOK, SavedBytesAreOriginal, Code
    <2>5. code' \in [Byte -> Code]
      BY <2>1 DEF TypeOK, Code
    <2>6. ASSUME NEW q \in applied', NEW b \in Mask[q]
          PROVE  code'[b] = newByte'[q]
      BY <2>1, MaskIsOwn DEF EachByteHasItsOwner, TypeOK
    <2>7. ASSUME NEW b \in Byte, \A q \in applied' : b \notin Mask[q]
          PROVE  code'[b] = IF jump' /\ b <= Prologue THEN JUMP ELSE ORIG
      BY <2>1, <2>7 DEF EachByteHasItsOwner
    <2> QED
      BY <2>1, <2>4, <2>5, <2>6, <2>7
      DEF TypeOK, EachByteHasItsOwner, SavedBytesAreOriginal, JumpIsSaved
  <1>6. CASE UninstallJump
    <2>1. /\ jump /\ jump' = FALSE
          /\ code' = [b \in Byte |-> IF b <= Prologue THEN snapshot[b] ELSE code[b]]
          /\ UNCHANGED <<checked, found, applied, newByte, restore, snapshot>>
      BY <1>6 DEF UninstallJump
    <2>2. ASSUME NEW b \in Byte, b <= Prologue
          PROVE  code'[b] = ORIG
      <3>1. b \in 1 .. Prologue
        BY <2>2, PatchShape DEF Byte
      <3> QED
        BY <2>1, <2>2, <3>1 DEF SavedBytesAreOriginal, JumpIsSaved
    <2>3. code' \in [Byte -> Code]
      <3>1. \A b \in Byte : b <= Prologue => snapshot[b] = ORIG
        BY <2>1, <2>2
      <3> QED
        BY <2>1, <3>1 DEF TypeOK, Code
    <2>4. ASSUME NEW q \in applied', NEW b \in Mask[q]
          PROVE  code'[b] = newByte'[q]
      BY <2>1, MaskIsOwn DEF EachByteHasItsOwner, TypeOK
    <2>5. ASSUME NEW b \in Byte, \A q \in applied' : b \notin Mask[q]
          PROVE  code'[b] = IF jump' /\ b <= Prologue THEN JUMP ELSE ORIG
      BY <2>1, <2>2, <2>5 DEF EachByteHasItsOwner
    <2> QED
      BY <2>1, <2>3, <2>4, <2>5
      DEF TypeOK, EachByteHasItsOwner, SavedBytesAreOriginal, JumpIsSaved
  <1>7. CASE ForgetFunc
    <2>1. DOMAIN NoSnapshot = {}
      BY DEF NoSnapshot
    <2> QED
      BY <1>7, <2>1
      DEF ForgetFunc, TypeOK, EachByteHasItsOwner, SavedBytesAreOriginal, JumpIsSaved
  <1> QED
    BY <1>1, <1>2, <1>3, <1>4, <1>5, <1>6, <1>7 DEF Next

\* The inductive invariant holds in every reachable state.
THEOREM Invariance == Spec => []IInv
  BY InitHolds, StepHolds, PTL DEF Spec

\* Patches and the jump come and go in any order, with any overlap of ranges, and each byte
\* always is what its owner made it: CPatch::Apply and UnApply compose.
THEOREM PatchesCompose == Spec => []EachByteHasItsOwner
  BY Invariance, PTL DEF IInv

\* m_BufRestore and m_OriginalPrologue only ever hold bytes of the game where they
\* will be written back.
THEOREM SavedBytes == Spec => []SavedBytesAreOriginal
  BY Invariance, PTL DEF IInv
=============================================================================
