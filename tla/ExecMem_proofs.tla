---------------------------- MODULE ExecMem_proofs ----------------------------
(***************************************************************************)
(* Chunks of executable memory, for any number of pages and of chunks in a *)
(* page: what callers hold is marked in mapped blocks, the two lists of    *)
(* blocks agree, and the allocator implements ChunkPool.  The asserts of   *)
(* the code and the counts of free slots depend on each other, so that the *)
(* inductive invariant is the conjunction of them all.                     *)
(***************************************************************************)
EXTENDS ExecMem, FiniteSetTheorems, TLAPS

TypeInv ==
    /\ blocks \in SUBSET Page /\ byUsage \in Seq(Page)
    /\ mask \in [Page -> SUBSET Slot]
    /\ freeSlots \in [Page -> Int]
    /\ held \in SUBSET Chunk

Inv == TypeInv /\ HeldIsMarked /\ ListsAgree

Elements(s) == {s[k] : k \in DOMAIN s}

-----------------------------------------------------------------------------
(***************************************************************************)
(* The list of blocks.                                                     *)
(***************************************************************************)

\* The stable sort of PostUpdate permutes the list.
LEMMA SortPermutes ==
    ASSUME NEW s \in Seq(Page), NEW free, NEW t \in StableSorts(s, free)
    PROVE  /\ t \in Seq(Page)
           /\ Elements(t) = Elements(s)
           /\ IsInjective(s) => IsInjective(t)
<1>1. PICK o \in Bijection(DOMAIN s, DOMAIN s) : t = [k \in DOMAIN s |-> s[o[k]]]
  BY DEF StableSorts
<1>2. /\ o \in [DOMAIN s -> DOMAIN s]
      /\ \A i, j \in DOMAIN s : o[i] = o[j] => i = j
      /\ \A j \in DOMAIN s : \E i \in DOMAIN s : o[i] = j
  BY DEF Bijection, Injection, Surjection, IsInjective
<1>3. DOMAIN t = DOMAIN s /\ \A k \in DOMAIN s : t[k] = s[o[k]] /\ t[k] \in Page
  BY <1>1, <1>2
<1>4. t \in Seq(Page)
  BY <1>1, <1>3
<1>5. Elements(t) = Elements(s)
  BY <1>2, <1>3 DEF Elements
<1>6. IsInjective(s) => IsInjective(t)
  BY <1>2, <1>3 DEF IsInjective
<1> QED
  BY <1>4, <1>5, <1>6

\* Taking a block out of the list leaves the others, each once.
LEMMA WithoutRemoves ==
    ASSUME NEW s \in Seq(Page), NEW p \in Elements(s), IsInjective(s)
    PROVE  /\ Without(s, p) \in Seq(Page)
           /\ Elements(Without(s, p)) = Elements(s) \ {p}
           /\ IsInjective(Without(s, p))
<1> DEFINE k == CHOOSE i \in DOMAIN s : s[i] = p
           w == [i \in 1 .. Len(s) - 1 |-> IF i < k THEN s[i] ELSE s[i + 1]]
<1>1. k \in DOMAIN s /\ s[k] = p
  BY DEF Elements
<1>2. Without(s, p) = w
  BY DEF Without
<1>3. Len(s) \in Nat /\ DOMAIN s = 1 .. Len(s) /\ k \in 1 .. Len(s) /\ Len(s) - 1 \in Nat
  BY <1>1
<1> HIDE DEF k
<1>4. \A i \in 1 .. Len(s) - 1 : w[i] \in Page
  BY <1>3
<1>5. w \in Seq(Page)
  BY <1>3, <1>4
<1>6. DOMAIN w = 1 .. Len(s) - 1
  OBVIOUS
<1>7. IsInjective(w)
  BY <1>3, <1>6 DEF IsInjective
<1>8. Elements(w) = Elements(s) \ {p}
  <2>1. ASSUME NEW i \in DOMAIN w PROVE w[i] \in Elements(s) \ {p}
    BY <1>1, <1>3, <1>6, <2>1 DEF Elements, IsInjective
  <2>2. ASSUME NEW j \in DOMAIN s, s[j] # p PROVE s[j] \in Elements(w)
    <3>1. CASE j < k
      <4>1. j \in DOMAIN w /\ w[j] = s[j]
        BY <1>3, <1>6, <3>1
      <4> QED
        BY <4>1 DEF Elements
    <3>2. CASE j > k
      <4>1. j - 1 \in DOMAIN w /\ w[j - 1] = s[j]
        BY <1>3, <1>6, <3>2
      <4> QED
        BY <4>1 DEF Elements
    <3> QED
      BY <1>1, <1>3, <2>2, <3>1, <3>2
  <2> QED
    BY <2>1, <2>2 DEF Elements
<1> HIDE DEF w
<1> QED
  BY <1>2, <1>5, <1>7, <1>8

\* A new block goes to the end of the list.
LEMMA AppendAdds ==
    ASSUME NEW s \in Seq(Page), NEW p \in Page \ Elements(s), IsInjective(s)
    PROVE  /\ Append(s, p) \in Seq(Page)
           /\ Elements(Append(s, p)) = Elements(s) \cup {p}
           /\ IsInjective(Append(s, p))
<1> DEFINE t == Append(s, p)
<1>1. /\ t \in Seq(Page) /\ Len(s) \in Nat /\ DOMAIN s = 1 .. Len(s)
      /\ DOMAIN t = 1 .. Len(s) + 1
      /\ \A i \in 1 .. Len(s) : t[i] = s[i]
      /\ t[Len(s) + 1] = p
  OBVIOUS
<1> HIDE DEF t
<1>2. \A i \in DOMAIN s : s[i] # p
  BY DEF Elements
<1>3. IsInjective(t)
  BY <1>1, <1>2 DEF IsInjective
<1>4. Elements(t) = Elements(s) \cup {p}
  <2>1. Elements(t) \subseteq Elements(s) \cup {p}
    BY <1>1 DEF Elements
  <2>2. Elements(s) \subseteq Elements(t)
    BY <1>1 DEF Elements
  <2>3. p \in Elements(t)
    BY <1>1 DEF Elements
  <2> QED
    BY <2>1, <2>2, <2>3
<1> QED
  BY <1>1, <1>3, <1>4 DEF t

-----------------------------------------------------------------------------
(***************************************************************************)
(* The marks of a block and their count.                                   *)
(***************************************************************************)

\* The slots of a block can be counted.
LEMMA SlotsFinite ==
    ASSUME NEW S \in SUBSET Slot
    PROVE  IsFiniteSet(S) /\ Cardinality(S) \in Nat
<1>1. IsFiniteSet(Slot)
  BY ChunksPerBlockPositive, FS_Interval DEF Slot
<1> QED
  BY <1>1, FS_Subset, FS_CardinalityType

\* HeldIsMarked without the blocks.
Marked ==
    \A p \in Page : /\ mask[p] = {i \in Slot : <<p, i>> \in held}
                    /\ freeSlots[p] = ChunksPerBlock - Cardinality(mask[p])

\* Taking a slot that is free marks it, counts it and gives it to the caller.
LEMMA TakeMarks ==
    ASSUME Inv, NEW p \in Page, TakeSlot(p, mask[p], freeSlots[p])
    PROVE  /\ mask' \in [Page -> SUBSET Slot] /\ freeSlots' \in [Page -> Int]
           /\ held' \in SUBSET Chunk /\ Marked'
           /\ \E i \in Slot : <<p, i>> \notin held /\ held' = held \cup {<<p, i>>}
<1>1. PICK i \in Slot \ mask[p] :
        /\ mask' = [mask EXCEPT ![p] = mask[p] \cup {i}]
        /\ freeSlots' = [freeSlots EXCEPT ![p] = freeSlots[p] - 1]
        /\ held' = held \cup {<<p, i>>}
  BY DEF TakeSlot
<1>2. TypeInv /\ Marked
  BY DEF Inv, HeldIsMarked, Marked
<1>3. mask' \in [Page -> SUBSET Slot] /\ freeSlots' \in [Page -> Int]
  BY <1>1, <1>2 DEF TypeInv
<1>4. <<p, i>> \in Chunk /\ <<p, i>> \notin held
  BY <1>1, <1>2 DEF Chunk, Marked
<1>5. Cardinality(mask[p] \cup {i}) = Cardinality(mask[p]) + 1 /\ Cardinality(mask[p]) \in Nat
  BY <1>1, <1>2, SlotsFinite, FS_AddElement DEF TypeInv
<1>6. ASSUME NEW q \in Page
      PROVE  /\ mask'[q] = {j \in Slot : <<q, j>> \in held'}
             /\ freeSlots'[q] = ChunksPerBlock - Cardinality(mask'[q])
  <2>1. CASE q = p
    <3>1. mask'[q] = mask[p] \cup {i} /\ freeSlots'[q] = freeSlots[p] - 1
      BY <1>1, <1>2, <2>1 DEF TypeInv
    <3>2. mask[p] = {j \in Slot : <<p, j>> \in held}
          /\ freeSlots[p] = ChunksPerBlock - Cardinality(mask[p])
      BY <1>2 DEF Marked
    <3>3. mask'[q] = {j \in Slot : <<q, j>> \in held'}
      BY <1>1, <2>1, <3>1, <3>2
    <3> QED
      BY <1>5, <3>1, <3>2, <3>3, ChunksPerBlockPositive
  <2>2. CASE q # p
    <3>1. mask'[q] = mask[q] /\ freeSlots'[q] = freeSlots[q]
      BY <1>1, <1>2, <2>2 DEF TypeInv
    <3>2. {j \in Slot : <<q, j>> \in held'} = {j \in Slot : <<q, j>> \in held}
      BY <1>1, <2>2
    <3> QED
      BY <1>2, <3>1, <3>2 DEF Marked
  <2> QED
    BY <2>1, <2>2
<1> QED
  BY <1>1, <1>2, <1>3, <1>4, <1>6 DEF TypeInv, Marked

\* Freeing a chunk unmarks it; the count says whether its block is now empty.
LEMMA FreeUnmarks ==
    ASSUME Inv, NEW c \in Chunk, Free(c)
    PROVE  /\ mask' \in [Page -> SUBSET Slot] /\ freeSlots' \in [Page -> Int]
           /\ held' \in SUBSET Chunk /\ Marked'
           /\ c[1] \in Page /\ (Empties(c[1]) => mask'[c[1]] = {})
<1> DEFINE p == c[1]
           i == c[2]
<1>1. p \in Page /\ i \in Slot /\ c = <<p, i>>
  BY DEF Chunk
<1>2. TypeInv /\ Marked
  BY DEF Inv, HeldIsMarked, Marked
<1>3. /\ c \in held /\ held' = held \ {c}
      /\ mask' = [mask EXCEPT ![p] = mask[p] \ {i}]
      /\ freeSlots' = [freeSlots EXCEPT ![p] = freeSlots[p] + 1]
  BY DEF Free
<1>4. mask' \in [Page -> SUBSET Slot] /\ freeSlots' \in [Page -> Int] /\ held' \in SUBSET Chunk
  BY <1>1, <1>2, <1>3 DEF TypeInv
<1>5. i \in mask[p] /\ mask[p] \in SUBSET Slot
  BY <1>1, <1>2, <1>3 DEF Marked, TypeInv
<1>6. /\ Cardinality(mask[p] \ {i}) = Cardinality(mask[p]) - 1
      /\ Cardinality(mask[p]) \in Nat
      /\ IsFiniteSet(mask[p] \ {i})
  BY <1>5, SlotsFinite, FS_RemoveElement
<1>7. freeSlots[p] = ChunksPerBlock - Cardinality(mask[p])
      /\ mask[p] = {j \in Slot : <<p, j>> \in held}
  BY <1>1, <1>2 DEF Marked
<1>8. mask'[p] = mask[p] \ {i} /\ freeSlots'[p] = freeSlots[p] + 1
  BY <1>1, <1>2, <1>3 DEF TypeInv
<1>9. Empties(p) => mask'[p] = {}
  <2>1. ASSUME Empties(p) PROVE Cardinality(mask[p] \ {i}) = 0
    BY <1>6, <1>7, <2>1, ChunksPerBlockPositive DEF Empties
  <2> QED
    BY <1>6, <1>8, <2>1, FS_EmptySet
<1>10. ASSUME NEW q \in Page
      PROVE  /\ mask'[q] = {j \in Slot : <<q, j>> \in held'}
             /\ freeSlots'[q] = ChunksPerBlock - Cardinality(mask'[q])
  <2>1. CASE q = p
    <3>1. mask'[q] = {j \in Slot : <<q, j>> \in held'}
      BY <1>1, <1>3, <1>7, <1>8, <2>1
    <3>2. Cardinality(mask'[q]) = Cardinality(mask[p]) - 1
      BY <1>6, <1>8, <2>1
    <3>3. freeSlots'[q] = freeSlots[p] + 1
      BY <1>8, <2>1
    <3>4. ASSUME NEW n \in Nat, NEW m, m = ChunksPerBlock - n
          PROVE  m + 1 = ChunksPerBlock - (n - 1)
      BY <3>4, ChunksPerBlockPositive
    <3>5. freeSlots[p] + 1 = ChunksPerBlock - (Cardinality(mask[p]) - 1)
      BY <1>6, <1>7, <3>4
    <3> QED
      BY <3>1, <3>2, <3>3, <3>5
  <2>2. CASE q # p
    <3>1. mask'[q] = mask[q] /\ freeSlots'[q] = freeSlots[q]
      BY <1>2, <1>3, <2>2 DEF TypeInv
    <3>2. {j \in Slot : <<q, j>> \in held'} = {j \in Slot : <<q, j>> \in held}
      BY <1>1, <1>3, <2>2
    <3> QED
      BY <1>2, <3>1, <3>2 DEF Marked
  <2> QED
    BY <2>1, <2>2
<1> HIDE DEF p, i
<1> QED
  BY <1>1, <1>4, <1>9, <1>10 DEF Marked, p

-----------------------------------------------------------------------------
(***************************************************************************)
(* The inductive invariant.                                                *)
(***************************************************************************)

LEMMA AllocInBlockKeeps ==
    ASSUME Inv, AllocInBlock
    PROVE  Inv' /\ \E c \in Chunk : c \notin held /\ held' = held \cup {c}
<1>1. PICK k \in DOMAIN byUsage :
        /\ TakeSlot(byUsage[k], mask[byUsage[k]], freeSlots[byUsage[k]])
        /\ PostUpdate(byUsage)
        /\ UNCHANGED blocks
  BY DEF AllocInBlock
<1> DEFINE p == byUsage[k]
<1>2. byUsage \in Seq(Page) /\ IsInjective(byUsage) /\ blocks = Elements(byUsage)
      /\ blocks \in SUBSET Page
  BY DEF Inv, TypeInv, ListsAgree, Elements
<1>3. p \in Page /\ p \in blocks
  BY <1>2 DEF Elements
<1>4. /\ mask' \in [Page -> SUBSET Slot] /\ freeSlots' \in [Page -> Int]
      /\ held' \in SUBSET Chunk /\ Marked'
      /\ \E i \in Slot : <<p, i>> \notin held /\ held' = held \cup {<<p, i>>}
  BY <1>1, <1>3, TakeMarks
<1>5. byUsage' \in Seq(Page) /\ Elements(byUsage') = Elements(byUsage) /\ IsInjective(byUsage')
  BY <1>1, <1>2, SortPermutes DEF PostUpdate
<1>6. TypeInv'
  BY <1>1, <1>2, <1>4, <1>5 DEF TypeInv
<1>7. ListsAgree'
  BY <1>1, <1>2, <1>5 DEF ListsAgree, Elements
<1>8. \A c \in held' : c[1] \in blocks'
  BY <1>1, <1>3, <1>4 DEF Inv, HeldIsMarked
<1>9. \E c \in Chunk : c \notin held /\ held' = held \cup {c}
  BY <1>3, <1>4 DEF Chunk
<1> QED
  BY <1>4, <1>6, <1>7, <1>8, <1>9 DEF Inv, HeldIsMarked, Marked

LEMMA AllocNewBlockKeeps ==
    ASSUME Inv, AllocNewBlock
    PROVE  Inv' /\ \E c \in Chunk : c \notin held /\ held' = held \cup {c}
<1>1. PICK p \in Page \ blocks :
        /\ TakeSlot(p, {}, ChunksPerBlock)
        /\ blocks' = blocks \cup {p}
        /\ PostUpdate(Append(byUsage, p))
  BY DEF AllocNewBlock
<1>2. byUsage \in Seq(Page) /\ IsInjective(byUsage) /\ blocks = Elements(byUsage)
      /\ blocks \in SUBSET Page
  BY DEF Inv, TypeInv, ListsAgree, Elements
<1>3. mask[p] = {} /\ freeSlots[p] = ChunksPerBlock
  <2>1. mask[p] = {}
    BY <1>1 DEF Inv, HeldIsMarked
  <2> QED
    BY <1>1, <2>1, FS_EmptySet, ChunksPerBlockPositive DEF Inv, HeldIsMarked
<1>4. /\ mask' \in [Page -> SUBSET Slot] /\ freeSlots' \in [Page -> Int]
      /\ held' \in SUBSET Chunk /\ Marked'
      /\ \E i \in Slot : <<p, i>> \notin held /\ held' = held \cup {<<p, i>>}
  BY <1>1, <1>3, TakeMarks
<1> DEFINE longer == Append(byUsage, p)
<1>5. /\ longer \in Seq(Page) /\ IsInjective(longer)
      /\ Elements(longer) = Elements(byUsage) \cup {p}
  BY <1>1, <1>2, AppendAdds
<1> HIDE DEF longer
<1>6. byUsage' \in Seq(Page) /\ Elements(byUsage') = Elements(longer) /\ IsInjective(byUsage')
  BY <1>1, <1>5, SortPermutes DEF PostUpdate, longer
<1>7. TypeInv'
  BY <1>1, <1>2, <1>4, <1>6 DEF TypeInv
<1>8. ListsAgree'
  BY <1>1, <1>2, <1>5, <1>6 DEF ListsAgree, Elements
<1>9. \A c \in held' : c[1] \in blocks'
  BY <1>1, <1>4 DEF Inv, HeldIsMarked
<1>10. \E c \in Chunk : c \notin held /\ held' = held \cup {c}
  BY <1>4 DEF Chunk
<1> QED
  BY <1>4, <1>7, <1>8, <1>9, <1>10 DEF Inv, HeldIsMarked, Marked

LEMMA FreeKeeps ==
    ASSUME Inv, NEW c \in Chunk, Free(c)
    PROVE  Inv' /\ c \in held /\ held' = held \ {c}
<1> DEFINE p == c[1]
<1>1. c \in held /\ held' = held \ {c}
  BY DEF Free
<1>2. byUsage \in Seq(Page) /\ IsInjective(byUsage) /\ blocks = Elements(byUsage)
      /\ blocks \in SUBSET Page /\ p \in blocks
  BY <1>1 DEF Inv, TypeInv, ListsAgree, Elements, HeldIsMarked
<1>3. /\ mask' \in [Page -> SUBSET Slot] /\ freeSlots' \in [Page -> Int]
      /\ held' \in SUBSET Chunk /\ Marked'
      /\ (Empties(p) => mask'[p] = {})
  BY FreeUnmarks
<1>4. CASE Empties(p)
  <2> DEFINE shorter == Without(byUsage, p)
  <2>1. blocks' = blocks \ {p} /\ PostUpdate(shorter)
    BY <1>4 DEF Free
  <2>2. /\ shorter \in Seq(Page) /\ IsInjective(shorter)
        /\ Elements(shorter) = Elements(byUsage) \ {p}
    BY <1>2, WithoutRemoves
  <2> HIDE DEF shorter
  <2>3. byUsage' \in Seq(Page) /\ Elements(byUsage') = Elements(shorter) /\ IsInjective(byUsage')
    BY <2>1, <2>2, SortPermutes DEF PostUpdate
  <2>4. TypeInv' /\ ListsAgree'
    BY <1>2, <1>3, <2>1, <2>2, <2>3 DEF TypeInv, ListsAgree, Elements
  <2>5. \A d \in held' : d[1] \in blocks'
    <3> SUFFICES ASSUME NEW d \in held' PROVE d[1] \in blocks /\ d[1] # p
      BY <2>1
    <3>1. d \in held /\ d \in Chunk
      BY <1>1 DEF Inv, TypeInv
    <3>2. d[1] \in blocks
      BY <3>1 DEF Inv, HeldIsMarked
    <3>3. d[1] \in Page /\ d[2] \in Slot /\ d = <<d[1], d[2]>>
      BY <3>1 DEF Chunk
    <3>4. d[2] \in mask'[d[1]]
      BY <1>3, <3>3 DEF Marked
    <3> QED
      BY <1>3, <1>4, <3>2, <3>4
  <2> QED
    BY <1>1, <1>3, <2>4, <2>5 DEF Inv, HeldIsMarked, Marked
<1>5. CASE ~Empties(p)
  <2>1. UNCHANGED blocks /\ PostUpdate(byUsage)
    BY <1>5 DEF Free
  <2>2. byUsage' \in Seq(Page) /\ Elements(byUsage') = Elements(byUsage) /\ IsInjective(byUsage')
    BY <1>2, <2>1, SortPermutes DEF PostUpdate
  <2>3. TypeInv' /\ ListsAgree'
    BY <1>2, <1>3, <2>1, <2>2 DEF TypeInv, ListsAgree, Elements
  <2>4. \A d \in held' : d[1] \in blocks'
    BY <1>1, <2>1 DEF Inv, HeldIsMarked
  <2> QED
    BY <1>1, <1>3, <2>3, <2>4 DEF Inv, HeldIsMarked, Marked
<1> QED
  BY <1>4, <1>5

LEMMA InitKeeps == Init => Inv
<1> SUFFICES ASSUME Init PROVE Inv
  OBVIOUS
<1>1. TypeInv
  BY ChunksPerBlockPositive DEF Init, TypeInv
<1>2. HeldIsMarked
  BY FS_EmptySet, ChunksPerBlockPositive DEF Init, HeldIsMarked
<1>3. ListsAgree
  BY DEF Init, ListsAgree, IsInjective
<1> QED
  BY <1>1, <1>2, <1>3 DEF Inv

\* The invariant of the allocator, whatever is requested and freed in whatever order,
\* for any number of pages and chunks.
THEOREM Invariance == Spec => []Inv
<1>1. Inv /\ [Next]_vars => Inv'
  <2> SUFFICES ASSUME Inv, [Next]_vars PROVE Inv'
    OBVIOUS
  <2>1. CASE AllocInBlock
    BY <2>1, AllocInBlockKeeps
  <2>2. CASE AllocNewBlock
    BY <2>2, AllocNewBlockKeeps
  <2>3. ASSUME NEW c \in Chunk, Free(c) PROVE Inv'
    BY <2>3, FreeKeeps
  <2>4. CASE UNCHANGED vars
    BY <2>4 DEF vars, Inv, TypeInv, HeldIsMarked, ListsAgree
  <2> QED
    BY <2>1, <2>2, <2>3, <2>4 DEF Next
<1> QED
  BY <1>1, InitKeeps, PTL DEF Spec

\* The asserts of Free, Block::Free and Block::Alloc hold: what is held is marked in a
\* mapped block, and the free slots are counted.
THEOREM MarksAreExact == Spec => []HeldIsMarked
<1>1. Inv => HeldIsMarked
  BY DEF Inv
<1> QED
  BY <1>1, Invariance, PTL

\* The assert of PostUpdate: m_Blocks and m_BlocksByUsage hold the same blocks, once.
THEOREM BothListsAgree == Spec => []ListsAgree
<1>1. Inv => ListsAgree
  BY DEF Inv
<1> QED
  BY <1>1, Invariance, PTL

-----------------------------------------------------------------------------
(***************************************************************************)
(* The refinement.                                                         *)
(***************************************************************************)

Used == {c \in Chunk : c[2] \in mask[c[1]]}

\* The slots marked as taken are the chunks that callers hold.
LEMMA UsedIsHeld == Inv => Used = held
<1> SUFFICES ASSUME Inv PROVE Used = held
  OBVIOUS
<1>1. ASSUME NEW c \in Chunk PROVE c[2] \in mask[c[1]] <=> c \in held
  <2>1. c[1] \in Page /\ c[2] \in Slot /\ c = <<c[1], c[2]>>
    BY DEF Chunk
  <2>2. mask[c[1]] = {i \in Slot : <<c[1], i>> \in held}
    BY <2>1 DEF Inv, HeldIsMarked
  <2> QED
    BY <2>1, <2>2
<1>2. held \in SUBSET Chunk
  BY DEF Inv, TypeInv
<1> QED
  BY <1>1, <1>2 DEF Used

\* The allocator implements ChunkPool: a chunk that is handed out was free and a chunk
\* that is given back was taken, however blocks are mapped, sorted and unmapped.
THEOREM IsPool == Spec => IsChunkPool
<1>1. Init => Pool!Init
  BY DEF Init, Pool!Init, Chunk
<1>2. Inv /\ Inv' /\ [Next]_vars => [Pool!Next]_Used
  <2> SUFFICES ASSUME Inv, Inv', [Next]_vars PROVE [Pool!Next]_Used
    OBVIOUS
  <2>1. Used = held /\ Used' = held'
    <3>1. (Inv => Used = held)'
      BY UsedIsHeld, PTL
    <3> QED
      BY <3>1, UsedIsHeld
  <2>2. ASSUME NEW c \in Chunk, c \notin held, held' = held \cup {c} PROVE Pool!Next
    BY <2>1, <2>2 DEF Pool!Next, Pool!Take, Used
  <2>3. ASSUME NEW c \in Chunk, c \in held, held' = held \ {c} PROVE Pool!Next
    BY <2>1, <2>3 DEF Pool!Next, Pool!Give, Used
  <2>4. CASE AllocInBlock
    BY <2>2, <2>4, AllocInBlockKeeps
  <2>5. CASE AllocNewBlock
    BY <2>2, <2>5, AllocNewBlockKeeps
  <2>6. ASSUME NEW c \in Chunk, Free(c) PROVE Pool!Next
    BY <2>3, <2>6, FreeKeeps
  <2>7. CASE UNCHANGED vars
    BY <2>1, <2>7 DEF vars
  <2> QED
    BY <2>4, <2>5, <2>6, <2>7 DEF Next
<1> QED
  BY <1>1, <1>2, Invariance, PTL DEF Spec, IsChunkPool, Pool!Spec, Used
-----------------------------------------------------------------------------
(***************************************************************************)
(* The counts of CExecMemManager.                                          *)
(***************************************************************************)

LeakInv == IsFiniteSet(held) /\ LeakCheck

\* A chunk is counted when it is handed out, and its block is not empty then.
LEMMA TakeCounts ==
    ASSUME Inv, LeakInv, NEW p \in Page, NEW taken \in SUBSET Slot, NEW n,
           taken = mask[p], TakeSlot(p, taken, n), blocks' \subseteq blocks \cup {p},
           nAllocs' = nAllocs + 1
    PROVE  LeakInv'
<1>1. PICK i \in Slot \ mask[p] : /\ mask' = [mask EXCEPT ![p] = mask[p] \cup {i}]
                                  /\ held' = held \cup {<<p, i>>}
  BY DEF TakeSlot
<1>2. <<p, i>> \notin held /\ mask \in [Page -> SUBSET Slot] /\ blocks \subseteq Page
  BY <1>1 DEF Inv, TypeInv, HeldIsMarked
<1>3. IsFiniteSet(held') /\ Cardinality(held') = Cardinality(held) + 1
  BY <1>1, <1>2, FS_AddElement DEF LeakInv
<1>4. \A q \in blocks' : mask'[q] # {}
  BY <1>1, <1>2 DEF LeakInv, LeakCheck
<1> QED
  BY <1>3, <1>4 DEF LeakInv, LeakCheck

\* A block that stays mapped still has a chunk in use.
LEMMA FreeCounts ==
    ASSUME Inv, LeakInv, NEW c \in Chunk, Free(c)
    PROVE  LeakInv'
<1> DEFINE p == c[1]
           i == c[2]
<1>1. p \in Page /\ i \in Slot /\ c = <<p, i>>
  BY DEF Chunk
<1>2. /\ c \in held /\ held' = held \ {c} /\ nAllocs' = nAllocs - 1
      /\ mask' = [mask EXCEPT ![p] = mask[p] \ {i}]
      /\ blocks' = IF Empties(p) THEN blocks \ {p} ELSE blocks
  BY DEF Free
<1>3. IsFiniteSet(held') /\ Cardinality(held') = Cardinality(held) - 1
  BY <1>2, FS_RemoveElement DEF LeakInv
<1>4. mask[p] \in SUBSET Slot /\ i \in mask[p] /\ mask \in [Page -> SUBSET Slot] /\ blocks \subseteq Page
  BY <1>1, <1>2 DEF Inv, TypeInv, HeldIsMarked
<1>5. ~Empties(p) => mask[p] \ {i} # {}
  <2>1. /\ freeSlots[p] = ChunksPerBlock - Cardinality(mask[p])
        /\ Cardinality(mask[p]) \in Nat
        /\ Cardinality(mask[p] \ {i}) = Cardinality(mask[p]) - 1
    BY <1>1, <1>4, SlotsFinite, FS_RemoveElement DEF Inv, HeldIsMarked
  <2>2. ASSUME ~Empties(p)
        PROVE  Cardinality(mask[p]) # 1
    <3>1. freeSlots[p] + 1 # ChunksPerBlock
      BY <2>2 DEF Empties
    <3> QED
      BY <2>1, <3>1, ChunksPerBlockPositive
  <2>3. ASSUME ~Empties(p)
        PROVE  Cardinality(mask[p] \ {i}) # 0
    BY <2>1, <2>2, <2>3
  <2> QED
    BY <2>3, FS_EmptySet
<1>6. \A q \in blocks' : mask'[q] # {}
  BY <1>1, <1>2, <1>4, <1>5 DEF LeakInv, LeakCheck
<1> QED
  BY <1>2, <1>3, <1>6 DEF LeakInv, LeakCheck

\* The leak checks agree with what was handed out and given back: no mapped block is
\* empty, and m_nAllocsTrampoline (or m_nAllocsWrapper) is the number of chunks held.
THEOREM LeaksAreSeen == Spec => []LeakCheck
<1>1. Init => LeakInv
  BY FS_EmptySet DEF Init, LeakInv, LeakCheck
<1>2. Inv /\ LeakInv /\ [Next]_vars => LeakInv'
  <2> SUFFICES ASSUME Inv, LeakInv, [Next]_vars PROVE LeakInv'
    OBVIOUS
  <2>1. CASE AllocInBlock
    <3>1. PICK k \in DOMAIN byUsage :
            /\ TakeSlot(byUsage[k], mask[byUsage[k]], freeSlots[byUsage[k]])
            /\ nAllocs' = nAllocs + 1 /\ UNCHANGED blocks
      BY <2>1 DEF AllocInBlock
    <3>2. byUsage[k] \in Page /\ mask[byUsage[k]] \in SUBSET Slot
      BY DEF Inv, TypeInv, ListsAgree
    <3> QED
      BY <3>1, <3>2, TakeCounts
  <2>2. CASE AllocNewBlock
    <3>1. PICK p \in Page \ blocks : /\ TakeSlot(p, {}, ChunksPerBlock)
                                     /\ blocks' = blocks \cup {p} /\ nAllocs' = nAllocs + 1
      BY <2>2 DEF AllocNewBlock
    <3>2. mask[p] = {}
      BY <3>1 DEF Inv, HeldIsMarked
    <3> QED
      BY <3>1, <3>2, TakeCounts
  <2>3. ASSUME NEW c \in Chunk, Free(c) PROVE LeakInv'
    BY <2>3, FreeCounts
  <2>4. CASE UNCHANGED vars
    BY <2>4 DEF vars, LeakInv, LeakCheck
  <2> QED
    BY <2>1, <2>2, <2>3, <2>4 DEF Next
<1>3. LeakInv => LeakCheck
  BY DEF LeakInv
<1> QED
  BY <1>1, <1>2, <1>3, Invariance, PTL DEF Spec

-----------------------------------------------------------------------------
(***************************************************************************)
(* The order of the blocks.                                                *)
(***************************************************************************)

FullestFirst == \A i, j \in DOMAIN byUsage : i < j => freeSlots[byUsage[i]] <= freeSlots[byUsage[j]]

\* Whatever PostUpdate is given, it leaves the fullest block in front.
LEMMA SortSorts ==
    ASSUME NEW s \in Seq(Page), PostUpdate(s), freeSlots' \in [Page -> Int]
    PROVE  FullestFirst'
<1>1. PICK o \in Bijection(DOMAIN s, DOMAIN s) :
        /\ byUsage' = [k \in DOMAIN s |-> s[o[k]]]
        /\ \A i, j \in DOMAIN s : i < j =>
             \/ freeSlots'[s[o[i]]] < freeSlots'[s[o[j]]]
             \/ freeSlots'[s[o[i]]] = freeSlots'[s[o[j]]] /\ o[i] < o[j]
  BY DEF PostUpdate, StableSorts
<1>2. \A k \in DOMAIN s : o[k] \in DOMAIN s
  BY DEF Bijection, Injection
<1>3. \A k \in DOMAIN s : freeSlots'[s[o[k]]] \in Int
  <2>1. \A k \in DOMAIN s : s[k] \in Page
    OBVIOUS
  <2> QED
    BY <1>2, <2>1
<1> QED
  BY <1>1, <1>3 DEF FullestFirst

LEMMA NextSorts == Inv /\ Inv' /\ FullestFirst /\ [Next]_vars => FullestFirst'
<1> SUFFICES ASSUME Inv, Inv', FullestFirst, [Next]_vars
             PROVE  FullestFirst'
  OBVIOUS
<1>1. freeSlots' \in [Page -> Int] /\ byUsage \in Seq(Page)
  BY DEF Inv, TypeInv
<1>2. CASE AllocInBlock
  BY <1>1, <1>2, SortSorts DEF AllocInBlock
<1>3. CASE AllocNewBlock
  <2>1. PICK p \in Page : PostUpdate(Append(byUsage, p))
    BY <1>3 DEF AllocNewBlock
  <2>2. Append(byUsage, p) \in Seq(Page)
    BY <1>1
  <2> QED
    BY <1>1, <2>1, <2>2, SortSorts
<1>4. ASSUME NEW c \in Chunk, Free(c)
      PROVE  FullestFirst'
  <2>1. CASE Empties(c[1])
    <3>1. c[1] \in Elements(byUsage)
      BY <1>4 DEF Free, Inv, HeldIsMarked, ListsAgree, Elements
    <3>2. Without(byUsage, c[1]) \in Seq(Page)
      BY <1>1, <3>1, WithoutRemoves DEF Inv, ListsAgree
    <3> QED
      BY <1>1, <1>4, <2>1, <3>2, SortSorts DEF Free
  <2>2. CASE ~Empties(c[1])
    BY <1>1, <1>4, <2>2, SortSorts DEF Free
  <2> QED
    BY <2>1, <2>2
<1>5. CASE UNCHANGED vars
  BY <1>5 DEF vars, FullestFirst
<1> QED
  BY <1>2, <1>3, <1>4, <1>5 DEF Next

\* A block without free slots has them all taken.
LEMMA FullIsTaken ==
    ASSUME Inv, NEW p \in Page
    PROVE  /\ Cardinality(mask[p]) \in Nat
           /\ freeSlots[p] = ChunksPerBlock - Cardinality(mask[p])
           /\ freeSlots[p] = 0 => mask[p] = Slot
<1>1. mask[p] \in SUBSET Slot /\ freeSlots[p] = ChunksPerBlock - Cardinality(mask[p])
  BY DEF Inv, TypeInv, HeldIsMarked
<1>2. IsFiniteSet(Slot) /\ Cardinality(Slot) = ChunksPerBlock
  BY FS_Interval, ChunksPerBlockPositive DEF Slot
<1>3. Cardinality(mask[p]) \in Nat
  BY <1>1, SlotsFinite
<1>4. ASSUME freeSlots[p] = 0
      PROVE  mask[p] = Slot
  <2>1. Cardinality(mask[p]) = Cardinality(Slot)
    BY <1>1, <1>2, <1>3, <1>4, ChunksPerBlockPositive
  <2> QED
    BY <1>1, <1>2, <2>1, FS_Subset
<1> QED
  BY <1>1, <1>3, <1>4

\* No page is mapped while there is room, and room is looked for in the fullest blocks.
THEOREM PagesAreSpared == Spec => MapsOnlyWhenFull
<1> DEFINE Spares == \A c \in held' \ held :
             IF c[1] \in blocks
             THEN \A p \in blocks : mask[p] = Slot
                    \/ Cardinality(mask[p]) <= Cardinality(mask[c[1]])
             ELSE \A p \in blocks : mask[p] = Slot
<1>1. Init => FullestFirst
  BY DEF Init, FullestFirst
<1>2. Inv /\ FullestFirst /\ [Next]_vars => [Spares]_vars
  <2> SUFFICES ASSUME Inv, FullestFirst, Next PROVE Spares
    OBVIOUS
  <2>1. /\ blocks \subseteq Page /\ DOMAIN byUsage = 1 .. Len(byUsage) /\ Len(byUsage) \in Nat
        /\ \A p \in blocks : \E k \in DOMAIN byUsage : byUsage[k] = p
        /\ \A k \in DOMAIN byUsage : byUsage[k] \in blocks
    BY DEF Inv, TypeInv, ListsAgree
  <2>2. CASE AllocInBlock
    <3>1. PICK k \in DOMAIN byUsage :
            /\ \A i \in 1 .. k - 1 : freeSlots[byUsage[i]] = 0
            /\ TakeSlot(byUsage[k], mask[byUsage[k]], freeSlots[byUsage[k]])
      BY <2>2 DEF AllocInBlock
    <3>2. \A c \in held' \ held : c[1] = byUsage[k]
      BY <3>1 DEF TakeSlot
    <3>3. ASSUME NEW p \in blocks
          PROVE  mask[p] = Slot \/ Cardinality(mask[p]) <= Cardinality(mask[byUsage[k]])
      <4>1. PICK i \in DOMAIN byUsage : byUsage[i] = p
        BY <2>1
      <4>2. CASE i < k
        <5>1. freeSlots[p] = 0
          BY <2>1, <3>1, <4>1, <4>2
        <5> QED
          BY <2>1, <5>1, FullIsTaken
      <4>3. CASE k <= i
        <5>1. /\ freeSlots[p] = ChunksPerBlock - Cardinality(mask[p])
              /\ freeSlots[byUsage[k]] = ChunksPerBlock - Cardinality(mask[byUsage[k]])
              /\ Cardinality(mask[p]) \in Nat /\ Cardinality(mask[byUsage[k]]) \in Nat
          BY <2>1, FullIsTaken
        <5>2. freeSlots[byUsage[k]] <= freeSlots[p]
          BY <2>1, <4>1, <4>3, <5>1, ChunksPerBlockPositive DEF FullestFirst
        <5> QED
          BY <5>1, <5>2, ChunksPerBlockPositive
      <4> QED
        BY <2>1, <4>2, <4>3
    <3> QED
      BY <2>1, <3>1, <3>2, <3>3
  <2>3. CASE AllocNewBlock
    <3>1. PICK q \in Page \ blocks : TakeSlot(q, {}, ChunksPerBlock)
      BY <2>3 DEF AllocNewBlock
    <3>2. \A c \in held' \ held : c[1] = q
      BY <3>1 DEF TakeSlot
    <3>3. \A p \in blocks : mask[p] = Slot
      BY <2>1, <2>3, FullIsTaken DEF AllocNewBlock
    <3> QED
      BY <3>1, <3>2, <3>3
  <2>4. ASSUME NEW c \in Chunk, Free(c) PROVE Spares
    BY <2>4 DEF Free
  <2> QED
    BY <2>2, <2>3, <2>4 DEF Next
<1> QED
  BY <1>1, <1>2, NextSorts, Invariance, PTL DEF Spec, MapsOnlyWhenFull

=============================================================================
