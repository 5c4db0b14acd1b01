------------------------------- MODULE ExecMem -------------------------------
(***************************************************************************)
(* One ExecMemBlockAllocator of src/mem/alloc.cpp together with the count  *)
(* CExecMemManager keeps for it: the one of the trampolines, or the one of *)
(* the wrappers.  Blocks are pages mapped on demand and unmapped when all  *)
(* their chunks are free; a chunk is named by its page and its index.      *)
(***************************************************************************)
EXTENDS Integers, Sequences, FiniteSets, Functions

CONSTANTS
    Page,           \* base addresses mmap can return
    ChunksPerBlock  \* CHUNKS_PER_BLOCK

ASSUME ChunksPerBlockPositive == ChunksPerBlock \in Nat \ {0}

Slot  == 0 .. ChunksPerBlock - 1
Chunk == Page \X Slot

VARIABLES
    blocks,     \* m_Blocks
    byUsage,    \* m_BlocksByUsage
    mask,       \* m_AllocMask of each mapped block: the slots that are taken
    freeSlots,  \* m_FreeSlots of each mapped block
    nAllocs,    \* m_nAllocsTrampoline or m_nAllocsWrapper
    held        \* the chunks the callers have been given and not freed

vars == <<blocks, byUsage, mask, freeSlots, nAllocs, held>>

Init ==
    /\ blocks = {} /\ byUsage = <<>>
    /\ mask = [p \in Page |-> {}]
    /\ freeSlots = [p \in Page |-> ChunksPerBlock]
    /\ nAllocs = 0 /\ held = {}

-----------------------------------------------------------------------------

\* The stable_sort of PostUpdate: by the number of free slots, the fullest first.
\* (The set has one element; an order is a permutation of the positions.)
StableSorts(s, free) ==
    { [k \in DOMAIN s |-> s[perm[k]]] : perm \in
        { o \in Bijection(DOMAIN s, DOMAIN s) : \A i, j \in DOMAIN s : i < j =>
            \/ free[s[o[i]]] < free[s[o[j]]]
            \/ free[s[o[i]]] = free[s[o[j]]] /\ o[i] < o[j] } }

\* PostUpdate over the list s with the free slots of this step.
PostUpdateUnsorted(s) == byUsage' = s    \* mutant: no sort
PostUpdate(s) == byUsage' \in StableSorts(s, freeSlots')

\* Block::Alloc on p: the lowest slot that is not taken.
TakeSlot(p, taken, n) ==
    \E i \in Slot \ taken :
      /\ \A j \in Slot \ taken : i <= j
      /\ mask' = [mask EXCEPT ![p] = taken \cup {i}]
      /\ freeSlots' = [freeSlots EXCEPT ![p] = n - 1]
      /\ held' = held \cup {<<p, i>>}

\* Alloc finds room: in the first block of the list that is not full.
AllocInBlock ==
    \E k \in DOMAIN byUsage :
      /\ freeSlots[byUsage[k]] > 0
      /\ \A i \in 1 .. k - 1 : freeSlots[byUsage[i]] = 0
      /\ TakeSlot(byUsage[k], mask[byUsage[k]], freeSlots[byUsage[k]])
      /\ PostUpdate(byUsage)
      /\ nAllocs' = nAllocs + 1
      /\ UNCHANGED blocks

\* Alloc finds all blocks full, and maps a new one.
AllocNewBlock ==
    /\ \A k \in DOMAIN byUsage : freeSlots[byUsage[k]] = 0
    /\ \E p \in Page \ blocks :
         /\ TakeSlot(p, {}, ChunksPerBlock)
         /\ blocks' = blocks \cup {p}
         /\ PostUpdate(Append(byUsage, p))
    /\ nAllocs' = nAllocs + 1

\* The first entry of p leaves the list.
WithoutNothing(s, p) == s                \* mutant: it stays
Without(s, p) ==
    LET k == CHOOSE i \in DOMAIN s : s[i] = p
    IN  [i \in 1 .. Len(s) - 1 |-> IF i < k THEN s[i] ELSE s[i + 1]]

\* No slot of p is taken once one more is freed.
EmptiesEarly(p) == freeSlots[p] + 2 >= ChunksPerBlock    \* mutant: off by one
EmptiesNever(p) == FALSE                                 \* mutant: blocks stay mapped
Empties(p) == freeSlots[p] + 1 = ChunksPerBlock

\* FreeTrampoline or FreeWrapper: Free clears the slot and unmaps a block that has
\* become free as a whole.
Free(c) ==
    LET p == c[1] IN
    /\ c \in held
    /\ held' = held \ {c}
    /\ nAllocs' = nAllocs - 1
    /\ mask' = [mask EXCEPT ![p] = @ \ {c[2]}]
    /\ freeSlots' = [freeSlots EXCEPT ![p] = @ + 1]
    /\ IF Empties(p)
       THEN blocks' = blocks \ {p} /\ PostUpdate(Without(byUsage, p))
       ELSE UNCHANGED blocks /\ PostUpdate(byUsage)

Next == AllocInBlock \/ AllocNewBlock \/ \E c \in Chunk : Free(c)

Spec == Init /\ [][Next]_vars

-----------------------------------------------------------------------------
(***************************************************************************)
(* Properties.                                                             *)
(***************************************************************************)

\* The asserts of Free and of Block::Free: what a caller still holds lies in a mapped
\* block and is marked there, nothing else is, and the count of free slots is that of the
\* mask (so that the assert(false) of Block::Alloc is not reached).
HeldIsMarked ==
    /\ \A c \in held : c[1] \in blocks
    /\ \A p \in Page : /\ mask[p] = {i \in Slot : <<p, i>> \in held}
                       /\ freeSlots[p] = ChunksPerBlock - Cardinality(mask[p])

\* The assert of PostUpdate: both lists hold the same blocks, each once.
ListsAgree == IsInjective(byUsage) /\ blocks = {byUsage[k] : k \in DOMAIN byUsage}

\* The leak checks of ~CExecMemManager and ~ExecMemBlockAllocator agree with each other and
\* with what was given back: no mapped block is empty, and the count is that of the chunks
\* held.
LeakCheck == nAllocs = Cardinality(held) /\ \A p \in blocks : mask[p] # {}

\* A page is mapped only when all chunks of all mapped pages are handed out, and
\* otherwise the chunk comes from a fullest block that has room.
MapsOnlyWhenFull ==
    [][ \A c \in held' \ held :
          IF c[1] \in blocks
          THEN \A p \in blocks : mask[p] = Slot
                 \/ Cardinality(mask[p]) <= Cardinality(mask[c[1]])
          ELSE \A p \in blocks : mask[p] = Slot ]_vars

\* The slots marked as taken behave as a pool of chunks: a chunk is handed out only
\* while it is free.
Pool == INSTANCE ChunkPool WITH used <- {c \in Chunk : c[2] \in mask[c[1]]}
IsChunkPool == Pool!Spec
=============================================================================
