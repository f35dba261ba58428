-------------------------------- MODULE Pool --------------------------------
(***************************************************************************)
(* The memory pool of memoryPoolAllocator/pool.c, with one client that     *)
(* uses it as test.c does: it frees only what it has been given, and it    *)
(* writes into what it has been given.  Free elements are linked through   *)
(* their own memory, so a client's write destroys the link in its element. *)
(* malloc and realloc succeed.                                             *)
(***************************************************************************)
EXTENDS Integers, FiniteSets

CONSTANTS
  BlockSize,  \* blockSize: the elements of a block
  MaxBlocks,  \* bound: the blocks the model lets the pool allocate
  NULL,       \* NULL
  Junk        \* what a client may leave in its memory: no pointer at all

\* Element i of block b.
Element == (0..(MaxBlocks - 1)) \X (0..(BlockSize - 1))
Pointer == Element \union {NULL, Junk}

ASSUME PoolAssumption ==
  /\ BlockSize \in Nat \ {0} /\ MaxBlocks \in Nat \ {0}
  /\ NULL # Junk /\ NULL \notin Element /\ Junk \notin Element

POOL_BLOCKS_INITIAL == 1

VARIABLES
  up,          \* the pool is initialised
  used, block, freed, blocksUsed,
  blocks,      \* the indices i < blocksUsed with blocks[i] # NULL
  nextFree,    \* nextFree[a]: the first word of element a
  owners,      \* owners[a]: how many times element a is given out at present
  heap         \* the blocks allocated by malloc and not freed

poolVars == <<up, used, block, freed, blocksUsed, blocks, nextFree, owners, heap>>

PoolTypeOK ==
  /\ up \in BOOLEAN
  /\ used \in 0..(BlockSize - 1)
  /\ block \in -1..(MaxBlocks - 1)
  /\ freed \in Pointer
  /\ blocksUsed \in 1..(2 * MaxBlocks)
  /\ blocks \subseteq 0..(blocksUsed - 1)
  /\ nextFree \in [Element -> Pointer]
  /\ owners \in [Element -> Nat]
  /\ heap \subseteq 0..(MaxBlocks - 1)

PoolInit ==
  /\ up = FALSE
  /\ used = 0 /\ block = -1 /\ freed = NULL
  /\ blocksUsed = 1 /\ blocks = {}
  /\ nextFree = [a \in Element |-> Junk]
  /\ owners = [a \in Element |-> 0]
  /\ heap = {}

\* What poolFreeAll assigns; every element given out is given back at once.
Rewind ==
  /\ used' = BlockSize - 1
  /\ block' = -1
  /\ freed' = NULL
  /\ owners' = [a \in Element |-> 0]

poolInitialize ==
  /\ ~up
  /\ up' = TRUE
  /\ Rewind
  /\ blocksUsed' = POOL_BLOCKS_INITIAL
  /\ blocks' = {}
  /\ UNCHANGED <<nextFree, heap>>

poolFreeAll ==
  /\ up
  /\ Rewind
  /\ UNCHANGED <<up, blocksUsed, blocks, nextFree, heap>>

\* Mutant of poolFreePool: the loop looks one entry too far for the NULL.
poolFreePoolShort ==
  /\ up
  /\ up' = FALSE
  /\ heap' = heap \ {i \in blocks : 0..(i + 1) \subseteq blocks}
  /\ blocks' = {}
  /\ owners' = [a \in Element |-> 0]
  /\ UNCHANGED <<used, block, freed, blocksUsed, nextFree>>

\* free() of every block before the first NULL in the table.
poolFreePool ==
  /\ up
  /\ up' = FALSE
  /\ heap' = heap \ {i \in blocks : 0..i \subseteq blocks}
  /\ blocks' = {}
  /\ owners' = [a \in Element |-> 0]
  /\ UNCHANGED <<used, block, freed, blocksUsed, nextFree>>

\* The client gets element a and writes into it.
Give(a) ==
  /\ owners' = [owners EXCEPT ![a] = @ + 1]
  /\ nextFree' = [nextFree EXCEPT ![a] = Junk]

\* Mutant of MallocRecycled: the element stays at the head of the list.
MallocRecycledKeeps ==
  /\ up
  /\ freed \in Element
  /\ Give(freed)
  /\ UNCHANGED <<up, used, block, freed, blocksUsed, blocks, heap>>

\* poolMalloc from the free list.
MallocRecycled ==
  /\ up
  /\ freed \in Element
  /\ freed' = nextFree[freed]
  /\ Give(freed)
  /\ UNCHANGED <<up, used, block, blocksUsed, blocks, heap>>

\* poolMalloc of the next element of the current block.
MallocNext ==
  /\ up
  /\ freed = NULL
  /\ used + 1 # BlockSize
  /\ used' = used + 1
  /\ Give(<<block, used + 1>>)
  /\ UNCHANGED <<up, block, freed, blocksUsed, blocks, heap>>

\* Mutant of MallocBlock: the block is taken to be there already.
MallocBlockAbsent ==
  /\ up
  /\ freed = NULL
  /\ used + 1 = BlockSize
  /\ block + 1 < MaxBlocks
  /\ used' = 0
  /\ block' = block + 1
  /\ blocksUsed' = IF block + 1 = blocksUsed THEN 2 * blocksUsed ELSE blocksUsed
  /\ blocks' = blocks \union {block + 1}
  /\ Give(<<block + 1, 0>>)
  /\ UNCHANGED <<up, freed, heap>>

\* poolMalloc of the first element of the next block: the table of blocks
\* doubles when it is full, the block is allocated unless it is there already.
MallocBlock ==
  /\ up
  /\ freed = NULL
  /\ used + 1 = BlockSize
  /\ block + 1 < MaxBlocks
  /\ used' = 0
  /\ block' = block + 1
  /\ blocksUsed' = IF block + 1 = blocksUsed THEN 2 * blocksUsed ELSE blocksUsed
  /\ blocks' = blocks \union {block + 1}
  /\ heap' = heap \union {block + 1}
  /\ Give(<<block + 1, 0>>)
  /\ UNCHANGED <<up, freed>>

\* Mutant of poolFree: the link to the rest of the list is not stored.
poolFreeUnlinked(a) ==
  /\ up
  /\ owners[a] > 0
  /\ owners' = [owners EXCEPT ![a] = @ - 1]
  /\ freed' = a
  /\ UNCHANGED <<up, used, block, blocksUsed, blocks, nextFree, heap>>

\* poolFree of an element the client has.
poolFree(a) ==
  /\ up
  /\ owners[a] > 0
  /\ owners' = [owners EXCEPT ![a] = @ - 1]
  /\ nextFree' = [nextFree EXCEPT ![a] = freed]
  /\ freed' = a
  /\ UNCHANGED <<up, used, block, blocksUsed, blocks, heap>>

poolMalloc == MallocRecycled \/ MallocNext \/ MallocBlock

PoolNext ==
  \/ poolInitialize \/ poolFreeAll \/ poolFreePool
  \/ poolMalloc
  \/ \E a \in Element : poolFree(a)

PoolSpec == PoolInit /\ [][PoolNext]_poolVars

-----------------------------------------------------------------------------
\* The pointer n links into the free list; NULL from its end on.
FreeLink[n \in 0..(MaxBlocks * BlockSize)] ==
  IF n = 0 THEN freed
  ELSE IF FreeLink[n - 1] \in Element THEN nextFree[FreeLink[n - 1]] ELSE FreeLink[n - 1]

FreeLinks == {FreeLink[n] : n \in DOMAIN FreeLink}

\* The elements poolMalloc has carved out of the blocks since the last reset.
Carved == {a \in Element : a[1] < block \/ (a[1] = block /\ a[2] <= used)}

\* The free list is a proper list: it ends in NULL, without meeting what a
\* client wrote, and so without a cycle.
FreeListEnds == up => Junk \notin FreeLinks /\ NULL \in FreeLinks

\* Every element carved out of a block is either given out, to one owner, or on
\* the free list, never both and never neither; others are not given out.
Exclusive ==
  up => \A a \in Element :
    owners[a] + (IF a \in FreeLinks THEN 1 ELSE 0) = (IF a \in Carved THEN 1 ELSE 0)

\* Every element given out lies in a block that is allocated.
Backed == \A a \in Element : owners[a] > 0 => a[1] \in heap

\* poolFreePool returns every block to malloc, although it stops at the first
\* NULL: the table never has a gap, whatever was freed and reset before.
NoLeak == ~up => heap = {}

=============================================================================
