----------------------------- MODULE PoolProofs -----------------------------
(***************************************************************************)
(* Proofs about Pool for every size and every number of blocks.            *)
(***************************************************************************)
EXTENDS Pool, FiniteSetTheorems, TLAPS

\* list is the free list: its n elements are linked from freed to NULL.
Linked(n, list) ==
  /\ \A i, j \in 1..n : list[i] = list[j] => i = j
  /\ freed = IF n = 0 THEN NULL ELSE list[1]
  /\ \A i \in 1..n : nextFree[list[i]] = IF i < n THEN list[i + 1] ELSE NULL

Listed(n, list, a) == \E i \in 1..n : list[i] = a

\* An element carved out of a block is on the list, or it has one owner.
Owned(n, list) ==
  \A a \in Element :
    owners[a] = IF a \in Carved /\ ~Listed(n, list, a) THEN 1 ELSE 0

ListCarved(n, list) == \A i \in 1..n : list[i] \in Carved

FreeList ==
  up => \E n \in Nat : \E list \in [1..n -> Element] :
          Linked(n, list) /\ ListCarved(n, list) /\ Owned(n, list)

\* The blocks in the table are those of the heap, the first ones, and reach to
\* the block elements are carved out of.
BlocksFromZero ==
  /\ heap = blocks
  /\ \A i \in blocks : 0..i \subseteq blocks

CarvingBacked ==
  up => /\ block < blocksUsed
        /\ block = -1 => used = BlockSize - 1
        /\ 0..block \subseteq blocks

DownIsEmpty == ~up => blocks = {} /\ \A a \in Element : owners[a] = 0

PoolInv == PoolTypeOK /\ BlocksFromZero /\ CarvingBacked /\ DownIsEmpty /\ FreeList

-----------------------------------------------------------------------------
LEMMA PoolStart == PoolInit => PoolInv
<1> SUFFICES ASSUME PoolInit PROVE PoolInv
  OBVIOUS
<1>1. PoolTypeOK
  <2>1. NULL \in Pointer /\ Junk \in Pointer
    BY DEF Pointer
  <2>2. used \in 0..(BlockSize - 1) /\ blocksUsed \in 1..(2 * MaxBlocks)
    BY PoolAssumption DEF PoolInit
  <2>3. /\ block \in -1..(MaxBlocks - 1) /\ freed \in Pointer
        /\ blocks \subseteq 0..(blocksUsed - 1) /\ heap \subseteq 0..(MaxBlocks - 1)
    BY <2>1, PoolAssumption DEF PoolInit
  <2>4. nextFree \in [Element -> Pointer] /\ owners \in [Element -> Nat]
    BY <2>1 DEF PoolInit
  <2> QED
    BY <2>2, <2>3, <2>4 DEF PoolInit, PoolTypeOK
<1>2. BlocksFromZero /\ CarvingBacked /\ DownIsEmpty /\ FreeList
  BY DEF PoolInit, BlocksFromZero, CarvingBacked, DownIsEmpty, FreeList
<1> QED
  BY <1>1, <1>2 DEF PoolInv

\* With nothing carved, the empty list is the free list.
LEMMA RewindList ==
  ASSUME PoolTypeOK, Rewind
  PROVE  \E n \in Nat : \E list \in [1..n -> Element] :
           (Linked(n, list) /\ ListCarved(n, list) /\ Owned(n, list))'
<1>1. PICK list : list = [i \in 1..0 |-> <<0, 0>>]
  OBVIOUS
<1>2. Linked(0, list)' /\ ListCarved(0, list)'
  BY DEF Rewind, Linked, ListCarved
<1>3. Carved' = {}
  BY DEF Rewind, Carved, Element
<1>4. Owned(0, list)'
  BY <1>3 DEF Rewind, Owned
<1>5. list \in [1..0 -> Element]
  BY <1>1
<1> QED
  BY <1>2, <1>4, <1>5

LEMMA ResetKeeps ==
  ASSUME PoolInv, poolInitialize \/ poolFreeAll  PROVE  PoolInv'
<1>1. /\ Rewind /\ up' /\ blocksUsed' \in 1..(2 * MaxBlocks) /\ blocks' = blocks
      /\ blocks' \subseteq 0..(blocksUsed' - 1) /\ UNCHANGED <<nextFree, heap>>
  <2>1. CASE poolInitialize
    <3>1. blocksUsed' = 1 /\ 1 \in 1..(2 * MaxBlocks)
      BY <2>1, PoolAssumption DEF poolInitialize, POOL_BLOCKS_INITIAL
    <3>2. blocks = {} /\ blocks' = {}
      BY <2>1 DEF PoolInv, DownIsEmpty, poolInitialize
    <3> QED
      BY <2>1, <3>1, <3>2 DEF poolInitialize
  <2>2. CASE poolFreeAll
    BY <2>2 DEF PoolInv, PoolTypeOK, poolFreeAll
  <2> QED
    BY <2>1, <2>2
<1>2. PoolTypeOK'
  <2>1. NULL \in Pointer /\ -1 \in -1..(MaxBlocks - 1) /\ BlockSize - 1 \in 0..(BlockSize - 1)
    BY PoolAssumption DEF Pointer
  <2>2. owners' \in [Element -> Nat] /\ freed' \in Pointer
    BY <1>1, <2>1 DEF Rewind
  <2>3. used' \in 0..(BlockSize - 1) /\ block' \in -1..(MaxBlocks - 1)
    BY <1>1, <2>1 DEF Rewind
  <2> QED
    BY <1>1, <2>2, <2>3 DEF PoolInv, PoolTypeOK, poolInitialize, poolFreeAll
<1>3. BlocksFromZero' /\ DownIsEmpty'
  BY <1>1 DEF PoolInv, BlocksFromZero, DownIsEmpty
<1>4. CarvingBacked'
  <2>1. block' = -1 /\ used' = BlockSize - 1 /\ block' < blocksUsed'
    BY <1>1, PoolAssumption DEF Rewind
  <2>2. 0..block' = {}
    BY <2>1
  <2> QED
    BY <2>1, <2>2 DEF CarvingBacked
<1>5. FreeList'
  BY <1>1, RewindList DEF FreeList, PoolInv
<1> QED
  BY <1>2, <1>3, <1>4, <1>5 DEF PoolInv

LEMMA FreePoolKeeps ==
  ASSUME PoolInv, poolFreePool  PROVE  PoolInv'
<1>1. PoolTypeOK'
  BY DEF PoolInv, PoolTypeOK, poolFreePool
<1>2. heap' = {}
  BY DEF PoolInv, BlocksFromZero, poolFreePool
<1>3. BlocksFromZero' /\ CarvingBacked' /\ DownIsEmpty' /\ FreeList'
  BY <1>2 DEF BlocksFromZero, CarvingBacked, DownIsEmpty, FreeList, poolFreePool
<1> QED
  BY <1>1, <1>3 DEF PoolInv

LEMMA RecycledKeeps ==
  ASSUME PoolInv, MallocRecycled  PROVE  PoolInv'
<1>0. PICK n \in Nat : \E list \in [1..n -> Element] :
        Linked(n, list) /\ ListCarved(n, list) /\ Owned(n, list)
  BY DEF PoolInv, FreeList, MallocRecycled
<1>1. PICK list \in [1..n -> Element] :
        Linked(n, list) /\ ListCarved(n, list) /\ Owned(n, list)
  BY <1>0
<1>2. n # 0 /\ freed = list[1] /\ freed \in Element
  BY <1>1, PoolAssumption DEF Linked, MallocRecycled
<1> DEFINE rest == [i \in 1..(n - 1) |-> list[i + 1]]
<1>3. n - 1 \in Nat /\ rest \in [1..(n - 1) -> Element]
  BY <1>2
<1>4. PoolTypeOK'
  <2>1. nextFree' = [nextFree EXCEPT ![freed] = Junk] /\ freed' = nextFree[freed]
        /\ owners' = [owners EXCEPT ![freed] = @ + 1]
    BY DEF MallocRecycled, Give
  <2>2. Junk \in Pointer
    BY DEF Pointer
  <2> QED
    BY <1>2, <2>1, <2>2 DEF PoolInv, PoolTypeOK, MallocRecycled
<1>5. BlocksFromZero' /\ CarvingBacked' /\ DownIsEmpty'
  BY DEF PoolInv, BlocksFromZero, CarvingBacked, DownIsEmpty, MallocRecycled
<1>6. Linked(n - 1, rest)'
  <2>1. \A i \in 1..(n - 1) : rest[i] = list[i + 1] /\ i + 1 \in 1..n /\ rest[i] \in Element
    BY <1>2
  <2>2. \A i, j \in 1..(n - 1) : rest[i] = rest[j] => i = j
    BY <1>1, <2>1 DEF Linked
  <2>3. freed' = IF n - 1 = 0 THEN NULL ELSE rest[1]
    BY <1>1, <1>2, <2>1 DEF Linked, MallocRecycled
  <2>4. \A i \in 1..(n - 1) : rest[i] # freed
    BY <1>1, <1>2, <2>1 DEF Linked
  <2>5. \A i \in 1..(n - 1) : nextFree'[rest[i]] = nextFree[rest[i]]
    BY <2>1, <2>4 DEF MallocRecycled, Give, PoolInv, PoolTypeOK
  <2>6. \A i \in 1..(n - 1) :
          nextFree[rest[i]] = IF i < n - 1 THEN rest[i + 1] ELSE NULL
    BY <1>1, <2>1 DEF Linked
  <2> HIDE DEF rest
  <2> QED
    BY <2>2, <2>3, <2>5, <2>6 DEF Linked
<1>7. Carved' = Carved
  BY DEF Carved, MallocRecycled
<1>8. ListCarved(n - 1, rest)'
  BY <1>1, <1>2, <1>7 DEF ListCarved
<1>9. Owned(n - 1, rest)'
  <2>1. \A a \in Element : Listed(n - 1, rest, a) <=> Listed(n, list, a) /\ a # freed
    <3>1. ASSUME NEW a \in Element, Listed(n - 1, rest, a)
          PROVE  Listed(n, list, a) /\ a # freed
      BY <1>1, <1>2, <3>1 DEF Listed, Linked
    <3>2. ASSUME NEW a \in Element, Listed(n, list, a), a # freed
          PROVE  Listed(n - 1, rest, a)
      <4>1. PICK i \in 1..n : list[i] = a
        BY <3>2 DEF Listed
      <4>2. i - 1 \in 1..(n - 1) /\ rest[i - 1] = a
        BY <1>2, <3>2, <4>1
      <4> QED
        BY <4>2 DEF Listed
    <3> QED
      BY <3>1, <3>2
  <2>2. Listed(n, list, freed) /\ freed \in Carved
    BY <1>1, <1>2 DEF Listed, ListCarved
  <2>3. \A a \in Element : owners'[a] = IF a = freed THEN owners[a] + 1 ELSE owners[a]
    BY <1>2 DEF MallocRecycled, Give, PoolInv, PoolTypeOK
  <2> HIDE DEF rest
  <2> QED
    BY <1>1, <1>7, <2>1, <2>2, <2>3 DEF Owned
<1>10. FreeList'
  <2> HIDE DEF rest
  <2> QED
    BY <1>3, <1>6, <1>8, <1>9 DEF FreeList
<1> QED
  BY <1>4, <1>5, <1>10 DEF PoolInv

\* Element a, which was not carved out of a block, is, and the client gets it.
CarvesOne(a) ==
  /\ freed = NULL /\ up
  /\ a \in Element /\ a \notin Carved
  /\ \A x \in Element : x \in Carved' <=> x \in Carved \/ x = a
  /\ Give(a)
  /\ UNCHANGED <<up, freed>>

LEMMA CarveKeepsType ==
  ASSUME PoolTypeOK, NEW a \in Element, Give(a)
  PROVE  nextFree' \in [Element -> Pointer] /\ owners' \in [Element -> Nat]
<1>1. Junk \in Pointer
  BY DEF Pointer
<1> QED
  BY <1>1 DEF PoolTypeOK, Give

\* Elements are carved only while the free list is empty.
LEMMA CarveKeepsList ==
  ASSUME PoolTypeOK, FreeList, NEW a, CarvesOne(a)  PROVE  FreeList'
<1>0. PICK n \in Nat : \E list \in [1..n -> Element] :
        Linked(n, list) /\ ListCarved(n, list) /\ Owned(n, list)
  BY DEF FreeList, CarvesOne
<1>1. PICK list \in [1..n -> Element] :
        Linked(n, list) /\ ListCarved(n, list) /\ Owned(n, list)
  BY <1>0
<1>2. n = 0
  <2>1. n # 0 => 1 \in 1..n /\ list[1] \in Element
    OBVIOUS
  <2> QED
    BY <1>1, <2>1, PoolAssumption DEF Linked, CarvesOne
<1>3. \A x \in Element : ~Listed(n, list, x)
  BY <1>2 DEF Listed
<1>4. Linked(n, list)' /\ ListCarved(n, list)'
  BY <1>1, <1>2 DEF Linked, ListCarved, CarvesOne
<1>5. Owned(n, list)'
  <2>1. \A x \in Element : owners'[x] = IF x = a THEN owners[x] + 1 ELSE owners[x]
    BY DEF PoolTypeOK, CarvesOne, Give
  <2> QED
    BY <1>1, <1>3, <2>1 DEF Owned, CarvesOne
<1> QED
  BY <1>4, <1>5 DEF FreeList

LEMMA NextKeeps ==
  ASSUME PoolInv, MallocNext  PROVE  PoolInv'
<1> DEFINE a == <<block, used + 1>>
<1>1. /\ block \in 0..(MaxBlocks - 1) /\ used \in 0..(BlockSize - 1)
      /\ used + 1 \in 0..(BlockSize - 1) /\ a \in Element
  BY PoolAssumption DEF PoolInv, PoolTypeOK, CarvingBacked, MallocNext, Element
<1>2. \A x \in Element : x \in Carved' <=> x \in Carved \/ x = a
  <2>1. block' = block /\ used' = used + 1
    BY DEF MallocNext
  <2>2. ASSUME NEW i \in 0..(MaxBlocks - 1), NEW j \in 0..(BlockSize - 1)
        PROVE  <<i, j>> \in Carved' <=> <<i, j>> \in Carved \/ <<i, j>> = a
    BY <1>1, <2>1 DEF Carved, Element
  <2> QED
    BY <2>2 DEF Element
<1>3. a \notin Carved
  BY <1>1 DEF Carved
<1> HIDE DEF a
<1>4. CarvesOne(a)
  BY <1>1, <1>2, <1>3 DEF CarvesOne, MallocNext, a
<1>5. PoolTypeOK'
  <2>1. nextFree' \in [Element -> Pointer] /\ owners' \in [Element -> Nat]
    BY <1>1, <1>4, CarveKeepsType DEF CarvesOne, PoolInv
  <2> QED
    BY <1>1, <2>1 DEF PoolInv, PoolTypeOK, MallocNext
<1>6. BlocksFromZero' /\ DownIsEmpty' /\ CarvingBacked'
  BY <1>1 DEF PoolInv, BlocksFromZero, DownIsEmpty, CarvingBacked, MallocNext
<1>7. FreeList'
  BY <1>4, CarveKeepsList DEF PoolInv, MallocNext
<1> QED
  BY <1>5, <1>6, <1>7 DEF PoolInv

LEMMA BlockKeeps ==
  ASSUME PoolInv, MallocBlock  PROVE  PoolInv'
<1> DEFINE a == <<block + 1, 0>>
<1>1. /\ block + 1 \in 0..(MaxBlocks - 1) /\ 0 \in 0..(BlockSize - 1)
      /\ used = BlockSize - 1 /\ a \in Element
  BY PoolAssumption DEF PoolInv, PoolTypeOK, MallocBlock, Element
<1>2. \A x \in Element : x \in Carved' <=> x \in Carved \/ x = a
  <2>1. block' = block + 1 /\ used' = 0 /\ block \in Int
    BY DEF MallocBlock, PoolInv, PoolTypeOK
  <2>2. ASSUME NEW i \in 0..(MaxBlocks - 1), NEW j \in 0..(BlockSize - 1)
        PROVE  <<i, j>> \in Carved' <=> <<i, j>> \in Carved \/ <<i, j>> = a
    BY <1>1, <2>1, PoolAssumption DEF Carved, Element
  <2> QED
    BY <2>2 DEF Element
<1>3. a \notin Carved
  BY <1>1 DEF Carved, PoolInv, PoolTypeOK
<1> HIDE DEF a
<1>4. CarvesOne(a)
  BY <1>1, <1>2, <1>3 DEF CarvesOne, MallocBlock, a
<1>5. /\ blocksUsed' \in 1..(2 * MaxBlocks) /\ blocksUsed <= blocksUsed'
      /\ block + 1 < blocksUsed'
  BY <1>1, PoolAssumption DEF PoolInv, PoolTypeOK, CarvingBacked, MallocBlock
<1>6. /\ blocks' = blocks \union {block + 1} /\ heap' = heap \union {block + 1}
      /\ used' = 0 /\ block' = block + 1 /\ up /\ up' = up
  BY DEF MallocBlock
<1>7. PoolTypeOK'
  <2>1. blocks' \subseteq 0..(blocksUsed' - 1)
    <3>1. blocks \subseteq 0..(blocksUsed - 1) /\ blocksUsed \in Nat /\ blocksUsed' \in Nat
      BY <1>5, PoolAssumption DEF PoolInv, PoolTypeOK
    <3>2. PICK b, c : b = blocksUsed /\ c = blocksUsed'
      OBVIOUS
    <3>3. b \in Nat /\ c \in Nat /\ b <= c
      BY <1>5, <3>1, <3>2
    <3>4. \A i \in 0..(b - 1) : i \in 0..(c - 1)
      BY <3>3
    <3>5. block + 1 \in 0..(blocksUsed' - 1)
      BY <1>1, <1>5, <3>1
    <3> QED
      BY <1>6, <3>1, <3>2, <3>4, <3>5
  <2>2. nextFree' \in [Element -> Pointer] /\ owners' \in [Element -> Nat]
    BY <1>1, <1>4, CarveKeepsType DEF CarvesOne, PoolInv
  <2>3. used' \in 0..(BlockSize - 1) /\ block' \in -1..(MaxBlocks - 1)
    BY <1>1, <1>6
  <2>4. heap' \subseteq 0..(MaxBlocks - 1)
    BY <1>1, <1>6 DEF PoolInv, PoolTypeOK
  <2> QED
    BY <1>5, <1>6, <2>1, <2>2, <2>3, <2>4 DEF PoolInv, PoolTypeOK, MallocBlock
<1>8. BlocksFromZero' /\ DownIsEmpty' /\ CarvingBacked'
  <2>1. 0..block \subseteq blocks /\ block \in Int
    BY <1>6 DEF PoolInv, CarvingBacked, PoolTypeOK
  <2>2. 0..(block + 1) \subseteq blocks'
    BY <1>6, <2>1
  <2>3. \A i \in blocks' : 0..i \subseteq blocks'
    BY <1>6, <2>2 DEF PoolInv, BlocksFromZero
  <2> QED
    BY <1>1, <1>5, <1>6, <2>2, <2>3 DEF PoolInv, BlocksFromZero, DownIsEmpty, CarvingBacked
<1>9. FreeList'
  BY <1>4, <1>6, CarveKeepsList DEF PoolInv
<1> QED
  BY <1>7, <1>8, <1>9 DEF PoolInv

LEMMA FreeKeeps ==
  ASSUME PoolInv, NEW e \in Element, poolFree(e)  PROVE  PoolInv'
<1>0. PICK n \in Nat : \E list \in [1..n -> Element] :
        Linked(n, list) /\ ListCarved(n, list) /\ Owned(n, list)
  BY DEF PoolInv, FreeList, poolFree
<1>1. PICK list \in [1..n -> Element] :
        Linked(n, list) /\ ListCarved(n, list) /\ Owned(n, list)
  BY <1>0
<1> DEFINE longer == [i \in 1..(n + 1) |-> IF i = 1 THEN e ELSE list[i - 1]]
<1>2. \A i \in 2..(n + 1) : i - 1 \in 1..n
  OBVIOUS
<1>3. /\ n + 1 \in Nat /\ longer \in [1..(n + 1) -> Element]
      /\ longer[1] = e /\ \A i \in 2..(n + 1) : longer[i] = list[i - 1]
  BY <1>2
<1>4. e \in Carved /\ ~Listed(n, list, e) /\ owners[e] = 1
  BY <1>1 DEF Owned, poolFree
<1>5. /\ freed' = e /\ nextFree' = [nextFree EXCEPT ![e] = freed]
      /\ owners' = [owners EXCEPT ![e] = @ - 1]
      /\ nextFree \in [Element -> Pointer] /\ owners \in [Element -> Nat]
      /\ freed \in Pointer
  BY DEF poolFree, PoolInv, PoolTypeOK
<1>6. PoolTypeOK'
  <2>1. owners' \in [Element -> Nat] /\ nextFree' \in [Element -> Pointer] /\ freed' \in Pointer
    BY <1>4, <1>5 DEF Pointer
  <2> QED
    BY <2>1 DEF PoolInv, PoolTypeOK, poolFree
<1>7. BlocksFromZero' /\ CarvingBacked' /\ DownIsEmpty'
  BY DEF PoolInv, BlocksFromZero, CarvingBacked, DownIsEmpty, poolFree
<1> HIDE DEF longer
<1>8. Linked(n + 1, longer)'
  <2>1. \A i \in 1..n : list[i] # e
    BY <1>4 DEF Listed
  <2>2. ASSUME NEW i \in 1..(n + 1), NEW j \in 1..(n + 1), longer[i] = longer[j]
        PROVE  i = j
    <3>1. CASE i = 1 \/ j = 1
      BY <1>2, <1>3, <2>1, <2>2, <3>1
    <3>2. CASE i # 1 /\ j # 1
      <4>1. i - 1 \in 1..n /\ j - 1 \in 1..n /\ list[i - 1] = list[j - 1]
        BY <1>2, <1>3, <2>2, <3>2
      <4>2. i - 1 = j - 1
        BY <1>1, <4>1 DEF Linked
      <4> QED
        BY <4>2
    <3> QED
      BY <3>1, <3>2
  <2>3. ASSUME NEW i \in 1..(n + 1)
        PROVE  nextFree'[longer[i]] = IF i < n + 1 THEN longer[i + 1] ELSE NULL
    <3>1. CASE i = 1
      <4>1. nextFree'[e] = freed
        BY <1>5
      <4>2. freed = IF n = 0 THEN NULL ELSE list[1]
        BY <1>1 DEF Linked
      <4>3. n # 0 => longer[2] = list[1]
        BY <1>3
      <4> QED
        BY <1>3, <3>1, <4>1, <4>2, <4>3
    <3>2. CASE i # 1
      <4>1. i - 1 \in 1..n /\ longer[i] = list[i - 1]
        BY <1>2, <1>3, <3>2
      <4>2. nextFree'[list[i - 1]] = nextFree[list[i - 1]]
        BY <1>5, <2>1, <4>1
      <4>3. nextFree[list[i - 1]] = IF i - 1 < n THEN list[i] ELSE NULL
        BY <1>1, <4>1 DEF Linked
      <4>4. i < n + 1 => longer[i + 1] = list[i]
        BY <1>3
      <4> QED
        BY <4>1, <4>2, <4>3, <4>4
    <3> QED
      BY <3>1, <3>2
  <2> QED
    BY <1>3, <1>5, <2>2, <2>3 DEF Linked
<1>9. Carved' = Carved
  BY DEF Carved, poolFree
<1>10. \A x \in Element : Listed(n + 1, longer, x) <=> Listed(n, list, x) \/ x = e
  <2>1. ASSUME NEW x \in Element, NEW i \in 1..n, list[i] = x
        PROVE  Listed(n + 1, longer, x)
    <3>1. i + 1 \in 2..(n + 1) /\ longer[i + 1] = x
      BY <1>3, <2>1
    <3> QED
      BY <3>1 DEF Listed
  <2>2. Listed(n + 1, longer, e)
    BY <1>3 DEF Listed
  <2>3. ASSUME NEW x \in Element, Listed(n + 1, longer, x), x # e
        PROVE  Listed(n, list, x)
    BY <1>2, <1>3, <2>3 DEF Listed
  <2> QED
    BY <2>1, <2>2, <2>3 DEF Listed
<1>11. ListCarved(n + 1, longer)'
  BY <1>1, <1>2, <1>3, <1>4, <1>9 DEF ListCarved
<1>12. Owned(n + 1, longer)'
  <2>1. \A x \in Element : owners'[x] = IF x = e THEN 0 ELSE owners[x]
    BY <1>4, <1>5
  <2> QED
    BY <1>1, <1>9, <1>10, <2>1 DEF Owned
<1>13. FreeList'
  BY <1>3, <1>8, <1>11, <1>12 DEF FreeList
<1> QED
  BY <1>6, <1>7, <1>13 DEF PoolInv

-----------------------------------------------------------------------------
\* A non-empty set of natural numbers has a least element.
LEMMA SmallestElement ==
  ASSUME NEW S \in SUBSET Nat, S # {}
  PROVE  \E m \in S : \A k \in S : m <= k
<1>1. PICK m \in S : \A k \in S : ~ (<<k, m>> \in OpToRel(<, Nat))
  BY NatLessThanWellFounded, WFMin, Zenon
<1>2. ASSUME NEW k \in S, k < m  PROVE  <<k, m>> \in OpToRel(<, Nat)
  BY <1>2 DEF OpToRel
<1>3. \A k \in S : ~ (k < m)
  BY <1>1, <1>2, Zenon
<1>4. m \in Nat /\ \A k \in S : k \in Nat
  OBVIOUS
<1> QED
  BY <1>3, <1>4

\* A list without repetition is no longer than there are elements.
LEMMA ListBounded ==
  ASSUME NEW n \in Nat, NEW list \in [1..n -> Element],
         \A i, j \in 1..n : list[i] = list[j] => i = j
  PROVE  n <= MaxBlocks * BlockSize
<1>1. /\ IsFiniteSet(0..(MaxBlocks - 1)) /\ Cardinality(0..(MaxBlocks - 1)) = MaxBlocks
      /\ IsFiniteSet(0..(BlockSize - 1)) /\ Cardinality(0..(BlockSize - 1)) = BlockSize
  <2>1. /\ 0 \in Int /\ MaxBlocks - 1 \in Int /\ BlockSize - 1 \in Int
        /\ ~(0 > MaxBlocks - 1) /\ ~(0 > BlockSize - 1)
        /\ MaxBlocks - 1 - 0 + 1 = MaxBlocks /\ BlockSize - 1 - 0 + 1 = BlockSize
    BY PoolAssumption
  <2> QED
    BY <2>1, FS_Interval
<1>2. IsFiniteSet(Element) /\ Cardinality(Element) = MaxBlocks * BlockSize
  <2>1. PICK S, T : S = 0..(MaxBlocks - 1) /\ T = 0..(BlockSize - 1)
    OBVIOUS
  <2>2. /\ IsFiniteSet(S \X T)
        /\ Cardinality(S \X T) = Cardinality(S) * Cardinality(T)
    BY <1>1, <2>1, FS_Product, Zenon
  <2> QED
    BY <1>1, <2>1, <2>2, Zenon DEF Element
<1>3. list \in Injection(1..n, Element)
  BY DEF Injection, IsInjective
<1>4. Cardinality(1..n) <= Cardinality(Element)
  BY <1>2, <1>3, FS_Injection, Zenon
<1>5. Cardinality(1..n) = n
  BY FS_Interval
<1> QED
  BY <1>2, <1>4, <1>5

\* FreeLink is the list, and NULL from its end on: the definition determines it.
LEMMA FollowList ==
  ASSUME NEW n \in Nat, NEW list \in [1..n -> Element], Linked(n, list),
         n <= MaxBlocks * BlockSize
  PROVE  FreeLink = [k \in 0..(MaxBlocks * BlockSize) |->
                       IF k < n THEN list[k + 1] ELSE NULL]
<1> DEFINE N == MaxBlocks * BlockSize
           After(p) == IF p \in Element THEN nextFree[p] ELSE p
           Follows(f) == f = [k \in 0..N |-> IF k = 0 THEN freed ELSE After(f[k - 1])]
           g == [k \in 0..N |-> IF k < n THEN list[k + 1] ELSE NULL]
<1>1. N \in Nat
  BY PoolAssumption
<1>2. Follows(g)
  <2>1. g[0] = freed
    BY <1>1 DEF Linked
  <2>2. ASSUME NEW k \in 0..N, k # 0  PROVE  g[k] = After(g[k - 1])
    <3>1. k - 1 \in 0..N
      BY <1>1, <2>2
    <3>2. CASE k - 1 < n
      <4>1. k \in 1..n /\ g[k - 1] = list[k] /\ list[k] \in Element
        BY <1>1, <2>2, <3>1, <3>2
      <4>2. After(g[k - 1]) = IF k < n THEN list[k + 1] ELSE NULL
        BY <4>1 DEF Linked
      <4> QED
        BY <4>2
    <3>3. CASE ~(k - 1 < n)
      <4>1. g[k - 1] = NULL /\ g[k] = NULL
        BY <1>1, <2>2, <3>1, <3>3
      <4> QED
        BY <4>1, PoolAssumption
    <3> QED
      BY <3>2, <3>3
  <2> HIDE DEF After
  <2>3. \A k \in 0..N : g[k] = IF k = 0 THEN freed ELSE After(g[k - 1])
    BY <2>1, <2>2
  <2> QED
    BY <2>3
<1>3. FreeLink = CHOOSE f : Follows(f)
  BY DEF FreeLink
<1> HIDE DEF Follows, g
<1>4. Follows(FreeLink)
  BY <1>2, <1>3, Zenon
<1> HIDE DEF N
<1>5. ASSUME NEW f, Follows(f)  PROVE  f = g
  <2>1. /\ f = [k \in 0..N |-> IF k = 0 THEN freed ELSE After(f[k - 1])]
        /\ g = [k \in 0..N |-> IF k = 0 THEN freed ELSE After(g[k - 1])]
    BY <1>2, <1>5 DEF Follows
  <2> HIDE DEF After
  <2> DEFINE D == {k \in 0..N : f[k] # g[k]}
  <2>2. CASE D # {}
    <3>1. PICK m \in D : \A k \in D : m <= k
      <4>1. D \in SUBSET Nat
        BY <1>1
      <4> HIDE DEF D
      <4> QED
        BY <2>2, <4>1, SmallestElement
    <3>2. m # 0
      BY <2>1, <3>1
    <3>3. m - 1 \in 0..N /\ f[m - 1] = g[m - 1]
      BY <1>1, <3>1, <3>2
    <3> QED
      BY <2>1, <3>2, <3>3
  <2>3. CASE D = {}
    <3>1. \A k \in 0..N : f[k] = g[k]
      BY <2>3
    <3>2. f = [k \in 0..N |-> f[k]] /\ g = [k \in 0..N |-> g[k]]
      BY <2>1
    <3> QED
      BY <3>1, <3>2
  <2> QED
    BY <2>2, <2>3
<1>6. FreeLink = g
  BY <1>4, <1>5
<1> QED
  BY <1>6 DEF g, N

\* What is found by following the links is the list and the NULL at its end.
LEMMA LinksAreList ==
  ASSUME NEW n \in Nat, NEW list \in [1..n -> Element], Linked(n, list)
  PROVE  FreeLinks = {list[i] : i \in 1..n} \union {NULL}
<1> DEFINE N == MaxBlocks * BlockSize
           g == [k \in 0..N |-> IF k < n THEN list[k + 1] ELSE NULL]
<1>1. n <= N /\ N \in Nat
  BY ListBounded, PoolAssumption DEF Linked
<1>2. FreeLinks = {g[k] : k \in 0..N}
  <2>1. FreeLink = g
    BY <1>1, FollowList
  <2>2. DOMAIN FreeLink = 0..N
    BY <2>1
  <2> QED
    BY <2>1, <2>2 DEF FreeLinks
<1>3. n \in 0..N /\ g[n] = NULL
  BY <1>1
<1>4. ASSUME NEW i \in 1..n  PROVE  i - 1 \in 0..N /\ g[i - 1] = list[i]
  BY <1>1
<1>5. ASSUME NEW k \in 0..N  PROVE  g[k] \in {list[i] : i \in 1..n} \union {NULL}
  <2>1. k < n => k + 1 \in 1..n
    BY <1>1
  <2> QED
    BY <2>1
<1> HIDE DEF g, N
<1>6. \A i \in 1..n : list[i] \in FreeLinks
  BY <1>2, <1>4
<1>7. NULL \in FreeLinks
  BY <1>2, <1>3
<1> QED
  BY <1>2, <1>5, <1>6, <1>7

\* The properties the run checks follow from the invariant.
LEMMA Implied ==
  ASSUME PoolInv  PROVE  FreeListEnds /\ Exclusive /\ Backed /\ NoLeak
<1>1. ASSUME up
      PROVE  /\ Junk \notin FreeLinks /\ NULL \in FreeLinks
             /\ \A a \in Element :
                  owners[a] + (IF a \in FreeLinks THEN 1 ELSE 0)
                  = (IF a \in Carved THEN 1 ELSE 0)
  <2>0. PICK n \in Nat : \E list \in [1..n -> Element] :
          Linked(n, list) /\ ListCarved(n, list) /\ Owned(n, list)
    BY <1>1 DEF PoolInv, FreeList
  <2>1. PICK list \in [1..n -> Element] :
          Linked(n, list) /\ ListCarved(n, list) /\ Owned(n, list)
    BY <2>0
  <2>2. FreeLinks = {list[i] : i \in 1..n} \union {NULL}
    BY <2>1, LinksAreList
  <2>3. \A a \in Element : a \in FreeLinks <=> Listed(n, list, a)
    BY <2>2, PoolAssumption DEF Listed
  <2>4. \A a \in Element : Listed(n, list, a) => a \in Carved
    BY <2>1 DEF Listed, ListCarved
  <2>5. Junk \notin FreeLinks /\ NULL \in FreeLinks
    BY <2>2, PoolAssumption
  <2> QED
    BY <2>1, <2>3, <2>4, <2>5 DEF Owned
<1>2. FreeListEnds /\ Exclusive
  BY <1>1 DEF FreeListEnds, Exclusive
<1>3. Backed
  <2>1. ASSUME NEW a \in Element, owners[a] > 0  PROVE  a[1] \in heap
    <3>1. up
      BY <2>1 DEF PoolInv, DownIsEmpty
    <3>2. a \in Carved
      BY <1>1, <2>1, <3>1 DEF PoolInv, PoolTypeOK
    <3>3. a[1] \in 0..block
      BY <3>2 DEF Carved, Element, PoolInv, PoolTypeOK
    <3> QED
      BY <3>1, <3>3 DEF PoolInv, CarvingBacked, BlocksFromZero
  <2> QED
    BY <2>1 DEF Backed
<1>4. NoLeak
  BY DEF PoolInv, DownIsEmpty, BlocksFromZero, NoLeak
<1> QED
  BY <1>2, <1>3, <1>4

-----------------------------------------------------------------------------
LEMMA PoolSteps == PoolInv /\ [PoolNext]_poolVars => PoolInv'
<1> SUFFICES ASSUME PoolInv, [PoolNext]_poolVars  PROVE  PoolInv'
  OBVIOUS
<1>1. CASE poolInitialize \/ poolFreeAll
  BY <1>1, ResetKeeps
<1>2. CASE poolFreePool
  BY <1>2, FreePoolKeeps
<1>3. CASE poolMalloc
  BY <1>3, RecycledKeeps, NextKeeps, BlockKeeps DEF poolMalloc
<1>4. CASE \E a \in Element : poolFree(a)
  BY <1>4, FreeKeeps
<1>5. CASE UNCHANGED poolVars
  <2>1. Carved' = Carved
    BY <1>5 DEF Carved, poolVars
  <2>2. FreeList'
    <3>1. UNCHANGED <<up, freed, nextFree, owners>>
      BY <1>5 DEF poolVars
    <3>2. ASSUME NEW n, NEW list
          PROVE  /\ Linked(n, list)' <=> Linked(n, list)
                 /\ ListCarved(n, list)' <=> ListCarved(n, list)
                 /\ Owned(n, list)' <=> Owned(n, list)
      BY <2>1, <3>1, Zenon DEF Linked, ListCarved, Owned
    <3> QED
      BY <3>1, <3>2, Zenon DEF PoolInv, FreeList
  <2>3. PoolTypeOK' /\ BlocksFromZero' /\ CarvingBacked' /\ DownIsEmpty'
    BY <1>5 DEF PoolInv, PoolTypeOK, BlocksFromZero, CarvingBacked, DownIsEmpty, poolVars
  <2> QED
    BY <2>2, <2>3 DEF PoolInv
<1> QED
  BY <1>1, <1>2, <1>3, <1>4, <1>5 DEF PoolNext

\* The pool is well-typed, and the lists, blocks and owners agree, in every state.
THEOREM PoolInvariance == PoolSpec => []PoolInv
BY PoolStart, PoolSteps, PTL DEF PoolSpec

\* Whatever is allocated, freed and reset, the links from freed lead to NULL, and
\* never to what a client wrote into its memory.
THEOREM ListEnds == PoolSpec => []FreeListEnds
BY PoolInvariance, Implied, PTL

\* poolMalloc never gives out an element that is given out, and loses none.
THEOREM OneOwner == PoolSpec => []Exclusive
BY PoolInvariance, Implied, PTL

\* A client's element lies in a block that malloc returned and free has not seen.
THEOREM MemoryIsThere == PoolSpec => []Backed
BY PoolInvariance, Implied, PTL

\* poolFreePool frees every block.
THEOREM NothingLeaks == PoolSpec => []NoLeak
BY PoolInvariance, Implied, PTL

=============================================================================
