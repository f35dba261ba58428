------------------------------- MODULE Memcpy -------------------------------
(***************************************************************************)
(* myMemcpy of memcpy_memmove/memcpy.c: a copy between areas that may      *)
(* overlap, from the end the code's test of the pointers picks.  The areas *)
(* lie in one memory whose bytes are all different at first.               *)
(***************************************************************************)
EXTENDS Integers

CONSTANT MemorySize

ASSUME MemcpyAssumption == MemorySize \in Nat

VARIABLES
  memory,        \* memory[a]: the byte at address a
  pSrc, pDest,   \* the arguments
  length,        \* the argument n
  byte           \* the loop's i; its end value when the loop is over

memcpyVars == <<memory, pSrc, pDest, length, byte>>

Addresses == 0..(MemorySize - 1)

\* Mutant of Downwards: the end of the source is not looked at.
DownwardsNever(src, dest, n) == FALSE

\* cpyDir is CPY_DIR_HIGHER_TO_LOWER.
Downwards(src, dest, n) == dest <= src + n /\ src + n <= dest + n

copying == IF Downwards(pSrc, pDest, length) THEN byte >= 0 ELSE byte < length

MemcpyTypeOK ==
  /\ memory \in [Addresses -> Addresses]
  /\ pSrc \in 0..MemorySize /\ pDest \in 0..MemorySize
  /\ length \in 0..MemorySize
  /\ byte \in -1..length

\* Both areas are in memory.
MemcpyInit ==
  /\ memory = [a \in Addresses |-> a]
  /\ pSrc \in 0..MemorySize /\ pDest \in 0..MemorySize
  /\ length \in 0..MemorySize
  /\ pSrc + length <= MemorySize /\ pDest + length <= MemorySize
  /\ byte = IF Downwards(pSrc, pDest, length) THEN length - 1 ELSE 0

CopyByte ==
  /\ copying
  /\ memory' = [memory EXCEPT ![pDest + byte] = memory[pSrc + byte]]
  /\ byte' = IF Downwards(pSrc, pDest, length) THEN byte - 1 ELSE byte + 1
  /\ UNCHANGED <<pSrc, pDest, length>>

MemcpySpec == MemcpyInit /\ [][CopyByte]_memcpyVars

(* After the call the destination holds the bytes the source held before    *)
(* it, and no other byte has changed: no byte is overwritten before it is   *)
(* read, however the two areas overlap.                                     *)
CopyIsExact ==
  ~copying =>
    \A a \in Addresses :
      memory[a] = IF a \in pDest..(pDest + length - 1) THEN a - pDest + pSrc ELSE a

=============================================================================
