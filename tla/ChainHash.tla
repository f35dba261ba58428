----------------------------- MODULE ChainHash -----------------------------
(***************************************************************************)
(* The hash table of hashTable/hashTable_chain.c: a list of items for each *)
(* cell.  The calls come from one thread.  An item is its key.             *)
(***************************************************************************)
EXTENDS Integers, Sequences, SequencesExt

CONSTANTS
  ChainSize,   \* SIZE
  ChainKeys    \* the keys callers use

ASSUME ChainAssumption == ChainSize \in Nat \ {0} /\ ChainKeys \subseteq Nat

VARIABLES
  chains,      \* chains[i]: the keys in the list of hashArray[i]
  members      \* history: the keys inserted and not deleted since

chainVars == <<chains, members>>

Buckets == 0..(ChainSize - 1)

ChainTypeOK ==
  /\ chains \in [Buckets -> Seq(ChainKeys)]
  /\ members \subseteq ChainKeys

ChainInit == chains = [b \in Buckets |-> <<>>] /\ members = {}

Bucket(k) == k % ChainSize

\* search(k) returns an item.
Found(k) == Contains(chains[Bucket(k)], k)

\* An item with the same key is refused and changes nothing.
ChainInsert(k) ==
  /\ ~Found(k)
  /\ chains' = [chains EXCEPT ![Bucket(k)] = Append(@, k)]
  /\ members' = members \union {k}

\* Mutant of WithoutMiddle: the rest of the list is freed with the item.
WithoutMiddleRest(c, i) == SubSeq(c, 1, i - 1)

\* The next item is copied over item i and its own node freed.
WithoutMiddle(c, i) == RemoveAt(c, i)

Replace(k, c) ==
  /\ chains' = [chains EXCEPT ![Bucket(k)] = c]
  /\ members' = members \ {k}

\* The three branches of delete: key at the front, in the middle, at the end.
ChainDelete(k) ==
  LET c == chains[Bucket(k)]
      FirstAt(i) == c[i] = k /\ \A j \in 1..(i - 1) : c[j] # k
  IN  \/ c # <<>> /\ FirstAt(1) /\ Replace(k, Tail(c))
      \/ \E i \in 2..(Len(c) - 1) : FirstAt(i) /\ Replace(k, WithoutMiddle(c, i))
      \/ Len(c) > 1 /\ FirstAt(Len(c)) /\ Replace(k, Front(c))

ChainNext == \E k \in ChainKeys : ChainInsert(k) \/ ChainDelete(k)

ChainSpec == ChainInit /\ [][ChainNext]_chainVars

(* The lists hold each key that was inserted and not deleted since, once,   *)
(* in the list of its own hash code, and no other: deleting at any place of *)
(* a list of colliding keys keeps all the others.                           *)
ChainsHoldMembers ==
  \A b \in Buckets :
    /\ IsInjective(chains[b])
    /\ ToSet(chains[b]) = {k \in members : Bucket(k) = b}

=============================================================================
