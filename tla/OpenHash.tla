------------------------------ MODULE OpenHash ------------------------------
(***************************************************************************)
(* The hash table of hashTable/hashTable.c: open addressing with linear    *)
(* probing; deletion leaves a dummy item.  One step per probe.  An item is *)
(* its key: nothing in the table depends on the data.                      *)
(***************************************************************************)
EXTENDS Integers

CONSTANTS
  SIZE,      \* cells of the table
  Keys       \* the keys callers use

Dummy == -1  \* dummyItem->key
Null == -2   \* an empty cell, or no item

ASSUME OpenHashAssumption == SIZE \in Nat \ {0} /\ Keys \subseteq Nat

VARIABLES
  hashArray,  \* the key in each cell, or Dummy, or Null
  call,       \* the function being executed, "none" between calls
  key,        \* its argument
  hashIndex,  \* the cell it probes
  item        \* the key of the item the last search returned, or Null

openHashVars == <<hashArray, call, key, hashIndex, item>>

Cells == 0..(SIZE - 1)

OpenHashTypeOK ==
  /\ hashArray \in [Cells -> Keys \union {Dummy, Null}]
  /\ call \in {"none", "search", "insert", "delete"}
  /\ key \in Keys \union {Null}
  /\ hashIndex \in Cells
  /\ item \in Keys \union {Null}

OpenHashInit ==
  /\ hashArray = [i \in Cells |-> Null]
  /\ call = "none" /\ key = Null /\ hashIndex = 0 /\ item = Null

hashCode(k) == k % SIZE

Begin(function, k) ==
  /\ call = "none"
  /\ call' = function
  /\ key' = k
  /\ hashIndex' = hashCode(k)
  /\ UNCHANGED <<hashArray, item>>

\* delete takes an item, and callers get items from search.
BeginCall ==
  \/ \E k \in Keys : Begin("search", k) \/ Begin("insert", k)
  \/ item # Null /\ Begin("delete", item)

\* The locals of a call are gone when it returns.
Return == call' = "none" /\ key' = Null /\ hashIndex' = 0

\* Mutants of NextCell: the index runs over the end; it stays there.
NextCellOver(i) == i + 1
NextCellStays(i) == IF i + 1 \in Cells THEN i + 1 ELSE i

NextCell(i) == (i + 1) % SIZE

\* The cell where the loop of a call ends.
Ends ==
  LET found == hashArray[hashIndex]
  IN  CASE call = "insert" -> found \in {Null, Dummy}
        [] OTHER -> found \in {Null, key}

Probe ==
  /\ call # "none"
  /\ ~Ends
  /\ hashIndex' = NextCell(hashIndex)
  /\ UNCHANGED <<hashArray, call, key, item>>

\* The item the search returns: the one found, or NULL at an empty cell.
SearchReturns ==
  /\ call = "search" /\ Ends
  /\ item' = hashArray[hashIndex]
  /\ Return
  /\ UNCHANGED hashArray

InsertReturns ==
  /\ call = "insert" /\ Ends
  /\ hashArray' = [hashArray EXCEPT ![hashIndex] = key]
  /\ Return
  /\ UNCHANGED item

\* Mutant of Deleted: the cell of a deleted item becomes empty.
DeletedEmpty == Null

\* What a deleted item leaves in its cell.
Deleted == Dummy

DeleteReturns ==
  /\ call = "delete" /\ Ends
  /\ hashArray' = IF hashArray[hashIndex] = Null THEN hashArray
                  ELSE [hashArray EXCEPT ![hashIndex] = Deleted]
  /\ Return
  /\ UNCHANGED item

OpenHashStep == Probe \/ SearchReturns \/ InsertReturns \/ DeleteReturns
OpenHashNext == BeginCall \/ OpenHashStep

\* One thread runs the program: a call that can go on does.
OpenHashSpec ==
  OpenHashInit /\ [][OpenHashNext]_openHashVars /\ WF_openHashVars(OpenHashStep)

(* A search finds an item whenever one with its key is in the table: the    *)
(* dummies keep the path from a key's own cell to the cell it was put in    *)
(* free of empty cells, after any sequence of insertions and deletions.     *)
SearchIsExact ==
  [][call = "search" /\ call' = "none"
       => (item' # Null <=> \E i \in Cells : hashArray[i] = key)]_openHashVars

(* A call ends if the table has an empty cell, wherever that is.  Without   *)
(* one the loops of search and delete end only at their key, and that of    *)
(* insert only at a dummy.                                                  *)
CallsReturn ==
  (call # "none" /\ \E i \in Cells : hashArray[i] = Null) ~> call = "none"

=============================================================================
