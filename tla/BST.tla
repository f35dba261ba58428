-------------------------------- MODULE BST --------------------------------
(***************************************************************************)
(* The binary search tree of BST/bst.c.  A node is named by its path from  *)
(* the head, so the tree is a function from paths to values; a deletion    *)
(* moves the nodes below it.  As in main(), the node to delete is the one  *)
(* a search has just returned.  malloc succeeds.                           *)
(***************************************************************************)
EXTENDS Integers, Sequences, FiniteSets, SequencesExt

CONSTANTS
  BstValues,   \* the values callers insert, search and delete
  MaxTree      \* bound: nodes of the tree

ASSUME BstAssumption == BstValues \subseteq Nat /\ MaxTree \in Nat

VARIABLES
  tree,        \* tree[p]: val of the node at path p
  bstFault,    \* insertNode has dereferenced a NULL inNode
  inserted     \* history: inserted[v]: copies of v inserted and not deleted since

bstVars == <<tree, bstFault, inserted>>

Side == {"left", "right"}
Path == UNION {[1..n -> Side] : n \in 0..(MaxTree - 1)}

BstTypeOK ==
  /\ DOMAIN tree \subseteq Path
  /\ \A p \in DOMAIN tree : tree[p] \in BstValues
  /\ bstFault \in BOOLEAN
  /\ inserted \in [BstValues -> 0..MaxTree]

BstInit ==
  /\ tree = <<>>
  /\ bstFault = FALSE
  /\ inserted = [v \in BstValues |-> 0]

Empty(t) == DOMAIN t = {}

\* Where a descent that looks for v goes on from a node with val w.
Turn(v, w) == IF v < w THEN "left" ELSE "right"

\* The descent for v from the head of t leads along path p.
Follows(t, v, p) == \A i \in 1..Len(p) : p[i] = Turn(v, t[SubSeq(p, 1, i - 1)])

\* The NULL pointer at which the descent for v ends.
Bottom(t, v) ==
  IF Empty(t) THEN <<>>
  ELSE CHOOSE q \in {Append(p, s) : p \in DOMAIN t, s \in Side} :
         q \notin DOMAIN t /\ Follows(t, v, q)

\* The subtree of t at p, and the tree s put at p.
Below(t, p) ==
  [q \in {SubSeq(r, Len(p) + 1, Len(r)) : r \in {r \in DOMAIN t : IsPrefix(p, r)}} |-> t[p \o q]]
Rooted(p, s) ==
  [r \in {p \o q : q \in DOMAIN s} |-> s[SubSeq(r, Len(p) + 1, Len(r))]]

\* The union of two trees without a common path.
Join(s, t) == [p \in DOMAIN s \union DOMAIN t |-> IF p \in DOMAIN s THEN s[p] ELSE t[p]]

Left(p) == Below(tree, Append(p, "left"))
Right(p) == Below(tree, Append(p, "right"))

\* Mutant of insertNode: the left child of the head is not looked at.
insertNodeOver(head, inNode) ==
  IF Empty(head) THEN inNode ELSE Join(Rooted(<<"left">>, inNode), head)

insertNode(head, inNode) ==
  IF Empty(head) THEN inNode ELSE Join(head, Rooted(Bottom(head, inNode[<<>>]), inNode))

\* insertNode(right, left) below the node at p follows a NULL left.
Crashes(p) == ~Empty(Right(p)) /\ Empty(Left(p))

\* The path of the node search returns for v; none if it returns NULL.
search(v) ==
  {p \in DOMAIN tree :
     /\ Follows(tree, v, p) /\ tree[p] = v
     /\ \A i \in 0..(Len(p) - 1) : tree[SubSeq(p, 1, i)] # v}

\* searchParent descends by the value of a node to the node that points to it.
searchParent(v, p) ==
  {q \in DOMAIN tree : Follows(tree, v, q) /\ \E s \in Side : p = Append(q, s)}

newNode(v) == [p \in {<<>>} |-> v]

insertVal(v) ==
  /\ ~bstFault
  /\ Cardinality(DOMAIN tree) < MaxTree
  /\ tree' = Join(tree, Rooted(Bottom(tree, v), newNode(v)))
  /\ inserted' = [inserted EXCEPT ![v] = @ + 1]
  /\ UNCHANGED bstFault

TakeOut(v, t) ==
  /\ tree' = t
  /\ inserted' = [inserted EXCEPT ![v] = @ - 1]
  /\ UNCHANGED bstFault

\* deleteNode of the head, and of an inner node: the left subtree goes into the
\* right one, whose head takes the place of the node.
DeleteInner(v, p) ==
  /\ p = <<>> \/ ~Empty(Left(p)) \/ ~Empty(Right(p))
  /\ ~Crashes(p)
  /\ TakeOut(v, Join([q \in {q \in DOMAIN tree : ~IsPrefix(p, q)} |-> tree[q]],
                     Rooted(p, insertNode(Right(p), Left(p)))))

\* deleteNode of a leaf: its parent forgets it.
DeleteLeaf(v, p) ==
  /\ p # <<>> /\ Empty(Left(p)) /\ Empty(Right(p))
  /\ searchParent(v, p) # {}
  /\ TakeOut(v, [q \in DOMAIN tree \ {p} |-> tree[q]])

\* deleteNode of a node with a right child and no left one.
DeleteCrashes(p) ==
  /\ Crashes(p)
  /\ bstFault' = TRUE
  /\ UNCHANGED <<tree, inserted>>

deleteNode(v) ==
  /\ ~bstFault
  /\ \E p \in search(v) : DeleteInner(v, p) \/ DeleteLeaf(v, p) \/ DeleteCrashes(p)

BstNext == \E v \in BstValues : insertVal(v) \/ deleteNode(v)

BstSpec == BstInit /\ [][BstNext]_bstVars

-----------------------------------------------------------------------------
\* minVal and maxVal: the end of the chain of left, or right, pointers.
Extreme(side) ==
  IF Empty(tree) THEN -1
  ELSE LET p == CHOOSE p \in DOMAIN tree :
                  /\ \A i \in 1..Len(p) : p[i] = side
                  /\ Append(p, side) \notin DOMAIN tree
       IN  tree[p]

Kept == {v \in BstValues : inserted[v] > 0}

(* The tree holds every copy that was inserted and not deleted, search      *)
(* finds exactly these values, and minVal and maxVal return the smallest    *)
(* and the largest: grafting the left subtree into the right one, and       *)
(* cutting a leaf, keep the order that every descent relies on, also with   *)
(* equal values in the tree.                                                *)
TreeIsExact ==
  /\ \A v \in BstValues :
       /\ Cardinality({p \in DOMAIN tree : tree[p] = v}) = inserted[v]
       /\ search(v) # {} <=> v \in Kept
  /\ Kept # {} => Extreme("left") \in Kept /\ Extreme("right") \in Kept
  /\ \A v \in Kept : Extreme("left") <= v /\ v <= Extreme("right")

(* A deletion of a node found in the tree returns the new head, as the      *)
(* comment above deleteNode has it.                                         *)
NewHeadReturned == ~bstFault

=============================================================================
