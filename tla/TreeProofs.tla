----------------------------- MODULE TreeProofs -----------------------------
(***************************************************************************)
(* Proofs about BST for every set of values and every size of the tree.    *)
(***************************************************************************)
EXTENDS BST, FiniteSetTheorems, SequenceTheorems, WellFoundedInduction, NaturalsInduction, TLAPS

Node == Seq(Side)

\* With a node the tree has those above it.
Closed(t) == \A p \in DOMAIN t : \A i \in 0..Len(p) : SubSeq(p, 1, i) \in DOMAIN t

\* Each node is where the descent for its value leads.
ByDescent(t) == \A p \in DOMAIN t : Follows(t, t[p], p)

SearchTree(t) ==
  /\ DOMAIN t \subseteq Node
  /\ IsFiniteSet(DOMAIN t)
  /\ \A p \in DOMAIN t : t[p] \in BstValues
  /\ Closed(t)
  /\ ByDescent(t)

Holding(t, V) == {p \in DOMAIN t : t[p] \in V}
NodeCount(t, V) == Cardinality(Holding(t, V))

TreeInv ==
  /\ SearchTree(tree)
  /\ NodeCount(tree, BstValues) <= MaxTree
  /\ inserted = [v \in BstValues |-> NodeCount(tree, {v})]
  /\ bstFault \in BOOLEAN

-----------------------------------------------------------------------------
(***************************************************************************)
(* Paths                                                                   *)
(***************************************************************************)

\* The beginnings of a path that goes on from the end of another one.
LEMMA ConcatPrefix ==
  ASSUME NEW b \in Node, NEW q \in Node
  PROVE  /\ b \o q \in Node /\ Len(b \o q) = Len(b) + Len(q)
         /\ \A i \in 0..Len(b) : SubSeq(b \o q, 1, i) = SubSeq(b, 1, i)
         /\ \A j \in 0..Len(q) : SubSeq(b \o q, 1, Len(b) + j) = b \o SubSeq(q, 1, j)
         /\ \A i \in 1..Len(b) : (b \o q)[i] = b[i]
         /\ \A j \in 1..Len(q) : (b \o q)[Len(b) + j] = q[j]
<1>1. /\ b \o q \in Node /\ Len(b \o q) = Len(b) + Len(q)
      /\ \A i \in 1..Len(b) : (b \o q)[i] = b[i]
      /\ \A j \in 1..Len(q) : (b \o q)[Len(b) + j] = q[j]
  BY DEF Node
<1>2. ASSUME NEW i \in 0..Len(b)  PROVE SubSeq(b \o q, 1, i) = SubSeq(b, 1, i)
  BY <1>1 DEF Node
<1>3. ASSUME NEW j \in 0..Len(q)
      PROVE  SubSeq(b \o q, 1, Len(b) + j) = b \o SubSeq(q, 1, j)
  <2>1. /\ Len(SubSeq(b \o q, 1, Len(b) + j)) = Len(b) + j
        /\ \A i \in 1..(Len(b) + j) : SubSeq(b \o q, 1, Len(b) + j)[i] = (b \o q)[i]
        /\ SubSeq(b \o q, 1, Len(b) + j) \in Node
    BY <1>1 DEF Node
  <2>2. /\ Len(SubSeq(q, 1, j)) = j /\ \A i \in 1..j : SubSeq(q, 1, j)[i] = q[i]
        /\ SubSeq(q, 1, j) \in Node
    BY DEF Node
  <2>3. /\ Len(b \o SubSeq(q, 1, j)) = Len(b) + j
        /\ \A i \in 1..Len(b) : (b \o SubSeq(q, 1, j))[i] = b[i]
        /\ \A i \in 1..j : (b \o SubSeq(q, 1, j))[Len(b) + i] = SubSeq(q, 1, j)[i]
        /\ b \o SubSeq(q, 1, j) \in Node
    BY <2>2 DEF Node
  <2> QED
    BY <1>1, <2>1, <2>2, <2>3 DEF Node
<1> QED
  BY <1>1, <1>2, <1>3

\* The beginnings of a path are paths.
LEMMA Prefix ==
  ASSUME NEW p \in Node, NEW i \in 0..Len(p)
  PROVE  /\ SubSeq(p, 1, i) \in Node /\ Len(SubSeq(p, 1, i)) = i
         /\ \A j \in 1..i : SubSeq(p, 1, i)[j] = p[j]
         /\ \A j \in 0..i : SubSeq(SubSeq(p, 1, i), 1, j) = SubSeq(p, 1, j)
         /\ i = 0 => SubSeq(p, 1, i) = <<>>
         /\ i = Len(p) => SubSeq(p, 1, i) = p
<1>1. /\ SubSeq(p, 1, i) \in Node /\ Len(SubSeq(p, 1, i)) = i
      /\ \A j \in 1..i : SubSeq(p, 1, i)[j] = p[j]
  BY DEF Node
<1>2. ASSUME NEW j \in 0..i  PROVE SubSeq(SubSeq(p, 1, i), 1, j) = SubSeq(p, 1, j)
  BY <1>1 DEF Node
<1>3. i = 0 => SubSeq(p, 1, i) = <<>>
  BY DEF Node
<1>4. i = Len(p) => SubSeq(p, 1, i) = p
  BY DEF Node
<1> QED
  BY <1>1, <1>2, <1>3, <1>4

\* A path that begins with p goes on from p.
LEMMA PrefixConcat ==
  ASSUME NEW p \in Node, NEW r \in Node
  PROVE  /\ IsPrefix(p, r) <=> \E q \in Node : r = p \o q
         /\ \A q \in Node : r = p \o q => q = SubSeq(r, Len(p) + 1, Len(r))
<1>1. ASSUME IsPrefix(p, r)
      PROVE  /\ SubSeq(r, Len(p) + 1, Len(r)) \in Node
             /\ r = p \o SubSeq(r, Len(p) + 1, Len(r))
  <2>1. Len(p) <= Len(r) /\ SubSeq(p, 1, Len(p)) = SubSeq(r, 1, Len(p))
    BY <1>1 DEF IsPrefix
  <2>2. \A i \in 1..Len(p) : r[i] = p[i]
    BY <2>1, Prefix DEF Node
  <2>3. PICK q \in Node : q = SubSeq(r, Len(p) + 1, Len(r))
    <3>1. \A m \in 1..(Len(r) + 1) : SubSeq(r, m, Len(r)) \in Node
      BY DEF Node
    <3>2. Len(p) + 1 \in 1..(Len(r) + 1)
      BY <2>1 DEF Node
    <3> QED
      BY <3>1, <3>2
  <2>4. Len(q) = Len(r) - Len(p) /\ \A j \in 1..Len(q) : q[j] = r[Len(p) + j]
    BY <2>1, <2>3 DEF Node
  <2>5. /\ p \o q \in Node /\ Len(p \o q) = Len(p) + Len(q)
        /\ \A i \in 1..Len(p) : (p \o q)[i] = p[i]
        /\ \A j \in 1..Len(q) : (p \o q)[Len(p) + j] = q[j]
    BY ConcatPrefix
  <2>6. p \o q = r
    <3>1. PICK c \in Node : c = p \o q
      BY <2>5
    <3>2. Len(c) = Len(r) /\ Len(r) \in Nat /\ Len(p) \in Nat
      BY <2>1, <2>4, <2>5, <3>1 DEF Node
    <3>3. ASSUME NEW i \in 1..Len(r)  PROVE c[i] = r[i]
      <4>1. CASE i <= Len(p)
        BY <2>2, <2>5, <3>1, <3>2, <4>1
      <4>2. CASE i > Len(p)
        <5>1. i - Len(p) \in 1..Len(q)
          BY <2>4, <3>2, <4>2
        <5>2. q[i - Len(p)] = r[Len(p) + (i - Len(p))] /\ c[Len(p) + (i - Len(p))] = q[i - Len(p)]
          BY <2>4, <2>5, <3>1, <5>1
        <5> QED
          BY <3>2, <5>2
      <4> QED
        BY <3>2, <4>1, <4>2
    <3> QED
      BY <3>1, <3>2, <3>3, SeqEqual DEF Node
  <2> QED
    BY <2>3, <2>6
<1>2. ASSUME NEW q \in Node, r = p \o q
      PROVE  IsPrefix(p, r) /\ q = SubSeq(r, Len(p) + 1, Len(r))
  <2>1. /\ Len(r) = Len(p) + Len(q) /\ SubSeq(r, 1, Len(p)) = SubSeq(p, 1, Len(p))
        /\ \A j \in 1..Len(q) : r[Len(p) + j] = q[j]
    BY <1>2, ConcatPrefix DEF Node
  <2>2. q = SubSeq(r, Len(p) + 1, Len(r))
    BY <2>1 DEF Node
  <2> QED
    BY <2>1, <2>2 DEF IsPrefix, Node
<1> QED
  BY <1>1, <1>2

LEMMA SameTail ==
  ASSUME NEW p \in Node, NEW q \in Node, NEW z \in Node, p \o q = p \o z
  PROVE  q = z
<1>1. PICK r \in Node : r = p \o q
  BY ConcatPrefix
<1>2. q = SubSeq(r, Len(p) + 1, Len(r)) /\ z = SubSeq(r, Len(p) + 1, Len(r))
  BY <1>1, PrefixConcat
<1> QED
  BY <1>2

-----------------------------------------------------------------------------
(***************************************************************************)
(* Subtrees                                                                *)
(***************************************************************************)

LEMMA BelowIs ==
  ASSUME NEW t, DOMAIN t \subseteq Node, NEW p \in Node
  PROVE  /\ DOMAIN Below(t, p) = {q \in Node : p \o q \in DOMAIN t}
         /\ \A q \in DOMAIN Below(t, p) : Below(t, p)[q] = t[p \o q]
<1> DEFINE S == {SubSeq(r, Len(p) + 1, Len(r)) : r \in {r \in DOMAIN t : IsPrefix(p, r)}}
<1>1. Below(t, p) = [q \in S |-> t[p \o q]]
  BY Zenon DEF Below
<1>2. ASSUME NEW q \in S  PROVE q \in Node /\ p \o q \in DOMAIN t
  <2>1. PICK r \in DOMAIN t : IsPrefix(p, r) /\ q = SubSeq(r, Len(p) + 1, Len(r))
    BY <1>2
  <2>2. r \in Node
    BY <2>1
  <2>3. PICK z \in Node : r = p \o z
    BY <2>1, <2>2, PrefixConcat
  <2>4. z = q
    BY <2>1, <2>2, <2>3, PrefixConcat
  <2> QED
    BY <2>3, <2>4
<1>3. ASSUME NEW q \in Node, p \o q \in DOMAIN t  PROVE q \in S
  <2>1. PICK r \in DOMAIN t : r = p \o q
    BY <1>3
  <2>2. r \in Node
    BY <2>1
  <2>3. IsPrefix(p, r) /\ q = SubSeq(r, Len(p) + 1, Len(r))
    BY <2>1, <2>2, PrefixConcat
  <2> QED
    BY <2>3
<1> HIDE DEF S
<1>4. S = {q \in Node : p \o q \in DOMAIN t}
  BY <1>2, <1>3
<1> QED
  BY <1>1, <1>4

LEMMA RootedIs ==
  ASSUME NEW s, DOMAIN s \subseteq Node, NEW p \in Node
  PROVE  /\ DOMAIN Rooted(p, s) = {p \o q : q \in DOMAIN s}
         /\ \A q \in DOMAIN s : Rooted(p, s)[p \o q] = s[q]
<1>1. Rooted(p, s) = [r \in {p \o q : q \in DOMAIN s} |-> s[SubSeq(r, Len(p) + 1, Len(r))]]
  BY Zenon DEF Rooted
<1>2. ASSUME NEW q \in DOMAIN s  PROVE SubSeq(p \o q, Len(p) + 1, Len(p \o q)) = q
  <2>1. q \in Node /\ p \o q \in Node
    BY ConcatPrefix
  <2> QED
    BY <2>1, PrefixConcat
<1> QED
  BY <1>1, <1>2

\* Putting a path in front of each path of a set leaves as many.
LEMMA PrependCount ==
  ASSUME NEW b \in Node, NEW Q \in SUBSET Node, IsFiniteSet(Q)
  PROVE  /\ IsFiniteSet({b \o q : q \in Q})
         /\ Cardinality({b \o q : q \in Q}) = Cardinality(Q)
<1> DEFINE R == {b \o q : q \in Q}
           h == [q \in Q |-> b \o q]
<1>1. h \in [Q -> R] /\ \A r \in R : \E q \in Q : h[q] = r
  OBVIOUS
<1>2. ASSUME NEW q \in Q, NEW z \in Q, h[q] = h[z]  PROVE q = z
  <2>1. b \o q = b \o z /\ q \in Node /\ z \in Node
    BY <1>2
  <2> QED
    BY <2>1, SameTail
<1> HIDE DEF R, h
<1>3. h \in Injection(Q, R) /\ h \in Surjection(Q, R)
  BY <1>1, <1>2 DEF Injection, IsInjective, Surjection
<1>4. ExistsBijection(Q, R)
  BY <1>3 DEF ExistsBijection, Bijection
<1> QED
  BY <1>4, FS_Bijection DEF R

\* The place b of t is free, and its parent is there.
FreePlace(t, b) ==
  /\ b \in Node /\ b \notin DOMAIN t
  /\ \A i \in 0..Len(b) : i < Len(b) => SubSeq(b, 1, i) \in DOMAIN t

\* A tree put at a free place has no path in common with the tree it is put into.
LEMMA FreeBelow ==
  ASSUME NEW t, DOMAIN t \subseteq Node, Closed(t), NEW b, FreePlace(t, b), NEW q \in Node
  PROVE  b \o q \notin DOMAIN t
<1> SUFFICES ASSUME b \o q \in DOMAIN t  PROVE FALSE
  OBVIOUS
<1>1. b \in Node /\ b \notin DOMAIN t
  BY DEF FreePlace
<1>2. Len(b) \in 0..Len(b \o q) /\ Len(b) \in 0..Len(b)
  BY <1>1, ConcatPrefix DEF Node
<1>3. SubSeq(b \o q, 1, Len(b)) \in DOMAIN t
  BY <1>2, Zenon DEF Closed
<1>4. SubSeq(b \o q, 1, Len(b)) = b
  BY <1>1, <1>2, ConcatPrefix, Prefix
<1> QED
  BY <1>1, <1>3, <1>4

\* u has the nodes and values of t, and those of s moved to b.
GraftOf(t, b, s, u) ==
  /\ DOMAIN u = DOMAIN t \union {b \o q : q \in DOMAIN s}
  /\ \A r \in DOMAIN t : u[r] = t[r]
  /\ \A q \in DOMAIN s : b \o q \notin DOMAIN t /\ u[b \o q] = s[q]

LEMMA GraftIs ==
  ASSUME NEW t, DOMAIN t \subseteq Node, Closed(t), NEW b, FreePlace(t, b),
         NEW s, DOMAIN s \subseteq Node
  PROVE  GraftOf(t, b, s, Join(t, Rooted(b, s)))
<1>1. b \in Node
  BY DEF FreePlace
<1>2. PICK c : c = Rooted(b, s)
  OBVIOUS
<1>3. DOMAIN c = {b \o q : q \in DOMAIN s} /\ \A q \in DOMAIN s : c[b \o q] = s[q]
  BY <1>1, <1>2, RootedIs
<1>4. PICK u : u = Join(t, c)
  OBVIOUS
<1>5. u = [p \in DOMAIN t \union DOMAIN c |-> IF p \in DOMAIN t THEN t[p] ELSE c[p]]
  BY <1>4, Zenon DEF Join
<1>6. \A q \in DOMAIN s : b \o q \notin DOMAIN t
  BY FreeBelow
<1>7. GraftOf(t, b, s, u)
  BY <1>3, <1>5, <1>6 DEF GraftOf
<1> QED
  BY <1>2, <1>4, <1>7

\* A search tree put at a free place of another one, to which the descents for all
\* its values lead, makes a search tree.
LEMMA Graft ==
  ASSUME NEW t, SearchTree(t), NEW b, FreePlace(t, b), NEW s, SearchTree(s),
         \A q \in DOMAIN s : Follows(t, s[q], b)
  PROVE  SearchTree(Join(t, Rooted(b, s)))
<1>0. PICK u : u = Join(t, Rooted(b, s))
  OBVIOUS
<1>1. /\ DOMAIN t \subseteq Node /\ DOMAIN s \subseteq Node
      /\ Closed(t) /\ ByDescent(t) /\ Closed(s) /\ ByDescent(s) /\ b \in Node
  BY DEF SearchTree, FreePlace
<1>2. /\ DOMAIN u = DOMAIN t \union {b \o q : q \in DOMAIN s}
      /\ \A r \in DOMAIN t : u[r] = t[r]
      /\ \A q \in DOMAIN s : u[b \o q] = s[q]
  <2>1. GraftOf(t, b, s, Join(t, Rooted(b, s)))
    BY <1>1, GraftIs, Zenon
  <2> QED
    BY <1>0, <2>1 DEF GraftOf
<1>3. DOMAIN u \subseteq Node
  BY <1>1, <1>2, ConcatPrefix
<1>4. IsFiniteSet(DOMAIN u)
  <2>1. IsFiniteSet({b \o q : q \in DOMAIN s})
    <3>1. IsFiniteSet(DOMAIN s)
      BY DEF SearchTree
    <3> QED
      BY <1>1, <3>1, PrependCount
  <2>2. IsFiniteSet(DOMAIN t)
    BY DEF SearchTree
  <2>3. IsFiniteSet(DOMAIN t \union {b \o q : q \in DOMAIN s})
    BY <2>1, <2>2, FS_Union
  <2> QED
    BY <1>2, <2>3
<1>5. \A p \in DOMAIN u : u[p] \in BstValues
  BY <1>2 DEF SearchTree
<1>6. ASSUME NEW q \in DOMAIN s, NEW i \in 0..Len(b \o q)
      PROVE  /\ i < Len(b) => SubSeq(b \o q, 1, i) = SubSeq(b, 1, i) /\ SubSeq(b, 1, i) \in DOMAIN t
             /\ i >= Len(b) => /\ i - Len(b) \in 0..Len(q)
                               /\ SubSeq(b \o q, 1, i) = b \o SubSeq(q, 1, i - Len(b))
                               /\ SubSeq(q, 1, i - Len(b)) \in DOMAIN s
  <2>1. /\ q \in Node /\ Len(b) \in Nat /\ Len(q) \in Nat
        /\ Len(b \o q) = Len(b) + Len(q)
    BY <1>1, ConcatPrefix DEF Node
  <2>2. ASSUME i < Len(b)
        PROVE  SubSeq(b \o q, 1, i) = SubSeq(b, 1, i) /\ SubSeq(b, 1, i) \in DOMAIN t
    <3>1. i \in 0..Len(b)
      BY <2>1, <2>2
    <3> QED
      BY <1>1, <2>1, <2>2, <3>1, ConcatPrefix DEF FreePlace
  <2>3. ASSUME i >= Len(b)
        PROVE  /\ i - Len(b) \in 0..Len(q)
               /\ SubSeq(b \o q, 1, i) = b \o SubSeq(q, 1, i - Len(b))
               /\ SubSeq(q, 1, i - Len(b)) \in DOMAIN s
    <3>1. i - Len(b) \in 0..Len(q) /\ i = Len(b) + (i - Len(b))
      BY <2>1, <2>3
    <3>2. SubSeq(b \o q, 1, Len(b) + (i - Len(b))) = b \o SubSeq(q, 1, i - Len(b))
      BY <1>1, <2>1, <3>1, ConcatPrefix
    <3>3. SubSeq(q, 1, i - Len(b)) \in DOMAIN s
      BY <1>1, <3>1, Zenon DEF Closed
    <3> QED
      BY <3>1, <3>2, <3>3
  <2> QED
    BY <2>2, <2>3
<1>7. Closed(u)
  <2>1. ASSUME NEW r \in DOMAIN t, NEW i \in 0..Len(r)  PROVE SubSeq(r, 1, i) \in DOMAIN u
    BY <1>1, <1>2 DEF Closed
  <2>2. ASSUME NEW q \in DOMAIN s, NEW i \in 0..Len(b \o q)
        PROVE  SubSeq(b \o q, 1, i) \in DOMAIN u
    <3>1. q \in Node /\ Len(b) \in Nat /\ Len(b \o q) \in Nat
      BY <1>1, ConcatPrefix DEF Node
    <3>2. i < Len(b) \/ i >= Len(b)
      BY <3>1
    <3> QED
      BY <1>2, <1>6, <3>2
  <2> QED
    BY <1>2, <2>1, <2>2 DEF Closed
<1>8. ByDescent(u)
  <2>1. ASSUME NEW r \in DOMAIN t  PROVE Follows(u, u[r], r)
    <3>1. ASSUME NEW i \in 1..Len(r)  PROVE u[SubSeq(r, 1, i - 1)] = t[SubSeq(r, 1, i - 1)]
      <4>1. i - 1 \in 0..Len(r)
        BY <1>1 DEF Node
      <4>2. SubSeq(r, 1, i - 1) \in DOMAIN t
        BY <1>1, <4>1, Zenon DEF Closed
      <4> QED
        BY <1>2, <4>2
    <3> QED
      BY <1>1, <1>2, <3>1, ZenonT(60) DEF ByDescent, Follows
  <2>2. ASSUME NEW q \in DOMAIN s  PROVE Follows(u, u[b \o q], b \o q)
    <3>0. q \in Node /\ Len(b) \in Nat /\ Len(q) \in Nat /\ u[b \o q] = s[q]
      <4>1. q \in Node
        BY <1>1
      <4>2. u[b \o q] = s[q]
        BY <1>2
      <4> QED
        BY <1>1, <4>1, <4>2 DEF Node
    <3>1. /\ q \in Node /\ Len(b) \in Nat /\ Len(q) \in Nat
          /\ Len(b \o q) = Len(b) + Len(q) /\ u[b \o q] = s[q]
          /\ \A i \in 1..Len(b) : (b \o q)[i] = b[i]
          /\ \A j \in 1..Len(q) : (b \o q)[Len(b) + j] = q[j]
      BY <1>1, <3>0, ConcatPrefix
    <3>2. Follows(t, s[q], b) /\ Follows(s, s[q], q)
      BY <1>1 DEF ByDescent
    <3>3. ASSUME NEW i \in 1..Len(b \o q)
          PROVE  (b \o q)[i] = Turn(s[q], u[SubSeq(b \o q, 1, i - 1)])
      <4>1. i - 1 \in 0..Len(b \o q)
        BY <3>1
      <4>2. CASE i - 1 < Len(b)
        <5>1. i \in 1..Len(b)
          BY <3>1, <4>2
        <5>2. SubSeq(b \o q, 1, i - 1) = SubSeq(b, 1, i - 1) /\ SubSeq(b, 1, i - 1) \in DOMAIN t
          BY <1>6, <4>1, <4>2
        <5>3. b[i] = Turn(s[q], t[SubSeq(b, 1, i - 1)])
          BY <3>2, <5>1 DEF Follows
        <5> QED
          BY <1>2, <3>1, <5>1, <5>2, <5>3
      <4>3. CASE i - 1 >= Len(b)
        <5>1. PICK j \in Int : j = i - Len(b)
          <6>1. i - Len(b) \in Int
            BY <3>1
          <6> QED
            BY <6>1
        <5>2. j \in 1..Len(q) /\ i = Len(b) + j /\ (i - 1) - Len(b) = j - 1
          BY <3>1, <4>3, <5>1
        <5>3. SubSeq(b \o q, 1, i - 1) = b \o SubSeq(q, 1, j - 1) /\ SubSeq(q, 1, j - 1) \in DOMAIN s
          BY <1>6, <4>1, <4>3, <5>2
        <5>4. q[j] = Turn(s[q], s[SubSeq(q, 1, j - 1)])
          BY <3>2, <5>2 DEF Follows
        <5> QED
          BY <1>2, <3>1, <5>2, <5>3, <5>4
      <4> QED
        BY <3>1, <4>2, <4>3
    <3> QED
      BY <3>1, <3>3 DEF Follows
  <2> QED
    BY <1>2, <2>1, <2>2 DEF ByDescent
<1>9. SearchTree(u)
  BY <1>3, <1>4, <1>5, <1>7, <1>8 DEF SearchTree
<1> QED
  BY <1>0, <1>9

\* A graft brings its values with it.
LEMMA GraftCount ==
  ASSUME NEW t, SearchTree(t), NEW b, FreePlace(t, b), NEW s, SearchTree(s), NEW V
  PROVE  NodeCount(Join(t, Rooted(b, s)), V) = NodeCount(t, V) + NodeCount(s, V)
<1>1. PICK u : u = Join(t, Rooted(b, s))
  OBVIOUS
<1>2. /\ DOMAIN t \subseteq Node /\ DOMAIN s \subseteq Node /\ Closed(t) /\ b \in Node
  BY DEF SearchTree, FreePlace
<1>3. GraftOf(t, b, s, u)
  BY <1>1, <1>2, GraftIs
<1> DEFINE Q == Holding(s, V)
           R == {b \o q : q \in Q}
<1>4. Holding(u, V) = Holding(t, V) \union R /\ Holding(t, V) \intersect R = {}
  BY <1>3 DEF GraftOf, Holding
<1>5. Q \in SUBSET Node /\ IsFiniteSet(Q) /\ IsFiniteSet(Holding(t, V))
  BY <1>2, FS_Subset DEF Holding, SearchTree
<1> HIDE DEF Q
<1>6. IsFiniteSet(R) /\ Cardinality(R) = Cardinality(Q)
  BY <1>2, <1>5, PrependCount
<1> HIDE DEF R
<1>7. /\ Cardinality(Holding(t, V) \union R)
           = Cardinality(Holding(t, V)) + Cardinality(R) - Cardinality(Holding(t, V) \intersect R)
      /\ Cardinality(Holding(t, V) \intersect R) = 0
      /\ Cardinality(Holding(t, V)) \in Nat /\ Cardinality(R) \in Nat
  BY <1>4, <1>5, <1>6, FS_Union, FS_EmptySet, FS_CardinalityType
<1>8. NodeCount(u, V) = NodeCount(t, V) + NodeCount(s, V)
  BY <1>4, <1>6, <1>7 DEF NodeCount, Q
<1> QED
  BY <1>1, <1>8

LEMMA BelowTree ==
  ASSUME NEW t, SearchTree(t), NEW p \in Node
  PROVE  SearchTree(Below(t, p))
<1>1. PICK s : s = Below(t, p)
  OBVIOUS
<1>2. DOMAIN t \subseteq Node /\ Closed(t) /\ ByDescent(t) /\ IsFiniteSet(DOMAIN t)
  BY DEF SearchTree
<1>3. /\ DOMAIN s = {q \in Node : p \o q \in DOMAIN t}
      /\ \A q \in DOMAIN s : s[q] = t[p \o q]
  BY <1>1, <1>2, BelowIs
<1>4. IsFiniteSet(DOMAIN s)
  <2> DEFINE h == [q \in DOMAIN s |-> p \o q]
  <2>1. h \in [DOMAIN s -> DOMAIN t]
    BY <1>3
  <2>2. ASSUME NEW q \in DOMAIN s, NEW z \in DOMAIN s, h[q] = h[z]  PROVE q = z
    <3>1. p \o q = p \o z /\ q \in Node /\ z \in Node
      BY <1>3, <2>2
    <3> QED
      BY <3>1, SameTail
  <2> HIDE DEF h
  <2>3. h \in Injection(DOMAIN s, DOMAIN t)
    BY <2>1, <2>2 DEF Injection, IsInjective
  <2> QED
    BY <1>2, <2>3, FS_Injection
<1>5. ASSUME NEW q \in DOMAIN s, NEW i \in 0..Len(q)
      PROVE  /\ SubSeq(q, 1, i) \in DOMAIN s
             /\ s[SubSeq(q, 1, i)] = t[SubSeq(p \o q, 1, Len(p) + i)]
  <2>1. q \in Node /\ p \o q \in DOMAIN t /\ SubSeq(q, 1, i) \in Node
    BY <1>3, Prefix
  <2>2. /\ Len(p \o q) = Len(p) + Len(q) /\ Len(p) \in Nat /\ Len(q) \in Nat
        /\ SubSeq(p \o q, 1, Len(p) + i) = p \o SubSeq(q, 1, i)
    BY <2>1, ConcatPrefix, SMTT(30) DEF Node
  <2>3. Len(p) + i \in 0..Len(p \o q)
    BY <2>2
  <2>4. SubSeq(p \o q, 1, Len(p) + i) \in DOMAIN t
    BY <1>2, <2>1, <2>3, Zenon DEF Closed
  <2> QED
    BY <1>3, <2>1, <2>2, <2>4
<1>6. ASSUME NEW q \in DOMAIN s  PROVE Follows(s, s[q], q)
  <2>1. q \in Node /\ p \o q \in DOMAIN t /\ s[q] = t[p \o q]
    BY <1>3
  <2>2. /\ Len(p \o q) = Len(p) + Len(q) /\ Len(p) \in Nat /\ Len(q) \in Nat
        /\ \A j \in 1..Len(q) : (p \o q)[Len(p) + j] = q[j]
    BY <2>1, ConcatPrefix DEF Node
  <2>3. Follows(t, t[p \o q], p \o q)
    BY <1>2, <2>1 DEF ByDescent
  <2>4. ASSUME NEW j \in 1..Len(q)  PROVE q[j] = Turn(s[q], s[SubSeq(q, 1, j - 1)])
    <3>1. j - 1 \in 0..Len(q) /\ Len(p) + j \in 1..Len(p \o q) /\ Len(p) + (j - 1) = (Len(p) + j) - 1
      BY <2>2
    <3>2. s[SubSeq(q, 1, j - 1)] = t[SubSeq(p \o q, 1, (Len(p) + j) - 1)]
      BY <1>5, <3>1
    <3>3. (p \o q)[Len(p) + j] = Turn(t[p \o q], t[SubSeq(p \o q, 1, (Len(p) + j) - 1)])
      BY <2>3, <3>1, Zenon DEF Follows
    <3> QED
      BY <2>1, <2>2, <3>2, <3>3
  <2> QED
    BY <2>4 DEF Follows
<1>7. \A q \in DOMAIN s : s[q] \in BstValues
  BY <1>3 DEF SearchTree
<1>8. SearchTree(s)
  <2>1. DOMAIN s \subseteq Node
    BY <1>3
  <2>2. Closed(s) /\ ByDescent(s)
    BY <1>5, <1>6 DEF Closed, ByDescent
  <2> QED
    BY <1>4, <1>7, <2>1, <2>2 DEF SearchTree
<1> QED
  BY <1>1, <1>8

\* t without the node at p and what is below it.
Outside(t, p) == [q \in {q \in DOMAIN t : ~IsPrefix(p, q)} |-> t[q]]

LEMMA OutsideTree ==
  ASSUME NEW t, SearchTree(t), NEW p \in DOMAIN t
  PROVE  SearchTree(Outside(t, p)) /\ FreePlace(Outside(t, p), p)
<1>1. PICK o : o = Outside(t, p)
  OBVIOUS
<1>2. /\ DOMAIN t \subseteq Node /\ Closed(t) /\ ByDescent(t) /\ IsFiniteSet(DOMAIN t)
      /\ p \in Node
  BY DEF SearchTree
<1>3. /\ DOMAIN o = {q \in DOMAIN t : ~IsPrefix(p, q)}
      /\ \A q \in DOMAIN o : o[q] = t[q]
  BY <1>1 DEF Outside
<1>4. ASSUME NEW r \in DOMAIN o, NEW i \in 0..Len(r)  PROVE SubSeq(r, 1, i) \in DOMAIN o
  <2>1. r \in DOMAIN t /\ r \in Node /\ SubSeq(r, 1, i) \in DOMAIN t
    BY <1>2, <1>3 DEF Closed
  <2>2. ASSUME IsPrefix(p, SubSeq(r, 1, i))  PROVE IsPrefix(p, r)
    <3>1. PICK a \in Node : a = SubSeq(r, 1, i)
      BY <2>1, Prefix
    <3>2. Len(a) = i /\ \A j \in 0..i : SubSeq(a, 1, j) = SubSeq(r, 1, j)
      BY <2>1, <3>1, Prefix
    <3>3. Len(p) <= Len(a) /\ SubSeq(p, 1, Len(p)) = SubSeq(a, 1, Len(p))
      BY <2>2, <3>1 DEF IsPrefix
    <3>4. Len(p) \in 0..i /\ Len(p) <= Len(r)
      BY <1>2, <2>1, <3>2, <3>3 DEF Node
    <3> QED
      BY <3>2, <3>3, <3>4 DEF IsPrefix
  <2> QED
    BY <1>3, <2>1, <2>2
<1>5. SearchTree(o)
  <2>1. DOMAIN o \subseteq Node /\ IsFiniteSet(DOMAIN o)
    BY <1>2, <1>3, FS_Subset
  <2>2. \A q \in DOMAIN o : o[q] \in BstValues
    BY <1>3 DEF SearchTree
  <2>3. Closed(o)
    BY <1>4 DEF Closed
  <2>4. ASSUME NEW r \in DOMAIN o  PROVE Follows(o, o[r], r)
    <3>1. r \in DOMAIN t /\ r \in Node /\ o[r] = t[r] /\ Follows(t, t[r], r)
      BY <1>2, <1>3 DEF ByDescent
    <3>2. ASSUME NEW i \in 1..Len(r)  PROVE o[SubSeq(r, 1, i - 1)] = t[SubSeq(r, 1, i - 1)]
      <4>1. i - 1 \in 0..Len(r)
        BY <3>1 DEF Node
      <4> QED
        BY <1>3, <1>4, <4>1
    <3> QED
      BY <3>1, <3>2 DEF Follows
  <2> QED
    BY <2>1, <2>2, <2>3, <2>4 DEF SearchTree, ByDescent
<1>6. FreePlace(o, p)
  <2>1. IsPrefix(p, p)
    BY <1>2 DEF IsPrefix, Node
  <2>2. ASSUME NEW i \in 0..Len(p), i < Len(p)  PROVE SubSeq(p, 1, i) \in DOMAIN o
    <3>1. SubSeq(p, 1, i) \in DOMAIN t
      BY <1>2 DEF Closed
    <3>2. Len(SubSeq(p, 1, i)) = i
      BY <1>2, Prefix
    <3>3. ~IsPrefix(p, SubSeq(p, 1, i))
      BY <2>2, <3>2 DEF IsPrefix
    <3> QED
      BY <1>3, <3>1, <3>3
  <2> QED
    BY <1>2, <1>3, <2>1, <2>2 DEF FreePlace
<1> QED
  BY <1>1, <1>5, <1>6

\* A path below p goes through one of the two children of p.
LEMMA ChildPath ==
  ASSUME NEW p \in Node, NEW d \in Side
  PROVE  /\ Append(p, d) \in Node /\ Len(Append(p, d)) = Len(p) + 1
         /\ \A i \in 1..Len(p) : Append(p, d)[i] = p[i]
         /\ Append(p, d)[Len(p) + 1] = d
         /\ \A i \in 0..Len(p) : SubSeq(Append(p, d), 1, i) = SubSeq(p, 1, i)
<1>1. /\ Append(p, d) \in Node /\ Len(Append(p, d)) = Len(p) + 1
      /\ \A i \in 1..Len(p) : Append(p, d)[i] = p[i]
      /\ Append(p, d)[Len(p) + 1] = d
  BY DEF Node
<1>2. ASSUME NEW i \in 0..Len(p)  PROVE SubSeq(Append(p, d), 1, i) = SubSeq(p, 1, i)
  <2>1. PICK a \in Node : a = Append(p, d)
    BY <1>1
  <2>2. /\ SubSeq(a, 1, i) \in Node /\ Len(SubSeq(a, 1, i)) = i
        /\ \A j \in 1..i : SubSeq(a, 1, i)[j] = a[j]
    BY <1>1, <2>1, Prefix DEF Node
  <2>3. /\ SubSeq(p, 1, i) \in Node /\ Len(SubSeq(p, 1, i)) = i
        /\ \A j \in 1..i : SubSeq(p, 1, i)[j] = p[j]
    BY Prefix
  <2>4. \A j \in 1..i : a[j] = p[j]
    BY <1>1, <2>1 DEF Node
  <2>5. SubSeq(a, 1, i) = SubSeq(p, 1, i)
    BY <2>2, <2>3, <2>4, SeqEqual DEF Node
  <2> QED
    BY <2>1, <2>5
<1> QED
  BY <1>1, <1>2

LEMMA BelowChild ==
  ASSUME NEW p \in Node, NEW d \in Side, NEW q \in Node,
         NEW r, r = Append(p, d) \o q
  PROVE  r \in Node /\ IsPrefix(p, r) /\ r # p /\ r[Len(p) + 1] = d /\ SubSeq(r, 1, Len(p)) = p
<1>1. PICK a \in Node : a = Append(p, d)
  BY ChildPath
<1>2. /\ Len(a) = Len(p) + 1 /\ a[Len(p) + 1] = d /\ Len(p) \in Nat /\ Len(q) \in Nat
      /\ SubSeq(a, 1, Len(p)) = SubSeq(p, 1, Len(p))
  BY <1>1, ChildPath DEF Node
<1>3. /\ r \in Node /\ Len(r) = Len(a) + Len(q)
      /\ \A i \in 0..Len(a) : SubSeq(r, 1, i) = SubSeq(a, 1, i)
      /\ \A i \in 1..Len(a) : r[i] = a[i]
  BY <1>1, ConcatPrefix, ZenonT(60)
<1>4. Len(p) \in 0..Len(a) /\ Len(p) + 1 \in 1..Len(a) /\ Len(p) < Len(r)
  BY <1>2, <1>3
<1>5. SubSeq(r, 1, Len(p)) = SubSeq(p, 1, Len(p)) /\ r[Len(p) + 1] = d
  BY <1>2, <1>3, <1>4
<1>6. SubSeq(p, 1, Len(p)) = p
  BY <1>2, Prefix
<1>7. IsPrefix(p, r)
  BY <1>4, <1>5 DEF IsPrefix
<1>8. r # p
  BY <1>4
<1> QED
  BY <1>3, <1>5, <1>6, <1>7, <1>8

LEMMA ThroughChild ==
  ASSUME NEW p \in Node, NEW r \in Node, IsPrefix(p, r), r # p
  PROVE  \E d \in Side : \E q \in Node : r = Append(p, d) \o q
<1>1. PICK z \in Node : r = p \o z
  BY PrefixConcat
<1>2. /\ Len(r) = Len(p) + Len(z) /\ \A i \in 1..Len(p) : r[i] = p[i]
      /\ Len(p) \in Nat /\ Len(z) \in Nat
  BY <1>1, ConcatPrefix DEF Node
<1>3. Len(z) # 0
  <2>1. ASSUME Len(z) = 0  PROVE r = p
    BY <1>2, <2>1, SeqEqual DEF Node
  <2> QED
    BY <2>1
<1>4. Len(p) + 1 \in 1..Len(r)
  BY <1>2, <1>3
<1>5. PICK d \in Side : d = r[Len(p) + 1]
  BY <1>4, ElementOfSeq DEF Node
<1>6. PICK a \in Node : a = Append(p, d)
  BY ChildPath
<1>7. /\ Len(a) = Len(p) + 1 /\ a[Len(p) + 1] = d
      /\ \A i \in 1..Len(p) : a[i] = p[i]
  BY <1>6, ChildPath
<1>8. /\ SubSeq(a, 1, Len(a)) = a /\ Len(a) \in 0..Len(r) /\ Len(a) <= Len(r)
  BY <1>2, <1>4, <1>7, Prefix
<1>9. /\ SubSeq(r, 1, Len(a)) \in Node /\ Len(SubSeq(r, 1, Len(a))) = Len(a)
      /\ \A j \in 1..Len(a) : SubSeq(r, 1, Len(a))[j] = r[j]
  BY <1>8, Prefix
<1>10. \A j \in 1..Len(a) : a[j] = r[j]
  BY <1>2, <1>5, <1>7
<1>11. SubSeq(r, 1, Len(a)) = a
  BY <1>9, <1>10, SeqEqual DEF Node
<1>12. IsPrefix(a, r)
  BY <1>8, <1>11 DEF IsPrefix
<1> QED
  BY <1>6, <1>12, PrefixConcat, ZenonT(60)

\* The nodes of t are those outside of p, the one at p and those of the subtrees
\* of its two children.
LEMMA SplitCount ==
  ASSUME NEW t, SearchTree(t), NEW p \in DOMAIN t, NEW V
  PROVE  NodeCount(t, V) = NodeCount(Outside(t, p), V) + (IF t[p] \in V THEN 1 ELSE 0)
                       + NodeCount(Below(t, Append(p, "left")), V)
                       + NodeCount(Below(t, Append(p, "right")), V)
<1>1. DOMAIN t \subseteq Node /\ IsFiniteSet(DOMAIN t) /\ p \in Node
  BY DEF SearchTree
<1>2. PICK a, b : a = Append(p, "left") /\ b = Append(p, "right")
  OBVIOUS
<1>3. a \in Node /\ b \in Node
  BY <1>1, <1>2, ChildPath DEF Side
<1>4. PICK l, r : l = Below(t, a) /\ r = Below(t, b)
  OBVIOUS
<1>5. /\ DOMAIN l = {q \in Node : a \o q \in DOMAIN t} /\ \A q \in DOMAIN l : l[q] = t[a \o q]
      /\ DOMAIN r = {q \in Node : b \o q \in DOMAIN t} /\ \A q \in DOMAIN r : r[q] = t[b \o q]
  BY <1>1, <1>3, <1>4, BelowIs
<1>6. IsFiniteSet(DOMAIN l) /\ IsFiniteSet(DOMAIN r)
  BY <1>3, <1>4, BelowTree DEF SearchTree
<1> DEFINE O == Holding(Outside(t, p), V)
           P == {q \in {p} : t[q] \in V}
           L == {a \o q : q \in Holding(l, V)}
           R == {b \o q : q \in Holding(r, V)}
<1>7. /\ O = {q \in DOMAIN t : ~IsPrefix(p, q) /\ t[q] \in V}
      /\ P \subseteq {p}
  BY DEF Outside, Holding
<1>8. /\ L = {z \in DOMAIN t : t[z] \in V /\ \E q \in Node : z = a \o q}
      /\ R = {z \in DOMAIN t : t[z] \in V /\ \E q \in Node : z = b \o q}
  BY <1>5 DEF Holding
<1>9. Holding(t, V) = (O \union P) \union (L \union R)
  <2>1. ASSUME NEW z \in Holding(t, V), z \notin O, z \notin P  PROVE z \in L \union R
    <3>1. z \in DOMAIN t /\ z \in Node /\ t[z] \in V /\ IsPrefix(p, z) /\ z # p
      BY <1>1, <1>7, <2>1 DEF Holding
    <3>2. PICK d \in Side, q \in Node : z = Append(p, d) \o q
      BY <1>1, <3>1, ThroughChild
    <3>3. z = a \o q \/ z = b \o q
      BY <1>2, <3>2 DEF Side
    <3> HIDE DEF L, R
    <3> QED
      BY <1>8, <3>1, <3>3
  <2>2. O \subseteq Holding(t, V) /\ P \subseteq Holding(t, V)
    BY <1>7 DEF Holding
  <2>3. L \subseteq Holding(t, V) /\ R \subseteq Holding(t, V)
    BY <1>8 DEF Holding
  <2> QED
    BY <2>1, <2>2, <2>3
<1>10. ASSUME NEW z \in L  PROVE z # p /\ IsPrefix(p, z) /\ z[Len(p) + 1] = "left"
  <2>1. PICK q \in Node : z = a \o q
    BY <1>8
  <2>2. z = Append(p, "left") \o q /\ "left" \in Side
    BY <1>2, <2>1 DEF Side
  <2> QED
    BY <1>1, <2>2, BelowChild
<1>11. ASSUME NEW z \in R  PROVE z # p /\ IsPrefix(p, z) /\ z[Len(p) + 1] = "right"
  <2>1. PICK q \in Node : z = b \o q
    BY <1>8
  <2>2. z = Append(p, "right") \o q /\ "right" \in Side
    BY <1>2, <2>1 DEF Side
  <2> QED
    BY <1>1, <2>2, BelowChild
<1>12. IsPrefix(p, p)
  BY <1>1 DEF IsPrefix, Node
<1>13. /\ IsFiniteSet(Holding(l, V)) /\ Holding(l, V) \in SUBSET Node
       /\ IsFiniteSet(Holding(r, V)) /\ Holding(r, V) \in SUBSET Node
  BY <1>5, <1>6, FS_Subset DEF Holding
<1>14. /\ IsFiniteSet(L) /\ Cardinality(L) = NodeCount(l, V)
       /\ IsFiniteSet(R) /\ Cardinality(R) = NodeCount(r, V)
  BY <1>3, <1>13, PrependCount DEF NodeCount
<1>15. IsFiniteSet(O) /\ IsFiniteSet(P)
  BY <1>1, <1>7, FS_Subset, FS_Singleton
<1>16. Cardinality(P) = IF t[p] \in V THEN 1 ELSE 0
  <2>1. P = IF t[p] \in V THEN {p} ELSE {}
    OBVIOUS
  <2> QED
    BY <2>1, FS_Singleton, FS_EmptySet
<1>17. Cardinality(O) = NodeCount(Outside(t, p), V)
  BY DEF NodeCount
<1>18. O \intersect P = {} /\ L \intersect R = {} /\ (O \union P) \intersect (L \union R) = {}
  BY <1>7, <1>10, <1>11, <1>12
<1> HIDE DEF O, P, L, R
<1>19. /\ Cardinality(O \union P) = Cardinality(O) + Cardinality(P) - Cardinality(O \intersect P)
       /\ Cardinality(L \union R) = Cardinality(L) + Cardinality(R) - Cardinality(L \intersect R)
       /\ IsFiniteSet(O \union P) /\ IsFiniteSet(L \union R)
  BY <1>14, <1>15, FS_Union
<1>20. Cardinality((O \union P) \union (L \union R))
       = Cardinality(O \union P) + Cardinality(L \union R)
         - Cardinality((O \union P) \intersect (L \union R))
  BY <1>19, FS_Union
<1>21. /\ Cardinality(O) \in Nat /\ Cardinality(P) \in Nat
       /\ Cardinality(L) \in Nat /\ Cardinality(R) \in Nat
  BY <1>14, <1>15, FS_CardinalityType
<1>22. /\ Cardinality(O \intersect P) = 0 /\ Cardinality(L \intersect R) = 0
       /\ Cardinality((O \union P) \intersect (L \union R)) = 0
  BY <1>18, FS_EmptySet
<1>23. Cardinality((O \union P) \union (L \union R))
       = Cardinality(O) + Cardinality(P) + Cardinality(L) + Cardinality(R)
  BY <1>19, <1>20, <1>21, <1>22
<1>24. NodeCount(t, V) = Cardinality(O) + Cardinality(P) + Cardinality(L) + Cardinality(R)
  BY <1>9, <1>23 DEF NodeCount
<1> QED
  BY <1>2, <1>4, <1>14, <1>16, <1>17, <1>21, <1>24

-----------------------------------------------------------------------------
(***************************************************************************)
(* The descent                                                             *)
(***************************************************************************)

\* A non-empty set of natural numbers has a least element.
LEMMA LeastNumber ==
  ASSUME NEW S \in SUBSET Nat, S # {}
  PROVE  \E m \in S : \A k \in S : m <= k
<1>1. PICK m \in S : \A k \in S : ~ (<<k, m>> \in OpToRel(<, Nat))
  BY NatLessThanWellFounded, WFMin, Zenon
<1>2. ASSUME NEW k \in S, k < m  PROVE  <<k, m>> \in OpToRel(<, Nat)
  BY <1>2 DEF OpToRel
<1>3. \A k \in S : ~ (k < m)
  BY <1>1, <1>2, Zenon
<1>4. m \in Nat /\ \A k \in S : k \in Nat
  OBVIOUS
<1> QED
  BY <1>3, <1>4

LEMMA TurnIs ==
  ASSUME NEW v \in BstValues, NEW w \in BstValues
  PROVE  /\ Turn(v, w) \in Side /\ v \in Nat /\ w \in Nat
         /\ Turn(v, w) = "left" <=> v < w
         /\ Turn(v, w) = "right" <=> w <= v
<1>1. v \in Nat /\ w \in Nat
  BY BstAssumption
<1> QED
  BY <1>1 DEF Turn, Side

\* A node has as many nodes above it as its path is long.
LEMMA Depth ==
  ASSUME NEW t, SearchTree(t), NEW p \in DOMAIN t
  PROVE  Len(p) < Cardinality(DOMAIN t)
<1> DEFINE h == [i \in 0..Len(p) |-> SubSeq(p, 1, i)]
<1>1. p \in Node /\ Len(p) \in Nat /\ Closed(t) /\ IsFiniteSet(DOMAIN t)
  BY DEF SearchTree, Node
<1>2. h \in [0..Len(p) -> DOMAIN t]
  BY <1>1 DEF Closed
<1>3. ASSUME NEW i \in 0..Len(p), NEW j \in 0..Len(p), h[i] = h[j]  PROVE i = j
  <2>1. Len(SubSeq(p, 1, i)) = i /\ Len(SubSeq(p, 1, j)) = j
    BY <1>1, Prefix
  <2> QED
    BY <1>3, <2>1
<1> HIDE DEF h
<1>4. h \in Injection(0..Len(p), DOMAIN t)
  BY <1>2, <1>3 DEF Injection, IsInjective
<1>5. Cardinality(0..Len(p)) <= Cardinality(DOMAIN t)
  BY <1>1, <1>4, FS_Injection
<1>6. Cardinality(0..Len(p)) = Len(p) + 1
  BY <1>1, FS_Interval
<1>7. Cardinality(DOMAIN t) \in Nat
  BY <1>1, FS_CardinalityType
<1> QED
  BY <1>1, <1>5, <1>6, <1>7

LEMMA RootThere ==
  ASSUME NEW t, SearchTree(t), ~Empty(t)
  PROVE  <<>> \in DOMAIN t
<1>1. PICK p \in DOMAIN t : TRUE
  BY DEF Empty
<1>2. p \in Node /\ 0 \in 0..Len(p) /\ Closed(t)
  BY DEF SearchTree, Node
<1>3. SubSeq(p, 1, 0) \in DOMAIN t /\ SubSeq(p, 1, 0) = <<>>
  BY <1>2, Prefix DEF Closed
<1> QED
  BY <1>3

\* The places under a node, and those of them that are free and on the descent for v.
Children(t) == {Append(p, s) : p \in DOMAIN t, s \in Side}
Gap(t, v, q) == q \notin DOMAIN t /\ Follows(t, v, q)

\* If there is one Bottom finds one.
LEMMA BottomChosen ==
  ASSUME NEW t, NEW v, ~Empty(t), NEW a \in Children(t), Gap(t, v, a)
  PROVE  Bottom(t, v) \in Children(t) /\ Gap(t, v, Bottom(t, v))
<1>1. Bottom(t, v) =
        IF Empty(t) THEN <<>>
        ELSE CHOOSE q \in Children(t) : Gap(t, v, q)
  <2>1. Bottom(t, v) =
          IF Empty(t) THEN <<>>
          ELSE CHOOSE q \in {Append(p, s) : p \in DOMAIN t, s \in Side} :
                 q \notin DOMAIN t /\ Follows(t, v, q)
    BY DEF Bottom
  <2> QED
    BY <2>1 DEF Children, Gap
<1>2. Bottom(t, v) = CHOOSE q \in Children(t) : Gap(t, v, q)
  BY <1>1
<1> QED
  BY <1>2, Zenon

\* The descent for any value ends at a free place.
LEMMA BottomIs ==
  ASSUME NEW t, SearchTree(t), NEW v \in BstValues
  PROVE  FreePlace(t, Bottom(t, v)) /\ Follows(t, v, Bottom(t, v))
<1>1. DOMAIN t \subseteq Node /\ Closed(t) /\ IsFiniteSet(DOMAIN t)
  BY DEF SearchTree
<1>2. CASE Empty(t)
  <2>1. Bottom(t, v) = <<>>
    BY <1>2 DEF Bottom
  <2>2. <<>> \in Node /\ Len(<<>>) = 0 /\ <<>> \notin DOMAIN t
    BY <1>2 DEF Empty, Node
  <2>3. FreePlace(t, <<>>) /\ Follows(t, v, <<>>)
    BY <2>2 DEF FreePlace, Follows
  <2> QED
    BY <2>1, <2>3
<1>3. CASE ~Empty(t)
  <2> DEFINE S == {n \in Nat : \A p \in DOMAIN t : Follows(t, v, p) => Len(p) < n}
  <2>1. PICK p \in DOMAIN t :
          /\ Follows(t, v, p)
          /\ \A q \in DOMAIN t : Follows(t, v, q) => Len(q) <= Len(p)
    <3>1. Cardinality(DOMAIN t) \in S
      BY <1>1, Depth, FS_CardinalityType
    <3>2. PICK n \in S : \A k \in S : n <= k
      BY <3>1, LeastNumber
    <3>3. <<>> \in DOMAIN t /\ Follows(t, v, <<>>) /\ Len(<<>>) = 0
      BY <1>3, RootThere DEF Follows
    <3>4. n \in Nat /\ n > 0 /\ n - 1 \in Nat /\ ~(n <= n - 1)
      BY <3>3
    <3>5. n - 1 \notin S
      BY <3>2, <3>4
    <3>6. PICK p \in DOMAIN t : Follows(t, v, p) /\ ~(Len(p) < n - 1)
      BY <3>4, <3>5
    <3>7. \A q \in DOMAIN t : Len(q) \in Nat
      BY <1>1 DEF Node
    <3>8. \A q \in DOMAIN t : Follows(t, v, q) => Len(q) < n
      OBVIOUS
    <3> HIDE DEF S
    <3> QED
      BY <3>4, <3>6, <3>7, <3>8
  <2>2. p \in Node /\ Len(p) \in Nat /\ t[p] \in BstValues
    BY <1>1 DEF SearchTree, Node
  <2>3. PICK d \in Side : d = Turn(v, t[p])
    BY <2>2, TurnIs
  <2>4. PICK a \in Node : a = Append(p, d)
    BY <2>2, ChildPath
  <2>5. /\ Len(a) = Len(p) + 1 /\ a[Len(p) + 1] = d
        /\ \A i \in 1..Len(p) : a[i] = p[i]
        /\ \A i \in 0..Len(p) : SubSeq(a, 1, i) = SubSeq(p, 1, i)
    BY <2>2, <2>4, ChildPath
  <2>6. Follows(t, v, a)
    <3>1. ASSUME NEW i \in 1..Len(a)  PROVE a[i] = Turn(v, t[SubSeq(a, 1, i - 1)])
      <4>1. CASE i <= Len(p)
        <5>1. i \in 1..Len(p) /\ i - 1 \in 0..Len(p)
          BY <2>2, <4>1
        <5>2. p[i] = Turn(v, t[SubSeq(p, 1, i - 1)])
          BY <2>1, <5>1 DEF Follows
        <5> QED
          BY <2>5, <5>1, <5>2
      <4>2. CASE i = Len(p) + 1
        <5>1. i - 1 = Len(p) /\ Len(p) \in 0..Len(p)
          BY <2>2, <4>2
        <5>2. SubSeq(a, 1, i - 1) = p
          BY <2>2, <2>5, <5>1, Prefix
        <5> QED
          BY <2>3, <2>5, <4>2, <5>2
      <4> QED
        BY <2>2, <2>5, <4>1, <4>2
    <3> QED
      BY <3>1 DEF Follows
  <2>7. a \notin DOMAIN t
    BY <2>1, <2>2, <2>5, <2>6
  <2>9. PICK c : c = Bottom(t, v)
    OBVIOUS
  <2>10. a \in Children(t) /\ Gap(t, v, a)
    BY <2>4, <2>6, <2>7 DEF Children, Gap
  <2>11. c \in Children(t) /\ c \notin DOMAIN t /\ Follows(t, v, c)
    BY <1>3, <2>9, <2>10, BottomChosen DEF Gap
  <2>12. PICK q \in DOMAIN t, e \in Side : c = Append(q, e)
    BY <2>11 DEF Children
  <2>13. /\ q \in Node /\ Len(q) \in Nat /\ c \in Node /\ Len(c) = Len(q) + 1
         /\ \A i \in 0..Len(q) : SubSeq(c, 1, i) = SubSeq(q, 1, i)
    BY <1>1, <2>12, ChildPath DEF Node
  <2>14. ASSUME NEW i \in 0..Len(c), i < Len(c)  PROVE SubSeq(c, 1, i) \in DOMAIN t
    <3>1. i \in 0..Len(q)
      BY <2>13, <2>14
    <3> QED
      BY <1>1, <2>13, <3>1 DEF Closed
  <2>15. FreePlace(t, c)
    BY <2>11, <2>13, <2>14 DEF FreePlace
  <2> QED
    BY <2>9, <2>11, <2>15
<1> QED
  BY <1>2, <1>3

\* What leads to a node leads to those above it.
LEMMA FollowsPrefix ==
  ASSUME NEW t, NEW v, NEW p \in Node, NEW r \in Node, IsPrefix(p, r), Follows(t, v, r)
  PROVE  Follows(t, v, p)
<1>1. PICK q \in Node : r = p \o q
  BY PrefixConcat
<1>2. /\ Len(r) = Len(p) + Len(q) /\ Len(p) \in Nat /\ Len(q) \in Nat
      /\ \A i \in 0..Len(p) : SubSeq(r, 1, i) = SubSeq(p, 1, i)
      /\ \A i \in 1..Len(p) : r[i] = p[i]
  BY <1>1, ConcatPrefix DEF Node
<1>3. ASSUME NEW i \in 1..Len(p)  PROVE p[i] = Turn(v, t[SubSeq(p, 1, i - 1)])
  <2>1. i \in 1..Len(r) /\ i - 1 \in 0..Len(p)
    BY <1>2
  <2>2. r[i] = Turn(v, t[SubSeq(r, 1, i - 1)])
    BY <2>1 DEF Follows
  <2> QED
    BY <1>2, <2>1, <2>2
<1> QED
  BY <1>3 DEF Follows

\* The values below a node: the descents for them go through it, to their side.
LEMMA ChildValue ==
  ASSUME NEW t, SearchTree(t), NEW p \in DOMAIN t, NEW d \in Side,
         NEW q \in DOMAIN Below(t, Append(p, d))
  PROVE  /\ Below(t, Append(p, d))[q] \in BstValues
         /\ Follows(t, Below(t, Append(p, d))[q], p)
         /\ Turn(Below(t, Append(p, d))[q], t[p]) = d
<1>1. DOMAIN t \subseteq Node /\ ByDescent(t) /\ p \in Node /\ Append(p, d) \in Node
  BY ChildPath DEF SearchTree
<1>2. PICK r : r = Append(p, d) \o q
  OBVIOUS
<1>3. r \in DOMAIN t /\ q \in Node /\ Below(t, Append(p, d))[q] = t[r]
  BY <1>1, <1>2, BelowIs
<1>4. r \in Node /\ IsPrefix(p, r) /\ r # p /\ r[Len(p) + 1] = d /\ SubSeq(r, 1, Len(p)) = p
  <2>1. q \in Node
    BY <1>3
  <2> QED
    BY <1>1, <1>2, <2>1, BelowChild
<1>5. Follows(t, t[r], r) /\ t[r] \in BstValues
  BY <1>1, <1>3 DEF ByDescent, SearchTree
<1>6. Follows(t, t[r], p)
  BY <1>1, <1>4, <1>5, FollowsPrefix
<1>7. Len(p) + 1 \in 1..Len(r) /\ (Len(p) + 1) - 1 = Len(p)
  <2>1. Len(p) <= Len(r) /\ Len(p) \in Nat /\ Len(r) \in Nat
    BY <1>1, <1>4 DEF IsPrefix, Node
  <2>2. Len(p) # Len(r)
    BY <1>4, Prefix
  <2> QED
    BY <2>1, <2>2
<1>8. r[Len(p) + 1] = Turn(t[r], t[SubSeq(r, 1, (Len(p) + 1) - 1)])
  BY <1>5, <1>7, Zenon DEF Follows
<1>9. Turn(t[r], t[p]) = d
  BY <1>4, <1>7, <1>8
<1> QED
  BY <1>3, <1>5, <1>6, <1>9

-----------------------------------------------------------------------------
(***************************************************************************)
(* What the operations make of a search tree                               *)
(***************************************************************************)

LEMMA EmptyCount ==
  ASSUME NEW t, Empty(t), NEW V
  PROVE  NodeCount(t, V) = 0
<1>1. Holding(t, V) = {}
  BY DEF Empty, Holding
<1> QED
  BY <1>1, FS_EmptySet DEF NodeCount

LEMMA CountType ==
  ASSUME NEW t, SearchTree(t), NEW V
  PROVE  NodeCount(t, V) \in Nat /\ IsFiniteSet(Holding(t, V))
<1>1. IsFiniteSet(Holding(t, V))
  BY FS_Subset DEF SearchTree, Holding
<1> QED
  BY <1>1, FS_CardinalityType DEF NodeCount

LEMMA NewNode ==
  ASSUME NEW v \in BstValues, NEW V
  PROVE  /\ SearchTree(newNode(v)) /\ \A q \in DOMAIN newNode(v) : newNode(v)[q] = v
         /\ NodeCount(newNode(v), V) = IF v \in V THEN 1 ELSE 0
<1>1. PICK s : s = newNode(v)
  OBVIOUS
<1>2. DOMAIN s = {<<>>} /\ s[<<>>] = v
  BY <1>1 DEF newNode
<1>3. <<>> \in Node /\ Len(<<>>) = 0 /\ \A i \in 0..0 : SubSeq(<<>>, 1, i) = <<>>
  BY DEF Node
<1>4. SearchTree(s)
  <2>1. DOMAIN s \subseteq Node /\ IsFiniteSet(DOMAIN s) /\ \A p \in DOMAIN s : s[p] \in BstValues
    BY <1>2, <1>3, FS_Singleton
  <2>2. Closed(s)
    BY <1>2, <1>3 DEF Closed
  <2>3. ByDescent(s)
    BY <1>2, <1>3 DEF ByDescent, Follows
  <2> QED
    BY <2>1, <2>2, <2>3 DEF SearchTree
<1>5. Holding(s, V) = IF v \in V THEN {<<>>} ELSE {}
  BY <1>2 DEF Holding
<1>6. NodeCount(s, V) = IF v \in V THEN 1 ELSE 0
  BY <1>5, FS_Singleton, FS_EmptySet DEF NodeCount
<1> QED
  BY <1>1, <1>2, <1>4, <1>6

\* insertNode makes a search tree of two whose values are apart: the whole of the
\* smaller one goes to the end of the chain of left pointers of the other.
LEMMA MergeIs ==
  ASSUME NEW r, SearchTree(r), NEW l, SearchTree(l), Empty(r) \/ ~Empty(l),
         \A q \in DOMAIN l : \A z \in DOMAIN r : l[q] < r[z],
         NEW V
  PROVE  /\ SearchTree(insertNode(r, l))
         /\ NodeCount(insertNode(r, l), V) = NodeCount(r, V) + NodeCount(l, V)
         /\ \A z \in DOMAIN insertNode(r, l) :
              \/ \E q \in DOMAIN l : insertNode(r, l)[z] = l[q]
              \/ \E q \in DOMAIN r : insertNode(r, l)[z] = r[q]
<1>1. CASE Empty(r)
  <2>1. insertNode(r, l) = l
    BY <1>1 DEF insertNode
  <2>2. NodeCount(r, V) = 0 /\ NodeCount(l, V) \in Nat
    BY <1>1, EmptyCount, CountType
  <2> QED
    BY <2>1, <2>2
<1>2. CASE ~Empty(r)
  <2>1. <<>> \in DOMAIN l /\ l[<<>>] \in BstValues
    BY <1>2, RootThere DEF SearchTree
  <2>2. PICK x \in BstValues : x = l[<<>>]
    BY <2>1
  <2>3. PICK b : b = Bottom(r, x)
    OBVIOUS
  <2>4. FreePlace(r, b) /\ Follows(r, x, b)
    BY <2>3, BottomIs
  <2>5. insertNode(r, l) = Join(r, Rooted(b, l))
    BY <1>2, <2>2, <2>3 DEF insertNode
  <2>6. ASSUME NEW q \in DOMAIN l  PROVE Follows(r, l[q], b)
    <3>1. ASSUME NEW i \in 1..Len(b)  PROVE b[i] = Turn(l[q], r[SubSeq(b, 1, i - 1)])
      <4>1. i - 1 \in 0..Len(b) /\ i - 1 < Len(b)
        BY <2>4 DEF FreePlace, Node
      <4>2. PICK z \in DOMAIN r : z = SubSeq(b, 1, i - 1)
        BY <2>4, <4>1 DEF FreePlace
      <4>3. b[i] = Turn(x, r[z])
        BY <2>4, <4>2 DEF Follows
      <4>4. x < r[z] /\ l[q] < r[z]
        BY <2>1, <2>2
      <4>5. Turn(x, r[z]) = "left" /\ Turn(l[q], r[z]) = "left"
        BY <4>4 DEF Turn
      <4> QED
        BY <4>2, <4>3, <4>5
    <3> QED
      BY <3>1 DEF Follows
  <2>7. SearchTree(Join(r, Rooted(b, l)))
    BY <2>4, <2>6, Graft
  <2>8. NodeCount(Join(r, Rooted(b, l)), V) = NodeCount(r, V) + NodeCount(l, V)
    BY <2>4, GraftCount
  <2>9. DOMAIN r \subseteq Node /\ DOMAIN l \subseteq Node /\ Closed(r)
    BY DEF SearchTree
  <2>10. GraftOf(r, b, l, Join(r, Rooted(b, l)))
    BY <2>4, <2>9, GraftIs
  <2>11. PICK u : u = Join(r, Rooted(b, l))
    OBVIOUS
  <2>12. GraftOf(r, b, l, u)
    BY <2>10, <2>11
  <2>13. ASSUME NEW z \in DOMAIN u
         PROVE  (\E q \in DOMAIN l : u[z] = l[q]) \/ (\E q \in DOMAIN r : u[z] = r[q])
    BY <2>12 DEF GraftOf
  <2> QED
    BY <2>5, <2>7, <2>8, <2>11, <2>13
<1> QED
  BY <1>1, <1>2

\* deleteNode of the head and of an inner node.
LEMMA InnerOut ==
  ASSUME NEW t, SearchTree(t), NEW p \in DOMAIN t,
         NEW l, l = Below(t, Append(p, "left")),
         NEW r, r = Below(t, Append(p, "right")),
         Empty(r) \/ ~Empty(l),
         NEW V
  PROVE  /\ SearchTree(Join(Outside(t, p), Rooted(p, insertNode(r, l))))
         /\ NodeCount(t, V) = NodeCount(Join(Outside(t, p), Rooted(p, insertNode(r, l))), V)
                          + (IF t[p] \in V THEN 1 ELSE 0)
<1>1. p \in Node /\ "left" \in Side /\ "right" \in Side /\ t[p] \in BstValues
  BY DEF SearchTree, Side
<1>2. SearchTree(l) /\ SearchTree(r)
  <2>1. Append(p, "left") \in Node /\ Append(p, "right") \in Node
    BY <1>1, ChildPath
  <2> QED
    BY <2>1, BelowTree
<1>3. ASSUME NEW q \in DOMAIN l
      PROVE  l[q] \in BstValues /\ Follows(t, l[q], p) /\ l[q] < t[p]
  <2>1. l[q] \in BstValues /\ Follows(t, l[q], p) /\ Turn(l[q], t[p]) = "left"
    BY <1>1, ChildValue
  <2> QED
    BY <1>1, <2>1, TurnIs
<1>4. ASSUME NEW q \in DOMAIN r
      PROVE  r[q] \in BstValues /\ Follows(t, r[q], p) /\ t[p] <= r[q]
  <2>1. r[q] \in BstValues /\ Follows(t, r[q], p) /\ Turn(r[q], t[p]) = "right"
    BY <1>1, ChildValue
  <2> QED
    BY <1>1, <2>1, TurnIs
<1>5. ASSUME NEW q \in DOMAIN l, NEW z \in DOMAIN r  PROVE l[q] < r[z]
  <2>1. l[q] \in Nat /\ r[z] \in Nat /\ t[p] \in Nat
    BY <1>1, <1>3, <1>4, BstAssumption
  <2> QED
    BY <1>3, <1>4, <2>1
<1>6. PICK s : s = insertNode(r, l)
  OBVIOUS
<1>7. /\ SearchTree(s) /\ NodeCount(s, V) = NodeCount(r, V) + NodeCount(l, V)
      /\ \A z \in DOMAIN s :
              \/ \E q \in DOMAIN l : s[z] = l[q]
              \/ \E q \in DOMAIN r : s[z] = r[q]
  BY <1>2, <1>5, <1>6, MergeIs
<1>8. PICK o : o = Outside(t, p)
  OBVIOUS
<1>9. SearchTree(o) /\ FreePlace(o, p)
  BY <1>8, OutsideTree
<1>10. ASSUME NEW z \in DOMAIN s  PROVE Follows(o, s[z], p)
  <2>1. Follows(t, s[z], p)
    BY <1>3, <1>4, <1>7
  <2>2. ASSUME NEW i \in 1..Len(p)  PROVE o[SubSeq(p, 1, i - 1)] = t[SubSeq(p, 1, i - 1)]
    <3>1. i - 1 \in 0..Len(p) /\ i - 1 < Len(p)
      BY <1>1 DEF Node
    <3>2. SubSeq(p, 1, i - 1) \in DOMAIN o
      BY <1>9, <3>1 DEF FreePlace
    <3> QED
      BY <1>8, <3>2 DEF Outside
  <2> QED
    BY <2>1, <2>2 DEF Follows
<1>11. SearchTree(Join(o, Rooted(p, s)))
  BY <1>7, <1>9, <1>10, Graft
<1>12. NodeCount(Join(o, Rooted(p, s)), V) = NodeCount(o, V) + NodeCount(s, V)
  BY <1>7, <1>9, GraftCount
<1>13. NodeCount(t, V) = NodeCount(o, V) + (IF t[p] \in V THEN 1 ELSE 0) + NodeCount(l, V) + NodeCount(r, V)
  BY <1>8, SplitCount
<1>14. /\ NodeCount(o, V) \in Nat /\ NodeCount(l, V) \in Nat /\ NodeCount(r, V) \in Nat
       /\ (IF t[p] \in V THEN 1 ELSE 0) \in Nat
  BY <1>2, <1>9, CountType
<1>15. NodeCount(t, V) = NodeCount(Join(o, Rooted(p, s)), V) + (IF t[p] \in V THEN 1 ELSE 0)
  BY <1>7, <1>12, <1>13, <1>14
<1> QED
  BY <1>6, <1>8, <1>11, <1>15

\* deleteNode of a leaf.
LEMMA LeafOut ==
  ASSUME NEW t, SearchTree(t), NEW p \in DOMAIN t,
         Empty(Below(t, Append(p, "left"))), Empty(Below(t, Append(p, "right"))),
         NEW V
  PROVE  /\ SearchTree([q \in DOMAIN t \ {p} |-> t[q]])
         /\ NodeCount(t, V) = NodeCount([q \in DOMAIN t \ {p} |-> t[q]], V)
                          + (IF t[p] \in V THEN 1 ELSE 0)
<1>1. p \in Node /\ DOMAIN t \subseteq Node /\ "left" \in Side /\ "right" \in Side
  BY DEF SearchTree, Side
<1>2. ASSUME NEW r \in DOMAIN t, IsPrefix(p, r)  PROVE r = p
  <2> SUFFICES ASSUME r # p  PROVE FALSE
    OBVIOUS
  <2>1. PICK d \in Side, q \in Node : r = Append(p, d) \o q
    BY <1>1, <1>2, ThroughChild
  <2>2. Append(p, d) \in Node
    BY <1>1, ChildPath
  <2>3. q \in DOMAIN Below(t, Append(p, d))
    BY <1>1, <2>1, <2>2, BelowIs
  <2> QED
    BY <2>3 DEF Empty, Side
<1>3. IsPrefix(p, p)
  BY <1>1 DEF IsPrefix, Node
<1>4. [q \in DOMAIN t \ {p} |-> t[q]] = Outside(t, p)
  <2>1. DOMAIN t \ {p} = {q \in DOMAIN t : ~IsPrefix(p, q)}
    BY <1>2, <1>3
  <2> QED
    BY <2>1 DEF Outside
<1>5. PICK o : o = Outside(t, p)
  OBVIOUS
<1>6. SearchTree(o)
  BY <1>5, OutsideTree
<1>7. /\ NodeCount(Below(t, Append(p, "left")), V) = 0 /\ NodeCount(Below(t, Append(p, "right")), V) = 0
      /\ NodeCount(o, V) \in Nat /\ (IF t[p] \in V THEN 1 ELSE 0) \in Nat
  BY <1>6, EmptyCount, CountType
<1>8. NodeCount(t, V) = NodeCount(o, V) + (IF t[p] \in V THEN 1 ELSE 0)
                    + NodeCount(Below(t, Append(p, "left")), V)
                    + NodeCount(Below(t, Append(p, "right")), V)
  BY <1>5, SplitCount
<1> QED
  BY <1>4, <1>5, <1>6, <1>7, <1>8

-----------------------------------------------------------------------------
(***************************************************************************)
(* The invariant                                                           *)
(***************************************************************************)

LEMMA TreeStart ==
  ASSUME BstInit
  PROVE  TreeInv
<1>1. DOMAIN tree = {}
  BY DEF BstInit
<1>2. SearchTree(tree)
  BY <1>1, FS_EmptySet DEF SearchTree, Closed, ByDescent
<1>3. Empty(tree)
  BY <1>1 DEF Empty
<1>4. NodeCount(tree, BstValues) = 0 /\ \A v \in BstValues : NodeCount(tree, {v}) = 0
  BY <1>3, EmptyCount
<1>5. inserted = [v \in BstValues |-> 0] /\ bstFault = FALSE
  BY DEF BstInit
<1>6. inserted = [v \in BstValues |-> NodeCount(tree, {v})]
  BY <1>4, <1>5
<1>7. NodeCount(tree, BstValues) <= MaxTree
  BY <1>4, BstAssumption
<1>8. bstFault \in BOOLEAN
  BY <1>5
<1> QED
  BY <1>2, <1>6, <1>7, <1>8 DEF TreeInv

\* The history follows the tree: one copy of v more.
LEMMA CopyMore ==
  ASSUME TreeInv, NEW v \in BstValues, NEW u, SearchTree(u),
         \A V : NodeCount(u, V) = NodeCount(tree, V) + (IF v \in V THEN 1 ELSE 0)
  PROVE  /\ [inserted EXCEPT ![v] = @ + 1] = [w \in BstValues |-> NodeCount(u, {w})]
         /\ NodeCount(u, BstValues) = NodeCount(tree, BstValues) + 1
<1>1. inserted = [w \in BstValues |-> NodeCount(tree, {w})] /\ SearchTree(tree)
  BY DEF TreeInv
<1>2. \A w \in BstValues : NodeCount(tree, {w}) \in Nat
  BY <1>1, CountType
<1>3. ASSUME NEW w \in BstValues
      PROVE  NodeCount(u, {w}) = IF w = v THEN NodeCount(tree, {w}) + 1 ELSE NodeCount(tree, {w})
  <2>1. NodeCount(u, {w}) = NodeCount(tree, {w}) + (IF v \in {w} THEN 1 ELSE 0)
    OBVIOUS
  <2> QED
    BY <1>2, <2>1
<1>4. NodeCount(u, BstValues) = NodeCount(tree, BstValues) + (IF v \in BstValues THEN 1 ELSE 0)
  OBVIOUS
<1> QED
  BY <1>1, <1>3, <1>4

\* One copy of v less.
LEMMA CopyLess ==
  ASSUME TreeInv, NEW v \in BstValues, NEW u, SearchTree(u),
         \A V : NodeCount(tree, V) = NodeCount(u, V) + (IF v \in V THEN 1 ELSE 0)
  PROVE  /\ [inserted EXCEPT ![v] = @ - 1] = [w \in BstValues |-> NodeCount(u, {w})]
         /\ NodeCount(u, BstValues) + 1 = NodeCount(tree, BstValues)
<1>1. inserted = [w \in BstValues |-> NodeCount(tree, {w})]
  BY DEF TreeInv
<1>2. \A w \in BstValues : NodeCount(u, {w}) \in Nat
  BY CountType
<1>3. ASSUME NEW w \in BstValues
      PROVE  NodeCount(u, {w}) = IF w = v THEN NodeCount(tree, {w}) - 1 ELSE NodeCount(tree, {w})
  <2>1. NodeCount(tree, {w}) = NodeCount(u, {w}) + (IF v \in {w} THEN 1 ELSE 0)
    OBVIOUS
  <2> QED
    BY <1>2, <2>1
<1>4. NodeCount(tree, BstValues) = NodeCount(u, BstValues) + (IF v \in BstValues THEN 1 ELSE 0)
  OBVIOUS
<1> QED
  BY <1>1, <1>3, <1>4

LEMMA TreeStep ==
  ASSUME TreeInv, [BstNext]_bstVars
  PROVE  TreeInv'
<1>1. /\ SearchTree(tree) /\ bstFault \in BOOLEAN
      /\ NodeCount(tree, BstValues) <= MaxTree /\ MaxTree \in Nat
  BY BstAssumption DEF TreeInv
<1>2. NodeCount(tree, BstValues) \in Nat
  BY <1>1, CountType
<1>3. CASE UNCHANGED bstVars
  BY <1>3 DEF bstVars, TreeInv
<1>4. ASSUME NEW v \in BstValues, insertVal(v)
      PROVE  TreeInv'
  <2>1. PICK b : b = Bottom(tree, v)
    OBVIOUS
  <2>2. FreePlace(tree, b) /\ Follows(tree, v, b)
    BY <1>1, <2>1, BottomIs
  <2>3. PICK s : s = newNode(v)
    OBVIOUS
  <2>4. SearchTree(s) /\ \A q \in DOMAIN s : s[q] = v
    BY <2>3, NewNode
  <2>5. PICK u : u = Join(tree, Rooted(b, s))
    OBVIOUS
  <2>6. SearchTree(u)
    <3>1. \A q \in DOMAIN s : Follows(tree, s[q], b)
      BY <2>2, <2>4
    <3> QED
      BY <1>1, <2>2, <2>4, <2>5, <3>1, Graft
  <2>7. ASSUME NEW V  PROVE NodeCount(u, V) = NodeCount(tree, V) + (IF v \in V THEN 1 ELSE 0)
    <3>1. NodeCount(u, V) = NodeCount(tree, V) + NodeCount(s, V)
      BY <1>1, <2>2, <2>4, <2>5, GraftCount
    <3>2. NodeCount(s, V) = IF v \in V THEN 1 ELSE 0
      BY <2>3, NewNode
    <3> QED
      BY <3>1, <3>2
  <2>8. /\ [inserted EXCEPT ![v] = @ + 1] = [w \in BstValues |-> NodeCount(u, {w})]
        /\ NodeCount(u, BstValues) = NodeCount(tree, BstValues) + 1
    BY <2>6, <2>7, CopyMore
  <2>9. /\ Cardinality(DOMAIN tree) < MaxTree /\ tree' = u
        /\ inserted' = [inserted EXCEPT ![v] = @ + 1] /\ bstFault' = bstFault
    BY <1>4, <2>1, <2>3, <2>5 DEF insertVal
  <2>10. Cardinality(DOMAIN tree) = NodeCount(tree, BstValues)
    <3>1. Holding(tree, BstValues) = DOMAIN tree
      BY <1>1 DEF SearchTree, Holding
    <3> QED
      BY <3>1 DEF NodeCount
  <2>11. NodeCount(u, BstValues) <= MaxTree
    BY <1>1, <1>2, <2>8, <2>9, <2>10
  <2> QED
    BY <1>1, <2>6, <2>8, <2>9, <2>11 DEF TreeInv
<1>5. ASSUME NEW v \in BstValues, NEW u, SearchTree(u), TakeOut(v, u),
             \A V : NodeCount(tree, V) = NodeCount(u, V) + (IF v \in V THEN 1 ELSE 0)
      PROVE  TreeInv'
  <2>1. /\ [inserted EXCEPT ![v] = @ - 1] = [w \in BstValues |-> NodeCount(u, {w})]
        /\ NodeCount(u, BstValues) + 1 = NodeCount(tree, BstValues)
    BY <1>5, CopyLess
  <2>2. tree' = u /\ inserted' = [inserted EXCEPT ![v] = @ - 1] /\ bstFault' = bstFault
    BY <1>5 DEF TakeOut
  <2>3. NodeCount(u, BstValues) <= MaxTree
    <3>1. NodeCount(u, BstValues) \in Nat
      BY <1>5, CountType
    <3> QED
      BY <1>1, <1>2, <2>1, <3>1
  <2> QED
    BY <1>1, <1>5, <2>1, <2>2, <2>3 DEF TreeInv
<1>6. ASSUME NEW v \in BstValues, NEW p \in search(v), DeleteInner(v, p)
      PROVE  TreeInv'
  <2>1. p \in DOMAIN tree /\ tree[p] = v
    BY DEF search
  <2>2. PICK l, r : l = Below(tree, Append(p, "left")) /\ r = Below(tree, Append(p, "right"))
    OBVIOUS
  <2>3. Empty(r) \/ ~Empty(l)
    BY <1>6, <2>2 DEF DeleteInner, Crashes, Left, Right
  <2>4. PICK u : u = Join(Outside(tree, p), Rooted(p, insertNode(r, l)))
    OBVIOUS
  <2>5. ASSUME NEW V
        PROVE  SearchTree(u) /\ NodeCount(tree, V) = NodeCount(u, V) + (IF v \in V THEN 1 ELSE 0)
    BY <1>1, <2>1, <2>2, <2>3, <2>4, InnerOut
  <2>6. TakeOut(v, u)
    BY <1>6, <2>2, <2>4 DEF DeleteInner, Outside, Left, Right
  <2> QED
    BY <1>5, <2>5, <2>6
<1>7. ASSUME NEW v \in BstValues, NEW p \in search(v), DeleteLeaf(v, p)
      PROVE  TreeInv'
  <2>1. p \in DOMAIN tree /\ tree[p] = v
    BY DEF search
  <2>2. Empty(Below(tree, Append(p, "left"))) /\ Empty(Below(tree, Append(p, "right")))
    BY <1>7 DEF DeleteLeaf, Left, Right
  <2>3. PICK u : u = [q \in DOMAIN tree \ {p} |-> tree[q]]
    OBVIOUS
  <2>4. ASSUME NEW V
        PROVE  SearchTree(u) /\ NodeCount(tree, V) = NodeCount(u, V) + (IF v \in V THEN 1 ELSE 0)
    BY <1>1, <2>1, <2>2, <2>3, LeafOut
  <2>5. TakeOut(v, u)
    BY <1>7, <2>3 DEF DeleteLeaf
  <2> QED
    BY <1>5, <2>4, <2>5
<1>8. ASSUME NEW p, DeleteCrashes(p)  PROVE TreeInv'
  BY <1>8 DEF DeleteCrashes, TreeInv
<1> QED
  BY <1>3, <1>4, <1>6, <1>7, <1>8 DEF BstNext, deleteNode

-----------------------------------------------------------------------------
(***************************************************************************)
(* What the invariant says of the tree                                     *)
(***************************************************************************)

LEMMA CountBound ==
  ASSUME TreeInv, NEW v \in BstValues
  PROVE  inserted[v] = NodeCount(tree, {v}) /\ NodeCount(tree, {v}) \in 0..MaxTree
<1>1. SearchTree(tree) /\ inserted[v] = NodeCount(tree, {v})
  BY DEF TreeInv
<1>2. Holding(tree, {v}) \subseteq Holding(tree, BstValues)
  BY DEF Holding
<1>3. IsFiniteSet(Holding(tree, BstValues))
  BY <1>1, CountType
<1>4. NodeCount(tree, {v}) <= NodeCount(tree, BstValues)
  BY <1>2, <1>3, FS_Subset DEF NodeCount
<1>5. NodeCount(tree, {v}) \in Nat /\ NodeCount(tree, BstValues) \in Nat /\ MaxTree \in Nat
  BY <1>1, CountType, BstAssumption
<1>6. NodeCount(tree, BstValues) <= MaxTree
  BY DEF TreeInv
<1> QED
  BY <1>1, <1>4, <1>5, <1>6

LEMMA TreeTyped ==
  ASSUME TreeInv
  PROVE  BstTypeOK
<1>1. /\ SearchTree(tree) /\ bstFault \in BOOLEAN /\ MaxTree \in Nat
      /\ inserted = [v \in BstValues |-> NodeCount(tree, {v})]
      /\ NodeCount(tree, BstValues) <= MaxTree
  BY BstAssumption DEF TreeInv
<1>2. ASSUME NEW p \in DOMAIN tree  PROVE p \in Path
  <2>1. p \in Node /\ Len(p) \in Nat
    BY <1>1 DEF SearchTree, Node
  <2>2. Len(p) < Cardinality(DOMAIN tree)
    BY <1>1, Depth
  <2>3. Holding(tree, BstValues) = DOMAIN tree
    BY <1>1 DEF SearchTree, Holding
  <2>4. Cardinality(DOMAIN tree) <= MaxTree /\ Cardinality(DOMAIN tree) \in Nat
    BY <1>1, <2>3, CountType DEF NodeCount
  <2>5. Len(p) \in 0..(MaxTree - 1)
    BY <1>1, <2>1, <2>2, <2>4
  <2>6. p \in [1..Len(p) -> Side]
    BY <2>1 DEF Node
  <2> QED
    BY <2>5, <2>6 DEF Path
<1>3. inserted \in [BstValues -> 0..MaxTree]
  <2>1. \A v \in BstValues : NodeCount(tree, {v}) \in 0..MaxTree
    BY CountBound
  <2> QED
    BY <1>1, <2>1
<1> QED
  BY <1>1, <1>2, <1>3 DEF BstTypeOK, SearchTree

\* search finds a value if the tree holds it.
LEMMA SearchEnds ==
  ASSUME SearchTree(tree), NEW v
  PROVE  search(v) # {} <=> Holding(tree, {v}) # {}
<1>1. DOMAIN tree \subseteq Node /\ Closed(tree) /\ ByDescent(tree)
  BY DEF SearchTree
<1>2. ASSUME search(v) # {}  PROVE Holding(tree, {v}) # {}
  BY <1>2 DEF search, Holding
<1>3. ASSUME Holding(tree, {v}) # {}  PROVE search(v) # {}
  <2> DEFINE H == Holding(tree, {v})
             S == {Len(p) : p \in H}
  <2>1. H \subseteq DOMAIN tree /\ \A p \in H : p \in Node /\ Len(p) \in Nat /\ tree[p] = v
    BY <1>1 DEF Holding, Node
  <2>2. \A p \in DOMAIN tree : tree[p] = v => p \in H
    BY DEF Holding
  <2> HIDE DEF H
  <2>3. S \in SUBSET Nat /\ S # {}
    BY <1>3, <2>1 DEF H
  <2>4. PICK m \in S : \A k \in S : m <= k
    BY <2>3, LeastNumber
  <2>5. PICK p \in H : m = Len(p)
    OBVIOUS
  <2>6. p \in Node /\ p \in DOMAIN tree /\ tree[p] = v /\ Follows(tree, v, p)
    BY <1>1, <2>1 DEF ByDescent
  <2>7. ASSUME NEW i \in 0..(Len(p) - 1)  PROVE tree[SubSeq(p, 1, i)] # v
    <3>1. i \in 0..Len(p) /\ i < Len(p)
      BY <2>1, <2>5
    <3>2. PICK a \in DOMAIN tree : a = SubSeq(p, 1, i)
      BY <1>1, <2>6, <3>1 DEF Closed
    <3>3. Len(a) = i
      BY <2>6, <3>1, <3>2, Prefix
    <3>4. a \notin H
      BY <2>1, <2>4, <2>5, <3>1, <3>3
    <3> QED
      BY <2>2, <3>2, <3>4
  <2> QED
    BY <2>6, <2>7 DEF search
<1> QED
  BY <1>2, <1>3

\* p is the end of the chain of pointers to a side.
Chain(side, p) == \A i \in 1..Len(p) : p[i] = side
ChainEnd(side, p) == Chain(side, p) /\ Append(p, side) \notin DOMAIN tree

LEMMA ExtremeIs ==
  ASSUME SearchTree(tree), ~Empty(tree), NEW side \in Side
  PROVE  \E p \in DOMAIN tree : ChainEnd(side, p) /\ Extreme(side) = tree[p]
<1>1. DOMAIN tree \subseteq Node /\ IsFiniteSet(DOMAIN tree)
  BY DEF SearchTree
<1> DEFINE S == {n \in Nat : \A p \in DOMAIN tree : Chain(side, p) => Len(p) < n}
<1>2. PICK p \in DOMAIN tree :
        /\ Chain(side, p)
        /\ \A q \in DOMAIN tree : Chain(side, q) => Len(q) <= Len(p)
  <2>1. Cardinality(DOMAIN tree) \in S
    BY <1>1, Depth, FS_CardinalityType
  <2>2. PICK n \in S : \A k \in S : n <= k
    BY <2>1, LeastNumber
  <2>3. <<>> \in DOMAIN tree /\ Chain(side, <<>>) /\ Len(<<>>) = 0
    BY RootThere DEF Chain
  <2>4. n \in Nat /\ n > 0 /\ n - 1 \in Nat /\ ~(n <= n - 1)
    BY <2>3
  <2>5. n - 1 \notin S
    BY <2>2, <2>4
  <2>6. PICK p \in DOMAIN tree : Chain(side, p) /\ ~(Len(p) < n - 1)
    BY <2>4, <2>5
  <2>7. \A q \in DOMAIN tree : Len(q) \in Nat
    BY <1>1 DEF Node
  <2>8. \A q \in DOMAIN tree : Chain(side, q) => Len(q) < n
    OBVIOUS
  <2> HIDE DEF S
  <2> QED
    BY <2>4, <2>6, <2>7, <2>8
<1>3. p \in Node /\ Len(p) \in Nat
  BY <1>1 DEF Node
<1>4. PICK a \in Node : a = Append(p, side)
  BY <1>3, ChildPath
<1>5. /\ Len(a) = Len(p) + 1 /\ a[Len(p) + 1] = side
      /\ \A i \in 1..Len(p) : a[i] = p[i]
  BY <1>3, <1>4, ChildPath
<1>6. Chain(side, a)
  BY <1>2, <1>3, <1>5 DEF Chain
<1>7. a \notin DOMAIN tree
  BY <1>2, <1>3, <1>5, <1>6
<1>8. ChainEnd(side, p)
  BY <1>2, <1>4, <1>7 DEF ChainEnd
<1>9. Extreme(side) = tree[CHOOSE q \in DOMAIN tree : ChainEnd(side, q)]
  <2>1. Extreme(side) =
          tree[CHOOSE q \in DOMAIN tree :
                 /\ \A i \in 1..Len(q) : q[i] = side
                 /\ Append(q, side) \notin DOMAIN tree]
    BY DEF Extreme
  <2> QED
    BY <2>1 DEF ChainEnd, Chain
<1> HIDE DEF S
<1>10. PICK c : c = CHOOSE q \in DOMAIN tree : ChainEnd(side, q)
  OBVIOUS
<1>11. c \in DOMAIN tree /\ ChainEnd(side, c)
  BY <1>8, <1>10, Zenon
<1>12. Extreme(side) = tree[c]
  BY <1>9, <1>10
<1> QED
  BY <1>11, <1>12

\* The end of a chain is extreme among the nodes of the chain, and so in the tree.
LEMMA EndOfChain ==
  ASSUME SearchTree(tree), NEW side \in Side, NEW p \in DOMAIN tree, ChainEnd(side, p),
         NEW q \in DOMAIN tree, Chain(side, q)
  PROVE  /\ side = "left" => tree[p] <= tree[q]
         /\ side = "right" => tree[q] <= tree[p]
<1>1. /\ Closed(tree) /\ p \in Node /\ q \in Node /\ Len(p) \in Nat /\ Len(q) \in Nat
      /\ tree[p] \in BstValues /\ tree[q] \in BstValues /\ Follows(tree, tree[p], p)
  BY DEF SearchTree, ByDescent, Node
<1>2. tree[p] \in Nat /\ tree[q] \in Nat
  BY <1>1, BstAssumption
<1>3. Len(q) <= Len(p)
  <2> SUFFICES ASSUME Len(q) > Len(p)  PROVE FALSE
    BY <1>1
  <2>1. Len(p) + 1 \in 0..Len(q) /\ Len(p) + 1 \in 1..Len(q)
    BY <1>1
  <2>2. PICK b \in Node : b = SubSeq(q, 1, Len(p) + 1)
    BY <1>1, <2>1, Prefix
  <2>3. Len(b) = Len(p) + 1 /\ \A i \in 1..(Len(p) + 1) : b[i] = q[i]
    BY <1>1, <2>1, <2>2, Prefix
  <2>4. PICK a \in Node : a = Append(p, side)
    BY <1>1, ChildPath
  <2>5. /\ Len(a) = Len(p) + 1 /\ a[Len(p) + 1] = side
        /\ \A i \in 1..Len(p) : a[i] = p[i]
    BY <1>1, <2>4, ChildPath
  <2>6. \A i \in 1..(Len(p) + 1) : a[i] = side /\ b[i] = side
    BY <1>1, <2>1, <2>3, <2>5 DEF ChainEnd, Chain
  <2>7. a = b
    BY <2>3, <2>5, <2>6, SeqEqual DEF Node
  <2>8. b \in DOMAIN tree
    BY <1>1, <2>1, <2>2 DEF Closed
  <2> QED
    BY <2>4, <2>7, <2>8 DEF ChainEnd
<1>4. q = SubSeq(p, 1, Len(q))
  <2>0. Len(q) \in 0..Len(p)
    BY <1>1, <1>3
  <2>1. PICK b \in Node : b = SubSeq(p, 1, Len(q))
    BY <1>1, <2>0, Prefix
  <2>2. Len(b) = Len(q) /\ \A i \in 1..Len(q) : b[i] = p[i]
    BY <1>1, <2>0, <2>1, Prefix
  <2>3. \A i \in 1..Len(q) : b[i] = side /\ q[i] = side
    BY <1>1, <1>3, <2>2 DEF ChainEnd, Chain
  <2> QED
    BY <1>1, <2>1, <2>2, <2>3, SeqEqual DEF Node
<1>5. CASE Len(q) = Len(p)
  <2>1. Len(p) \in 0..Len(p)
    BY <1>1
  <2>2. q = p
    BY <1>1, <1>4, <1>5, <2>1, Prefix
  <2> QED
    BY <1>2, <2>2
<1>6. CASE Len(q) < Len(p)
  <2>1. Len(q) + 1 \in 1..Len(p) /\ (Len(q) + 1) - 1 = Len(q)
    BY <1>1, <1>6
  <2>2. p[Len(q) + 1] = Turn(tree[p], tree[SubSeq(p, 1, (Len(q) + 1) - 1)])
    BY <1>1, <2>1, Zenon DEF Follows
  <2>3. p[Len(q) + 1] = side
    BY <2>1 DEF ChainEnd, Chain
  <2>4. Turn(tree[p], tree[q]) = side
    BY <1>4, <2>1, <2>2, <2>3
  <2> QED
    BY <1>1, <1>2, <2>4, TurnIs
<1> QED
  BY <1>1, <1>3, <1>5, <1>6

LEMMA ExtremeBound ==
  ASSUME SearchTree(tree), NEW side \in Side, NEW p \in DOMAIN tree, ChainEnd(side, p),
         NEW q \in DOMAIN tree
  PROVE  /\ side = "left" => tree[p] <= tree[q]
         /\ side = "right" => tree[q] <= tree[p]
<1>1. /\ Closed(tree) /\ q \in Node /\ Len(q) \in Nat /\ tree[p] \in BstValues
      /\ tree[q] \in BstValues /\ Follows(tree, tree[q], q)
  BY DEF SearchTree, ByDescent, Node
<1> DEFINE K == {k \in 1..Len(q) : q[k] # side}
<1>2. CASE K = {}
  <2>1. Chain(side, q)
    BY <1>2 DEF Chain
  <2> QED
    BY <2>1, EndOfChain
<1>3. CASE K # {}
  <2>1. K \in SUBSET Nat
    BY <1>1
  <2>2. PICK k \in K : \A j \in K : k <= j
    BY <1>3, <2>1, LeastNumber
  <2>3. k \in 1..Len(q) /\ k - 1 \in 0..Len(q) /\ q[k] # side
    BY <1>1
  <2>4. PICK a \in DOMAIN tree : a = SubSeq(q, 1, k - 1)
    BY <1>1, <2>3 DEF Closed
  <2>5. Len(a) = k - 1 /\ \A i \in 1..(k - 1) : a[i] = q[i]
    BY <1>1, <2>3, <2>4, Prefix
  <2>6. Chain(side, a)
    <3>1. ASSUME NEW i \in 1..Len(a)  PROVE a[i] = side
      <4>1. i \in 1..Len(q) /\ i < k /\ a[i] = q[i]
        BY <1>1, <2>3, <2>5
      <4>2. i \notin K
        BY <2>1, <2>2, <4>1
      <4> QED
        BY <4>1, <4>2
    <3> QED
      BY <3>1 DEF Chain
  <2>7. /\ side = "left" => tree[p] <= tree[a]
        /\ side = "right" => tree[a] <= tree[p]
    BY <2>6, EndOfChain
  <2>8. q[k] = Turn(tree[q], tree[a])
    BY <1>1, <2>3, <2>4, Zenon DEF Follows
  <2>9. tree[a] \in BstValues
    BY DEF SearchTree
  <2>10. /\ side = "left" => tree[a] <= tree[q]
         /\ side = "right" => tree[q] < tree[a]
    BY <1>1, <2>3, <2>8, <2>9, TurnIs DEF Side
  <2>11. tree[a] \in Nat /\ tree[p] \in Nat /\ tree[q] \in Nat
    BY <1>1, <2>9, BstAssumption
  <2> QED
    BY <2>7, <2>10, <2>11
<1> QED
  BY <1>2, <1>3

LEMMA TreeExact ==
  ASSUME TreeInv
  PROVE  TreeIsExact
<1>1. SearchTree(tree)
  BY DEF TreeInv
<1>2. ASSUME NEW v \in BstValues
      PROVE  /\ Cardinality({p \in DOMAIN tree : tree[p] = v}) = inserted[v]
             /\ search(v) # {} <=> v \in Kept
             /\ v \in Kept <=> \E p \in DOMAIN tree : tree[p] = v
  <2>1. PICK H : H = Holding(tree, {v})
    OBVIOUS
  <2>2. H = {p \in DOMAIN tree : tree[p] = v}
    BY <2>1 DEF Holding
  <2>3. inserted[v] = Cardinality(H) /\ Cardinality(H) \in Nat
    BY <2>1, CountBound DEF NodeCount
  <2>4. IsFiniteSet(H)
    BY <1>1, <2>1, CountType
  <2>5. Cardinality(H) = 0 <=> H = {}
    BY <2>4, FS_EmptySet
  <2>6. v \in Kept <=> H # {}
    BY <2>3, <2>5 DEF Kept
  <2>7. search(v) # {} <=> H # {}
    BY <1>1, <2>1, SearchEnds
  <2> QED
    BY <2>2, <2>3, <2>6, <2>7
<1>3. ASSUME NEW v \in Kept, NEW side \in Side
      PROVE  /\ Extreme(side) \in Kept
             /\ side = "left" => Extreme(side) <= v
             /\ side = "right" => v <= Extreme(side)
  <2>1. PICK q \in DOMAIN tree : tree[q] = v
    BY <1>2 DEF Kept
  <2>2. ~Empty(tree)
    BY <2>1 DEF Empty
  <2>3. PICK p \in DOMAIN tree : ChainEnd(side, p) /\ Extreme(side) = tree[p]
    BY <1>1, <2>2, ExtremeIs
  <2>4. tree[p] \in BstValues
    BY <1>1 DEF SearchTree
  <2>5. tree[p] \in Kept
    BY <1>2, <2>4
  <2>6. /\ side = "left" => tree[p] <= tree[q]
        /\ side = "right" => tree[q] <= tree[p]
    BY <1>1, <2>3, ExtremeBound
  <2> QED
    BY <2>1, <2>3, <2>5, <2>6
<1>4. "left" \in Side /\ "right" \in Side
  BY DEF Side
<1>5. Kept # {} => Extreme("left") \in Kept /\ Extreme("right") \in Kept
  BY <1>3, <1>4
<1>6. \A v \in Kept : Extreme("left") <= v /\ v <= Extreme("right")
  BY <1>3, <1>4
<1>7. \A v \in BstValues :
        /\ Cardinality({p \in DOMAIN tree : tree[p] = v}) = inserted[v]
        /\ search(v) # {} <=> v \in Kept
  BY <1>2
<1> QED
  BY <1>5, <1>6, <1>7 DEF TreeIsExact

\* After any insertions and deletions the tree is a search tree, and holds the
\* values inserted and not deleted.
THEOREM TreeInvariance == BstSpec => []TreeInv
<1>1. BstInit => TreeInv
  BY TreeStart
<1>2. TreeInv /\ [BstNext]_bstVars => TreeInv'
  BY TreeStep
<1> QED
  BY <1>1, <1>2, PTL DEF BstSpec

\* The values, the paths and the count of each value keep their types: the tree is
\* never deeper than the values it holds.
THEOREM TreeTypeCorrect == BstSpec => []BstTypeOK
<1>1. TreeInv => BstTypeOK
  BY TreeTyped
<1> QED
  BY <1>1, TreeInvariance, PTL

\* Whatever deleteNode and insertNode graft, the tree holds each value as often as it
\* was inserted and not deleted, search finds exactly the values it holds, and
\* minVal and maxVal return the least and the greatest of them.
THEOREM TreeCorrect == BstSpec => []TreeIsExact
<1>1. TreeInv => TreeIsExact
  BY TreeExact
<1> QED
  BY <1>1, TreeInvariance, PTL

=============================================================================
