-------------------------------- MODULE Deck --------------------------------
(***************************************************************************)
(* The card program of Interview/Company/Apple/TakeHomeQ1.c: rounds deal   *)
(* the deck into 3, 4, 5, 3, ... piles and put the piles together, until   *)
(* the deck is in its first order again.  A list is a sequence of card     *)
(* values, in which -1 stands for a dummy node.  Nodes are never freed, so *)
(* malloc returns fresh memory, in which a next that the program leaves    *)
(* unwritten is NULL.                                                      *)
(***************************************************************************)
EXTENDS Integers, Sequences, FiniteSets, SequencesExt

CONSTANT CardCounts    \* the numbers on the command line

ASSUME DeckAssumption == CardCounts \subseteq Nat

VARIABLES
  numCards,
  curr_deck,      \* the deck, head first
  pileNumInd,     \* the round's index into pileNumberTable
  originalOrder   \* checkOrder's last answer; the program ends on TRUE

deckVars == <<numCards, curr_deck, pileNumInd, originalOrder>>

dummy == -1
pileNumberTable == <<3, 4, 5>>

DeckTypeOK ==
  /\ numCards \in CardCounts
  /\ curr_deck \in Seq(-1..(numCards - 1))
  /\ pileNumInd \in 0..2
  /\ originalOrder \in BOOLEAN

\* addToDeckTail2, once for each card: the first card replaces the dummy.
FirstDeck(n) == IF n = 0 THEN <<dummy>> ELSE [i \in 1..n |-> i - 1]

\* What resetPiles leaves of a pile: its top card, as a dummy.
EmptyPile == <<dummy>>

DeckInit ==
  /\ numCards \in CardCounts
  /\ curr_deck = FirstDeck(numCards)
  /\ pileNumInd = 0
  /\ originalOrder = FALSE

IsCard(val) == val # dummy

\* The cards that a walk over the deck comes to; it passes over each dummy, so
\* the k-th of them is the one behind k - 1 others.
Cards(deck) ==
  LET at == {i \in 1..Len(deck) : IsCard(deck[i])}
  IN  [k \in 1..Cardinality(at) |->
         deck[CHOOSE i \in at : Cardinality({j \in at : j < i}) = k - 1]]

\* Mutant of Pile: a dummy at the bottom of every pile.
PileOnDummy(deck, pilesInUse, p) ==
  LET dealt == {i \in 1..Len(Cards(deck)) : (i - 1) % pilesInUse = p}
  IN  Append(Reverse([i \in 1..Cardinality(dealt) |-> Cards(deck)[p + 1 + (i - 1) * pilesInUse]]), dummy)

\* distribute: pile p gets every pilesInUse-th card, the last one on top; a pile
\* that gets no card keeps its dummy.
Pile(deck, pilesInUse, p) ==
  LET dealt == {i \in 1..Len(Cards(deck)) : (i - 1) % pilesInUse = p}
  IN  IF dealt = {} THEN EmptyPile
      ELSE Reverse([i \in 1..Cardinality(dealt) |-> Cards(deck)[p + 1 + (i - 1) * pilesInUse]])

\* distribute and makeDeck: a dummy, then the piles, the first one in front.
Dealt(deck, pilesInUse) ==
  <<dummy>> \o FlattenSeq([p \in 1..pilesInUse |-> Pile(deck, pilesInUse, p - 1)])

\* Each node, from the dummy in front on, is followed by the next number.
checkOrder(deck) == \A i \in 1..(Len(deck) - 1) : deck[i + 1] = deck[i] + 1

\* Mutant of PilesOf: always as many piles as there are pile counts.
PilesOfSame(ind) == 5

PilesOf(ind) == pileNumberTable[ind + 1]

\* One turn of the loop of main().
Round ==
  /\ ~originalOrder
  /\ curr_deck' = Dealt(curr_deck, PilesOf(pileNumInd))
  /\ originalOrder' = checkOrder(curr_deck')
  /\ pileNumInd' = (pileNumInd + 1) % Len(pileNumberTable)
  /\ UNCHANGED numCards

DeckSpec == DeckInit /\ [][Round]_deckVars /\ WF_deckVars(Round)

-----------------------------------------------------------------------------
(* No round loses, repeats or invents a card: the deck holds each of the    *)
(* numCards cards once, beside the dummy in front and one for each pile     *)
(* that got no card, and these pile up in no later round.                   *)
CardsKept ==
  /\ IsInjective(Cards(curr_deck))
  /\ ToSet(Cards(curr_deck)) = 0..(numCards - 1)
  /\ Len(curr_deck) - numCards <= 1 + Cardinality((numCards + 1)..5)

(* From three cards on the deck comes back to its first order and the       *)
(* program prints the number of rounds.  With fewer cards a dummy of an     *)
(* empty pile is always behind them, checkOrder never says yes, and the     *)
(* program never ends.                                                      *)
OrderRestored == (numCards >= 3) ~> originalOrder

=============================================================================
