-------------------------- MODULE UniformPriceMarket --------------------------
(***************************************************************************)
(* What an auction of one good with a reserve price promises: the book of  *)
(* offers is cleared once, and all that win pay the same price.  The       *)
(* outcome says what each offer is granted, the price, and what is unsold. *)
(***************************************************************************)
EXTENDS Integers, Sequences

CONSTANTS
  Books,    \* the books: non-empty sequences of offers [bid, price, qty]
  Reserve,  \* nothing is sold for less; a natural number
  NoOutcome \* the outcome before the clearing

VARIABLES book, outcome

-----------------------------------------------------------------------------
\* Offer i is served before offer j: the higher price first, of equal prices
\* the one that came last.
Ahead(i, j) ==
  \/ book[i].price > book[j].price
  \/ book[i].price = book[j].price /\ i > j

Eligible(i) == book[i].price >= Reserve

\* No offer gets more than it asks, and none below the reserve gets anything.
GrantsWithinOffers(o) ==
  \A i \in DOMAIN book :
    o.grant[i] <= book[i].qty /\ (~Eligible(i) => o.grant[i] = 0)

\* Nothing is granted to an offer while one ahead of it is short.
PriorityKept(o) ==
  \A i, j \in DOMAIN book :
    Eligible(i) /\ Ahead(i, j) /\ o.grant[j] > 0 => o.grant[i] = book[i].qty

\* Nothing is held back from an offer that can be served.
NothingHeldBack(o) ==
  o.unsold > 0 => \A i \in DOMAIN book : Eligible(i) => o.grant[i] = book[i].qty

\* Nobody pays more than offered or less than the reserve.
PriceFair(o) ==
  /\ o.price >= Reserve
  /\ \A i \in DOMAIN book : o.grant[i] > 0 => o.price <= book[i].price

\* The price is the reserve if something is left, and else that of an offer
\* which was served (also of one that asks for nothing).
PriceMarginal(o) ==
  IF o.unsold > 0
  THEN o.price = Reserve
  ELSE \E i \in DOMAIN book :
         /\ Eligible(i) /\ o.price = book[i].price
         /\ o.grant[i] > 0 \/ book[i].qty = 0

Lawful(o) ==
  /\ GrantsWithinOffers(o)
  /\ PriorityKept(o)
  /\ NothingHeldBack(o)
  /\ PriceFair(o)
  /\ PriceMarginal(o)

Outcomes == [grant : [DOMAIN book -> Nat], price : Nat, unsold : Nat]

-----------------------------------------------------------------------------
Init == book \in Books /\ outcome = NoOutcome

Clear ==
  /\ outcome = NoOutcome
  /\ outcome' \in Outcomes
  /\ Lawful(outcome')
  /\ UNCHANGED book

Spec == Init /\ [][Clear]_<<book, outcome>>
=============================================================================
