-------------------------- MODULE BasAuction_proofs --------------------------
(***************************************************************************)
(* An execution of bas clears a market: for every book of offers, supply   *)
(* and reserve price, what the first loop leaves in grant, price and left  *)
(* is a lawful outcome, and nothing changes it afterwards.  Every offer    *)
(* has exactly its share of the supply, and the allocations say so.        *)
(***************************************************************************)
EXTENDS BasAuction, FiniteSetTheorems, SequenceTheorems, WellFoundedInduction, TLAPS

Eligible(i) == ~BelowReserve(i)

\* The types of what the first loop works on.
WalkTypes ==
  /\ offers \in Books
  /\ phase \in {"serve", "create", "done", "failed"}
  /\ todo \subseteq Listed
  /\ grant \in [Listed -> Nat]
  /\ left \in Nat
  /\ price \in Nat

\* The walk goes down: what is served is ahead of what is not, which has its
\* quantity untouched.
WalkOrdered ==
  phase = "serve" =>
    /\ \A i \in Listed \ todo, j \in todo : Ahead(i, j)
    /\ \A i \in todo : grant[i] = offers[i].qty

GrantsBounded ==
  \A i \in Served : grant[i] <= offers[i].qty /\ (~Eligible(i) => grant[i] = 0)

\* As long as something is left nobody served was cut short.
FullWhileLeft ==
  left > 0 => \A i \in Served : Eligible(i) => grant[i] = offers[i].qty

Priority ==
  \A i, j \in Served :
    Eligible(i) /\ Ahead(i, j) /\ grant[j] > 0 => grant[i] = offers[i].qty

PriceCeiling == \A i \in Served : grant[i] > 0 => price <= offers[i].price

\* When nothing is left the price is that of an offer that was served.
PriceMade ==
  left = 0 => \E i \in Served : /\ Eligible(i) /\ price = offers[i].price
                                /\ grant[i] > 0 \/ offers[i].qty = 0

ReserveAtSurplus == phase # "serve" /\ left > 0 => price = Reserve

IInv ==
  /\ WalkTypes
  /\ WalkOrdered
  /\ GrantsBounded
  /\ FullWhileLeft
  /\ Priority
  /\ PriceCeiling
  /\ PriceMade
  /\ ReserveAtSurplus

-----------------------------------------------------------------------------
\* The offers of a book have numbers for indices, prices and quantities.
LEMMA OfferTypes ==
  ASSUME offers \in Books
  PROVE  /\ Listed \subseteq Nat
         /\ Listed # {}
         /\ \A i \in Listed : offers[i].price \in Nat /\ offers[i].qty \in Nat
<1>1. offers \in Seq(OfferType) /\ offers # <<>>
  BY BooksAssumption
<1>2. Listed = 1 .. Len(offers) /\ Len(offers) \in Nat \ {0}
  BY <1>1 DEF Listed
<1>3. \A i \in Listed : offers[i] \in OfferType
  BY <1>1, <1>2
<1> QED
  BY <1>2, <1>3 DEF OfferType

\* Before the walk nothing is served and all of the supply is left.
LEMMA InitIInv == Init => IInv
<1> SUFFICES ASSUME Init PROVE IInv
  OBVIOUS
<1> USE DEF Init
<1>1. WalkTypes
  BY OfferTypes, ParametersAssumption DEF WalkTypes
<1>2. Served = {} /\ left > 0
  BY ParametersAssumption DEF Served
<1>3. WalkOrdered
  BY DEF WalkOrdered
<1> QED
  BY <1>1, <1>2, <1>3
     DEF IInv, GrantsBounded, FullWhileLeft, Priority, PriceCeiling, PriceMade,
         ReserveAtSurplus

\* What one step of the first loop does to offer i, to the price and to the
\* quantity left; nothing else changes.
LEMMA ServeEffect ==
  ASSUME IInv, NEW i \in Listed, Serve(i)
  PROVE  /\ i \in todo /\ phase = "serve"
         /\ Served' = Served \cup {i}
         /\ \A j \in Served : Ahead(j, i) /\ grant'[j] = grant[j]
         /\ \A j \in Listed \ {i} : grant'[j] = grant[j]
         /\ grant'[i] \in Nat /\ grant'[i] <= offers[i].qty
         /\ left' \in Nat /\ left' <= left
         /\ price' \in Nat
<1>1. i \in todo /\ phase = "serve" /\ phase' = "serve" /\ offers' = offers
      /\ todo' = todo \ {i}
  BY DEF Serve, At
<1>2. Served = Listed \ todo /\ Served' = Served \cup {i}
  BY <1>1 DEF Served, Listed, IInv, WalkTypes
<1>3. \A j \in Served : Ahead(j, i)
  BY <1>1, <1>2 DEF IInv, WalkOrdered
<1>4. offers[i].price \in Nat /\ offers[i].qty \in Nat /\ grant[i] = offers[i].qty
  BY <1>1, OfferTypes DEF IInv, WalkTypes, WalkOrdered
<1>5. /\ \A j \in Listed \ {i} : grant'[j] = grant[j]
      /\ grant'[i] \in Nat /\ grant'[i] <= offers[i].qty
      /\ left' \in Nat /\ left' <= left
      /\ price' \in Nat
  <2>1. CASE Refuse(i)
    BY <2>1, <1>4 DEF Refuse, IInv, WalkTypes
  <2>2. CASE Shorten(i)
    BY <2>2, <1>4 DEF Shorten, IInv, WalkTypes
  <2>3. CASE Fill(i)
    BY <2>3, <1>4 DEF Fill, IInv, WalkTypes
  <2> QED
    BY <2>1, <2>2, <2>3 DEF Serve
<1>6. i \notin Served
  BY <1>1, <1>2
<1> QED
  BY <1>1, <1>2, <1>3, <1>5, <1>6 DEF IInv, WalkTypes, Served

-----------------------------------------------------------------------------
\* A step of the first loop keeps the invariant: the offer it stands at comes
\* behind all that were served, so its price bounds theirs from below, and it
\* wins something only if none of them was cut short.
LEMMA ServeIInv ==
  ASSUME IInv, NEW i \in Listed, Serve(i)
  PROVE  IInv'
<1>0. /\ Listed \subseteq Nat
      /\ \A j \in Listed : offers[j].price \in Nat /\ offers[j].qty \in Nat
  BY OfferTypes DEF IInv, WalkTypes
<1>1. /\ phase' = phase /\ offers' = offers /\ todo' = todo \ {i}
      /\ Listed' = Listed
  BY DEF Serve, Listed
<1>2. /\ i \in todo /\ phase = "serve"
      /\ Served' = Served \cup {i} /\ Served \subseteq Listed /\ i \notin Served
      /\ \A j \in Served : Ahead(j, i) /\ grant'[j] = grant[j]
      /\ \A j \in Listed \ {i} : grant'[j] = grant[j]
      /\ grant'[i] \in Nat /\ grant'[i] <= offers[i].qty
      /\ left' \in Nat /\ left' <= left /\ price' \in Nat
  BY ServeEffect DEF Served
<1>3. grant[i] = offers[i].qty
  BY <1>2 DEF IInv, WalkOrdered
<1>4. \A j \in Served : offers[i].price <= offers[j].price /\ ~Ahead(i, j)
  BY <1>0, <1>2 DEF Ahead
<1>5. \A j, k \in Listed : Ahead(j, k)' = Ahead(j, k)
  BY <1>1 DEF Ahead
<1>6. \A j \in Listed : Eligible(j)' = Eligible(j)
  BY <1>1 DEF Eligible, BelowReserve
<1>7. \/ Refuse(i) \/ Shorten(i) \/ Fill(i)
  BY DEF Serve
<1>8. WalkTypes'
  <2>1. grant' \in [Listed -> Nat]
    BY <1>2, <1>7 DEF Refuse, Shorten, Fill, IInv, WalkTypes
  <2> QED
    BY <1>1, <1>2, <2>1 DEF IInv, WalkTypes
<1>9. WalkOrdered'
  <2>1. \A j \in todo' : Ahead(i, j)
    BY <1>1 DEF Serve, At
  <2>2. \A j \in Listed \ todo, k \in todo' : Ahead(j, k)
    BY <1>1, <1>2 DEF IInv, WalkOrdered
  <2>3. \A j \in todo' : grant'[j] = offers[j].qty
    BY <1>1, <1>2 DEF IInv, WalkOrdered, WalkTypes
  <2>4. \A j \in Listed \ todo', k \in todo' : Ahead(j, k)'
    BY <1>1, <1>5, <2>1, <2>2, <1>8 DEF WalkTypes
  <2> QED
    BY <1>1, <2>3, <2>4 DEF WalkOrdered
<1>10. GrantsBounded'
  <2>1. ~Eligible(i) => grant'[i] = 0
    BY <1>7 DEF Refuse, Shorten, Fill, Eligible, IInv, WalkTypes
  <2> QED
    BY <1>1, <1>2, <1>6, <2>1 DEF IInv, GrantsBounded
<1>11. FullWhileLeft'
  <2>1. left' > 0 => left > 0
    BY <1>2 DEF IInv, WalkTypes
  <2>2. left' > 0 /\ Eligible(i) => grant'[i] = offers[i].qty
    BY <1>3, <1>7 DEF Refuse, Shorten, Fill, Eligible
  <2> QED
    BY <1>1, <1>2, <1>6, <2>1, <2>2 DEF IInv, FullWhileLeft
<1>12. Priority'
  <2>1. grant'[i] > 0 => left > 0 \/ offers[i].qty = 0
    BY <1>0, <1>2, <1>3, <1>7 DEF Refuse, Shorten, Fill, IInv, WalkTypes
  <2>2. grant'[i] > 0 => left > 0
    BY <1>0, <1>2, <2>1 DEF IInv, WalkTypes
  <2>3. \A j \in Served : Eligible(j) /\ grant'[i] > 0 => grant'[j] = offers[j].qty
    BY <1>2, <2>2 DEF IInv, FullWhileLeft
  <2>4. \A j, k \in Served :
          Eligible(j) /\ Ahead(j, k) /\ grant'[k] > 0 => grant'[j] = offers[j].qty
    BY <1>2 DEF IInv, Priority
  <2>5. ~Ahead(i, i)
    BY <1>0 DEF Ahead
  <2> QED
    BY <1>1, <1>2, <1>4, <1>5, <1>6, <2>3, <2>4, <2>5 DEF Priority
<1>13. PriceCeiling'
  <2>1. price' = price \/ price' = offers[i].price
    BY <1>7 DEF Refuse, Shorten, Fill
  <2>2. grant'[i] > 0 => price' <= offers[i].price
    BY <1>0, <1>7 DEF Refuse, Shorten, Fill, IInv, WalkTypes
  <2>3. \A j \in Served : grant'[j] > 0 => price' <= offers[j].price
    BY <1>2, <1>4, <2>1 DEF IInv, PriceCeiling
  <2> QED
    BY <1>1, <1>2, <2>2, <2>3 DEF PriceCeiling
<1>14. PriceMade'
  <2> SUFFICES ASSUME left' = 0
               PROVE  \E j \in Served' : /\ Eligible(j) /\ price' = offers[j].price
                                         /\ grant'[j] > 0 \/ offers[j].qty = 0
    BY <1>1, <1>2, <1>6 DEF PriceMade
  <2>1. CASE left = 0 /\ price' = price
    BY <2>1, <1>2 DEF IInv, PriceMade
  <2>2. CASE left = 0 /\ price' # price
    BY <2>2, <1>0, <1>2, <1>7 DEF Refuse, Shorten, Fill, Eligible, IInv, WalkTypes
  <2>3. CASE left # 0
    BY <2>3, <1>0, <1>2, <1>3, <1>7 DEF Refuse, Shorten, Fill, Eligible, IInv, WalkTypes
  <2> QED
    BY <2>1, <2>2, <2>3
<1>15. ReserveAtSurplus'
  BY <1>1, <1>2 DEF ReserveAtSurplus
<1> QED
  BY <1>8, <1>9, <1>10, <1>11, <1>12, <1>13, <1>14, <1>15 DEF IInv

\* The end of the first loop keeps the invariant: the reserve price is below
\* every offer that won.
LEMMA SettleIInv ==
  ASSUME IInv, Settle
  PROVE  IInv'
<1>0. \A j \in Listed : offers[j].price \in Nat /\ offers[j].qty \in Nat
  BY OfferTypes DEF IInv, WalkTypes
<1>1. /\ phase = "serve" /\ todo = {} /\ phase' = "create" /\ todo' = Listed
      /\ price' = IF left > 0 THEN Reserve ELSE price
      /\ offers' = offers /\ grant' = grant /\ left' = left
  BY DEF Settle
<1>2. Listed' = Listed /\ Served = Listed /\ Served' = Listed
  BY <1>1 DEF Served, Listed
<1>3. /\ \A i, j \in Listed : Ahead(i, j)' = Ahead(i, j)
      /\ \A i \in Listed : Eligible(i)' = Eligible(i)
  BY <1>1 DEF Ahead, Eligible, BelowReserve
<1>4. WalkTypes'
  BY <1>1, <1>2, ParametersAssumption DEF IInv, WalkTypes
<1>5. WalkOrdered' /\ ReserveAtSurplus'
  BY <1>1 DEF WalkOrdered, ReserveAtSurplus
<1>6. GrantsBounded' /\ FullWhileLeft' /\ Priority'
  BY <1>1, <1>2, <1>3 DEF IInv, GrantsBounded, FullWhileLeft, Priority
<1>7. PriceCeiling'
  <2>1. \A i \in Listed : grant[i] > 0 => Reserve <= offers[i].price
    BY <1>0, <1>2, ParametersAssumption
       DEF IInv, GrantsBounded, WalkTypes, Eligible, BelowReserve
  <2> QED
    BY <1>1, <1>2, <2>1 DEF IInv, PriceCeiling
<1>8. PriceMade'
  BY <1>1, <1>2, <1>3 DEF IInv, PriceMade, WalkTypes
<1> QED
  BY <1>4, <1>5, <1>6, <1>7, <1>8 DEF IInv

\* Nothing after the first loop touches what it decided.
LEMMA LaterIInv ==
  ASSUME IInv, phase = "create", phase' \in {"create", "done", "failed"},
         todo' \subseteq todo, UNCHANGED <<offers, grant, left, price>>
  PROVE  IInv'
<1>1. Listed' = Listed /\ Served = Listed /\ Served' = Listed
  BY DEF Served, Listed
<1>2. /\ \A i, j \in Listed : Ahead(i, j)' = Ahead(i, j)
      /\ \A i \in Listed : Eligible(i)' = Eligible(i)
  BY DEF Ahead, Eligible, BelowReserve
<1>3. WalkTypes' /\ WalkOrdered' /\ ReserveAtSurplus'
  BY <1>1 DEF IInv, WalkTypes, WalkOrdered, ReserveAtSurplus
<1>4. GrantsBounded' /\ FullWhileLeft' /\ Priority' /\ PriceCeiling' /\ PriceMade'
  BY <1>1, <1>2
     DEF IInv, GrantsBounded, FullWhileLeft, Priority, PriceCeiling, PriceMade
<1> QED
  BY <1>3, <1>4 DEF IInv

\* A step of the second loop, and the return.
LEMMA LaterSteps ==
  ASSUME Return \/ \E i \in Listed : Allocate(i)
  PROVE  /\ phase = "create" /\ phase' \in {"create", "done", "failed"}
         /\ todo' \subseteq todo /\ UNCHANGED <<offers, grant, left, price>>
BY DEF Return, Allocate, Create, Increment, IncrementThrows

\* Every step keeps the invariant.
LEMMA NextIInv == IInv /\ [Next]_vars => IInv'
<1> SUFFICES ASSUME IInv, [Next]_vars PROVE IInv'
  OBVIOUS
<1>1. ASSUME NEW i \in Listed, Serve(i) PROVE IInv'
  BY <1>1, ServeIInv
<1>2. CASE Settle
  BY <1>2, SettleIInv
<1>3. CASE Return \/ \E i \in Listed : Allocate(i)
  BY <1>3, LaterSteps, LaterIInv
<1>4. CASE UNCHANGED vars
  BY <1>4
     DEF vars, IInv, WalkTypes, WalkOrdered, GrantsBounded, FullWhileLeft, Priority,
         PriceCeiling, PriceMade, ReserveAtSurplus, Served, Listed, Ahead, Eligible,
         BelowReserve
<1> QED
  BY <1>1, <1>2, <1>3, <1>4 DEF Next

-----------------------------------------------------------------------------
\* The end of the first loop clears the market.
LEMMA SettleClears ==
  ASSUME IInv, Settle
  PROVE  Market!Clear
<1>1. /\ phase = "serve" /\ phase' = "create" /\ offers' = offers
      /\ grant' = grant /\ left' = left
  BY DEF Settle
<1>2. IInv' /\ Served' = Listed /\ Listed' = Listed
  BY <1>1, SettleIInv DEF Served, Listed
<1> DEFINE o == [grant |-> grant', price |-> price', unsold |-> left']
<1>3. \A j \in Listed : offers[j].price \in Nat /\ offers[j].qty \in Nat
  BY OfferTypes DEF IInv, WalkTypes
<1>4. /\ \A i, j \in Listed : Ahead(i, j)' = Ahead(i, j)
      /\ \A i \in Listed : Eligible(i)' = Eligible(i)
  BY <1>1 DEF Ahead, Eligible, BelowReserve
<1>5. \A i, j \in Listed : /\ Market!Ahead(i, j) <=> Ahead(i, j)
                           /\ Market!Eligible(i) <=> Eligible(i)
  BY <1>3, ParametersAssumption
     DEF Ahead, Eligible, BelowReserve, Market!Ahead, Market!Eligible
<1>6. o \in Market!Outcomes
  BY <1>1, <1>2 DEF IInv, WalkTypes, Market!Outcomes, Listed
<1>7. Market!GrantsWithinOffers(o)
  BY <1>1, <1>2, <1>4, <1>5
     DEF IInv, GrantsBounded, Market!GrantsWithinOffers, Listed
<1>8. Market!PriorityKept(o)
  BY <1>1, <1>2, <1>4, <1>5 DEF IInv, Priority, Market!PriorityKept, Listed
<1>9. Market!NothingHeldBack(o)
  BY <1>1, <1>2, <1>4, <1>5 DEF IInv, FullWhileLeft, Market!NothingHeldBack, Listed
<1>10. Market!PriceMarginal(o)
  BY <1>1, <1>2, <1>4, <1>5
     DEF IInv, WalkTypes, PriceMade, ReserveAtSurplus, Market!PriceMarginal, Listed
<1>11. Market!PriceFair(o)
  <2>1. \A i \in Listed : Market!Eligible(i) => offers[i].price >= Reserve
    BY DEF Market!Eligible
  <2>2. o.price >= Reserve
    BY <1>2, <1>10, <2>1, ParametersAssumption DEF Market!PriceMarginal, Listed
  <2>3. \A i \in Listed : o.grant[i] > 0 => o.price <= offers[i].price
    BY <1>1, <1>2 DEF IInv, PriceCeiling
  <2> QED
    BY <2>2, <2>3 DEF Market!PriceFair, Listed
<1>12. Market!Lawful(o)
  BY <1>7, <1>8, <1>9, <1>10, <1>11 DEF Market!Lawful
<1> QED
  BY <1>1, <1>6, <1>12 DEF Market!Clear

\* Every other step leaves the market as it is.
LEMMA OthersStutter ==
  ASSUME [Next]_vars, ~Settle
  PROVE  UNCHANGED <<offers, IF phase = "serve" THEN NoOutcome
                             ELSE [grant |-> grant, price |-> price, unsold |-> left]>>
<1>1. ASSUME NEW i \in Listed, Serve(i)
      PROVE  phase = "serve" /\ phase' = "serve" /\ offers' = offers
  BY <1>1 DEF Serve
<1>2. CASE Return \/ \E i \in Listed : Allocate(i)
  BY <1>2, LaterSteps
<1>3. CASE UNCHANGED vars
  BY <1>3 DEF vars
<1> QED
  BY <1>1, <1>2, <1>3 DEF Next

\* An execution of bas is the clearing of a market: grants go by price, in
\* full before the next, nothing is held back, and all winners pay one price
\* between the reserve and their own (execute(), bas.cpp).
THEOREM ClearsMarket == Spec => ImplementsMarket
<1>1. Init => Market!Init
  BY DEF Init, Market!Init
<1>2. IInv /\ [Next]_vars => [Market!Clear]_<<offers, IF phase = "serve" THEN NoOutcome
              ELSE [grant |-> grant, price |-> price, unsold |-> left]>>
  BY SettleClears, OthersStutter
<1> QED
  BY <1>1, <1>2, InitIInv, NextIInv, PTL DEF Spec, ImplementsMarket, Market!Spec

-----------------------------------------------------------------------------
(***************************************************************************)
(* Sums over finite sets.  MapThenSumSet is a recursive function on the    *)
(* subsets of the set; that there is one, and that the order in which it   *)
(* takes the members does not matter, is shown by a smallest set for which *)
(* it would not hold.                                                      *)
(***************************************************************************)

\* The member of a set that is taken first.
First(s) == CHOOSE x \in s : TRUE

\* g is the recursive function that adds up f over the subsets of S.
Sums(S, f, g) ==
  g = [s \in SUBSET S |-> IF s = {} THEN 0 ELSE f[First(s)] + g[s \ {First(s)}]]

\* The sum of f over S.
SumOf(f, S) == (CHOOSE g : Sums(S, f, g))[S]

\* Of finite sets there is a smallest one.
LEMMA SmallestSet ==
  ASSUME NEW C, C # {}, \A s \in C : IsFiniteSet(s)
  PROVE  \E s \in C : \A t \in C : Cardinality(s) <= Cardinality(t)
<1> DEFINE R == OpToRel(<, Nat)
           T == {Cardinality(s) : s \in C}
<1>1. T \in SUBSET Nat /\ T # {}
  BY FS_CardinalityType
<1>2. \E n \in T : \A m \in T : <<m, n>> \notin R
  <2>1. IsWellFoundedOn(R, Nat)
    BY NatLessThanWellFounded
  <2> HIDE DEF R, T
  <2> QED
    BY <1>1, <2>1, WFMin
<1>3. \A m, n \in Nat : <<m, n>> \in R <=> m < n
  BY DEF OpToRel
<1> HIDE DEF R
<1>4. PICK s \in C : \A t \in C : <<Cardinality(t), Cardinality(s)>> \notin R
  BY <1>2
<1>5. \A t \in C : Cardinality(t) \in Nat
  BY FS_CardinalityType
<1>6. \A t \in C : ~(Cardinality(t) < Cardinality(s))
  BY <1>3, <1>4, <1>5
<1> QED
  BY <1>5, <1>6

\* What is left of a finite set without a member of it.
LEMMA Without ==
  ASSUME NEW s, IsFiniteSet(s), NEW x \in s
  PROVE  IsFiniteSet(s \ {x}) /\ Cardinality(s \ {x}) < Cardinality(s)
<1>1. IsFiniteSet(s \ {x}) /\ Cardinality(s \ {x}) = Cardinality(s) - 1
  BY FS_RemoveElement
<1>2. Cardinality(s) \in Nat
  BY FS_CardinalityType
<1> QED
  BY <1>1, <1>2

\* The member that is taken first.
LEMMA FirstMember == \A s : s # {} => First(s) \in s
BY DEF First

\* The recursive function that adds up exists.
LEMMA SumsExist ==
  ASSUME NEW S, IsFiniteSet(S), NEW f
  PROVE  \E g : Sums(S, f, g)
<1> DEFINE Smaller(t) == {s \in SUBSET S : Cardinality(s) <= Cardinality(t)}
           Upto(t, g) ==
             g = [s \in Smaller(t) |-> IF s = {} THEN 0 ELSE f[First(s)] + g[s \ {First(s)}]]
           C == {t \in SUBSET S : ~ \E g : Upto(t, g)}
<1>1. \A s \in SUBSET S : IsFiniteSet(s) /\ Cardinality(s) \in Nat
  BY FS_Subset, FS_CardinalityType
<1>2. C = {}
  <2> SUFFICES ASSUME C # {} PROVE FALSE
    OBVIOUS
  <2>1. PICK t \in C : \A u \in C : Cardinality(t) <= Cardinality(u)
    BY <1>1, SmallestSet
  <2>2. CASE t = {}
    <3>1. \A s \in Smaller(t) : s = {}
      BY <1>1, <2>2, FS_EmptySet
    <3> DEFINE g == [s \in Smaller(t) |-> 0]
    <3>2. Upto(t, g)
      BY <3>1
    <3> QED
      BY <2>1, <3>2
  <2>3. CASE t # {}
    <3> DEFINE u == t \ {First(t)}
    <3>1. First(t) \in t /\ t \in SUBSET S
      BY <2>3, FirstMember
    <3>2. u \in SUBSET S /\ Cardinality(u) = Cardinality(t) - 1
      BY <1>1, <3>1, FS_RemoveElement
    <3>3. PICK g : Upto(u, g)
      <4> HIDE DEF C, u
      <4>1. u \notin C
        BY <1>1, <2>1, <3>1, <3>2
      <4> QED
        BY <3>2, <4>1 DEF C
    <3> DEFINE h == [s \in Smaller(t) |-> IF s = {} THEN 0 ELSE f[First(s)] + g[s \ {First(s)}]]
    <3>4. \A s \in Smaller(t) : s # {} => s \ {First(s)} \in Smaller(u)
      <4> SUFFICES ASSUME NEW s \in Smaller(t), s # {} PROVE s \ {First(s)} \in Smaller(u)
        OBVIOUS
      <4>1. First(s) \in s /\ IsFiniteSet(s)
        BY <1>1, FirstMember
      <4>2. Cardinality(s \ {First(s)}) = Cardinality(s) - 1
        BY <4>1, FS_RemoveElement
      <4> QED
        BY <1>1, <3>1, <3>2, <4>2
    <3>5. \A s \in Smaller(u) : s \in Smaller(t) /\ h[s] = g[s]
      <4>1. \A s \in Smaller(u) : s \in Smaller(t)
        BY <1>1, <3>1, <3>2
      <4> QED
        BY <3>3, <4>1
    <3>6. \A s \in Smaller(t) : h[s] = IF s = {} THEN 0 ELSE f[First(s)] + h[s \ {First(s)}]
      BY <3>4, <3>5
    <3> HIDE DEF Smaller
    <3>7. Upto(t, h)
      BY <3>6
    <3> QED
      BY <2>1, <3>7
  <2> QED
    BY <2>2, <2>3
<1>3. PICK g : Upto(S, g)
  BY <1>2
<1>4. Smaller(S) = SUBSET S
  <2>1. \A s \in SUBSET S : Cardinality(s) <= Cardinality(S)
    BY FS_Subset
  <2> QED
    BY <2>1
<1> HIDE DEF Smaller
<1> QED
  BY <1>3, <1>4 DEF Sums

\* Every part of a sum of numbers is a number.
LEMMA SumsNat ==
  ASSUME NEW S, IsFiniteSet(S), NEW f, \A x \in S : f[x] \in Nat, NEW g, Sums(S, f, g),
         NEW s \in SUBSET S
  PROVE  g[s] \in Nat
<1> DEFINE C == {t \in SUBSET S : g[t] \notin Nat}
<1> SUFFICES ASSUME C # {} PROVE FALSE
  OBVIOUS
<1>1. \A t \in SUBSET S : IsFiniteSet(t)
  BY FS_Subset
<1>2. PICK t \in C : \A u \in C : Cardinality(t) <= Cardinality(u)
  BY <1>1, SmallestSet
<1>3. t # {} /\ g[t] = f[First(t)] + g[t \ {First(t)}]
  <2>1. t \in SUBSET S /\ g[t] \notin Nat
    BY <1>2
  <2>2. g[t] = IF t = {} THEN 0 ELSE f[First(t)] + g[t \ {First(t)}]
    BY <2>1 DEF Sums
  <2> QED
    BY <2>1, <2>2
<1>4. First(t) \in t
  BY <1>3, FirstMember
<1>5. t \ {First(t)} \in SUBSET S /\ t \ {First(t)} \notin C
  <2>1. Cardinality(t \ {First(t)}) < Cardinality(t)
    BY <1>1, <1>4, Without
  <2>2. Cardinality(t) \in Nat /\ Cardinality(t \ {First(t)}) \in Nat
    BY <1>1, <1>4, Without, FS_CardinalityType
  <2> HIDE DEF C
  <2>3. t \ {First(t)} \notin C
    BY <1>2, <2>1, <2>2
  <2> QED
    BY <1>2, <2>3 DEF C
<1>6. g[t \ {First(t)}] \in Nat /\ f[First(t)] \in Nat
  BY <1>4, <1>5
<1> QED
  BY <1>2, <1>3, <1>6

\* Sums over parts do not depend on the whole.
LEMMA SumsAgree ==
  ASSUME NEW S, IsFiniteSet(S), NEW T, T \subseteq S, NEW f, NEW g, NEW h,
         Sums(S, f, g), Sums(T, f, h), NEW s \in SUBSET T
  PROVE  h[s] = g[s]
<1> DEFINE C == {t \in SUBSET T : h[t] # g[t]}
<1> SUFFICES ASSUME C # {} PROVE FALSE
  OBVIOUS
<1>1. \A t \in SUBSET T : IsFiniteSet(t)
  BY FS_Subset
<1>2. PICK t \in C : \A u \in C : Cardinality(t) <= Cardinality(u)
  BY <1>1, SmallestSet
<1>3. /\ t # {} /\ t \in SUBSET T /\ t \in SUBSET S
      /\ g[t] = f[First(t)] + g[t \ {First(t)}]
      /\ h[t] = f[First(t)] + h[t \ {First(t)}]
  BY <1>2 DEF Sums
<1>4. First(t) \in t
  BY <1>3, FirstMember
<1>5. t \ {First(t)} \notin C
  <2>1. Cardinality(t \ {First(t)}) < Cardinality(t)
    BY <1>1, <1>3, <1>4, Without
  <2>2. Cardinality(t) \in Nat /\ Cardinality(t \ {First(t)}) \in Nat
    BY <1>1, <1>3, <1>4, Without, FS_CardinalityType
  <2> HIDE DEF C
  <2> QED
    BY <1>2, <2>1, <2>2
<1> QED
  BY <1>2, <1>3, <1>5

\* Any member may be taken first.
LEMMA SumsAnyOrder ==
  ASSUME NEW S, IsFiniteSet(S), NEW f, \A x \in S : f[x] \in Nat, NEW g, Sums(S, f, g),
         NEW s \in SUBSET S, NEW x \in s
  PROVE  g[s] = f[x] + g[s \ {x}]
<1> DEFINE Holds(t) == \A y \in t : g[t] = f[y] + g[t \ {y}]
           C == {t \in SUBSET S : ~Holds(t)}
<1>1. C = {}
  <2> SUFFICES ASSUME C # {} PROVE FALSE
    OBVIOUS
  <2>1. \A t \in SUBSET S : IsFiniteSet(t)
    BY FS_Subset
  <2>2. PICK t \in C : \A u \in C : Cardinality(t) <= Cardinality(u)
    BY <2>1, SmallestSet
  <2>3. PICK y \in t : g[t] # f[y] + g[t \ {y}]
    BY <2>2
  <2> DEFINE z == First(t)
  <2>4. z \in t /\ t \in SUBSET S /\ g[t] = f[z] + g[t \ {z}]
    <3>1. t # {} /\ t \in SUBSET S
      BY <2>2, <2>3
    <3> QED
      BY <3>1, FirstMember DEF Sums
  <2> HIDE DEF z
  <2>5. y # z
    BY <2>3, <2>4
  <2>6. ASSUME NEW w \in t PROVE Holds(t \ {w}) /\ g[t \ {w}] \in Nat
    <3>1. Cardinality(t \ {w}) < Cardinality(t)
      BY <2>1, <2>4, Without
    <3>2. Cardinality(t) \in Nat /\ Cardinality(t \ {w}) \in Nat
      BY <2>1, <2>4, Without, FS_CardinalityType
    <3>3. t \ {w} \notin C
      <4> HIDE DEF C
      <4> QED
        BY <2>2, <3>1, <3>2
    <3>4. t \ {w} \in SUBSET S
      BY <2>4
    <3>5. g[t \ {w}] \in Nat
      BY <3>4, SumsNat
    <3> QED
      BY <3>3, <3>4, <3>5
  <2>7. g[t \ {z}] = f[y] + g[(t \ {z}) \ {y}] /\ g[t \ {y}] = f[z] + g[(t \ {y}) \ {z}]
    BY <2>3, <2>4, <2>5, <2>6
  <2>8. (t \ {z}) \ {y} = (t \ {y}) \ {z} /\ (t \ {z}) \ {y} \in SUBSET S
    BY <2>4
  <2>9. f[y] \in Nat /\ f[z] \in Nat /\ g[(t \ {z}) \ {y}] \in Nat
    <3>1. g[(t \ {z}) \ {y}] \in Nat
      BY <2>8, SumsNat
    <3> QED
      BY <2>3, <2>4, <3>1
  <2>10. \A a, b, c \in Nat : a + (b + c) = b + (a + c)
    OBVIOUS
  <2>11. f[z] + (f[y] + g[(t \ {z}) \ {y}]) = f[y] + (f[z] + g[(t \ {z}) \ {y}])
    BY <2>9, <2>10
  <2>12. g[t] = f[y] + g[t \ {y}]
    BY <2>4, <2>7, <2>8, <2>11
  <2> QED
    BY <2>3, <2>12
<1> QED
  BY <1>1

\* Sums of numbers are numbers.
LEMMA SumOfNat ==
  ASSUME NEW S, IsFiniteSet(S), NEW f, \A x \in S : f[x] \in Nat
  PROVE  SumOf(f, S) \in Nat
<1> DEFINE g == CHOOSE g : Sums(S, f, g)
<1>1. Sums(S, f, g)
  BY SumsExist
<1> HIDE DEF g
<1>2. g[S] \in Nat
  BY <1>1, SumsNat
<1> QED
  BY <1>2 DEF SumOf, g

\* The sum over nothing.
LEMMA SumOfNone == ASSUME NEW f PROVE SumOf(f, {}) = 0
<1> DEFINE g == CHOOSE g : Sums({}, f, g)
<1>1. Sums({}, f, g)
  BY SumsExist, FS_EmptySet
<1> HIDE DEF g
<1>2. g[{}] = 0
  BY <1>1 DEF Sums
<1> QED
  BY <1>2 DEF SumOf, g

\* One more member adds its value.
LEMMA SumOfMore ==
  ASSUME NEW S, IsFiniteSet(S), NEW x, x \notin S, NEW f, \A y \in S \cup {x} : f[y] \in Nat
  PROVE  SumOf(f, S \cup {x}) = f[x] + SumOf(f, S)
<1> DEFINE T == S \cup {x}
           g == CHOOSE g : Sums(T, f, g)
           h == CHOOSE h : Sums(S, f, h)
<1>1. IsFiniteSet(T)
  BY FS_AddElement
<1>2. Sums(T, f, g) /\ Sums(S, f, h)
  BY <1>1, SumsExist
<1>3. SumOf(f, T) = g[T] /\ SumOf(f, S) = h[S]
  BY DEF SumOf
<1> HIDE DEF g, h
<1>4. T \ {x} = S /\ x \in T /\ S \subseteq T
  OBVIOUS
<1> HIDE DEF T
<1>5. \A y \in T : f[y] \in Nat
  BY DEF T
<1>6. g[T] = f[x] + g[T \ {x}]
  BY <1>1, <1>2, <1>4, <1>5, SumsAnyOrder
<1>7. h[S] = g[S]
  BY <1>1, <1>2, <1>4, SumsAgree
<1> QED
  BY <1>3, <1>4, <1>6, <1>7 DEF T

-----------------------------------------------------------------------------
(***************************************************************************)
(* The shares.  As the walk goes down, what it has served is what is ahead *)
(* of the offer it stands at, so what is left is what these leave of the   *)
(* supply.                                                                 *)
(***************************************************************************)

\* The quantities of the offers, as a function.
Qty == [j \in Listed |-> offers[j].qty]

\* The sums of the properties are the sums of the lemmas.
LEMMA TotalQty ==
  ASSUME NEW S \in SUBSET Listed, IsFiniteSet(S)
  PROVE  Total(LAMBDA j : offers[j].qty, S) = SumOf(Qty, S)
<1> DEFINE G(g) == g = [s \in SUBSET S |-> IF s = {} THEN 0
                          ELSE offers[CHOOSE x \in s : TRUE].qty + g[s \ {CHOOSE x \in s : TRUE}]]
           h == CHOOSE g : G(g)
           k == CHOOSE g : Sums(S, Qty, g)
<1>1. Total(LAMBDA j : offers[j].qty, S) = h[S]
  BY DEF Total, MapThenSumSet, MapThenFoldSet
<1>2. \A s \in SUBSET S : s # {} => Qty[First(s)] = offers[CHOOSE x \in s : TRUE].qty
  BY DEF Qty, First
<1>3. ASSUME NEW g PROVE Sums(S, Qty, g) <=> G(g)
  <2>1. \A s \in SUBSET S :
          (IF s = {} THEN 0 ELSE Qty[First(s)] + g[s \ {First(s)}])
            = IF s = {} THEN 0
              ELSE offers[CHOOSE x \in s : TRUE].qty + g[s \ {CHOOSE x \in s : TRUE}]
    BY <1>2 DEF First
  <2>2. [s \in SUBSET S |-> IF s = {} THEN 0 ELSE Qty[First(s)] + g[s \ {First(s)}]]
          = [s \in SUBSET S |-> IF s = {} THEN 0
              ELSE offers[CHOOSE x \in s : TRUE].qty + g[s \ {CHOOSE x \in s : TRUE}]]
    BY <2>1
  <2> QED
    BY <2>2 DEF Sums
<1>4. \E g : Sums(S, Qty, g)
  BY SumsExist
<1>5. Sums(S, Qty, h) /\ Sums(S, Qty, k)
  <2> HIDE DEF G
  <2> QED
    BY <1>3, <1>4
<1> HIDE DEF h, k
<1>6. h[S] = k[S]
  BY <1>5, SumsAgree
<1> QED
  BY <1>1, <1>6 DEF SumOf, k

\* The same for the grants.
LEMMA TotalGrant ==
  ASSUME NEW S \in SUBSET Listed, IsFiniteSet(S)
  PROVE  Total(LAMBDA j : grant[j], S) = SumOf(grant, S)
<1> DEFINE G(g) == g = [s \in SUBSET S |-> IF s = {} THEN 0
                          ELSE grant[CHOOSE x \in s : TRUE] + g[s \ {CHOOSE x \in s : TRUE}]]
           h == CHOOSE g : G(g)
           k == CHOOSE g : Sums(S, grant, g)
<1>1. Total(LAMBDA j : grant[j], S) = h[S]
  BY DEF Total, MapThenSumSet, MapThenFoldSet
<1>2. ASSUME NEW g PROVE Sums(S, grant, g) <=> G(g)
  BY DEF Sums, First
<1>3. \E g : Sums(S, grant, g)
  BY SumsExist
<1>4. Sums(S, grant, h) /\ Sums(S, grant, k)
  <2> HIDE DEF G
  <2> QED
    BY <1>2, <1>3
<1> HIDE DEF h, k
<1>5. h[S] = k[S]
  BY <1>4, SumsAgree
<1> QED
  BY <1>1, <1>5 DEF SumOf, k

-----------------------------------------------------------------------------
\* What the offers of s leave of the supply.
Remains(s) == IF SumOf(Qty, s) < Supply THEN Supply - SumOf(Qty, s) ELSE 0

EligibleOf(s) == {j \in s : offers[j].price >= Reserve}

\* The eligible offers ahead of offer i.
Before(i) == {j \in Listed : Ahead(j, i) /\ offers[j].price >= Reserve}

\* What of them offer i gets.
Share(i) == IF offers[i].price < Reserve THEN 0
            ELSE IF offers[i].qty < Remains(Before(i)) THEN offers[i].qty
            ELSE Remains(Before(i))

\* What is left is what the eligible offers served leave of the supply.
LeftExact == phase = "serve" => left = Remains(EligibleOf(Served))

\* Every offer served has its share.
SharesExact == \A i \in Served : grant[i] = Share(i)

\* The offers of a book are finitely many.
LEMMA ListedFinite ==
  ASSUME offers \in Books, NEW s \in SUBSET Listed
  PROVE  IsFiniteSet(s)
<1>1. offers \in Seq(OfferType)
  BY BooksAssumption
<1>2. Len(offers) \in Nat /\ Listed = 1 .. Len(offers)
  BY <1>1 DEF Listed
<1>3. IsFiniteSet(Listed)
  BY <1>2, FS_Interval
<1> QED
  BY <1>3, FS_Subset

\* The property and the invariant speak of the same shares.
LEMMA SharesStated ==
  ASSUME offers \in Books
  PROVE  GrantsAreShares <=> SharesExact
<1>1. ASSUME NEW i \in Listed
      PROVE  Total(LAMBDA j : offers[j].qty,
                   {j \in Listed : Ahead(j, i) /\ offers[j].price >= Reserve})
               = SumOf(Qty, Before(i))
  <2>1. Before(i) \in SUBSET Listed /\ IsFiniteSet(Before(i))
    BY ListedFinite DEF Before
  <2>2. Total(LAMBDA j : offers[j].qty, Before(i)) = SumOf(Qty, Before(i))
    BY <2>1, TotalQty
  <2> QED
    BY <2>2 DEF Before
<1>2. Served \subseteq Listed
  BY DEF Served
<1> QED
  BY <1>1, <1>2 DEF GrantsAreShares, SharesExact, Share, Remains

\* Sums of quantities are numbers, and one more offer adds its quantity.
LEMMA QtySums ==
  ASSUME offers \in Books, NEW s \in SUBSET Listed
  PROVE  /\ SumOf(Qty, s) \in Nat
         /\ \A i \in Listed \ s : SumOf(Qty, s \cup {i}) = offers[i].qty + SumOf(Qty, s)
<1>1. \A i \in Listed : Qty[i] = offers[i].qty /\ Qty[i] \in Nat
  BY OfferTypes DEF Qty
<1>2. IsFiniteSet(s)
  BY ListedFinite
<1>3. SumOf(Qty, s) \in Nat
  BY <1>1, <1>2, SumOfNat
<1>4. ASSUME NEW i \in Listed \ s PROVE SumOf(Qty, s \cup {i}) = offers[i].qty + SumOf(Qty, s)
  <2>1. SumOf(Qty, s \cup {i}) = Qty[i] + SumOf(Qty, s)
    BY <1>1, <1>2, SumOfMore
  <2> QED
    BY <1>1, <2>1
<1> QED
  BY <1>3, <1>4

\* Before the walk nothing is granted and all of the supply is left.
LEMMA InitShares == Init => LeftExact /\ SharesExact
<1> SUFFICES ASSUME Init PROVE LeftExact /\ SharesExact
  OBVIOUS
<1>1. Served = {}
  BY DEF Init, Served
<1>2. EligibleOf({}) = {}
  BY DEF EligibleOf
<1>3. Remains({}) = Supply
  BY SumOfNone, ParametersAssumption DEF Remains
<1> QED
  BY <1>1, <1>2, <1>3 DEF Init, LeftExact, SharesExact

\* The offers ahead of the one the loop stands at are those it has served.
LEMMA ServeShares ==
  ASSUME IInv, LeftExact, SharesExact, NEW i \in Listed, Serve(i)
  PROVE  LeftExact' /\ SharesExact'
<1>1. /\ phase = "serve" /\ phase' = "serve" /\ offers' = offers /\ i \in todo
      /\ Listed' = Listed /\ Qty' = Qty
  BY DEF Serve, At, Listed, Qty
<1>2. /\ Served' = Served \cup {i} /\ Served \subseteq Listed /\ i \notin Served
      /\ \A j \in Served : Ahead(j, i) /\ grant'[j] = grant[j]
  BY <1>1, ServeEffect DEF Served
<1>3. /\ Listed \subseteq Nat
      /\ \A j \in Listed : offers[j].price \in Nat /\ offers[j].qty \in Nat
  BY OfferTypes DEF IInv, WalkTypes
<1> DEFINE S == EligibleOf(Served)
<1>4. Before(i) = S /\ i \notin S /\ S \in SUBSET Listed
  <2>1. \A j \in Listed : Ahead(j, i) => j \in Served
    <3>1. \A j \in todo \ {i} : Ahead(i, j)
      BY DEF Serve, At
    <3>2. \A j \in Listed \ Served : j = i \/ j \in todo \ {i}
      BY <1>1 DEF Served
    <3> QED
      BY <1>3, <3>1, <3>2 DEF Ahead
  <2> QED
    BY <1>2, <2>1 DEF Before, EligibleOf
<1>5. /\ SumOf(Qty, S) \in Nat
      /\ SumOf(Qty, S \cup {i}) = offers[i].qty + SumOf(Qty, S)
  BY <1>4, QtySums DEF IInv, WalkTypes
<1>6. left = IF SumOf(Qty, S) < Supply THEN Supply - SumOf(Qty, S) ELSE 0
  BY <1>1 DEF LeftExact, Remains
<1>7. EligibleOf(Served') = IF BelowReserve(i) THEN S ELSE S \cup {i}
  BY <1>2, <1>3, ParametersAssumption DEF EligibleOf, BelowReserve
<1> HIDE DEF S
<1>8. grant[i] = offers[i].qty /\ grant \in [Listed -> Nat] /\ Supply \in Nat \ {0} /\ Reserve \in Nat
  BY <1>1, ParametersAssumption DEF IInv, WalkOrdered, WalkTypes
<1>9. grant'[i] = Share(i)
  <2>1. Share(i) = IF offers[i].price < Reserve THEN 0
                   ELSE IF offers[i].qty < left THEN offers[i].qty ELSE left
    BY <1>4, <1>6 DEF Share, Remains
  <2>2. CASE Refuse(i)
    BY <1>8, <2>1, <2>2 DEF Refuse, BelowReserve
  <2>3. CASE Shorten(i)
    BY <1>3, <1>5, <1>6, <1>8, <2>1, <2>3 DEF Shorten, BelowReserve
  <2>4. CASE Fill(i)
    BY <1>3, <1>5, <1>6, <1>8, <2>1, <2>4 DEF Fill, BelowReserve
  <2> QED
    BY <2>2, <2>3, <2>4 DEF Serve
<1>10. left' = Remains(EligibleOf(Served'))
  <2>1. CASE Refuse(i)
    BY <1>6, <1>7, <2>1 DEF Refuse, Remains
  <2>2. CASE Shorten(i)
    <3>1. Remains(S \cup {i}) = 0
      BY <1>3, <1>5, <1>6, <1>8, <2>2 DEF Shorten, Remains
    <3> QED
      BY <1>7, <2>2, <3>1 DEF Shorten
  <2>3. CASE Fill(i)
    <3>1. Remains(S \cup {i}) = left - offers[i].qty
      BY <1>3, <1>5, <1>6, <1>8, <2>3 DEF Fill, Remains
    <3> QED
      BY <1>7, <2>3, <3>1 DEF Fill
  <2> QED
    BY <2>1, <2>2, <2>3 DEF Serve
<1>11. \A s : Remains(s)' = Remains(s)
  BY <1>1 DEF Remains
<1>12. EligibleOf(Served)' = EligibleOf(Served')
  BY <1>1 DEF EligibleOf
<1>13. \A j \in Listed : Share(j)' = Share(j)
  BY <1>1 DEF Share, Remains, Before, Ahead
<1>14. LeftExact'
  BY <1>1, <1>10, <1>12 DEF LeftExact, Remains
<1>15. SharesExact'
  BY <1>1, <1>2, <1>9, <1>13 DEF SharesExact
<1> QED
  BY <1>14, <1>15

\* Nothing after the first loop touches a grant.
LEMMA KeptShares ==
  ASSUME LeftExact, SharesExact, [Next]_vars, \A i \in Listed : ~Serve(i)
  PROVE  LeftExact' /\ SharesExact'
<1>1. \/ UNCHANGED <<offers, grant, left, Served>> /\ phase' # "serve"
      \/ UNCHANGED vars
  <2>1. CASE Settle
    BY <2>1 DEF Settle, Served, Listed
  <2>2. CASE Return \/ \E i \in Listed : Allocate(i)
    BY <2>2, LaterSteps DEF Served, Listed
  <2> QED
    BY <2>1, <2>2 DEF Next
<1>2. UNCHANGED <<offers, grant, left, Served>> /\ (phase' = "serve" => phase = "serve")
  BY <1>1 DEF vars, Served, Listed
<1>3. Listed' = Listed /\ Qty' = Qty
  BY <1>2 DEF Listed, Qty
<1>4. \A j \in Listed : Share(j)' = Share(j)
  BY <1>2, <1>3 DEF Share, Remains, Before, Ahead
<1>5. EligibleOf(Served)' = EligibleOf(Served)
  BY <1>2 DEF EligibleOf
<1>6. Served \subseteq Listed
  BY DEF Served
<1> QED
  BY <1>2, <1>3, <1>4, <1>5, <1>6 DEF LeftExact, SharesExact, Remains

\* Every offer that was served has exactly its share: what the supply leaves
\* after all eligible offers ahead of it (the first loop of execute(), bas.cpp).
THEOREM GrantsStayShares == Spec => []GrantsAreShares
<1> DEFINE Inv == IInv /\ LeftExact /\ SharesExact
<1>1. Init => Inv
  BY InitIInv, InitShares
<1>2. Inv /\ [Next]_vars => Inv'
  BY NextIInv, ServeShares, KeptShares
<1>3. Inv => GrantsAreShares
  BY SharesStated DEF IInv, WalkTypes
<1> HIDE DEF Inv
<1> QED
  BY <1>1, <1>2, <1>3, PTL DEF Spec

-----------------------------------------------------------------------------
(***************************************************************************)
(* The allocations.  Both loops walk in the same order, so the allocation  *)
(* of a bid was made from its best offer; the second one ends up in the    *)
(* price.                                                                  *)
(***************************************************************************)

\* What incrementQuantityAllocation makes of an allocation: the price of the
\* second offer is added to, and the record's id takes its place.
IncrementedOnce(i, j) ==
  <<Field("quantity", grant[i]), Field("recordid", NotANumber),
    Field("unitprice", price + grant[j])>>

\* The first field with another name than the quantity is the second one.
LEMMA SecondField ==
  ASSUME NEW fields, Len(fields) = 3, fields[1].name = "quantity", fields[2].name # "quantity"
  PROVE  FieldToIncrement(fields) = 2
<1> DEFINE I == {k \in 1 .. Len(fields) : fields[k].name # "quantity"}
<1>1. 2 \in I /\ 1 \notin I /\ I \subseteq 1 .. 3
  OBVIOUS
<1>2. FieldToIncrement(fields) = IF I # {} THEN CHOOSE x \in I : \A y \in I : x =< y ELSE 0
  BY DEF FieldToIncrement, SelectInSeq, Min
<1> HIDE DEF I
<1>3. \A y \in I : y >= 2
  <2>1. \A y \in 1 .. 3 : y # 1 => y >= 2
    OBVIOUS
  <2> QED
    BY <1>1, <2>1
<1>4. \A x \in I : (\A y \in I : x =< y) => x = 2
  BY <1>1, <1>3
<1>5. \E x \in I : \A y \in I : x =< y
  BY <1>1, <1>3
<1> QED
  BY <1>1, <1>2, <1>4, <1>5

\* Three fields without the second.
LEMMA RemoveSecond ==
  ASSUME NEW a, NEW b, NEW c
  PROVE  RemoveAt(<<a, b, c>>, 2) = <<a, c>>
<1> DEFINE S == {a, b, c}
           s == <<a, b, c>>
<1>1. s \in Seq(S) /\ Len(s) = 3 /\ s[1] = a /\ s[3] = c
  OBVIOUS
<1>2. RemoveAt(s, 2) = SubSeq(s, 1, 1) \o SubSeq(s, 3, 3)
  BY <1>1 DEF RemoveAt
<1> HIDE DEF s
<1>3. /\ SubSeq(s, 1, 1) \in Seq(S) /\ Len(SubSeq(s, 1, 1)) = 1
      /\ SubSeq(s, 1, 1)[1] = a
  BY <1>1, SubSeqProperties
<1>4. /\ SubSeq(s, 3, 3) \in Seq(S) /\ Len(SubSeq(s, 3, 3)) = 1
      /\ SubSeq(s, 3, 3)[1] = c
  BY <1>1, SubSeqProperties
<1>5. /\ RemoveAt(s, 2) \in Seq(S) /\ Len(RemoveAt(s, 2)) = 2
      /\ RemoveAt(s, 2)[1] = a /\ RemoveAt(s, 2)[2] = c
  <2> DEFINE p == SubSeq(s, 1, 1)
             q == SubSeq(s, 3, 3)
  <2>1. p \in Seq(S) /\ q \in Seq(S) /\ Len(p) = 1 /\ Len(q) = 1 /\ p[1] = a /\ q[1] = c
    BY <1>3, <1>4
  <2> HIDE DEF p, q
  <2>2. /\ p \o q \in Seq(S) /\ Len(p \o q) = 1 + 1
        /\ \A n \in 1 .. 1 + 1 : (p \o q)[n] = IF n <= 1 THEN p[n] ELSE q[n - 1]
    BY <2>1, ConcatProperties
  <2>3. Len(p \o q) = 2 /\ (p \o q)[1] = p[1] /\ (p \o q)[2] = q[1]
    BY <2>2
  <2>4. RemoveAt(s, 2) = p \o q
    BY <1>2 DEF p, q
  <2> HIDE DEF S
  <2> QED
    BY Zenon, <2>1, <2>2, <2>3, <2>4
<1> DEFINE t == <<a, c>>
<1>6. t \in Seq(S) /\ Len(t) = 2 /\ t[1] = a /\ t[2] = c
  OBVIOUS
<1> HIDE DEF t
<1>7. RemoveAt(s, 2) = t
  <2>1. \A n \in 1 .. 2 : n = 1 \/ n = 2
    OBVIOUS
  <2>2. \A n \in 1 .. Len(t) : RemoveAt(s, 2)[n] = t[n]
    BY <1>5, <1>6, <2>1
  <2> QED
    BY <1>5, <1>6, <2>2, SeqEqual
<1> QED
  BY <1>7 DEF s, t

\* Two fields and a third.
LEMMA AppendThird ==
  ASSUME NEW a, NEW b, NEW c
  PROVE  Append(<<a, b>>, c) = <<a, b, c>>
<1> DEFINE S == {a, b, c}
           p == <<a, b>>
           t == <<a, b, c>>
<1>1. p \in Seq(S) /\ Len(p) = 2 /\ p[1] = a /\ p[2] = b
  OBVIOUS
<1>2. t \in Seq(S) /\ Len(t) = 3 /\ t[1] = a /\ t[2] = b /\ t[3] = c
  OBVIOUS
<1> HIDE DEF p, t
<1>3. /\ Append(p, c) \in Seq(S) /\ Len(Append(p, c)) = 3
      /\ Append(p, c)[1] = a /\ Append(p, c)[2] = b /\ Append(p, c)[3] = c
  <2>1. c \in S
    OBVIOUS
  <2>2. p \in Seq(S)
    BY <1>1
  <2> HIDE DEF S
  <2>3. Append(p, c) \in Seq(S)
    BY <2>1, <2>2, AppendProperties
  <2>4. Len(Append(p, c)) = Len(p) + 1 /\ Append(p, c)[Len(p) + 1] = c
    BY <2>1, <2>2, AppendProperties
  <2>5. \A n \in 1 .. Len(p) : Append(p, c)[n] = p[n]
    BY <2>1, <2>2, AppendProperties
  <2>6. Len(p) + 1 = 3 /\ 1 \in 1 .. Len(p) /\ 2 \in 1 .. Len(p)
    BY <1>1
  <2> QED
    BY Zenon, <1>1, <2>3, <2>4, <2>5, <2>6
<1>4. Append(p, c) = t
  <2>1. \A n \in 1 .. 3 : n = 1 \/ n = 2 \/ n = 3
    OBVIOUS
  <2>2. \A n \in 1 .. Len(t) : Append(p, c)[n] = t[n]
    BY <1>2, <1>3, <2>1
  <2> QED
    BY <1>2, <1>3, <2>2, SeqEqual
<1> QED
  BY <1>4 DEF p, t

\* A new allocation has its price in the second field, so that is what the next
\* offer of the bid is added to.
LEMMA NewAllocationFields ==
  ASSUME NEW i \in Listed
  PROVE  /\ FieldToIncrement(NewAllocation(i)) = 2
         /\ NewAllocation(i)[2].value = price
         /\ \A j \in Listed : Incremented(NewAllocation(i), grant[j]) = IncrementedOnce(i, j)
<1>1. FieldToIncrement(NewAllocation(i)) = 2
  BY SecondField DEF NewAllocation, Field
<1>2. NewAllocation(i)[2].value = price /\ NewAllocation(i)[2].name = "unitprice"
  BY DEF NewAllocation, Field
<1>3. RemoveAt(NewAllocation(i), 2) = <<Field("quantity", grant[i]), Field("recordid", NotANumber)>>
  BY RemoveSecond DEF NewAllocation
<1>4. ASSUME NEW j \in Listed
      PROVE  Incremented(NewAllocation(i), grant[j]) = IncrementedOnce(i, j)
  <2> DEFINE p == <<Field("quantity", grant[i]), Field("recordid", NotANumber)>>
             f == Field("unitprice", price + grant[j])
  <2>1. Incremented(NewAllocation(i), grant[j]) = Append(p, f)
    BY <1>1, <1>2, <1>3 DEF Incremented
  <2>2. Append(p, f) = <<Field("quantity", grant[i]), Field("recordid", NotANumber), f>>
    BY AppendThird
  <2> QED
    BY <2>1, <2>2 DEF IncrementedOnce
<1> QED
  BY <1>1, <1>2, <1>4

\* An allocation that was incremented has the record's id in the second field.
LEMMA IncrementedFields ==
  ASSUME NEW i \in Listed, NEW j \in Listed
  PROVE  /\ FieldToIncrement(IncrementedOnce(i, j)) = 2
         /\ IncrementedOnce(i, j)[2].value = NotANumber
<1>1. FieldToIncrement(IncrementedOnce(i, j)) = 2
  BY SecondField DEF IncrementedOnce, Field
<1> QED
  BY <1>1 DEF IncrementedOnce, Field

\* Both kinds of allocations have three fields.
LEMMA AllocationTypes ==
  ASSUME grant \in [Listed -> Nat], price \in Nat, NEW i \in Listed, NEW j \in Listed
  PROVE  /\ NewAllocation(i) \in Seq(FieldType) /\ Len(NewAllocation(i)) = 3
         /\ IncrementedOnce(i, j) \in Seq(FieldType) /\ Len(IncrementedOnce(i, j)) = 3
<1>1. /\ Field("quantity", grant[i]) \in FieldType
      /\ Field("unitprice", price) \in FieldType
      /\ Field("recordid", NotANumber) \in FieldType
      /\ Field("unitprice", price + grant[j]) \in FieldType
  BY DEF Field, FieldType
<1> QED
  BY <1>1 DEF NewAllocation, IncrementedOnce

\* The value of the first field of a name.
LEMMA ValueAt ==
  ASSUME NEW fields, Len(fields) = 3, NEW name, NEW k \in 1 .. 3, fields[k].name = name,
         \A l \in 1 .. 3 : l < k => fields[l].name # name
  PROVE  Value(fields, name) = fields[k].value
<1> DEFINE I == {l \in 1 .. Len(fields) : fields[l].name = name}
           n == SelectInSeq(fields, LAMBDA f : f.name = name)
<1>1. k \in I /\ I \subseteq 1 .. 3 /\ \A l \in I : ~(l < k)
  OBVIOUS
<1>2. n = IF I # {} THEN CHOOSE x \in I : \A y \in I : x =< y ELSE 0
  BY DEF SelectInSeq, Min
<1>3. Value(fields, name) = fields[n].value
  BY DEF Value
<1> HIDE DEF I, n
<1>4. \A y \in I : y >= k
  BY <1>1
<1>5. \A x \in I : (\A y \in I : x =< y) => x = k
  BY <1>1, <1>4
<1>6. \E x \in I : \A y \in I : x =< y
  BY <1>1, <1>4
<1>7. n = k
  BY <1>1, <1>2, <1>5, <1>6
<1> QED
  BY <1>3, <1>7

\* The quantity stays that of the first offer; the second one's goes to the price.
LEMMA AllocationValues ==
  ASSUME NEW i \in Listed, NEW j \in Listed
  PROVE  /\ Value(NewAllocation(i), "quantity") = grant[i]
         /\ Value(NewAllocation(i), "unitprice") = price
         /\ Value(IncrementedOnce(i, j), "quantity") = grant[i]
         /\ Value(IncrementedOnce(i, j), "unitprice") = price + grant[j]
<1>1. /\ Len(NewAllocation(i)) = 3
      /\ NewAllocation(i)[1] = [name |-> "quantity", value |-> grant[i]]
      /\ NewAllocation(i)[2] = [name |-> "unitprice", value |-> price]
  BY DEF NewAllocation, Field
<1>2. /\ Len(IncrementedOnce(i, j)) = 3
      /\ IncrementedOnce(i, j)[1] = [name |-> "quantity", value |-> grant[i]]
      /\ IncrementedOnce(i, j)[2] = [name |-> "recordid", value |-> NotANumber]
      /\ IncrementedOnce(i, j)[3] = [name |-> "unitprice", value |-> price + grant[j]]
  BY DEF IncrementedOnce, Field
<1>3. Value(NewAllocation(i), "quantity") = NewAllocation(i)[1].value
  <2>1. \A l \in 1 .. 3 : ~(l < 1)
    OBVIOUS
  <2> QED
    BY <1>1, <2>1, ValueAt
<1>4. Value(NewAllocation(i), "unitprice") = NewAllocation(i)[2].value
  <2>1. \A l \in 1 .. 3 : l < 2 => l = 1
    OBVIOUS
  <2> QED
    BY <1>1, <2>1, ValueAt
<1>5. Value(IncrementedOnce(i, j), "quantity") = IncrementedOnce(i, j)[1].value
  <2>1. \A l \in 1 .. 3 : ~(l < 1)
    OBVIOUS
  <2> QED
    BY <1>2, <2>1, ValueAt
<1>6. Value(IncrementedOnce(i, j), "unitprice") = IncrementedOnce(i, j)[3].value
  <2>1. \A l \in 1 .. 3 : l < 3 => l = 1 \/ l = 2
    OBVIOUS
  <2> QED
    BY <1>2, <2>1, ValueAt
<1> QED
  BY <1>1, <1>2, <1>3, <1>4, <1>5, <1>6

-----------------------------------------------------------------------------
\* The offers of a bid the second loop has come to.
Allotted(b) == OffersOf(b) \ todo

\* The allocation of a bid holds one offer of it as it was made, or two of
\* them, and then nothing can be added any more.
AllocationExact(b) ==
  \/ \E i \in Listed : Allotted(b) = {i} /\ allocs[b] = NewAllocation(i)
  \/ \E i, j \in Listed : /\ Allotted(b) = {i, j} /\ Ahead(i, j)
                          /\ allocs[b] = IncrementedOnce(i, j)

AllocationsExact ==
  /\ left <= Supply
  /\ phase = "serve" => allocs = <<>>
  /\ phase # "serve" =>
       /\ DOMAIN allocs = {offers[i].bid : i \in Listed \ todo}
       /\ \A b \in DOMAIN allocs : AllocationExact(b)
       /\ \A i \in Listed \ todo, j \in todo : Ahead(i, j)
  /\ phase = "failed" => \E b \in Bidders : Cardinality(OffersOf(b)) > 2
  /\ phase = "done" => todo = {}

\* There are no allocations before the walk.
LEMMA InitAllocations == Init => AllocationsExact
BY ParametersAssumption DEF Init, AllocationsExact

\* The first loop makes no allocations and never raises what is left.
LEMMA ServeAllocations ==
  ASSUME IInv, AllocationsExact, NEW i \in Listed, Serve(i)
  PROVE  AllocationsExact'
<1>1. phase = "serve" /\ phase' = "serve" /\ allocs' = allocs
  BY DEF Serve
<1>2. left' \in Nat /\ left' <= left
  BY ServeEffect
<1>3. left \in Nat /\ Supply \in Nat
  BY ParametersAssumption DEF IInv, WalkTypes
<1> QED
  BY <1>1, <1>2, <1>3 DEF AllocationsExact

\* The second loop starts with no offer allotted.
LEMMA SettleAllocations ==
  ASSUME AllocationsExact, Settle
  PROVE  AllocationsExact'
<1>1. /\ phase' = "create" /\ allocs' = <<>> /\ todo' = Listed' /\ left' = left
  BY DEF Settle, Listed, AllocationsExact
<1>2. DOMAIN allocs' = {} /\ Listed' \ todo' = {}
  BY <1>1
<1> QED
  BY <1>1, <1>2 DEF AllocationsExact

\* The return touches no allocation.
LEMMA ReturnAllocations ==
  ASSUME AllocationsExact, Return
  PROVE  AllocationsExact'
<1>1. /\ phase = "create" /\ todo = {} /\ phase' = "done"
      /\ UNCHANGED <<offers, todo, grant, left, price, allocs>>
  BY DEF Return
<1>2. Listed' = Listed /\ Bidders' = Bidders /\ \A b : OffersOf(b)' = OffersOf(b)
  BY <1>1 DEF Listed, Bidders, OffersOf
<1>3. \A b \in DOMAIN allocs : AllocationExact(b)' = AllocationExact(b)
  BY <1>1, <1>2 DEF AllocationExact, Allotted, NewAllocation, IncrementedOnce, Ahead
<1> QED
  BY <1>1, <1>2, <1>3 DEF AllocationsExact, Ahead

\* What a step of the second loop leaves alone, and where it stands.
LEMMA AllocateEffect ==
  ASSUME IInv, AllocationsExact, NEW i \in Listed, Allocate(i)
  PROVE  /\ phase = "create" /\ phase' # "serve" /\ i \in todo
         /\ UNCHANGED <<offers, grant, left, price, Listed, Bidders>>
         /\ \A b : OffersOf(b)' = OffersOf(b)
         /\ \A j, k \in Listed : Ahead(j, k)' = Ahead(j, k)
         /\ \A j \in Listed : NewAllocation(j)' = NewAllocation(j)
         /\ \A j, k \in Listed : IncrementedOnce(j, k)' = IncrementedOnce(j, k)
         /\ \A j \in Listed \ todo, k \in todo : Ahead(j, k)
         /\ \A k \in todo \ {i} : Ahead(i, k)
<1>1. /\ phase = "create" /\ i \in todo /\ UNCHANGED <<offers, grant, left, price>>
      /\ phase' # "serve" /\ \A k \in todo \ {i} : Ahead(i, k)
  BY DEF Allocate, Create, Increment, IncrementThrows, At
<1>2. /\ UNCHANGED <<Listed, Bidders>>
      /\ \A b : OffersOf(b)' = OffersOf(b)
      /\ \A j, k \in Listed : Ahead(j, k)' = Ahead(j, k)
  BY <1>1 DEF Listed, Bidders, OffersOf, Ahead
<1>3. /\ \A j \in Listed : NewAllocation(j)' = NewAllocation(j)
      /\ \A j, k \in Listed : IncrementedOnce(j, k)' = IncrementedOnce(j, k)
  BY <1>1 DEF NewAllocation, IncrementedOnce
<1>4. \A j \in Listed \ todo, k \in todo : Ahead(j, k)
  BY <1>1 DEF AllocationsExact
<1> QED
  BY <1>1, <1>2, <1>3, <1>4

\* The rest of the invariant when offer i has been allotted.
LEMMA AllotOne ==
  ASSUME IInv, AllocationsExact, NEW i \in Listed, Allocate(i),
         todo' = todo \ {i}, phase' = "create",
         NEW b, b = offers[i].bid,
         DOMAIN allocs' = DOMAIN allocs \cup {b},
         \A c \in DOMAIN allocs \ {b} : allocs'[c] = allocs[c],
         AllocationExact(b)'
  PROVE  AllocationsExact'
<1>1. /\ phase = "create" /\ i \in todo
      /\ UNCHANGED <<offers, grant, left, price, Listed, Bidders>>
      /\ \A c : OffersOf(c)' = OffersOf(c)
      /\ \A j, k \in Listed : Ahead(j, k)' = Ahead(j, k)
      /\ \A j \in Listed : NewAllocation(j)' = NewAllocation(j)
      /\ \A j, k \in Listed : IncrementedOnce(j, k)' = IncrementedOnce(j, k)
      /\ \A j \in Listed \ todo, k \in todo : Ahead(j, k)
      /\ \A k \in todo \ {i} : Ahead(i, k)
  BY AllocateEffect
<1>2. Listed \ todo' = (Listed \ todo) \cup {i}
  OBVIOUS
<1>3. DOMAIN allocs' = {offers'[j].bid : j \in Listed' \ todo'}
  <2>1. DOMAIN allocs = {offers[j].bid : j \in Listed \ todo}
    BY <1>1 DEF AllocationsExact
  <2> QED
    BY <1>1, <1>2, <2>1
<1>4. ASSUME NEW c \in DOMAIN allocs', c # b PROVE AllocationExact(c)'
  <2>1. c \in DOMAIN allocs /\ AllocationExact(c) /\ allocs'[c] = allocs[c]
    BY <1>1, <1>4 DEF AllocationsExact
  <2>2. Allotted(c)' = Allotted(c)
    BY <1>1, <1>4 DEF Allotted, OffersOf
  <2> QED
    BY <1>1, <2>1, <2>2 DEF AllocationExact
<1>5. \A c \in DOMAIN allocs' : AllocationExact(c)'
  BY <1>4
<1>6. \A j \in Listed' \ todo', k \in todo' : Ahead(j, k)'
  <2>1. todo \subseteq Listed
    BY DEF IInv, WalkTypes
  <2> QED
    BY <1>1, <1>2, <2>1
<1>7. left' <= Supply
  BY <1>1 DEF AllocationsExact
<1> QED
  BY <1>3, <1>5, <1>6, <1>7 DEF AllocationsExact

\* The first offer of a bid makes the allocation of the bid.
LEMMA CreateAllocations ==
  ASSUME IInv, AllocationsExact, NEW i \in Listed, Allocate(i), Create(i)
  PROVE  AllocationsExact'
<1>0. PICK b : b = offers[i].bid
  OBVIOUS
<1>1. /\ phase = "create" /\ i \in todo
      /\ UNCHANGED <<offers, grant, left, price, Listed, Bidders>>
      /\ \A c : OffersOf(c)' = OffersOf(c)
      /\ \A j \in Listed : NewAllocation(j)' = NewAllocation(j)
  BY AllocateEffect
<1>2. /\ b \notin DOMAIN allocs /\ todo' = todo \ {i} /\ phase' = "create"
      /\ allocs' = [c \in DOMAIN allocs \cup {b} |->
                     IF c = b THEN NewAllocation(i) ELSE allocs[c]]
  BY <1>0, <1>1 DEF Create
<1>3. /\ DOMAIN allocs' = DOMAIN allocs \cup {b}
      /\ \A c \in DOMAIN allocs \ {b} : allocs'[c] = allocs[c]
      /\ allocs'[b] = NewAllocation(i)
  BY <1>2
<1>4. Allotted(b)' = {i}
  <2>1. \A j \in Listed \ todo : offers[j].bid # b
    BY <1>1, <1>2 DEF AllocationsExact
  <2> QED
    BY <1>0, <1>1, <1>2, <2>1 DEF Allotted, OffersOf
<1>5. AllocationExact(b)'
  BY <1>1, <1>3, <1>4 DEF AllocationExact
<1> QED
  BY <1>0, <1>2, <1>3, <1>5, AllotOne

\* The second offer of a bid is added to the allocation of the first.
LEMMA IncrementAllocations ==
  ASSUME IInv, AllocationsExact, NEW i \in Listed, Allocate(i), Increment(i)
  PROVE  AllocationsExact'
<1>0. PICK b : b = offers[i].bid
  OBVIOUS
<1>1. /\ phase = "create" /\ i \in todo
      /\ UNCHANGED <<offers, grant, left, price, Listed, Bidders>>
      /\ \A c : OffersOf(c)' = OffersOf(c)
      /\ \A j, k \in Listed : Ahead(j, k)' = Ahead(j, k)
      /\ \A j, k \in Listed : IncrementedOnce(j, k)' = IncrementedOnce(j, k)
      /\ \A j \in Listed \ todo, k \in todo : Ahead(j, k)
  BY AllocateEffect
<1>2. /\ b \in DOMAIN allocs /\ todo' = todo \ {i} /\ phase' = "create"
      /\ allocs[b][FieldToIncrement(allocs[b])].value # NotANumber
      /\ allocs' = [allocs EXCEPT ![b] = Incremented(allocs[b], grant[i])]
  BY <1>0, <1>1 DEF Increment
<1>3. AllocationExact(b)
  BY <1>1, <1>2 DEF AllocationsExact
<1>4. PICK j \in Listed : Allotted(b) = {j} /\ allocs[b] = NewAllocation(j)
  BY <1>2, <1>3, IncrementedFields DEF AllocationExact
<1>5. /\ DOMAIN allocs' = DOMAIN allocs \cup {b}
      /\ \A c \in DOMAIN allocs \ {b} : allocs'[c] = allocs[c]
      /\ allocs'[b] = IncrementedOnce(j, i)
  BY <1>2, <1>4, NewAllocationFields
<1>6. Allotted(b)' = {j, i}
  BY <1>0, <1>1, <1>2, <1>4 DEF Allotted, OffersOf
<1>7. Ahead(j, i)'
  BY <1>1, <1>4 DEF Allotted, OffersOf
<1>8. AllocationExact(b)'
  BY <1>1, <1>5, <1>6, <1>7 DEF AllocationExact
<1> QED
  BY <1>0, <1>2, <1>5, <1>8, AllotOne

\* parseFloat throws over a third offer.
LEMMA ThrowAllocations ==
  ASSUME IInv, AllocationsExact, NEW i \in Listed, Allocate(i), IncrementThrows(i)
  PROVE  AllocationsExact'
<1> DEFINE b == offers[i].bid
<1>1. /\ phase = "create" /\ i \in todo
      /\ UNCHANGED <<offers, grant, left, price, Listed, Bidders>>
      /\ \A c : OffersOf(c)' = OffersOf(c)
      /\ \A j, k \in Listed : Ahead(j, k)' = Ahead(j, k)
      /\ \A j \in Listed : NewAllocation(j)' = NewAllocation(j)
      /\ \A j, k \in Listed : IncrementedOnce(j, k)' = IncrementedOnce(j, k)
  BY AllocateEffect
<1>2. /\ b \in DOMAIN allocs /\ phase' = "failed" /\ allocs' = allocs /\ todo' = todo
      /\ allocs[b][FieldToIncrement(allocs[b])].value = NotANumber
  BY DEF IncrementThrows
<1>3. AllocationExact(b)
  BY <1>1, <1>2 DEF AllocationsExact
<1>4. price # NotANumber
  BY NotANumberAssumption DEF IInv, WalkTypes
<1>5. PICK j, k \in Listed : Allotted(b) = {j, k} /\ Ahead(j, k)
  BY <1>2, <1>3, <1>4, NewAllocationFields DEF AllocationExact
<1>6. j # k /\ i \notin {j, k} /\ {i, j, k} \subseteq OffersOf(b)
  <2>1. j # k
    <3>1. offers[j].price \in Nat /\ j \in Nat
      BY OfferTypes DEF IInv, WalkTypes
    <3> QED
      BY <1>5, <3>1 DEF Ahead
  <2> QED
    BY <1>1, <1>5, <2>1 DEF Allotted, OffersOf
<1>7. Cardinality(OffersOf(b)) > 2
  <2>1. IsFiniteSet(OffersOf(b))
    BY ListedFinite DEF IInv, WalkTypes, OffersOf
  <2>2. Cardinality({i, j, k}) = 3
    <3>1. IsFiniteSet({j, k}) /\ Cardinality({j, k}) = 2
      <4>1. IsFiniteSet({j}) /\ Cardinality({j}) = 1
        BY FS_Singleton
      <4>2. IsFiniteSet({j} \cup {k}) /\ Cardinality({j} \cup {k}) = 2
        BY <1>6, <4>1, FS_AddElement
      <4>3. {j} \cup {k} = {j, k}
        OBVIOUS
      <4> QED
        BY <4>2, <4>3
    <3>2. Cardinality({j, k} \cup {i}) = 3
      <4>1. Cardinality({j, k} \cup {i}) = Cardinality({j, k}) + 1
        BY <1>6, <3>1, FS_AddElement
      <4> QED
        BY <3>1, <4>1
    <3>3. {j, k} \cup {i} = {i, j, k}
      OBVIOUS
    <3> QED
      BY <3>2, <3>3
  <2>3. Cardinality({i, j, k}) <= Cardinality(OffersOf(b))
    BY <1>6, <2>1, FS_Subset
  <2>4. Cardinality(OffersOf(b)) \in Nat
    BY <2>1, FS_CardinalityType
  <2> QED
    BY <2>2, <2>3, <2>4
<1>8. \A c \in DOMAIN allocs : AllocationExact(c)' = AllocationExact(c)
  BY <1>1, <1>2 DEF AllocationExact, Allotted
<1>9. b \in Bidders
  BY DEF Bidders
<1>10. \E c \in Bidders' : Cardinality(OffersOf(c)') > 2
  BY <1>1, <1>7, <1>9
<1>11. left' <= Supply
  BY <1>1 DEF AllocationsExact
<1>12. /\ DOMAIN allocs' = {offers'[l].bid : l \in Listed' \ todo'}
       /\ \A c \in DOMAIN allocs' : AllocationExact(c)'
       /\ \A l \in Listed' \ todo', m \in todo' : Ahead(l, m)'
  <2>1. todo \subseteq Listed
    BY DEF IInv, WalkTypes
  <2> QED
    BY <1>1, <1>2, <1>8, <2>1 DEF AllocationsExact
<1> QED
  BY <1>2, <1>10, <1>11, <1>12 DEF AllocationsExact

\* Every step keeps the allocations exact.
LEMMA NextAllocations == IInv /\ AllocationsExact /\ [Next]_vars => AllocationsExact'
<1> SUFFICES ASSUME IInv, AllocationsExact, [Next]_vars PROVE AllocationsExact'
  OBVIOUS
<1>1. ASSUME NEW i \in Listed, Serve(i) PROVE AllocationsExact'
  BY <1>1, ServeAllocations
<1>2. ASSUME NEW i \in Listed, Allocate(i) PROVE AllocationsExact'
  <2>1. Create(i) \/ Increment(i) \/ IncrementThrows(i)
    BY <1>2 DEF Allocate
  <2> QED
    BY <1>2, <2>1, CreateAllocations, IncrementAllocations, ThrowAllocations
<1>3. CASE Settle
  BY <1>3, SettleAllocations
<1>4. CASE Return
  BY <1>4, ReturnAllocations
<1>5. CASE UNCHANGED vars
  <2>1. /\ UNCHANGED <<offers, phase, todo, grant, left, price, allocs>>
        /\ Listed' = Listed /\ Bidders' = Bidders /\ \A b : OffersOf(b)' = OffersOf(b)
    BY <1>5 DEF vars, Listed, Bidders, OffersOf
  <2>2. \A b \in DOMAIN allocs : AllocationExact(b)' = AllocationExact(b)
    BY <2>1 DEF AllocationExact, Allotted, NewAllocation, IncrementedOnce, Ahead
  <2> QED
    BY <2>1, <2>2 DEF AllocationsExact, Ahead
<1> QED
  BY <1>1, <1>2, <1>3, <1>4, <1>5 DEF Next

\* The sum of the grants of one offer, and of two of which the second got nothing.
LEMMA GrantSums ==
  ASSUME IInv
  PROVE  /\ \A i \in Listed : Total(LAMBDA l : grant[l], {i}) = grant[i]
         /\ \A i, j \in Listed : i # j /\ grant[j] = 0 =>
              Total(LAMBDA l : grant[l], {i, j}) = grant[i]
<1>1. \A i \in Listed : grant[i] \in Nat
  BY DEF IInv, WalkTypes
<1>2. SumOf(grant, {}) = 0
  BY SumOfNone
<1>3. ASSUME NEW i \in Listed PROVE SumOf(grant, {i}) = grant[i]
  <2>1. SumOf(grant, {} \cup {i}) = grant[i] + SumOf(grant, {})
    BY <1>1, SumOfMore, FS_EmptySet
  <2>2. {} \cup {i} = {i}
    OBVIOUS
  <2> QED
    BY <1>1, <1>2, <2>1, <2>2
<1>4. ASSUME NEW i \in Listed, NEW j \in Listed, i # j, grant[j] = 0
      PROVE  SumOf(grant, {i, j}) = grant[i]
  <2>1. SumOf(grant, {i} \cup {j}) = grant[j] + SumOf(grant, {i})
    <3>1. IsFiniteSet({i}) /\ j \notin {i} /\ \A k \in {i} \cup {j} : grant[k] \in Nat
      BY <1>1, <1>4, FS_Singleton
    <3> QED
      BY <3>1, SumOfMore
  <2>2. {i} \cup {j} = {i, j}
    OBVIOUS
  <2>3. grant[j] + SumOf(grant, {i}) = grant[i]
    <3>1. SumOf(grant, {i}) = grant[i] /\ grant[i] \in Nat
      BY <1>1, <1>3
    <3> QED
      BY <1>4, <3>1
  <2> QED
    BY <2>1, <2>2, <2>3
<1>5. \A s \in SUBSET Listed : Total(LAMBDA l : grant[l], s) = SumOf(grant, s)
  BY TotalGrant, ListedFinite DEF IInv, WalkTypes
<1> QED
  BY <1>3, <1>4, <1>5

\* What the property says follows from what the allocations are made of.
LEMMA MatchStated ==
  ASSUME IInv, AllocationsExact
  PROVE  AllocationsMatch
<1>1. TypeOK
  <2>1. offers \in Seq(OfferType) /\ offers # <<>>
    BY BooksAssumption DEF IInv, WalkTypes
  <2>2. \A i \in Listed : grant[i] <= offers[i].qty
    <3>1. \A i \in Listed : offers[i].qty \in Nat
      BY OfferTypes DEF IInv, WalkTypes
    <3> QED
      BY <3>1 DEF IInv, WalkOrdered, GrantsBounded, Served
  <2>3. left \in 0 .. Supply
    BY ParametersAssumption DEF IInv, WalkTypes, AllocationsExact
  <2>4. DOMAIN allocs \subseteq {offers[i].bid : i \in Listed}
    BY DEF AllocationsExact
  <2>5. \A b \in DOMAIN allocs : allocs[b] \in Seq(FieldType) /\ Len(allocs[b]) = 3
    <3>1. \A b \in DOMAIN allocs : AllocationExact(b)
      BY DEF AllocationsExact
    <3> QED
      BY <3>1, AllocationTypes DEF AllocationExact, IInv, WalkTypes
  <2> QED
    BY <2>1, <2>2, <2>3, <2>4, <2>5 DEF TypeOK, IInv, WalkTypes
<1>2. ASSUME phase = "done", NEW b \in Bidders,
             \A i, j \in OffersOf(b) : Ahead(i, j) => grant[j] = 0, b \in DOMAIN allocs
      PROVE  Matches(b)
  <2>1. todo = {} /\ AllocationExact(b)
    BY <1>2 DEF AllocationsExact
  <2>2. Allotted(b) = OffersOf(b)
    BY <2>1 DEF Allotted
  <2>3. ASSUME NEW i \in Listed, Allotted(b) = {i}, allocs[b] = NewAllocation(i)
        PROVE  Matches(b)
    <3>1. Total(LAMBDA l : grant[l], {i}) = grant[i]
      BY GrantSums
    <3>2. Total(LAMBDA l : grant[l], OffersOf(b)) = grant[i]
      BY <2>2, <2>3, <3>1
    <3> QED
      BY <2>3, <3>2, AllocationValues DEF Matches
  <2>4. ASSUME NEW i \in Listed, NEW j \in Listed, Allotted(b) = {i, j}, Ahead(i, j),
               allocs[b] = IncrementedOnce(i, j)
        PROVE  Matches(b)
    <3>1. i # j
      <4>1. offers[j].price \in Nat /\ j \in Nat
        BY OfferTypes DEF IInv, WalkTypes
      <4> QED
        BY <2>4, <4>1 DEF Ahead
    <3>2. grant[j] = 0
      BY <1>2, <2>2, <2>4
    <3>3. Total(LAMBDA l : grant[l], {i, j}) = grant[i]
      BY <3>1, <3>2, GrantSums
    <3>4. Total(LAMBDA l : grant[l], OffersOf(b)) = grant[i]
      BY <2>2, <2>4, <3>3
    <3>5. price + grant[j] = price
      BY <3>2 DEF IInv, WalkTypes
    <3> QED
      BY <2>4, <3>4, <3>5, AllocationValues DEF Matches
  <2> QED
    BY <2>1, <2>3, <2>4 DEF AllocationExact
<1>3. phase = "done" => \A b \in Bidders : b \in DOMAIN allocs
  BY DEF AllocationsExact, Bidders
<1> QED
  BY <1>1, <1>2, <1>3 DEF AllocationsMatch, AllocationsExact

\* A bid of which only the best offer wins gets an allocation of what it won at
\* the price of the auction, and only a bid with three offers makes an execution
\* fail (createAllocation() and incrementQuantityAllocation(), bas.cpp).
THEOREM AllocationsStayMatched == Spec => []AllocationsMatch
<1> DEFINE Inv == IInv /\ AllocationsExact
<1>1. Init => Inv
  BY InitIInv, InitAllocations
<1>2. Inv /\ [Next]_vars => Inv'
  BY NextIInv, NextAllocations
<1>3. Inv => AllocationsMatch
  BY MatchStated
<1> HIDE DEF Inv
<1> QED
  BY <1>1, <1>2, <1>3, PTL DEF Spec
=============================================================================
