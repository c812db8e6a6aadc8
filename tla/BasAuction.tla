------------------------------ MODULE BasAuction ------------------------------
(***************************************************************************)
(* One execution of the auction module bas: execute() clears the bids that *)
(* compete in an auction.  The first loop walks the offers from the        *)
(* highest price down and cuts their quantities, the second walks them     *)
(* again in the same order and makes one allocation for each bid.          *)
(*   offers - orderedBids, in the order of insertion: the elements of the  *)
(*            bids, those of one bid next to each other                    *)
(*   grant  - the quantity of each entry of orderedBids, as overwritten    *)
(*   left   - qtyAvailable                                                 *)
(*   price  - sellPrice                                                    *)
(*   allocs - allocations: the fields of each allocation's only element    *)
(*   todo   - the offers the loop has not come to                          *)
(* Prices and quantities are whole numbers; float and double round.        *)
(***************************************************************************)
EXTENDS Integers, Sequences, FiniteSetsExt, SequencesExt

CONSTANTS
  Books,    \* the books of offers: sequences of [bid, price, qty]
  Supply,   \* parameter bandwidth of the auction
  Reserve,  \* parameter reserveprice of the auction
  NotANumber, \* a value parseFloat refuses
  NoOutcome   \* the outcome before the first loop is over

OfferType == [bid : STRING, price : Nat, qty : Nat]

ASSUME BooksAssumption ==
  \A b \in Books : b \in Seq(OfferType) /\ b # <<>>

\* getResourceAvailability and getReservePrice refuse anything else.
ASSUME ParametersAssumption == Supply \in Nat \ {0} /\ Reserve \in Nat

ASSUME NotANumberAssumption == NotANumber \notin Nat

VARIABLES offers, phase, todo, grant, left, price, allocs

vars == <<offers, phase, todo, grant, left, price, allocs>>

Listed == DOMAIN offers

-----------------------------------------------------------------------------
(***************************************************************************)
(* The order of the walk.  orderedBids is a multimap: equal keys stay in   *)
(* the order of insertion, and the loops go from end() down.               *)
(***************************************************************************)

Ahead(i, j) ==
  \/ offers[i].price > offers[j].price
  \/ offers[i].price = offers[j].price /\ i > j

\* The loop stands at offer i.
At(i) == i \in todo /\ \A j \in todo \ {i} : Ahead(i, j)

-----------------------------------------------------------------------------
(***************************************************************************)
(* The first loop.                                                         *)
(***************************************************************************)

Init ==
  /\ offers \in Books
  /\ phase = "serve"
  /\ todo = Listed
  /\ grant = [i \in Listed |-> offers[i].qty]
  /\ left = Supply
  /\ price = 0
  /\ allocs = <<>>

\* Mutant: the reserve price itself is refused.
BelowReserveInclusive(i) == offers[i].price <= Reserve

BelowReserve(i) == offers[i].price < Reserve

Refuse(i) ==
  /\ BelowReserve(i)
  /\ grant' = [grant EXCEPT ![i] = 0]
  /\ UNCHANGED <<left, price>>

\* Mutant: the price also falls when nothing is left to sell.
ShortenAlways(i) ==
  /\ ~BelowReserve(i)
  /\ left < offers[i].qty
  /\ grant' = [grant EXCEPT ![i] = left]
  /\ price' = offers[i].price
  /\ left' = 0

\* What is left goes to the offer and makes its price.
Shorten(i) ==
  /\ ~BelowReserve(i)
  /\ left < offers[i].qty
  /\ grant' = [grant EXCEPT ![i] = left]
  /\ price' = IF left > 0 THEN offers[i].price ELSE price
  /\ left' = 0

\* Mutant: what the offer takes stays available.
FillUncounted(i) ==
  /\ ~BelowReserve(i)
  /\ left >= offers[i].qty
  /\ price' = offers[i].price
  /\ UNCHANGED <<grant, left>>

Fill(i) ==
  /\ ~BelowReserve(i)
  /\ left >= offers[i].qty
  /\ left' = left - offers[i].qty
  /\ price' = offers[i].price
  /\ UNCHANGED grant

Serve(i) ==
  /\ phase = "serve"
  /\ At(i)
  /\ Refuse(i) \/ Shorten(i) \/ Fill(i)
  /\ todo' = todo \ {i}
  /\ UNCHANGED <<offers, phase, allocs>>

\* With something left to sell everybody pays the reserve price.
Settle ==
  /\ phase = "serve"
  /\ todo = {}
  /\ price' = IF left > 0 THEN Reserve ELSE price
  /\ phase' = "create"
  /\ todo' = Listed
  /\ UNCHANGED <<offers, grant, left, allocs>>

-----------------------------------------------------------------------------
(***************************************************************************)
(* The second loop.  An allocation has one element with three fields.      *)
(***************************************************************************)

Field(name, value) == [name |-> name, value |-> value]

\* Mutant: everybody pays what was offered.
NewAllocationAtOffer(i) ==
  <<Field("quantity", grant[i]), Field("unitprice", offers[i].price),
    Field("recordid", NotANumber)>>

\* createAllocation fills the fields in this order.
NewAllocation(i) ==
  <<Field("quantity", grant[i]), Field("unitprice", price),
    Field("recordid", NotANumber)>>

\* The field incrementQuantityAllocation takes out.  compare() is 0 for equal
\* names, so it takes the first one that has another name.
FieldToIncrement(fields) ==
  SelectInSeq(fields, LAMBDA f : f.name # "quantity")

\* Mutant: the field stays where it was, too.
IncrementedTwice(fields, qty) ==
  LET k == FieldToIncrement(fields)
  IN Append(fields, Field(fields[k].name, fields[k].value + qty))

\* The field goes to the end with its new value.
Incremented(fields, qty) ==
  LET k == FieldToIncrement(fields)
  IN Append(RemoveAt(fields, k), Field(fields[k].name, fields[k].value + qty))

Create(i) ==
  /\ offers[i].bid \notin DOMAIN allocs
  /\ allocs' = [b \in DOMAIN allocs \cup {offers[i].bid} |->
                 IF b = offers[i].bid THEN NewAllocation(i) ELSE allocs[b]]
  /\ todo' = todo \ {i}
  /\ UNCHANGED phase

Increment(i) ==
  LET fields == allocs[offers[i].bid]
  IN /\ offers[i].bid \in DOMAIN allocs
     /\ fields[FieldToIncrement(fields)].value # NotANumber
     /\ allocs' = [allocs EXCEPT ![offers[i].bid] = Incremented(fields, grant[i])]
     /\ todo' = todo \ {i}
     /\ UNCHANGED phase

\* parseFloat throws; the allocations made so far are lost.
IncrementThrows(i) ==
  LET fields == allocs[offers[i].bid]
  IN /\ offers[i].bid \in DOMAIN allocs
     /\ fields[FieldToIncrement(fields)].value = NotANumber
     /\ phase' = "failed"
     /\ UNCHANGED <<allocs, todo>>

Allocate(i) ==
  /\ phase = "create"
  /\ At(i)
  /\ Create(i) \/ Increment(i) \/ IncrementThrows(i)
  /\ UNCHANGED <<offers, grant, left, price>>

\* The allocations are handed to the caller.
Return ==
  /\ phase = "create"
  /\ todo = {}
  /\ phase' = "done"
  /\ UNCHANGED <<offers, todo, grant, left, price, allocs>>

Next ==
  \/ \E i \in Listed : Serve(i) \/ Allocate(i)
  \/ Settle
  \/ Return

Spec == Init /\ [][Next]_vars

-----------------------------------------------------------------------------
(***************************************************************************)
(* Properties.                                                             *)
(***************************************************************************)

\* The offers the first loop has decided on.
Served == IF phase = "serve" THEN Listed \ todo ELSE Listed

Total(q(_), S) == MapThenSumSet(q, S)

FieldType == [name : {"quantity", "unitprice", "recordid"}, value : Nat \cup {NotANumber}]

\* The types of the variables of execute(): quantities and prices are never
\* negative, and no offer is ever raised above the supply or its own quantity.
TypeOK ==
  /\ offers \in Seq(OfferType) /\ offers # <<>>
  /\ phase \in {"serve", "create", "done", "failed"}
  /\ todo \subseteq Listed
  /\ grant \in [Listed -> Nat]
  /\ \A i \in Listed : grant[i] <= offers[i].qty
  /\ left \in 0 .. Supply
  /\ price \in Nat
  /\ DOMAIN allocs \subseteq {offers[i].bid : i \in Listed}
  /\ \A b \in DOMAIN allocs : allocs[b] \in Seq(FieldType) /\ Len(allocs[b]) = 3

\* Every offer ends with exactly its share: what the supply leaves after all
\* eligible offers ahead of it.  The definition walks nothing.
GrantsAreShares ==
  \A i \in Served :
    LET before == Total(LAMBDA j : offers[j].qty,
                        {j \in Listed : Ahead(j, i) /\ offers[j].price >= Reserve})
        remains == IF before < Supply THEN Supply - before ELSE 0
    IN grant[i] = IF offers[i].price < Reserve THEN 0
                  ELSE IF offers[i].qty < remains THEN offers[i].qty ELSE remains

\* The two loops agree: a bid of which only the best offer wins gets an
\* allocation of what it won at the price of the auction, and an execution
\* fails only over a bid with three offers.
OffersOf(b) == {i \in Listed : offers[i].bid = b}

Value(fields, name) == fields[SelectInSeq(fields, LAMBDA f : f.name = name)].value

Matches(b) ==
  /\ Value(allocs[b], "quantity") = Total(LAMBDA i : grant[i], OffersOf(b))
  /\ Value(allocs[b], "unitprice") = price

Bidders == {offers[i].bid : i \in Listed}

AllocationsMatch ==
  /\ TypeOK
  /\ phase = "failed" => \E b \in Bidders : Cardinality(OffersOf(b)) > 2
  /\ phase = "done" =>
       \A b \in Bidders :
         /\ b \in DOMAIN allocs
         /\ (\A i, j \in OffersOf(b) : Ahead(i, j) => grant[j] = 0) => Matches(b)

-----------------------------------------------------------------------------
(***************************************************************************)
(* The execution implements the clearing of a market: the end of the first *)
(* loop is the clearing, everything else is invisible.                     *)
(***************************************************************************)

Market ==
  INSTANCE UniformPriceMarket WITH
    book <- offers,
    outcome <- IF phase = "serve" THEN NoOutcome
               ELSE [grant |-> grant, price |-> price, unsold |-> left]

\* Grants follow the prices, winners pay one price between the reserve and
\* their own, and it is the price of an offer that was served or the reserve.
ImplementsMarket == Market!Spec
=============================================================================
