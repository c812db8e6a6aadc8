--------------------------- MODULE MCAuctionServer ---------------------------
(***************************************************************************)
(* Instances of AuctionServer for TLC.  Every instance is a small set of   *)
(* files and messages; TLC lets each of them arrive at any tick, or never. *)
(***************************************************************************)
EXTENDS AuctionServer

Auction(start, stop, ival, res) ==
  [start |-> start, stop |-> stop, ival |-> ival, align |-> FALSE, res |-> res,
   loads |-> TRUE]

Aligned(a) == [a EXCEPT !.align = TRUE]

Unloadable(a) == [a EXCEPT !.loads = FALSE]

Bid(auc, start, stop) == [auc |-> auc, start |-> start, stop |-> stop, ok |-> TRUE]

Refused(b) == [b EXCEPT !.ok = FALSE]

AuctionFile(names) == [type |-> "ADD_AUCTIONS", names |-> names]

BidFile(bids) == [type |-> "ADD_BIDDING_OBJECTS", sess |-> NoSession, bids |-> bids]

Message(s, bids) == [type |-> "AUCTION_INTERACTION", sess |-> s, bids |-> bids]

Create(s) == [type |-> "CREATE_SESSION", sess |-> s]

Remove(s) == [type |-> "REMOVE_SESSION", sess |-> s]

None == {}

NoSpec == [x \in {} |-> x]

-----------------------------------------------------------------------------
\* Life: two auctions of one file with ends of their own, bids that end while
\* the auction runs, a file loaded twice.
LifeAuctions == {"a1", "a2"}
LifeAucSpec == [a1 |-> Auction(0, 4, 2, "r1"), a2 |-> Auction(1, 3, 1, "r2")]
LifeBids == {"b1", "b2", "b3"}
LifeBidSpec == [b1 |-> Bid("a1", 0, 3), b2 |-> Bid("a2", 0, 0), b3 |-> Bid("a1", 2, 2)]
LifeInputs == {AuctionFile(<<"a1", "a2">>), AuctionFile(<<"a2">>),
               BidFile(<<"b1", "b2">>), BidFile(<<"b3">>)}

\* Delivery: an agent opens a session, bids in two messages and leaves.
DeliveryAuctions == {"a1"}
DeliveryAucSpec == [a1 |-> Auction(0, 3, 1, "r1")]
DeliveryBids == {"b1", "b2"}
DeliveryBidSpec == [b1 |-> Bid("a1", 0, 0), b2 |-> Bid("a1", 1, 0)]
DeliverySessions == {"s1"}
DeliverySessSpec == [s1 |-> [start |-> 0, stop |-> 9]]
DeliveryInputs == {AuctionFile(<<"a1">>), Create("s1"), Remove("s1"),
                   Message("s1", <<"b1">>), Message("s1", <<"b2">>)}

\* Late: half-second ticks and a loop that may fall behind by three of them;
\* a2 cannot be loaded, a1 is aligned, b1 may come when it is over already, an
\* execution may fail.
LateAuctions == {"a1", "a2"}
LateAucSpec == [a1 |-> Aligned(Auction(0, 4, 1, "r1")),
                a2 |-> Unloadable(Auction(0, 3, 1, "r2"))]
LateBids == {"b1", "b2", "b3"}
LateBidSpec == [b1 |-> Bid("a1", 0, 1), b2 |-> Refused(Bid("a1", 0, 0)),
                b3 |-> Bid("a1", 0, 0)]
LateSessions == {"s1"}
LateSessSpec == [s1 |-> [start |-> 0, stop |-> 9]]
LateInputs == {AuctionFile(<<"a1">>), AuctionFile(<<"a1", "a2">>), Create("s1"),
               Message("s1", <<"b1", "b2", "b3">>)}

-----------------------------------------------------------------------------
(***************************************************************************)
(* An instance in which the code departs from what it says of itself.      *)
(***************************************************************************)

\* Two auctions that end together.
TwinAuctions == {"a1", "a2"}
TwinAucSpec == [a1 |-> Auction(0, 3, 1, "r1"), a2 |-> Auction(0, 3, 2, "r2")]
TwinInputs == {AuctionFile(<<"a1", "a2">>)}
=============================================================================
