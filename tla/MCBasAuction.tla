----------------------------- MODULE MCBasAuction -----------------------------
(***************************************************************************)
(* Books for TLC.  In a book the offers of one bid are next to each other. *)
(***************************************************************************)
EXTENDS BasAuction

BidsOf == {<<"b1">>, <<"b1", "b1">>, <<"b1", "b2">>, <<"b1", "b2", "b3">>,
           <<"b1", "b1", "b2">>, <<"b1", "b2", "b2">>, <<"b1", "b1", "b1">>}

\* Every book of up to three offers: one above the reserve price, at it or one
\* below it, for nothing, for some or for all but one unit of the supply.
Offer == [bid : {"b1", "b2", "b3"}, price : 1 .. 3, qty : 0 .. 2]

SmallBooks ==
  UNION {{f \in [1 .. n -> Offer] : [i \in 1 .. n |-> f[i].bid] \in BidsOf} : n \in 1 .. 3}
=============================================================================
