------------------------------- MODULE MCAgent -------------------------------
(***************************************************************************)
(* Instances of Agent for TLC: intervals that overlap or follow each       *)
(* other, and auctions of which one ends before the intervals do.          *)
(***************************************************************************)
EXTENDS Agent, TLC

CONSTANTS r1, r2, a1, a2

MCWindow == (r1 :> [start |-> 0, stop |-> 2]) @@ (r2 :> [start |-> 1, stop |-> 3])

MCOffer == (a1 :> [start |-> 0, stop |-> 3, ival |-> 1])
           @@ (a2 :> [start |-> 0, stop |-> 1, ival |-> 2])

\* One request with two intervals.
OneFile == {{r1, r2}}

Lists == {<<a1>>, <<a2>>, <<a2, a1>>}
==============================================================================
