------------------------------ MODULE EventQueue ------------------------------
(***************************************************************************)
(* The event scheduler of the daemons (foundation/EventScheduler, Event).  *)
(*                                                                         *)
(* The C++ class keeps a multimap from expiry time to event: the earliest  *)
(* event is served first, and events with the same expiry time are served  *)
(* in the order in which they were inserted.  Here the multimap is a SET   *)
(* of events; "at" is the expiry time and "rank" orders the events that    *)
(* share it, so every operation of the class is a set expression.          *)
(*                                                                         *)
(* Times are counted in ticks of 1/Frac second.  The code mixes two        *)
(* grains: objects carry whole seconds (time_t), events a struct timeval   *)
(* with microseconds; Frac = 1 identifies them, Frac >= 2 lets an event    *)
(* fall strictly between two seconds.                                      *)
(***************************************************************************)
EXTENDS Integers, Sequences

CONSTANT Frac     \* ticks in a second

ASSUME FracAssumption == Frac \in Nat \ {0}

(***************************************************************************)
(* Time.                                                                   *)
(***************************************************************************)

\* tv_sec of a struct timeval, and what time(NULL) returns at tick t.
Sec(t) == t \div Frac

\* An event created at tick t with offset (s - time(NULL)) seconds: the
\* offset is added to gettimeofday(), so the fraction of t is kept.
At(t, s) == t + (s - Sec(t)) * Frac

\* Event::doAlign: move to the next boundary of a period of ival seconds.
Align(t, ival) == (t \div (ival * Frac) + 1) * ival * Frac

(***************************************************************************)
(* Insertion and selection.                                                *)
(***************************************************************************)

\* The rank of the last event of q that expires at t; 0 when there is none.
LastRank(q, t) ==
  LET ranks == {e.rank : e \in {f \in q : f.at = t}}
      IsLast(r) == \A s \in ranks : s <= r
  IN  IF \E r \in ranks : IsLast(r)
      THEN CHOOSE r \in ranks : IsLast(r)
      ELSE 0

\* EventScheduler::addEvent for every event of S.  The rank an event of S
\* carries is its place among the events the caller adds.
Ranked(e, r) == [e EXCEPT !.rank = r]

Enqueue(q, S) == q \cup {Ranked(e, LastRank(q, e.at) + e.rank) : e \in S}

Before(e, f) == e.at < f.at \/ (e.at = f.at /\ e.rank < f.rank)

\* The event EventScheduler::getNextEvent dequeues.
IsHead(q, e) == e \in q /\ \A f \in q \ {e} : Before(e, f)

\* EventScheduler::reschedNextEvent of a recurring event at tick t: one
\* interval later, but not a second or more in the past (TIME_GAP_HACK is
\* defined, to 0, and the code tests it with #ifdef).
Reschedule(q, e, t) ==
  LET next == e.at + e.ival * Frac
      due  == IF t - next >= Frac THEN t ELSE next
  IN  Enqueue(q, {[e EXCEPT !.at = due, !.rank = 1]})

(***************************************************************************)
(* Deletion of what an event refers to.  The classes that override         *)
(* Event::deleteBiddingObject and Event::deleteAuction drop the object     *)
(* from their list, and the scheduler erases the events whose list becomes *)
(* empty.  InsertBiddingObjectsAuctionEvent (ADD_BIDDING_OBJECTS_AUCTION)  *)
(* does not override it.                                                   *)
(***************************************************************************)
AuctionLists == {"ACTIVATE_AUCTIONS", "REMOVE_AUCTIONS"}

\* Mutant: pending activations are not searched for a deleted object.
BidListsWithoutActivation == {"REMOVE_BIDDING_OBJECTS", "TRANSMIT_BIDDING_OBJECTS"}

BidLists == {"ACTIVATE_BIDDING_OBJECTS", "REMOVE_BIDDING_OBJECTS",
             "TRANSMIT_BIDDING_OBJECTS"}

\* Mutant: an event that refers to a deleted auction is erased as a whole.
DelAuctionEventsWhole(q, S) ==
  {e \in q : e.type \in AuctionLists => e.objs \cap S = {}}

\* Mutant: the queue is not searched.
DelAuctionEventsForgotten(q, S) == q

\* delAuctionEvents for every auction of S.
DelAuctionEvents(q, S) ==
  {IF e.type \in AuctionLists THEN [e EXCEPT !.objs = @ \ S] ELSE e :
     e \in {f \in q : f.type \in AuctionLists => ~(f.objs \subseteq S)}}

\* Mutant: an event that refers to a deleted object is erased as a whole.
DelBiddingObjectEventsWhole(q, S, First) ==
  {e \in q : e.type \in BidLists => e.objs \cap S = {}}

\* Mutant: a deletion also erases the allocations that are not installed yet.
DelBiddingObjectEventsAndAllocations(q, S, First) ==
  {IF e.type \in BidLists THEN [e EXCEPT !.objs = @ \ S] ELSE e :
     e \in {f \in q : /\ f.type \in BidLists => ~(f.objs \subseteq S)
                     /\ f.type # "ADD_GENERATED_BIDDING_OBJECTS"}}

(***************************************************************************)
(* delBiddingObjectEvents for every object of S.  The allocations that an  *)
(* ADD_GENERATED_BIDDING_OBJECTS event carries have not been added to the  *)
(* manager yet: their uid is the 0 of the AuctioningObject constructor, so *)
(* deleting the object whose uid is First (0) drops the first of them.     *)
(***************************************************************************)
DelBiddingObjectEvents(q, S, First) ==
  LET Matches(e) == e.type = "ADD_GENERATED_BIDDING_OBJECTS" /\ First \in S
      Emptied(e) == \/ e.type \in BidLists /\ e.objs \subseteq S
                    \/ Matches(e) /\ Len(e.allocs) = 1
      Strip(e) ==
        IF e.type \in BidLists THEN [e EXCEPT !.objs = @ \ S]
        ELSE IF Matches(e)
             THEN [e EXCEPT !.allocs = Tail(@)]
             ELSE e
  IN  {Strip(e) : e \in {f \in q : ~Emptied(f)}}

\* Mutant: the executions of a deleted process stay in the queue.
DelProcessExecutionEventsForgotten(q, S) == q

\* EventSchedulerAuctioner::delProcessExecutionEvents for every index of S.
DelProcessExecutionEvents(q, S) ==
  {e \in q : ~(e.type = "PUSH_EXECUTION" /\ e.index \in S)}
===============================================================================
