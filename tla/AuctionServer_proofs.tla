------------------------- MODULE AuctionServer_proofs -------------------------
(***************************************************************************)
(* What the auctioneer daemon keeps, for every set of auctions, bids,      *)
(* sessions and inputs, every Frac, every bound and however late the loop  *)
(* is, unless a theorem assumes otherwise.                                 *)
(*                                                                         *)
(* TypeOK is inductive as it stands.  What takes work is that the indices  *)
(* in the queue's lists and in the processes stay indices of installed     *)
(* objects (managers only append), and that no list becomes empty (the     *)
(* deletions of EventQueue erase the events they empty).                   *)
(*                                                                         *)
(* IInv is inductive.  Each of its parts needs the others: an execution    *)
(* stays unique because an auction that waits for its activation has no    *)
(* process yet, that stays so because no two lists hold one auction and    *)
(* none holds a done one, and the removal of an auction by name takes no   *)
(* process from another one because names are unique among the auctions    *)
(* that are not done.                                                      *)
(*                                                                         *)
(* The theorems about time rest on Effects(e), an account of all that the  *)
(* handler of e does: where each event of its queue comes from (Accounted),*)
(* what stays listed (Remains), and what becomes of the auctions, the      *)
(* bidding objects, the processes and the history.  RunInv, EndsInv and    *)
(* BidInv are inductive over it.                                           *)
(***************************************************************************)
EXTENDS AuctionServer, EventQueue_proofs

\* An inserted event keeps its kind and what it refers to.
LEMMA RankedType ==
  ASSUME NEW A, NEW O, NEW e \in EventType(A, O), NEW r \in Nat
  PROVE  /\ Ranked(e, r) \in EventType(A, O)
         /\ Ranked(e, r).type = e.type
         /\ Ranked(e, r).at = e.at
         /\ Ranked(e, r).rank = r
         /\ e.type \in AuctionLists \cup BidLists \cup {"ADD_BIDDING_OBJECTS_AUCTION"}
              => Ranked(e, r).objs = e.objs
         /\ e.type = "PUSH_EXECUTION" => Ranked(e, r).index = e.index
         /\ e.type = "ADD_GENERATED_BIDDING_OBJECTS" => Ranked(e, r).allocs = e.allocs
BY DEF Ranked, EventType, AuctionLists, BidLists, ListOf

\* An event stays well-formed when more auctions and objects are installed.
LEMMA EventMonotone ==
  ASSUME NEW A, NEW O, NEW A2, NEW O2, A \subseteq A2, O \subseteq O2
  PROVE  EventType(A, O) \subseteq EventType(A2, O2)
BY DEF EventType, ListOf

\* addEvent keeps the queue well-formed.
LEMMA EnqueueType ==
  ASSUME NEW A, NEW O, NEW q, NEW S,
         q \subseteq EventType(A, O), S \subseteq EventType(A, O)
  PROVE  Enqueue(q, S) \subseteq EventType(A, O)
<1>1. \A e \in EventType(A, O) : e.rank \in Nat
  BY DEF EventType
<1>2. \A t : LastRank(q, t) \in Nat
  BY <1>1, LastRankNat
<1>3. ASSUME NEW e \in S
      PROVE  Ranked(e, LastRank(q, e.at) + e.rank) \in EventType(A, O)
  <2>1. LastRank(q, e.at) + e.rank \in Nat
    BY <1>1, <1>2
  <2> QED
    BY <2>1, RankedType
<1> QED
  BY <1>3 DEF Enqueue

\* delAuctionEvents keeps the queue well-formed, no list empty.
LEMMA DelAuctionEventsType ==
  ASSUME NEW A, NEW O, NEW q, NEW S, q \subseteq EventType(A, O)
  PROVE  DelAuctionEvents(q, S) \subseteq EventType(A, O)
<1> SUFFICES ASSUME NEW e \in q, e.type \in AuctionLists => ~(e.objs \subseteq S)
             PROVE  (IF e.type \in AuctionLists THEN [e EXCEPT !.objs = @ \ S] ELSE e)
                      \in EventType(A, O)
  BY DEF DelAuctionEvents
<1>1. CASE e.type \in AuctionLists
  <2>1. e \in [at : Int, rank : Nat, type : AuctionLists, objs : ListOf(A)]
    BY <1>1 DEF EventType, AuctionLists, BidLists
  <2>2. e.objs \ S \in ListOf(A)
    BY <1>1, <2>1 DEF ListOf
  <2>3. [e EXCEPT !.objs = @ \ S]
          \in [at : Int, rank : Nat, type : AuctionLists, objs : ListOf(A)]
    BY <2>1, <2>2
  <2> QED
    BY <1>1, <2>3 DEF EventType
<1>2. CASE e.type \notin AuctionLists
  BY <1>2
<1> QED
  BY <1>1, <1>2

\* delBiddingObjectEvents keeps the queue well-formed, no list empty.
LEMMA DelBiddingObjectEventsType ==
  ASSUME NEW A, NEW O, NEW q, NEW S, NEW First, q \subseteq EventType(A, O)
  PROVE  DelBiddingObjectEvents(q, S, First) \subseteq EventType(A, O)
<1> DEFINE Matches(e) == e.type = "ADD_GENERATED_BIDDING_OBJECTS" /\ First \in S
           Emptied(e) == \/ e.type \in BidLists /\ e.objs \subseteq S
                         \/ Matches(e) /\ Len(e.allocs) = 1
           Strip(e) == IF e.type \in BidLists THEN [e EXCEPT !.objs = @ \ S]
                       ELSE IF Matches(e) THEN [e EXCEPT !.allocs = Tail(@)]
                                          ELSE e
<1>1. DelBiddingObjectEvents(q, S, First) = {Strip(e) : e \in {f \in q : ~Emptied(f)}}
  BY DEF DelBiddingObjectEvents
<1>2. ASSUME NEW e \in q, ~Emptied(e)
      PROVE  Strip(e) \in EventType(A, O)
  <2>1. CASE e.type \in BidLists
    <3> DEFINE R == [at : Int, rank : Nat,
                     type : BidLists \cup {"ADD_BIDDING_OBJECTS_AUCTION"},
                     objs : ListOf(O)]
    <3>1. e \in R
      BY <2>1 DEF EventType, AuctionLists, BidLists
    <3>2. e.objs \ S \in ListOf(O)
      BY <1>2, <2>1, <3>1 DEF ListOf
    <3>3. [e EXCEPT !.objs = @ \ S] \in R
      BY <3>1, <3>2
    <3> QED
      BY <2>1, <3>3 DEF EventType
  <2>2. CASE e.type \notin BidLists /\ Matches(e)
    <3> DEFINE T == Seq(ObjectType({"new"})) \ {<< >>}
               R == [at : Int, rank : Nat, type : {"ADD_GENERATED_BIDDING_OBJECTS"},
                     allocs : T]
    <3>1. e \in R
      BY <2>2 DEF EventType, AuctionLists, BidLists
    <3>2. Tail(e.allocs) \in T
      <4>1. e.allocs \in Seq(ObjectType({"new"})) /\ e.allocs # << >>
        BY <3>1
      <4>2. Len(e.allocs) # 1
        BY <1>2, <2>2
      <4>3. /\ Tail(e.allocs) \in Seq(ObjectType({"new"}))
            /\ Len(Tail(e.allocs)) = Len(e.allocs) - 1
        BY <4>1, HeadTailProperties
      <4>4. Len(e.allocs) \in Nat \ {0}
        BY <4>1, EmptySeq
      <4>5. Len(Tail(e.allocs)) # 0
        BY <4>2, <4>3, <4>4
      <4>6. Tail(e.allocs) # << >>
        BY <4>5, EmptySeq
      <4> QED
        BY <4>3, <4>6
    <3>3. [e EXCEPT !.allocs = Tail(@)] \in R
      BY <3>1, <3>2
    <3>4. R \subseteq EventType(A, O)
      BY DEF EventType
    <3> QED
      BY <2>2, <3>3, <3>4
  <2>3. CASE e.type \notin BidLists /\ ~Matches(e)
    BY <2>3
  <2> QED
    BY <2>1, <2>2, <2>3
<1> HIDE DEF Strip, Emptied
<1> QED
  BY <1>1, <1>2

\* delProcessExecutionEvents only takes events away.
LEMMA DelProcessExecutionEventsType ==
  ASSUME NEW q, NEW S
  PROVE  DelProcessExecutionEvents(q, S) \subseteq q
BY DEF DelProcessExecutionEvents

\* reschedNextEvent puts a well-formed execution back.
LEMMA RescheduleType ==
  ASSUME NEW A, NEW O, NEW q, NEW t \in Int,
         NEW e \in EventType(A, O), e.type = "PUSH_EXECUTION",
         q \subseteq EventType(A, O)
  PROVE  Reschedule(q, e, t) \subseteq EventType(A, O)
<1> DEFINE R == [at : Int, rank : Nat, type : {"PUSH_EXECUTION"},
                 index : A, stop : Nat, ival : Nat \ {0}]
           next == e.at + e.ival * Frac
           due == IF t - next >= Frac THEN t ELSE next
           f == [e EXCEPT !.at = due, !.rank = 1]
<1>1. e \in R
  BY DEF EventType, AuctionLists, BidLists
<1>2. due \in Int
  BY <1>1, FracAssumption
<1>3. f \in R
  <2> HIDE DEF due
  <2> QED
    BY <1>1, <1>2
<1>4. {f} \subseteq EventType(A, O)
  BY <1>3 DEF EventType
<1>5. Reschedule(q, e, t) = Enqueue(q, {f})
  BY DEF Reschedule
<1> HIDE DEF f
<1> QED
  BY <1>4, <1>5, EnqueueType

-----------------------------------------------------------------------------
(***************************************************************************)
(* The order of what a file or a process holds.                            *)
(***************************************************************************)

\* An arrangement is a sequence over the set, of its length.
LEMMA ArrangementsAreSeqs ==
  ASSUME NEW S, IsFiniteSet(S), NEW f \in Arrangements(S)
  PROVE  f \in Seq(S) /\ DOMAIN f = 1 .. Cardinality(S) /\ Cardinality(S) \in Nat
         /\ (S # {} => f # << >>)
<1>1. Cardinality(S) \in Nat /\ (S # {} => Cardinality(S) # 0)
  BY FS_CardinalityType, FS_EmptySet
<1>2. f \in [1 .. Cardinality(S) -> S]
  BY DEF Arrangements
<1>3. f \in Seq(S) /\ Len(f) = Cardinality(S) /\ DOMAIN f = 1 .. Cardinality(S)
  BY <1>1, <1>2, FunctionIsSeq
<1>4. Len(f) # 0 => f # << >>
  BY <1>3, EmptySeq
<1> QED
  BY <1>1, <1>3, <1>4

\* The order of a parsed file is a sequence over the names kept from it.
LEMMA InOrderOfAreSeqs ==
  ASSUME NEW S, IsFiniteSet(S), NEW names, NEW f \in InOrderOf(S, names)
  PROVE  f \in Seq(S) /\ DOMAIN f = 1 .. Cardinality(S) /\ Cardinality(S) \in Nat
<1>1. Cardinality(S) \in Nat
  BY FS_CardinalityType
<1>2. f \in [1 .. Cardinality(S) -> S]
  BY DEF InOrderOf
<1> QED
  BY <1>1, <1>2, FunctionIsSeq

-----------------------------------------------------------------------------
(***************************************************************************)
(* Type correctness.                                                       *)
(***************************************************************************)

\* The events pending once e has been taken from the queue.
LEMMA RestType ==
  ASSUME TypeOK, NEW e \in queue
  PROVE  /\ e \in EventType(DOMAIN aucs, DOMAIN objs)
         /\ Rest(e) \subseteq EventType(DOMAIN aucs, DOMAIN objs)
BY DEF TypeOK, Rest

\* The kind of an event, from its type.
LEMMA EventShape ==
  ASSUME NEW A, NEW O, NEW e \in EventType(A, O)
  PROVE  /\ e.at \in Int /\ e.rank \in Nat
         /\ e.type = "ADD_AUCTIONS" => e.names \in Seq(Auctions)
         /\ e.type \in {"ADD_BIDDING_OBJECTS", "AUCTION_INTERACTION"} =>
              e.sess \in Sessions \cup {NoSession} /\ e.bids \in Seq(Bids)
         /\ e.type \in {"CREATE_SESSION", "REMOVE_SESSION"} => e.sess \in Sessions
         /\ e.type \in AuctionLists => e.objs \subseteq A /\ e.objs # {}
         /\ e.type \in BidLists \cup {"ADD_BIDDING_OBJECTS_AUCTION"} =>
              e.objs \subseteq O /\ e.objs # {}
         /\ e.type = "PUSH_EXECUTION" =>
              e.index \in A /\ e.stop \in Nat /\ e.ival \in Nat \ {0}
         /\ e.type = "ADD_GENERATED_BIDDING_OBJECTS" =>
              e.allocs \in Seq(ObjectType({"new"})) /\ e.allocs # << >>
<1>1. e.at \in Int /\ e.rank \in Nat
  BY DEF EventType
<1>2. e.type = "ADD_AUCTIONS" => e.names \in Seq(Auctions)
  BY DEF EventType, AuctionLists, BidLists
<1>3. e.type \in {"ADD_BIDDING_OBJECTS", "AUCTION_INTERACTION"} =>
        e.sess \in Sessions \cup {NoSession} /\ e.bids \in Seq(Bids)
  BY DEF EventType, AuctionLists, BidLists
<1>4. e.type \in {"CREATE_SESSION", "REMOVE_SESSION"} => e.sess \in Sessions
  BY DEF EventType, AuctionLists, BidLists
<1>5. e.type \in AuctionLists => e.objs \in ListOf(A)
  BY DEF EventType, AuctionLists, BidLists
<1>6. e.type \in BidLists \cup {"ADD_BIDDING_OBJECTS_AUCTION"} => e.objs \in ListOf(O)
  BY DEF EventType, AuctionLists, BidLists
<1>7. e.type = "PUSH_EXECUTION" =>
        e.index \in A /\ e.stop \in Nat /\ e.ival \in Nat \ {0}
  BY DEF EventType, AuctionLists, BidLists
<1>8. e.type = "ADD_GENERATED_BIDDING_OBJECTS" =>
        e.allocs \in Seq(ObjectType({"new"})) \ {<< >>}
  BY DEF EventType, AuctionLists, BidLists
<1>9. ASSUME NEW S, NEW ids \in ListOf(S)
      PROVE  ids \subseteq S /\ ids # {}
  BY DEF ListOf
<1>10. e.type \in AuctionLists => e.objs \subseteq A /\ e.objs # {}
  BY <1>5, <1>9
<1>11. e.type \in BidLists \cup {"ADD_BIDDING_OBJECTS_AUCTION"} =>
         e.objs \subseteq O /\ e.objs # {}
  BY <1>6, <1>9
<1>12. e.type = "ADD_GENERATED_BIDDING_OBJECTS" =>
         e.allocs \in Seq(ObjectType({"new"})) /\ e.allocs # << >>
  BY <1>8
<1> QED
  BY <1>1, <1>2, <1>3, <1>4, <1>7, <1>10, <1>11, <1>12, Zenon

\* An activation or removal of auctions is well-formed when its list is.
LEMMA AuctionListEvent ==
  ASSUME NEW A, NEW O, NEW at \in Int, NEW rank \in Nat, NEW type \in AuctionLists,
         NEW ids, ids \subseteq A, ids # {}
  PROVE  [at |-> at, rank |-> rank, type |-> type, objs |-> ids] \in EventType(A, O)
<1>1. ids \in ListOf(A)
  BY DEF ListOf
<1>2. [at |-> at, rank |-> rank, type |-> type, objs |-> ids]
         \in [at : Int, rank : Nat, type : AuctionLists, objs : ListOf(A)]
  BY <1>1
<1> QED
  BY <1>2 DEF EventType

\* An event with a list of bidding objects is well-formed when its list is.
LEMMA BidListEvent ==
  ASSUME NEW A, NEW O, NEW at \in Int, NEW rank \in Nat,
         NEW type \in BidLists \cup {"ADD_BIDDING_OBJECTS_AUCTION"},
         NEW ids, ids \subseteq O, ids # {}
  PROVE  [at |-> at, rank |-> rank, type |-> type, objs |-> ids] \in EventType(A, O)
<1>1. ids \in ListOf(O)
  BY DEF ListOf
<1>2. [at |-> at, rank |-> rank, type |-> type, objs |-> ids]
         \in [at : Int, rank : Nat,
              type : BidLists \cup {"ADD_BIDDING_OBJECTS_AUCTION"}, objs : ListOf(O)]
  BY <1>1
<1> QED
  BY <1>2 DEF EventType

\* The clock is a number.
LEMMA NowInt == ASSUME TypeOK PROVE now \in Int
BY BoundsAssumption DEF TypeOK

\* A start moved to the present is a number.
LEMMA StartOfInt ==
  ASSUME TypeOK, NEW s \in Int
  PROVE  StartOf(s) \in Int
BY NowInt, TimesInt DEF StartOf, Later

\* The removals that a manager schedules for the objects it appends.
LEMMA RemovalsType ==
  ASSUME TypeOK, NEW type \in {"REMOVE_AUCTIONS", "REMOVE_BIDDING_OBJECTS"},
         NEW new, NEW base, NEW A, NEW O,
         \A k \in DOMAIN new : new[k].stop \in Int,
         \A k \in DOMAIN new : base + k \in (IF type = "REMOVE_AUCTIONS" THEN A ELSE O)
  PROVE  Removals(type, new, base) \subseteq EventType(A, O)
<1> SUFFICES ASSUME NEW k \in DOMAIN new
             PROVE  [at |-> At(now, new[k].stop), rank |-> 2, type |-> type,
                     objs |-> EndingAt(new, base, new[k].stop)] \in EventType(A, O)
  BY Zenon DEF Removals
<1>1. At(now, new[k].stop) \in Int
  BY NowInt, TimesInt
<1>2. /\ EndingAt(new, base, new[k].stop) # {}
      /\ EndingAt(new, base, new[k].stop)
            \subseteq (IF type = "REMOVE_AUCTIONS" THEN A ELSE O)
  BY DEF EndingAt
<1>3. CASE type = "REMOVE_AUCTIONS"
  BY <1>1, <1>2, <1>3, AuctionListEvent DEF AuctionLists
<1>4. CASE type = "REMOVE_BIDDING_OBJECTS"
  BY <1>1, <1>2, <1>4, BidListEvent DEF BidLists
<1> QED
  BY <1>3, <1>4

\* What addAuctioningObjects schedules for the objects it appended is
\* well-formed.
LEMMA ScheduleObjectsType ==
  ASSUME TypeOK, NEW new, NEW base, NEW A, NEW O,
         \A k \in DOMAIN new : new[k].start \in Int /\ new[k].stop \in Int,
         \A k \in DOMAIN new : base + k \in O
  PROVE  ScheduleObjects(new, base) \subseteq EventType(A, O)
<1>1. Removals("REMOVE_BIDDING_OBJECTS", new, base) \subseteq EventType(A, O)
  BY RemovalsType
<1>2. ASSUME NEW k \in DOMAIN new
      PROVE  [at |-> At(now, StartOf(new[k].start)), rank |-> 1,
              type |-> "ACTIVATE_BIDDING_OBJECTS",
              objs |-> StartingAt(new, base, StartOf(new[k].start))] \in EventType(A, O)
  <2>1. At(now, StartOf(new[k].start)) \in Int
    BY NowInt, StartOfInt, TimesInt
  <2>2. /\ StartingAt(new, base, StartOf(new[k].start)) # {}
        /\ StartingAt(new, base, StartOf(new[k].start)) \subseteq O
    BY DEF StartingAt
  <2> QED
    BY <2>1, <2>2, BidListEvent DEF BidLists
<1>3. Activations(new, base) \subseteq EventType(A, O)
  BY <1>2, Zenon DEF Activations
<1> QED
  BY <1>1, <1>3 DEF ScheduleObjects

\* What the managers do to the state of some of their objects: the objects
\* keep their numbers and everything else about them.
LEMMA WithStateType ==
  ASSUME NEW os \in Seq(ObjectType(Installable)), NEW S, NEW state \in Installable
  PROVE  /\ WithState(os, S, state) \in Seq(ObjectType(Installable))
         /\ DOMAIN WithState(os, S, state) = DOMAIN os
<1>1. \A o \in DOMAIN os : os[o] \in ObjectType(Installable)
  BY ElementOfSeq, LenProperties
<1>2. \A o \in DOMAIN os : [os[o] EXCEPT !.state = state] \in ObjectType(Installable)
  BY <1>1 DEF ObjectType
<1>3. WithState(os, S, state) \in [DOMAIN os -> ObjectType(Installable)]
  BY <1>1, <1>2 DEF WithState
<1> QED
  BY <1>3, Mapped

\* setState on auctions keeps their types and changes no state but theirs.
LEMMA WithStateAuctionType ==
  ASSUME NEW as \in Seq(AuctionType), NEW S, NEW state \in Installable
  PROVE  /\ WithState(as, S, state) \in Seq(AuctionType)
         /\ DOMAIN WithState(as, S, state) = DOMAIN as
<1>1. \A o \in DOMAIN as : as[o] \in AuctionType
  BY ElementOfSeq, LenProperties
<1>2. \A o \in DOMAIN as : [as[o] EXCEPT !.state = state] \in AuctionType
  BY <1>1 DEF AuctionType, Installable
<1>3. WithState(as, S, state) \in [DOMAIN as -> AuctionType]
  BY <1>1, <1>2 DEF WithState
<1> QED
  BY <1>3, Mapped

-----------------------------------------------------------------------------
(***************************************************************************)
(* Every handler keeps the types.                                          *)
(***************************************************************************)

\* A failing execution keeps the types.
LEMMA PushExecutionErrorType ==
  ASSUME TypeOK, NEW e \in queue, HandlePushExecutionError(e)
  PROVE  TypeOK'
BY RestType DEF HandlePushExecutionError, Dropped, TypeOK

\* handleRemoveSession keeps the types.
LEMMA RemoveSessionType ==
  ASSUME TypeOK, NEW e \in queue, HandleRemoveSession(e)
  PROVE  TypeOK'
<1>1. queue' \subseteq EventType(DOMAIN aucs, DOMAIN objs)
  BY RestType DEF HandleRemoveSession, Dropped
<1>2. live' \subseteq Sessions /\ stored' \subseteq Sessions
  BY DEF HandleRemoveSession, TypeOK
<1> QED
  BY <1>1, <1>2 DEF HandleRemoveSession, TypeOK

\* handleCreateSession keeps the types.
LEMMA CreateSessionType ==
  ASSUME TypeOK, NEW e \in queue, HandleCreateSession(e)
  PROVE  TypeOK'
<1> DEFINE names == {aucs[i].name : i \in Applicable(e.sess)}
           as == [i \in DOMAIN aucs |->
                    IF aucs[i].name \in names /\ aucs[i].state # "done"
                    THEN [aucs[i] EXCEPT !.sessions = @ \cup {e.sess}]
                    ELSE aucs[i]]
<1>1. aucs \in Seq(AuctionType) /\ live \subseteq Sessions
  BY DEF TypeOK
<1>2. e.type = "CREATE_SESSION"
  BY DEF HandleCreateSession, Handling
<1>3. e.sess \in Sessions
  BY <1>2, RestType, EventShape
<1>4. \A i \in DOMAIN aucs : aucs[i] \in AuctionType
  BY <1>1, ElementOfSeq, LenProperties
<1>5. \A i \in DOMAIN aucs :
        [aucs[i] EXCEPT !.sessions = @ \cup {e.sess}] \in AuctionType
  BY <1>3, <1>4 DEF AuctionType
<1>6. as \in [DOMAIN aucs -> AuctionType]
  BY <1>4, <1>5
<1>7. as \in Seq(AuctionType) /\ DOMAIN as = DOMAIN aucs
  <2> HIDE DEF as
  <2> QED
    BY <1>1, <1>6, Mapped
<1>8. aucs' = as
  BY DEF HandleCreateSession
<1>9. live' \subseteq Sessions
  BY <1>1, <1>3 DEF HandleCreateSession
<1>10. queue' \subseteq EventType(DOMAIN aucs, DOMAIN objs)
  BY RestType DEF HandleCreateSession, Dropped
<1> HIDE DEF as
<1> QED
  BY <1>7, <1>8, <1>9, <1>10 DEF HandleCreateSession, TypeOK

\* handleTransmitBiddingObjects keeps the types.
LEMMA TransmitBiddingObjectsType ==
  ASSUME TypeOK, NEW e \in queue, HandleTransmitBiddingObjects(e)
  PROVE  TypeOK'
<1>1. e.type = "TRANSMIT_BIDDING_OBJECTS"
  BY DEF HandleTransmitBiddingObjects, Handling
<1>2. e.objs \subseteq DOMAIN objs
  BY <1>1, RestType, EventShape DEF BidLists
<1>3. sent' \subseteq DOMAIN objs
  BY <1>2 DEF HandleTransmitBiddingObjects, Reached, TypeOK
<1>4. queue' \subseteq EventType(DOMAIN aucs, DOMAIN objs)
  BY RestType DEF HandleTransmitBiddingObjects, Dropped
<1>5. up' \in BOOLEAN
  BY DEF HandleTransmitBiddingObjects
<1> QED
  BY <1>3, <1>4, <1>5 DEF HandleTransmitBiddingObjects, TypeOK

\* handleRemoveBiddingObjects keeps the types.
LEMMA RemoveBiddingObjectsType ==
  ASSUME TypeOK, NEW e \in queue, HandleRemoveBiddingObjects(e)
  PROVE  TypeOK'
<1>1. queue' \subseteq EventType(DOMAIN aucs, DOMAIN objs)
  BY RestType, DelBiddingObjectEventsType DEF HandleRemoveBiddingObjects
<1>2. /\ objs' \in Seq(ObjectType(Installable))
      /\ DOMAIN objs' = DOMAIN objs
  BY WithStateType DEF HandleRemoveBiddingObjects, TypeOK, Installable
<1>3. DOMAIN proc' = DOMAIN proc /\ proc' \in [DOMAIN proc -> SUBSET DOMAIN objs]
  BY DEF HandleRemoveBiddingObjects, WithoutBids, TypeOK
<1> QED
  BY <1>1, <1>2, <1>3 DEF HandleRemoveBiddingObjects, TypeOK

\* handleAddBiddingObjectsAuction keeps the types: processes hold numbers of
\* objects.
LEMMA AddBiddingObjectsAuctionType ==
  ASSUME TypeOK, NEW e \in queue, HandleAddBiddingObjectsAuction(e)
  PROVE  TypeOK'
<1>1. e.type = "ADD_BIDDING_OBJECTS_AUCTION"
  BY DEF HandleAddBiddingObjectsAuction, Handling
<1>2. e.objs \subseteq DOMAIN objs
  BY <1>1, RestType, EventShape
<1>3. queue' \subseteq EventType(DOMAIN aucs, DOMAIN objs)
  BY RestType DEF HandleAddBiddingObjectsAuction, Dropped
<1>4. DOMAIN proc' = DOMAIN proc /\ proc' \in [DOMAIN proc -> SUBSET DOMAIN objs]
  BY <1>2, Zenon DEF HandleAddBiddingObjectsAuction, TypeOK
<1> QED
  BY <1>3, <1>4 DEF HandleAddBiddingObjectsAuction, TypeOK

\* handleActivateBiddingObjects keeps the types.
LEMMA ActivateBiddingObjectsType ==
  ASSUME TypeOK, NEW e \in queue, HandleActivateBiddingObjects(e)
  PROVE  TypeOK'
<1> DEFINE bids == {o \in e.objs : objs[o].kind = "bid"}
           insertion == [at |-> now, rank |-> 1,
                         type |-> "ADD_BIDDING_OBJECTS_AUCTION", objs |-> bids]
           Ev == EventType(DOMAIN aucs, DOMAIN objs)
<1>1. e.type = "ACTIVATE_BIDDING_OBJECTS"
  BY DEF HandleActivateBiddingObjects, Handling
<1>2. e.objs \subseteq DOMAIN objs
  BY <1>1, RestType, EventShape DEF BidLists
<1>3. bids # {} => insertion \in Ev
  BY <1>2, NowInt, BidListEvent
<1>4. {ev \in {insertion} : bids # {}} \subseteq Ev
  BY <1>3
<1>5. queue' = Enqueue(Rest(e), {ev \in {insertion} : bids # {}})
  BY Zenon DEF HandleActivateBiddingObjects
<1>6. Rest(e) \subseteq Ev
  BY RestType
<1>7. queue' \subseteq Ev
  <2> HIDE DEF insertion, bids, Ev
  <2> SUFFICES Enqueue(Rest(e), {ev \in {insertion} : bids # {}}) \subseteq Ev
    BY <1>5
  <2> QED
    BY <1>4, <1>6, EnqueueType DEF Ev
<1>8. /\ objs' \in Seq(ObjectType(Installable))
      /\ DOMAIN objs' = DOMAIN objs
  BY WithStateType DEF HandleActivateBiddingObjects, TypeOK, Installable
<1> QED
  BY <1>7, <1>8 DEF HandleActivateBiddingObjects, TypeOK

\* The managers append objects: the types of the other components only grow.
LEMMA ObjectsAppended ==
  ASSUME TypeOK, NEW new \in Seq(ObjectType(Installable)), NEW os, os = objs \o new
  PROVE  /\ os \in Seq(ObjectType(Installable))
         /\ DOMAIN objs \subseteq DOMAIN os
         /\ \A k \in DOMAIN new : Len(objs) + k \in DOMAIN os
         /\ EventType(DOMAIN aucs, DOMAIN objs) \subseteq EventType(DOMAIN aucs, DOMAIN os)
<1>1. objs \in Seq(ObjectType(Installable))
  BY DEF TypeOK
<1>2. /\ os \in Seq(ObjectType(Installable))
      /\ DOMAIN objs \subseteq DOMAIN os
      /\ \A k \in DOMAIN new : Len(objs) + k \in DOMAIN os
  BY <1>1, Appended
<1> QED
  BY <1>2, EventMonotone

\* The events that bring bids.
BidInputs == {"ADD_BIDDING_OBJECTS", "AUCTION_INTERACTION"}

\* The step of handler e installs new (unless an error leaves the queue without
\* their activation) and schedules it together with more.
Installs(e, new, more) ==
  /\ new \in Seq(ObjectType(Installable))
  /\ \A k \in DOMAIN new : new[k].state = "valid"
  /\ more \subseteq EventType(DOMAIN aucs, DOMAIN objs')
  /\ \A g \in more : g.type = "TRANSMIT_BIDDING_OBJECTS"
  /\ objs' = objs \o new
  /\ \/ queue' = Rest(e) /\ e.type \in BidInputs /\ AddThrows(e.bids)
     \/ queue' = Enqueue(Rest(e), ScheduleObjects(new, Len(objs)) \cup more)
  /\ \A g \in more :
       /\ e.type = "ADD_GENERATED_BIDDING_OBJECTS"
       /\ g.at = now /\ g.rank = 3
       /\ \A o \in g.objs : \E k \in DOMAIN new : o = Len(objs) + k
  /\ e.type = "ADD_GENERATED_BIDDING_OBJECTS" =>
       \A k \in DOMAIN new : \E l \in DOMAIN e.allocs :
         /\ new[k].auc = e.allocs[l].auc /\ new[k].stop = e.allocs[l].stop
         /\ new[k].kind = e.allocs[l].kind
  /\ e.type \in BidInputs =>
       \A k \in DOMAIN new : \E b \in Bids, s \in Sessions \cup {NoSession} :
         new[k] = NewBid(b, s)

\* A handler that installs objects, and schedules only well-formed events,
\* keeps the types.
LEMMA InstalledType ==
  ASSUME TypeOK, NEW e \in queue, NEW new, NEW more, Installs(e, new, more),
         UNCHANGED <<now, aucs, proc, live, stored, up, inputs, made, sent>>
  PROVE  TypeOK'
<1> DEFINE Ev2 == EventType(DOMAIN aucs, DOMAIN objs')
<1>1. new \in Seq(ObjectType(Installable)) /\ objs' = objs \o new
  BY DEF Installs
<1>2. /\ objs' \in Seq(ObjectType(Installable))
      /\ DOMAIN objs \subseteq DOMAIN objs'
      /\ \A k \in DOMAIN new : Len(objs) + k \in DOMAIN objs'
      /\ EventType(DOMAIN aucs, DOMAIN objs) \subseteq Ev2
  BY <1>1, ObjectsAppended
<1>3. Rest(e) \subseteq Ev2
  BY <1>2, RestType
<1>4. \A k \in DOMAIN new : new[k].start \in Int /\ new[k].stop \in Int
  <2>1. \A k \in DOMAIN new : new[k] \in ObjectType(Installable)
    BY <1>1, ElementOfSeq, LenProperties
  <2> QED
    BY <2>1 DEF ObjectType
<1>5. ScheduleObjects(new, Len(objs)) \subseteq Ev2
  BY <1>2, <1>4, ScheduleObjectsType
<1>6. queue' \subseteq Ev2
  BY <1>3, <1>5, EnqueueType DEF Installs
<1>7. proc' \in [DOMAIN proc' -> SUBSET DOMAIN objs']
  BY <1>2 DEF TypeOK
<1>8. sent' \subseteq DOMAIN objs'
  BY <1>2 DEF TypeOK
<1> QED
  BY <1>2, <1>6, <1>7, <1>8 DEF TypeOK

\* handleAddGeneratedBiddingObjects installs the allocations of its event.
LEMMA AddGeneratedBiddingObjectsInstalls ==
  ASSUME TypeOK, NEW e \in queue, HandleAddGeneratedBiddingObjects(e)
  PROVE  \E new, more : Installs(e, new, more)
<1> DEFINE base == Len(objs)
           new == [k \in DOMAIN e.allocs |-> [e.allocs[k] EXCEPT !.state = "valid"]]
           transmission == Transmission({base + k : k \in DOMAIN new})
<1>1. e.type = "ADD_GENERATED_BIDDING_OBJECTS"
  BY DEF HandleAddGeneratedBiddingObjects, Handling
<1>2. e.allocs \in Seq(ObjectType({"new"})) /\ e.allocs # << >>
  BY <1>1, RestType, EventShape
<1>3. \A k \in DOMAIN e.allocs : e.allocs[k] \in ObjectType({"new"})
  BY <1>2, ElementOfSeq, LenProperties
<1>4. \A k \in DOMAIN e.allocs :
        [e.allocs[k] EXCEPT !.state = "valid"] \in ObjectType(Installable)
  BY <1>3 DEF ObjectType, Installable
<1>5. new \in [DOMAIN e.allocs -> ObjectType(Installable)]
  BY <1>4
<1>6. new \in Seq(ObjectType(Installable)) /\ DOMAIN new = DOMAIN e.allocs
  <2> HIDE DEF new
  <2> QED
    BY <1>2, <1>5, Mapped
<1>7. DOMAIN e.allocs # {}
  <2>1. Len(e.allocs) \in Nat /\ DOMAIN e.allocs = 1 .. Len(e.allocs)
    BY <1>2, LenProperties
  <2>2. Len(e.allocs) # 0
    BY <1>2, EmptySeq
  <2>3. 1 \in DOMAIN e.allocs
    BY <2>1, <2>2
  <2> QED
    BY <2>3
<1>8. /\ objs' = objs \o new
      /\ queue' = Enqueue(Rest(e), ScheduleObjects(new, base) \cup {transmission})
      /\ UNCHANGED <<now, aucs, proc, live, stored, up, inputs, made, sent>>
  BY DEF HandleAddGeneratedBiddingObjects
<1> HIDE DEF new
<1>9. \A k \in DOMAIN new : base + k \in DOMAIN objs'
  BY <1>6, <1>8, ObjectsAppended
<1>10. {transmission} \subseteq EventType(DOMAIN aucs, DOMAIN objs')
  <2> DEFINE ids == {base + k : k \in DOMAIN new}
  <2>1. ids \subseteq DOMAIN objs' /\ ids # {}
    BY <1>6, <1>7, <1>9
  <2>2. transmission = [at |-> now, rank |-> 3, type |-> "TRANSMIT_BIDDING_OBJECTS",
                        objs |-> ids]
    BY DEF Transmission
  <2>3. "TRANSMIT_BIDDING_OBJECTS" \in BidLists
    BY DEF BidLists
  <2> HIDE DEF ids, transmission
  <2>4. transmission \in EventType(DOMAIN aucs, DOMAIN objs')
    BY <2>1, <2>2, <2>3, NowInt, BidListEvent
  <2> QED
    BY <2>4
<1>11. \A k \in DOMAIN new : new[k].state = "valid"
  BY <1>3 DEF ObjectType, new
<1>12. \A g \in {transmission} : g.type = "TRANSMIT_BIDDING_OBJECTS"
  BY DEF Transmission
<1> HIDE DEF transmission
<1>13. transmission.at = now /\ transmission.rank = 3
       /\ \A o \in transmission.objs : \E k \in DOMAIN new : o = Len(objs) + k
  BY DEF Transmission, transmission
<1>14. \A k \in DOMAIN new :
         /\ new[k].auc = e.allocs[k].auc /\ new[k].stop = e.allocs[k].stop
         /\ new[k].kind = e.allocs[k].kind
  BY <1>3 DEF ObjectType, new
<1>15. Installs(e, new, {transmission})
  BY <1>1, <1>6, <1>8, <1>10, <1>11, <1>12, <1>13, <1>14 DEF Installs, BidInputs
<1> QED
  BY <1>15

\* handleAddGeneratedBiddingObjects keeps the types.
LEMMA AddGeneratedBiddingObjectsType ==
  ASSUME TypeOK, NEW e \in queue, HandleAddGeneratedBiddingObjects(e)
  PROVE  TypeOK'
<1>1. PICK new, more : Installs(e, new, more)
  BY AddGeneratedBiddingObjectsInstalls
<1> QED
  BY <1>1, InstalledType DEF HandleAddGeneratedBiddingObjects

\* A bid as addBiddingObject installs it is a bidding object.
LEMMA NewBidType ==
  ASSUME TypeOK, NEW b \in Bids, NEW s \in Sessions \cup {NoSession}
  PROVE  NewBid(b, s) \in ObjectType(Installable) /\ NewBid(b, s).state = "valid"
<1>1. /\ BidSpec[b].auc \in Auctions
      /\ BidSpec[b].start \in Nat /\ BidSpec[b].stop \in Nat
  BY SpecAssumption
<1>2. StartOf(BidSpec[b].start) \in Int
  BY <1>1, StartOfInt
<1> QED
  BY <1>1, <1>2 DEF NewBid, ObjectType, Installable

\* Both ways of adding bids.
LEMMA AddBidsInstalls ==
  ASSUME TypeOK, NEW e \in queue, AddBids(e), e.type \in BidInputs,
         e.sess \in Sessions \cup {NoSession}, e.bids \in Seq(Bids)
  PROVE  \E new, more : Installs(e, new, more)
<1> DEFINE kept == {e.bids[i] : i \in {j \in Accepted(e.bids) :
                                         AddThrows(e.bids) => j < Len(e.bids)}}
<1>1. PICK order \in InOrderOf(kept, e.bids) :
        /\ objs' = objs \o [k \in DOMAIN order |-> NewBid(order[k], e.sess)]
        /\ queue' = IF AddThrows(e.bids)
                    THEN Rest(e)
                    ELSE Enqueue(Rest(e),
                           ScheduleObjects([k \in DOMAIN order |-> NewBid(order[k], e.sess)],
                                           Len(objs)))
  BY Zenon DEF AddBids
<1> DEFINE new == [k \in DOMAIN order |-> NewBid(order[k], e.sess)]
<1>2. /\ \A i \in DOMAIN e.bids : e.bids[i] \in Bids
      /\ Accepted(e.bids) \subseteq DOMAIN e.bids
  BY ElementOfSeq, LenProperties DEF Accepted
<1>3. kept \subseteq Bids
  BY <1>2
<1>4. IsFiniteSet(kept)
  BY <1>3, NamesAssumption, FS_Subset
<1>5. order \in Seq(kept)
  BY <1>4, InOrderOfAreSeqs
<1>6. \A k \in DOMAIN order : order[k] \in Bids
  BY <1>3, <1>5, ElementOfSeq, LenProperties
<1>7. new \in [DOMAIN order -> ObjectType(Installable)]
  BY <1>6, NewBidType
<1>8. new \in Seq(ObjectType(Installable))
  <2> HIDE DEF new, kept
  <2> QED
    BY <1>5, <1>7, Mapped
<1> HIDE DEF new
<1>9. objs' = objs \o new
  BY <1>1 DEF new
<1>10. \A k \in DOMAIN new : new[k].state = "valid"
  BY <1>6, NewBidType DEF new
<1>11. \A k \in DOMAIN new : \E b \in Bids, s \in Sessions \cup {NoSession} :
         new[k] = NewBid(b, s)
  BY <1>6 DEF new
<1> DEFINE more == {}
<1>12. /\ more \subseteq EventType(DOMAIN aucs, DOMAIN objs')
       /\ \A g \in more : FALSE
  OBVIOUS
<1>13. \/ queue' = Rest(e) /\ AddThrows(e.bids)
       \/ queue' = Enqueue(Rest(e), ScheduleObjects(new, Len(objs)) \cup more)
  BY <1>1 DEF new
<1> HIDE DEF more
<1>14. Installs(e, new, more)
  BY <1>8, <1>9, <1>10, <1>12, <1>13, <1>11 DEF Installs, BidInputs
<1> QED
  BY <1>14

\* Both ways of adding bids keep the types.
LEMMA AddBidsType ==
  ASSUME TypeOK, NEW e \in queue, AddBids(e), e.type \in BidInputs,
         e.sess \in Sessions \cup {NoSession}, e.bids \in Seq(Bids),
         UNCHANGED <<now, aucs, proc, live, stored, up, inputs, made, sent>>
  PROVE  TypeOK'
<1>1. PICK new, more : Installs(e, new, more)
  BY AddBidsInstalls
<1> QED
  BY <1>1, InstalledType

\* handleAddBiddingObjects keeps the types.
LEMMA AddBiddingObjectsType ==
  ASSUME TypeOK, NEW e \in queue, HandleAddBiddingObjects(e)
  PROVE  TypeOK'
<1>1. e.type = "ADD_BIDDING_OBJECTS"
  BY DEF HandleAddBiddingObjects, Handling
<1>2. e.sess \in Sessions \cup {NoSession} /\ e.bids \in Seq(Bids)
  BY <1>1, RestType, EventShape
<1> QED
  BY <1>1, <1>2, AddBidsType DEF HandleAddBiddingObjects, BidInputs

\* handleAuctioningInteraction keeps the types.
LEMMA AuctionInteractionType ==
  ASSUME TypeOK, NEW e \in queue, HandleAuctionInteraction(e)
  PROVE  TypeOK'
<1>1. e.type = "AUCTION_INTERACTION"
  BY DEF HandleAuctionInteraction, Handling
<1>2. e.sess \in Sessions \cup {NoSession} /\ e.bids \in Seq(Bids)
  BY <1>1, RestType, EventShape
<1>3. CASE e.sess \in live
  BY <1>1, <1>2, <1>3, AddBidsType DEF HandleAuctionInteraction, BidInputs
<1>4. CASE e.sess \notin live
  BY <1>4, RestType DEF HandleAuctionInteraction, Dropped, TypeOK
<1> QED
  BY <1>3, <1>4

\* An auction as addAuction installs it is an auction.
LEMMA NewAuctionType ==
  ASSUME TypeOK, NEW n \in Auctions
  PROVE  NewAuction(n) \in AuctionType
<1>1. AucSpec[n].start \in Nat /\ AucSpec[n].stop \in Nat
  BY SpecAssumption
<1>2. StartOf(AucSpec[n].start) \in Int
  BY <1>1, StartOfInt
<1> QED
  BY <1>1, <1>2 DEF NewAuction, AuctionType

\* The step of handler e installs the auctions new and schedules S for them:
\* at most one activation, and removals.
InstallsAuctions(e, new, S) ==
  /\ new \in Seq(AuctionType)
  /\ aucs' = aucs \o new
  /\ \A k \in DOMAIN new : new[k].state = "valid" /\ Installed(new[k].name) = {}
  /\ \A k, l \in DOMAIN new : new[k].name = new[l].name => k = l
  /\ queue' = Enqueue(Rest(e), S)
  /\ S \subseteq EventType(DOMAIN aucs', DOMAIN objs)
  /\ \A g \in S : /\ g.type \in AuctionLists
                  /\ \A i \in g.objs : \E k \in DOMAIN new : i = Len(aucs) + k
  /\ \A g, h \in S :
       g.type = "ACTIVATE_AUCTIONS" /\ h.type = "ACTIVATE_AUCTIONS" => g = h
  /\ \A k \in DOMAIN new : \E n \in Auctions : new[k] = NewAuction(n)
  /\ \A g \in S : g.type = "REMOVE_AUCTIONS" =>
       \A k \in DOMAIN new : Len(aucs) + k \in g.objs =>
         new[k].stop # 0 /\ g.at = At(now, new[k].stop)
  /\ \A k \in DOMAIN new :
       /\ \E g \in S : g.type = "ACTIVATE_AUCTIONS" /\ Len(aucs) + k \in g.objs
       /\ new[k].stop # 0 =>
            \E g \in S : g.type = "REMOVE_AUCTIONS" /\ Len(aucs) + k \in g.objs

\* handleAddAuctions appends auctions and schedules lists of their numbers.
LEMMA AddAuctionsInstalls ==
  ASSUME TypeOK, NEW e \in queue, HandleAddAuctions(e), Verified(e.names)
  PROVE  \E new, S : InstallsAuctions(e, new, S)
<1> DEFINE fresh == {n \in {e.names[i] : i \in DOMAIN e.names} : Installed(n) = {}}
           base == Len(aucs)
<1>1. e.names \in Seq(Auctions)
  BY RestType, EventShape DEF HandleAddAuctions, Handling
<1>2. PICK order \in InOrderOf(fresh, e.names) :
        LET new == [k \in DOMAIN order |-> NewAuction(order[k])]
            activation == [at |-> now, rank |-> 1, type |-> "ACTIVATE_AUCTIONS",
                           objs |-> {base + k : k \in DOMAIN new}]
        IN  /\ aucs' = aucs \o new
            /\ queue' = Enqueue(Rest(e),
                          {ev \in {activation} : ev.objs # {}}
                            \cup Removals("REMOVE_AUCTIONS", new, base))
  BY Zenon DEF HandleAddAuctions
<1> DEFINE new == [k \in DOMAIN order |-> NewAuction(order[k])]
           ids == {base + k : k \in DOMAIN new}
           activation == [at |-> now, rank |-> 1, type |-> "ACTIVATE_AUCTIONS",
                          objs |-> ids]
           activations == {ev \in {activation} : ev.objs # {}}
           removals == Removals("REMOVE_AUCTIONS", new, base)
           Ev2 == EventType(DOMAIN aucs', DOMAIN objs)
<1>3. /\ aucs' = aucs \o new
      /\ queue' = Enqueue(Rest(e), activations \cup removals)
  BY <1>2
<1>4. fresh \subseteq Auctions /\ \A n \in fresh : Installed(n) = {}
  BY <1>1, ElementOfSeq, LenProperties
<1>5. IsFiniteSet(fresh)
  BY <1>4, NamesAssumption, FS_Subset
<1>6. order \in Seq(fresh) /\ DOMAIN order = 1 .. Cardinality(fresh)
      /\ Cardinality(fresh) \in Nat
  BY <1>5, InOrderOfAreSeqs
<1>7. \A k \in DOMAIN order : order[k] \in Auctions /\ Installed(order[k]) = {}
  BY <1>4, <1>6, ElementOfSeq, LenProperties
<1>8. \A k, l \in DOMAIN order : order[k] = order[l] => k = l
  <2>1. \A k, l \in DOMAIN order : k < l => order[k] # order[l]
    <3> SUFFICES ASSUME NEW k \in DOMAIN order, NEW l \in DOMAIN order, k < l
                 PROVE  order[k] # order[l]
      OBVIOUS
    <3>1. PICK i \in DOMAIN e.names :
            e.names[i] = order[k] /\ \A j \in 1 .. i : e.names[j] # order[l]
      BY Zenon DEF InOrderOf
    <3>2. i \in 1 .. i
      BY <1>1, LenProperties
    <3> QED
      BY <3>1, <3>2
  <2>2. \A k, l \in DOMAIN order : k < l \/ k = l \/ l < k
    BY <1>6
  <2> QED
    BY <2>1, <2>2
<1> HIDE DEF fresh
<1>9. new \in [DOMAIN order -> AuctionType]
  BY <1>7, NewAuctionType
<1>10. new \in Seq(AuctionType) /\ DOMAIN new = DOMAIN order
  <2> HIDE DEF new
  <2> QED
    BY <1>6, <1>9, Mapped
<1>11. \A k \in DOMAIN new : new[k].state = "valid" /\ new[k].name = order[k]
  BY <1>10 DEF NewAuction
<1> HIDE DEF new
<1>12. /\ aucs' \in Seq(AuctionType)
       /\ \A k \in DOMAIN new : base + k \in DOMAIN aucs'
  BY <1>3, <1>10, Appended DEF TypeOK
<1>13. ASSUME NEW g \in activations
       PROVE  /\ g \in Ev2 /\ g = activation
              /\ g.type = "ACTIVATE_AUCTIONS"
              /\ \A i \in g.objs : \E k \in DOMAIN new : i = base + k
  <2>1. g = activation /\ ids # {}
    OBVIOUS
  <2>2. ids \subseteq DOMAIN aucs' /\ \A i \in ids : \E k \in DOMAIN new : i = base + k
    BY <1>12
  <2>3. "ACTIVATE_AUCTIONS" \in AuctionLists
    BY DEF AuctionLists
  <2> HIDE DEF ids
  <2>4. activation \in Ev2
    BY <2>1, <2>2, <2>3, NowInt, AuctionListEvent
  <2>5. activation.type = "ACTIVATE_AUCTIONS" /\ activation.objs = ids
    OBVIOUS
  <2> HIDE DEF activation
  <2> QED
    BY <2>1, <2>2, <2>4, <2>5
<1>14. ASSUME NEW g \in removals
       PROVE  /\ g.type = "REMOVE_AUCTIONS"
              /\ \A i \in g.objs : \E k \in DOMAIN new : i = base + k
  <2>1. PICK t \in {new[j].stop : j \in DOMAIN new} \ {0} :
          g = [at |-> At(now, t), rank |-> 2, type |-> "REMOVE_AUCTIONS",
               objs |-> EndingAt(new, base, t)]
    BY <1>14, Zenon DEF Removals
  <2> QED
    BY <2>1 DEF EndingAt
<1>15. removals \subseteq Ev2
  <2>1. \A k \in DOMAIN new : new[k] \in AuctionType
    BY <1>10, ElementOfSeq, LenProperties
  <2>2. \A k \in DOMAIN new : new[k].stop \in Int
    BY <2>1 DEF AuctionType
  <2> QED
    BY <1>12, <2>2, RemovalsType
<1>16. \A k \in DOMAIN new : \E n \in Auctions : new[k] = NewAuction(n)
  BY <1>7, <1>10 DEF new
<1>17. base \in Int /\ \A k \in DOMAIN new : k \in Int
  <2>1. aucs \in Seq(AuctionType)
    BY DEF TypeOK
  <2> QED
    BY <1>10, <2>1, LenProperties
<1>18. ASSUME NEW g \in removals, NEW k \in DOMAIN new, base + k \in g.objs
       PROVE  new[k].stop # 0 /\ g.at = At(now, new[k].stop)
  <2>1. PICK t \in {new[j].stop : j \in DOMAIN new} \ {0} :
          g = [at |-> At(now, t), rank |-> 2, type |-> "REMOVE_AUCTIONS",
               objs |-> EndingAt(new, base, t)]
    BY <1>18, Zenon DEF Removals
  <2>2. g.at = At(now, t) /\ g.objs = EndingAt(new, base, t) /\ t # 0
    BY <2>1
  <2>3. PICK j \in DOMAIN new : base + k = base + j /\ new[j].stop = t
    BY <1>18, <2>2 DEF EndingAt
  <2>4. j = k
    BY <1>17, <2>3
  <2> QED
    BY <2>2, <2>3, <2>4
<1>19. ASSUME NEW k \in DOMAIN new
       PROVE  \E g \in activations : base + k \in g.objs
  <2>1. base + k \in ids
    BY <1>19
  <2> HIDE DEF ids
  <2>2. activation.objs = ids /\ activation \in activations
    BY <2>1
  <2> QED
    BY <2>1, <2>2
<1>20. ASSUME NEW k \in DOMAIN new, new[k].stop # 0
       PROVE  \E g \in removals : base + k \in g.objs
  <2> DEFINE t == new[k].stop
             g == [at |-> At(now, t), rank |-> 2, type |-> "REMOVE_AUCTIONS",
                   objs |-> EndingAt(new, base, t)]
  <2>1. g \in removals
    BY <1>20 DEF Removals
  <2>2. base + k \in EndingAt(new, base, t)
    BY <1>20 DEF EndingAt
  <2> QED
    BY <2>1, <2>2
<1> DEFINE S == activations \cup removals
<1> HIDE DEF activations, removals
<1>21. S \subseteq Ev2
  BY <1>13, <1>15
<1>22. \A g \in S : /\ g.type \in AuctionLists
                    /\ \A i \in g.objs : \E k \in DOMAIN new : i = Len(aucs) + k
  BY <1>13, <1>14 DEF AuctionLists
<1>23. \A g, h \in S :
         g.type = "ACTIVATE_AUCTIONS" /\ h.type = "ACTIVATE_AUCTIONS" => g = h
  BY <1>13, <1>14
<1>24. /\ \A k \in DOMAIN new : new[k].state = "valid" /\ Installed(new[k].name) = {}
       /\ \A k, l \in DOMAIN new : new[k].name = new[l].name => k = l
  BY <1>7, <1>8, <1>10, <1>11
<1>25. queue' = Enqueue(Rest(e), S)
  BY <1>3
<1>26. /\ \A g \in S : g.type = "REMOVE_AUCTIONS" =>
            \A k \in DOMAIN new : Len(aucs) + k \in g.objs =>
              new[k].stop # 0 /\ g.at = At(now, new[k].stop)
       /\ \A k \in DOMAIN new :
            /\ \E g \in S : g.type = "ACTIVATE_AUCTIONS" /\ Len(aucs) + k \in g.objs
            /\ new[k].stop # 0 =>
                 \E g \in S : g.type = "REMOVE_AUCTIONS" /\ Len(aucs) + k \in g.objs
  <2>1. \A g \in activations : g.type # "REMOVE_AUCTIONS"
    BY <1>13
  <2>2. \A g \in removals : g.type = "REMOVE_AUCTIONS"
    BY <1>14
  <2> HIDE DEF activation, ids
  <2> QED
    BY <1>13, <1>18, <1>19, <1>20, <2>1, <2>2
<1> HIDE DEF S, base
<1>27. InstallsAuctions(e, new, S)
  BY <1>3, <1>10, <1>21, <1>22, <1>23, <1>24, <1>25, <1>16, <1>26 DEF InstallsAuctions
<1> QED
  BY <1>27

\* handleAddAuctions keeps the types.
LEMMA AddAuctionsType ==
  ASSUME TypeOK, NEW e \in queue, HandleAddAuctions(e)
  PROVE  TypeOK'
<1>1. UNCHANGED <<now, objs, proc, live, stored, up, inputs, made, sent>>
  BY DEF HandleAddAuctions
<1>2. CASE ~Verified(e.names)
  BY <1>1, <1>2, RestType DEF HandleAddAuctions, Dropped, TypeOK
<1>3. CASE Verified(e.names)
  <2>1. PICK new, S : InstallsAuctions(e, new, S)
    BY <1>3, AddAuctionsInstalls
  <2>2. /\ aucs' \in Seq(AuctionType)
        /\ DOMAIN aucs \subseteq DOMAIN aucs'
    BY <2>1, Appended DEF TypeOK, InstallsAuctions
  <2>3. Rest(e) \subseteq EventType(DOMAIN aucs', DOMAIN objs)
    BY <2>2, RestType, EventMonotone
  <2>4. queue' \subseteq EventType(DOMAIN aucs', DOMAIN objs)
    BY <2>1, <2>3, EnqueueType DEF InstallsAuctions
  <2>5. DOMAIN proc \subseteq DOMAIN aucs'
    BY <2>2 DEF TypeOK
  <2> QED
    BY <1>1, <2>2, <2>4, <2>5 DEF TypeOK
<1> QED
  BY <1>2, <1>3

\* The first execution of an auction is a well-formed event.
LEMMA FirstPushType ==
  ASSUME TypeOK, NEW i \in DOMAIN aucs
  PROVE  FirstPush(i) \in EventType(DOMAIN aucs, DOMAIN objs)
<1> DEFINE a == aucs[i]
           spec == AucSpec[a.name]
           t == At(now, a.start)
           at == IF spec.align THEN Align(t, spec.ival) ELSE t
<1>1. a \in AuctionType /\ i \in Nat
  BY ElementOfSeq, LenProperties DEF TypeOK
<1>2. a.name \in Auctions /\ a.start \in Int /\ a.stop \in Nat
  BY <1>1 DEF AuctionType
<1>3. spec.ival \in Nat \ {0}
  BY <1>2, SpecAssumption
<1>4. t \in Int
  BY <1>2, NowInt, TimesInt
<1>5. at \in Int
  <2> HIDE DEF t, spec
  <2> QED
    BY <1>3, <1>4, AlignInt
<1>6. FirstPush(i) = [at |-> at, rank |-> i, type |-> "PUSH_EXECUTION",
                      index |-> i, stop |-> a.stop, ival |-> spec.ival]
  BY DEF FirstPush
<1>7. FirstPush(i) \in [at : Int, rank : Nat, type : {"PUSH_EXECUTION"},
                        index : DOMAIN aucs, stop : Nat, ival : Nat \ {0}]
  <2> HIDE DEF at, spec, a
  <2> QED
    BY <1>1, <1>2, <1>3, <1>5, <1>6
<1> QED
  BY <1>7 DEF EventType

\* handleActivateAuction keeps the types, wherever the loading of modules
\* stops.
LEMMA ActivateAuctionsType ==
  ASSUME TypeOK, NEW e \in queue, HandleActivateAuctions(e)
  PROVE  TypeOK'
<1> DEFINE loads(i) == AucSpec[aucs[i].name].loads
           opened == {i \in e.objs : \A j \in e.objs : j <= i => loads(j)}
           Ev == EventType(DOMAIN aucs, DOMAIN objs)
<1>1. e.type = "ACTIVATE_AUCTIONS"
  BY DEF HandleActivateAuctions, Handling
<1>2. opened \subseteq DOMAIN aucs
  BY <1>1, RestType, EventShape DEF AuctionLists
<1>3. /\ proc' = [i \in DOMAIN proc \cup opened |->
                    IF i \in opened THEN {} ELSE proc[i]]
      /\ queue' = Enqueue(Rest(e), {FirstPush(i) : i \in opened})
      /\ aucs' = IF opened = e.objs THEN WithState(aucs, e.objs, "active") ELSE aucs
      /\ UNCHANGED <<now, objs, live, stored, up, inputs, made, sent>>
  BY DEF HandleActivateAuctions
<1> HIDE DEF opened
<1>4. /\ DOMAIN proc' \subseteq DOMAIN aucs
      /\ proc' \in [DOMAIN proc' -> SUBSET DOMAIN objs]
  BY <1>2, <1>3 DEF TypeOK
<1>5. {FirstPush(i) : i \in opened} \subseteq Ev
  BY <1>2, FirstPushType
<1>6. queue' \subseteq Ev
  BY <1>3, <1>5, RestType, EnqueueType
<1>7. aucs' \in Seq(AuctionType) /\ DOMAIN aucs' = DOMAIN aucs
  BY <1>3, WithStateAuctionType DEF TypeOK, Installable
<1> QED
  BY <1>3, <1>4, <1>6, <1>7 DEF TypeOK

\* handleRemoveAuctions keeps the types.
LEMMA RemoveAuctionsType ==
  ASSUME TypeOK, NEW e \in queue, HandleRemoveAuctions(e)
  PROVE  TypeOK'
<1> DEFINE matched == ProcessesOf({aucs[i].name : i \in e.objs})
           gone == IF matched = {} THEN {} ELSE matched \ Overlooked(matched)
           Ev == EventType(DOMAIN aucs, DOMAIN objs)
<1>1. /\ proc' = [i \in DOMAIN proc \ gone |-> proc[i]]
      /\ queue' = DelAuctionEvents(DelProcessExecutionEvents(Rest(e), gone), e.objs)
      /\ aucs' = WithState(aucs, e.objs, "done")
      /\ UNCHANGED <<now, objs, live, stored, up, inputs, made, sent>>
  BY DEF HandleRemoveAuctions
<1> HIDE DEF gone
<1>2. /\ DOMAIN proc' \subseteq DOMAIN aucs
      /\ proc' \in [DOMAIN proc' -> SUBSET DOMAIN objs]
  BY <1>1 DEF TypeOK
<1>3. DelProcessExecutionEvents(Rest(e), gone) \subseteq Ev
  BY RestType, DelProcessExecutionEventsType
<1>4. queue' \subseteq Ev
  BY <1>1, <1>3, DelAuctionEventsType
<1>5. aucs' \in Seq(AuctionType) /\ DOMAIN aucs' = DOMAIN aucs
  BY <1>1, WithStateAuctionType DEF TypeOK, Installable
<1> QED
  BY <1>1, <1>2, <1>4, <1>5 DEF TypeOK

\* What the module returns for a bid is a bidding object that is not
\* installed.
LEMMA AllocationType ==
  ASSUME TypeOK, NEW b \in DOMAIN objs, NEW start \in Int, NEW stop \in Int
  PROVE  Allocation(b, start, stop) \in ObjectType({"new"})
<1>1. objs[b] \in ObjectType(Installable)
  BY ElementOfSeq, LenProperties DEF TypeOK
<1> QED
  BY <1>1 DEF Allocation, ObjectType

\* What an execution produces: allocations of the bids in its process, for its
\* window.
Made(e, m) == \E o \in proc[e.index] : m = Allocation(o, Sec(e.at), WindowStop(e))

\* The queue after execution e: q holds what was left and the allocations, and
\* the execution may be back in it.
AfterExecution(e, q) ==
  /\ q \subseteq EventType(DOMAIN aucs, DOMAIN objs)
  /\ Rest(e) \subseteq q
  /\ \A f \in q : \/ f \in Rest(e)
                  \/ /\ f.type = "ADD_GENERATED_BIDDING_OBJECTS"
                     /\ \A k \in DOMAIN f.allocs : Made(e, f.allocs[k])
  /\ queue' = q \/ queue' = Reschedule(q, e, now)

\* The queue an execution leaves, with its allocations and its next run, is
\* well-formed.
LEMMA PushExecutionQueue ==
  ASSUME TypeOK, NEW e \in queue, HandlePushExecution(e)
  PROVE  /\ made' \subseteq ObjectType({"new"})
         /\ made \subseteq made'
         /\ \A m \in made' : m \in made \/ Made(e, m)
         /\ \E q : AfterExecution(e, q)
<1> DEFINE start == Sec(e.at)
           stop == WindowStop(e)
           requeue(q) == IF stop < e.stop THEN Reschedule(q, e, now) ELSE q
           Al == ObjectType({"new"})
           Ev == EventType(DOMAIN aucs, DOMAIN objs)
<1>1. e.type = "PUSH_EXECUTION" /\ e.index \in DOMAIN proc
  BY DEF HandlePushExecution, Handling
<1>2. /\ e \in Ev /\ Rest(e) \subseteq Ev
      /\ e.at \in Int /\ e.stop \in Nat /\ e.ival \in Nat \ {0}
  BY <1>1, RestType, EventShape
<1>3. start \in Int /\ stop \in Int
  <2>1. Sec(e.at) \in Int
    BY <1>2, TimesInt
  <2>2. WindowStop(e) \in {Sec(e.at) + e.ival, e.stop}
    BY DEF WindowStop, Sooner
  <2> QED
    BY <1>2, <2>1, <2>2
<1>4. CASE proc[e.index] = {}
  <2>1. queue' = requeue(Rest(e)) /\ made' = made
    BY <1>4 DEF HandlePushExecution
  <2>2. made' \subseteq Al
    BY <2>1 DEF TypeOK
  <2>3. queue' = Rest(e) \/ queue' = Reschedule(Rest(e), e, now)
    BY <2>1
  <2>4. Rest(e) \subseteq Ev /\ \A f \in Rest(e) : f \in Rest(e)
    BY <1>2
  <2>5. AfterExecution(e, Rest(e))
    BY <2>3, <2>4 DEF AfterExecution
  <2> QED
    BY <2>1, <2>2, <2>5
<1>5. CASE proc[e.index] # {}
  <2>1. PICK order \in Arrangements(proc[e.index]) :
          LET allocs == [k \in DOMAIN order |-> Allocation(order[k], start, stop)]
              generated == [at |-> now, rank |-> 1,
                            type |-> "ADD_GENERATED_BIDDING_OBJECTS",
                            allocs |-> allocs]
          IN  /\ queue' = requeue(Enqueue(Rest(e), {generated}))
              /\ made' = made \cup {allocs[k] : k \in DOMAIN allocs}
    BY <1>5, Zenon DEF HandlePushExecution
  <2> DEFINE allocs == [k \in DOMAIN order |-> Allocation(order[k], start, stop)]
             generated == [at |-> now, rank |-> 1,
                           type |-> "ADD_GENERATED_BIDDING_OBJECTS",
                           allocs |-> allocs]
  <2>2. proc[e.index] \subseteq DOMAIN objs
    BY <1>1 DEF TypeOK
  <2>3. IsFiniteSet(proc[e.index])
    <3>1. objs \in Seq(ObjectType(Installable))
      BY DEF TypeOK
    <3>2. DOMAIN objs = 1 .. Len(objs) /\ Len(objs) \in Nat
      BY <3>1, LenProperties
    <3>3. IsFiniteSet(DOMAIN objs)
      BY <3>2, FS_Interval
    <3> QED
      BY <2>2, <3>3, FS_Subset
  <2>4. order \in Seq(proc[e.index]) /\ order # << >>
    BY <1>5, <2>3, ArrangementsAreSeqs
  <2>5. \A k \in DOMAIN order : order[k] \in proc[e.index] /\ order[k] \in DOMAIN objs
    BY <2>2, <2>4, ElementOfSeq, LenProperties
  <2>6. \A k \in DOMAIN allocs : Made(e, allocs[k])
    BY <2>5 DEF Made
  <2> HIDE DEF start, stop
  <2>7. allocs \in [DOMAIN order -> Al]
    BY <1>3, <2>5, AllocationType
  <2>8. allocs \in Seq(Al) /\ DOMAIN allocs = DOMAIN order
    <3> HIDE DEF allocs
    <3> QED
      BY <2>4, <2>7, Mapped
  <2>9. allocs # << >>
    <3> HIDE DEF allocs
    <3>1. Len(order) # 0 /\ Len(order) \in Nat /\ DOMAIN order = 1 .. Len(order)
      BY <2>4, EmptySeq, LenProperties
    <3>2. Len(allocs) \in Nat /\ DOMAIN allocs = 1 .. Len(allocs)
      BY <2>8, LenProperties
    <3>3. 1 \in DOMAIN allocs
      BY <2>8, <3>1
    <3>4. Len(allocs) # 0
      BY <3>2, <3>3
    <3> QED
      BY <2>8, <3>4, EmptySeq
  <2>10. /\ queue' = requeue(Enqueue(Rest(e), {generated}))
        /\ made' = made \cup {allocs[k] : k \in DOMAIN allocs}
    BY <2>1
  <2>11. generated \in Ev
    <3> DEFINE T == Seq(Al) \ {<< >>}
    <3>1. allocs \in T
      BY <2>8, <2>9
    <3> HIDE DEF allocs, T
    <3>2. generated \in [at : Int, rank : Nat,
                         type : {"ADD_GENERATED_BIDDING_OBJECTS"}, allocs : T]
      BY <3>1, NowInt
    <3> HIDE DEF generated
    <3> QED
      BY <3>2 DEF EventType, T
  <2>12. made' \subseteq Al
    BY <2>7, <2>8, <2>10 DEF TypeOK
  <2>13. /\ made \subseteq made'
         /\ \A m \in made' : m \in made \/ Made(e, m)
    <3> HIDE DEF allocs
    <3> QED
      BY <2>10, <2>6
  <2>14. generated.type = "ADD_GENERATED_BIDDING_OBJECTS" /\ generated.allocs = allocs
    OBVIOUS
  <2> HIDE DEF allocs, generated
  <2>15. Enqueue(Rest(e), {generated}) \subseteq Ev
    BY <1>2, <2>11, EnqueueType
  <2>16. \A f \in Enqueue(Rest(e), {generated}) :
            \/ f \in Rest(e)
            \/ /\ f.type = "ADD_GENERATED_BIDDING_OBJECTS"
               /\ \A k \in DOMAIN f.allocs : Made(e, f.allocs[k])
    <3> SUFFICES ASSUME NEW f \in Enqueue(Rest(e), {generated}), f \notin Rest(e)
                 PROVE  /\ f.type = "ADD_GENERATED_BIDDING_OBJECTS"
                        /\ f.allocs = allocs
      BY <2>6
    <3>1. f = Ranked(generated, LastRank(Rest(e), generated.at) + generated.rank)
      BY EnqueueMembers
    <3>2. \A g \in Ev : g.rank \in Nat
      BY EventShape
    <3>3. LastRank(Rest(e), generated.at) + generated.rank \in Nat
      BY <1>2, <2>11, <3>2, LastRankNat
    <3> QED
      BY <2>11, <2>14, <3>1, <3>3, RankedType
  <2>17. \/ queue' = Enqueue(Rest(e), {generated})
         \/ queue' = Reschedule(Enqueue(Rest(e), {generated}), e, now)
    BY <2>10
  <2>18. AfterExecution(e, Enqueue(Rest(e), {generated}))
    BY <2>15, <2>16, <2>17, EnqueueKeeps DEF AfterExecution
  <2> QED
    BY <2>12, <2>18, <2>13
<1> QED
  BY <1>4, <1>5

\* handlePushExecution keeps the types.
LEMMA PushExecutionType ==
  ASSUME TypeOK, NEW e \in queue, HandlePushExecution(e)
  PROVE  TypeOK'
<1> DEFINE Ev == EventType(DOMAIN aucs, DOMAIN objs)
<1>1. e.type = "PUSH_EXECUTION" /\ e \in Ev
  BY RestType DEF HandlePushExecution, Handling
<1>2. made' \subseteq ObjectType({"new"})
  BY PushExecutionQueue
<1>3. queue' \subseteq Ev
  <2>1. PICK q : AfterExecution(e, q)
    BY PushExecutionQueue
  <2> QED
    BY <1>1, <2>1, NowInt, RescheduleType DEF AfterExecution
<1>4. UNCHANGED <<now, aucs, objs, proc, live, stored, up, inputs, sent>>
  BY DEF HandlePushExecution
<1> QED
  BY <1>2, <1>3, <1>4 DEF TypeOK

\* The event of a file or message is well-formed.
LEMMA InputEventType ==
  ASSUME TypeOK, NEW i \in inputs
  PROVE  InputEvent(i) \in EventType(DOMAIN aucs, DOMAIN objs)
<1>1. i \in InputType
  BY InputsAssumption DEF TypeOK
<1>2. CASE i.type = "ADD_AUCTIONS"
  <2>1. i.names \in Seq(Auctions)
    BY <1>1, <1>2 DEF InputType
  <2>2. InputEvent(i) = [at |-> now, rank |-> 1, type |-> i.type, names |-> i.names]
    BY <1>2 DEF InputEvent
  <2> QED
    BY <1>2, <2>1, <2>2, NowInt DEF EventType
<1>3. CASE i.type \in {"ADD_BIDDING_OBJECTS", "AUCTION_INTERACTION"}
  <2>1. i.sess \in Sessions \cup {NoSession} /\ i.bids \in Seq(Bids)
    BY <1>1, <1>3 DEF InputType
  <2>2. InputEvent(i) = [at |-> now, rank |-> 1, type |-> i.type,
                         sess |-> i.sess, bids |-> i.bids]
    BY <1>3 DEF InputEvent
  <2> QED
    BY <1>3, <2>1, <2>2, NowInt DEF EventType
<1>4. CASE i.type \in {"CREATE_SESSION", "REMOVE_SESSION"}
  <2>1. i.sess \in Sessions
    BY <1>1, <1>4 DEF InputType
  <2>2. InputEvent(i) = [at |-> now, rank |-> 1, type |-> i.type, sess |-> i.sess]
    BY <1>4 DEF InputEvent
  <2> QED
    BY <1>4, <2>1, <2>2, NowInt DEF EventType
<1> QED
  BY <1>1, <1>2, <1>3, <1>4 DEF InputType

\* An arrival keeps the types.
LEMMA ArriveType ==
  ASSUME TypeOK, NEW i \in inputs, Arrive(i)
  PROVE  TypeOK'
<1> DEFINE Ev == EventType(DOMAIN aucs, DOMAIN objs)
<1>1. {InputEvent(i)} \subseteq Ev /\ queue \subseteq Ev
  BY InputEventType DEF TypeOK
<1>2. queue' \subseteq Ev
  BY <1>1, EnqueueType DEF Arrive
<1> QED
  BY <1>2 DEF Arrive, TypeOK

\* The passing of time keeps the types.
LEMMA TickType ==
  ASSUME TypeOK, Tick
  PROVE  TypeOK'
BY BoundsAssumption DEF Tick, TypeOK

\* The empty daemon has the right types.
LEMMA InitType ==
  ASSUME Init
  PROVE  TypeOK
<1>1. << >> \in Seq(AuctionType) /\ << >> \in Seq(ObjectType(Installable))
  BY EmptySeq
<1> QED
  BY <1>1, BoundsAssumption DEF Init, TypeOK

\* The type invariant is inductive.
LEMMA TypeStep ==
  ASSUME TypeOK, [Next]_vars
  PROVE  TypeOK'
<1>1. ASSUME NEW e \in queue, HandleEvent(e) PROVE TypeOK'
  BY <1>1, AddAuctionsType, ActivateAuctionsType, PushExecutionType,
     PushExecutionErrorType, RemoveAuctionsType, AddBiddingObjectsType,
     AuctionInteractionType, ActivateBiddingObjectsType,
     AddBiddingObjectsAuctionType, RemoveBiddingObjectsType,
     AddGeneratedBiddingObjectsType, TransmitBiddingObjectsType,
     CreateSessionType, RemoveSessionType
     DEF HandleEvent
<1>2. ASSUME NEW i \in inputs, Arrive(i) PROVE TypeOK'
  BY <1>2, ArriveType
<1>3. CASE Tick
  BY <1>3, TickType
<1>4. CASE UNCHANGED vars
  BY <1>4 DEF vars, TypeOK
<1> QED
  BY <1>1, <1>2, <1>3, <1>4 DEF Next

\* The type invariant holds in every reachable state: in particular, the
\* numbers that events, processes and histories keep of auctions and bidding
\* objects are numbers that AuctionManager and BiddingObjectManager have given
\* out, and no event that EventScheduler holds has an empty list.
THEOREM TypeCorrect == Spec => []TypeOK
<1>1. Init => TypeOK
  BY InitType
<1>2. TypeOK /\ [Next]_vars => TypeOK'
  BY TypeStep
<1> QED
  BY <1>1, <1>2, PTL DEF Spec

-----------------------------------------------------------------------------
(***************************************************************************)
(* The invariant.                                                          *)
(***************************************************************************)

\* What is proved of auctions, and with bidding objects.
AuctionPart ==
  /\ OneExecutionPerProcess
  /\ ActiveHasProcess
  /\ ActivationsCurrent
  /\ RemovalsCurrent
  /\ NamesUnique

\* The invariant of auctions and activations.
IInv == TypeOK /\ AuctionPart /\ BidActivationsCurrent

-----------------------------------------------------------------------------
(***************************************************************************)
(* What the operations of the queue do to its members.                     *)
(***************************************************************************)

\* The events that hold a list of objects.
ListTypes == AuctionLists \cup BidLists

\* The event that addEvent makes of f.
Added(q, f) == Ranked(f, LastRank(q, f.at) + f.rank)

\* It is f but for its rank.
LEMMA AddedEvent ==
  ASSUME NEW A, NEW O, NEW q, NEW f \in EventType(A, O), q \subseteq EventType(A, O)
  PROVE  /\ Added(q, f).type = f.type
         /\ f.type \in ListTypes => Added(q, f).objs = f.objs
         /\ f.type = "PUSH_EXECUTION" => Added(q, f).index = f.index
<1> DEFINE r == LastRank(q, f.at) + f.rank
<1>1. \A g \in EventType(A, O) : g.rank \in Nat
  BY EventShape
<1>2. r \in Nat
  BY <1>1, LastRankNat
<1>3. Added(q, f) = Ranked(f, r)
  BY DEF Added
<1> HIDE DEF r
<1>4. /\ Ranked(f, r).type = f.type
      /\ f.type \in AuctionLists \cup BidLists \cup {"ADD_BIDDING_OBJECTS_AUCTION"}
           => Ranked(f, r).objs = f.objs
      /\ f.type = "PUSH_EXECUTION" => Ranked(f, r).index = f.index
  BY <1>2, RankedType
<1> QED
  BY <1>3, <1>4 DEF ListTypes

\* An event of Enqueue(q, S) was in q or is made of one of S.
LEMMA EnqueuedEvent ==
  ASSUME NEW A, NEW O, NEW q, NEW S, NEW e \in Enqueue(q, S),
         q \subseteq EventType(A, O), S \subseteq EventType(A, O)
  PROVE  \/ e \in q
         \/ \E f \in S : /\ e = Added(q, f)
                         /\ e.type = f.type
                         /\ e.type \in ListTypes => e.objs = f.objs
                         /\ e.type = "PUSH_EXECUTION" => e.index = f.index
<1>1. e \in q \/ \E f \in S : e = Added(q, f)
  BY EnqueueMembers DEF Added
<1> QED
  BY <1>1, AddedEvent

\* Deleting bidding objects takes them from the lists of BidLists and changes
\* no event of an auction.
LEMMA DeletedBidEvent ==
  ASSUME NEW A, NEW O, NEW q, NEW S, NEW First, q \subseteq EventType(A, O),
         NEW e \in DelBiddingObjectEvents(q, S, First)
  PROVE  /\ e.type \in AuctionLists \cup {"PUSH_EXECUTION"} => e \in q
         /\ e.type \in BidLists =>
              \E f \in q : f.type = e.type /\ e.objs = f.objs \ S
<1> DEFINE Matches(f) == f.type = "ADD_GENERATED_BIDDING_OBJECTS" /\ First \in S
           Emptied(f) == \/ f.type \in BidLists /\ f.objs \subseteq S
                         \/ Matches(f) /\ Len(f.allocs) = 1
           Strip(f) == IF f.type \in BidLists THEN [f EXCEPT !.objs = @ \ S]
                       ELSE IF Matches(f) THEN [f EXCEPT !.allocs = Tail(@)]
                                          ELSE f
<1>1. PICK f \in {g \in q : ~Emptied(g)} : e = Strip(f)
  BY Zenon DEF DelBiddingObjectEvents
<1>2. CASE f.type \in BidLists
  <2> DEFINE R == [at : Int, rank : Nat,
                   type : BidLists \cup {"ADD_BIDDING_OBJECTS_AUCTION"},
                   objs : ListOf(O)]
  <2>1. f \in R
    BY <1>2 DEF EventType, AuctionLists, BidLists
  <2>2. e = [f EXCEPT !.objs = @ \ S]
    BY <1>1, <1>2
  <2>3. e.type = f.type /\ e.objs = f.objs \ S
    BY <2>1, <2>2
  <2> QED
    BY <1>2, <2>3 DEF AuctionLists, BidLists
<1>3. CASE f.type \notin BidLists /\ Matches(f)
  <2> DEFINE R == [at : Int, rank : Nat, type : {"ADD_GENERATED_BIDDING_OBJECTS"},
                   allocs : Seq(ObjectType({"new"})) \ {<< >>}]
  <2>1. f \in R
    BY <1>3 DEF EventType, AuctionLists, BidLists
  <2>2. e = [f EXCEPT !.allocs = Tail(@)]
    BY <1>1, <1>3
  <2>3. e.type = "ADD_GENERATED_BIDDING_OBJECTS"
    BY <2>1, <2>2
  <2> QED
    BY <2>3 DEF AuctionLists, BidLists
<1>4. CASE f.type \notin BidLists /\ ~Matches(f)
  BY <1>1, <1>4
<1> QED
  BY <1>2, <1>3, <1>4

\* Deleting auctions takes them from the lists of AuctionLists and changes no
\* other event.
LEMMA DeletedAuctionEvent ==
  ASSUME NEW A, NEW O, NEW q, NEW S, q \subseteq EventType(A, O),
         NEW e \in DelAuctionEvents(q, S)
  PROVE  /\ e.type \notin AuctionLists => e \in q
         /\ e.type \in AuctionLists =>
              \E f \in q : /\ f.type = e.type /\ e.objs = f.objs \ S
                           /\ e = [f EXCEPT !.objs = @ \ S]
<1>1. PICK f \in q :
        e = IF f.type \in AuctionLists THEN [f EXCEPT !.objs = @ \ S] ELSE f
  BY Zenon DEF DelAuctionEvents
<1>2. CASE f.type \in AuctionLists
  <2>1. f \in [at : Int, rank : Nat, type : AuctionLists, objs : ListOf(A)]
    BY <1>2 DEF EventType, AuctionLists, BidLists
  <2>2. e = [f EXCEPT !.objs = @ \ S]
    BY <1>1, <1>2
  <2>3. e.type = f.type /\ e.objs = f.objs \ S
    BY <2>1, <2>2
  <2> QED
    BY <1>2, <2>2, <2>3
<1>3. CASE f.type \notin AuctionLists
  BY <1>1, <1>3
<1> QED
  BY <1>2, <1>3

-----------------------------------------------------------------------------
(***************************************************************************)
(* Steps that leave the auctions alone.                                    *)
(***************************************************************************)

\* The events of auctions.
AuctionEvents == AuctionLists \cup {"PUSH_EXECUTION"}

\* The numbers in the lists of auctions.
LEMMA ListedAuctions ==
  ASSUME TypeOK, NEW e \in queue, e.type \in AuctionLists
  PROVE  e.objs \subseteq DOMAIN aucs
BY RestType, EventShape

\* The numbers in the lists of bidding objects.
LEMMA ListedObjects ==
  ASSUME TypeOK, NEW e \in queue, e.type \in BidLists
  PROVE  e.objs \subseteq DOMAIN objs
BY RestType, EventShape

\* A step that adds no event of an auction and changes neither the names and
\* states of the auctions nor the set of processes.
LEMMA AuctionPartKept ==
  ASSUME TypeOK, AuctionPart,
         \A e \in queue' : e.type \in AuctionEvents => e \in queue,
         DOMAIN proc' = DOMAIN proc, DOMAIN aucs' = DOMAIN aucs,
         \A i \in DOMAIN aucs : /\ aucs'[i].name = aucs[i].name
                                /\ aucs'[i].state = aucs[i].state
  PROVE  AuctionPart'
<1> USE DEF AuctionEvents, AuctionLists
<1>1. OneExecutionPerProcess'
  BY DEF OneExecutionPerProcess, AuctionPart, Pending
<1>2. ActiveHasProcess'
  BY DEF ActiveHasProcess, AuctionPart
<1>3. ActivationsCurrent'
  BY ListedAuctions DEF ActivationsCurrent, AuctionPart, Pending
<1>4. RemovalsCurrent'
  BY ListedAuctions DEF RemovalsCurrent, AuctionPart, Pending
<1>5. NamesUnique'
  BY DEF NamesUnique, AuctionPart
<1> QED
  BY <1>1, <1>2, <1>3, <1>4, <1>5 DEF AuctionPart

\* A step that adds no activation of bidding objects and changes none of them.
LEMMA BidActivationsKept ==
  ASSUME BidActivationsCurrent, objs' = objs,
         \A e \in queue' : e.type = "ACTIVATE_BIDDING_OBJECTS" => e \in queue
  PROVE  BidActivationsCurrent'
BY DEF BidActivationsCurrent, Pending

\* A handler that only takes its event from the queue.
LEMMA DroppedSafe ==
  ASSUME IInv, NEW e \in queue, queue' = Rest(e), UNCHANGED <<aucs, objs>>,
         DOMAIN proc' = DOMAIN proc
  PROVE  AuctionPart' /\ BidActivationsCurrent'
BY AuctionPartKept, BidActivationsKept DEF IInv, Rest

\* handleAddBiddingObjectsAuction adds no process and no list.
LEMMA AddBiddingObjectsAuctionSafe ==
  ASSUME IInv, NEW e \in queue, HandleAddBiddingObjectsAuction(e)
  PROVE  AuctionPart' /\ BidActivationsCurrent'
<1>1. DOMAIN proc' = DOMAIN proc
  BY Zenon DEF HandleAddBiddingObjectsAuction
<1> QED
  BY <1>1, DroppedSafe DEF HandleAddBiddingObjectsAuction, Dropped

\* handleCreateSession changes neither the names nor the states of auctions.
LEMMA CreateSessionSafe ==
  ASSUME IInv, NEW e \in queue, HandleCreateSession(e)
  PROVE  AuctionPart' /\ BidActivationsCurrent'
<1> DEFINE names == {aucs[i].name : i \in Applicable(e.sess)}
<1>1. aucs' = [i \in DOMAIN aucs |->
                 IF aucs[i].name \in names /\ aucs[i].state # "done"
                 THEN [aucs[i] EXCEPT !.sessions = @ \cup {e.sess}]
                 ELSE aucs[i]]
  BY DEF HandleCreateSession
<1>2. \A i \in DOMAIN aucs : aucs[i] \in AuctionType
  BY ElementOfSeq, LenProperties DEF IInv, TypeOK
<1>3. DOMAIN aucs' = DOMAIN aucs
  BY <1>1
<1>4. ASSUME NEW i \in DOMAIN aucs
      PROVE  aucs'[i].name = aucs[i].name /\ aucs'[i].state = aucs[i].state
  <2> HIDE DEF names
  <2>1. aucs'[i] \in {aucs[i], [aucs[i] EXCEPT !.sessions = @ \cup {e.sess}]}
    BY <1>1
  <2> QED
    BY <1>2, <2>1 DEF AuctionType
<1>5. queue' \subseteq queue /\ objs' = objs /\ proc' = proc
  BY DEF HandleCreateSession, Dropped, Rest
<1> QED
  BY <1>3, <1>4, <1>5, AuctionPartKept, BidActivationsKept DEF IInv

\* The events that a manager schedules for bidding objects it has appended.
LEMMA ScheduledEvent ==
  ASSUME NEW new, NEW base, NEW f \in ScheduleObjects(new, base)
  PROVE  /\ f.type \in {"ACTIVATE_BIDDING_OBJECTS", "REMOVE_BIDDING_OBJECTS"}
         /\ f.type = "ACTIVATE_BIDDING_OBJECTS" =>
              \A o \in f.objs : \E k \in DOMAIN new : o = base + k
<1>1. CASE f \in Activations(new, base)
  <2>1. PICK t \in {StartOf(new[j].start) : j \in DOMAIN new} :
          f = [at |-> At(now, t), rank |-> 1, type |-> "ACTIVATE_BIDDING_OBJECTS",
               objs |-> StartingAt(new, base, t)]
    BY <1>1, Zenon DEF Activations
  <2> QED
    BY <2>1 DEF StartingAt
<1>2. CASE f \in Removals("REMOVE_BIDDING_OBJECTS", new, base)
  <2>1. f.type = "REMOVE_BIDDING_OBJECTS"
    BY <1>2 DEF Removals
  <2> QED
    BY <2>1
<1> QED
  BY <1>1, <1>2 DEF ScheduleObjects

\* f concerns no auction, and if it activates objects, then only those of new.
ForNew(f, new, base) ==
  /\ f.type \notin AuctionEvents
  /\ f.type = "ACTIVATE_BIDDING_OBJECTS" =>
       \A o \in f.objs : \E k \in DOMAIN new : o = base + k

\* The queue once they, and more that concern no auction, are added.
LEMMA ScheduledQueue ==
  ASSUME NEW A, NEW O, NEW q, NEW new, NEW base, NEW more,
         q \subseteq EventType(A, O), more \subseteq EventType(A, O),
         ScheduleObjects(new, base) \subseteq EventType(A, O),
         \A g \in more : g.type \notin AuctionEvents \cup {"ACTIVATE_BIDDING_OBJECTS"},
         NEW f \in Enqueue(q, ScheduleObjects(new, base) \cup more), f \notin q
  PROVE  ForNew(f, new, base)
<1> DEFINE S == ScheduleObjects(new, base) \cup more
<1>1. PICK g \in S : f.type = g.type /\ (f.type \in ListTypes => f.objs = g.objs)
  <2>1. S \subseteq EventType(A, O) /\ f \in Enqueue(q, S)
    OBVIOUS
  <2> HIDE DEF S
  <2> QED
    BY <2>1, EnqueuedEvent
<1>2. CASE g \in more
  BY <1>1, <1>2 DEF ForNew
<1>3. CASE g \in ScheduleObjects(new, base)
  BY <1>1, <1>3, ScheduledEvent DEF ForNew, ListTypes, AuctionEvents, AuctionLists, BidLists
<1> QED
  BY <1>2, <1>3

\* Adding bidding objects: the manager gives out new numbers, and the objects
\* that have them are not done.
LEMMA InstalledSafe ==
  ASSUME IInv, NEW e \in queue, NEW new, NEW more, Installs(e, new, more),
         UNCHANGED <<aucs, proc>>
  PROVE  AuctionPart' /\ BidActivationsCurrent'
<1> DEFINE Ev2 == EventType(DOMAIN aucs, DOMAIN objs')
           base == Len(objs)
<1>1. /\ objs \in Seq(ObjectType(Installable))
      /\ new \in Seq(ObjectType(Installable)) /\ objs' = objs \o new
      /\ \A k \in DOMAIN new : new[k].state = "valid"
      /\ more \subseteq Ev2
      /\ \A g \in more : g.type \notin AuctionEvents \cup {"ACTIVATE_BIDDING_OBJECTS"}
      /\ \/ queue' = Rest(e)
         \/ queue' = Enqueue(Rest(e), ScheduleObjects(new, base) \cup more)
  BY DEF IInv, TypeOK, Installs, AuctionEvents, AuctionLists
<1>2. /\ DOMAIN objs \subseteq DOMAIN objs'
      /\ \A k \in DOMAIN new : base + k \in DOMAIN objs'
      /\ \A k \in DOMAIN new : objs'[base + k] = new[k]
      /\ \A o \in DOMAIN objs : objs'[o] = objs[o]
  BY <1>1, AppendedValues
<1>3. Rest(e) \subseteq Ev2 /\ Rest(e) \subseteq queue
  BY <1>2, RestType, EventMonotone DEF IInv, Rest
<1>4. \A k \in DOMAIN new : new[k].start \in Int /\ new[k].stop \in Int
  <2>1. \A k \in DOMAIN new : new[k] \in ObjectType(Installable)
    BY <1>1, ElementOfSeq, LenProperties
  <2> QED
    BY <2>1 DEF ObjectType
<1>5. ScheduleObjects(new, base) \subseteq Ev2
  BY <1>2, <1>4, ScheduleObjectsType DEF IInv
<1>6. ASSUME NEW f \in queue'
      PROVE  f \in queue \/ ForNew(f, new, base)
  <2>1. CASE queue' = Rest(e)
    BY <1>3, <2>1
  <2>2. CASE queue' = Enqueue(Rest(e), ScheduleObjects(new, base) \cup more)
    <3>1. f \in Enqueue(Rest(e), ScheduleObjects(new, base) \cup more)
      BY <2>2
    <3>2. CASE f \in Rest(e)
      BY <1>3, <3>2
    <3>3. CASE f \notin Rest(e)
      <4> HIDE DEF base, Ev2
      <4>1. ForNew(f, new, base)
        BY <1>1, <1>3, <1>5, <3>1, <3>3, ScheduledQueue DEF Ev2
      <4> QED
        BY <4>1
    <3> QED
      BY <3>2, <3>3
  <2> QED
    BY <1>1, <2>1, <2>2
<1>7. AuctionPart'
  BY <1>6, AuctionPartKept DEF IInv, ForNew
<1>8. BidActivationsCurrent'
  <2> SUFFICES ASSUME NEW f \in queue', f.type = "ACTIVATE_BIDDING_OBJECTS",
                      NEW o \in f.objs
               PROVE  objs'[o].state # "done"
    BY DEF BidActivationsCurrent, Pending
  <2>1. CASE f \in queue
    <3>1. o \in DOMAIN objs
      BY <2>1, ListedObjects DEF IInv, BidLists
    <3> QED
      BY <1>2, <2>1, <3>1 DEF IInv, BidActivationsCurrent, Pending
  <2>2. CASE ForNew(f, new, base)
    BY <1>1, <1>2, <2>2 DEF ForNew
  <2> QED
    BY <1>6, <2>1, <2>2
<1> QED
  BY <1>7, <1>8

\* Allocations are installed without touching the auctions.
LEMMA AddGeneratedBiddingObjectsSafe ==
  ASSUME IInv, NEW e \in queue, HandleAddGeneratedBiddingObjects(e)
  PROVE  AuctionPart' /\ BidActivationsCurrent'
<1>1. PICK new, more : Installs(e, new, more)
  BY AddGeneratedBiddingObjectsInstalls DEF IInv
<1> QED
  BY <1>1, InstalledSafe DEF HandleAddGeneratedBiddingObjects

\* So are the bids of a file or message.
LEMMA AddBidsSafe ==
  ASSUME IInv, NEW e \in queue, AddBids(e),
         e.type \in {"ADD_BIDDING_OBJECTS", "AUCTION_INTERACTION"},
         UNCHANGED <<aucs, proc>>
  PROVE  AuctionPart' /\ BidActivationsCurrent'
<1>1. e.sess \in Sessions \cup {NoSession} /\ e.bids \in Seq(Bids)
  BY RestType, EventShape DEF IInv
<1>2. PICK new, more : Installs(e, new, more)
  BY <1>1, AddBidsInstalls DEF IInv, BidInputs
<1> QED
  BY <1>2, InstalledSafe

\* handleAddBiddingObjects keeps the invariant.
LEMMA AddBiddingObjectsSafe ==
  ASSUME IInv, NEW e \in queue, HandleAddBiddingObjects(e)
  PROVE  AuctionPart' /\ BidActivationsCurrent'
BY AddBidsSafe DEF HandleAddBiddingObjects, Handling

\* handleAuctioningInteraction keeps the invariant.
LEMMA AuctionInteractionSafe ==
  ASSUME IInv, NEW e \in queue, HandleAuctionInteraction(e)
  PROVE  AuctionPart' /\ BidActivationsCurrent'
<1>1. CASE e.sess \in live
  BY <1>1, AddBidsSafe DEF HandleAuctionInteraction, Handling
<1>2. CASE e.sess \notin live
  BY <1>2, DroppedSafe DEF HandleAuctionInteraction, Dropped
<1> QED
  BY <1>1, <1>2

\* handleActivateBiddingObjects makes objects active that wait, so none of
\* them was done.
LEMMA ActivateBiddingObjectsSafe ==
  ASSUME IInv, NEW e \in queue, HandleActivateBiddingObjects(e)
  PROVE  AuctionPart' /\ BidActivationsCurrent'
<1> DEFINE bids == {o \in e.objs : objs[o].kind = "bid"}
           insertion == [at |-> now, rank |-> 1,
                         type |-> "ADD_BIDDING_OBJECTS_AUCTION", objs |-> bids]
           S == {ev \in {insertion} : bids # {}}
           Ev == EventType(DOMAIN aucs, DOMAIN objs)
<1>1. e.objs \subseteq DOMAIN objs
  BY ListedObjects DEF HandleActivateBiddingObjects, Handling, IInv, BidLists
<1>2. bids # {} => insertion \in Ev
  BY <1>1, NowInt, BidListEvent DEF IInv
<1>3. S \subseteq Ev /\ \A g \in S : g.type = "ADD_BIDDING_OBJECTS_AUCTION"
  <2>1. ASSUME NEW g \in S PROVE g = insertion /\ bids # {}
    BY <2>1
  <2>2. insertion.type = "ADD_BIDDING_OBJECTS_AUCTION"
    OBVIOUS
  <2> HIDE DEF S, insertion, Ev, bids
  <2> QED
    BY <1>2, <2>1, <2>2
<1>4. queue' = Enqueue(Rest(e), S)
  BY Zenon DEF HandleActivateBiddingObjects
<1>5. Rest(e) \subseteq Ev /\ Rest(e) \subseteq queue
  BY RestType DEF IInv, Rest
<1> HIDE DEF S, insertion, Ev
<1>6. ASSUME NEW f \in queue', f.type # "ADD_BIDDING_OBJECTS_AUCTION"
      PROVE  f \in queue
  <2>1. f \in Enqueue(Rest(e), S)
    BY <1>4
  <2>2. f \in Rest(e)
    BY <1>3, <1>5, <1>6, <2>1, EnqueuedEvent DEF Ev
  <2> QED
    BY <1>5, <2>2
<1>7. AuctionPart'
  BY <1>6, AuctionPartKept
     DEF IInv, HandleActivateBiddingObjects, AuctionEvents, AuctionLists
<1>8. BidActivationsCurrent'
  <2> SUFFICES ASSUME NEW f \in queue', f.type = "ACTIVATE_BIDDING_OBJECTS",
                      NEW o \in f.objs
               PROVE  objs'[o].state # "done"
    BY DEF BidActivationsCurrent, Pending
  <2>1. f \in queue
    BY <1>6
  <2>2. o \in DOMAIN objs /\ objs[o].state # "done"
    BY <2>1, ListedObjects DEF IInv, BidLists, BidActivationsCurrent, Pending
  <2>3. objs'[o] = IF o \in e.objs THEN [objs[o] EXCEPT !.state = "active"] ELSE objs[o]
    BY <2>2 DEF HandleActivateBiddingObjects, WithState
  <2>4. objs[o] \in ObjectType(Installable)
    BY <2>2, ElementOfSeq, LenProperties DEF IInv, TypeOK
  <2> QED
    BY <2>2, <2>3, <2>4 DEF ObjectType
<1> QED
  BY <1>7, <1>8

\* handleRemoveBiddingObjects strikes what it makes done from every pending
\* activation.
LEMMA RemoveBiddingObjectsSafe ==
  ASSUME IInv, NEW e \in queue, HandleRemoveBiddingObjects(e)
  PROVE  AuctionPart' /\ BidActivationsCurrent'
<1>1. /\ queue' = DelBiddingObjectEvents(Rest(e), e.objs, 1)
      /\ objs' = WithState(objs, e.objs, "done")
      /\ DOMAIN proc' = DOMAIN proc /\ aucs' = aucs
  BY DEF HandleRemoveBiddingObjects, WithoutBids
<1>2. /\ Rest(e) \subseteq EventType(DOMAIN aucs, DOMAIN objs)
      /\ Rest(e) \subseteq queue
  BY RestType DEF IInv, Rest
<1>3. ASSUME NEW f \in queue'
      PROVE  /\ f.type \in AuctionEvents => f \in queue
             /\ f.type \in BidLists =>
                  \E g \in queue : g.type = f.type /\ f.objs = g.objs \ e.objs
  BY <1>1, <1>2, <1>3, DeletedBidEvent DEF AuctionEvents
<1>4. AuctionPart'
  BY <1>1, <1>3, AuctionPartKept DEF IInv
<1>5. BidActivationsCurrent'
  <2> SUFFICES ASSUME NEW f \in queue', f.type = "ACTIVATE_BIDDING_OBJECTS",
                      NEW o \in f.objs
               PROVE  objs'[o].state # "done"
    BY DEF BidActivationsCurrent, Pending
  <2>1. PICK g \in queue : g.type = f.type /\ f.objs = g.objs \ e.objs
    BY <1>3 DEF BidLists
  <2>2. o \in DOMAIN objs /\ o \notin e.objs /\ objs[o].state # "done"
    BY <2>1, ListedObjects DEF IInv, BidLists, BidActivationsCurrent, Pending
  <2> QED
    BY <1>1, <2>2 DEF WithState
<1> QED
  BY <1>4, <1>5

-----------------------------------------------------------------------------
(***************************************************************************)
(* The handlers of auctions.                                               *)
(***************************************************************************)

\* handleAddAuctions installs only names that are free, in one new list.
LEMMA AddAuctionsSafe ==
  ASSUME IInv, NEW e \in queue, HandleAddAuctions(e)
  PROVE  AuctionPart' /\ BidActivationsCurrent'
<1>1. objs' = objs /\ proc' = proc
  BY DEF HandleAddAuctions
<1>2. CASE ~Verified(e.names)
  BY <1>1, <1>2, DroppedSafe DEF HandleAddAuctions, Dropped
<1>3. CASE Verified(e.names)
  <2>1. PICK new, S : InstallsAuctions(e, new, S)
    BY <1>3, AddAuctionsInstalls DEF IInv
  <2> DEFINE base == Len(aucs)
             Ev2 == EventType(DOMAIN aucs', DOMAIN objs)
  <2>2. /\ aucs \in Seq(AuctionType) /\ new \in Seq(AuctionType)
        /\ aucs' = aucs \o new
    BY <2>1 DEF IInv, TypeOK, InstallsAuctions
  <2>3. /\ DOMAIN aucs \subseteq DOMAIN aucs'
        /\ \A k \in DOMAIN new : base + k \in DOMAIN aucs'
        /\ \A k \in DOMAIN new : aucs'[base + k] = new[k]
        /\ \A i \in DOMAIN aucs : aucs'[i] = aucs[i]
    BY <2>2, AppendedValues
  <2>4. \A i \in DOMAIN aucs' : i \notin DOMAIN aucs => \E k \in DOMAIN new : i = base + k
    BY <2>2, Appended
  <2>5. \A k \in DOMAIN new : base + k \notin DOMAIN aucs
    <3>1. DOMAIN aucs = 1 .. base /\ base \in Nat /\ DOMAIN new = 1 .. Len(new)
      BY <2>2, LenProperties
    <3> QED
      BY <3>1
  <2>6. Rest(e) \subseteq Ev2 /\ Rest(e) \subseteq queue
    BY <2>3, RestType, EventMonotone DEF IInv, Rest
  <2>7. /\ queue' = Enqueue(Rest(e), S)
        /\ S \subseteq Ev2
        /\ \A g \in S : /\ g.type \in AuctionLists
                        /\ \A i \in g.objs : \E k \in DOMAIN new : i = base + k
        /\ \A g, h \in S :
             g.type = "ACTIVATE_AUCTIONS" /\ h.type = "ACTIVATE_AUCTIONS" => g = h
        /\ \A k \in DOMAIN new : new[k].state = "valid" /\ Installed(new[k].name) = {}
        /\ \A k, l \in DOMAIN new : new[k].name = new[l].name => k = l
    BY <2>1 DEF InstallsAuctions
  <2> HIDE DEF base
  <2>8. ASSUME NEW f \in queue', f \notin queue
        PROVE  /\ f.type \in AuctionLists
               /\ \A i \in f.objs : \E k \in DOMAIN new : i = base + k
               /\ \E g \in S : g.type = f.type /\ f = Added(Rest(e), g)
    <3>1. f \in Enqueue(Rest(e), S) /\ f \notin Rest(e)
      BY <2>6, <2>7, <2>8
    <3>2. \E g \in S : /\ f = Added(Rest(e), g)
                       /\ f.type = g.type
                       /\ f.type \in ListTypes => f.objs = g.objs
                       /\ f.type = "PUSH_EXECUTION" => f.index = g.index
      BY <2>6, <2>7, <3>1, EnqueuedEvent
    <3> QED
      BY <2>7, <3>2 DEF ListTypes
  <2>9. OneExecutionPerProcess'
    BY <1>1, <2>8 DEF IInv, AuctionPart, OneExecutionPerProcess, Pending, AuctionLists
  <2>10. ActiveHasProcess'
    BY <1>1, <2>3, <2>4, <2>7 DEF IInv, AuctionPart, ActiveHasProcess
  <2>11. ActivationsCurrent'
    <3>1. ASSUME NEW f \in queue', f.type = "ACTIVATE_AUCTIONS", NEW i \in f.objs
          PROVE  aucs'[i].state = "valid" /\ i \notin DOMAIN proc'
      <4>1. CASE f \in queue
        <5>1. i \in DOMAIN aucs
          BY <3>1, <4>1, ListedAuctions DEF IInv, AuctionLists
        <5> QED
          BY <1>1, <2>3, <3>1, <4>1, <5>1
             DEF IInv, AuctionPart, ActivationsCurrent, Pending
      <4>2. CASE f \notin queue
        <5>1. PICK k \in DOMAIN new : i = base + k
          BY <2>8, <4>2
        <5>2. i \notin DOMAIN proc
          BY <2>5, <5>1 DEF IInv, TypeOK
        <5> QED
          BY <1>1, <2>3, <2>7, <5>1, <5>2
      <4> QED
        BY <4>1, <4>2
    <3>2. ASSUME NEW f \in queue', f.type = "ACTIVATE_AUCTIONS",
                 NEW g \in queue', g.type = "ACTIVATE_AUCTIONS", f # g, NEW i \in f.objs
          PROVE  i \notin g.objs
      <4>1. f \in queue => f.objs \subseteq DOMAIN aucs
        BY <3>2, ListedAuctions DEF IInv, AuctionLists
      <4>2. g \in queue => g.objs \subseteq DOMAIN aucs
        BY <3>2, ListedAuctions DEF IInv, AuctionLists
      <4>3. CASE f \in queue /\ g \in queue
        BY <3>2, <4>3 DEF IInv, AuctionPart, ActivationsCurrent, Pending
      <4>4. CASE f \notin queue /\ g \notin queue
        BY <2>7, <2>8, <3>2, <4>4
      <4>5. CASE f \in queue /\ g \notin queue
        BY <2>5, <2>8, <4>1, <4>5
      <4>6. CASE f \notin queue /\ g \in queue
        BY <2>5, <2>8, <4>2, <4>6
      <4> QED
        BY <4>3, <4>4, <4>5, <4>6
    <3> QED
      BY <3>1, <3>2 DEF ActivationsCurrent, Pending
  <2>12. RemovalsCurrent'
    <3> SUFFICES ASSUME NEW f \in queue', f.type = "REMOVE_AUCTIONS", NEW i \in f.objs
                 PROVE  aucs'[i].state # "done"
      BY DEF RemovalsCurrent, Pending
    <3>1. CASE f \in queue
      <4>1. i \in DOMAIN aucs
        BY <3>1, ListedAuctions DEF IInv, AuctionLists
      <4> QED
        BY <2>3, <3>1, <4>1 DEF IInv, AuctionPart, RemovalsCurrent, Pending
    <3>2. CASE f \notin queue
      BY <2>3, <2>7, <2>8, <3>2
    <3> QED
      BY <3>1, <3>2
  <2>13. NamesUnique'
    <3> SUFFICES ASSUME NEW i \in DOMAIN aucs', NEW j \in DOMAIN aucs',
                        aucs'[i].name = aucs'[j].name,
                        aucs'[i].state # "done", aucs'[j].state # "done"
                 PROVE  i = j
      BY DEF NamesUnique
    <3>1. CASE i \in DOMAIN aucs /\ j \in DOMAIN aucs
      BY <2>3, <3>1 DEF IInv, AuctionPart, NamesUnique
    <3>2. CASE i \notin DOMAIN aucs /\ j \notin DOMAIN aucs
      BY <2>3, <2>4, <2>7, <3>2
    <3>3. CASE i \in DOMAIN aucs /\ j \notin DOMAIN aucs
      BY <2>3, <2>4, <2>7, <3>3 DEF Installed
    <3>4. CASE i \notin DOMAIN aucs /\ j \in DOMAIN aucs
      BY <2>3, <2>4, <2>7, <3>4 DEF Installed
    <3> QED
      BY <3>1, <3>2, <3>3, <3>4
  <2>14. BidActivationsCurrent'
    BY <1>1, <2>8, BidActivationsKept DEF IInv, AuctionLists
  <2> QED
    BY <2>9, <2>10, <2>11, <2>12, <2>13, <2>14 DEF AuctionPart
<1> QED
  BY <1>2, <1>3

\* A change of state is a change of nothing else.
LEMMA WithStateValues ==
  ASSUME NEW as \in Seq(AuctionType), NEW S, NEW state \in Installable
  PROVE  /\ DOMAIN WithState(as, S, state) = DOMAIN as
         /\ \A i \in DOMAIN as :
              /\ WithState(as, S, state)[i].name = as[i].name
              /\ WithState(as, S, state)[i].start = as[i].start
              /\ WithState(as, S, state)[i].stop = as[i].stop
              /\ i \in S => WithState(as, S, state)[i].state = state
              /\ i \notin S => WithState(as, S, state)[i].state = as[i].state
<1>1. \A i \in DOMAIN as : as[i] \in AuctionType
  BY ElementOfSeq, LenProperties
<1>2. ASSUME NEW i \in DOMAIN as
      PROVE  /\ [as[i] EXCEPT !.state = state].name = as[i].name
             /\ [as[i] EXCEPT !.state = state].start = as[i].start
             /\ [as[i] EXCEPT !.state = state].stop = as[i].stop
             /\ [as[i] EXCEPT !.state = state].state = state
  BY <1>1 DEF AuctionType
<1> QED
  BY <1>2 DEF WithState

\* handleActivateAuction opens auctions that had no process, with one
\* execution each.
LEMMA ActivateAuctionsSafe ==
  ASSUME IInv, NEW e \in queue, HandleActivateAuctions(e)
  PROVE  AuctionPart' /\ BidActivationsCurrent'
<1> DEFINE loads(i) == AucSpec[aucs[i].name].loads
           opened == {i \in e.objs : \A j \in e.objs : j <= i => loads(j)}
           Ev == EventType(DOMAIN aucs, DOMAIN objs)
           S == {FirstPush(i) : i \in opened}
<1>1. /\ DOMAIN proc' = DOMAIN proc \cup opened
      /\ queue' = Enqueue(Rest(e), S)
      /\ aucs' = IF opened = e.objs THEN WithState(aucs, e.objs, "active") ELSE aucs
      /\ objs' = objs
      /\ e.type = "ACTIVATE_AUCTIONS"
  BY DEF HandleActivateAuctions, Handling
<1>2. opened \subseteq e.objs
  OBVIOUS
<1> HIDE DEF opened
<1>3. e.objs \subseteq DOMAIN aucs
  BY <1>1, ListedAuctions DEF IInv, AuctionLists
<1>4. \A i \in e.objs : aucs[i].state = "valid" /\ i \notin DOMAIN proc
  BY <1>1 DEF IInv, AuctionPart, ActivationsCurrent, Pending
<1>5. Rest(e) \subseteq Ev /\ Rest(e) = queue \ {e}
  BY RestType DEF IInv, Rest
<1>6. \A i \in opened : /\ FirstPush(i) \in Ev
                        /\ FirstPush(i).type = "PUSH_EXECUTION"
                        /\ FirstPush(i).index = i
  <2>1. \A i \in opened : FirstPush(i) \in Ev
    BY <1>2, <1>3, FirstPushType DEF IInv
  <2>2. \A i \in opened : FirstPush(i).type = "PUSH_EXECUTION" /\ FirstPush(i).index = i
    BY DEF FirstPush
  <2> QED
    BY <2>1, <2>2
<1>7. ASSUME NEW f \in queue'
      PROVE  \/ f \in queue /\ f # e
             \/ \E i \in opened : /\ f = Added(Rest(e), FirstPush(i))
                                  /\ f.type = "PUSH_EXECUTION"
                                  /\ f.index = i
  <2>1. S \subseteq Ev
    BY <1>6
  <2>2. f \in Enqueue(Rest(e), S)
    BY <1>1
  <2>3. \/ f \in Rest(e)
        \/ \E g \in S : /\ f = Added(Rest(e), g)
                        /\ f.type = g.type
                        /\ f.type \in ListTypes => f.objs = g.objs
                        /\ f.type = "PUSH_EXECUTION" => f.index = g.index
    <3> HIDE DEF S
    <3> QED
      BY <1>5, <2>1, <2>2, EnqueuedEvent
  <2>4. CASE f \in Rest(e)
    BY <1>5, <2>4
  <2>5. ASSUME NEW i \in opened, f = Added(Rest(e), FirstPush(i)),
               f.type = FirstPush(i).type,
               f.type = "PUSH_EXECUTION" => f.index = FirstPush(i).index
        PROVE  f.type = "PUSH_EXECUTION" /\ f.index = i
    BY <1>6, <2>5
  <2> QED
    BY <2>3, <2>4, <2>5
<1>8. /\ DOMAIN aucs' = DOMAIN aucs
      /\ \A i \in DOMAIN aucs :
           /\ aucs'[i].name = aucs[i].name
           /\ aucs'[i].state = aucs[i].state
                \/ (i \in e.objs /\ opened = e.objs /\ aucs'[i].state = "active")
  BY <1>1, WithStateValues DEF IInv, TypeOK, Installable
<1> HIDE DEF S
<1>9. OneExecutionPerProcess'
  <2>1. ASSUME NEW f \in queue', f.type = "PUSH_EXECUTION"
        PROVE  f.index \in DOMAIN proc'
    BY <1>1, <1>7, <2>1 DEF IInv, AuctionPart, OneExecutionPerProcess, Pending
  <2>2. ASSUME NEW f \in queue', f.type = "PUSH_EXECUTION",
               NEW g \in queue', g.type = "PUSH_EXECUTION", f.index = g.index
        PROVE  f = g
    <3>1. f \in queue => f.index \notin opened
      BY <1>2, <1>4, <2>2 DEF IInv, AuctionPart, OneExecutionPerProcess, Pending
    <3>2. g \in queue => g.index \notin opened
      BY <1>2, <1>4, <2>2 DEF IInv, AuctionPart, OneExecutionPerProcess, Pending
    <3>3. CASE f \in queue /\ g \in queue
      BY <2>2, <3>3 DEF IInv, AuctionPart, OneExecutionPerProcess, Pending
    <3>4. CASE f \notin queue /\ g \notin queue
      BY <1>7, <2>2, <3>4
    <3>5. CASE (f \in queue) # (g \in queue)
      BY <1>7, <2>2, <3>1, <3>2, <3>5
    <3> QED
      BY <3>3, <3>4, <3>5
  <2> QED
    BY <2>1, <2>2 DEF OneExecutionPerProcess, Pending
<1>10. ActiveHasProcess'
  BY <1>1, <1>8 DEF IInv, AuctionPart, ActiveHasProcess
<1>11. ASSUME NEW f \in queue', f.type # "PUSH_EXECUTION"
       PROVE  f \in queue /\ f # e
  BY <1>7, <1>11
<1>12. ActivationsCurrent'
  <2>1. ASSUME NEW f \in queue', f.type = "ACTIVATE_AUCTIONS"
        PROVE  f \in queue /\ f.objs \subseteq DOMAIN aucs /\ f.objs \cap e.objs = {}
    BY <1>1, <1>11, <2>1, ListedAuctions
       DEF IInv, AuctionPart, ActivationsCurrent, Pending, AuctionLists
  <2>2. ASSUME NEW f \in queue', f.type = "ACTIVATE_AUCTIONS", NEW i \in f.objs
        PROVE  aucs'[i].state = "valid" /\ i \notin DOMAIN proc'
    BY <1>1, <1>2, <1>8, <2>1, <2>2
       DEF IInv, AuctionPart, ActivationsCurrent, Pending
  <2>3. ASSUME NEW f \in queue', f.type = "ACTIVATE_AUCTIONS",
               NEW g \in queue', g.type = "ACTIVATE_AUCTIONS", g # f
        PROVE  f.objs \cap g.objs = {}
    BY <2>1, <2>3 DEF IInv, AuctionPart, ActivationsCurrent, Pending
  <2> QED
    BY <2>2, <2>3 DEF ActivationsCurrent, Pending
<1>13. RemovalsCurrent'
  <2> SUFFICES ASSUME NEW f \in queue', f.type = "REMOVE_AUCTIONS", NEW i \in f.objs
               PROVE  aucs'[i].state # "done"
    BY DEF RemovalsCurrent, Pending
  <2>1. f \in queue /\ i \in DOMAIN aucs /\ aucs[i].state # "done"
    BY <1>11, ListedAuctions
       DEF IInv, AuctionPart, RemovalsCurrent, Pending, AuctionLists
  <2> QED
    BY <1>8, <2>1
<1>14. NamesUnique'
  <2>1. \A i \in DOMAIN aucs : aucs'[i].state # "done" => aucs[i].state # "done"
    BY <1>4, <1>8
  <2> QED
    BY <1>8, <2>1 DEF IInv, AuctionPart, NamesUnique
<1>15. BidActivationsCurrent'
  BY <1>1, <1>11, BidActivationsKept DEF IInv
<1> QED
  BY <1>9, <1>10, <1>12, <1>13, <1>14, <1>15 DEF AuctionPart

\* A failing execution leaves its process without one.
LEMMA PushExecutionErrorSafe ==
  ASSUME IInv, NEW e \in queue, HandlePushExecutionError(e)
  PROVE  AuctionPart' /\ BidActivationsCurrent'
BY DroppedSafe DEF HandlePushExecutionError, Dropped

\* Rescheduling puts one execution of the same process back.
LEMMA RescheduledEvent ==
  ASSUME NEW A, NEW O, NEW q, NEW t \in Int, NEW e \in EventType(A, O),
         e.type = "PUSH_EXECUTION", q \subseteq EventType(A, O)
  PROVE  /\ \A f \in Reschedule(q, e, t) :
              f \in q \/ (f.type = "PUSH_EXECUTION" /\ f.index = e.index)
         /\ \A f, h \in Reschedule(q, e, t) : f \in q \/ h \in q \/ f = h
<1> DEFINE R == [at : Int, rank : Nat, type : {"PUSH_EXECUTION"},
                 index : A, stop : Nat, ival : Nat \ {0}]
           next == e.at + e.ival * Frac
           due == IF t - next >= Frac THEN t ELSE next
           g == [e EXCEPT !.at = due, !.rank = 1]
<1>1. e \in R
  BY DEF EventType, AuctionLists, BidLists
<1>2. due \in Int
  BY <1>1, FracAssumption
<1>3. g \in R /\ g.index = e.index /\ g.type = "PUSH_EXECUTION"
  <2> HIDE DEF due
  <2> QED
    BY <1>1, <1>2
<1>4. g \in EventType(A, O)
  BY <1>3 DEF EventType
<1>5. Reschedule(q, e, t) = Enqueue(q, {g})
  BY DEF Reschedule
<1> HIDE DEF g
<1> QED
  BY <1>3, <1>4, <1>5, EnqueuedEvent

\* handlePushExecution puts at most its own execution back.
LEMMA PushExecutionSafe ==
  ASSUME IInv, NEW e \in queue, HandlePushExecution(e)
  PROVE  AuctionPart' /\ BidActivationsCurrent'
<1> DEFINE Ev == EventType(DOMAIN aucs, DOMAIN objs)
<1>1. /\ UNCHANGED <<now, aucs, objs, proc>>
      /\ e.type = "PUSH_EXECUTION" /\ e.index \in DOMAIN proc
  BY DEF HandlePushExecution, Handling
<1>2. PICK q : AfterExecution(e, q)
  BY PushExecutionQueue DEF IInv
<1> USE DEF AfterExecution
<1>3. /\ \A f \in queue' : f \in q \/ (f.type = "PUSH_EXECUTION" /\ f.index = e.index)
      /\ \A f, h \in queue' : f \in q \/ h \in q \/ f = h
  <2>1. e \in Ev /\ now \in Int
    BY RestType, NowInt DEF IInv
  <2> QED
    BY <1>1, <1>2, <2>1, RescheduledEvent
<1>4. \A f \in q : f.type # "ADD_GENERATED_BIDDING_OBJECTS" => f \in queue /\ f # e
  BY <1>2 DEF Rest
<1>5. \A f \in queue : f.type = "PUSH_EXECUTION" /\ f # e => f.index # e.index
  BY <1>1 DEF IInv, AuctionPart, OneExecutionPerProcess, Pending
<1>6. OneExecutionPerProcess'
  <2>1. ASSUME NEW f \in queue', f.type = "PUSH_EXECUTION"
        PROVE  f.index \in DOMAIN proc'
    BY <1>1, <1>3, <1>4, <2>1 DEF IInv, AuctionPart, OneExecutionPerProcess, Pending
  <2>2. ASSUME NEW f \in queue', f.type = "PUSH_EXECUTION",
               NEW g \in queue', g.type = "PUSH_EXECUTION", f.index = g.index
        PROVE  f = g
    <3>1. CASE f \in q /\ g \in q
      BY <1>4, <2>2, <3>1 DEF IInv, AuctionPart, OneExecutionPerProcess, Pending
    <3>2. CASE f \in q /\ g \notin q
      BY <1>3, <1>4, <1>5, <2>2, <3>2
    <3>3. CASE f \notin q /\ g \in q
      BY <1>3, <1>4, <1>5, <2>2, <3>3
    <3>4. CASE f \notin q /\ g \notin q
      BY <1>3, <3>4
    <3> QED
      BY <3>1, <3>2, <3>3, <3>4
  <2> QED
    BY <2>1, <2>2 DEF OneExecutionPerProcess, Pending
<1>7. \A f \in queue' :
        f.type \in AuctionLists \cup {"ACTIVATE_BIDDING_OBJECTS"} => f \in queue
  BY <1>3, <1>4 DEF AuctionLists
<1>8. BidActivationsCurrent'
  BY <1>1, <1>7, BidActivationsKept DEF IInv
<1>9. ActiveHasProcess' /\ NamesUnique'
  BY <1>1 DEF IInv, AuctionPart, ActiveHasProcess, NamesUnique
<1>10. ActivationsCurrent'
  BY <1>1, <1>7 DEF IInv, AuctionPart, ActivationsCurrent, Pending, AuctionLists
<1>11. RemovalsCurrent'
  BY <1>1, <1>7 DEF IInv, AuctionPart, RemovalsCurrent, Pending, AuctionLists
<1> QED
  BY <1>6, <1>8, <1>9, <1>10, <1>11 DEF AuctionPart

\* handleRemoveAuctions takes processes by name: by NamesUnique no other
\* active auction loses its own.
LEMMA RemoveAuctionsSafe ==
  ASSUME IInv, NEW e \in queue, HandleRemoveAuctions(e)
  PROVE  AuctionPart' /\ BidActivationsCurrent'
<1> DEFINE matched == ProcessesOf({aucs[i].name : i \in e.objs})
           gone == IF matched = {} THEN {} ELSE matched \ Overlooked(matched)
           q == DelProcessExecutionEvents(Rest(e), gone)
           Ev == EventType(DOMAIN aucs, DOMAIN objs)
<1>1. /\ proc' = [i \in DOMAIN proc \ gone |-> proc[i]]
      /\ queue' = DelAuctionEvents(q, e.objs)
      /\ aucs' = WithState(aucs, e.objs, "done")
      /\ objs' = objs
      /\ e.type = "REMOVE_AUCTIONS"
  BY DEF HandleRemoveAuctions, Handling
<1>2. /\ e.objs \subseteq DOMAIN aucs
      /\ \A i \in e.objs : aucs[i].state # "done"
  BY <1>1, ListedAuctions
     DEF IInv, AuctionLists, AuctionPart, RemovalsCurrent, Pending
<1>3. \A i \in gone : i \in DOMAIN proc /\ \E j \in e.objs : aucs[i].name = aucs[j].name
  BY DEF ProcessesOf
<1> HIDE DEF gone
<1>4. q \subseteq Ev /\ q \subseteq queue
      /\ \A f \in q : f.type = "PUSH_EXECUTION" => f.index \notin gone
  BY RestType DEF IInv, Rest, DelProcessExecutionEvents
<1>5. /\ DOMAIN aucs' = DOMAIN aucs
      /\ \A i \in DOMAIN aucs :
           /\ aucs'[i].name = aucs[i].name
           /\ i \in e.objs => aucs'[i].state = "done"
           /\ i \notin e.objs => aucs'[i].state = aucs[i].state
  BY <1>1, WithStateValues DEF IInv, TypeOK, Installable
<1> HIDE DEF q
<1>6. ASSUME NEW f \in queue'
      PROVE  /\ f.type \notin AuctionLists => f \in q
             /\ f.type \in AuctionLists =>
                  \E g \in q : /\ g.type = f.type /\ f.objs = g.objs \ e.objs
                               /\ f = [g EXCEPT !.objs = @ \ e.objs]
  BY <1>1, <1>4, DeletedAuctionEvent
<1>7. OneExecutionPerProcess'
  <2>1. ASSUME NEW f \in queue', f.type = "PUSH_EXECUTION"
        PROVE  f \in queue /\ f.index \in DOMAIN proc'
    <3>1. f \in q
      BY <1>6, <2>1 DEF AuctionLists
    <3>2. f.index \in DOMAIN proc
      BY <1>4, <2>1, <3>1 DEF IInv, AuctionPart, OneExecutionPerProcess, Pending
    <3> QED
      BY <1>1, <1>4, <2>1, <3>1, <3>2
  <2> QED
    BY <2>1 DEF IInv, AuctionPart, OneExecutionPerProcess, Pending
<1>8. ActiveHasProcess'
  <2> SUFFICES ASSUME NEW i \in DOMAIN aucs', aucs'[i].state = "active"
               PROVE  i \in DOMAIN proc'
    BY DEF ActiveHasProcess
  <2>1. i \in DOMAIN aucs /\ i \notin e.objs /\ aucs[i].state = "active"
    BY <1>5
  <2>2. i \in DOMAIN proc
    BY <2>1 DEF IInv, AuctionPart, ActiveHasProcess
  <2>3. i \notin gone
    BY <1>2, <1>3, <2>1 DEF IInv, AuctionPart, NamesUnique
  <2> QED
    BY <1>1, <2>2, <2>3
<1>9. ActivationsCurrent'
  <2>1. ASSUME NEW f \in queue', f.type = "ACTIVATE_AUCTIONS"
        PROVE  \E g \in Pending("ACTIVATE_AUCTIONS") :
                 f.objs = g.objs \ e.objs /\ f = [g EXCEPT !.objs = @ \ e.objs]
    BY <1>4, <1>6, <2>1 DEF Pending, AuctionLists
  <2>2. \A g \in Pending("ACTIVATE_AUCTIONS") : g.objs \subseteq DOMAIN aucs
    BY ListedAuctions DEF IInv, Pending, AuctionLists
  <2>3. ASSUME NEW f \in queue', f.type = "ACTIVATE_AUCTIONS", NEW i \in f.objs
        PROVE  aucs'[i].state = "valid" /\ i \notin DOMAIN proc'
    BY <1>1, <1>5, <2>1, <2>2, <2>3 DEF IInv, AuctionPart, ActivationsCurrent
  <2>4. ASSUME NEW f \in queue', f.type = "ACTIVATE_AUCTIONS",
               NEW g \in queue', g.type = "ACTIVATE_AUCTIONS", g # f
        PROVE  f.objs \cap g.objs = {}
    <3>1. PICK f0 \in Pending("ACTIVATE_AUCTIONS") :
            f.objs = f0.objs \ e.objs /\ f = [f0 EXCEPT !.objs = @ \ e.objs]
      BY <2>1, <2>4
    <3>2. PICK g0 \in Pending("ACTIVATE_AUCTIONS") :
            g.objs = g0.objs \ e.objs /\ g = [g0 EXCEPT !.objs = @ \ e.objs]
      BY <2>1, <2>4
    <3>3. f0 # g0
      BY <2>4, <3>1, <3>2
    <3>4. f0.objs \cap g0.objs = {}
      BY <3>3 DEF IInv, AuctionPart, ActivationsCurrent
    <3> QED
      BY <3>1, <3>2, <3>4
  <2> QED
    BY <2>3, <2>4 DEF ActivationsCurrent, Pending
<1>10. RemovalsCurrent'
  <2> SUFFICES ASSUME NEW f \in queue', f.type = "REMOVE_AUCTIONS", NEW i \in f.objs
               PROVE  aucs'[i].state # "done"
    BY DEF RemovalsCurrent, Pending
  <2>1. PICK g \in queue : g.type = "REMOVE_AUCTIONS" /\ f.objs = g.objs \ e.objs
    BY <1>4, <1>6 DEF AuctionLists
  <2>2. i \in DOMAIN aucs /\ i \notin e.objs /\ aucs[i].state # "done"
    BY <2>1, ListedAuctions
       DEF IInv, AuctionPart, RemovalsCurrent, Pending, AuctionLists
  <2> QED
    BY <1>5, <2>2
<1>11. NamesUnique'
  <2>1. \A i \in DOMAIN aucs : aucs'[i].state # "done" => aucs[i].state # "done"
    BY <1>2, <1>5
  <2> QED
    BY <1>5, <2>1 DEF IInv, AuctionPart, NamesUnique
<1>12. BidActivationsCurrent'
  BY <1>1, <1>4, <1>6, BidActivationsKept DEF IInv, AuctionLists
<1> QED
  BY <1>7, <1>8, <1>9, <1>10, <1>11, <1>12 DEF AuctionPart

\* Steps that touch none of it.
LEMMA UntouchedSafe ==
  ASSUME IInv, UNCHANGED <<queue, aucs, objs, proc>>
  PROVE  AuctionPart' /\ BidActivationsCurrent'
BY AuctionPartKept, BidActivationsKept DEF IInv

\* Every handler keeps the invariant.
LEMMA HandlersSafe ==
  ASSUME IInv, NEW e \in queue, HandleEvent(e)
  PROVE  AuctionPart' /\ BidActivationsCurrent'
<1>1. CASE HandleTransmitBiddingObjects(e)
  BY <1>1, DroppedSafe DEF HandleTransmitBiddingObjects, Dropped
<1>2. CASE HandleRemoveSession(e)
  BY <1>2, DroppedSafe DEF HandleRemoveSession, Dropped
<1> QED
  BY <1>1, <1>2, AddAuctionsSafe, ActivateAuctionsSafe, PushExecutionSafe,
     PushExecutionErrorSafe, RemoveAuctionsSafe, AddBiddingObjectsSafe,
     AuctionInteractionSafe, ActivateBiddingObjectsSafe,
     AddBiddingObjectsAuctionSafe, RemoveBiddingObjectsSafe,
     AddGeneratedBiddingObjectsSafe, CreateSessionSafe
     DEF HandleEvent

\* An input brings neither a list nor an execution.
LEMMA ArriveSafe ==
  ASSUME IInv, NEW i \in inputs, Arrive(i)
  PROVE  AuctionPart' /\ BidActivationsCurrent'
<1> DEFINE Ev == EventType(DOMAIN aucs, DOMAIN objs)
<1>1. InputEvent(i) \in Ev
  BY InputEventType DEF IInv
<1>2. InputEvent(i).type \notin AuctionEvents \cup {"ACTIVATE_BIDDING_OBJECTS"}
  <2>1. i \in InputType
    BY InputsAssumption DEF IInv, TypeOK
  <2>2. InputEvent(i).type = i.type
    BY <2>1 DEF InputEvent, InputType
  <2>3. i.type \in {"ADD_AUCTIONS", "ADD_BIDDING_OBJECTS", "AUCTION_INTERACTION",
                    "CREATE_SESSION", "REMOVE_SESSION"}
    BY <2>1 DEF InputType
  <2> QED
    BY <2>2, <2>3 DEF AuctionEvents, AuctionLists
<1>3. UNCHANGED <<aucs, objs, proc>> /\ queue' = Enqueue(queue, {InputEvent(i)})
  BY DEF Arrive
<1>4. queue \subseteq Ev
  BY DEF IInv, TypeOK
<1>5. ASSUME NEW f \in queue',
             f.type \in AuctionEvents \cup {"ACTIVATE_BIDDING_OBJECTS"}
      PROVE  f \in queue
  <2> DEFINE S == {InputEvent(i)}
  <2>1. S \subseteq Ev /\ \A g \in S : g = InputEvent(i)
    BY <1>1
  <2>2. f \in Enqueue(queue, S)
    BY <1>3
  <2> HIDE DEF S
  <2> QED
    BY <1>2, <1>4, <1>5, <2>1, <2>2, EnqueuedEvent
<1> QED
  BY <1>3, <1>5, AuctionPartKept, BidActivationsKept DEF IInv

-----------------------------------------------------------------------------
(***************************************************************************)
(* The theorems.                                                           *)
(***************************************************************************)

\* IInv is inductive: from it, every handler, arrival and tick leads to it.
THEOREM Consistent == Spec => []IInv
<1>1. Init => IInv
  <2> SUFFICES ASSUME Init PROVE IInv
    OBVIOUS
  <2>1. TypeOK
    BY InitType
  <2>2. queue = {} /\ aucs = << >> /\ objs = << >>
    BY DEF Init
  <2>3. DOMAIN aucs = {}
    BY <2>2
  <2>4. AuctionPart
    BY <2>2, <2>3 DEF AuctionPart, OneExecutionPerProcess, ActiveHasProcess,
       ActivationsCurrent, RemovalsCurrent, NamesUnique, Pending
  <2>5. BidActivationsCurrent
    BY <2>2 DEF BidActivationsCurrent, Pending
  <2> QED
    BY <2>1, <2>4, <2>5 DEF IInv
<1>2. IInv /\ [Next]_vars => IInv'
  <2> SUFFICES ASSUME IInv, [Next]_vars PROVE IInv'
    OBVIOUS
  <2>1. TypeOK'
    BY TypeStep DEF IInv
  <2>2. ASSUME NEW e \in queue, HandleEvent(e)
        PROVE  AuctionPart' /\ BidActivationsCurrent'
    BY <2>2, HandlersSafe
  <2>3. ASSUME NEW i \in inputs, Arrive(i)
        PROVE  AuctionPart' /\ BidActivationsCurrent'
    BY <2>3, ArriveSafe
  <2>4. ASSUME Tick \/ UNCHANGED vars
        PROVE  AuctionPart' /\ BidActivationsCurrent'
    <3>1. UNCHANGED <<queue, aucs, objs, proc>>
      BY <2>4 DEF Tick, vars
    <3> QED
      BY <3>1, UntouchedSafe
  <2>5. AuctionPart' /\ BidActivationsCurrent'
    BY <2>2, <2>3, <2>4 DEF Next
  <2> QED
    BY <2>1, <2>5 DEF IInv
<1> QED
  BY <1>1, <1>2, PTL DEF Spec

\* An execution in the queue belongs to a process that exists, and no process
\* has two: an auction is never cleared twice over one window, and no
\* execution of a removed auction is left behind (Auctioner::handleActivateAuction,
\* handlePushExecution, handleRemoveAuctions).
THEOREM ExecutionsUnique == Spec => []OneExecutionPerProcess
<1>1. IInv => OneExecutionPerProcess
  BY DEF IInv, AuctionPart
<1> QED
  BY <1>1, Consistent, PTL

\* An auction in state active has its process in AUMProcessor, although
\* removals look processes up by name and activations may stop half-way.
THEOREM ActiveAuctionsServed == Spec => []ActiveHasProcess
<1>1. IInv => ActiveHasProcess
  BY DEF IInv, AuctionPart
<1> QED
  BY <1>1, Consistent, PTL

\* The lists in the queue never refer to auctions or bidding objects that were
\* removed since the event was made (EventScheduler::delAuctionEvents and
\* delBiddingObjectEvents reach all of them).
THEOREM QueueUpToDate == Spec => []QueueCurrent
<1>1. IInv => QueueCurrent
  BY DEF IInv, AuctionPart, QueueCurrent
<1> QED
  BY <1>1, Consistent, PTL

-----------------------------------------------------------------------------
(***************************************************************************)
(* Where the events of the queue come from, and which of them stay.        *)
(***************************************************************************)

\* f is g but for its place among the events of its time.
SameEvent(f, g) ==
  /\ f.type = g.type /\ f.at = g.at
  /\ f.type \in ListTypes \cup {"ADD_BIDDING_OBJECTS_AUCTION"} => f.objs = g.objs
  /\ f.type = "PUSH_EXECUTION" =>
       f.index = g.index /\ f.stop = g.stop /\ f.ival = g.ival
  /\ f.type = "ADD_GENERATED_BIDDING_OBJECTS" => f.allocs = g.allocs
  /\ f.type \in BidInputs => f.bids = g.bids

\* f is what deletions have left of g.
LeftOf(f, g) ==
  /\ f.type = g.type /\ f.at = g.at /\ f.rank = g.rank
  /\ f.type \in ListTypes => f.objs \subseteq g.objs
  /\ f.type = "ADD_GENERATED_BIDDING_OBJECTS" =>
       \A k \in DOMAIN f.allocs : \E l \in DOMAIN g.allocs : f.allocs[k] = g.allocs[l]
  /\ f.type \notin ListTypes \cup {"ADD_GENERATED_BIDDING_OBJECTS"} => f = g

\* A rank is all that an insertion changes.
LEMMA RankedSame ==
  ASSUME NEW A, NEW O, NEW e \in EventType(A, O), NEW r \in Nat
  PROVE  SameEvent(Ranked(e, r), e) /\ Ranked(e, r).rank = r
<1>1. /\ Ranked(e, r).type = e.type /\ Ranked(e, r).at = e.at
      /\ Ranked(e, r).rank = r
      /\ e.type \in ListTypes \cup {"ADD_BIDDING_OBJECTS_AUCTION"} =>
           Ranked(e, r).objs = e.objs
  BY RankedType DEF ListTypes
<1>2. e.type = "PUSH_EXECUTION" =>
        /\ Ranked(e, r).index = e.index /\ Ranked(e, r).stop = e.stop
        /\ Ranked(e, r).ival = e.ival
  BY DEF Ranked, EventType, AuctionLists, BidLists, ListOf
<1>3. e.type = "ADD_GENERATED_BIDDING_OBJECTS" => Ranked(e, r).allocs = e.allocs
  BY DEF Ranked, EventType, AuctionLists, BidLists, ListOf
<1>4. e.type \in BidInputs => Ranked(e, r).bids = e.bids
  BY DEF Ranked, EventType, AuctionLists, BidLists, ListOf, BidInputs
<1> QED
  BY <1>1, <1>2, <1>3, <1>4 DEF SameEvent

\* addEvent puts each new event, and no other, behind those of its time.
LEMMA AddedSame ==
  ASSUME NEW A, NEW O, NEW q, q \subseteq EventType(A, O), NEW g \in EventType(A, O)
  PROVE  /\ SameEvent(Added(q, g), g)
         /\ LastRank(q, g.at) \in Nat
         /\ Added(q, g).rank = LastRank(q, g.at) + g.rank
<1>1. \A h \in EventType(A, O) : h.rank \in Nat
  BY EventShape
<1>2. LastRank(q, g.at) \in Nat
  BY <1>1, LastRankNat
<1>3. LastRank(q, g.at) + g.rank \in Nat
  BY <1>1, <1>2
<1> QED
  BY <1>2, <1>3, RankedSame DEF Added

\* So every event of a queue after addEvent was there, or is a new one ranked.
LEMMA EnqueuedSame ==
  ASSUME NEW A, NEW O, NEW q, NEW S,
         q \subseteq EventType(A, O), S \subseteq EventType(A, O)
  PROVE  /\ \A f \in Enqueue(q, S) :
              f \in q \/ \E g \in S : f = Added(q, g) /\ SameEvent(f, g)
         /\ \A g \in S : Added(q, g) \in Enqueue(q, S) /\ SameEvent(Added(q, g), g)
         /\ q \subseteq Enqueue(q, S)
<1>1. \A f \in Enqueue(q, S) : f \in q \/ \E g \in S : f = Added(q, g)
  BY EnqueueMembers DEF Added
<1>2. \A g \in S : Added(q, g) \in Enqueue(q, S)
  BY DEF Added, Enqueue
<1>3. \A g \in S : SameEvent(Added(q, g), g)
  BY AddedSame
<1> QED
  BY <1>1, <1>2, <1>3, EnqueueKeeps

\* An event is what is left of itself.
LEMMA LeftOfItself == \A f : LeftOf(f, f)
BY DEF LeftOf

\* The classes of events do not overlap.
LEMMA ClassesApart ==
  ASSUME NEW type
  PROVE  /\ type \in AuctionLists => type \notin BidLists
         /\ type \in ListTypes =>
              type \notin {"ADD_GENERATED_BIDDING_OBJECTS", "PUSH_EXECUTION",
                           "ADD_BIDDING_OBJECTS_AUCTION"} \cup BidInputs
BY DEF ListTypes, AuctionLists, BidLists, BidInputs

\* Deleting bidding objects shortens lists, and drops the first allocation of
\* an event of which the others stay.
LEMMA BidsDeleted ==
  ASSUME NEW A, NEW O, NEW q, NEW S, NEW First, q \subseteq EventType(A, O)
  PROVE  /\ \A f \in DelBiddingObjectEvents(q, S, First) :
              \E g \in q : LeftOf(f, g) /\ (f.type \in BidLists => f.objs = g.objs \ S)
         /\ \A g \in q : g.type \in AuctionLists => g \in DelBiddingObjectEvents(q, S, First)
         /\ \A g \in q : g.type \in BidLists /\ ~(g.objs \subseteq S) =>
              \E f \in DelBiddingObjectEvents(q, S, First) :
                LeftOf(f, g) /\ f.objs = g.objs \ S
<1> DEFINE Matches(f) == f.type = "ADD_GENERATED_BIDDING_OBJECTS" /\ First \in S
           Emptied(f) == \/ f.type \in BidLists /\ f.objs \subseteq S
                         \/ Matches(f) /\ Len(f.allocs) = 1
           Strip(f) == IF f.type \in BidLists THEN [f EXCEPT !.objs = @ \ S]
                       ELSE IF Matches(f) THEN [f EXCEPT !.allocs = Tail(@)]
                                          ELSE f
<1>1. DelBiddingObjectEvents(q, S, First) = {Strip(f) : f \in {g \in q : ~Emptied(g)}}
  BY Zenon DEF DelBiddingObjectEvents
<1>2. ASSUME NEW g \in q, g.type \in BidLists
      PROVE  LeftOf(Strip(g), g) /\ Strip(g).objs = g.objs \ S
             /\ Strip(g).type = g.type
  <2>1. g \in [at : Int, rank : Nat,
               type : BidLists \cup {"ADD_BIDDING_OBJECTS_AUCTION"}, objs : ListOf(O)]
    BY <1>2 DEF EventType, AuctionLists, BidLists
  <2>2. Strip(g) = [g EXCEPT !.objs = @ \ S]
    BY <1>2
  <2> HIDE DEF Strip
  <2>3. /\ Strip(g).type = g.type /\ Strip(g).at = g.at /\ Strip(g).rank = g.rank
        /\ Strip(g).objs = g.objs \ S
    BY <2>1, <2>2
  <2>4. g.type \in ListTypes /\ g.type # "ADD_GENERATED_BIDDING_OBJECTS"
    BY <1>2 DEF ListTypes, BidLists
  <2> QED
    BY <2>3, <2>4 DEF LeftOf
<1>3. ASSUME NEW g \in q, g.type \notin BidLists, Matches(g), ~Emptied(g)
      PROVE  LeftOf(Strip(g), g) /\ Strip(g).type = g.type
  <2>1. g \in [at : Int, rank : Nat, type : {"ADD_GENERATED_BIDDING_OBJECTS"},
               allocs : Seq(ObjectType({"new"})) \ {<< >>}]
    BY <1>3 DEF EventType, AuctionLists, BidLists
  <2>2. Strip(g) = [g EXCEPT !.allocs = Tail(@)]
    BY <1>3
  <2> HIDE DEF Strip
  <2>3. /\ Strip(g).type = g.type /\ Strip(g).at = g.at /\ Strip(g).rank = g.rank
        /\ Strip(g).allocs = Tail(g.allocs)
    BY <2>1, <2>2
  <2>4. g.allocs \in Seq(ObjectType({"new"})) /\ g.allocs # << >>
    BY <2>1
  <2>5. \A k \in DOMAIN Tail(g.allocs) :
          k + 1 \in DOMAIN g.allocs /\ Tail(g.allocs)[k] = g.allocs[k + 1]
    BY <2>4
  <2>6. g.type = "ADD_GENERATED_BIDDING_OBJECTS" /\ g.type \notin ListTypes
    BY <1>3 DEF ListTypes, AuctionLists, BidLists
  <2> QED
    BY <2>3, <2>5, <2>6 DEF LeftOf
<1>4. ASSUME NEW g \in q, g.type \notin BidLists, ~Matches(g)
      PROVE  Strip(g) = g
  BY <1>4
<1> HIDE DEF Strip
<1>5. \A f \in DelBiddingObjectEvents(q, S, First) :
        \E g \in q : LeftOf(f, g) /\ (f.type \in BidLists => f.objs = g.objs \ S)
  <2> SUFFICES ASSUME NEW g \in q, ~Emptied(g)
               PROVE  LeftOf(Strip(g), g)
                      /\ (Strip(g).type \in BidLists => Strip(g).objs = g.objs \ S)
    BY <1>1
  <2> QED
    BY <1>2, <1>3, <1>4, LeftOfItself
<1>6. \A g \in q : g.type \in AuctionLists => g \in DelBiddingObjectEvents(q, S, First)
  <2> SUFFICES ASSUME NEW g \in q, g.type \in AuctionLists
               PROVE  Strip(g) = g /\ ~Emptied(g)
    BY <1>1
  <2>1. g.type \notin BidLists /\ ~Matches(g)
    BY DEF AuctionLists, BidLists
  <2> QED
    BY <1>4, <2>1
<1>7. ASSUME NEW g \in q, g.type \in BidLists, ~(g.objs \subseteq S)
      PROVE  Strip(g) \in DelBiddingObjectEvents(q, S, First)
  <2>1. ~Emptied(g)
    BY <1>7 DEF BidLists
  <2> QED
    BY <1>1, <2>1
<1> QED
  BY <1>2, <1>5, <1>6, <1>7

\* Deleting auctions shortens their lists only.
LEMMA AuctionsDeleted ==
  ASSUME NEW A, NEW O, NEW q, NEW S, q \subseteq EventType(A, O)
  PROVE  /\ \A f \in DelAuctionEvents(q, S) :
              \E g \in q : LeftOf(f, g) /\ (f.type \in AuctionLists => f.objs = g.objs \ S)
         /\ \A g \in q : g.type \notin AuctionLists => g \in DelAuctionEvents(q, S)
         /\ \A g \in q : g.type \in AuctionLists /\ ~(g.objs \subseteq S) =>
              \E f \in DelAuctionEvents(q, S) : LeftOf(f, g) /\ f.objs = g.objs \ S
<1> DEFINE Strip(f) == IF f.type \in AuctionLists THEN [f EXCEPT !.objs = @ \ S] ELSE f
           Stays(f) == f.type \in AuctionLists => ~(f.objs \subseteq S)
<1>1. DelAuctionEvents(q, S) = {Strip(f) : f \in {g \in q : Stays(g)}}
  BY Zenon DEF DelAuctionEvents
<1>2. ASSUME NEW g \in q, g.type \in AuctionLists
      PROVE  LeftOf(Strip(g), g) /\ Strip(g).objs = g.objs \ S
  <2>1. g \in [at : Int, rank : Nat, type : AuctionLists, objs : ListOf(A)]
    BY <1>2 DEF EventType, AuctionLists, BidLists
  <2>2. Strip(g) = [g EXCEPT !.objs = @ \ S]
    BY <1>2
  <2> HIDE DEF Strip
  <2>3. /\ Strip(g).type = g.type /\ Strip(g).at = g.at /\ Strip(g).rank = g.rank
        /\ Strip(g).objs = g.objs \ S
    BY <2>1, <2>2
  <2>4. g.type \in ListTypes /\ g.type # "ADD_GENERATED_BIDDING_OBJECTS"
    BY <1>2 DEF ListTypes, AuctionLists
  <2> QED
    BY <2>3, <2>4 DEF LeftOf
<1>3. ASSUME NEW g \in q, g.type \notin AuctionLists
      PROVE  Strip(g) = g
  BY <1>3
<1> HIDE DEF Strip
<1>4. \A f \in DelAuctionEvents(q, S) :
        \E g \in q : LeftOf(f, g) /\ (f.type \in AuctionLists => f.objs = g.objs \ S)
  <2> SUFFICES ASSUME NEW g \in q, Stays(g)
               PROVE  LeftOf(Strip(g), g)
                      /\ (Strip(g).type \in AuctionLists => Strip(g).objs = g.objs \ S)
    BY <1>1
  <2> QED
    BY <1>2, <1>3, LeftOfItself
<1>5. ASSUME NEW g \in q, Stays(g)
      PROVE  Strip(g) \in DelAuctionEvents(q, S)
  BY <1>1, <1>5
<1> QED
  BY <1>2, <1>3, <1>4, <1>5

\* What the handler of e leaves of an event: the deletions of a removal strike
\* what it removed from the lists of the others.
Survives(e, f) ==
  \E g \in Rest(e) :
    /\ LeftOf(f, g)
    /\ e.type = "REMOVE_AUCTIONS" /\ f.type \in AuctionLists => f.objs = g.objs \ e.objs
    /\ e.type = "REMOVE_BIDDING_OBJECTS" /\ f.type \in BidLists => f.objs = g.objs \ e.objs

\* An index of an auction that the step installs, or of a bidding object.
NewAuctionIndex(i) == i \in DOMAIN aucs' /\ i \notin DOMAIN aucs

NewObjectIndex(o) == o \in DOMAIN objs' /\ o \notin DOMAIN objs

\* The events that BiddingObjectManager and the handlers schedule for new
\* objects.
ForNewObjects(f) ==
  /\ f.type \in BidLists
  /\ \A o \in f.objs :
       /\ NewObjectIndex(o)
       /\ f.type = "ACTIVATE_BIDDING_OBJECTS" =>
            f.at = At(now, StartOf(objs'[o].start))
       /\ f.type = "REMOVE_BIDDING_OBJECTS" =>
            objs'[o].stop # 0 /\ f.at = At(now, objs'[o].stop)
       /\ f.type = "TRANSMIT_BIDDING_OBJECTS" => f.at = now

\* The events that the handler of e adds, by the type of e.
AddsAuctions(e, f) ==
  /\ e.type = "ADD_AUCTIONS"
  /\ f.type \in AuctionLists
  /\ \A i \in f.objs :
       /\ NewAuctionIndex(i)
       /\ f.type = "REMOVE_AUCTIONS" =>
            aucs'[i].stop # 0 /\ f.at = At(now, aucs'[i].stop)

\* An opened auction gets its first execution ...
Opens(e, f) ==
  /\ e.type = "ACTIVATE_AUCTIONS"
  /\ f.type = "PUSH_EXECUTION"
  /\ f.index \in e.objs /\ f.stop = aucs[f.index].stop
  /\ At(now, aucs[f.index].start) <= f.at

\* ... which comes again one interval later, or later still ...
Repeats(e, f) ==
  /\ e.type = "PUSH_EXECUTION"
  /\ f.type = "PUSH_EXECUTION"
  /\ f.index = e.index /\ f.stop = e.stop
  /\ Sec(e.at) + e.ival <= Sec(f.at)

\* ... after the allocations of the bids that compete in it.
Clears(e, f) ==
  /\ e.type = "PUSH_EXECUTION" /\ e.index \in DOMAIN proc
  /\ f.type = "ADD_GENERATED_BIDDING_OBJECTS"
  /\ \A k \in DOMAIN f.allocs : \E o \in proc[e.index] :
       f.allocs[k] = Allocation(o, Sec(e.at), WindowStop(e))

\* Activated bids are put into the auctions at once.
Offers(e, f) ==
  /\ e.type = "ACTIVATE_BIDDING_OBJECTS"
  /\ f.type = "ADD_BIDDING_OBJECTS_AUCTION"
  /\ f.at = now /\ f.objs \subseteq e.objs
  /\ \A o \in f.objs : objs[o].kind = "bid"

\* Bids and allocations that arrive are scheduled; allocations are also sent.
InstallsObjects(e, f) ==
  /\ e.type \in BidInputs \cup {"ADD_GENERATED_BIDDING_OBJECTS"}
  /\ ForNewObjects(f)
  /\ f.type = "TRANSMIT_BIDDING_OBJECTS" => e.type = "ADD_GENERATED_BIDDING_OBJECTS"

\* Whatever a handler adds to the queue.
Adds(e, f) ==
  \/ AddsAuctions(e, f)
  \/ Opens(e, f)
  \/ Repeats(e, f)
  \/ Clears(e, f)
  \/ Offers(e, f)
  \/ InstallsObjects(e, f)

\* Nothing else is in the queue after the handler of e ...
Accounted(e) == \A f \in queue' : Survives(e, f) \/ Adds(e, f)

\* ... and what a list held that the handler did not remove is still listed.
Struck(e, g, x) ==
  /\ x \in e.objs
  /\ \/ e.type = "REMOVE_AUCTIONS" /\ g.type \in AuctionLists
     \/ e.type = "REMOVE_BIDDING_OBJECTS" /\ g.type \in BidLists

Remains(e) ==
  \A g \in Rest(e) : g.type \in ListTypes =>
    \A x \in g.objs :
      Struck(e, g, x) \/ \E f \in queue' : LeftOf(f, g) /\ x \in f.objs

\* A handler that removes nothing and adds nothing but what it should.
LEMMA OnlyAdds ==
  ASSUME NEW e, Rest(e) \subseteq queue',
         e.type \notin {"REMOVE_AUCTIONS", "REMOVE_BIDDING_OBJECTS"},
         \A f \in queue' : f \in Rest(e) \/ Adds(e, f)
  PROVE  Accounted(e) /\ Remains(e)
<1>1. \A f \in Rest(e) : Survives(e, f)
  BY LeftOfItself DEF Survives
<1> QED
  BY <1>1, LeftOfItself DEF Accounted, Remains

\* A handler that only takes its event off the queue.
LEMMA DroppedEvents ==
  ASSUME NEW e, Dropped(e), e.type \notin {"REMOVE_AUCTIONS", "REMOVE_BIDDING_OBJECTS"}
  PROVE  Accounted(e) /\ Remains(e)
<1>1. Rest(e) \subseteq queue' /\ \A f \in queue' : f \in Rest(e)
  BY DEF Dropped
<1> QED
  BY <1>1, OnlyAdds

\* New auctions have the next indices.
LEMMA AuctionsInstalled ==
  ASSUME TypeOK, NEW e, NEW new, NEW S, InstallsAuctions(e, new, S)
  PROVE  /\ DOMAIN aucs \subseteq DOMAIN aucs'
         /\ \A i \in DOMAIN aucs : aucs'[i] = aucs[i]
         /\ \A k \in DOMAIN new : NewAuctionIndex(Len(aucs) + k)
                                  /\ aucs'[Len(aucs) + k] = new[k]
         /\ \A i \in DOMAIN aucs' :
              i \in DOMAIN aucs \/ \E k \in DOMAIN new : i = Len(aucs) + k
<1>1. /\ aucs \in Seq(AuctionType) /\ new \in Seq(AuctionType)
      /\ aucs' = aucs \o new
  BY DEF TypeOK, InstallsAuctions
<1>2. /\ DOMAIN aucs \subseteq DOMAIN aucs'
      /\ \A k \in DOMAIN new : Len(aucs) + k \in DOMAIN aucs'
      /\ \A k \in DOMAIN new : aucs'[Len(aucs) + k] = new[k]
      /\ \A i \in DOMAIN aucs : aucs'[i] = aucs[i]
  BY <1>1, AppendedValues
<1>3. \A i \in DOMAIN aucs' : i \notin DOMAIN aucs => \E k \in DOMAIN new : i = Len(aucs) + k
  BY <1>1, Appended
<1>4. \A k \in DOMAIN new : Len(aucs) + k \notin DOMAIN aucs
  <2>1. DOMAIN aucs = 1 .. Len(aucs) /\ Len(aucs) \in Nat /\ DOMAIN new = 1 .. Len(new)
    BY <1>1, LenProperties
  <2> QED
    BY <2>1
<1> QED
  BY <1>2, <1>3, <1>4 DEF NewAuctionIndex

\* So have new bidding objects.
LEMMA ObjectsInstalled ==
  ASSUME TypeOK, NEW e, NEW new, NEW more, Installs(e, new, more)
  PROVE  /\ DOMAIN objs \subseteq DOMAIN objs'
         /\ \A i \in DOMAIN objs : objs'[i] = objs[i]
         /\ \A k \in DOMAIN new : NewObjectIndex(Len(objs) + k)
                                  /\ objs'[Len(objs) + k] = new[k]
         /\ \A i \in DOMAIN objs' :
              i \in DOMAIN objs \/ \E k \in DOMAIN new : i = Len(objs) + k
<1>1. /\ objs \in Seq(ObjectType(Installable)) /\ new \in Seq(ObjectType(Installable))
      /\ objs' = objs \o new
  BY DEF TypeOK, Installs
<1>2. /\ DOMAIN objs \subseteq DOMAIN objs'
      /\ \A k \in DOMAIN new : Len(objs) + k \in DOMAIN objs'
      /\ \A k \in DOMAIN new : objs'[Len(objs) + k] = new[k]
      /\ \A i \in DOMAIN objs : objs'[i] = objs[i]
  BY <1>1, AppendedValues
<1>3. \A i \in DOMAIN objs' : i \notin DOMAIN objs => \E k \in DOMAIN new : i = Len(objs) + k
  BY <1>1, Appended
<1>4. \A k \in DOMAIN new : Len(objs) + k \notin DOMAIN objs
  <2>1. DOMAIN objs = 1 .. Len(objs) /\ Len(objs) \in Nat /\ DOMAIN new = 1 .. Len(new)
    BY <1>1, LenProperties
  <2> QED
    BY <2>1
<1> QED
  BY <1>2, <1>3, <1>4 DEF NewObjectIndex

\* handleAddAuctions schedules the new auctions.
LEMMA AddAuctionsEvents ==
  ASSUME TypeOK, NEW e \in queue, HandleAddAuctions(e)
  PROVE  Accounted(e) /\ Remains(e)
<1>1. e.type = "ADD_AUCTIONS"
  BY DEF HandleAddAuctions, Handling
<1>2. CASE ~Verified(e.names)
  BY <1>1, <1>2, DroppedEvents DEF HandleAddAuctions
<1>3. CASE Verified(e.names)
  <2>1. PICK new, S : InstallsAuctions(e, new, S)
    BY <1>3, AddAuctionsInstalls
  <2>2. /\ queue' = Enqueue(Rest(e), S)
        /\ S \subseteq EventType(DOMAIN aucs', DOMAIN objs)
        /\ \A g \in S : /\ g.type \in AuctionLists
                        /\ \A i \in g.objs : \E k \in DOMAIN new : i = Len(aucs) + k
        /\ \A g \in S : g.type = "REMOVE_AUCTIONS" =>
             \A k \in DOMAIN new : Len(aucs) + k \in g.objs =>
               new[k].stop # 0 /\ g.at = At(now, new[k].stop)
    BY <2>1 DEF InstallsAuctions
  <2>3. /\ DOMAIN aucs \subseteq DOMAIN aucs'
        /\ \A k \in DOMAIN new : NewAuctionIndex(Len(aucs) + k)
                                 /\ aucs'[Len(aucs) + k] = new[k]
    BY <2>1, AuctionsInstalled
  <2>4. Rest(e) \subseteq EventType(DOMAIN aucs', DOMAIN objs)
    BY <2>3, RestType, EventMonotone
  <2>5. /\ \A f \in queue' : f \in Rest(e) \/ \E g \in S : SameEvent(f, g)
        /\ Rest(e) \subseteq queue'
    BY <2>2, <2>4, EnqueuedSame
  <2>6. ASSUME NEW f, NEW g \in S, SameEvent(f, g)
        PROVE  AddsAuctions(e, f)
    <3>1. f.type = g.type /\ f.at = g.at /\ f.objs = g.objs /\ f.type \in AuctionLists
      BY <2>2, <2>6 DEF SameEvent, ListTypes
    <3> QED
      BY <1>1, <2>2, <2>3, <3>1 DEF AddsAuctions
  <2> QED
    BY <1>1, <2>5, <2>6, OnlyAdds DEF Adds
<1> QED
  BY <1>2, <1>3

\* handleActivateAuction schedules first executions.
LEMMA ActivateAuctionsEvents ==
  ASSUME TypeOK, NEW e \in queue, HandleActivateAuctions(e)
  PROVE  Accounted(e) /\ Remains(e)
<1> DEFINE loads(i) == AucSpec[aucs[i].name].loads
           opened == {i \in e.objs : \A j \in e.objs : j <= i => loads(j)}
           Ev == EventType(DOMAIN aucs, DOMAIN objs)
<1>1. e.type = "ACTIVATE_AUCTIONS"
  BY DEF HandleActivateAuctions, Handling
<1>2. opened \subseteq e.objs /\ e.objs \subseteq DOMAIN aucs
  BY <1>1, RestType, EventShape DEF AuctionLists
<1>3. queue' = Enqueue(Rest(e), {FirstPush(i) : i \in opened})
  BY DEF HandleActivateAuctions
<1> HIDE DEF opened
<1> DEFINE S == {FirstPush(i) : i \in opened}
<1>4. S \subseteq Ev
  BY <1>2, FirstPushType
<1>5. /\ \A f \in queue' : f \in Rest(e) \/ \E g \in S : SameEvent(f, g)
      /\ Rest(e) \subseteq queue'
  <2> HIDE DEF S
  <2> QED
    BY <1>3, <1>4, RestType, EnqueuedSame DEF S
<1>6. ASSUME NEW f, NEW i \in opened, SameEvent(f, FirstPush(i))
      PROVE  Opens(e, f)
  <2> DEFINE a == aucs[i]
             spec == AucSpec[a.name]
             t == At(now, a.start)
             at == IF spec.align THEN Align(t, spec.ival) ELSE t
  <2>1. a \in AuctionType
    BY <1>2, ElementOfSeq, LenProperties DEF TypeOK
  <2>2. a.name \in Auctions /\ a.start \in Int
    BY <2>1 DEF AuctionType
  <2>3. spec.ival \in Nat \ {0}
    BY <2>2, SpecAssumption
  <2>4. t \in Int
    BY <2>2, NowInt, TimesInt
  <2>5. t <= at
    <3> HIDE DEF t, spec
    <3> QED
      BY <2>3, <2>4, AlignForward
  <2>6. FirstPush(i).type = "PUSH_EXECUTION" /\ FirstPush(i).at = at
        /\ FirstPush(i).index = i /\ FirstPush(i).stop = a.stop
    BY DEF FirstPush
  <2> HIDE DEF at
  <2>7. f.type = "PUSH_EXECUTION" /\ f.at = at /\ f.index = i /\ f.stop = a.stop
    BY <1>6, <2>6 DEF SameEvent
  <2> QED
    BY <1>1, <1>2, <2>5, <2>7 DEF Opens
<1>7. \A f \in queue' : f \in Rest(e) \/ Opens(e, f)
  BY <1>5, <1>6
<1> QED
  BY <1>1, <1>5, <1>7, OnlyAdds DEF Adds

\* reschedNextEvent repeats the execution after its interval.
LEMMA ReschedulesLater ==
  ASSUME NEW A, NEW O, NEW q, NEW t \in Int, NEW e \in EventType(A, O),
         e.type = "PUSH_EXECUTION", q \subseteq EventType(A, O)
  PROVE  /\ \A f \in Reschedule(q, e, t) : f \in q \/ Repeats(e, f)
         /\ q \subseteq Reschedule(q, e, t)
<1> DEFINE R == [at : Int, rank : Nat, type : {"PUSH_EXECUTION"},
                 index : A, stop : Nat, ival : Nat \ {0}]
           next == e.at + e.ival * Frac
           due == IF t - next >= Frac THEN t ELSE next
           g == [e EXCEPT !.at = due, !.rank = 1]
<1>1. e \in R
  BY DEF EventType, AuctionLists, BidLists
<1>2. e.at \in Int /\ e.ival \in Int
  BY <1>1
<1>3. next \in Int /\ Sec(next) = Sec(e.at) + e.ival
  BY <1>2, SecLater
<1> HIDE DEF next
<1>4. due \in Int /\ next <= due
  BY <1>3, FracAssumption
<1> HIDE DEF due
<1>5. g \in R /\ g.index = e.index /\ g.type = "PUSH_EXECUTION" /\ g.stop = e.stop
      /\ g.at = due
  BY <1>1, <1>4
<1>6. g \in EventType(A, O)
  BY <1>5 DEF EventType
<1>7. Reschedule(q, e, t) = Enqueue(q, {g})
  BY DEF Reschedule, due, next
<1>8. Sec(e.at) + e.ival <= Sec(due)
  BY <1>3, <1>4, SecMonotone
<1> HIDE DEF g
<1>9. /\ \A f \in Enqueue(q, {g}) : f \in q \/ \E h \in {g} : SameEvent(f, h)
      /\ q \subseteq Enqueue(q, {g})
  <2>1. {g} \subseteq EventType(A, O)
    BY <1>6
  <2> QED
    BY <2>1, EnqueuedSame
<1>10. \A f : SameEvent(f, g) => Repeats(e, f)
  BY <1>5, <1>8 DEF SameEvent, Repeats
<1> QED
  BY <1>7, <1>9, <1>10

\* handlePushExecution adds the allocations, and the execution again.
LEMMA PushExecutionEvents ==
  ASSUME TypeOK, NEW e \in queue, HandlePushExecution(e)
  PROVE  Accounted(e) /\ Remains(e)
<1> DEFINE Ev == EventType(DOMAIN aucs, DOMAIN objs)
<1>1. e.type = "PUSH_EXECUTION" /\ e.index \in DOMAIN proc
  BY DEF HandlePushExecution, Handling
<1>2. e \in Ev /\ now \in Int
  BY RestType, NowInt
<1>3. PICK q : AfterExecution(e, q)
  BY PushExecutionQueue
<1>4. /\ q \subseteq Ev /\ Rest(e) \subseteq q
      /\ queue' = q \/ queue' = Reschedule(q, e, now)
      /\ \A f \in q : f \in Rest(e) \/ Clears(e, f)
  BY <1>1, <1>3 DEF AfterExecution, Clears, Made
<1>5. /\ \A f \in queue' : f \in q \/ Repeats(e, f)
      /\ q \subseteq queue'
  BY <1>1, <1>2, <1>4, ReschedulesLater
<1>6. Rest(e) \subseteq queue' /\ \A f \in queue' : f \in Rest(e) \/ Adds(e, f)
  BY <1>4, <1>5 DEF Adds
<1> QED
  BY <1>1, <1>6, OnlyAdds

\* handleRemoveAuctions strikes the removed auctions from the lists.
LEMMA RemoveAuctionsEvents ==
  ASSUME TypeOK, NEW e \in queue, HandleRemoveAuctions(e)
  PROVE  Accounted(e) /\ Remains(e)
<1> DEFINE matched == ProcessesOf({aucs[i].name : i \in e.objs})
           gone == IF matched = {} THEN {} ELSE matched \ Overlooked(matched)
           q == DelProcessExecutionEvents(Rest(e), gone)
           Ev == EventType(DOMAIN aucs, DOMAIN objs)
<1>1. /\ queue' = DelAuctionEvents(q, e.objs)
      /\ e.type = "REMOVE_AUCTIONS"
  BY DEF HandleRemoveAuctions, Handling
<1> HIDE DEF gone
<1>2. q \subseteq Rest(e) /\ q \subseteq Ev
      /\ \A g \in Rest(e) : g.type # "PUSH_EXECUTION" => g \in q
  BY RestType DEF DelProcessExecutionEvents
<1> HIDE DEF q
<1>3. /\ \A f \in queue' : \E g \in q :
           LeftOf(f, g) /\ (f.type \in AuctionLists => f.objs = g.objs \ e.objs)
      /\ \A g \in q : g.type \notin AuctionLists => g \in queue'
      /\ \A g \in q : g.type \in AuctionLists /\ ~(g.objs \subseteq e.objs) =>
           \E f \in queue' : LeftOf(f, g) /\ f.objs = g.objs \ e.objs
  BY <1>1, <1>2, AuctionsDeleted
<1>4. Accounted(e)
  BY <1>1, <1>2, <1>3 DEF Accounted, Survives
<1>5. ASSUME NEW g \in Rest(e), g.type \in ListTypes, NEW x \in g.objs, ~Struck(e, g, x)
      PROVE  \E f \in queue' : LeftOf(f, g) /\ x \in f.objs
  <2>1. g \in q
    BY <1>2, <1>5, ClassesApart
  <2>2. CASE g.type \in AuctionLists
    <3>1. x \notin e.objs
      BY <1>1, <1>5, <2>2 DEF Struck
    <3> QED
      BY <1>3, <1>5, <2>1, <2>2, <3>1
  <2>3. CASE g.type \notin AuctionLists
    BY <1>3, <1>5, <2>1, <2>3, LeftOfItself
  <2> QED
    BY <2>2, <2>3
<1> QED
  BY <1>4, <1>5 DEF Remains

\* handleRemoveBiddingObjects strikes the removed objects.
LEMMA RemoveBiddingObjectsEvents ==
  ASSUME TypeOK, NEW e \in queue, HandleRemoveBiddingObjects(e)
  PROVE  Accounted(e) /\ Remains(e)
<1> DEFINE Ev == EventType(DOMAIN aucs, DOMAIN objs)
<1>1. /\ queue' = DelBiddingObjectEvents(Rest(e), e.objs, 1)
      /\ e.type = "REMOVE_BIDDING_OBJECTS"
  BY DEF HandleRemoveBiddingObjects, Handling
<1>2. Rest(e) \subseteq Ev
  BY RestType
<1>3. /\ \A f \in queue' : \E g \in Rest(e) :
           LeftOf(f, g) /\ (f.type \in BidLists => f.objs = g.objs \ e.objs)
      /\ \A g \in Rest(e) : g.type \in AuctionLists => g \in queue'
      /\ \A g \in Rest(e) : g.type \in BidLists /\ ~(g.objs \subseteq e.objs) =>
           \E f \in queue' : LeftOf(f, g) /\ f.objs = g.objs \ e.objs
  BY <1>1, <1>2, BidsDeleted
<1>4. Accounted(e)
  BY <1>1, <1>3 DEF Accounted, Survives
<1>5. ASSUME NEW g \in Rest(e), g.type \in ListTypes, NEW x \in g.objs, ~Struck(e, g, x)
      PROVE  \E f \in queue' : LeftOf(f, g) /\ x \in f.objs
  <2>1. CASE g.type \in BidLists
    <3>1. x \notin e.objs
      BY <1>1, <1>5, <2>1 DEF Struck
    <3> QED
      BY <1>3, <1>5, <2>1, <3>1
  <2>2. CASE g.type \in AuctionLists
    BY <1>3, <1>5, <2>2, LeftOfItself
  <2> QED
    BY <1>5, <2>1, <2>2 DEF ListTypes
<1> QED
  BY <1>4, <1>5 DEF Remains

\* handleActivateBiddingObjects adds one insertion, of bids.
LEMMA ActivateBiddingObjectsEvents ==
  ASSUME TypeOK, NEW e \in queue, HandleActivateBiddingObjects(e)
  PROVE  Accounted(e) /\ Remains(e)
<1> DEFINE bids == {o \in e.objs : objs[o].kind = "bid"}
           insertion == [at |-> now, rank |-> 1,
                         type |-> "ADD_BIDDING_OBJECTS_AUCTION", objs |-> bids]
           S == {ev \in {insertion} : bids # {}}
           Ev == EventType(DOMAIN aucs, DOMAIN objs)
<1>1. /\ e.type = "ACTIVATE_BIDDING_OBJECTS"
      /\ queue' = Enqueue(Rest(e), S)
  BY Zenon DEF HandleActivateBiddingObjects, Handling
<1>2. e.objs \subseteq DOMAIN objs
  BY <1>1, ListedObjects DEF BidLists
<1>3. bids # {} => insertion \in Ev
  BY <1>2, NowInt, BidListEvent
<1>4. S \subseteq Ev /\ \A g \in S : g = insertion
  <2>1. ASSUME NEW g \in S PROVE g = insertion /\ bids # {}
    BY <2>1
  <2> HIDE DEF S, insertion, Ev, bids
  <2> QED
    BY <1>3, <2>1
<1>5. /\ insertion.type = "ADD_BIDDING_OBJECTS_AUCTION"
      /\ insertion.at = now /\ insertion.objs \subseteq e.objs
      /\ \A o \in insertion.objs : objs[o].kind = "bid"
  OBVIOUS
<1> HIDE DEF S, insertion
<1>6. /\ \A f \in queue' : f \in Rest(e) \/ \E g \in S : SameEvent(f, g)
      /\ Rest(e) \subseteq queue'
  BY <1>1, <1>4, RestType, EnqueuedSame
<1>7. \A f : SameEvent(f, insertion) => Offers(e, f)
  BY <1>1, <1>5 DEF SameEvent, Offers
<1>8. \A f \in queue' : f \in Rest(e) \/ Offers(e, f)
  BY <1>4, <1>6, <1>7
<1> QED
  BY <1>1, <1>6, <1>8, OnlyAdds DEF Adds

\* What is scheduled for new objects.
LEMMA ScheduledForNew ==
  ASSUME TypeOK, NEW e, NEW new, NEW more, Installs(e, new, more),
         NEW g \in ScheduleObjects(new, Len(objs)) \cup more
  PROVE  ForNewObjects(g) /\ (g.type = "TRANSMIT_BIDDING_OBJECTS" => g \in more)
<1> DEFINE base == Len(objs)
<1>1. /\ \A k \in DOMAIN new : NewObjectIndex(base + k) /\ objs'[base + k] = new[k]
  BY ObjectsInstalled
<1>2. base \in Int /\ \A k \in DOMAIN new : k \in Int
  <2>1. objs \in Seq(ObjectType(Installable)) /\ new \in Seq(ObjectType(Installable))
    BY DEF TypeOK, Installs
  <2> QED
    BY <2>1, LenProperties
<1> HIDE DEF base
<1>3. CASE g \in Activations(new, base)
  <2>1. PICK t \in {StartOf(new[j].start) : j \in DOMAIN new} :
          g = [at |-> At(now, t), rank |-> 1, type |-> "ACTIVATE_BIDDING_OBJECTS",
               objs |-> StartingAt(new, base, t)]
    BY <1>3, Zenon DEF Activations
  <2>2. /\ g.at = At(now, t) /\ g.type = "ACTIVATE_BIDDING_OBJECTS"
        /\ g.objs = StartingAt(new, base, t)
    BY <2>1
  <2>3. ASSUME NEW o \in g.objs
        PROVE  NewObjectIndex(o) /\ g.at = At(now, StartOf(objs'[o].start))
    <3>1. PICK k \in DOMAIN new : o = base + k /\ StartOf(new[k].start) = t
      BY <2>2 DEF StartingAt
    <3> QED
      BY <1>1, <2>2, <3>1
  <2> QED
    BY <2>2, <2>3 DEF ForNewObjects, BidLists
<1>4. CASE g \in Removals("REMOVE_BIDDING_OBJECTS", new, base)
  <2>1. PICK t \in {new[j].stop : j \in DOMAIN new} \ {0} :
          g = [at |-> At(now, t), rank |-> 2, type |-> "REMOVE_BIDDING_OBJECTS",
               objs |-> EndingAt(new, base, t)]
    BY <1>4, Zenon DEF Removals
  <2>2. /\ g.at = At(now, t) /\ g.type = "REMOVE_BIDDING_OBJECTS" /\ t # 0
        /\ g.objs = EndingAt(new, base, t)
    BY <2>1
  <2>3. ASSUME NEW o \in g.objs
        PROVE  NewObjectIndex(o) /\ objs'[o].stop # 0 /\ g.at = At(now, objs'[o].stop)
    <3>1. PICK k \in DOMAIN new : o = base + k /\ new[k].stop = t
      BY <2>2 DEF EndingAt
    <3> QED
      BY <1>1, <2>2, <3>1
  <2> QED
    BY <2>2, <2>3 DEF ForNewObjects, BidLists
<1>5. CASE g \in more
  <2>1. /\ g.type = "TRANSMIT_BIDDING_OBJECTS" /\ g.at = now
        /\ \A o \in g.objs : \E k \in DOMAIN new : o = base + k
    BY <1>5 DEF Installs, base
  <2> QED
    BY <1>1, <1>5, <2>1 DEF ForNewObjects, BidLists
<1> QED
  BY <1>3, <1>4, <1>5 DEF ScheduleObjects, base

\* The rest of the queue and what is added are events over the new objects.
LEMMA InstalledQueue ==
  ASSUME TypeOK, NEW e \in queue, NEW new, NEW more, Installs(e, new, more)
  PROVE  LET S == ScheduleObjects(new, Len(objs)) \cup more
         IN  /\ Rest(e) \subseteq EventType(DOMAIN aucs, DOMAIN objs')
             /\ S \subseteq EventType(DOMAIN aucs, DOMAIN objs')
<1> DEFINE Ev2 == EventType(DOMAIN aucs, DOMAIN objs')
<1>1. new \in Seq(ObjectType(Installable)) /\ objs' = objs \o new /\ more \subseteq Ev2
  BY DEF Installs
<1>2. /\ \A k \in DOMAIN new : Len(objs) + k \in DOMAIN objs'
      /\ EventType(DOMAIN aucs, DOMAIN objs) \subseteq Ev2
  BY <1>1, ObjectsAppended
<1>3. Rest(e) \subseteq Ev2
  BY <1>2, RestType
<1>4. \A k \in DOMAIN new : new[k].start \in Int /\ new[k].stop \in Int
  <2>1. \A k \in DOMAIN new : new[k] \in ObjectType(Installable)
    BY <1>1, ElementOfSeq, LenProperties
  <2> QED
    BY <2>1 DEF ObjectType
<1>5. ScheduleObjects(new, Len(objs)) \subseteq Ev2
  BY <1>2, <1>4, ScheduleObjectsType
<1> QED
  BY <1>1, <1>3, <1>5

\* A handler that installs bidding objects accounts for its queue.
LEMMA InstalledEvents ==
  ASSUME TypeOK, NEW e \in queue, NEW new, NEW more, Installs(e, new, more),
         e.type \in BidInputs \cup {"ADD_GENERATED_BIDDING_OBJECTS"}
  PROVE  Accounted(e) /\ Remains(e)
<1> DEFINE S == ScheduleObjects(new, Len(objs)) \cup more
<1>1. queue' = Rest(e) \/ queue' = Enqueue(Rest(e), S)
  BY DEF Installs
<1>2. \A g \in S : ForNewObjects(g) /\ (g.type = "TRANSMIT_BIDDING_OBJECTS" => g \in more)
  BY ScheduledForNew
<1>3. \A g \in more : e.type = "ADD_GENERATED_BIDDING_OBJECTS"
  BY DEF Installs
<1>4. /\ Rest(e) \subseteq EventType(DOMAIN aucs, DOMAIN objs')
      /\ S \subseteq EventType(DOMAIN aucs, DOMAIN objs')
  BY InstalledQueue
<1> HIDE DEF S
<1>5. /\ \A f \in queue' : f \in Rest(e) \/ \E g \in S : SameEvent(f, g)
      /\ Rest(e) \subseteq queue'
  BY <1>1, <1>4, EnqueuedSame
<1>6. ASSUME NEW f, NEW g \in S, SameEvent(f, g)
      PROVE  InstallsObjects(e, f)
  <2>1. f.type = g.type /\ f.at = g.at /\ f.objs = g.objs
    BY <1>2, <1>6 DEF SameEvent, ForNewObjects, ListTypes
  <2> QED
    BY <1>2, <1>3, <2>1 DEF ForNewObjects, InstallsObjects
<1>7. e.type \notin {"REMOVE_AUCTIONS", "REMOVE_BIDDING_OBJECTS"}
  BY DEF BidInputs
<1>8. \A f \in queue' : f \in Rest(e) \/ Adds(e, f)
  BY <1>5, <1>6 DEF Adds
<1> QED
  BY <1>5, <1>7, <1>8, OnlyAdds

\* Bids are installed through Installs, whichever way they come.
LEMMA BidsInstall ==
  ASSUME TypeOK, NEW e \in queue, AddBids(e), e.type \in BidInputs
  PROVE  \E new, more : Installs(e, new, more)
<1>1. e.sess \in Sessions \cup {NoSession} /\ e.bids \in Seq(Bids)
  BY RestType, EventShape DEF BidInputs
<1> QED
  BY <1>1, AddBidsInstalls

\* Every handler accounts for the queue that it leaves.
LEMMA HandlersAccount ==
  ASSUME TypeOK, NEW e \in queue, HandleEvent(e)
  PROVE  Accounted(e) /\ Remains(e)
<1>1. CASE HandleAddBiddingObjects(e)
  BY <1>1, BidsInstall, InstalledEvents DEF HandleAddBiddingObjects, Handling, BidInputs
<1>2. CASE HandleAuctionInteraction(e)
  <2>1. e.type = "AUCTION_INTERACTION"
    BY <1>2 DEF HandleAuctionInteraction, Handling
  <2>2. CASE e.sess \in live
    BY <1>2, <2>1, <2>2, BidsInstall, InstalledEvents DEF HandleAuctionInteraction, BidInputs
  <2>3. CASE e.sess \notin live
    BY <1>2, <2>1, <2>3, DroppedEvents DEF HandleAuctionInteraction
  <2> QED
    BY <2>2, <2>3
<1>3. CASE HandleAddGeneratedBiddingObjects(e)
  BY <1>3, AddGeneratedBiddingObjectsInstalls, InstalledEvents
     DEF HandleAddGeneratedBiddingObjects, Handling
<1>4. CASE HandlePushExecutionError(e)
  BY <1>4, DroppedEvents DEF HandlePushExecutionError, Handling
<1>5. CASE HandleAddBiddingObjectsAuction(e)
  BY <1>5, DroppedEvents DEF HandleAddBiddingObjectsAuction, Handling
<1>6. CASE HandleTransmitBiddingObjects(e)
  BY <1>6, DroppedEvents DEF HandleTransmitBiddingObjects, Handling
<1>7. CASE HandleCreateSession(e)
  BY <1>7, DroppedEvents DEF HandleCreateSession, Handling
<1>8. CASE HandleRemoveSession(e)
  BY <1>8, DroppedEvents DEF HandleRemoveSession, Handling
<1> QED
  BY <1>1, <1>2, <1>3, <1>4, <1>5, <1>6, <1>7, <1>8, AddAuctionsEvents,
     ActivateAuctionsEvents, PushExecutionEvents, RemoveAuctionsEvents,
     ActivateBiddingObjectsEvents, RemoveBiddingObjectsEvents DEF HandleEvent

-----------------------------------------------------------------------------
(***************************************************************************)
(* What a handler does to the objects of the managers.                     *)
(***************************************************************************)

\* The auction's module can be loaded.
Loads(i) == AucSpec[aucs[i].name].loads

\* The auctions after the handler of e.
AuctionsAfter(e) ==
  /\ DOMAIN aucs \subseteq DOMAIN aucs'
  /\ \A i \in DOMAIN aucs :
       /\ aucs'[i].name = aucs[i].name
       /\ aucs'[i].start = aucs[i].start
       /\ aucs'[i].stop = aucs[i].stop
       /\ aucs'[i].state = "done" =>
            aucs[i].state = "done" \/ (e.type = "REMOVE_AUCTIONS" /\ i \in e.objs)
       /\ aucs'[i].state = "valid" => aucs[i].state = "valid"
       /\ ~(e.type \in AuctionLists /\ i \in e.objs) => aucs'[i].state = aucs[i].state
       /\ e.type = "REMOVE_AUCTIONS" /\ i \in e.objs => aucs'[i].state = "done"
       /\ e.type = "ACTIVATE_AUCTIONS" /\ i \in e.objs /\ (\A j \in e.objs : Loads(j)) =>
            aucs'[i].state = "active"
  /\ \A i \in DOMAIN aucs' : i \notin DOMAIN aucs =>
       /\ e.type = "ADD_AUCTIONS"
       /\ \E n \in Auctions : aucs'[i] = NewAuction(n) /\ Installed(n) = {}

\* The bidding objects after it.
ObjectsAfter(e) ==
  /\ DOMAIN objs \subseteq DOMAIN objs'
  /\ \A o \in DOMAIN objs :
       /\ objs'[o].kind = objs[o].kind /\ objs'[o].auc = objs[o].auc
       /\ objs'[o].bid = objs[o].bid /\ objs'[o].sess = objs[o].sess
       /\ objs'[o].start = objs[o].start /\ objs'[o].stop = objs[o].stop
       /\ e.type = "ACTIVATE_BIDDING_OBJECTS" /\ o \in e.objs => objs'[o].state = "active"
       /\ e.type = "REMOVE_BIDDING_OBJECTS" /\ o \in e.objs => objs'[o].state = "done"
       /\ ~(/\ e.type \in {"ACTIVATE_BIDDING_OBJECTS", "REMOVE_BIDDING_OBJECTS"}
            /\ o \in e.objs)
            => objs'[o].state = objs[o].state
  /\ \A o \in DOMAIN objs' : o \notin DOMAIN objs =>
       \/ /\ e.type = "ADD_GENERATED_BIDDING_OBJECTS"
          /\ \E l \in DOMAIN e.allocs :
               /\ objs'[o].auc = e.allocs[l].auc /\ objs'[o].stop = e.allocs[l].stop
               /\ objs'[o].kind = e.allocs[l].kind
       \/ /\ e.type \in BidInputs
          /\ \E b \in Bids, s \in Sessions \cup {NoSession} : objs'[o] = NewBid(b, s)

\* A handler that leaves the auctions alone.
LEMMA SameAuctionsAfter ==
  ASSUME NEW e, UNCHANGED aucs, e.type \notin {"REMOVE_AUCTIONS", "ACTIVATE_AUCTIONS"}
  PROVE  AuctionsAfter(e)
BY DEF AuctionsAfter

\* Every handler does to the auctions what AuctionsAfter says.
LEMMA HandlersKeepAuctions ==
  ASSUME TypeOK, NEW e \in queue, HandleEvent(e)
  PROVE  AuctionsAfter(e)
<1>1. aucs \in Seq(AuctionType) /\ \A i \in DOMAIN aucs : aucs[i] \in AuctionType
  BY ElementOfSeq, LenProperties DEF TypeOK
<1>2. CASE HandleAddAuctions(e)
  <2>1. e.type = "ADD_AUCTIONS"
    BY <1>2 DEF HandleAddAuctions, Handling
  <2>2. CASE ~Verified(e.names)
    BY <1>2, <2>1, <2>2, SameAuctionsAfter DEF HandleAddAuctions
  <2>3. CASE Verified(e.names)
    <3>1. PICK new, S : InstallsAuctions(e, new, S)
      BY <1>2, <2>3, AddAuctionsInstalls
    <3>2. ASSUME NEW i \in DOMAIN aucs', i \notin DOMAIN aucs
          PROVE  \E n \in Auctions : aucs'[i] = NewAuction(n) /\ Installed(n) = {}
      <4>1. PICK k \in DOMAIN new : i = Len(aucs) + k
        BY <3>1, <3>2, AuctionsInstalled
      <4>2. aucs'[i] = new[k]
        BY <3>1, <4>1, AuctionsInstalled
      <4>3. PICK n \in Auctions : new[k] = NewAuction(n)
        BY <3>1, <4>1 DEF InstallsAuctions
      <4>4. Installed(new[k].name) = {}
        BY <3>1, <4>1 DEF InstallsAuctions
      <4>5. new[k].name = n
        BY <4>3 DEF NewAuction
      <4> QED
        BY <4>2, <4>3, <4>4, <4>5
    <3>3. DOMAIN aucs \subseteq DOMAIN aucs' /\ \A i \in DOMAIN aucs : aucs'[i] = aucs[i]
      BY <3>1, AuctionsInstalled
    <3>4. ~(e.type = "REMOVE_AUCTIONS") /\ ~(e.type = "ACTIVATE_AUCTIONS")
      BY <2>1
    <3> QED
      BY <2>1, <3>2, <3>3, <3>4 DEF AuctionsAfter
  <2> QED
    BY <2>2, <2>3
<1>3. CASE HandleActivateAuctions(e)
  <2> DEFINE opened == {i \in e.objs : \A j \in e.objs : j <= i => Loads(j)}
  <2>1. /\ e.type = "ACTIVATE_AUCTIONS"
        /\ aucs' = IF opened = e.objs THEN WithState(aucs, e.objs, "active") ELSE aucs
    BY <1>3 DEF HandleActivateAuctions, Handling, Loads
  <2>2. (\A j \in e.objs : Loads(j)) => opened = e.objs
    OBVIOUS
  <2> HIDE DEF opened
  <2>3. CASE opened = e.objs
    BY <1>1, <2>1, <2>3, WithStateValues DEF AuctionsAfter, Installable, AuctionLists
  <2>4. CASE opened # e.objs
    BY <2>1, <2>2, <2>4 DEF AuctionsAfter
  <2> QED
    BY <2>3, <2>4
<1>4. CASE HandleRemoveAuctions(e)
  <2>1. e.type = "REMOVE_AUCTIONS" /\ aucs' = WithState(aucs, e.objs, "done")
    BY <1>4 DEF HandleRemoveAuctions, Handling
  <2> QED
    BY <1>1, <2>1, WithStateValues DEF AuctionsAfter, Installable, AuctionLists
<1>5. CASE HandleCreateSession(e)
  <2> DEFINE names == {aucs[i].name : i \in Applicable(e.sess)}
  <2>1. e.type = "CREATE_SESSION"
        /\ aucs' = [i \in DOMAIN aucs |->
                      IF aucs[i].name \in names /\ aucs[i].state # "done"
                      THEN [aucs[i] EXCEPT !.sessions = @ \cup {e.sess}]
                      ELSE aucs[i]]
    BY <1>5 DEF HandleCreateSession, Handling
  <2> HIDE DEF names
  <2>2. DOMAIN aucs' = DOMAIN aucs
    BY <2>1
  <2>3. ASSUME NEW i \in DOMAIN aucs
        PROVE  /\ aucs'[i].name = aucs[i].name /\ aucs'[i].start = aucs[i].start
               /\ aucs'[i].stop = aucs[i].stop /\ aucs'[i].state = aucs[i].state
    BY <1>1, <2>1 DEF AuctionType
  <2> QED
    BY <2>1, <2>2, <2>3 DEF AuctionsAfter
<1>6. CASE HandleAddBiddingObjects(e) \/ HandleAuctionInteraction(e)
  BY <1>6, SameAuctionsAfter
     DEF HandleAddBiddingObjects, HandleAuctionInteraction, Handling
<1>7. CASE HandlePushExecution(e) \/ HandlePushExecutionError(e)
  BY <1>7, SameAuctionsAfter
     DEF HandlePushExecution, HandlePushExecutionError, Handling
<1>8. CASE HandleActivateBiddingObjects(e) \/ HandleAddBiddingObjectsAuction(e)
           \/ HandleRemoveBiddingObjects(e) \/ HandleAddGeneratedBiddingObjects(e)
  BY <1>8, SameAuctionsAfter
     DEF HandleActivateBiddingObjects, HandleAddBiddingObjectsAuction,
         HandleRemoveBiddingObjects, HandleAddGeneratedBiddingObjects, Handling
<1>9. CASE HandleTransmitBiddingObjects(e) \/ HandleRemoveSession(e)
  BY <1>9, SameAuctionsAfter
     DEF HandleTransmitBiddingObjects, HandleRemoveSession, Handling
<1> QED
  BY <1>2, <1>3, <1>4, <1>5, <1>6, <1>7, <1>8, <1>9 DEF HandleEvent

\* A handler that leaves the bidding objects alone.
LEMMA SameObjectsAfter ==
  ASSUME NEW e, UNCHANGED objs,
         e.type \notin {"ACTIVATE_BIDDING_OBJECTS", "REMOVE_BIDDING_OBJECTS"}
  PROVE  ObjectsAfter(e)
BY DEF ObjectsAfter

\* One that installs new objects.
LEMMA InstalledObjectsAfter ==
  ASSUME TypeOK, NEW e \in queue, NEW new, NEW more, Installs(e, new, more),
         e.type \in BidInputs \cup {"ADD_GENERATED_BIDDING_OBJECTS"}
  PROVE  ObjectsAfter(e)
<1>1. e.type \notin {"ACTIVATE_BIDDING_OBJECTS", "REMOVE_BIDDING_OBJECTS"}
  BY DEF BidInputs
<1>2. ASSUME NEW o \in DOMAIN objs', o \notin DOMAIN objs
      PROVE  \E k \in DOMAIN new : objs'[o] = new[k]
  BY <1>2, ObjectsInstalled
<1>3. DOMAIN objs \subseteq DOMAIN objs' /\ \A o \in DOMAIN objs : objs'[o] = objs[o]
  BY ObjectsInstalled
<1>4. CASE e.type = "ADD_GENERATED_BIDDING_OBJECTS"
  <2>1. \A k \in DOMAIN new : \E l \in DOMAIN e.allocs :
          /\ new[k].auc = e.allocs[l].auc /\ new[k].stop = e.allocs[l].stop
          /\ new[k].kind = e.allocs[l].kind
    BY <1>4 DEF Installs
  <2>2. ASSUME NEW o \in DOMAIN objs', o \notin DOMAIN objs
        PROVE  \E l \in DOMAIN e.allocs :
                 /\ objs'[o].auc = e.allocs[l].auc /\ objs'[o].stop = e.allocs[l].stop
                 /\ objs'[o].kind = e.allocs[l].kind
    <3>1. PICK k \in DOMAIN new : objs'[o] = new[k]
      BY <1>2, <2>2
    <3> QED
      BY <2>1, <3>1
  <2> QED
    BY <1>1, <1>3, <1>4, <2>2 DEF ObjectsAfter
<1>5. CASE e.type \in BidInputs
  <2>1. \A k \in DOMAIN new : \E b \in Bids, s \in Sessions \cup {NoSession} :
          new[k] = NewBid(b, s)
    BY <1>5 DEF Installs
  <2>2. ASSUME NEW o \in DOMAIN objs', o \notin DOMAIN objs
        PROVE  \E b \in Bids, s \in Sessions \cup {NoSession} : objs'[o] = NewBid(b, s)
    <3>1. PICK k \in DOMAIN new : objs'[o] = new[k]
      BY <1>2, <2>2
    <3> QED
      BY <2>1, <3>1
  <2> QED
    BY <1>1, <1>3, <1>5, <2>2 DEF ObjectsAfter
<1> QED
  BY <1>4, <1>5

\* setState on bidding objects changes nothing else.
LEMMA ObjectStates ==
  ASSUME NEW os \in Seq(ObjectType(Installable)), NEW S, NEW state
  PROVE  /\ DOMAIN WithState(os, S, state) = DOMAIN os
         /\ \A o \in DOMAIN os : o \notin S => WithState(os, S, state)[o] = os[o]
         /\ \A o \in DOMAIN os : o \in S =>
              LET w == WithState(os, S, state)[o]
              IN  /\ w.kind = os[o].kind /\ w.auc = os[o].auc
                  /\ w.bid = os[o].bid /\ w.sess = os[o].sess
                  /\ w.start = os[o].start /\ w.stop = os[o].stop
                  /\ w.state = state
<1>1. \A o \in DOMAIN os : os[o] \in ObjectType(Installable)
  BY ElementOfSeq, LenProperties
<1>2. ASSUME NEW o \in DOMAIN os
      PROVE  LET w == [os[o] EXCEPT !.state = state]
             IN  /\ w.kind = os[o].kind /\ w.auc = os[o].auc
                 /\ w.bid = os[o].bid /\ w.sess = os[o].sess
                 /\ w.start = os[o].start /\ w.stop = os[o].stop
                 /\ w.state = state
  BY <1>1 DEF ObjectType
<1> QED
  BY <1>2 DEF WithState

\* Every handler does to the bidding objects what ObjectsAfter says.
LEMMA HandlersKeepObjects ==
  ASSUME TypeOK, NEW e \in queue, HandleEvent(e)
  PROVE  ObjectsAfter(e)
<1>1. objs \in Seq(ObjectType(Installable))
  BY DEF TypeOK
<1>2. CASE HandleAddBiddingObjects(e)
  BY <1>2, BidsInstall, InstalledObjectsAfter DEF HandleAddBiddingObjects, Handling, BidInputs
<1>3. CASE HandleAuctionInteraction(e)
  <2>1. e.type = "AUCTION_INTERACTION"
    BY <1>3 DEF HandleAuctionInteraction, Handling
  <2>2. CASE e.sess \in live
    BY <1>3, <2>1, <2>2, BidsInstall, InstalledObjectsAfter
       DEF HandleAuctionInteraction, BidInputs
  <2>3. CASE e.sess \notin live
    BY <1>3, <2>1, <2>3, SameObjectsAfter DEF HandleAuctionInteraction
  <2> QED
    BY <2>2, <2>3
<1>4. CASE HandleAddGeneratedBiddingObjects(e)
  BY <1>4, AddGeneratedBiddingObjectsInstalls, InstalledObjectsAfter
     DEF HandleAddGeneratedBiddingObjects, Handling
<1>5. CASE HandleActivateBiddingObjects(e)
  <2>1. e.type = "ACTIVATE_BIDDING_OBJECTS" /\ objs' = WithState(objs, e.objs, "active")
    BY <1>5 DEF HandleActivateBiddingObjects, Handling
  <2> QED
    BY <1>1, <2>1, ObjectStates DEF ObjectsAfter
<1>6. CASE HandleRemoveBiddingObjects(e)
  <2>1. e.type = "REMOVE_BIDDING_OBJECTS" /\ objs' = WithState(objs, e.objs, "done")
    BY <1>6 DEF HandleRemoveBiddingObjects, Handling
  <2> QED
    BY <1>1, <2>1, ObjectStates DEF ObjectsAfter
<1>7. CASE HandleAddAuctions(e) \/ HandleActivateAuctions(e) \/ HandleRemoveAuctions(e)
  BY <1>7, SameObjectsAfter
     DEF HandleAddAuctions, HandleActivateAuctions, HandleRemoveAuctions, Handling
<1>8. CASE HandlePushExecution(e) \/ HandlePushExecutionError(e)
  BY <1>8, SameObjectsAfter
     DEF HandlePushExecution, HandlePushExecutionError, Handling
<1>9. CASE HandleAddBiddingObjectsAuction(e) \/ HandleTransmitBiddingObjects(e)
  BY <1>9, SameObjectsAfter
     DEF HandleAddBiddingObjectsAuction, HandleTransmitBiddingObjects, Handling
<1>10. CASE HandleCreateSession(e) \/ HandleRemoveSession(e)
  BY <1>10, SameObjectsAfter DEF HandleCreateSession, HandleRemoveSession, Handling
<1> QED
  BY <1>2, <1>3, <1>4, <1>5, <1>6, <1>7, <1>8, <1>9, <1>10 DEF HandleEvent

\* The processes after the handler of e, and the bids that compete in them.
ProcAfter(e) ==
  /\ \A i \in DOMAIN proc' :
       i \in DOMAIN proc \/ (e.type = "ACTIVATE_AUCTIONS" /\ i \in e.objs)
  /\ \A i \in DOMAIN proc' : \A o \in proc'[i] :
       \/ /\ i \in DOMAIN proc /\ o \in proc[i]
          /\ ~(/\ e.type = "REMOVE_BIDDING_OBJECTS"
               /\ o \in e.objs /\ i \in Installed(objs[o].auc))
       \/ /\ e.type = "ADD_BIDDING_OBJECTS_AUCTION"
          /\ o \in e.objs /\ i \in Installed(objs[o].auc)

\* A handler that leaves the processes alone.
LEMMA SameProcAfter ==
  ASSUME NEW e, UNCHANGED proc, e.type # "REMOVE_BIDDING_OBJECTS"
  PROVE  ProcAfter(e)
BY DEF ProcAfter

\* Every handler does to the processes what ProcAfter says.
LEMMA HandlersKeepProcesses ==
  ASSUME NEW e \in queue, HandleEvent(e)
  PROVE  ProcAfter(e)
<1>1. CASE HandleActivateAuctions(e)
  <2> DEFINE loads(i) == AucSpec[aucs[i].name].loads
             opened == {i \in e.objs : \A j \in e.objs : j <= i => loads(j)}
  <2>1. /\ e.type = "ACTIVATE_AUCTIONS"
        /\ proc' = [i \in DOMAIN proc \cup opened |-> IF i \in opened THEN {} ELSE proc[i]]
    BY <1>1, Zenon DEF HandleActivateAuctions, Handling
  <2>2. opened \subseteq e.objs
    OBVIOUS
  <2> HIDE DEF opened
  <2> QED
    BY <2>1, <2>2 DEF ProcAfter
<1>2. CASE HandleRemoveAuctions(e)
  <2>1. PICK S : proc' = [i \in DOMAIN proc \ S |-> proc[i]]
    BY <1>2 DEF HandleRemoveAuctions
  <2>2. e.type = "REMOVE_AUCTIONS"
    BY <1>2 DEF HandleRemoveAuctions, Handling
  <2> QED
    BY <2>1, <2>2 DEF ProcAfter
<1>3. CASE HandleAddBiddingObjectsAuction(e)
  <2> DEFINE target(o) == AuctionOf(objs[o].auc)
             open(o) == \E i \in Installed(objs[o].auc) : aucs[i].state = "active"
             placed == {o \in e.objs :
                          \A p \in e.objs : p <= o => target(p) \in DOMAIN proc}
  <2>1. /\ e.type = "ADD_BIDDING_OBJECTS_AUCTION"
        /\ proc' = IF \A o \in e.objs : open(o)
                   THEN [i \in DOMAIN proc |->
                           proc[i] \cup {o \in placed : target(o) = i}]
                   ELSE proc
    BY <1>3, Zenon DEF HandleAddBiddingObjectsAuction, Handling
  <2>2. ASSUME NEW o, open(o)
        PROVE  target(o) \in Installed(objs[o].auc)
    BY <2>2 DEF AuctionOf
  <2>3. placed \subseteq e.objs
    OBVIOUS
  <2> HIDE DEF target, open, placed
  <2>4. CASE \A o \in e.objs : open(o)
    BY <2>1, <2>2, <2>3, <2>4 DEF ProcAfter
  <2>5. CASE ~(\A o \in e.objs : open(o))
    BY <2>1, <2>5, SameProcAfter
  <2> QED
    BY <2>4, <2>5
<1>4. CASE HandleRemoveBiddingObjects(e)
  <2>1. proc' = [i \in DOMAIN proc |-> proc[i] \ {o \in e.objs : i \in Installed(objs[o].auc)}]
    BY <1>4 DEF HandleRemoveBiddingObjects, WithoutBids
  <2>2. e.type = "REMOVE_BIDDING_OBJECTS"
    BY <1>4 DEF HandleRemoveBiddingObjects, Handling
  <2> QED
    BY <2>1, <2>2 DEF ProcAfter
<1>5. CASE HandleAddAuctions(e) \/ HandlePushExecution(e) \/ HandlePushExecutionError(e)
  BY <1>5, SameProcAfter
     DEF HandleAddAuctions, HandlePushExecution, HandlePushExecutionError, Handling
<1>6. CASE HandleAddBiddingObjects(e) \/ HandleAuctionInteraction(e)
           \/ HandleActivateBiddingObjects(e)
  BY <1>6, SameProcAfter
     DEF HandleAddBiddingObjects, HandleAuctionInteraction, HandleActivateBiddingObjects,
         Handling
<1>7. CASE HandleAddGeneratedBiddingObjects(e) \/ HandleTransmitBiddingObjects(e)
  BY <1>7, SameProcAfter
     DEF HandleAddGeneratedBiddingObjects, HandleTransmitBiddingObjects, Handling
<1>8. CASE HandleCreateSession(e) \/ HandleRemoveSession(e)
  BY <1>8, SameProcAfter DEF HandleCreateSession, HandleRemoveSession, Handling
<1> QED
  BY <1>1, <1>2, <1>3, <1>4, <1>5, <1>6, <1>7, <1>8 DEF HandleEvent

\* What executions have produced, after the handler of e.
MadeAfter(e) ==
  /\ made \subseteq made'
  /\ \A m \in made' : m \in made \/ (/\ e.type = "PUSH_EXECUTION"
                                     /\ e.index \in DOMAIN proc
                                     /\ Made(e, m))

\* Only an execution makes allocations.
LEMMA HandlersMake ==
  ASSUME TypeOK, NEW e \in queue, HandleEvent(e)
  PROVE  MadeAfter(e)
<1>1. CASE HandlePushExecution(e)
  <2>1. e.type = "PUSH_EXECUTION" /\ e.index \in DOMAIN proc
    BY <1>1 DEF HandlePushExecution, Handling
  <2> QED
    BY <1>1, <2>1, PushExecutionQueue DEF MadeAfter
<1>2. CASE UNCHANGED made
  BY <1>2 DEF MadeAfter
<1>3. CASE HandleAddAuctions(e) \/ HandleActivateAuctions(e) \/ HandleRemoveAuctions(e)
           \/ HandlePushExecutionError(e)
  BY <1>2, <1>3 DEF HandleAddAuctions, HandleActivateAuctions, HandleRemoveAuctions,
     HandlePushExecutionError
<1>4. CASE HandleAddBiddingObjects(e) \/ HandleAuctionInteraction(e)
           \/ HandleActivateBiddingObjects(e) \/ HandleAddBiddingObjectsAuction(e)
  BY <1>2, <1>4 DEF HandleAddBiddingObjects, HandleAuctionInteraction,
     HandleActivateBiddingObjects, HandleAddBiddingObjectsAuction
<1>5. CASE HandleRemoveBiddingObjects(e) \/ HandleAddGeneratedBiddingObjects(e)
           \/ HandleTransmitBiddingObjects(e)
  BY <1>2, <1>5 DEF HandleRemoveBiddingObjects, HandleAddGeneratedBiddingObjects,
     HandleTransmitBiddingObjects
<1>6. CASE HandleCreateSession(e) \/ HandleRemoveSession(e)
  BY <1>2, <1>6 DEF HandleCreateSession, HandleRemoveSession
<1> QED
  BY <1>1, <1>3, <1>4, <1>5, <1>6 DEF HandleEvent

\* A handler takes the head of the queue, when it is due, and no time; only a
\* transmission can stop the daemon.
LEMMA HandlersRun ==
  ASSUME NEW e \in queue, HandleEvent(e)
  PROVE  /\ IsHead(queue, e) /\ e.at <= now
         /\ now' = now
         /\ HandleTransmitBiddingObjects(e) \/ UNCHANGED up
<1>1. CASE HandleAddAuctions(e) \/ HandleActivateAuctions(e) \/ HandleRemoveAuctions(e)
           \/ HandlePushExecution(e) \/ HandlePushExecutionError(e)
  BY <1>1 DEF HandleAddAuctions, HandleActivateAuctions, HandleRemoveAuctions,
     HandlePushExecution, HandlePushExecutionError, Handling
<1>2. CASE HandleAddBiddingObjects(e) \/ HandleAuctionInteraction(e)
           \/ HandleActivateBiddingObjects(e) \/ HandleAddBiddingObjectsAuction(e)
  BY <1>2 DEF HandleAddBiddingObjects, HandleAuctionInteraction,
     HandleActivateBiddingObjects, HandleAddBiddingObjectsAuction, Handling
<1>3. CASE HandleRemoveBiddingObjects(e) \/ HandleAddGeneratedBiddingObjects(e)
           \/ HandleTransmitBiddingObjects(e) \/ HandleCreateSession(e)
           \/ HandleRemoveSession(e)
  BY <1>3 DEF HandleRemoveBiddingObjects, HandleAddGeneratedBiddingObjects,
     HandleTransmitBiddingObjects, HandleCreateSession, HandleRemoveSession, Handling
<1> QED
  BY <1>1, <1>2, <1>3 DEF HandleEvent

\* Everything that is used below of a handler's step.
Effects(e) ==
  /\ Accounted(e) /\ Remains(e)
  /\ AuctionsAfter(e) /\ ObjectsAfter(e) /\ ProcAfter(e) /\ MadeAfter(e)
  /\ IsHead(queue, e) /\ e.at <= now /\ now' = now

\* The summary of all handlers.
LEMMA HandlersHaveEffects ==
  ASSUME TypeOK, NEW e \in queue, HandleEvent(e)
  PROVE  Effects(e)
BY HandlersAccount, HandlersKeepAuctions, HandlersKeepObjects, HandlersKeepProcesses,
   HandlersMake, HandlersRun DEF Effects

\* A step without a handler: an input joins the queue, or time passes.
Idle ==
  /\ UNCHANGED <<aucs, objs, proc, up, made>>
  /\ now' \in Int /\ now <= now'
  /\ queue \subseteq queue'
  /\ \A f \in queue' :
       \/ f \in queue
       \/ now' = now /\ \E i \in inputs : f.at = now /\ SameEvent(f, InputEvent(i))
  /\ \/ now' = now
     \/ UNCHANGED queue /\ now' = now + 1 /\ \A e \in queue : now - e.at < MaxLag

\* The steps that are no handler.
LEMMA OtherStepsIdle ==
  ASSUME TypeOK,
         (\E i \in inputs : Arrive(i)) \/ Tick \/ UNCHANGED vars
  PROVE  Idle
<1>1. now \in Int
  BY NowInt
<1>2. ASSUME NEW i \in inputs, Arrive(i)
      PROVE  Idle
  <2> DEFINE Ev == EventType(DOMAIN aucs, DOMAIN objs)
             S == {InputEvent(i)}
  <2>1. S \subseteq Ev /\ \A g \in S : g = InputEvent(i)
    BY InputEventType
  <2>2. /\ queue' = Enqueue(queue, S)
        /\ UNCHANGED <<now, aucs, objs, proc, up, made>>
    BY <1>2 DEF Arrive
  <2>3. queue \subseteq Ev
    BY DEF TypeOK
  <2>4. InputEvent(i).at = now
    <3>1. i \in InputType
      BY InputsAssumption DEF TypeOK
    <3> QED
      BY <3>1 DEF InputEvent, InputType
  <2> HIDE DEF S, Ev
  <2>5. /\ \A f \in queue' : f \in queue \/ \E g \in S : SameEvent(f, g)
        /\ queue \subseteq queue'
    BY <2>1, <2>2, <2>3, EnqueuedSame DEF Ev
  <2>6. \A f \in queue' : f \in queue \/ (f.at = now /\ SameEvent(f, InputEvent(i)))
    BY <2>1, <2>4, <2>5 DEF SameEvent
  <2> QED
    BY <1>1, <2>2, <2>5, <2>6 DEF Idle
<1>3. CASE Tick
  BY <1>1, <1>3 DEF Tick, Idle
<1>4. CASE UNCHANGED vars
  BY <1>1, <1>4 DEF vars, Idle
<1> QED
  BY <1>2, <1>3, <1>4

\* An input is not an event that a handler schedules.
LEMMA InputsAreInputs ==
  ASSUME TypeOK, NEW i \in inputs, NEW f, SameEvent(f, InputEvent(i))
  PROVE  /\ f.type \notin ListTypes \cup {"ADD_BIDDING_OBJECTS_AUCTION", "PUSH_EXECUTION",
                                          "ADD_GENERATED_BIDDING_OBJECTS"}
         /\ f.type \in BidInputs => i.type \in BidInputs /\ f.bids = i.bids
<1>1. i \in InputType
  BY InputsAssumption DEF TypeOK
<1>2. InputEvent(i).type = i.type
  BY <1>1 DEF InputEvent, InputType
<1>3. i.type \in {"ADD_AUCTIONS", "ADD_BIDDING_OBJECTS", "AUCTION_INTERACTION",
                  "CREATE_SESSION", "REMOVE_SESSION"}
  BY <1>1 DEF InputType
<1>4. i.type \in BidInputs => InputEvent(i).bids = i.bids
  BY <1>1 DEF InputEvent, InputType, BidInputs
<1> QED
  BY <1>2, <1>3, <1>4 DEF SameEvent, ListTypes, AuctionLists, BidLists

-----------------------------------------------------------------------------
(***************************************************************************)
(* What is done stays done.                                                *)
(***************************************************************************)

\* An auction in a pending activation is not done, and a removal leaves it done.
LEMMA DoneAuctionsStay ==
  ASSUME IInv, NEW e \in queue, HandleEvent(e), NEW i \in DOMAIN aucs,
         aucs[i].state = "done"
  PROVE  aucs'[i].state = "done"
<1>1. AuctionsAfter(e)
  BY HandlersKeepAuctions DEF IInv
<1>2. ~(e.type = "ACTIVATE_AUCTIONS" /\ i \in e.objs)
  BY DEF IInv, AuctionPart, ActivationsCurrent, Pending
<1> QED
  BY <1>1, <1>2 DEF AuctionsAfter, AuctionLists

\* The same for bidding objects.
LEMMA DoneObjectsStay ==
  ASSUME IInv, NEW e \in queue, HandleEvent(e), NEW o \in DOMAIN objs,
         objs[o].state = "done"
  PROVE  objs'[o].state = "done"
<1>1. ObjectsAfter(e)
  BY HandlersKeepObjects DEF IInv
<1>2. ~(e.type = "ACTIVATE_BIDDING_OBJECTS" /\ o \in e.objs)
  BY DEF IInv, BidActivationsCurrent, Pending
<1> QED
  BY <1>1, <1>2 DEF ObjectsAfter

\* Nothing that was stored as done comes back: not by an event that was in
\* the queue at that time, and not by a file that is loaded again.
THEOREM DoneStays == Spec => DoneIsFinal
<1> DEFINE Stays ==
      /\ \A i \in DOMAIN aucs : aucs[i].state = "done" => aucs'[i].state = "done"
      /\ \A o \in DOMAIN objs : objs[o].state = "done" => objs'[o].state = "done"
<1>1. IInv /\ [Next]_vars => [Stays]_vars
  <2> SUFFICES ASSUME IInv, [Next]_vars PROVE [Stays]_vars
    OBVIOUS
  <2>1. ASSUME NEW e \in queue, HandleEvent(e) PROVE Stays
    BY <2>1, DoneAuctionsStay, DoneObjectsStay
  <2>2. ASSUME NEW i \in inputs, Arrive(i) PROVE Stays
    BY <2>2 DEF Arrive
  <2>3. CASE Tick
    BY <2>3 DEF Tick
  <2> HIDE DEF Stays
  <2> QED
    BY <2>1, <2>2, <2>3 DEF Next
<1>2. Spec => [][Stays]_vars
  <2> HIDE DEF Stays
  <2> QED
    BY <1>1, Consistent, PTL DEF Spec
<1> QED
  BY <1>2 DEF DoneIsFinal

-----------------------------------------------------------------------------
(***************************************************************************)
(* Why the daemon keeps running.                                           *)
(***************************************************************************)

\* a belongs to auction i, and ends no later.
ByEnd(a, i) ==
  /\ aucs[i].name = a.auc
  /\ aucs[i].stop # 0 => a.stop # 0 /\ a.stop <= aucs[i].stop

\* A removal of auctions expires in the second in which they end ...
EndsOnTime ==
  \A r \in Pending("REMOVE_AUCTIONS") : \A i \in r.objs :
    aucs[i].stop # 0 /\ Sec(r.at) = aucs[i].stop

\* ... so an auction that is done has ended.
DoneEnded ==
  \A i \in DOMAIN aucs :
    aucs[i].state = "done" => aucs[i].stop # 0 /\ aucs[i].stop <= Sec(now)

\* An execution carries the end of its auction and does not come before its
\* start.
ExecutionsOwn ==
  \A x \in Pending("PUSH_EXECUTION") :
    x.stop = aucs[x.index].stop /\ aucs[x.index].start <= Sec(x.at)

\* No auction starts before time began.
StartsNatural == \A i \in DOMAIN aucs : aucs[i].start >= 0

\* A bid competes in an auction of the name it was made for.
BidsPlaced ==
  \A i \in DOMAIN proc : \A o \in proc[i] : objs[o].auc = aucs[i].name

\* An allocation ends with the auction that made it, at the latest.
GeneratedInside ==
  \A g \in Pending("ADD_GENERATED_BIDDING_OBJECTS") : \A k \in DOMAIN g.allocs :
    \E i \in DOMAIN aucs : ByEnd(g.allocs[k], i)

\* The removal of o comes before transmission t, or the auction i that made o
\* is there and o ends after t.
RemovedOrOpen(o, t, i) ==
  \E r \in Pending("REMOVE_BIDDING_OBJECTS") :
    /\ o \in r.objs
    /\ Before(r, t) \/ (objs[o].stop > Sec(t.at) /\ aucs[i].state # "done")

\* Whatever is to be sent ends with an auction that is there, and in time.
TransmissionsCovered ==
  \A t \in Pending("TRANSMIT_BIDDING_OBJECTS") : \A o \in t.objs :
    \E i \in DOMAIN aucs :
      ByEnd(objs[o], i) /\ (aucs[i].stop # 0 => RemovedOrOpen(o, t, i))

\* The times of auctions.
AuctionTimes == EndsOnTime /\ DoneEnded /\ ExecutionsOwn /\ StartsNatural

\* What keeps the daemon running.
RunInv ==
  /\ TypeOK
  /\ AuctionTimes
  /\ BidsPlaced
  /\ GeneratedInside
  /\ TransmissionsCovered
  /\ up

\* The fields of an event in the queue.
LEMMA QueueEvent ==
  ASSUME TypeOK, NEW f \in queue
  PROVE  /\ f.at \in Int /\ f.rank \in Nat
         /\ f.type \in AuctionLists => f.objs \subseteq DOMAIN aucs
         /\ f.type \in BidLists \cup {"ADD_BIDDING_OBJECTS_AUCTION"} =>
              f.objs \subseteq DOMAIN objs
         /\ f.type = "PUSH_EXECUTION" =>
              f.index \in DOMAIN aucs /\ f.stop \in Nat /\ f.ival \in Nat \ {0}
         /\ f.type = "ADD_GENERATED_BIDDING_OBJECTS" =>
              f.allocs \in Seq(ObjectType({"new"}))
BY EventShape DEF TypeOK

\* The fields of an installed auction.
LEMMA AuctionFields ==
  ASSUME TypeOK, NEW i \in DOMAIN aucs
  PROVE  aucs[i].start \in Int /\ aucs[i].stop \in Nat /\ aucs[i].name \in Auctions
<1>1. aucs[i] \in AuctionType
  BY ElementOfSeq, LenProperties DEF TypeOK
<1> QED
  BY <1>1 DEF AuctionType

\* The fields of an installed bidding object.
LEMMA ObjectFields ==
  ASSUME TypeOK, NEW o \in DOMAIN objs
  PROVE  objs[o].start \in Int /\ objs[o].stop \in Int
<1>1. objs[o] \in ObjectType(Installable)
  BY ElementOfSeq, LenProperties DEF TypeOK
<1> QED
  BY <1>1 DEF ObjectType

\* The fields of an auction when it is installed.
LEMMA NewAuctionFields ==
  ASSUME TypeOK, NEW n \in Auctions
  PROVE  /\ NewAuction(n).start \in Int /\ NewAuction(n).start >= 0
         /\ NewAuction(n).start >= Sec(now)
         /\ NewAuction(n).state = "valid" /\ NewAuction(n).name = n
         /\ NewAuction(n).stop = AucSpec[n].stop
<1>1. AucSpec[n].start \in Nat
  BY SpecAssumption
<1>2. Sec(now) \in Int
  BY NowInt, TimesInt
<1>3. StartOf(AucSpec[n].start) \in Int /\ StartOf(AucSpec[n].start) >= 0
      /\ StartOf(AucSpec[n].start) >= Sec(now)
  BY <1>1, <1>2 DEF StartOf, Later
<1> QED
  BY <1>3 DEF NewAuction

\* A removal is made for the end of its auctions.
LEMMA EndsOnTimeKept ==
  ASSUME RunInv, TypeOK', NEW e \in queue, Effects(e)
  PROVE  EndsOnTime'
<1> SUFFICES ASSUME NEW f \in queue', f.type = "REMOVE_AUCTIONS", NEW i \in f.objs
             PROVE  aucs'[i].stop # 0 /\ Sec(f.at) = aucs'[i].stop
  BY DEF EndsOnTime, Pending
<1>1. CASE Survives(e, f)
  <2>1. PICK g \in queue : LeftOf(f, g)
    BY <1>1 DEF Survives, Rest
  <2>2. g.type = "REMOVE_AUCTIONS" /\ f.at = g.at /\ i \in g.objs
    BY <2>1 DEF LeftOf, ListTypes, AuctionLists
  <2>3. aucs[i].stop # 0 /\ Sec(g.at) = aucs[i].stop
    BY <2>2 DEF RunInv, AuctionTimes, EndsOnTime, Pending
  <2>4. i \in DOMAIN aucs
    BY <2>2, QueueEvent DEF RunInv, AuctionLists
  <2> QED
    BY <2>2, <2>3, <2>4 DEF Effects, AuctionsAfter
<1>2. CASE Adds(e, f)
  <2>1. AddsAuctions(e, f)
    BY <1>2 DEF Adds, Opens, Repeats, Clears, Offers, InstallsObjects, ForNewObjects, BidLists
  <2>2. NewAuctionIndex(i) /\ aucs'[i].stop # 0 /\ f.at = At(now, aucs'[i].stop)
    BY <2>1 DEF AddsAuctions
  <2>3. aucs'[i].stop \in Int
    <3>1. i \in DOMAIN aucs'
      BY <2>2 DEF NewAuctionIndex
    <3>2. aucs'[i] \in AuctionType
      BY <3>1, ElementOfSeq, LenProperties DEF TypeOK
    <3> QED
      BY <3>2 DEF AuctionType
  <2> QED
    BY <2>2, <2>3, NowInt, SecOfAt DEF RunInv
<1> QED
  BY <1>1, <1>2 DEF Effects, Accounted

\* An auction becomes done when its removal has expired.
LEMMA DoneEndedKept ==
  ASSUME RunInv, NEW e \in queue, Effects(e)
  PROVE  DoneEnded'
<1>1. now \in Int /\ e.at \in Int /\ e.at <= now /\ now' = now
  BY NowInt, QueueEvent DEF RunInv, Effects
<1> SUFFICES ASSUME NEW i \in DOMAIN aucs', aucs'[i].state = "done"
             PROVE  aucs'[i].stop # 0 /\ aucs'[i].stop <= Sec(now)
  BY <1>1 DEF DoneEnded
<1>2. CASE i \in DOMAIN aucs /\ aucs[i].state = "done"
  BY <1>2 DEF RunInv, AuctionTimes, DoneEnded, Effects, AuctionsAfter
<1>3. CASE i \in DOMAIN aucs /\ e.type = "REMOVE_AUCTIONS" /\ i \in e.objs
  <2>1. aucs[i].stop # 0 /\ Sec(e.at) = aucs[i].stop
    BY <1>3 DEF RunInv, AuctionTimes, EndsOnTime, Pending
  <2>2. Sec(e.at) <= Sec(now)
    BY <1>1, SecMonotone
  <2> QED
    BY <1>3, <2>1, <2>2 DEF Effects, AuctionsAfter
<1>4. CASE i \notin DOMAIN aucs
  <2>1. PICK n \in Auctions : aucs'[i] = NewAuction(n)
    BY <1>4 DEF Effects, AuctionsAfter
  <2> QED
    BY <2>1, NewAuctionFields DEF RunInv
<1> QED
  BY <1>2, <1>3, <1>4 DEF Effects, AuctionsAfter

\* An execution is made with the end of its auction, and after its start.
LEMMA ExecutionsOwnKept ==
  ASSUME RunInv, NEW e \in queue, Effects(e), TypeOK'
  PROVE  ExecutionsOwn'
<1> SUFFICES ASSUME NEW f \in queue', f.type = "PUSH_EXECUTION"
             PROVE  f.stop = aucs'[f.index].stop /\ aucs'[f.index].start <= Sec(f.at)
  BY DEF ExecutionsOwn, Pending
<1>1. f.at \in Int
  BY EventShape DEF TypeOK
<1>2. CASE Survives(e, f)
  <2>1. f \in queue
    BY <1>2 DEF Survives, Rest, LeftOf, ListTypes, AuctionLists, BidLists
  <2>2. f.index \in DOMAIN aucs
    BY <2>1, QueueEvent DEF RunInv
  <2> QED
    BY <2>1, <2>2 DEF RunInv, AuctionTimes, ExecutionsOwn, Pending, Effects, AuctionsAfter
<1>3. CASE Opens(e, f)
  <2>1. f.index \in DOMAIN aucs /\ f.stop = aucs[f.index].stop
        /\ At(now, aucs[f.index].start) <= f.at
    BY <1>3, QueueEvent DEF Opens, RunInv, AuctionLists
  <2>2. aucs[f.index].start \in Int
    BY <2>1, AuctionFields DEF RunInv
  <2>3. /\ At(now, aucs[f.index].start) \in Int
        /\ Sec(At(now, aucs[f.index].start)) = aucs[f.index].start
    BY <2>2, NowInt, SecOfAt DEF RunInv
  <2>4. aucs[f.index].start <= Sec(f.at)
    BY <1>1, <2>1, <2>3, SecMonotone
  <2> QED
    BY <2>1, <2>4 DEF Effects, AuctionsAfter
<1>4. CASE Repeats(e, f)
  <2>1. /\ e.type = "PUSH_EXECUTION" /\ f.index = e.index /\ f.stop = e.stop
        /\ Sec(e.at) + e.ival <= Sec(f.at)
    BY <1>4 DEF Repeats
  <2>2. e.index \in DOMAIN aucs /\ e.ival \in Nat /\ e.at \in Int
    BY <2>1, QueueEvent DEF RunInv
  <2>3. e.stop = aucs[e.index].stop /\ aucs[e.index].start <= Sec(e.at)
    BY <2>1 DEF RunInv, AuctionTimes, ExecutionsOwn, Pending
  <2>4. aucs[e.index].start \in Int /\ Sec(e.at) \in Int /\ Sec(f.at) \in Int
    BY <1>1, <2>2, AuctionFields, TimesInt DEF RunInv
  <2>5. aucs[e.index].start <= Sec(f.at)
    BY <2>1, <2>2, <2>3, <2>4
  <2> QED
    BY <2>1, <2>2, <2>3, <2>5 DEF Effects, AuctionsAfter
<1>5. ASSUME Adds(e, f)
      PROVE  Opens(e, f) \/ Repeats(e, f)
  BY <1>5 DEF Adds, AddsAuctions, Clears, Offers, InstallsObjects, ForNewObjects, BidLists,
     AuctionLists
<1> QED
  BY <1>2, <1>3, <1>4, <1>5 DEF Effects, Accounted

\* Installed auctions keep their starts.
LEMMA StartsNaturalKept ==
  ASSUME RunInv, NEW e \in queue, Effects(e)
  PROVE  StartsNatural'
<1> SUFFICES ASSUME NEW i \in DOMAIN aucs'
             PROVE  aucs'[i].start >= 0
  BY DEF StartsNatural
<1>1. CASE i \in DOMAIN aucs
  BY <1>1 DEF RunInv, AuctionTimes, StartsNatural, Effects, AuctionsAfter
<1>2. CASE i \notin DOMAIN aucs
  <2>1. PICK n \in Auctions : aucs'[i] = NewAuction(n)
    BY <1>2 DEF Effects, AuctionsAfter
  <2> QED
    BY <2>1, NewAuctionFields DEF RunInv
<1> QED
  BY <1>1, <1>2

\* Bids are put into the auctions of their name only.
LEMMA BidsPlacedKept ==
  ASSUME TypeOK, BidsPlaced, NEW e \in queue, Effects(e)
  PROVE  BidsPlaced'
<1> SUFFICES ASSUME NEW i \in DOMAIN proc', NEW o \in proc'[i]
             PROVE  objs'[o].auc = aucs'[i].name
  BY DEF BidsPlaced
<1>1. CASE i \in DOMAIN proc /\ o \in proc[i]
  <2>1. i \in DOMAIN aucs /\ o \in DOMAIN objs
    BY <1>1 DEF TypeOK
  <2>2. objs[o].auc = aucs[i].name
    BY <1>1 DEF BidsPlaced
  <2> QED
    BY <2>1, <2>2 DEF Effects, AuctionsAfter, ObjectsAfter
<1>2. CASE /\ e.type = "ADD_BIDDING_OBJECTS_AUCTION"
           /\ o \in e.objs /\ i \in Installed(objs[o].auc)
  <2>1. i \in DOMAIN aucs /\ o \in DOMAIN objs /\ objs[o].auc = aucs[i].name
    BY <1>2, QueueEvent DEF Installed
  <2> QED
    BY <2>1 DEF Effects, AuctionsAfter, ObjectsAfter
<1> QED
  BY <1>1, <1>2 DEF Effects, ProcAfter

\* The window of an execution ends with the auction, at the latest.
LEMMA WindowEnds ==
  ASSUME RunInv, NEW e \in queue, e.type = "PUSH_EXECUTION"
  PROVE  /\ WindowStop(e) \in Int
         /\ aucs[e.index].stop # 0 =>
              /\ WindowStop(e) # 0
              /\ WindowStop(e) <= aucs[e.index].stop
<1>1. /\ e.index \in DOMAIN aucs /\ e.ival \in Nat \ {0} /\ e.at \in Int
  BY QueueEvent DEF RunInv
<1>2. e.stop = aucs[e.index].stop /\ aucs[e.index].start <= Sec(e.at)
  BY DEF RunInv, AuctionTimes, ExecutionsOwn, Pending
<1>3. aucs[e.index].stop \in Nat /\ aucs[e.index].start \in Int /\ Sec(e.at) \in Int
  BY <1>1, AuctionFields, TimesInt DEF RunInv
<1>4. aucs[e.index].start >= 0
  BY <1>1 DEF RunInv, AuctionTimes, StartsNatural
<1> QED
  BY <1>1, <1>2, <1>3, <1>4 DEF WindowStop, Sooner

\* Allocations end with the windows of their auctions.
LEMMA GeneratedInsideKept ==
  ASSUME RunInv, NEW e \in queue, Effects(e)
  PROVE  GeneratedInside'
<1> SUFFICES ASSUME NEW f \in queue', f.type = "ADD_GENERATED_BIDDING_OBJECTS",
                    NEW k \in DOMAIN f.allocs
             PROVE  \E i \in DOMAIN aucs' : ByEnd(f.allocs[k], i)'
  BY DEF GeneratedInside, Pending, ByEnd
<1>1. ASSUME NEW i \in DOMAIN aucs, ByEnd(f.allocs[k], i)
      PROVE  i \in DOMAIN aucs' /\ ByEnd(f.allocs[k], i)'
  BY <1>1 DEF ByEnd, Effects, AuctionsAfter
<1>2. CASE Survives(e, f)
  <2>1. PICK g \in queue : LeftOf(f, g)
    BY <1>2 DEF Survives, Rest
  <2>2. g.type = f.type
    BY <2>1 DEF LeftOf
  <2>3. PICK l \in DOMAIN g.allocs : f.allocs[k] = g.allocs[l]
    BY <2>1 DEF LeftOf
  <2>4. \E i \in DOMAIN aucs : ByEnd(f.allocs[k], i)
    BY <2>2, <2>3 DEF RunInv, GeneratedInside, Pending
  <2> QED
    BY <1>1, <2>4
<1>3. CASE Adds(e, f)
  <2>1. Clears(e, f)
    BY <1>3 DEF Adds, AddsAuctions, Opens, Repeats, Offers, InstallsObjects, ForNewObjects,
       BidLists, AuctionLists
  <2>2. PICK o \in proc[e.index] : f.allocs[k] = Allocation(o, Sec(e.at), WindowStop(e))
    BY <2>1 DEF Clears
  <2>3. /\ f.allocs[k].auc = objs[o].auc
        /\ f.allocs[k].stop = WindowStop(e)
    BY <2>2 DEF Allocation
  <2>4. e.type = "PUSH_EXECUTION" /\ e.index \in DOMAIN aucs /\ e.index \in DOMAIN proc
    BY <2>1, QueueEvent DEF Clears, RunInv
  <2>5. objs[o].auc = aucs[e.index].name
    BY <2>4 DEF RunInv, BidsPlaced
  <2>6. ByEnd(f.allocs[k], e.index)
    BY <2>3, <2>4, <2>5, WindowEnds DEF ByEnd
  <2> QED
    BY <1>1, <2>4, <2>6
<1> QED
  BY <1>2, <1>3 DEF Effects, Accounted

\* What is scheduled for each new object: its activation, and its removal when
\* it has an end.
LEMMA ScheduledEach ==
  ASSUME NEW new, NEW base, NEW k \in DOMAIN new
  PROVE  /\ \E g \in ScheduleObjects(new, base) :
              g.type = "ACTIVATE_BIDDING_OBJECTS" /\ base + k \in g.objs
         /\ new[k].stop # 0 =>
              \E g \in ScheduleObjects(new, base) :
                /\ g.type = "REMOVE_BIDDING_OBJECTS" /\ base + k \in g.objs
                /\ g.at = At(now, new[k].stop) /\ g.rank = 2
<1>1. \E g \in Activations(new, base) :
        g.type = "ACTIVATE_BIDDING_OBJECTS" /\ base + k \in g.objs
  <2> DEFINE t == StartOf(new[k].start)
             g == [at |-> At(now, t), rank |-> 1, type |-> "ACTIVATE_BIDDING_OBJECTS",
                   objs |-> StartingAt(new, base, t)]
  <2>1. g \in Activations(new, base)
    BY DEF Activations
  <2>2. base + k \in StartingAt(new, base, t)
    BY DEF StartingAt
  <2> HIDE DEF t
  <2>3. g.type = "ACTIVATE_BIDDING_OBJECTS" /\ g.objs = StartingAt(new, base, t)
    OBVIOUS
  <2> QED
    BY <2>1, <2>2, <2>3
<1>2. ASSUME new[k].stop # 0
      PROVE  \E g \in Removals("REMOVE_BIDDING_OBJECTS", new, base) :
               /\ g.type = "REMOVE_BIDDING_OBJECTS" /\ base + k \in g.objs
               /\ g.at = At(now, new[k].stop) /\ g.rank = 2
  <2> DEFINE t == new[k].stop
             g == [at |-> At(now, t), rank |-> 2, type |-> "REMOVE_BIDDING_OBJECTS",
                   objs |-> EndingAt(new, base, t)]
  <2>1. g \in Removals("REMOVE_BIDDING_OBJECTS", new, base)
    BY <1>2 DEF Removals
  <2>2. base + k \in EndingAt(new, base, t)
    BY DEF EndingAt
  <2> HIDE DEF t
  <2>3. /\ g.type = "REMOVE_BIDDING_OBJECTS" /\ g.objs = EndingAt(new, base, t)
        /\ g.at = At(now, t) /\ g.rank = 2
    OBVIOUS
  <2> HIDE DEF g
  <2> QED
    BY <2>1, <2>2, <2>3 DEF t
<1> QED
  BY <1>1, <1>2 DEF ScheduleObjects

\* So those events are in the queue, the removal behind everything of its time.
LEMMA NewObjectsScheduled ==
  ASSUME TypeOK, NEW e \in queue, NEW new, NEW more, Installs(e, new, more),
         queue' # Rest(e) \/ ~(e.type \in BidInputs /\ AddThrows(e.bids)),
         NEW k \in DOMAIN new
  PROVE  /\ \E f \in queue' :
              f.type = "ACTIVATE_BIDDING_OBJECTS" /\ Len(objs) + k \in f.objs
         /\ new[k].stop # 0 =>
              \E f \in queue' :
                /\ f.type = "REMOVE_BIDDING_OBJECTS" /\ Len(objs) + k \in f.objs
                /\ f.at = At(now, new[k].stop) /\ f.rank = LastRank(Rest(e), f.at) + 2
<1> DEFINE Ev2 == EventType(DOMAIN aucs, DOMAIN objs')
           S == ScheduleObjects(new, Len(objs)) \cup more
           base == Len(objs)
<1>1. Rest(e) \subseteq Ev2 /\ S \subseteq Ev2
  BY InstalledQueue
<1>2. queue' = Enqueue(Rest(e), S)
  BY DEF Installs
<1>3. \A g \in S : Added(Rest(e), g) \in queue' /\ SameEvent(Added(Rest(e), g), g)
                   /\ Added(Rest(e), g).rank = LastRank(Rest(e), g.at) + g.rank
  BY <1>1, <1>2, EnqueuedSame, AddedSame
<1>4. PICK a \in ScheduleObjects(new, base) :
        a.type = "ACTIVATE_BIDDING_OBJECTS" /\ base + k \in a.objs
  BY ScheduledEach
<1>5. new[k].stop # 0 =>
        \E g \in ScheduleObjects(new, base) :
          /\ g.type = "REMOVE_BIDDING_OBJECTS" /\ base + k \in g.objs
          /\ g.at = At(now, new[k].stop) /\ g.rank = 2
  BY ScheduledEach
<1>6. \A g \in ScheduleObjects(new, base) : g \in S
  OBVIOUS
<1> HIDE DEF S, base
<1>7. /\ Added(Rest(e), a) \in queue' /\ base + k \in Added(Rest(e), a).objs
      /\ Added(Rest(e), a).type = "ACTIVATE_BIDDING_OBJECTS"
  BY <1>3, <1>4, <1>6 DEF SameEvent, ListTypes, BidLists
<1>8. ASSUME new[k].stop # 0
      PROVE  \E f \in queue' :
               /\ f.type = "REMOVE_BIDDING_OBJECTS" /\ base + k \in f.objs
               /\ f.at = At(now, new[k].stop) /\ f.rank = LastRank(Rest(e), f.at) + 2
  <2>1. PICK g \in S : /\ g.type = "REMOVE_BIDDING_OBJECTS" /\ base + k \in g.objs
                       /\ g.at = At(now, new[k].stop) /\ g.rank = 2
    BY <1>5, <1>6, <1>8
  <2> DEFINE f == Added(Rest(e), g)
  <2>2. f \in queue' /\ SameEvent(f, g) /\ f.rank = LastRank(Rest(e), g.at) + g.rank
    BY <1>3
  <2> HIDE DEF f
  <2>3. f.type = g.type /\ f.at = g.at /\ f.objs = g.objs
    BY <2>1, <2>2 DEF SameEvent, ListTypes, BidLists
  <2> QED
    BY <2>1, <2>2, <2>3
<1> QED
  BY <1>7, <1>8 DEF base

\* The type of an event says which handler takes it.
LEMMA TypedHandler ==
  ASSUME NEW e, HandleEvent(e)
  PROVE  /\ e.type = "ADD_GENERATED_BIDDING_OBJECTS" => HandleAddGeneratedBiddingObjects(e)
         /\ e.type \in BidInputs =>
              HandleAddBiddingObjects(e) \/ HandleAuctionInteraction(e)
         /\ e.type = "REMOVE_AUCTIONS" => HandleRemoveAuctions(e)
         /\ e.type = "ADD_AUCTIONS" => HandleAddAuctions(e)
BY Zenon DEF HandleEvent, BidInputs, Handling, HandleAddAuctions, HandleActivateAuctions,
   HandlePushExecution, HandlePushExecutionError, HandleRemoveAuctions,
   HandleAddBiddingObjects, HandleAuctionInteraction, HandleActivateBiddingObjects,
   HandleAddBiddingObjectsAuction, HandleRemoveBiddingObjects,
   HandleAddGeneratedBiddingObjects, HandleTransmitBiddingObjects,
   HandleCreateSession, HandleRemoveSession

\* A removal that is due is put before the transmission of the same objects:
\* handleAddGeneratedBiddingObjects adds it first.
LEMMA RemovedBeforeTransmission ==
  ASSUME RunInv, NEW e \in queue, Effects(e), HandleEvent(e),
         NEW f \in queue', InstallsObjects(e, f), f.type = "TRANSMIT_BIDDING_OBJECTS",
         NEW o \in f.objs, objs'[o].stop # 0, objs'[o].stop <= Sec(now)
  PROVE  \E r \in queue' :
           /\ r.type = "REMOVE_BIDDING_OBJECTS" /\ o \in r.objs
           /\ Before(r, f)
<1> DEFINE base == Len(objs)
<1>1. TypeOK /\ now \in Int
  BY NowInt DEF RunInv
<1>2. e.type = "ADD_GENERATED_BIDDING_OBJECTS" /\ ForNewObjects(f)
  BY DEF InstallsObjects
<1>3. HandleAddGeneratedBiddingObjects(e)
  BY <1>2, TypedHandler
<1>4. PICK new, more : Installs(e, new, more)
  BY <1>1, <1>3, AddGeneratedBiddingObjectsInstalls
<1> DEFINE Ev2 == EventType(DOMAIN aucs, DOMAIN objs')
           S == ScheduleObjects(new, base) \cup more
<1>5. queue' = Enqueue(Rest(e), S)
  BY <1>2, <1>4 DEF Installs, BidInputs
<1>6. Rest(e) \subseteq Ev2 /\ S \subseteq Ev2
  BY <1>1, <1>4, InstalledQueue
<1>7. f \notin Rest(e)
  <2>1. o \notin DOMAIN objs
    BY <1>2 DEF ForNewObjects, NewObjectIndex
  <2> QED
    BY <1>1, <2>1, QueueEvent DEF Rest, BidLists
<1>8. PICK g \in S : f = Added(Rest(e), g) /\ SameEvent(f, g)
  BY <1>5, <1>6, <1>7, EnqueuedSame
<1>9. g \in more
  <2>1. g.type = "TRANSMIT_BIDDING_OBJECTS"
    BY <1>8 DEF SameEvent
  <2> QED
    BY <1>1, <1>4, <2>1, ScheduledForNew
<1>10. g.at = now /\ g.rank = 3
  BY <1>4, <1>9 DEF Installs
<1>11. LastRank(Rest(e), now) \in Nat /\ f.at = now /\ f.rank = LastRank(Rest(e), now) + 3
  BY <1>6, <1>8, <1>10, AddedSame DEF SameEvent
<1> HIDE DEF S
<1>12. PICK k \in DOMAIN new : o = base + k
  BY <1>1, <1>2, <1>4, ObjectsInstalled DEF ForNewObjects, NewObjectIndex
<1>13. objs'[o] = new[k]
  BY <1>1, <1>4, <1>12, ObjectsInstalled
<1>14. PICK r \in queue' :
         /\ r.type = "REMOVE_BIDDING_OBJECTS" /\ o \in r.objs
         /\ r.at = At(now, new[k].stop) /\ r.rank = LastRank(Rest(e), r.at) + 2
  BY <1>1, <1>2, <1>4, <1>12, <1>13, NewObjectsScheduled DEF BidInputs
<1>15. new[k].stop \in Int
  <2>1. new[k] \in ObjectType(Installable)
    BY <1>4, ElementOfSeq, LenProperties DEF Installs
  <2> QED
    BY <2>1 DEF ObjectType
<1>16. r.at \in Int /\ r.at <= now
  BY <1>1, <1>13, <1>14, <1>15, AtDue, TimesInt
<1> QED
  BY <1>1, <1>11, <1>14, <1>16 DEF Before

\* In any case it is put in the queue.
LEMMA RemovalOfGenerated ==
  ASSUME RunInv, NEW e \in queue, HandleEvent(e), e.type = "ADD_GENERATED_BIDDING_OBJECTS",
         NEW o, NewObjectIndex(o), objs'[o].stop # 0
  PROVE  \E r \in queue' : r.type = "REMOVE_BIDDING_OBJECTS" /\ o \in r.objs
<1>1. TypeOK /\ HandleAddGeneratedBiddingObjects(e)
  BY TypedHandler DEF RunInv
<1>2. PICK new, more : Installs(e, new, more)
  BY <1>1, AddGeneratedBiddingObjectsInstalls
<1>3. PICK k \in DOMAIN new : o = Len(objs) + k
  BY <1>1, <1>2, ObjectsInstalled DEF NewObjectIndex
<1>4. objs'[o] = new[k]
  BY <1>1, <1>2, <1>3, ObjectsInstalled
<1> QED
  BY <1>1, <1>2, <1>3, <1>4, NewObjectsScheduled DEF BidInputs

\* What was to be removed still is, unless it is in the list that is removed now.
LEMMA ListedStill ==
  ASSUME NEW e \in queue, Effects(e), NEW r \in queue, NEW x \in r.objs,
         r.type \in ListTypes, r.type # e.type \/ x \notin e.objs,
         ~Struck(e, r, x)
  PROVE  \E f \in queue' : LeftOf(f, r) /\ x \in f.objs
<1>1. CASE r \in Rest(e)
  BY <1>1 DEF Effects, Remains
<1>2. CASE r = e
  BY <1>2
<1> QED
  BY <1>1, <1>2 DEF Rest

\* A transmission stays behind the removal, or its auction stays open.
LEMMA TransmissionsCoveredKept ==
  ASSUME RunInv, NEW e \in queue, Effects(e), HandleEvent(e)
  PROVE  TransmissionsCovered'
<1> SUFFICES ASSUME NEW f \in queue', f.type = "TRANSMIT_BIDDING_OBJECTS", NEW o \in f.objs
             PROVE  \E i \in DOMAIN aucs' :
                      ByEnd(objs[o], i)' /\ (aucs'[i].stop # 0 => RemovedOrOpen(o, f, i)')
  BY DEF TransmissionsCovered, Pending, ByEnd, RemovedOrOpen
<1>1. /\ TypeOK /\ now \in Int /\ e.at \in Int /\ now' = now
      /\ \A g \in queue : g # e => Before(e, g)
  BY NowInt, QueueEvent DEF RunInv, Effects, IsHead
<1>2. CASE Survives(e, f)
  <2>1. PICK g \in Rest(e) :
          /\ LeftOf(f, g)
          /\ e.type = "REMOVE_BIDDING_OBJECTS" => f.objs = g.objs \ e.objs
    BY <1>2 DEF Survives, BidLists
  <2>2. /\ g \in queue /\ g # e /\ g.type = "TRANSMIT_BIDDING_OBJECTS"
        /\ f.at = g.at /\ f.rank = g.rank /\ o \in g.objs
    BY <2>1 DEF Rest, LeftOf, ListTypes, BidLists
  <2>3. PICK i \in DOMAIN aucs :
          ByEnd(objs[o], i) /\ (aucs[i].stop # 0 => RemovedOrOpen(o, g, i))
    BY <2>2 DEF RunInv, TransmissionsCovered, Pending
  <2>4. o \in DOMAIN objs /\ g.at \in Int
    BY <1>1, <2>2, QueueEvent DEF BidLists
  <2>5. /\ i \in DOMAIN aucs'
        /\ aucs'[i].name = aucs[i].name /\ aucs'[i].stop = aucs[i].stop
        /\ objs'[o].auc = objs[o].auc /\ objs'[o].stop = objs[o].stop
    BY <2>4 DEF Effects, AuctionsAfter, ObjectsAfter
  <2>6. ByEnd(objs[o], i)'
    BY <2>3, <2>5 DEF ByEnd
  <2>7. ASSUME aucs[i].stop # 0
        PROVE  RemovedOrOpen(o, f, i)'
    <3>1. PICK r \in queue :
            /\ r.type = "REMOVE_BIDDING_OBJECTS" /\ o \in r.objs
            /\ Before(r, g) \/ (objs[o].stop > Sec(g.at) /\ aucs[i].state # "done")
      BY <2>3, <2>7 DEF RemovedOrOpen, Pending
    <3>2. e.type = "REMOVE_BIDDING_OBJECTS" => o \notin e.objs
      BY <2>1
    <3>3. PICK r2 \in queue' : LeftOf(r2, r) /\ o \in r2.objs
      BY <3>1, <3>2, ListedStill DEF Struck, ListTypes, AuctionLists, BidLists
    <3>4. r2.type = "REMOVE_BIDDING_OBJECTS" /\ r2.at = r.at /\ r2.rank = r.rank
      BY <3>1, <3>3 DEF LeftOf
    <3>5. CASE Before(r, g)
      <4>1. Before(r2, f)
        BY <2>2, <3>4, <3>5 DEF Before
      <4> QED
        BY <3>3, <3>4, <4>1 DEF RemovedOrOpen, Pending, Before
    <3>6. CASE objs[o].stop > Sec(g.at) /\ aucs[i].state # "done"
      <4>1. ~(e.type = "REMOVE_AUCTIONS" /\ i \in e.objs)
        <5> SUFFICES ASSUME e.type = "REMOVE_AUCTIONS", i \in e.objs PROVE FALSE
          OBVIOUS
        <5>1. Sec(e.at) = aucs[i].stop
          BY DEF RunInv, AuctionTimes, EndsOnTime, Pending
        <5>2. e.at <= g.at
          BY <1>1, <2>2, <2>4 DEF Before
        <5>3. Sec(e.at) <= Sec(g.at)
          BY <1>1, <2>4, <5>2, SecMonotone
        <5>4. objs[o].stop <= aucs[i].stop
          BY <2>3, <2>7 DEF ByEnd
        <5>5. objs[o].stop \in Int /\ aucs[i].stop \in Int /\ Sec(g.at) \in Int
          <6>1. objs[o].stop \in Int
            BY <1>1, <2>4, ObjectFields
          <6>2. aucs[i].stop \in Int
            BY <1>1, AuctionFields
          <6> QED
            BY <2>4, <6>1, <6>2, TimesInt
        <5> QED
          BY <3>6, <5>1, <5>3, <5>4, <5>5
      <4>2. aucs'[i].state # "done"
        BY <3>6, <4>1 DEF Effects, AuctionsAfter
      <4> QED
        BY <2>2, <2>5, <3>3, <3>4, <3>6, <4>2 DEF RemovedOrOpen, Pending
    <3> QED
      BY <3>1, <3>5, <3>6
  <2> QED
    BY <2>5, <2>6, <2>7
<1>3. CASE Adds(e, f)
  <2>1. InstallsObjects(e, f)
    BY <1>3 DEF Adds, AddsAuctions, Opens, Repeats, Clears, Offers, AuctionLists
  <2>2. /\ e.type = "ADD_GENERATED_BIDDING_OBJECTS"
        /\ NewObjectIndex(o) /\ f.at = now
    BY <2>1 DEF InstallsObjects, ForNewObjects
  <2>3. PICK l \in DOMAIN e.allocs :
          objs'[o].auc = e.allocs[l].auc /\ objs'[o].stop = e.allocs[l].stop
    BY <2>2 DEF NewObjectIndex, Effects, ObjectsAfter, BidInputs
  <2>4. PICK i \in DOMAIN aucs : ByEnd(e.allocs[l], i)
    BY <2>2 DEF RunInv, GeneratedInside, Pending
  <2>5. /\ i \in DOMAIN aucs'
        /\ aucs'[i].name = aucs[i].name /\ aucs'[i].stop = aucs[i].stop
        /\ aucs'[i].state = "done" => aucs[i].state = "done"
    BY <2>2 DEF Effects, AuctionsAfter
  <2>6. ByEnd(objs[o], i)'
    BY <2>3, <2>4, <2>5 DEF ByEnd
  <2>7. ASSUME aucs[i].stop # 0
        PROVE  RemovedOrOpen(o, f, i)'
    <3>1. objs'[o].stop # 0 /\ objs'[o].stop <= aucs[i].stop
      BY <2>3, <2>4, <2>7 DEF ByEnd
    <3>2. objs'[o].stop \in Int /\ aucs[i].stop \in Int /\ Sec(now) \in Int
      <4>1. /\ e.allocs \in Seq(ObjectType({"new"}))
        BY <1>1, <2>2, QueueEvent
      <4>2. e.allocs[l] \in ObjectType({"new"})
        BY <4>1, ElementOfSeq, LenProperties
      <4>3. objs'[o].stop \in Int
        BY <2>3, <4>2 DEF ObjectType
      <4>4. aucs[i].stop \in Int
        BY <1>1, AuctionFields
      <4> QED
        BY <1>1, <4>3, <4>4, TimesInt
    <3>3. CASE objs'[o].stop <= Sec(now)
      BY <2>1, <3>1, <3>3, RemovedBeforeTransmission DEF RemovedOrOpen, Pending, Before
    <3>4. CASE objs'[o].stop > Sec(now)
      <4>1. aucs[i].state # "done"
        BY <3>1, <3>2, <3>4 DEF RunInv, AuctionTimes, DoneEnded
      <4>2. \E r \in queue' : r.type = "REMOVE_BIDDING_OBJECTS" /\ o \in r.objs
        BY <2>1, <2>2, <3>1, RemovalOfGenerated
      <4> QED
        BY <2>2, <2>5, <3>4, <4>1, <4>2 DEF RemovedOrOpen, Pending
    <3> QED
      BY <3>2, <3>3, <3>4
  <2> QED
    BY <2>5, <2>6, <2>7
<1> QED
  BY <1>2, <1>3 DEF Effects, Accounted

\* The message of a transmission finds the auction it is built from.
LEMMA TransmissionSucceeds ==
  ASSUME RunInv, NEW e \in queue, HandleTransmitBiddingObjects(e)
  PROVE  up'
<1>1. /\ TypeOK /\ e.type = "TRANSMIT_BIDDING_OBJECTS" /\ IsHead(queue, e)
      /\ e.at \in Int /\ e.rank \in Nat /\ e.at <= now /\ now \in Int
  BY NowInt, QueueEvent DEF RunInv, HandleTransmitBiddingObjects, Handling
<1>2. ASSUME NEW o \in Reached(e)
      PROVE  Installed(objs[o].auc) # {}
  <2>1. o \in e.objs
    BY DEF Reached
  <2>2. PICK i \in DOMAIN aucs :
          ByEnd(objs[o], i) /\ (aucs[i].stop # 0 => RemovedOrOpen(o, e, i))
    BY <1>1, <2>1 DEF RunInv, TransmissionsCovered, Pending
  <2>3. aucs[i].state # "done"
    <3>1. CASE aucs[i].stop = 0
      BY <3>1 DEF RunInv, AuctionTimes, DoneEnded
    <3>2. CASE aucs[i].stop # 0
      <4>1. PICK r \in queue :
              /\ r.type = "REMOVE_BIDDING_OBJECTS"
              /\ Before(r, e) \/ aucs[i].state # "done"
        BY <2>2, <3>2 DEF RemovedOrOpen, Pending
      <4>2. r # e /\ Before(e, r)
        BY <1>1, <4>1 DEF IsHead
      <4>3. r.at \in Int /\ r.rank \in Nat
        BY <1>1, QueueEvent
      <4>4. ~Before(r, e)
        BY <1>1, <4>2, <4>3 DEF Before
      <4> QED
        BY <4>1, <4>4
    <3> QED
      BY <3>1, <3>2
  <2>4. i \in Installed(objs[o].auc)
    BY <2>2, <2>3 DEF Installed, ByEnd
  <2> QED
    BY <2>4
<1> QED
  BY <1>2 DEF HandleTransmitBiddingObjects

\* No handler breaks what keeps the daemon running ...
LEMMA HandlersKeepRunning ==
  ASSUME RunInv, NEW e \in queue, HandleEvent(e), TypeOK'
  PROVE  RunInv'
<1>1. Effects(e)
  BY HandlersHaveEffects DEF RunInv
<1>2. EndsOnTime' /\ DoneEnded' /\ ExecutionsOwn' /\ StartsNatural'
  BY <1>1, EndsOnTimeKept, DoneEndedKept, ExecutionsOwnKept, StartsNaturalKept
<1>3. AuctionTimes'
  BY <1>2 DEF AuctionTimes
<1>4. BidsPlaced' /\ GeneratedInside' /\ TransmissionsCovered'
  BY <1>1, BidsPlacedKept, GeneratedInsideKept, TransmissionsCoveredKept DEF RunInv
<1>5. up'
  BY HandlersRun, TransmissionSucceeds DEF RunInv
<1> QED
  BY <1>3, <1>4, <1>5 DEF RunInv

\* ... nor does an arriving input or the passing of time.
LEMMA IdleKeepsRunning ==
  ASSUME RunInv, Idle, TypeOK'
  PROVE  RunInv'
<1>1. /\ UNCHANGED <<aucs, objs, proc, up>> /\ now' \in Int /\ now <= now'
      /\ queue \subseteq queue'
  BY DEF Idle
<1>2. ASSUME NEW f \in queue',
             f.type \in ListTypes \cup {"PUSH_EXECUTION", "ADD_GENERATED_BIDDING_OBJECTS"}
      PROVE  f \in queue
  BY <1>2, InputsAreInputs DEF Idle, RunInv
<1>3. EndsOnTime'
  BY <1>1, <1>2 DEF RunInv, AuctionTimes, EndsOnTime, Pending, ListTypes, AuctionLists
<1>4. DoneEnded'
  <2>1. Sec(now) <= Sec(now') /\ Sec(now) \in Int /\ Sec(now') \in Int
    BY <1>1, NowInt, SecMonotone, TimesInt DEF RunInv
  <2> SUFFICES ASSUME NEW i \in DOMAIN aucs, aucs[i].state = "done"
               PROVE  aucs[i].stop # 0 /\ aucs[i].stop <= Sec(now')
    BY <1>1 DEF DoneEnded, Sec
  <2>2. aucs[i].stop # 0 /\ aucs[i].stop <= Sec(now) /\ aucs[i].stop \in Int
    BY AuctionFields DEF RunInv, AuctionTimes, DoneEnded
  <2> QED
    BY <2>1, <2>2
<1>5. ExecutionsOwn'
  BY <1>1, <1>2 DEF RunInv, AuctionTimes, ExecutionsOwn, Pending
<1>6. StartsNatural'
  BY <1>1 DEF RunInv, AuctionTimes, StartsNatural
<1>7. BidsPlaced'
  BY <1>1 DEF RunInv, BidsPlaced
<1>8. GeneratedInside'
  BY <1>1, <1>2 DEF RunInv, GeneratedInside, Pending, ByEnd
<1>9. TransmissionsCovered'
  <2> SUFFICES ASSUME NEW f \in queue', f.type = "TRANSMIT_BIDDING_OBJECTS", NEW o \in f.objs
               PROVE  \E i \in DOMAIN aucs' :
                        ByEnd(objs[o], i)' /\ (aucs'[i].stop # 0 => RemovedOrOpen(o, f, i)')
    BY DEF TransmissionsCovered, Pending, ByEnd, RemovedOrOpen
  <2>1. f \in queue
    BY <1>2 DEF ListTypes, BidLists
  <2>2. PICK i \in DOMAIN aucs :
          ByEnd(objs[o], i) /\ (aucs[i].stop # 0 => RemovedOrOpen(o, f, i))
    BY <2>1 DEF RunInv, TransmissionsCovered, Pending
  <2>3. ByEnd(objs[o], i)'
    BY <1>1, <2>2 DEF ByEnd
  <2>4. RemovedOrOpen(o, f, i) => RemovedOrOpen(o, f, i)'
    BY <1>1 DEF RemovedOrOpen, Pending, Before
  <2> QED
    BY <1>1, <2>2, <2>3, <2>4
<1>10. up'
  BY <1>1 DEF RunInv
<1> QED
  BY <1>3, <1>4, <1>5, <1>6, <1>7, <1>8, <1>9, <1>10 DEF RunInv, AuctionTimes

\* So it holds always.
LEMMA RunInvariant == Spec => []RunInv
<1>1. Init => RunInv
  <2> SUFFICES ASSUME Init PROVE RunInv
    OBVIOUS
  <2>1. TypeOK
    BY InitType
  <2>2. queue = {} /\ aucs = << >> /\ DOMAIN proc = {} /\ up
    BY DEF Init
  <2>3. DOMAIN aucs = {}
    BY <2>2
  <2> QED
    BY <2>1, <2>2, <2>3 DEF RunInv, AuctionTimes, EndsOnTime, DoneEnded, ExecutionsOwn,
       StartsNatural, BidsPlaced, GeneratedInside, TransmissionsCovered, Pending
<1>2. RunInv /\ TypeOK' /\ [Next]_vars => RunInv'
  <2> SUFFICES ASSUME RunInv, TypeOK', [Next]_vars PROVE RunInv'
    OBVIOUS
  <2>1. ASSUME NEW e \in queue, HandleEvent(e)
        PROVE  RunInv'
    BY <2>1, HandlersKeepRunning
  <2>2. ASSUME (\E i \in inputs : Arrive(i)) \/ Tick \/ UNCHANGED vars
        PROVE  RunInv'
    BY <2>2, OtherStepsIdle, IdleKeepsRunning DEF RunInv
  <2> QED
    BY <2>1, <2>2 DEF Next
<1> QED
  BY <1>1, <1>2, TypeCorrect, PTL DEF Spec

\* No step stops the daemon: the auction that the message of an allocation is
\* built from is installed when handleTransmitBiddingObjects runs, however
\* late (Auctioner::handleAddGeneratedBiddingObjects adds the removal of the
\* allocation before its transmission).
THEOREM KeepsRunning == Spec => []Running
<1>1. RunInv => Running
  BY DEF RunInv, Running
<1> QED
  BY <1>1, RunInvariant, PTL

-----------------------------------------------------------------------------
(***************************************************************************)
(* What is installed is scheduled.                                         *)
(***************************************************************************)

\* New auctions are in an activation and, when they have an end, in a removal.
LEMMA NewAuctionsScheduled ==
  ASSUME TypeOK, NEW e \in queue, HandleEvent(e), NEW i, NewAuctionIndex(i),
         e.type = "ADD_AUCTIONS"
  PROVE  /\ \E f \in queue' : f.type = "ACTIVATE_AUCTIONS" /\ i \in f.objs
         /\ aucs'[i].stop # 0 =>
              \E f \in queue' : f.type = "REMOVE_AUCTIONS" /\ i \in f.objs
<1>1. HandleAddAuctions(e) /\ e.type = "ADD_AUCTIONS"
  BY TypedHandler
<1>2. Verified(e.names)
  BY <1>1, Zenon DEF HandleAddAuctions, NewAuctionIndex
<1>3. PICK new, S : InstallsAuctions(e, new, S)
  BY <1>1, <1>2, AddAuctionsInstalls
<1>4. PICK k \in DOMAIN new : i = Len(aucs) + k
  BY <1>3, AuctionsInstalled DEF NewAuctionIndex
<1>5. aucs'[i] = new[k]
  BY <1>3, <1>4, AuctionsInstalled
<1> DEFINE Ev2 == EventType(DOMAIN aucs', DOMAIN objs)
<1>6. S \subseteq Ev2 /\ Rest(e) \subseteq Ev2 /\ queue' = Enqueue(Rest(e), S)
  <2>1. S \subseteq Ev2 /\ queue' = Enqueue(Rest(e), S)
    BY <1>3 DEF InstallsAuctions
  <2>2. Rest(e) \subseteq EventType(DOMAIN aucs, DOMAIN objs)
    BY RestType
  <2>3. DOMAIN aucs \subseteq DOMAIN aucs'
    BY <1>3, AuctionsInstalled
  <2> QED
    BY <2>1, <2>2, <2>3, EventMonotone
<1>7. \A g \in S : Added(Rest(e), g) \in queue' /\ SameEvent(Added(Rest(e), g), g)
  BY <1>6, EnqueuedSame
<1>8. ASSUME NEW g \in S, g.type \in AuctionLists, i \in g.objs
      PROVE  \E f \in queue' : f.type = g.type /\ i \in f.objs
  BY <1>7, <1>8 DEF SameEvent, ListTypes
<1>9. /\ \E g \in S : g.type = "ACTIVATE_AUCTIONS" /\ i \in g.objs
      /\ aucs'[i].stop # 0 => \E g \in S : g.type = "REMOVE_AUCTIONS" /\ i \in g.objs
  BY <1>3, <1>4, <1>5 DEF InstallsAuctions
<1> QED
  BY <1>8, <1>9 DEF AuctionLists

\* An auction that has an end and has not reached it is in a removal.
EndsScheduled ==
  \A i \in DOMAIN aucs : aucs[i].state # "done" /\ aucs[i].stop # 0 =>
    \E e \in Pending("REMOVE_AUCTIONS") : i \in e.objs

\* An auction that has not been opened is in an activation.
StartsScheduled ==
  \A i \in DOMAIN aucs : aucs[i].state = "valid" =>
    \E e \in Pending("ACTIVATE_AUCTIONS") : i \in e.objs

\* The end of an auction is the one it was specified with.
EndsSpecified ==
  \A i \in DOMAIN aucs : aucs[i].stop = AucSpec[aucs[i].name].stop

\* What is proved of the ends of auctions.
EndsInv == TypeOK /\ EndsScheduled /\ EndsSpecified

\* A removal leaves the queue when the auctions in it are done.
LEMMA EndsScheduledKept ==
  ASSUME IInv, TypeOK, EndsScheduled, NEW e \in queue, HandleEvent(e), Effects(e)
  PROVE  EndsScheduled'
<1> SUFFICES ASSUME NEW i \in DOMAIN aucs', aucs'[i].state # "done", aucs'[i].stop # 0
             PROVE  \E f \in queue' : f.type = "REMOVE_AUCTIONS" /\ i \in f.objs
  BY DEF EndsScheduled, Pending
<1>1. CASE i \in DOMAIN aucs
  <2>1. /\ aucs[i].stop # 0
        /\ e.type = "REMOVE_AUCTIONS" => i \notin e.objs
    BY <1>1 DEF Effects, AuctionsAfter
  <2>2. aucs[i].state # "done"
    BY <1>1, DoneAuctionsStay
  <2>3. PICK r \in queue : r.type = "REMOVE_AUCTIONS" /\ i \in r.objs
    BY <1>1, <2>1, <2>2 DEF EndsScheduled, Pending
  <2>4. PICK f \in queue' : LeftOf(f, r) /\ i \in f.objs
    BY <2>1, <2>3, ListedStill DEF Struck, ListTypes, AuctionLists, BidLists
  <2> QED
    BY <2>3, <2>4 DEF LeftOf
<1>2. CASE i \notin DOMAIN aucs
  BY <1>2, NewAuctionsScheduled DEF Effects, AuctionsAfter, NewAuctionIndex
<1> QED
  BY <1>1, <1>2

\* Auctions keep their ends.
LEMMA EndsSpecifiedKept ==
  ASSUME TypeOK, EndsSpecified, NEW e, Effects(e)
  PROVE  EndsSpecified'
<1> SUFFICES ASSUME NEW i \in DOMAIN aucs'
             PROVE  aucs'[i].stop = AucSpec[aucs'[i].name].stop
  BY DEF EndsSpecified
<1>1. CASE i \in DOMAIN aucs
  BY <1>1 DEF EndsSpecified, Effects, AuctionsAfter
<1>2. CASE i \notin DOMAIN aucs
  <2>1. PICK n \in Auctions : aucs'[i] = NewAuction(n)
    BY <1>2 DEF Effects, AuctionsAfter
  <2> QED
    BY <2>1, NewAuctionFields
<1> QED
  BY <1>1, <1>2

\* The ends of auctions are always scheduled.
LEMMA EndsInvariant == Spec => []EndsInv
<1>1. Init => EndsInv
  <2> SUFFICES ASSUME Init PROVE EndsInv
    OBVIOUS
  <2>1. aucs = << >>
    BY DEF Init
  <2>2. DOMAIN aucs = {}
    BY <2>1
  <2> QED
    BY <2>2, InitType DEF EndsInv, EndsScheduled, EndsSpecified
<1>2. EndsInv /\ IInv /\ TypeOK' /\ [Next]_vars => EndsInv'
  <2> SUFFICES ASSUME EndsInv, IInv, TypeOK', [Next]_vars PROVE EndsInv'
    OBVIOUS
  <2>1. ASSUME NEW e \in queue, HandleEvent(e)
        PROVE  EndsScheduled' /\ EndsSpecified'
    BY <2>1, HandlersHaveEffects, EndsScheduledKept, EndsSpecifiedKept DEF EndsInv
  <2>2. ASSUME Idle
        PROVE  EndsScheduled' /\ EndsSpecified'
    BY <2>2 DEF EndsInv, EndsScheduled, EndsSpecified, Idle, Pending
  <2>3. EndsScheduled' /\ EndsSpecified'
    BY <2>1, <2>2, OtherStepsIdle DEF Next, EndsInv
  <2> QED
    BY <2>3 DEF EndsInv
<1> QED
  BY <1>1, <1>2, TypeCorrect, Consistent, PTL DEF Spec

\* Every auction's module can be loaded.
ModulesLoad == \A n \in Auctions : AucSpec[n].loads

\* An activation leaves the queue when its auctions are open.
LEMMA StartsScheduledKept ==
  ASSUME ModulesLoad, TypeOK, StartsScheduled, NEW e \in queue, HandleEvent(e), Effects(e)
  PROVE  StartsScheduled'
<1> SUFFICES ASSUME NEW i \in DOMAIN aucs', aucs'[i].state = "valid"
             PROVE  \E f \in queue' : f.type = "ACTIVATE_AUCTIONS" /\ i \in f.objs
  BY DEF StartsScheduled, Pending
<1>1. CASE i \in DOMAIN aucs
  <2>1. aucs[i].state = "valid" /\ (e.type = "REMOVE_AUCTIONS" => i \notin e.objs)
    BY <1>1 DEF Effects, AuctionsAfter
  <2>2. e.type = "ACTIVATE_AUCTIONS" => i \notin e.objs
    <3> SUFFICES ASSUME e.type = "ACTIVATE_AUCTIONS", i \in e.objs PROVE FALSE
      OBVIOUS
    <3>1. \A j \in e.objs : Loads(j)
      BY QueueEvent, AuctionFields DEF AuctionLists, Loads, ModulesLoad
    <3> QED
      BY <1>1, <3>1 DEF Effects, AuctionsAfter
  <2>3. PICK a \in queue : a.type = "ACTIVATE_AUCTIONS" /\ i \in a.objs
    BY <1>1, <2>1 DEF StartsScheduled, Pending
  <2>4. PICK f \in queue' : LeftOf(f, a) /\ i \in f.objs
    BY <2>1, <2>2, <2>3, ListedStill DEF Struck, ListTypes, AuctionLists, BidLists
  <2> QED
    BY <2>3, <2>4 DEF LeftOf
<1>2. CASE i \notin DOMAIN aucs
  BY <1>2, NewAuctionsScheduled DEF Effects, AuctionsAfter, NewAuctionIndex
<1> QED
  BY <1>1, <1>2

\* No list of bids is one that addAuctioningObjects gives up on.
ListsAccepted ==
  \A i \in Inputs : i.type \in BidInputs => ~AddThrows(i.bids)

\* Nor is one that waits in the queue.
ListsPending == \A f \in queue : f.type \in BidInputs => ~AddThrows(f.bids)

\* Whichever handler brings a new object installs it as Installs says.
LEMMA InstallingHandlers ==
  ASSUME TypeOK, NEW e \in queue, HandleEvent(e), NEW o, NewObjectIndex(o),
         e.type \in BidInputs \cup {"ADD_GENERATED_BIDDING_OBJECTS"}
  PROVE  \E new, more : Installs(e, new, more)
<1>1. CASE e.type = "ADD_GENERATED_BIDDING_OBJECTS"
  BY <1>1, TypedHandler, AddGeneratedBiddingObjectsInstalls
<1>2. CASE e.type \in BidInputs
  <2>1. HandleAddBiddingObjects(e) \/ HandleAuctionInteraction(e)
    BY <1>2, TypedHandler
  <2>2. AddBids(e)
    BY <2>1, Zenon DEF HandleAddBiddingObjects, HandleAuctionInteraction, NewObjectIndex
  <2> QED
    BY <1>2, <2>2, BidsInstall
<1> QED
  BY <1>1, <1>2

\* Bids stay in their activations and removals until these are handled.
LEMMA BidsScheduledKept ==
  ASSUME IInv, TypeOK, ListsPending, BidsScheduled,
         NEW e \in queue, HandleEvent(e), Effects(e)
  PROVE  BidsScheduled'
<1> DEFINE In(type, o) == \E f \in queue' : f.type = type /\ o \in f.objs
<1> SUFFICES ASSUME NEW o \in DOMAIN objs'
             PROVE  /\ objs'[o].state = "valid" => In("ACTIVATE_BIDDING_OBJECTS", o)
                    /\ objs'[o].state # "done" /\ objs'[o].stop # 0
                         => In("REMOVE_BIDDING_OBJECTS", o)
  BY DEF BidsScheduled, Pending
<1>1. CASE o \in DOMAIN objs
  <2>1. ASSUME objs'[o].state = "valid"
        PROVE  In("ACTIVATE_BIDDING_OBJECTS", o)
    <3>1. ~(/\ e.type \in {"ACTIVATE_BIDDING_OBJECTS", "REMOVE_BIDDING_OBJECTS"}
            /\ o \in e.objs)
      BY <1>1, <2>1 DEF Effects, ObjectsAfter
    <3>2. objs[o].state = "valid"
      BY <1>1, <2>1, <3>1 DEF Effects, ObjectsAfter
    <3>3. PICK a \in queue : a.type = "ACTIVATE_BIDDING_OBJECTS" /\ o \in a.objs
      BY <1>1, <3>2 DEF BidsScheduled, Pending
    <3>4. PICK f \in queue' : LeftOf(f, a) /\ o \in f.objs
      BY <3>1, <3>3, ListedStill DEF Struck, ListTypes, AuctionLists, BidLists
    <3> QED
      BY <3>3, <3>4 DEF LeftOf
  <2>2. ASSUME objs'[o].state # "done", objs'[o].stop # 0
        PROVE  In("REMOVE_BIDDING_OBJECTS", o)
    <3>1. ~(e.type = "REMOVE_BIDDING_OBJECTS" /\ o \in e.objs)
      BY <1>1, <2>2 DEF Effects, ObjectsAfter
    <3>2. objs[o].stop # 0
      BY <1>1, <2>2 DEF Effects, ObjectsAfter
    <3>3. objs[o].state # "done"
      <4> SUFFICES ASSUME objs[o].state = "done" PROVE FALSE
        OBVIOUS
      <4>1. CASE e.type = "ACTIVATE_BIDDING_OBJECTS" /\ o \in e.objs
        BY <4>1 DEF IInv, BidActivationsCurrent, Pending
      <4> QED
        BY <1>1, <2>2, <3>1, <4>1 DEF Effects, ObjectsAfter
    <3>4. PICK r \in queue : r.type = "REMOVE_BIDDING_OBJECTS" /\ o \in r.objs
      BY <1>1, <3>2, <3>3 DEF BidsScheduled, Pending
    <3>5. PICK f \in queue' : LeftOf(f, r) /\ o \in f.objs
      BY <3>1, <3>4, ListedStill DEF Struck, ListTypes, AuctionLists, BidLists
    <3> QED
      BY <3>4, <3>5 DEF LeftOf
  <2> QED
    BY <2>1, <2>2
<1>2. CASE o \notin DOMAIN objs
  <2>1. e.type \in BidInputs \cup {"ADD_GENERATED_BIDDING_OBJECTS"}
    BY <1>2 DEF Effects, ObjectsAfter
  <2>2. PICK new, more : Installs(e, new, more)
    BY <1>2, <2>1, InstallingHandlers DEF NewObjectIndex
  <2>3. PICK k \in DOMAIN new : o = Len(objs) + k
    BY <1>2, <2>2, ObjectsInstalled
  <2>4. objs'[o] = new[k]
    BY <2>2, <2>3, ObjectsInstalled
  <2>5. ~(e.type \in BidInputs /\ AddThrows(e.bids))
    BY DEF ListsPending
  <2> QED
    BY <2>2, <2>3, <2>4, <2>5, NewObjectsScheduled
<1> QED
  BY <1>1, <1>2

\* No handler adds a list of bids.
LEMMA ListsPendingKept ==
  ASSUME ListsPending, NEW e \in queue, Effects(e)
  PROVE  ListsPending'
<1> SUFFICES ASSUME NEW f \in queue', f.type \in BidInputs
             PROVE  ~AddThrows(f.bids)
  BY DEF ListsPending
<1>1. CASE Survives(e, f)
  <2>1. f \in queue
    BY <1>1 DEF Survives, Rest, LeftOf, ListTypes, AuctionLists, BidLists, BidInputs
  <2> QED
    BY <2>1 DEF ListsPending
<1>2. ~Adds(e, f)
  BY DEF Adds, AddsAuctions, Opens, Repeats, Clears, Offers, InstallsObjects,
     ForNewObjects, BidInputs, AuctionLists, BidLists
<1> QED
  BY <1>1, <1>2 DEF Effects, Accounted

\* Nothing that addAuctioningObjects of either manager installs is forgotten:
\* it is in a pending activation until it has been activated, and in a pending
\* removal until it has been removed.  This needs modules that can be loaded
\* (handleActivateAuction drops the rest of the list otherwise) and lists that
\* BiddingObjectManager does not give up on.
THEOREM InstalledIsScheduled ==
  ASSUME ModulesLoad, ListsAccepted
  PROVE  Spec => []Scheduled
<1> DEFINE SInv == EndsScheduled /\ StartsScheduled /\ BidsScheduled /\ ListsPending
<1>1. Init => SInv
  <2> SUFFICES ASSUME Init PROVE SInv
    OBVIOUS
  <2>1. aucs = << >> /\ objs = << >> /\ queue = {}
    BY DEF Init
  <2>2. DOMAIN aucs = {} /\ DOMAIN objs = {}
    BY <2>1
  <2> QED
    BY <2>1, <2>2 DEF EndsScheduled, StartsScheduled, BidsScheduled, ListsPending
<1>2. SInv /\ IInv /\ [Next]_vars => SInv'
  <2> SUFFICES ASSUME SInv, IInv, [Next]_vars PROVE SInv'
    OBVIOUS
  <2>1. TypeOK
    BY DEF IInv
  <2>2. ASSUME NEW e \in queue, HandleEvent(e)
        PROVE  SInv'
    BY <2>1, <2>2, HandlersHaveEffects, EndsScheduledKept, StartsScheduledKept,
       BidsScheduledKept, ListsPendingKept
  <2>3. ASSUME Idle
        PROVE  SInv'
    <3>1. UNCHANGED <<aucs, objs>> /\ queue \subseteq queue'
      BY <2>3 DEF Idle
    <3>2. EndsScheduled' /\ StartsScheduled' /\ BidsScheduled'
      BY <3>1 DEF EndsScheduled, StartsScheduled, BidsScheduled, Pending
    <3>3. ListsPending'
      <4> SUFFICES ASSUME NEW f \in queue', f.type \in BidInputs
                   PROVE  ~AddThrows(f.bids)
        BY DEF ListsPending
      <4>1. CASE f \in queue
        BY <4>1 DEF ListsPending
      <4>2. ASSUME NEW i \in inputs, SameEvent(f, InputEvent(i))
            PROVE  ~AddThrows(f.bids)
        BY <2>1, <4>2, InputsAreInputs DEF ListsAccepted, TypeOK
      <4> QED
        BY <2>3, <4>1, <4>2 DEF Idle
    <3> QED
      BY <3>2, <3>3
  <2> QED
    BY <2>1, <2>2, <2>3, OtherStepsIdle DEF Next
<1>3. SInv => Scheduled
  BY DEF Scheduled, AuctionsScheduled, EndsScheduled, StartsScheduled
<1> HIDE DEF SInv
<1> QED
  BY <1>1, <1>2, <1>3, Consistent, PTL DEF Spec

-----------------------------------------------------------------------------
(***************************************************************************)
(* Removed auctions have no process.                                       *)
(***************************************************************************)

\* No two auctions end together.
DistinctEnds ==
  \A m, n \in Auctions :
    AucSpec[m].stop = AucSpec[n].stop /\ AucSpec[m].stop # 0 => m = n

\* A set of numbers that is bounded has a largest one.
LEMMA LargestIn ==
  ASSUME NEW n \in Nat, NEW S, S \subseteq 1 .. n, S # {}
  PROVE  Largest(S) \in S
<1> DEFINE T == {k \in Nat : n - k \in S}
<1>1. T # {}
  <2>1. PICK s \in S : TRUE
    OBVIOUS
  <2>2. n - s \in Nat /\ n - (n - s) = s
    OBVIOUS
  <2> QED
    BY <2>2
<1>2. PICK k \in T : \A l \in T : k <= l
  BY <1>1, Least
<1>3. n - k \in S /\ k \in Nat
  OBVIOUS
<1>4. ASSUME NEW s \in S
      PROVE  s <= n - k
  <2>1. n - s \in Nat /\ n - (n - s) = s /\ s \in Nat
    OBVIOUS
  <2>2. n - s \in T
    BY <2>1
  <2>3. k <= n - s
    BY <1>2, <2>2
  <2> QED
    BY <1>3, <2>1, <2>3
<1> QED
  BY <1>3, <1>4 DEF Largest

\* The auctions of a removal: under these specifications there is one.
LEMMA RemovalsSingle ==
  ASSUME DistinctEnds, IInv, RunInv, EndsInv, NEW e \in queue, e.type = "REMOVE_AUCTIONS",
         NEW i \in e.objs, NEW j \in e.objs
  PROVE  i = j
<1>1. i \in DOMAIN aucs /\ j \in DOMAIN aucs
  BY QueueEvent DEF AuctionLists, RunInv
<1>2. aucs[i].stop # 0 /\ aucs[i].stop = aucs[j].stop
  BY DEF RunInv, AuctionTimes, EndsOnTime, Pending
<1>3. aucs[i].stop = AucSpec[aucs[i].name].stop /\ aucs[j].stop = AucSpec[aucs[j].name].stop
  BY <1>1 DEF EndsInv, EndsSpecified
<1>4. aucs[i].name \in Auctions /\ aucs[j].name \in Auctions
  BY <1>1, AuctionFields DEF RunInv
<1>5. aucs[i].name = aucs[j].name
  BY <1>2, <1>3, <1>4 DEF DistinctEnds
<1>6. aucs[i].state # "done" /\ aucs[j].state # "done"
  BY DEF IInv, AuctionPart, RemovalsCurrent, Pending
<1> QED
  BY <1>1, <1>5, <1>6 DEF IInv, AuctionPart, NamesUnique

\* Its process goes: the walk of delAuctions overlooks only a second one.
LEMMA ProcessRemoved ==
  ASSUME DistinctEnds, IInv, RunInv, EndsInv, DoneHasNoProcess,
         NEW e \in queue, HandleRemoveAuctions(e), NEW i \in e.objs
  PROVE  i \notin DOMAIN proc'
<1>1. e.type = "REMOVE_AUCTIONS" /\ i \in DOMAIN aucs
  BY QueueEvent DEF HandleRemoveAuctions, Handling, AuctionLists, RunInv
<1> DEFINE matched == ProcessesOf({aucs[j].name : j \in e.objs})
           gone == IF matched = {} THEN {} ELSE matched \ Overlooked(matched)
<1>2. proc' = [j \in DOMAIN proc \ gone |-> proc[j]]
  BY Zenon DEF HandleRemoveAuctions
<1>3. matched \subseteq {i}
  <2> SUFFICES ASSUME NEW k \in matched PROVE k = i
    OBVIOUS
  <2>1. k \in DOMAIN proc /\ \E j \in e.objs : aucs[k].name = aucs[j].name
    BY DEF ProcessesOf
  <2>2. aucs[k].name = aucs[i].name
    BY <1>1, <2>1, RemovalsSingle
  <2>3. k \in DOMAIN aucs /\ aucs[k].state # "done"
    BY <2>1 DEF IInv, TypeOK, DoneHasNoProcess
  <2>4. aucs[i].state # "done"
    BY <1>1 DEF IInv, AuctionPart, RemovalsCurrent, Pending
  <2> QED
    BY <1>1, <2>2, <2>3, <2>4 DEF IInv, AuctionPart, NamesUnique
<1>4. i \in DOMAIN proc => i \in matched
  BY DEF ProcessesOf
<1>5. i \notin Overlooked(matched)
  <2> DEFINE all == DOMAIN proc
             below == all \ {Largest(all)}
  <2> SUFFICES ASSUME Largest(all) \in matched, below # {}
               PROVE  Largest(below) # i
    BY DEF Overlooked
  <2>1. Largest(all) = i
    BY <1>3
  <2>2. /\ aucs \in Seq(AuctionType) /\ all \subseteq DOMAIN aucs
    BY DEF IInv, TypeOK
  <2>3. below \subseteq 1 .. Len(aucs) /\ Len(aucs) \in Nat
    BY <2>2, LenProperties
  <2>4. Largest(below) \in below
    BY <2>3, LargestIn
  <2> QED
    BY <2>1, <2>4
<1> HIDE DEF matched
<1> QED
  BY <1>2, <1>3, <1>4, <1>5

\* A removed auction has left its process, unless two auctions end in the same
\* second (AUMProcessor::delAuctions then overlooks one: run twin).
THEOREM ProcessesClosed ==
  ASSUME DistinctEnds
  PROVE  Spec => []DoneHasNoProcess
<1>1. Init => DoneHasNoProcess
  <2> SUFFICES ASSUME Init PROVE DoneHasNoProcess
    OBVIOUS
  <2>1. aucs = << >>
    BY DEF Init
  <2>2. DOMAIN aucs = {}
    BY <2>1
  <2> QED
    BY <2>2 DEF DoneHasNoProcess
<1>2. DoneHasNoProcess /\ IInv /\ RunInv /\ EndsInv /\ [Next]_vars => DoneHasNoProcess'
  <2> SUFFICES ASSUME DoneHasNoProcess, IInv, RunInv, EndsInv, [Next]_vars,
                      NEW i \in DOMAIN aucs', aucs'[i].state = "done"
               PROVE  i \notin DOMAIN proc'
    BY DEF DoneHasNoProcess
  <2>1. TypeOK
    BY DEF IInv
  <2>2. ASSUME NEW e \in queue, HandleEvent(e)
        PROVE  i \notin DOMAIN proc'
    <3>1. AuctionsAfter(e) /\ ProcAfter(e)
      BY <2>1, <2>2, HandlersKeepAuctions, HandlersKeepProcesses
    <3>2. i \in DOMAIN aucs
      <4> SUFFICES ASSUME i \notin DOMAIN aucs PROVE FALSE
        OBVIOUS
      <4>1. PICK n \in Auctions : aucs'[i] = NewAuction(n)
        BY <3>1 DEF AuctionsAfter
      <4> QED
        BY <2>1, <4>1, NewAuctionFields
    <3>3. CASE aucs[i].state = "done"
      <4>1. i \notin DOMAIN proc
        BY <3>2, <3>3 DEF DoneHasNoProcess
      <4>2. ~(e.type = "ACTIVATE_AUCTIONS" /\ i \in e.objs)
        BY <3>3 DEF IInv, AuctionPart, ActivationsCurrent, Pending
      <4> QED
        BY <3>1, <4>1, <4>2 DEF ProcAfter
    <3>4. CASE e.type = "REMOVE_AUCTIONS" /\ i \in e.objs
      BY <2>2, <3>4, TypedHandler, ProcessRemoved
    <3> QED
      BY <3>1, <3>2, <3>3, <3>4 DEF AuctionsAfter
  <2>3. ASSUME Idle
        PROVE  i \notin DOMAIN proc'
    BY <2>3 DEF Idle, DoneHasNoProcess
  <2> QED
    BY <2>1, <2>2, <2>3, OtherStepsIdle DEF Next
<1> QED
  BY <1>1, <1>2, Consistent, RunInvariant, EndsInvariant, PTL DEF Spec

-----------------------------------------------------------------------------
(***************************************************************************)
(* The windows of an auction.                                              *)
(***************************************************************************)

\* What was made before lies before the windows that executions, pending or to
\* come, will clear.
MadeBefore ==
  /\ \A x \in Pending("PUSH_EXECUTION") : \A m \in made :
       m.auc = aucs[x.index].name => m.stop <= Sec(x.at)
  /\ \A a \in Pending("ACTIVATE_AUCTIONS") : \A i \in a.objs : \A m \in made :
       m.auc = aucs[i].name => m.stop <= aucs[i].start

\* The windows that a bid has had in an auction ...
WindowsApart ==
  \A m, n \in made :
    m # n /\ m.bid = n.bid /\ m.sess = n.sess /\ m.auc = n.auc
      => m.stop <= n.start \/ n.stop <= m.start

\* ... and the auction that they were made in.
WindowsInside ==
  \A m \in made : \E i \in DOMAIN aucs :
    /\ aucs[i].name = m.auc
    /\ aucs[i].start <= m.start
    /\ aucs[i].stop # 0 => m.start <= m.stop /\ m.stop <= aucs[i].stop

\* What is known of every state, when no two auctions end together.
Known == IInv /\ RunInv /\ EndsInv /\ DoneHasNoProcess

\* At its head an execution has not passed the end of its auction: the removal
\* would come first.
LEMMA ExecutionInTime ==
  ASSUME Known, NEW e \in queue, e.type = "PUSH_EXECUTION", IsHead(queue, e),
         e.index \in DOMAIN proc, aucs[e.index].stop # 0
  PROVE  Sec(e.at) <= aucs[e.index].stop
<1> DEFINE i == e.index
<1>1. TypeOK /\ i \in DOMAIN aucs /\ e.at \in Int
  BY QueueEvent DEF Known, IInv
<1>2. aucs[i].state # "done"
  BY <1>1 DEF Known, DoneHasNoProcess
<1>3. PICK r \in queue : r.type = "REMOVE_AUCTIONS" /\ i \in r.objs
  BY <1>1, <1>2 DEF Known, EndsInv, EndsScheduled, Pending
<1>4. Sec(r.at) = aucs[i].stop
  BY <1>3 DEF Known, RunInv, AuctionTimes, EndsOnTime, Pending
<1>5. r.at \in Int
  BY <1>1, QueueEvent
<1>6. e.at <= r.at
  BY <1>1, <1>3, <1>5 DEF IsHead, Before
<1> QED
  BY <1>1, <1>4, <1>5, <1>6, SecMonotone

\* What an execution makes.
LEMMA MadeFields ==
  ASSUME Known, NEW e \in queue, e.type = "PUSH_EXECUTION", e.index \in DOMAIN proc,
         NEW m, Made(e, m)
  PROVE  /\ m.auc = aucs[e.index].name
         /\ m.start = Sec(e.at) /\ m.stop = WindowStop(e)
         /\ m.start \in Int /\ m.stop \in Int
         /\ m.stop <= Sec(e.at) + e.ival
         /\ m = [kind |-> "alloc", bid |-> m.bid, auc |-> m.auc, sess |-> m.sess,
                 start |-> m.start, stop |-> m.stop, state |-> "new"]
<1>1. PICK o \in proc[e.index] : m = Allocation(o, Sec(e.at), WindowStop(e))
  BY DEF Made
<1>2. objs[o].auc = aucs[e.index].name
  BY DEF Known, RunInv, BidsPlaced
<1>3. e.at \in Int /\ e.ival \in Int /\ e.stop \in Int /\ Sec(e.at) \in Int
  <2>1. e.at \in Int /\ e.ival \in Int /\ e.stop \in Int
    BY QueueEvent DEF Known, RunInv
  <2> QED
    BY <2>1, TimesInt
<1>4. WindowStop(e) \in Int /\ WindowStop(e) <= Sec(e.at) + e.ival
  BY <1>3 DEF WindowStop, Sooner
<1> HIDE DEF WindowStop
<1> QED
  BY <1>1, <1>2, <1>3, <1>4 DEF Allocation

\* The window of what has been made is a pair of numbers.
LEMMA OldMade ==
  ASSUME TypeOK, NEW m \in made
  PROVE  m.start \in Int /\ m.stop \in Int
<1>1. m \in ObjectType({"new"})
  BY DEF TypeOK
<1> QED
  BY <1>1 DEF ObjectType

\* An auction with a process is the only one of its name that is not done.
LEMMA ProcessAlone ==
  ASSUME Known, NEW i \in DOMAIN proc, NEW j \in DOMAIN aucs, aucs[j].state # "done",
         aucs[i].name = aucs[j].name
  PROVE  i = j
<1>1. i \in DOMAIN aucs /\ aucs[i].state # "done"
  BY DEF Known, IInv, TypeOK, DoneHasNoProcess
<1> QED
  BY <1>1 DEF Known, IInv, AuctionPart, NamesUnique

\* A new window begins where the last one ended, or later.
LEMMA WindowsApartKept ==
  ASSUME Known, MadeBefore, WindowsApart, NEW e \in queue, Effects(e)
  PROVE  WindowsApart'
<1> SUFFICES ASSUME NEW m \in made', NEW n \in made',
                    m # n, m.bid = n.bid, m.sess = n.sess, m.auc = n.auc
             PROVE  m.stop <= n.start \/ n.stop <= m.start
  BY DEF WindowsApart
<1> DEFINE Fresh(x) == e.type = "PUSH_EXECUTION" /\ e.index \in DOMAIN proc /\ Made(e, x)
<1>1. /\ m \in made \/ Fresh(m)
      /\ n \in made \/ Fresh(n)
  BY DEF Effects, MadeAfter
<1>2. CASE m \in made /\ n \in made
  BY <1>2 DEF WindowsApart
<1>3. ASSUME NEW x \in made, NEW y, Fresh(y), x.auc = y.auc
      PROVE  x.stop <= y.start
  <2>1. y.auc = aucs[e.index].name /\ y.start = Sec(e.at)
    BY <1>3, MadeFields
  <2> QED
    BY <1>3, <2>1 DEF MadeBefore, Pending
<1>4. CASE Fresh(m) /\ Fresh(n)
  <2>1. /\ m = [kind |-> "alloc", bid |-> m.bid, auc |-> m.auc, sess |-> m.sess,
                start |-> Sec(e.at), stop |-> WindowStop(e), state |-> "new"]
        /\ n = [kind |-> "alloc", bid |-> n.bid, auc |-> n.auc, sess |-> n.sess,
                start |-> Sec(e.at), stop |-> WindowStop(e), state |-> "new"]
    BY <1>4, MadeFields
  <2> QED
    BY <2>1
<1> HIDE DEF Fresh
<1> QED
  BY <1>1, <1>2, <1>3, <1>4

\* A new window lies inside its auction.
LEMMA WindowsInsideKept ==
  ASSUME Known, WindowsInside, NEW e \in queue, Effects(e)
  PROVE  WindowsInside'
<1> DEFINE Inside(m, i) == /\ aucs[i].name = m.auc
                           /\ aucs[i].start <= m.start
                           /\ aucs[i].stop # 0 => m.start <= m.stop /\ m.stop <= aucs[i].stop
<1> SUFFICES ASSUME NEW m \in made'
             PROVE  \E i \in DOMAIN aucs : Inside(m, i)
  BY DEF Effects, AuctionsAfter, WindowsInside
<1>1. CASE m \in made
  BY <1>1 DEF WindowsInside
<1>2. CASE e.type = "PUSH_EXECUTION" /\ e.index \in DOMAIN proc /\ Made(e, m)
  <2>1. /\ m.auc = aucs[e.index].name /\ m.start = Sec(e.at) /\ m.stop = WindowStop(e)
    BY <1>2, MadeFields
  <2>2. e.index \in DOMAIN aucs /\ e.ival \in Nat /\ e.at \in Int
    BY <1>2, QueueEvent DEF Known, RunInv
  <2>3. aucs[e.index].start <= Sec(e.at) /\ e.stop = aucs[e.index].stop
    BY <1>2 DEF Known, RunInv, AuctionTimes, ExecutionsOwn, Pending
  <2>4. ASSUME aucs[e.index].stop # 0
        PROVE  Sec(e.at) <= WindowStop(e) /\ WindowStop(e) <= aucs[e.index].stop
    <3>1. Sec(e.at) <= aucs[e.index].stop
      BY <1>2, <2>4, ExecutionInTime DEF Effects
    <3>2. aucs[e.index].stop \in Int /\ Sec(e.at) \in Int
      <4>1. aucs[e.index].stop \in Int
        BY <2>2, AuctionFields DEF Known, RunInv
      <4> QED
        BY <2>2, <4>1, TimesInt
    <3>3. WindowStop(e) = IF Sec(e.at) + e.ival < e.stop THEN Sec(e.at) + e.ival ELSE e.stop
      BY DEF WindowStop, Sooner
    <3> QED
      BY <2>2, <2>3, <3>1, <3>2, <3>3
  <2>5. Inside(m, e.index)
    BY <2>1, <2>3, <2>4
  <2> HIDE DEF Inside
  <2> QED
    BY <2>2, <2>5
<1> HIDE DEF Inside
<1> QED
  BY <1>1, <1>2 DEF Effects, MadeAfter

\* What an execution makes ends before the next one begins.
LEMMA MadeBeforeKept ==
  ASSUME Known, MadeBefore, WindowsInside, NEW e \in queue, Effects(e), TypeOK'
  PROVE  MadeBefore'
<1> DEFINE Fresh(x) == e.type = "PUSH_EXECUTION" /\ e.index \in DOMAIN proc /\ Made(e, x)
<1>1. TypeOK /\ now \in Int /\ e.at \in Int
  BY NowInt, QueueEvent DEF Known, IInv
<1>2. ASSUME NEW f \in queue', f.type = "PUSH_EXECUTION", NEW m \in made',
             m.auc = aucs'[f.index].name
      PROVE  m.stop <= Sec(f.at)
  <2>1. f.at \in Int /\ Sec(f.at) \in Int
    <3>1. f.at \in Int
      BY <1>2, EventShape DEF TypeOK
    <3> QED
      BY <3>1, TimesInt
  <2>2. CASE Survives(e, f)
    <3>1. f \in queue /\ f # e
      BY <1>2, <2>2 DEF Survives, Rest, LeftOf, ListTypes, AuctionLists, BidLists
    <3>2. f.index \in DOMAIN aucs /\ f.index \in DOMAIN proc
      <4>1. f.index \in DOMAIN proc
        BY <1>2, <3>1 DEF Known, IInv, AuctionPart, OneExecutionPerProcess, Pending
      <4> QED
        BY <1>1, <1>2, <3>1, <4>1, QueueEvent
    <3>3. m.auc = aucs[f.index].name
      BY <1>2, <3>2 DEF Effects, AuctionsAfter
    <3>4. CASE m \in made
      BY <1>2, <3>1, <3>3, <3>4 DEF MadeBefore, Pending
    <3>5. ~Fresh(m)
      <4> SUFFICES ASSUME Fresh(m) PROVE FALSE
        OBVIOUS
      <4>1. m.auc = aucs[e.index].name
        BY MadeFields
      <4>2. aucs[f.index].state # "done"
        BY <3>2 DEF Known, DoneHasNoProcess
      <4>3. e.index = f.index
        BY <3>2, <3>3, <4>1, <4>2, ProcessAlone
      <4> QED
        BY <1>2, <3>1, <4>3 DEF Known, IInv, AuctionPart, OneExecutionPerProcess, Pending
    <3> QED
      BY <3>4, <3>5 DEF Effects, MadeAfter
  <2>3. CASE Opens(e, f)
    <3>1. /\ e.type = "ACTIVATE_AUCTIONS" /\ f.index \in e.objs
          /\ At(now, aucs[f.index].start) <= f.at
      BY <2>3 DEF Opens
    <3>2. f.index \in DOMAIN aucs /\ m \in made
      BY <1>1, <3>1, QueueEvent DEF AuctionLists, Effects, MadeAfter
    <3>3. m.auc = aucs[f.index].name
      BY <1>2, <3>2 DEF Effects, AuctionsAfter
    <3>4. m.stop <= aucs[f.index].start
      BY <3>1, <3>2, <3>3 DEF MadeBefore, Pending
    <3>5. aucs[f.index].start \in Int /\ m.stop \in Int
      <4>1. aucs[f.index].start \in Int
        BY <1>1, <3>2, AuctionFields
      <4> QED
        BY <1>1, <3>2, <4>1, OldMade
    <3>6. /\ At(now, aucs[f.index].start) \in Int
          /\ Sec(At(now, aucs[f.index].start)) = aucs[f.index].start
      BY <1>1, <3>5, SecOfAt
    <3>7. aucs[f.index].start <= Sec(f.at)
      BY <2>1, <3>1, <3>6, SecMonotone
    <3> QED
      BY <2>1, <3>4, <3>5, <3>7
  <2>4. CASE Repeats(e, f)
    <3>1. /\ e.type = "PUSH_EXECUTION" /\ f.index = e.index
          /\ Sec(e.at) + e.ival <= Sec(f.at)
      BY <2>4 DEF Repeats
    <3>2. e.index \in DOMAIN aucs /\ e.ival \in Nat /\ Sec(e.at) \in Int
      BY <1>1, <3>1, QueueEvent, TimesInt
    <3>3. m.auc = aucs[e.index].name
      BY <1>2, <3>1, <3>2 DEF Effects, AuctionsAfter
    <3>4. CASE m \in made
      <4>1. m.stop <= Sec(e.at)
        BY <3>1, <3>3, <3>4 DEF MadeBefore, Pending
      <4>2. m.stop \in Int
        BY <1>1, <3>4, OldMade
      <4> QED
        BY <2>1, <3>1, <3>2, <4>1, <4>2
    <3>5. CASE Fresh(m)
      <4>1. m.stop <= Sec(e.at) + e.ival /\ m.stop \in Int
        BY <3>5, MadeFields
      <4> QED
        BY <2>1, <3>1, <3>2, <4>1
    <3> QED
      BY <3>4, <3>5 DEF Effects, MadeAfter
  <2>5. ASSUME Adds(e, f)
        PROVE  Opens(e, f) \/ Repeats(e, f)
    BY <1>2, <2>5 DEF Adds, AddsAuctions, Clears, Offers, InstallsObjects, ForNewObjects,
       BidLists, AuctionLists
  <2> QED
    BY <2>2, <2>3, <2>4, <2>5 DEF Effects, Accounted
<1>3. ASSUME NEW f \in queue', f.type = "ACTIVATE_AUCTIONS", NEW i \in f.objs,
             NEW m \in made', m.auc = aucs'[i].name
      PROVE  m.stop <= aucs'[i].start
  <2>1. CASE Survives(e, f)
    <3>1. PICK g \in queue : g.type = "ACTIVATE_AUCTIONS" /\ i \in g.objs
      BY <1>3, <2>1 DEF Survives, Rest, LeftOf, ListTypes, AuctionLists
    <3>2. i \in DOMAIN aucs /\ aucs[i].state = "valid" /\ i \notin DOMAIN proc
      BY <1>1, <3>1, QueueEvent
         DEF Known, IInv, AuctionPart, ActivationsCurrent, Pending, AuctionLists
    <3>3. aucs'[i].name = aucs[i].name /\ aucs'[i].start = aucs[i].start
      BY <3>2 DEF Effects, AuctionsAfter
    <3>4. CASE m \in made
      BY <1>3, <3>1, <3>3, <3>4 DEF MadeBefore, Pending
    <3>5. ~Fresh(m)
      <4> SUFFICES ASSUME Fresh(m) PROVE FALSE
        OBVIOUS
      <4>1. m.auc = aucs[e.index].name
        BY MadeFields
      <4> QED
        BY <1>3, <3>2, <3>3, <4>1, ProcessAlone
    <3> QED
      BY <3>4, <3>5 DEF Effects, MadeAfter
  <2>2. CASE Adds(e, f)
    <3>1. AddsAuctions(e, f)
      BY <1>3, <2>2 DEF Adds, Opens, Repeats, Clears, Offers, InstallsObjects, ForNewObjects,
         BidLists
    <3>2. e.type = "ADD_AUCTIONS" /\ NewAuctionIndex(i)
      BY <3>1 DEF AddsAuctions
    <3>3. PICK n \in Auctions : aucs'[i] = NewAuction(n) /\ Installed(n) = {}
      BY <3>2 DEF Effects, AuctionsAfter, NewAuctionIndex
    <3>4. m \in made /\ m.auc = n
      BY <1>1, <1>3, <3>2, <3>3, NewAuctionFields DEF Effects, MadeAfter
    <3>5. PICK j \in DOMAIN aucs :
            aucs[j].name = n /\ (aucs[j].stop # 0 => m.stop <= aucs[j].stop)
      BY <3>4 DEF WindowsInside
    <3>6. aucs[j].state = "done"
      BY <3>3, <3>5 DEF Installed
    <3>7. aucs[j].stop # 0 /\ aucs[j].stop <= Sec(now)
      BY <3>6 DEF Known, RunInv, AuctionTimes, DoneEnded
    <3>8. aucs'[i].start \in Int /\ Sec(now) <= aucs'[i].start /\ Sec(now) \in Int
      BY <1>1, <3>3, NewAuctionFields, TimesInt
    <3>9. m.stop \in Int /\ aucs[j].stop \in Int
      BY <1>1, <3>4, OldMade, AuctionFields
    <3> QED
      BY <3>5, <3>7, <3>8, <3>9
  <2> QED
    BY <2>1, <2>2 DEF Effects, Accounted
<1> QED
  BY <1>2, <1>3 DEF MadeBefore, Pending, Sec

\* The windows of a bid in an auction do not overlap and lie inside the auction
\* (AUMProcessor::executeAuction, EventScheduler::reschedNextEvent): however
\* late the loop is, whether or not it is aligned, and when a name is loaded
\* again after its auction has ended.
THEOREM WindowsStayDisjoint ==
  ASSUME DistinctEnds
  PROVE  Spec => []WindowsDisjoint
<1> DEFINE WInv == MadeBefore /\ WindowsApart /\ WindowsInside
<1>1. Init => WInv
  BY DEF Init, MadeBefore, WindowsApart, WindowsInside, Pending
<1>2. WInv /\ Known /\ TypeOK' /\ [Next]_vars => WInv'
  <2> SUFFICES ASSUME WInv, Known, TypeOK', [Next]_vars PROVE WInv'
    OBVIOUS
  <2>1. TypeOK
    BY DEF Known, IInv
  <2>2. ASSUME NEW e \in queue, HandleEvent(e)
        PROVE  WInv'
    BY <2>1, <2>2, HandlersHaveEffects, MadeBeforeKept, WindowsApartKept, WindowsInsideKept
  <2>3. ASSUME Idle
        PROVE  WInv'
    <3>1. UNCHANGED <<aucs, made>>
      BY <2>3 DEF Idle
    <3>2. ASSUME NEW f \in queue', f.type \in {"PUSH_EXECUTION", "ACTIVATE_AUCTIONS"}
          PROVE  f \in queue
      BY <2>1, <2>3, <3>2, InputsAreInputs DEF Idle, ListTypes, AuctionLists
    <3>3. MadeBefore'
      BY <3>1, <3>2 DEF MadeBefore, Pending
    <3> QED
      BY <3>1, <3>3 DEF WindowsApart, WindowsInside
  <2> QED
    BY <2>1, <2>2, <2>3, OtherStepsIdle DEF Next
<1>3. WInv => WindowsDisjoint
  BY DEF WindowsDisjoint, WindowsApart, WindowsInside
<1>4. IInv /\ RunInv /\ EndsInv /\ DoneHasNoProcess => Known
  BY DEF Known
<1> HIDE DEF WInv, Known
<1> QED
  BY <1>1, <1>2, <1>3, <1>4, TypeCorrect, Consistent, RunInvariant, EndsInvariant,
     ProcessesClosed, PTL DEF Spec

-----------------------------------------------------------------------------
(***************************************************************************)
(* The bids that compete.                                                  *)
(***************************************************************************)

\* o has a time in which it can be active.
Lasts(o) == objs[o].stop = 0 \/ objs[o].start < objs[o].stop

\* Waiting allocations are allocations.
AllocationsPending ==
  \A g \in Pending("ADD_GENERATED_BIDDING_OBJECTS") : \A k \in DOMAIN g.allocs :
    g.allocs[k].kind = "alloc"

\* Bids without an end are in no removal.
RemovalsEnd ==
  \A r \in Pending("REMOVE_BIDDING_OBJECTS") : \A o \in r.objs : objs[o].stop # 0

\* An activation, or insertion, that is due is due now.
NothingLate ==
  \A x \in queue :
    x.type \in {"ACTIVATE_BIDDING_OBJECTS", "ADD_BIDDING_OBJECTS_AUCTION"} => now <= x.at

\* The activation of a bid comes before its removal ...
ActivatedFirst ==
  \A a \in Pending("ACTIVATE_BIDDING_OBJECTS"), r \in Pending("REMOVE_BIDDING_OBJECTS") :
    \A o \in a.objs \cap r.objs :
      objs[o].kind = "bid" /\ Lasts(o) => a.at < r.at

\* ... and so does its insertion, which finds it active.
InsertedActive ==
  \A a \in Pending("ADD_BIDDING_OBJECTS_AUCTION") : \A o \in a.objs :
    /\ objs[o].kind = "bid"
    /\ Lasts(o) =>
         /\ objs[o].state = "active"
         /\ \A r \in Pending("REMOVE_BIDDING_OBJECTS") : o \in r.objs => a.at < r.at

\* What keeps the bids that compete active.
BidInv ==
  /\ AllocationsPending
  /\ RemovalsEnd
  /\ NothingLate
  /\ ActivatedFirst
  /\ InsertedActive
  /\ CompetingBidsActive

\* What no handler changes of an object.
LEMMA ObjectsSame ==
  ASSUME NEW e, Effects(e), NEW o \in DOMAIN objs
  PROVE  /\ o \in DOMAIN objs' /\ objs'[o].kind = objs[o].kind
         /\ objs'[o].stop = objs[o].stop /\ Lasts(o)' = Lasts(o)
BY DEF Effects, ObjectsAfter, Lasts

\* A list that a handler leaves in the queue was there, or is of new objects.
LEMMA ListsOfObjects ==
  ASSUME TypeOK, NEW e \in queue, Effects(e), NEW f \in queue',
         f.type \in {"ACTIVATE_BIDDING_OBJECTS", "REMOVE_BIDDING_OBJECTS"}
  PROVE  \/ /\ \E g \in Rest(e) : g.type = f.type /\ g.at = f.at /\ f.objs \subseteq g.objs
            /\ f.objs \subseteq DOMAIN objs
         \/ InstallsObjects(e, f)
<1>1. CASE Survives(e, f)
  <2>1. PICK g \in Rest(e) : g.type = f.type /\ g.at = f.at /\ f.objs \subseteq g.objs
    BY <1>1 DEF Survives, LeftOf, ListTypes, BidLists
  <2> QED
    BY <2>1, QueueEvent DEF Rest, BidLists
<1>2. CASE Adds(e, f)
  BY <1>2 DEF Adds, AddsAuctions, Opens, Repeats, Clears, Offers, AuctionLists
<1> QED
  BY <1>1, <1>2 DEF Effects, Accounted

\* Only an execution adds allocations to the queue.
LEMMA AllocationsPendingKept ==
  ASSUME AllocationsPending, NEW e \in queue, Effects(e)
  PROVE  AllocationsPending'
<1> SUFFICES ASSUME NEW f \in queue', f.type = "ADD_GENERATED_BIDDING_OBJECTS",
                    NEW k \in DOMAIN f.allocs
             PROVE  f.allocs[k].kind = "alloc"
  BY DEF AllocationsPending, Pending
<1>1. CASE Survives(e, f)
  <2>1. PICK g \in queue : LeftOf(f, g)
    BY <1>1 DEF Survives, Rest
  <2>2. g.type = f.type /\ \E l \in DOMAIN g.allocs : f.allocs[k] = g.allocs[l]
    BY <2>1 DEF LeftOf
  <2> QED
    BY <2>2 DEF AllocationsPending, Pending
<1>2. CASE Adds(e, f)
  <2>1. Clears(e, f)
    BY <1>2 DEF Adds, AddsAuctions, Opens, Repeats, Offers, InstallsObjects, ForNewObjects,
       BidLists, AuctionLists
  <2>2. PICK o \in proc[e.index] : f.allocs[k] = Allocation(o, Sec(e.at), WindowStop(e))
    BY <2>1 DEF Clears
  <2> QED
    BY <2>2 DEF Allocation
<1> QED
  BY <1>1, <1>2 DEF Effects, Accounted

\* Removals are made for objects that end.
LEMMA RemovalsEndKept ==
  ASSUME TypeOK, RemovalsEnd, NEW e \in queue, Effects(e)
  PROVE  RemovalsEnd'
<1> SUFFICES ASSUME NEW f \in queue', f.type = "REMOVE_BIDDING_OBJECTS", NEW o \in f.objs
             PROVE  objs'[o].stop # 0
  BY DEF RemovalsEnd, Pending
<1>1. CASE InstallsObjects(e, f)
  BY <1>1 DEF InstallsObjects, ForNewObjects
<1>2. ASSUME NEW g \in Rest(e), g.type = f.type, f.objs \subseteq g.objs,
             f.objs \subseteq DOMAIN objs
      PROVE  objs'[o].stop # 0
  BY <1>2, ObjectsSame DEF RemovalsEnd, Pending, Rest
<1> QED
  BY <1>1, <1>2, ListsOfObjects

\* An event made for a second that has not passed is not in the past.
LEMMA AtNotBefore ==
  ASSUME NEW t \in Int, NEW s \in Int, Sec(t) <= s
  PROVE  t <= At(t, s)
<1>1. Sec(t) \in Int /\ At(t, s) \in Int
  BY TimesInt
<1>2. CASE s = Sec(t)
  <2>1. (s - Sec(t)) * Frac = 0
    BY <1>1, <1>2, FracAssumption
  <2> QED
    BY <2>1 DEF At
<1>3. CASE s > Sec(t)
  BY <1>1, <1>3, AtDue
<1> QED
  BY <1>1, <1>2, <1>3

\* Activations and insertions are added for now or later.
LEMMA NothingLateKept ==
  ASSUME TypeOK, TypeOK', NothingLate, NEW e \in queue, Effects(e)
  PROVE  NothingLate'
<1>1. now \in Int /\ now' = now
  BY NowInt DEF Effects
<1> SUFFICES ASSUME NEW f \in queue',
                    f.type \in {"ACTIVATE_BIDDING_OBJECTS", "ADD_BIDDING_OBJECTS_AUCTION"}
             PROVE  now <= f.at
  BY <1>1 DEF NothingLate
<1>2. CASE f.type = "ADD_BIDDING_OBJECTS_AUCTION"
  <2>1. CASE Survives(e, f)
    BY <1>2, <2>1 DEF Survives, Rest, LeftOf, ListTypes, AuctionLists, BidLists, NothingLate
  <2>2. CASE Adds(e, f)
    <3>1. Offers(e, f)
      BY <1>2, <2>2 DEF Adds, AddsAuctions, Opens, Repeats, Clears, InstallsObjects,
         ForNewObjects, BidLists, AuctionLists
    <3> QED
      BY <1>1, <3>1 DEF Offers
  <2> QED
    BY <2>1, <2>2 DEF Effects, Accounted
<1>3. CASE f.type = "ACTIVATE_BIDDING_OBJECTS"
  <2>1. CASE InstallsObjects(e, f)
    <3>1. f.objs # {} /\ f.objs \subseteq DOMAIN objs'
      BY <1>3, EventShape DEF TypeOK, BidLists
    <3>2. PICK o \in f.objs : TRUE
      BY <3>1
    <3>3. f.at = At(now, StartOf(objs'[o].start))
      BY <1>3, <2>1 DEF InstallsObjects, ForNewObjects
    <3>4. objs'[o].start \in Int
      <4>1. objs'[o] \in ObjectType(Installable)
        BY <3>1, ElementOfSeq, LenProperties DEF TypeOK
      <4> QED
        BY <4>1 DEF ObjectType
    <3>5. Sec(now) \in Int
      BY <1>1, TimesInt
    <3>6. StartOf(objs'[o].start) \in Int /\ Sec(now) <= StartOf(objs'[o].start)
      BY <3>4, <3>5 DEF StartOf, Later
    <3> QED
      BY <1>1, <3>3, <3>6, AtNotBefore
  <2>2. ASSUME NEW g \in Rest(e), g.type = f.type, g.at = f.at
        PROVE  now <= f.at
    BY <1>3, <2>2 DEF NothingLate, Rest
  <2> QED
    BY <1>3, <2>1, <2>2, ListsOfObjects
<1> QED
  BY <1>2, <1>3

\* A lasting bid is activated in an earlier second than it is removed.
LEMMA ActivatedFirstKept ==
  ASSUME TypeOK, TypeOK', AllocationsPending, ActivatedFirst, NEW e \in queue, Effects(e)
  PROVE  ActivatedFirst'
<1> SUFFICES ASSUME NEW a \in queue', a.type = "ACTIVATE_BIDDING_OBJECTS",
                    NEW r \in queue', r.type = "REMOVE_BIDDING_OBJECTS",
                    NEW o \in a.objs \cap r.objs, objs'[o].kind = "bid", Lasts(o)'
             PROVE  a.at < r.at
  BY DEF ActivatedFirst, Pending
<1>1. CASE o \in DOMAIN objs
  <2>1. ~InstallsObjects(e, a) /\ ~InstallsObjects(e, r)
    BY <1>1 DEF InstallsObjects, ForNewObjects, NewObjectIndex
  <2>2. /\ \E g \in Rest(e) : g.type = a.type /\ g.at = a.at /\ a.objs \subseteq g.objs
        /\ \E g \in Rest(e) : g.type = r.type /\ g.at = r.at /\ r.objs \subseteq g.objs
    BY <2>1, ListsOfObjects
  <2>3. objs[o].kind = "bid" /\ Lasts(o)
    BY <1>1, ObjectsSame
  <2> QED
    BY <2>2, <2>3 DEF ActivatedFirst, Pending, Rest
<1>2. CASE o \notin DOMAIN objs
  <2>1. InstallsObjects(e, a) /\ InstallsObjects(e, r)
    BY <1>2, ListsOfObjects
  <2>2. /\ o \in DOMAIN objs' /\ objs'[o].stop # 0
        /\ a.at = At(now, StartOf(objs'[o].start)) /\ r.at = At(now, objs'[o].stop)
    BY <2>1 DEF InstallsObjects, ForNewObjects, NewObjectIndex
  <2>3. e.type # "ADD_GENERATED_BIDDING_OBJECTS"
    <3> SUFFICES ASSUME e.type = "ADD_GENERATED_BIDDING_OBJECTS" PROVE FALSE
      OBVIOUS
    <3>1. PICK l \in DOMAIN e.allocs : objs'[o].kind = e.allocs[l].kind
      BY <1>2, <2>2 DEF Effects, ObjectsAfter, BidInputs
    <3> QED
      BY <3>1 DEF AllocationsPending, Pending
  <2>4. PICK b \in Bids, s \in Sessions \cup {NoSession} : objs'[o] = NewBid(b, s)
    BY <1>2, <2>2, <2>3 DEF Effects, ObjectsAfter
  <2>5. now \in Int /\ Sec(now) \in Int
    BY NowInt, TimesInt
  <2>6. objs'[o].start = StartOf(BidSpec[b].start) /\ BidSpec[b].start \in Int
    BY <2>4, SpecAssumption DEF NewBid
  <2>7. objs'[o].start \in Int /\ StartOf(objs'[o].start) = objs'[o].start
    BY <2>5, <2>6 DEF StartOf, Later
  <2>8. objs'[o].stop \in Int
    <3>1. objs'[o] \in ObjectType(Installable)
      BY <2>2, ElementOfSeq, LenProperties DEF TypeOK
    <3> QED
      BY <3>1 DEF ObjectType
  <2>9. objs'[o].start < objs'[o].stop
    BY <2>2 DEF Lasts
  <2> QED
    BY <2>2, <2>5, <2>7, <2>8, <2>9, AtOrder
<1> QED
  BY <1>1, <1>2

\* An insertion is made as its bids become active.
LEMMA InsertedActiveKept ==
  ASSUME TypeOK, TypeOK', BidInv, NEW e \in queue, Effects(e)
  PROVE  InsertedActive'
<1>1. /\ now \in Int /\ now' = now /\ e.at \in Int /\ e.at <= now
      /\ \A g \in queue : g # e => Before(e, g)
  BY NowInt, QueueEvent DEF Effects, IsHead
<1> SUFFICES ASSUME NEW a \in queue', a.type = "ADD_BIDDING_OBJECTS_AUCTION",
                    NEW o \in a.objs
             PROVE  /\ objs'[o].kind = "bid"
                    /\ Lasts(o)' =>
                         /\ objs'[o].state = "active"
                         /\ \A r \in queue' :
                              r.type = "REMOVE_BIDDING_OBJECTS" /\ o \in r.objs => a.at < r.at
  BY DEF InsertedActive, Pending, Lasts
<1>2. ASSUME o \in DOMAIN objs, NEW r \in queue', r.type = "REMOVE_BIDDING_OBJECTS",
             o \in r.objs
      PROVE  \E g \in Rest(e) : /\ g.type = "REMOVE_BIDDING_OBJECTS"
                                /\ g.at = r.at /\ o \in g.objs
  <2>1. ~InstallsObjects(e, r)
    BY <1>2 DEF InstallsObjects, ForNewObjects, NewObjectIndex
  <2> QED
    BY <1>2, <2>1, ListsOfObjects
<1>3. CASE Survives(e, a)
  <2>1. a \in Rest(e) /\ a \in queue /\ a # e
    BY <1>3 DEF Survives, Rest, LeftOf, ListTypes, AuctionLists, BidLists
  <2>2. o \in DOMAIN objs /\ a.at \in Int
    BY <2>1, QueueEvent
  <2>3. objs'[o].kind = "bid"
    BY <2>1, <2>2, ObjectsSame DEF BidInv, InsertedActive, Pending
  <2>4. ASSUME Lasts(o)'
        PROVE  /\ objs[o].state = "active"
               /\ \A r \in queue : r.type = "REMOVE_BIDDING_OBJECTS" /\ o \in r.objs => a.at < r.at
    BY <2>1, <2>2, <2>4, ObjectsSame DEF BidInv, InsertedActive, Pending
  <2>5. ASSUME Lasts(o)'
        PROVE  objs'[o].state = "active"
    <3>1. ~(e.type = "REMOVE_BIDDING_OBJECTS" /\ o \in e.objs)
      <4> SUFFICES ASSUME e.type = "REMOVE_BIDDING_OBJECTS", o \in e.objs PROVE FALSE
        OBVIOUS
      <4>1. a.at < e.at
        BY <2>4, <2>5
      <4>2. e.at <= a.at
        BY <1>1, <2>1, <2>2 DEF Before
      <4> QED
        BY <1>1, <2>2, <4>1, <4>2
    <3> QED
      BY <2>2, <2>4, <2>5, <3>1 DEF Effects, ObjectsAfter
  <2>6. ASSUME Lasts(o)', NEW r \in queue', r.type = "REMOVE_BIDDING_OBJECTS", o \in r.objs
        PROVE  a.at < r.at
    BY <1>2, <2>2, <2>4, <2>6 DEF Rest
  <2> QED
    BY <2>3, <2>5, <2>6
<1>4. CASE Adds(e, a)
  <2>1. Offers(e, a)
    BY <1>4 DEF Adds, AddsAuctions, Opens, Repeats, Clears, InstallsObjects, ForNewObjects,
       BidLists, AuctionLists
  <2>2. /\ e.type = "ACTIVATE_BIDDING_OBJECTS" /\ o \in e.objs
        /\ a.at = now /\ objs[o].kind = "bid"
    BY <2>1 DEF Offers
  <2>3. o \in DOMAIN objs
    BY <2>2, QueueEvent DEF BidLists
  <2>4. objs'[o].kind = "bid" /\ objs'[o].state = "active"
    BY <2>2, <2>3, ObjectsSame DEF Effects, ObjectsAfter
  <2>5. e.at = now
    BY <1>1, <2>2 DEF BidInv, NothingLate
  <2>6. ASSUME Lasts(o)', NEW r \in queue', r.type = "REMOVE_BIDDING_OBJECTS", o \in r.objs
        PROVE  a.at < r.at
    <3>1. Lasts(o)
      BY <2>3, <2>6, ObjectsSame
    <3> QED
      BY <1>2, <2>2, <2>3, <2>5, <2>6, <3>1 DEF BidInv, ActivatedFirst, Pending, Rest
  <2> QED
    BY <2>4, <2>6
<1> QED
  BY <1>3, <1>4 DEF Effects, Accounted

\* A bid is put in active, and leaves its processes with its removal.
LEMMA CompetingKept ==
  ASSUME Known, BidInv, NEW e \in queue, Effects(e)
  PROVE  CompetingBidsActive'
<1> SUFFICES ASSUME NEW i \in DOMAIN proc', NEW o \in proc'[i], Lasts(o)'
             PROVE  objs'[o].state = "active"
  BY DEF CompetingBidsActive, Lasts
<1>1. TypeOK
  BY DEF Known, IInv
<1>2. CASE /\ i \in DOMAIN proc /\ o \in proc[i]
           /\ ~(e.type = "REMOVE_BIDDING_OBJECTS" /\ o \in e.objs
                /\ i \in Installed(objs[o].auc))
  <2>1. o \in DOMAIN objs /\ i \in DOMAIN aucs
    BY <1>1, <1>2 DEF TypeOK
  <2>2. objs[o].state = "active"
    <3>1. Lasts(o)
      BY <2>1, ObjectsSame
    <3> QED
      BY <1>2, <3>1 DEF BidInv, CompetingBidsActive, Lasts
  <2>3. i \in Installed(objs[o].auc)
    BY <1>2, <2>1 DEF Known, RunInv, BidsPlaced, DoneHasNoProcess, Installed
  <2>4. ~(e.type = "REMOVE_BIDDING_OBJECTS" /\ o \in e.objs)
    BY <1>2, <2>3
  <2> QED
    BY <2>1, <2>2, <2>4 DEF Effects, ObjectsAfter
<1>3. CASE e.type = "ADD_BIDDING_OBJECTS_AUCTION" /\ o \in e.objs
  <2>1. o \in DOMAIN objs
    BY <1>1, <1>3, QueueEvent
  <2>2. objs[o].state = "active"
    <3>1. Lasts(o)
      BY <2>1, ObjectsSame
    <3> QED
      BY <1>3, <3>1 DEF BidInv, InsertedActive, Pending
  <2> QED
    BY <1>3, <2>1, <2>2 DEF Effects, ObjectsAfter
<1> QED
  BY <1>2, <1>3 DEF Effects, ProcAfter

\* When the loop keeps up, a bid competes in an auction only while it is
\* active: it has been activated before it is put in, and taken out when it is
\* removed (Auctioner::handleActivateBiddingObjects,
\* handleInsertBiddingObjectsAuction, handleRemoveBiddingObjects).
THEOREM CompetitorsActive ==
  ASSUME DistinctEnds, MaxLag = 0
  PROVE  Spec => []CompetingBidsActive
<1>1. Init => BidInv
  BY DEF Init, BidInv, AllocationsPending, RemovalsEnd, NothingLate, ActivatedFirst,
     InsertedActive, CompetingBidsActive, Pending
<1>2. BidInv /\ Known /\ TypeOK' /\ [Next]_vars => BidInv'
  <2> SUFFICES ASSUME BidInv, Known, TypeOK', [Next]_vars PROVE BidInv'
    OBVIOUS
  <2>1. TypeOK
    BY DEF Known, IInv
  <2>2. ASSUME NEW e \in queue, HandleEvent(e)
        PROVE  BidInv'
    <3>1. Effects(e)
      BY <2>1, <2>2, HandlersHaveEffects
    <3>2. AllocationsPending' /\ RemovalsEnd' /\ NothingLate' /\ ActivatedFirst'
      BY <2>1, <3>1, AllocationsPendingKept, RemovalsEndKept, NothingLateKept,
         ActivatedFirstKept DEF BidInv
    <3>3. InsertedActive' /\ CompetingBidsActive'
      BY <2>1, <3>1, InsertedActiveKept, CompetingKept
    <3> QED
      BY <3>2, <3>3 DEF BidInv
  <2>3. ASSUME Idle
        PROVE  BidInv'
    <3>1. UNCHANGED <<objs, proc>>
      BY <2>3 DEF Idle
    <3>2. ASSUME NEW f \in queue',
                 f.type \in BidLists \cup {"ADD_BIDDING_OBJECTS_AUCTION",
                                           "ADD_GENERATED_BIDDING_OBJECTS"}
          PROVE  f \in queue
      BY <2>1, <2>3, <3>2, InputsAreInputs DEF Idle, ListTypes
    <3>3. AllocationsPending' /\ RemovalsEnd' /\ CompetingBidsActive'
      BY <3>1, <3>2 DEF BidInv, AllocationsPending, RemovalsEnd, CompetingBidsActive, Pending,
         BidLists
    <3>4. NothingLate'
      <4> SUFFICES ASSUME NEW f \in queue,
                          f.type \in {"ACTIVATE_BIDDING_OBJECTS", "ADD_BIDDING_OBJECTS_AUCTION"}
                   PROVE  now' <= f.at
        BY <3>2 DEF NothingLate, BidLists
      <4>1. now \in Int /\ f.at \in Int /\ now <= f.at
        BY <2>1, NowInt, QueueEvent DEF BidInv, NothingLate
      <4>2. now' = now \/ (now' = now + 1 /\ now - f.at < 0)
        BY <2>3 DEF Idle
      <4> QED
        BY <4>1, <4>2
    <3>5. ActivatedFirst' /\ InsertedActive'
      BY <3>1, <3>2 DEF BidInv, ActivatedFirst, InsertedActive, Lasts, Pending, BidLists
    <3> QED
      BY <3>3, <3>4, <3>5 DEF BidInv
  <2> QED
    BY <2>1, <2>2, <2>3, OtherStepsIdle DEF Next
<1>3. BidInv => CompetingBidsActive
  BY DEF BidInv
<1>4. IInv /\ RunInv /\ EndsInv /\ DoneHasNoProcess => Known
  BY DEF Known
<1> HIDE DEF BidInv, Known
<1> QED
  BY <1>1, <1>2, <1>3, <1>4, TypeCorrect, Consistent, RunInvariant, EndsInvariant,
     ProcessesClosed, PTL DEF Spec
====
