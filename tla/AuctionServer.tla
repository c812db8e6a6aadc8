---------------------------- MODULE AuctionServer ----------------------------
(***************************************************************************)
(* The auctioneer daemon: one thread that takes the earliest due event     *)
(* from the scheduler, runs its handler, and takes the next one.           *)
(* The handlers drive four components:                                     *)
(*   aucs   - AuctionManager: the auctions ever installed, index = uid + 1 *)
(*   objs   - BiddingObjectManager: bids and allocations, index = uid + 1  *)
(*   proc   - AUMProcessor: the auction processes and the bids that        *)
(*            compete in each, keyed by auction index                      *)
(*   live, stored - SessionManager: sessions in use, sessions kept after   *)
(*            their removal                                                *)
(* Inputs (files loaded by the operator, messages of agents) arrive at any *)
(* time as events.  made and sent are history variables: the allocations   *)
(* an execution produced, and the objects handed to a session.             *)
(***************************************************************************)
EXTENDS EventQueue, FiniteSets

CONSTANTS
  Auctions,      \* names of auctions (set.name)
  AucSpec,       \* AucSpec[n]: [start, stop, ival, align, res, loads]
  Bids,          \* names of bids
  BidSpec,       \* BidSpec[b]: [auc, start, stop, ok]
  Sessions,      \* session identifiers
  SessSpec,      \* SessSpec[s]: [start, stop] of the resource request
  NoSession,     \* the session of a bid that was loaded from a file
  Inputs,        \* files and messages: each is delivered at most once
  ModuleMayFail, \* may an execution of the auction module raise ProcError?
  MaxTime,       \* bound: the clock stops here (tick)
  MaxLag         \* bound: the clock waits for events overdue by this (ticks)

ASSUME NamesAssumption ==
  /\ IsFiniteSet(Auctions) /\ IsFiniteSet(Bids)
  /\ NoSession \notin Sessions

\* Times are seconds; a stop of 0 means "no end", as in Auction's constructor.
ASSUME SpecAssumption ==
  /\ AucSpec \in [Auctions -> [start : Nat, stop : Nat, ival : Nat \ {0},
                               align : BOOLEAN, res : STRING, loads : BOOLEAN]]
  /\ BidSpec \in [Bids -> [auc : Auctions, start : Nat, stop : Nat, ok : BOOLEAN]]
  /\ SessSpec \in [Sessions -> [start : Nat, stop : Nat]]

InputType ==
       [type : {"ADD_AUCTIONS"}, names : Seq(Auctions)]
  \cup [type : {"ADD_BIDDING_OBJECTS"}, sess : {NoSession}, bids : Seq(Bids)]
  \cup [type : {"AUCTION_INTERACTION"}, sess : Sessions, bids : Seq(Bids)]
  \cup [type : {"CREATE_SESSION", "REMOVE_SESSION"}, sess : Sessions]

ASSUME InputsAssumption == Inputs \subseteq InputType

ASSUME BoundsAssumption ==
  /\ MaxTime \in Nat /\ MaxLag \in Nat
  /\ ModuleMayFail \in BOOLEAN

VARIABLES
  now,     \* the clock, in ticks
  queue,   \* EventScheduler: the pending events
  aucs,    \* AuctionManager: sequence of auctions
  objs,    \* BiddingObjectManager: sequence of bidding objects
  proc,    \* AUMProcessor: auction index -> indices of the bids competing
  live,    \* SessionManager: sessions in sessionIndex
  stored,  \* SessionManager: sessions in sessionsDone
  up,      \* is the daemon running?
  inputs,  \* inputs still to come
  made,    \* history: the allocations executions have produced
  sent     \* history: indices of the objects transmitted to their session

vars == <<now, queue, aucs, objs, proc, live, stored, up, inputs, made, sent>>

-----------------------------------------------------------------------------
(***************************************************************************)
(* Helpers.                                                                *)
(***************************************************************************)

Later(x, y) == IF x < y THEN y ELSE x

Sooner(x, y) == IF x < y THEN x ELSE y

\* The set S as a sequence, ordered by the first occurrences in names: the
\* loops of the managers over a parsed file or message.
InOrderOf(S, names) ==
  {f \in [1 .. Cardinality(S) -> S] :
     \A k, l \in DOMAIN f :
       k < l => \E i \in DOMAIN names :
                  names[i] = f[k] /\ \A j \in 1 .. i : names[j] # f[l]}

\* The arrangements of S, for lists whose order the model leaves open.
Arrangements(S) ==
  {f \in [1 .. Cardinality(S) -> S] :
     \A k, l \in DOMAIN f : f[k] = f[l] => k = l}

\* AuctionManager::getAuction(set, name): the index entry is erased when the
\* auction is stored as done.
Installed(n) == {i \in DOMAIN aucs : aucs[i].name = n /\ aucs[i].state # "done"}

\* The index of the auction that a name resolves to.
AuctionOf(n) == CHOOSE i \in Installed(n) : TRUE

\* Auction's and BiddingObject's constructors: a late start is now.
StartOf(s) == Later(s, Sec(now))

\* The run of e: it is the head of the queue, it is due, the daemon runs it
\* and (unless the handler requeues it) it is gone.
Handling(e, type) ==
  /\ up
  /\ IsHead(queue, e)
  /\ e.at <= now
  /\ e.type = type

\* AuctioningObjectManager: the objects of S enter a state.
WithState(os, S, state) ==
  [o \in DOMAIN os |-> IF o \in S THEN [os[o] EXCEPT !.state = state] ELSE os[o]]

Rest(e) == queue \ {e}

Dropped(e) == queue' = Rest(e)

-----------------------------------------------------------------------------
(***************************************************************************)
(* Installing objects.                                                     *)
(***************************************************************************)

\* Resource::verifyAuction: the three conditions under which an auction that
\* runs from s to t clashes with one that runs from s0 to t0.
Clashes(s, t, s0, t0) ==
  \/ s <= s0 /\ s0 <= t /\ t <= t0
  \/ s0 <= s /\ t <= t0
  \/ s <= t0 /\ t0 <= t

\* ResourceManager::verifyAuctions: each auction of the file against those of
\* the same file before it.  The resource keeps none of them afterwards, so
\* auctions of earlier files play no part.
Verified(names) ==
  \A i, j \in DOMAIN names :
    LET a == AucSpec[names[i]]
        b == AucSpec[names[j]]
    IN  j < i /\ a.res = b.res
          => ~Clashes(StartOf(a.start), a.stop, StartOf(b.start), b.stop)

NewAuction(n) ==
  [name |-> n, start |-> StartOf(AucSpec[n].start), stop |-> AucSpec[n].stop,
   state |-> "valid", sessions |-> {}]

\* BiddingObject::calculateIntervals: the start is the one of the interval it
\* returns; a stop in the past is logged and kept.
NewBid(b, s) ==
  [kind |-> "bid", bid |-> b, auc |-> BidSpec[b].auc, sess |-> s,
   start |-> StartOf(BidSpec[b].start), stop |-> BidSpec[b].stop,
   state |-> "valid"]

\* The objects of new (which get the indices after base) that end at t.
EndingAt(new, base, t) == {base + k : k \in {j \in DOMAIN new : new[j].stop = t}}

\* Mutant: the list holds numbers that are one too small.
StartingAtOffByOne(new, base, t) ==
  {base + k - 1 : k \in {j \in DOMAIN new : StartOf(new[j].start) = t}}

\* Those that start at t.
StartingAt(new, base, t) ==
  {base + k : k \in {j \in DOMAIN new : StartOf(new[j].start) = t}}

\* Mutant: an end that is not in the future is not scheduled.
RemovalsInFuture(type, new, base) ==
  {[at |-> At(now, t), rank |-> 2, type |-> type, objs |-> EndingAt(new, base, t)] :
     t \in {t \in {new[j].stop : j \in DOMAIN new} \ {0} : t > Sec(now)}}

\* The events that remove the objects of new when they end: one event for each
\* stop time other than 0.
Removals(type, new, base) ==
  {[at |-> At(now, t), rank |-> 2, type |-> type, objs |-> EndingAt(new, base, t)] :
     t \in {new[j].stop : j \in DOMAIN new} \ {0}}

\* BiddingObjectManager::addAuctioningObjects also groups the objects that
\* start together in one activation event.
Activations(new, base) ==
  {[at |-> At(now, t), rank |-> 1, type |-> "ACTIVATE_BIDDING_OBJECTS",
    objs |-> StartingAt(new, base, t)] :
     t \in {StartOf(new[j].start) : j \in DOMAIN new}}

ScheduleObjects(new, base) ==
  Activations(new, base) \cup Removals("REMOVE_BIDDING_OBJECTS", new, base)

(***************************************************************************)
(* BiddingObjectManager::addAuctioningObjects for the bids of a message or *)
(* file.  A bid that is refused is erased from the list, and the method    *)
(* throws when ONE bid is left in the list at that moment: for a list of   *)
(* two or more of which all but at most one are refused, that is at the    *)
(* last but one, or last, refusal.  What was installed before the throw    *)
(* stays installed, but the loop over the start and stop times, which      *)
(* would schedule it, is never reached.                                    *)
(***************************************************************************)
Accepted(bids) == {i \in DOMAIN bids : BidSpec[bids[i]].ok}

AddThrows(bids) == Len(bids) >= 2 /\ Cardinality(Accepted(bids)) <= 1

AddBids(e) ==
  LET kept == {e.bids[i] : i \in {j \in Accepted(e.bids) :
                                    AddThrows(e.bids) => j < Len(e.bids)}}
  IN  \E order \in InOrderOf(kept, e.bids) :
        LET new == [k \in DOMAIN order |-> NewBid(order[k], e.sess)]
        IN  /\ objs' = objs \o new
            /\ queue' = IF AddThrows(e.bids)
                        THEN Rest(e)
                        ELSE Enqueue(Rest(e), ScheduleObjects(new, Len(objs)))

-----------------------------------------------------------------------------
(***************************************************************************)
(* Auction handlers.                                                       *)
(***************************************************************************)

\* Auctioner::handleAddAuctions and AuctionManager::addAuctioningObjects: a
\* name that is installed already is skipped (error 408); the others are to
\* be activated now (immediateStart) and removed at their stop time.
HandleAddAuctions(e) ==
  /\ Handling(e, "ADD_AUCTIONS")
  /\ LET fresh == {n \in {e.names[i] : i \in DOMAIN e.names} : Installed(n) = {}}
     IN  IF Verified(e.names)
         THEN \E order \in InOrderOf(fresh, e.names) :
                LET base == Len(aucs)
                    new == [k \in DOMAIN order |-> NewAuction(order[k])]
                    activation ==
                      [at |-> now, rank |-> 1, type |-> "ACTIVATE_AUCTIONS",
                       objs |-> {base + k : k \in DOMAIN new}]
                IN  /\ aucs' = aucs \o new
                    /\ queue' = Enqueue(Rest(e),
                                  {ev \in {activation} : ev.objs # {}}
                                  \cup Removals("REMOVE_AUCTIONS", new, base))
         ELSE Dropped(e) /\ UNCHANGED aucs
  /\ UNCHANGED <<now, objs, proc, live, stored, up, inputs, made, sent>>

\* The first execution of auction i: at its start, moved to a period
\* boundary when the auction asks for alignment.
FirstPush(i) ==
  LET a == aucs[i]
      spec == AucSpec[a.name]
      t == At(now, a.start)
  IN  [at |-> IF spec.align THEN Align(t, spec.ival) ELSE t,
       rank |-> i, type |-> "PUSH_EXECUTION",
       index |-> i, stop |-> a.stop, ival |-> spec.ival]

\* Auctioner::handleActivateAuction and AUMProcessor::addAuctionProcess.  An
\* auction whose module cannot be loaded ends the loop: the auctions before
\* it keep their process and their execution, and none becomes active.
HandleActivateAuctions(e) ==
  /\ Handling(e, "ACTIVATE_AUCTIONS")
  /\ LET loads(i) == AucSpec[aucs[i].name].loads
         opened == {i \in e.objs : \A j \in e.objs : j <= i => loads(j)}
     IN  /\ proc' = [i \in DOMAIN proc \cup opened |->
                       IF i \in opened THEN {} ELSE proc[i]]
         /\ queue' = Enqueue(Rest(e), {FirstPush(i) : i \in opened})
         /\ aucs' = IF opened = e.objs
                    THEN WithState(aucs, e.objs, "active")
                    ELSE aucs
  /\ UNCHANGED <<now, objs, live, stored, up, inputs, made, sent>>

\* The allocation the module makes for bid object b over a window.
Allocation(b, start, stop) ==
  [kind |-> "alloc", bid |-> objs[b].bid, auc |-> objs[b].auc,
   sess |-> objs[b].sess, start |-> start, stop |-> stop, state |-> "new"]

\* Mutant: the end of the window is counted in.
WindowStopInclusive(e) == Sooner(Sec(e.at) + e.ival + 1, e.stop)

\* The end of the window that execution e clears: one interval after the
\* event's own second, cut at the stop of the auction.
WindowStop(e) == Sooner(Sec(e.at) + e.ival, e.stop)

\* Auctioner::handlePushExecution and AUMProcessor::executeAuction.  With no
\* bids the module is not called.  The execution is requeued, after the event
\* with its allocations, until its window reaches the stop.
HandlePushExecution(e) ==
  /\ Handling(e, "PUSH_EXECUTION")
  /\ e.index \in DOMAIN proc
  /\ LET start == Sec(e.at)
         stop == WindowStop(e)
         requeue(q) == IF stop < e.stop THEN Reschedule(q, e, now) ELSE q
     IN  IF proc[e.index] = {}
         THEN queue' = requeue(Rest(e)) /\ UNCHANGED made
         ELSE \E order \in Arrangements(proc[e.index]) :
                LET allocs == [k \in DOMAIN order |->
                                 Allocation(order[k], start, stop)]
                    generated == [at |-> now, rank |-> 1,
                                  type |-> "ADD_GENERATED_BIDDING_OBJECTS",
                                  allocs |-> allocs]
                IN  /\ queue' = requeue(Enqueue(Rest(e), {generated}))
                    /\ made' = made \cup {allocs[k] : k \in DOMAIN allocs}
  /\ UNCHANGED <<now, aucs, objs, proc, live, stored, up, inputs, sent>>

\* The same handler when the auction has no process, or its module raises
\* ProcError: the error is logged and the event is not scheduled again.
HandlePushExecutionError(e) ==
  /\ Handling(e, "PUSH_EXECUTION")
  /\ \/ e.index \notin DOMAIN proc
     \/ ModuleMayFail /\ proc[e.index] # {}
  /\ Dropped(e)
  /\ UNCHANGED <<now, aucs, objs, proc, live, stored, up, inputs, made, sent>>

(***************************************************************************)
(* AUMProcessor::delAuctions walks the processes from the largest index    *)
(* down and deletes those of the auctions in the batch (compared by name). *)
(* After a deletion it starts again at rbegin() and then steps on, so the  *)
(* process that has become the largest is never looked at.  That matters   *)
(* only when the largest process was deleted.                              *)
(***************************************************************************)
Largest(S) == CHOOSE i \in S : \A j \in S : j <= i

\* Mutant: the names are not compared.
ProcessesOfAny(names) == DOMAIN proc

ProcessesOf(names) == {i \in DOMAIN proc : aucs[i].name \in names}

\* Mutant: the walk steps on before it looks at the first process.
OverlookedFirst(matched) == matched \cap {Largest(DOMAIN proc)}

Overlooked(matched) ==
  LET below == DOMAIN proc \ {Largest(DOMAIN proc)}
  IN  IF Largest(DOMAIN proc) \in matched /\ below # {}
      THEN {Largest(below)}
      ELSE {}

\* Auctioner::handleRemoveAuctions, AUMProcessor::delAuctions and
\* AuctionManager::delAuctioningObjects.
HandleRemoveAuctions(e) ==
  /\ Handling(e, "REMOVE_AUCTIONS")
  /\ LET matched == ProcessesOf({aucs[i].name : i \in e.objs})
         gone == IF matched = {} THEN {} ELSE matched \ Overlooked(matched)
     IN  /\ proc' = [i \in DOMAIN proc \ gone |-> proc[i]]
         /\ queue' = DelAuctionEvents(
                       DelProcessExecutionEvents(Rest(e), gone), e.objs)
  /\ aucs' = WithState(aucs, e.objs, "done")
  /\ UNCHANGED <<now, objs, live, stored, up, inputs, made, sent>>

-----------------------------------------------------------------------------
(***************************************************************************)
(* Bidding object handlers.                                                *)
(***************************************************************************)

\* Auctioner::handleAddBiddingObjects: the bids of a file, without a session.
HandleAddBiddingObjects(e) ==
  /\ Handling(e, "ADD_BIDDING_OBJECTS")
  /\ AddBids(e)
  /\ UNCHANGED <<now, aucs, proc, live, stored, up, inputs, made, sent>>

\* Auctioner::handleAuctioningInteraction with the bids of one message.  The
\* acknowledgements it sends and receives are not part of this module.
HandleAuctionInteraction(e) ==
  /\ Handling(e, "AUCTION_INTERACTION")
  /\ IF e.sess \in live
     THEN AddBids(e)
     ELSE Dropped(e) /\ UNCHANGED objs
  /\ UNCHANGED <<now, aucs, proc, live, stored, up, inputs, made, sent>>

\* Auctioner::handleActivateBiddingObjects: every object becomes active, and
\* the bids among them are put on their way into the auction processes.
HandleActivateBiddingObjects(e) ==
  /\ Handling(e, "ACTIVATE_BIDDING_OBJECTS")
  /\ LET bids == {o \in e.objs : objs[o].kind = "bid"}
         insertion == [at |-> now, rank |-> 1,
                       type |-> "ADD_BIDDING_OBJECTS_AUCTION", objs |-> bids]
     IN  queue' = Enqueue(Rest(e), {ev \in {insertion} : bids # {}})
  /\ objs' = WithState(objs, e.objs, "active")
  /\ UNCHANGED <<now, aucs, proc, live, stored, up, inputs, made, sent>>

\* Auctioner::handleAddBiddingObjectsAuction: all or nothing on the state of
\* the auctions; then bid by bid, up to the first auction without a process.
\* The state of the bids themselves is not looked at.
HandleAddBiddingObjectsAuction(e) ==
  /\ Handling(e, "ADD_BIDDING_OBJECTS_AUCTION")
  /\ LET target(o) == AuctionOf(objs[o].auc)
         open(o) == \E i \in Installed(objs[o].auc) : aucs[i].state = "active"
         placed == {o \in e.objs :
                      \A p \in e.objs : p <= o => target(p) \in DOMAIN proc}
     IN  proc' = IF \A o \in e.objs : open(o)
                 THEN [i \in DOMAIN proc |->
                         proc[i] \cup {o \in placed : target(o) = i}]
                 ELSE proc
  /\ Dropped(e)
  /\ UNCHANGED <<now, aucs, objs, live, stored, up, inputs, made, sent>>

\* Mutant: the process is looked up by the number of the bid.
WithoutBidsByUid(S) == [i \in DOMAIN proc |-> proc[i] \ {o \in S : i = o}]

\* AUMProcessor::delBiddingObjectAuctionProcess for the objects of S, in the
\* auction that the name of each resolves to.
WithoutBids(S) ==
  [i \in DOMAIN proc |-> proc[i] \ {o \in S : i \in Installed(objs[o].auc)}]

\* Auctioner::handleRemoveBiddingObjects: an object leaves the process of its
\* auction, if there is one, and is stored as done.
HandleRemoveBiddingObjects(e) ==
  /\ Handling(e, "REMOVE_BIDDING_OBJECTS")
  /\ proc' = WithoutBids(e.objs)
  /\ objs' = WithState(objs, e.objs, "done")
  /\ queue' = DelBiddingObjectEvents(Rest(e), e.objs, 1)
  /\ UNCHANGED <<now, aucs, live, stored, up, inputs, made, sent>>

Transmission(S) ==
  [at |-> now, rank |-> 3, type |-> "TRANSMIT_BIDDING_OBJECTS", objs |-> S]

\* Auctioner::handleAddGeneratedBiddingObjects: the allocations are installed
\* and scheduled like bids, and are to be transmitted now.
HandleAddGeneratedBiddingObjects(e) ==
  /\ Handling(e, "ADD_GENERATED_BIDDING_OBJECTS")
  /\ LET base == Len(objs)
         new == [k \in DOMAIN e.allocs |-> [e.allocs[k] EXCEPT !.state = "valid"]]
     IN  /\ objs' = objs \o new
         /\ queue' = Enqueue(Rest(e), ScheduleObjects(new, base)
                              \cup {Transmission({base + k : k \in DOMAIN new})})
  /\ UNCHANGED <<now, aucs, proc, live, stored, up, inputs, made, sent>>

\* Mutant: the sessions in storage are not searched.
ReachedLive(e) ==
  {o \in e.objs : \A p \in e.objs : p <= o => objs[p].sess \in live}

\* Auctioner::handleTransmitBiddingObjects goes up to the first object whose
\* session is unknown.
Reached(e) ==
  {o \in e.objs : \A p \in e.objs :
                    p <= o => objs[p].sess \in live \cup stored}

\* The message is built from the auction that the name in the object resolves
\* to, unchecked: with the auction gone, MAPIBiddingObjectParser dereferences
\* a null pointer and the daemon is down.
HandleTransmitBiddingObjects(e) ==
  /\ Handling(e, "TRANSMIT_BIDDING_OBJECTS")
  /\ up' = \A o \in Reached(e) : Installed(objs[o].auc) # {}
  /\ sent' = IF up' THEN sent \cup Reached(e) ELSE sent
  /\ Dropped(e)
  /\ UNCHANGED <<now, aucs, objs, proc, live, stored, inputs, made>>

-----------------------------------------------------------------------------
(***************************************************************************)
(* Session handlers.                                                       *)
(***************************************************************************)

\* AUMProcessor::getApplicableAuctions with AUMProcessor::intersects: an
\* auction without end (stop 0) intersects nothing.
Applicable(s) ==
  {i \in DOMAIN proc : /\ SessSpec[s].stop > aucs[i].start
                       /\ aucs[i].stop > SessSpec[s].start}

\* Auctioner::handleCreateSession.  The references are added before the
\* session is; when the session is installed already they stay.
HandleCreateSession(e) ==
  /\ Handling(e, "CREATE_SESSION")
  /\ LET names == {aucs[i].name : i \in Applicable(e.sess)}
     IN  /\ aucs' = [i \in DOMAIN aucs |->
                       IF aucs[i].name \in names /\ aucs[i].state # "done"
                       THEN [aucs[i] EXCEPT !.sessions = @ \cup {e.sess}]
                       ELSE aucs[i]]
         /\ live' = IF names = {} THEN live ELSE live \cup {e.sess}
  /\ Dropped(e)
  /\ UNCHANGED <<now, objs, proc, stored, up, inputs, made, sent>>

\* Auctioner::handleRemoveSession: the references are not taken back.
HandleRemoveSession(e) ==
  /\ Handling(e, "REMOVE_SESSION")
  /\ live' = live \ {e.sess}
  /\ stored' = stored \cup ({e.sess} \cap live)
  /\ Dropped(e)
  /\ UNCHANGED <<now, aucs, objs, proc, up, inputs, made, sent>>

-----------------------------------------------------------------------------
(***************************************************************************)
(* The daemon and its environment.                                         *)
(***************************************************************************)

\* A file is loaded by the operator (CtrlComm) or a message of an agent is
\* taken from the signalling layer (AnslpProcessor): an event expiring now.
InputEvent(i) ==
  CASE i.type = "ADD_AUCTIONS" ->
         [at |-> now, rank |-> 1, type |-> i.type, names |-> i.names]
    [] i.type \in {"ADD_BIDDING_OBJECTS", "AUCTION_INTERACTION"} ->
         [at |-> now, rank |-> 1, type |-> i.type, sess |-> i.sess, bids |-> i.bids]
    [] OTHER ->
         [at |-> now, rank |-> 1, type |-> i.type, sess |-> i.sess]

Arrive(i) ==
  /\ up
  /\ inputs' = inputs \ {i}
  /\ queue' = Enqueue(queue, {InputEvent(i)})
  /\ UNCHANGED <<now, aucs, objs, proc, live, stored, up, made, sent>>

\* Time passes.  With MaxLag = 0 the loop keeps up: what is due runs before
\* the next tick.
Tick ==
  /\ up
  /\ now < MaxTime
  /\ \A e \in queue : now - e.at < MaxLag
  /\ now' = now + 1
  /\ UNCHANGED <<queue, aucs, objs, proc, live, stored, up, inputs, made, sent>>

Init ==
  /\ now = 0
  /\ queue = {}
  /\ aucs = << >>
  /\ objs = << >>
  /\ proc = [i \in {} |-> {}]
  /\ live = {} /\ stored = {}
  /\ up = TRUE
  /\ inputs = Inputs
  /\ made = {} /\ sent = {}

\* Auctioner::handleEvent: the handler of an event.
HandleEvent(e) ==
  \/ HandleAddAuctions(e)
  \/ HandleActivateAuctions(e)
  \/ HandlePushExecution(e)
  \/ HandlePushExecutionError(e)
  \/ HandleRemoveAuctions(e)
  \/ HandleAddBiddingObjects(e)
  \/ HandleAuctionInteraction(e)
  \/ HandleActivateBiddingObjects(e)
  \/ HandleAddBiddingObjectsAuction(e)
  \/ HandleRemoveBiddingObjects(e)
  \/ HandleAddGeneratedBiddingObjects(e)
  \/ HandleTransmitBiddingObjects(e)
  \/ HandleCreateSession(e)
  \/ HandleRemoveSession(e)

Next ==
  \/ \E e \in queue : HandleEvent(e)
  \/ \E i \in inputs : Arrive(i)
  \/ Tick

\* The loop of Auctioner::run never blocks for longer than 10 ms, so an event
\* that is due is handled; and time passes.  Inputs owe nothing.
Fairness == WF_vars(\E e \in queue : HandleEvent(e)) /\ WF_vars(Tick)

Spec == Init /\ [][Next]_vars

FairSpec == Spec /\ Fairness

-----------------------------------------------------------------------------
(***************************************************************************)
(* Types.                                                                  *)
(***************************************************************************)
AuctionType ==
  [name : Auctions, start : Int, stop : Nat,
   state : {"valid", "active", "done"}, sessions : SUBSET Sessions]

ObjectType(states) ==
  [kind : {"bid", "alloc"}, bid : Bids, auc : Auctions,
   sess : Sessions \cup {NoSession}, start : Int, stop : Int, state : states]

Installable == {"valid", "active", "done"}

\* The events that can be pending when A and O are the indices given out to
\* auctions and bidding objects.  Lists of objects are never empty.
ListOf(S) == (SUBSET S) \ {{}}

EventType(A, O) ==
       [at : Int, rank : Nat, type : {"ADD_AUCTIONS"}, names : Seq(Auctions)]
  \cup [at : Int, rank : Nat, type : {"ADD_BIDDING_OBJECTS", "AUCTION_INTERACTION"},
        sess : Sessions \cup {NoSession}, bids : Seq(Bids)]
  \cup [at : Int, rank : Nat, type : {"CREATE_SESSION", "REMOVE_SESSION"},
        sess : Sessions]
  \cup [at : Int, rank : Nat, type : AuctionLists, objs : ListOf(A)]
  \cup [at : Int, rank : Nat, type : BidLists \cup {"ADD_BIDDING_OBJECTS_AUCTION"},
        objs : ListOf(O)]
  \cup [at : Int, rank : Nat, type : {"PUSH_EXECUTION"},
        index : A, stop : Nat, ival : Nat \ {0}]
  \cup [at : Int, rank : Nat, type : {"ADD_GENERATED_BIDDING_OBJECTS"},
        allocs : Seq(ObjectType({"new"})) \ {<< >>}]

\* The type invariant.  Beyond the types it says that the indices which the
\* components keep of each other's objects are indices of objects.
TypeOK ==
  /\ now \in 0 .. MaxTime
  /\ queue \subseteq EventType(DOMAIN aucs, DOMAIN objs)
  /\ aucs \in Seq(AuctionType)
  /\ objs \in Seq(ObjectType(Installable))
  /\ DOMAIN proc \subseteq DOMAIN aucs
  /\ proc \in [DOMAIN proc -> SUBSET DOMAIN objs]
  /\ live \subseteq Sessions /\ stored \subseteq Sessions
  /\ up \in BOOLEAN
  /\ inputs \subseteq Inputs
  /\ made \subseteq ObjectType({"new"})
  /\ sent \subseteq DOMAIN objs

-----------------------------------------------------------------------------
(***************************************************************************)
(* Safety.                                                                 *)
(***************************************************************************)

Pending(type) == {e \in queue : e.type = type}

\* The recurring execution of an auction lives in the queue, outside the
\* component that owns the auction.  It never outlives the process it runs
\* (executeAuction would fail and the auction would stop clearing), and an
\* auction is never cleared by two executions side by side.
OneExecutionPerProcess ==
  \A e \in Pending("PUSH_EXECUTION") :
    /\ e.index \in DOMAIN proc
    /\ \A f \in Pending("PUSH_EXECUTION") : f.index = e.index => f = e

\* AuctionManager's state and AUMProcessor's map agree: an auction that
\* accepts bids (state active) has the process that will take them.
ActiveHasProcess ==
  \A i \in DOMAIN aucs : aucs[i].state = "active" => i \in DOMAIN proc

\* An auction that waits for its activation is in one list only and has never
\* been opened.
ActivationsCurrent ==
  \A e \in Pending("ACTIVATE_AUCTIONS") :
    /\ \A i \in e.objs : aucs[i].state = "valid" /\ i \notin DOMAIN proc
    /\ \A f \in Pending("ACTIVATE_AUCTIONS") : f # e => e.objs \cap f.objs = {}

\* No auction that waits for its removal has been removed already.
RemovalsCurrent ==
  \A e \in Pending("REMOVE_AUCTIONS") : \A i \in e.objs : aucs[i].state # "done"

\* No bidding object that waits for its activation has been removed already.
BidActivationsCurrent ==
  \A e \in Pending("ACTIVATE_BIDDING_OBJECTS") :
    \A o \in e.objs : objs[o].state # "done"

\* A name denotes at most one auction that is not done.
NamesUnique ==
  \A i, j \in DOMAIN aucs :
    aucs[i].name = aucs[j].name /\ aucs[i].state # "done" /\ aucs[j].state # "done"
      => i = j

\* The lists that the queue keeps of the managers' objects are up to date,
\* whatever was removed, renamed or loaded twice since they were made.
QueueCurrent ==
  /\ ActivationsCurrent
  /\ RemovalsCurrent
  /\ BidActivationsCurrent
  /\ NamesUnique

\* An auction that was removed leaves no process behind, so it can neither
\* be offered to a new session nor clear again.
DoneHasNoProcess ==
  \A i \in DOMAIN aucs : aucs[i].state = "done" => i \notin DOMAIN proc

\* The same bandwidth is not sold twice to a bid: the allocations of a bid (its
\* name in a session) in an auction cover disjoint windows, inside the
\* auction's own interval.  An auction without end has stop 0.
WindowsDisjoint ==
  /\ \A m, n \in made :
       m # n /\ m.bid = n.bid /\ m.sess = n.sess /\ m.auc = n.auc
         => m.stop <= n.start \/ n.stop <= m.start
  /\ \A m \in made : \E i \in DOMAIN aucs :
       /\ aucs[i].name = m.auc
       /\ aucs[i].start <= m.start
       /\ aucs[i].stop # 0 => m.start <= m.stop /\ m.stop <= aucs[i].stop

\* Only bids that are active compete for an allocation: activation, insertion
\* in the process and removal are three events, and their order in the queue
\* decides.
CompetingBidsActive ==
  \A i \in DOMAIN proc : \A o \in proc[i] :
    objs[o].stop = 0 \/ objs[o].start < objs[o].stop => objs[o].state = "active"

\* What has been installed is scheduled: it will be activated, and if it has
\* an end it will be removed.
AuctionsScheduled ==
  \A i \in DOMAIN aucs :
    /\ aucs[i].state = "valid" =>
         \E e \in Pending("ACTIVATE_AUCTIONS") : i \in e.objs
    /\ aucs[i].state # "done" /\ aucs[i].stop # 0 =>
         \E e \in Pending("REMOVE_AUCTIONS") : i \in e.objs

\* The same for bids and allocations.
BidsScheduled ==
  \A o \in DOMAIN objs :
    /\ objs[o].state = "valid" =>
         \E e \in Pending("ACTIVATE_BIDDING_OBJECTS") : o \in e.objs
    /\ objs[o].state # "done" /\ objs[o].stop # 0 =>
         \E e \in Pending("REMOVE_BIDDING_OBJECTS") : o \in e.objs

\* What addAuctioningObjects of either manager installs is not forgotten,
\* whatever lists it was in and whatever else left them.
Scheduled == AuctionsScheduled /\ BidsScheduled

\* The daemon keeps running, however late it is: when an allocation reaches
\* its transmission, the auction that the message is built from is installed.
\* (The queue orders the allocation's own removal before its transmission as
\* soon as its window, and so possibly its auction, has ended.)
Running == up

-----------------------------------------------------------------------------
(***************************************************************************)
(* Steps.                                                                  *)
(***************************************************************************)

\* Done is final: no event that is still in the queue when an auction or a
\* bidding object is stored as done brings it back.
DoneIsFinal ==
  [][/\ \A i \in DOMAIN aucs : aucs[i].state = "done" => aucs'[i].state = "done"
     /\ \A o \in DOMAIN objs : objs[o].state = "done" => objs'[o].state = "done"]_vars

-----------------------------------------------------------------------------
(***************************************************************************)
(* Liveness, under FairSpec.                                               *)
(***************************************************************************)

\* An auction that ends within the modelled time is eventually stored as done.
AuctionCloses ==
  \A n \in Auctions :
    (\E i \in Installed(n) : aucs[i].stop # 0 /\ aucs[i].stop * Frac < MaxTime)
      ~> (Installed(n) = {})

\* An allocation made for the bid of a session is eventually transmitted.
AllocationDelivered ==
  \A b \in Bids : \A s \in Sessions : \A t \in 0 .. MaxTime :
    (\E m \in made : m.bid = b /\ m.sess = s /\ m.start = t)
      ~> (\E o \in sent : /\ objs[o].kind = "alloc" /\ objs[o].bid = b
                          /\ objs[o].sess = s /\ objs[o].start = t)
=============================================================================
