-------------------------------- MODULE Agent --------------------------------
(***************************************************************************)
(* The agent daemon: from the intervals of the resource requests to the    *)
(* bids it sends and the allocations it gets back (user_agent/Agent).      *)
(*                                                                         *)
(* An interval is activated at its start: a session is created and the     *)
(* signalling layer (external) asks the auctioneers for auctions.  The     *)
(* answer lists auctions; those the agent does not hold yet are installed, *)
(* a request process over all of them is added (AgentProcessor), and its   *)
(* execution makes the bids.  Everything then ends by events of the one    *)
(* queue: the process, the bids, the auctions, the interval.               *)
(*   now     - time in ticks                                               *)
(*   queue   - EventSchedulerAgent                                         *)
(*   aucs    - AuctionManager: the auctions by number, the ended included  *)
(*   objs    - BiddingObjectManager: bids and allocations by number        *)
(*   sess    - the intervals and their sessions                            *)
(*   net     - the signalling session of each interval                     *)
(*   files   - resource request files still to come                        *)
(*   up      - is the daemon running?                                      *)
(*   sent    - history: <<object, interval>>, a bid and the interval by    *)
(*             whose session it went                                       *)
(* and the constants and variables of AgentProcessor: Requests are the     *)
(* intervals, Auctions the names of auctions, all of one module (bas).     *)
(***************************************************************************)
EXTENDS EventQueue, AgentProcessor

CONSTANTS
  Files,     \* the resource request files: sets of intervals, each in one file
  Window,    \* Window[r]: start and stop of interval r, in seconds
  Offer,     \* Offer[a]: start, stop and ival of auction a in a message
  Answers,   \* the lists of auctions an answer may carry, each auction once
  Start,     \* the tick at which the daemon starts
  LastFile,  \* bound: the last tick at which a file comes
  MaxLate,   \* bound: seconds after its interval's end an answer may take
  Allocated, \* bound: the intervals to whose bids allocations are made
  MaxTime    \* bound: the last tick

ASSUME WindowAssumption ==
  /\ Start \in Nat /\ MaxTime \in Nat /\ Start <= MaxTime
  /\ LastFile \in Nat /\ MaxLate \in Nat
  /\ Allocated \subseteq Requests
  /\ \A r \in Requests : /\ Window[r].start \in Nat /\ Window[r].stop \in Nat
                         /\ Window[r].start < Window[r].stop
  /\ \A a \in Auctions : /\ Offer[a].start \in Nat /\ Offer[a].stop \in Nat
                         /\ Offer[a].start < Offer[a].stop
                         /\ Offer[a].ival \in Nat
  /\ Files \subseteq SUBSET Requests
  /\ \A F, G \in Files : F # G => F \cap G = {}
  /\ \A F \in Files : \A q, r \in F : Window[q].start = Window[r].start => q = r
  /\ \A list \in Answers : /\ list \in Seq(Auctions) /\ list # <<>>
                            /\ \A k, l \in DOMAIN list : list[k] = list[l] => k = l

VARIABLES now, queue, aucs, objs, sess, net, files, up, sent

vars == <<now, queue, aucs, objs, sess, net, files, up, sent, processes>>

-----------------------------------------------------------------------------
(***************************************************************************)
(* Helpers.                                                                *)
(***************************************************************************)
Later(x, y) == IF x < y THEN y ELSE x

Sooner(x, y) == IF x < y THEN x ELSE y

Time == Sec(now)

\* The event loop takes the head of the queue when it is due.
Handling(e, type) ==
  /\ up
  /\ IsHead(queue, e)
  /\ e.at <= now
  /\ e.type = type

Rest(e) == queue \ {e}

\* An auction that is installed, by number and by name.
Installed(i) == i \in DOMAIN aucs /\ aucs[i].state # "done"

NumberOf(a) == CHOOSE i \in DOMAIN aucs : aucs[i].name = a /\ Installed(i)

Entering(os, S, state) ==
  [o \in DOMAIN os |-> IF o \in S THEN [os[o] EXCEPT !.state = state] ELSE os[o]]

-----------------------------------------------------------------------------
(***************************************************************************)
(* Resource requests.                                                      *)
(***************************************************************************)

\* A session and the auctions of its list.  "answer" is history: the list came
\* in time; slowly, when the removal of an auction in it was due already; or
\* late, when the interval had been removed.  One that came in time is replaced
\* when the number of its process is given out again while the process is there.
NoSession == [state |-> "none", start |-> 0, stop |-> 0, end |-> 0,
              aucs |-> {}, torn |-> FALSE, answer |-> "none"]

\* The intervals of F from the first to the last: the place of r, which is
\* the microsecond its events get.
Place(r, F) == Cardinality({q \in F : Window[q].start <= Window[r].start})

IntervalEvents(F) ==
  {[at |-> At(now, Later(Window[r].start, Time)), rank |-> 2 * Place(r, F) - 1,
    type |-> "ACTIVATE_RESOURCE_REQUEST_INTERVAL", req |-> r] : r \in F}
  \cup
  {[at |-> At(now, Window[r].stop), rank |-> 2 * Place(r, F),
    type |-> "REMOVE_RESOURCE_REQUEST_INTERVAL", req |-> r] : r \in F}

\* handleAddResourceRequests with ResourceRequestManager.  A file with an
\* interval that is over is refused as a whole; a start that has passed is now.
HandleAddResourceRequests(e) ==
  /\ Handling(e, "ADD_RESOURCE_REQUESTS")
  /\ IF \E r \in e.reqs : Window[r].stop <= Time
     THEN queue' = Rest(e) /\ UNCHANGED sess
     ELSE /\ queue' = Enqueue(Rest(e), IntervalEvents(e.reqs))
          /\ sess' = [r \in Requests |->
                        IF r \in e.reqs
                        THEN [sess[r] EXCEPT !.start = Later(Window[r].start, Time),
                                             !.stop = Window[r].stop]
                        ELSE sess[r]]
  /\ UNCHANGED <<now, aucs, objs, net, files, up, sent, processes>>

\* handleActivateResourceRequestInterval: a new session asks for auctions.
HandleActivateInterval(e) ==
  /\ Handling(e, "ACTIVATE_RESOURCE_REQUEST_INTERVAL")
  /\ sess' = [sess EXCEPT ![e.req].state = "created"]
  /\ net' = [net EXCEPT ![e.req] = "asked"]
  /\ queue' = Rest(e)
  /\ UNCHANGED <<now, aucs, objs, files, up, sent, processes>>

\* handleActivateSession: the session gets the name it has in signalling.
HandleConfigureSession(e) ==
  /\ Handling(e, "CONFIGURE_SESSION")
  /\ sess' = [sess EXCEPT ![e.req].state = "active"]
  /\ queue' = Rest(e)
  /\ UNCHANGED <<now, aucs, objs, net, files, up, sent, processes>>

-----------------------------------------------------------------------------
(***************************************************************************)
(* The answer to a session: handleSingleCreateSession.                     *)
(***************************************************************************)

\* intersectInterval; windows that do not meet give that of the interval.
IntersectInterval(a, s) ==
  [start |-> IF a.start <= s.start \/ s.stop <= a.start THEN s.start ELSE a.start,
   stop |-> IF a.stop <= s.stop /\ s.start < a.stop THEN a.stop ELSE s.stop]

\* Rounded up to a whole number of the auction's intervals.
RoundUp(w, ival) ==
  IF ival > 0 /\ (w.stop - w.start) % ival > 0
  THEN w.start + ival * ((w.stop - w.start) \div ival + 1)
  ELSE w.stop

NewAuction(a, s) ==
  LET w == IntersectInterval(Offer[a], s)
  IN  [name |-> a, start |-> w.start, stop |-> RoundUp(w, Offer[a].ival),
       state |-> "valid", sessions |-> {}]

\* Mutant: the numbers of the new objects are one too high.
WithNext(new, base, field, t) ==
  {base + k + 1 : k \in {j \in DOMAIN new : new[j][field] = t}}

\* The auctions of new, whose numbers follow base, that have time t at "field".
With(new, base, field, t) ==
  {base + k : k \in {j \in DOMAIN new : new[j][field] = t}}

\* AuctionManager and BiddingObjectManager::addAuctioningObjects: an event for
\* each time at which objects start, and one for each at which they stop.
Schedule(new, base, activate, remove) ==
  {[at |-> At(now, t), rank |-> 1, type |-> activate,
    objs |-> With(new, base, "start", t)] : t \in {new[k].start : k \in DOMAIN new}}
  \cup
  {[at |-> At(now, t), rank |-> 2, type |-> remove,
    objs |-> With(new, base, "stop", t)] : t \in {new[k].stop : k \in DOMAIN new} \ {0}}

\* Mutant: the removal of an auction that is used longer stays where it is.
RescheduleForgotten(q, i, t) == q

\* rescheduleAuctionDelete: every removal that lists auction i moves, with the
\* others it lists, to second t (without a fraction).
RescheduleAuctionDelete(q, i, t) ==
  LET moved == {e \in q : e.type = "REMOVE_AUCTIONS" /\ i \in e.objs}
      place(e) == Cardinality({f \in moved : ~Before(e, f)})
  IN  Enqueue(q \ moved, {[e EXCEPT !.at = t * Frac, !.rank = place(e)] : e \in moved})

\* Mutant: the process is to end when its session starts.
RequestEndAtStart(s, S) == s.start

\* The end of the process: a multiple of the longest interval, and one more.
RequestEnd(s, S) ==
  LET ivals == {Offer[a].ival : a \in S}
      longest == CHOOSE n \in ivals : \A m \in ivals : m <= n
  IN  IF longest > 0
      THEN s.start + longest * ((s.stop - s.start) \div longest + 1)
      ELSE s.stop

Positions(list) == {k \in DOMAIN list : list[k] \in present}

(***************************************************************************)
(* createAuctions walks the list and, for an auction that is installed,    *)
(* deletes the new object, erases its place and pushes the installed one   *)
(* at the end.  That is sound only for the last place: for any other the   *)
(* walk skips the next auction and then meets, and deletes, the installed  *)
(* object, which stays in use.                                             *)
(***************************************************************************)
WalkSound(list) == Positions(list) \subseteq {Len(list)}

\* The auctions of a list that are new, when the walk is sound.
Fresh(list) == SubSeq(list, 1, Len(list) - Cardinality(Positions(list)))

\* An auction of S is about to be removed.
RemovalDue(q, S) ==
  \E e \in q : e.type = "REMOVE_AUCTIONS" /\ e.at <= now /\ e.objs \cap S # {}

\* requests[index] is overwritten: the sessions of the others, and that of the
\* process that was there.
Replaced(index) ==
  [q \in Requests |->
     IF /\ sess[q].answer = "in time"
        /\ index \in DOMAIN requests /\ requests[index].req = q
     THEN [sess[q] EXCEPT !.answer = "replaced"] ELSE sess[q]]

\* increaseSessionReferences
Referenced(list, numbers, r) ==
  [i \in DOMAIN list |-> IF i \in numbers THEN [list[i] EXCEPT !.sessions = @ \cup {r}] ELSE list[i]]

\* createAuctions, createProcessRequests and increaseSessionReferences.
HandleResponseCreateSession(e) ==
  /\ Handling(e, "CREATE_SESSION")
  /\ WalkSound(e.list)
  /\ LET r == e.req
         s == sess[r]
         S == {e.list[k] : k \in DOMAIN e.list}
         fresh == Fresh(e.list)
         new == [k \in DOMAIN fresh |-> NewAuction(fresh[k], s)]
         base == Len(aucs)
         known == {NumberOf(a) : a \in S \cap present}
         longer == {i \in known : aucs[i].stop < s.stop}
         listed == known \cup {base + k : k \in DOMAIN new}
         extended == [i \in DOMAIN aucs |->
                        IF i \in known
                        THEN [aucs[i] EXCEPT !.start = Sooner(@, s.start),
                                             !.stop = Later(@, s.stop)]
                        ELSE aucs[i]]
         index == NewId(source)
         end == RequestEnd(s, S)
         moved == IF longer = {} THEN Rest(e)
                  ELSE RescheduleAuctionDelete(Rest(e), CHOOSE i \in longer : TRUE, s.stop)
     IN  /\ AddRequest(r, S)
         /\ aucs' = Referenced(extended \o new, listed, r)
         /\ queue' = Enqueue(moved,
                       Schedule(new, base, "ACTIVATE_AUCTIONS", "REMOVE_AUCTIONS")
                       \cup {[at |-> At(now, s.start), rank |-> 3,
                              type |-> "PUSH_EXECUTION", index |-> index],
                             [at |-> At(now, end), rank |-> 4,
                              type |-> "REMOVE_PUSH_EXECUTION", index |-> index, req |-> r]})
         /\ sess' = [Replaced(index) EXCEPT
                       ![r].aucs = listed, ![r].end = end,
                       ![r].answer = IF s.torn THEN "late"
                                     ELSE IF RemovalDue(queue', listed) THEN "slow"
                                     ELSE "in time"]
  /\ UNCHANGED <<now, objs, net, files, up, sent>>

\* Otherwise an object is used after it was deleted: the daemon is lost.
UseDeletedAuction(e) ==
  /\ Handling(e, "CREATE_SESSION")
  /\ ~WalkSound(e.list)
  /\ up' = FALSE
  /\ queue' = Rest(e)
  /\ UNCHANGED <<now, aucs, objs, sess, net, files, sent, processes>>

-----------------------------------------------------------------------------
(***************************************************************************)
(* Execution of a process, and the bids it makes.                          *)
(***************************************************************************)

\* execute_user of basuser: a bid for each auction of the process, over the
\* window of the process.
Bid(index, a) ==
  LET r == requests[index].req
  IN  [kind |-> "bid", req |-> r, auc |-> a,
       start |-> sess[r].start, stop |-> sess[r].end, state |-> "new"]

Arrangements(S) ==
  {f \in [1 .. Cardinality(S) -> S] : \A k, l \in DOMAIN f : f[k] = f[l] => k = l}

\* handlePushExecution and AgentProcessor::executeRequest; a number that is
\* not in the table is logged.
HandlePushExecution(e) ==
  /\ Handling(e, "PUSH_EXECUTION")
  /\ IF e.index \in DOMAIN requests
     THEN \E order \in Arrangements(requests[e.index].aucs) :
            queue' = Enqueue(Rest(e),
                       {[at |-> now, rank |-> 1, type |-> "ADD_GENERATED_BIDDING_OBJECTS",
                         index |-> e.index,
                         allocs |-> [k \in DOMAIN order |-> Bid(e.index, order[k])]]})
     ELSE queue' = Rest(e)
  /\ UNCHANGED <<now, aucs, objs, sess, net, files, up, sent, processes>>

\* handleRemovePushExecution.
HandleRemovePushExecution(e) ==
  /\ Handling(e, "REMOVE_PUSH_EXECUTION")
  /\ DelRequest(e.req, "event")
  /\ queue' = Rest(e)
  /\ UNCHANGED <<now, aucs, objs, sess, net, files, up, sent>>

\* BiddingObject::calculateIntervals: a late start is now.
Valid(os) ==
  [k \in DOMAIN os |-> [os[k] EXCEPT !.state = "valid", !.start = Later(@, Time)]]

ScheduleObjects(new, base) ==
  Schedule(new, base, "ACTIVATE_BIDDING_OBJECTS", "REMOVE_BIDDING_OBJECTS")

\* Mutant: the bids are transmitted a second later.
TransmitLater == now + Frac

\* When generated bids are transmitted.
TransmitTime == now

\* handleAddGeneratedBiddingObjects: the bids are installed, and are to be
\* transmitted now for the process that made them.
HandleAddGeneratedBiddingObjects(e) ==
  /\ Handling(e, "ADD_GENERATED_BIDDING_OBJECTS")
  /\ LET new == Valid(e.allocs)
         base == Len(objs)
     IN  /\ objs' = objs \o new
         /\ queue' = Enqueue(Rest(e), ScheduleObjects(new, base)
                       \cup {[at |-> TransmitTime, rank |-> 3, type |-> "TRANSMIT_BIDDING_OBJECTS",
                              index |-> e.index,
                              objs |-> {base + k : k \in DOMAIN new}]})
  /\ UNCHANGED <<now, aucs, sess, net, files, up, sent, processes>>

\* handleTransmitBiddingObjects: the session is the one of the process; the
\* address of a bid comes from its auction, which is looked up and used
\* unchecked.
HandleTransmitBiddingObjects(e) ==
  /\ Handling(e, "TRANSMIT_BIDDING_OBJECTS")
  /\ IF e.index \in DOMAIN requests
     THEN LET reached == {o \in e.objs : \A p \in e.objs : p <= o => objs[p].auc \in present}
          IN  /\ up' = (reached = e.objs)
              /\ sent' = sent \cup (reached \X {requests[e.index].req})
     ELSE UNCHANGED <<up, sent>>
  /\ queue' = Rest(e)
  /\ UNCHANGED <<now, aucs, objs, sess, net, files, processes>>

\* handleActivateBiddingObjects.
HandleActivateBiddingObjects(e) ==
  /\ Handling(e, "ACTIVATE_BIDDING_OBJECTS")
  /\ objs' = Entering(objs, e.objs, "active")
  /\ queue' = Rest(e)
  /\ UNCHANGED <<now, aucs, sess, net, files, up, sent, processes>>

\* handleRemoveBiddingObjects.  Number 1 here is number 0 of the code, which
\* objects that are not installed yet carry as well.
HandleRemoveBiddingObjects(e) ==
  /\ Handling(e, "REMOVE_BIDDING_OBJECTS")
  /\ objs' = Entering(objs, e.objs, "done")
  /\ queue' = DelBiddingObjectEvents(Rest(e), e.objs, 1)
  /\ UNCHANGED <<now, aucs, sess, net, files, up, sent, processes>>

\* handleSingleObjectAuctioningInteraction with an allocation: it is
\* installed whatever became of its bid and its auction, of which the address
\* for the confirmation is taken (installed or done).
HandleAuctioningInteraction(e) ==
  /\ Handling(e, "AUCTION_INTERACTION")
  /\ LET new == Valid(<<[objs[e.obj] EXCEPT !.kind = "alloc"]>>)
     IN  /\ objs' = objs \o new
         /\ queue' = Enqueue(Rest(e), ScheduleObjects(new, Len(objs)))
  /\ UNCHANGED <<now, aucs, sess, net, files, up, sent, processes>>

-----------------------------------------------------------------------------
(***************************************************************************)
(* The end of auctions and of intervals.                                   *)
(***************************************************************************)

\* handleActivateAuctions.
HandleActivateAuctions(e) ==
  /\ Handling(e, "ACTIVATE_AUCTIONS")
  /\ aucs' = Entering(aucs, e.objs, "active")
  /\ queue' = Rest(e)
  /\ UNCHANGED <<now, objs, sess, net, files, up, sent, processes>>

\* Mutant: the bids of an auction that ends are left to their own end.
NoBidsOf(i) == {}

\* The bids, not the allocations, that compete in auction i.
BidsOf(i) ==
  {o \in DOMAIN objs : /\ objs[o].kind = "bid" /\ objs[o].state # "done"
                       /\ objs[o].auc = aucs[i].name}

\* handleRemoveAuctions: the auctions leave the processes, their bids are to
\* be removed now, an event for each auction, and they leave the manager.
HandleRemoveAuctions(e) ==
  /\ Handling(e, "REMOVE_AUCTIONS")
  /\ DelAuctions({aucs[i].name : i \in e.objs})
  /\ queue' = DelAuctionEvents(
                Enqueue(Rest(e),
                  {[at |-> now, rank |-> i, type |-> "REMOVE_BIDDING_OBJECTS",
                    objs |-> BidsOf(i)] : i \in {j \in e.objs : BidsOf(j) # {}}}),
                e.objs)
  /\ aucs' = Entering(aucs, e.objs, "done")
  /\ UNCHANGED <<now, objs, sess, net, files, up, sent>>

\* Mutant: only an auction that is not active yet loses its reference.
DecrementValid(S, r) ==
  [i \in DOMAIN aucs |->
     IF i \in S /\ aucs[i].state = "valid"
     THEN [aucs[i] EXCEPT !.sessions = @ \ {r}] ELSE aucs[i]]

\* AuctionManager::decrementReferences, done auctions included.
DecrementReferences(S, r) ==
  [i \in DOMAIN aucs |->
     IF i \in S THEN [aucs[i] EXCEPT !.sessions = @ \ {r}] ELSE aucs[i]]

\* The installed auctions of S without a session.
Unreferenced(S) == {i \in S : Installed(i) /\ aucs'[i].sessions = {}}

\* The process of interval r ends with it.
EndProcess(r) ==
  IF number[r] = NotAdded THEN UNCHANGED processes ELSE DelRequest(r, "interval")

\* handleRemoveResourceRequestInterval: teardown of the session, the process
\* of the interval goes, and so do the auctions no other session refers to.
HandleRemoveInterval(e) ==
  /\ Handling(e, "REMOVE_RESOURCE_REQUEST_INTERVAL")
  /\ LET s == sess[e.req]
     IN  /\ sess' = [sess EXCEPT ![e.req].torn = TRUE]
         /\ aucs' = DecrementReferences(s.aucs, e.req)
         /\ queue' = Enqueue(Rest(e),
                       {ev \in {[at |-> now, rank |-> 1, type |-> "REMOVE_AUCTIONS",
                                 objs |-> Unreferenced(s.aucs)]} : ev.objs # {}})
  /\ EndProcess(e.req)
  /\ UNCHANGED <<now, objs, net, files, up, sent>>

-----------------------------------------------------------------------------
(***************************************************************************)
(* The daemon and its environment.                                         *)
(***************************************************************************)
Post(ev) == queue' = Enqueue(queue, {ev})

\* A file is given at start-up or by the control connection.
File(F) ==
  /\ up /\ F \in files /\ now <= LastFile
  /\ files' = files \ {F}
  /\ Post([at |-> now, rank |-> 1, type |-> "ADD_RESOURCE_REQUESTS", reqs |-> F])
  /\ UNCHANGED <<now, aucs, objs, sess, net, up, sent, processes>>

\* The signalling layer tells the name of the session it made,
Configure(r) ==
  /\ up /\ net[r] = "asked"
  /\ net' = [net EXCEPT ![r] = "configured"]
  /\ Post([at |-> now, rank |-> 1, type |-> "CONFIGURE_SESSION", req |-> r])
  /\ UNCHANGED <<now, aucs, objs, sess, files, up, sent, processes>>

\* and brings the answer, which may take any time.
Answer(r, list) ==
  /\ up /\ net[r] = "configured"
  /\ Time < sess[r].stop + MaxLate
  /\ net' = [net EXCEPT ![r] = "answered"]
  /\ Post([at |-> now, rank |-> 1, type |-> "CREATE_SESSION", req |-> r, list |-> list])
  /\ UNCHANGED <<now, aucs, objs, sess, files, up, sent, processes>>

\* The auctioneer allocates to a bid it got (modelled once for a bid).
Allocate(o) ==
  /\ up /\ objs[o].req \in Allocated
  /\ \E r \in Requests : <<o, r>> \in sent
  /\ ~ \E p \in DOMAIN objs : objs[p].kind = "alloc" /\ objs[p].req = objs[o].req
                              /\ objs[p].auc = objs[o].auc
  /\ ~ \E e \in queue : e.type = "AUCTION_INTERACTION" /\ e.obj = o
  /\ Post([at |-> now, rank |-> 1, type |-> "AUCTION_INTERACTION", obj |-> o])
  /\ UNCHANGED <<now, aucs, objs, sess, net, files, up, sent, processes>>

\* Time passes; the loop keeps up with what is due.
Tick ==
  /\ up /\ now < MaxTime
  /\ \A e \in queue : e.at > now
  /\ now' = now + 1
  /\ UNCHANGED <<queue, aucs, objs, sess, net, files, up, sent, processes>>

\* The bound is reached, or the daemon is lost.
Stopped ==
  /\ ~up \/ (now = MaxTime /\ \A e \in queue : e.at > now)
  /\ UNCHANGED vars

Init ==
  /\ now = Start /\ queue = {}
  /\ aucs = <<>> /\ objs = <<>>
  /\ sess = [r \in Requests |-> NoSession]
  /\ net = [r \in Requests |-> "idle"]
  /\ files = Files
  /\ up = TRUE /\ sent = {}
  /\ ProcessesInit

\* Agent::handleEvent.
HandleEvent(e) ==
  \/ HandleAddResourceRequests(e)
  \/ HandleActivateInterval(e)
  \/ HandleConfigureSession(e)
  \/ HandleResponseCreateSession(e)
  \/ UseDeletedAuction(e)
  \/ HandlePushExecution(e)
  \/ HandleRemovePushExecution(e)
  \/ HandleAddGeneratedBiddingObjects(e)
  \/ HandleTransmitBiddingObjects(e)
  \/ HandleActivateBiddingObjects(e)
  \/ HandleRemoveBiddingObjects(e)
  \/ HandleAuctioningInteraction(e)
  \/ HandleActivateAuctions(e)
  \/ HandleRemoveAuctions(e)
  \/ HandleRemoveInterval(e)

Next ==
  \/ \E e \in queue : HandleEvent(e)
  \/ \E F \in files : File(F)
  \/ \E r \in Requests : Configure(r)
  \/ \E r \in Requests, list \in Answers : Answer(r, list)
  \/ \E o \in DOMAIN objs : Allocate(o)
  \/ Tick
  \/ Stopped

Spec == Init /\ [][Next]_vars

-----------------------------------------------------------------------------
(***************************************************************************)
(* Types.                                                                  *)
(***************************************************************************)
AuctionType ==
  [name : Auctions, start : Int, stop : Nat,
   state : {"valid", "active", "done"}, sessions : SUBSET Requests]

ObjectType(states) ==
  [kind : {"bid", "alloc"}, req : Requests, auc : Auctions,
   start : Nat, stop : Nat, state : states]

SessionType ==
  [state : {"none", "created", "active"}, start : Nat, stop : Nat, end : Nat,
   aucs : SUBSET DOMAIN aucs, torn : BOOLEAN,
   answer : {"none", "in time", "replaced", "slow", "late"}]

\* What an event holds.
RequestEventType(e) ==
  CASE e.type = "ADD_RESOURCE_REQUESTS" -> e.reqs \in Files
    [] OTHER -> e.req \in Requests

SessionEventType(e) ==
  e.req \in Requests /\ (e.type = "CREATE_SESSION" => e.list \in Answers)

ProcessEventType(e) ==
  e.index \in Numbers /\ (e.type = "REMOVE_PUSH_EXECUTION" => e.req \in Requests)

ListEventType(e) ==
  CASE e.type \in AuctionLists -> e.objs # {} /\ e.objs \subseteq DOMAIN aucs
    [] e.type \in BidLists ->
         /\ e.objs # {} /\ e.objs \subseteq DOMAIN objs
         /\ e.type = "TRANSMIT_BIDDING_OBJECTS" => e.index \in Numbers
    [] e.type = "ADD_GENERATED_BIDDING_OBJECTS" ->
         e.index \in Numbers /\ e.allocs \in Seq(ObjectType({"new"}))

InteractionEventType(e) == e.obj \in DOMAIN objs

EventType ==
  \A e \in queue :
    /\ e.at \in Int /\ e.rank \in Nat
    /\ CASE e.type \in {"CREATE_SESSION", "CONFIGURE_SESSION"} -> SessionEventType(e)
         [] e.type \in {"PUSH_EXECUTION", "REMOVE_PUSH_EXECUTION"} -> ProcessEventType(e)
         [] \/ e.type \in AuctionLists \cup BidLists
            \/ e.type = "ADD_GENERATED_BIDDING_OBJECTS" -> ListEventType(e)
         [] e.type = "AUCTION_INTERACTION" -> InteractionEventType(e)
         [] OTHER -> RequestEventType(e)

\* The type invariant; lists in events and sessions hold numbers of objects.
TypeOK ==
  /\ now \in 0 .. MaxTime
  /\ EventType
  /\ aucs \in Seq(AuctionType)
  /\ objs \in Seq(ObjectType({"valid", "active", "done"}))
  /\ sess \in [Requests -> SessionType]
  /\ net \in [Requests -> {"idle", "asked", "configured", "answered"}]
  /\ files \subseteq Files
  /\ up \in BOOLEAN
  /\ sent \subseteq (DOMAIN objs) \X Requests

-----------------------------------------------------------------------------
(***************************************************************************)
(* Safety.                                                                 *)
(***************************************************************************)
InTime(r) == sess[r].answer \in {"in time", "replaced"}

\* In time, and its process keeps its number for itself.
Undisturbed(r) == sess[r].answer = "in time"

Pending(type) == {e \in queue : e.type = type}

\* The auction manager and the processes agree: what the processes take for
\* present is what the manager holds, under one number for a name.
OneAuctionPerName ==
  /\ present = {aucs[i].name : i \in {j \in DOMAIN aucs : Installed(j)}}
  /\ \A i, j \in DOMAIN aucs :
       Installed(i) /\ Installed(j) /\ aucs[i].name = aucs[j].name => i = j

\* Lists of auctions are changed in three ways: a session lists an auction
\* that is installed and its removal moves, a removal takes it out of every
\* list, and the end of an interval adds a removal.  Whatever the order, an
\* installed auction waits for a removal, and no list holds one that is done.
AuctionsScheduled ==
  /\ \A i \in DOMAIN aucs :
       Installed(i) => \E e \in Pending("REMOVE_AUCTIONS") : i \in e.objs
  /\ \A e \in queue : e.type \in AuctionLists => \A i \in e.objs : Installed(i)

\* A session that uses an auction keeps it: the references of an auction are
\* the sessions that list it and whose interval has not been removed, and the
\* sessions answered too late, whose references nobody takes back.
ReferencesCounted ==
  \A i \in DOMAIN aucs :
    aucs[i].sessions = {r \in Requests : i \in sess[r].aucs /\ (sess[r].torn => sess[r].answer = "late")}

\* Bids and allocations are activated and removed.
BidsScheduled ==
  \A o \in DOMAIN objs :
    /\ objs[o].state = "valid" =>
         \E e \in Pending("ACTIVATE_BIDDING_OBJECTS") : o \in e.objs
    /\ objs[o].state # "done" =>
         \E e \in Pending("REMOVE_BIDDING_OBJECTS") : o \in e.objs

\* The books of the two managers, the processor and the queue have their types and
\* agree.
BooksAgree == TypeOK /\ OneAuctionPerName /\ AuctionsScheduled /\ BidsScheduled

\* A bid of an interval that was answered in time competes in an auction the
\* agent holds, or is about to be removed.
BidsHaveAuctions ==
  \A o \in DOMAIN objs :
    objs[o].kind = "bid" /\ objs[o].state # "done" /\ InTime(objs[o].req) =>
      \/ objs[o].auc \in present
      \/ \E e \in Pending("REMOVE_BIDDING_OBJECTS") : o \in e.objs /\ e.at <= now

\* Processes go by numbers, in events that outlive them: a bid of an interval
\* answered in time still reaches its auctioneer over the session of its own
\* interval, unless its process was overwritten.
SentOverOwn == \A s \in sent : Undisturbed(objs[s[1]].req) => objs[s[1]].req = s[2]

\* The auctions that give a waiting bid its address are installed.
Addressed ==
  \A e \in Pending("TRANSMIT_BIDDING_OBJECTS") :
    e.index \in DOMAIN requests =>
      \A o \in e.objs : InTime(objs[o].req) => objs[o].auc \in present

\* Whatever the numbers of processes are used for meanwhile, the bids of an answer
\* in time go to their auctioneers over the session of their own interval, if no
\* other process was put in the place of theirs; and they cannot bring the daemon
\* down when they are to be sent.
TransmissionsOwn == SentOverOwn /\ Addressed

\* One answer that brings auctions i and j gives them one removal.
Together(i, j) ==
  \E r \in Requests :
    /\ {i, j} \subseteq sess[r].aucs
    /\ NewAuction(aucs[i].name, sess[r]).stop = NewAuction(aucs[j].name, sess[r]).stop

\* An auction is not taken from a session that was answered in time before
\* the auction's stop, unless another with the same removal has stopped: that
\* removal moves as a whole when one of its auctions is used longer, to the stop
\* of whichever was used last.
HeldUntilStop ==
  [][\A i \in DOMAIN aucs :
       Installed(i) /\ ~Installed(i)' /\ (\E r \in aucs[i].sessions : InTime(r))
         => \E j \in DOMAIN aucs : (j = i \/ Together(i, j)) /\ aucs[j].stop * Frac <= now]_vars

\* An answer in time leads to bids: a process that is not overwritten does not end,
\* by whichever of its three ends, before it was executed and its bids were sent.
\* They are lost only when the bid with the code's number 0 is removed while they
\* wait.
BidsBeforeEnd ==
  \A r \in over :
    Undisturbed(r) =>
      \/ \E s \in sent : objs[s[1]].req = r
      \/ 1 \in DOMAIN objs /\ objs[1].state = "done" /\ objs[1].req # r

=============================================================================
