# A TLA+ model of AuctionManager

AuctionManager (NETAUM) sells network bandwidth by auction.  The *auctioneer*
daemon (`auctioner/`) installs auctions from files, opens sessions with user
*agents* (`user_agent/`) over a signalling layer, takes their bids, runs the
auctions at regular intervals and sends the resulting allocations back.  The
two daemons share `foundation/` (objects, managers, event scheduler, parsers)
and load the auction algorithms from `proc_modules/`.

This directory holds TLA+ modules that model the program, TLC configurations
that check them on small instances, and TLAPS proofs of what holds for all.

## 1. The system

| Component | State | Operations | Right when |
|---|---|---|---|
| Event queue (`EventScheduler`, `Event`) | multimap expiry time -> event | add, take earliest, reschedule, delete by object number | earliest due event first; no event refers to a removed object |
| Auctioneer (`Auctioner`) | the components below, the loop | one handler per event type | everything installed is activated and removed; loop never stops |
| Auction manager (`AuctionManager`, `Auction`) | auctions by number and name, state, sessions | add a file, activate, remove | names unique among auctions that are not done; done is final |
| Bidding object manager (`BiddingObjectManager`) | bids and allocations by number and name | add a list, activate, remove | as above; nothing is installed and then forgotten |
| Auction processor (`AUMProcessor`) | process per auction: module and competing bids | add/delete process, add/delete bid, execute | active auction has a process, done one has none; only active bids compete |
| Session manager (`SessionManager`, `Session`) | sessions in use, sessions stored, pending messages | add, delete, find, confirm | an allocation finds its session even after its removal |
| Resource manager (`ResourceManager`) | resources | verify the auctions of a file | a resource is not sold twice over a period |
| Module `bas` | - | one clearing: bids -> allocations and price | no more is sold than there is; higher prices first; nobody pays more than bid |
| Identifier source (`IdSource`) | counter, free list | newId, freeId | a number in use is not given out |
| Agent (`Agent`, `AgentProcessor`, managers) | resource requests, requests to auctions, bids, sessions | as the auctioneer, mirrored | an interval of a request is executed until it ends, and then never |
| Signalling (`AnslpClient`, `AnslpProcessor`) | queue between threads; messages that a session has sent and not seen confirmed | messages <-> events | what is confirmed was taken up; what arrives is confirmed |
| Module loader (`ModuleLoader`, `Module`) | modules by name, with references | get, release | what a process executes is loaded; what nobody uses is not |
| Allocation manager (`AllocationManager`) | allocations by number, three indices by name | add, delete | the indices agree with the table |
| Event loop and control connection (`run`, `CtrlComm`, `lib/httpd`) | signal pipe, connections and their states, page cache | select, read, parse, answer, time out | each client gets the answers to its requests, and connections end |
| Parsers and message formats (`*Parser`) | templates and their numbers | file or message <-> object | an object is the same on both sides |
| Configuration, logging, statistics | - | I/O and conversion | - |

How they interact: the loop `Auctioner::run` takes one event at a time from the
queue and runs its handler to the end.  Handlers call the managers and the
processor directly, and do everything that is for later, or for another
handler, by adding an event.  So there is one thread of handlers, and the
concurrency of the system is in the queue: bids are activated, inserted in
their auction, executed on, transmitted and removed by five different events,
and files, messages and the clock put other events between any two of them.
Events hold pointers to objects and numbers of processes; removing an object
has to find them.

What is hard: the order of events that are due in the same second; lists of
objects of which one fails; deletion from structures that are being walked;
executions that run late; names that are reused; numbers that are reused; a
session that goes away between bid and allocation; messages lost or overtaken.  The
list is in `PROJECT.json` under `hazards`, each at its line.

The two loops are alike: a pass asks the scheduler whether an event is due,
waits in `select`, and then either handles one event or serves the clients of
the control connection.  Between the daemons there are sessions: the agent asks
for one per interval of a request, the auctioneer answers with auctions, bids
and allocations travel over it, and each message holds the number of the one it
confirms.

## 2. Modules

| Module | Models |
|---|---|
| `EventQueue` | `EventScheduler`, `Event`, `EventSchedulerAuctioner`: the operators on the queue and on times |
| `AuctionServer` | the auctioneer: `Auctioner`'s handlers with `AuctionManager`, `BiddingObjectManager`, `AUMProcessor`, `SessionManager`, `ResourceManager::verifyAuctions` |
| `UniformPriceMarket` | abstract: what an auction with a reserve price promises |
| `BasAuction` | one execution of the module `bas`; implements `UniformPriceMarket` |
| `IdSource` | `IdSource`: the operators on the source of numbers |
| `AgentProcessor` | the agent's request processes: `AgentProcessor` with its `IdSource` |
| `Agent` | the agent: `Agent`'s handlers with its managers and `AgentProcessor` |
| `ControlConnection` | the event loops, `CtrlComm` of both daemons, `lib/httpd` as they use it |
| `ObjectStore` | `AuctioningObjectManager`, `AuctionManager`, `BiddingObjectManager`: names, numbers, done objects, memory |
| `AllocationStore` | `AllocationManager` |
| `ModuleLoader` | `ModuleLoader`, `Module`, and the processes of both daemons that hold references |
| `Signalling` | the messages of sessions: `Session`, `SessionManager`, `AnslpClient` and the handlers that send, take and confirm |
| `Intervals` | the operators that read start, stop and duration, for auctions, bids and requests |
| `Exchange` | an auction, a request and a bid on their way through files and messages; templates |
| `MCAuctionServer`, `MCBasAuction`, `MCAgentProcessor`, `MCAgent`, `MCControlConnection`, `MCStores`, `MCSignalling`, `MCExchange` | the instances that TLC checks |
| `EventQueue_proofs`, `AuctionServer_proofs`, `BasAuction_proofs`, `Agent_proofs`, `Exchange_proofs`, `ControlConnection_proofs`, `Signalling_proofs`, `Stores_proofs` | the proofs; `Agent_proofs` is also about `AgentProcessor`, `Stores_proofs` about `ModuleLoader`, `AllocationStore` and `ObjectStore` |

`AuctionServer`, `Agent` and `ControlConnection` EXTEND `EventQueue`,
`AgentProcessor` EXTENDS `IdSource`, `Exchange` EXTENDS `Intervals`.  `Agent`
EXTENDS `AgentProcessor` too: what a handler does to the processes is an action
of that module, conjoined with what it does to the rest, and every behaviour of
the agent is one of the processes (`ProcessorRefined`).  `BasAuction` instantiates
`UniformPriceMarket`.  An execution in `AuctionServer` is what `BasAuction` does
in detail: it yields one allocation for each competing bid, or fails.
`MCStores` puts three modules side by side that do not interact and are small,
one of which runs in each behaviour.

### EventQueue

The multimap is a set of events.  `at` is the expiry time and `rank` orders
the events of the same time as they were inserted: `Enqueue` gives an added
event the rank after the last one, which is where `multimap::insert` puts it.
A handler that adds several events at once gives them ranks 1, 2, 3 in the
order of its calls; events of one loop over a time index have different times,
so they need no order.  Times are ticks of 1/`Frac` second: objects carry whole
seconds and events also microseconds, and the code subtracts one from the
other, so an event created from an object's time keeps the fraction of the
moment in which it was created (`At`).  With `Frac = 2` the runs see it.

### AuctionServer

One action per handler (`HandleX` is `Auctioner::handleX`), with every call the
handler makes.  `Handling(e, type)` is the loop's part: `e` is the head, it is
due, and it is taken.  `Arrive` is a file or a message that becomes an event,
`Tick` the clock.  Auctions and bidding objects are sequences that only grow:
the managers number objects in increasing order (`idSource(1)` never reuses a
number) and keep removed ones as done, so index `i` is the object with uid
`i - 1`, and the maps by name are the search for an object of that name that is
not done.  A process is an entry of `proc`, the set of bids that compete in it.

Not everything goes as it reads.  The parts of the code that surprise are
separate operators: `AddThrows` (which lists of bids end in an exception, and
what stays installed), `Overlooked` (the process the deletion loop does not
look at), `Reached` (how far a transmission gets), `Clashes` (the three
conditions of `verifyAuction`, which are not an overlap test), the first
clause of `DelBiddingObjectEvents` (an allocation that has no number yet).

Inputs are chosen so that the following holds; outside it the model says
nothing.  Every bid name is submitted once (the path for a duplicate is in
`ObjectStore`).  A bid has one interval, as the user module makes them.  Intervals
of auctions are positive.  Resources exist, and a session asks for any of
them.  A message carries one object list and is not an acknowledgement.  Fewer
than 50 objects are done (the length of the list of done objects) and fewer
than 2^16 were ever made (`ObjectStore` has the list of done objects).  There is
no database connection: with one, storing a bid is I/O that can fail in the
middle of a list (`ObjectStore`).  No signal is sent to the daemon
(`ControlConnection`).  An event runs at its time or later; the 100 microseconds by which the
loop may be early are left out.

Abstracted: names, addresses, prices, quantities and messages.  An execution
yields one allocation for each competing bid over the window (`bas` creates
one also for a bid that wins nothing), in any order, because the order is that
of a map of strings.
`bids` in a list keep their order in the file, which matters when one of them
is refused or cannot be placed.  `made` (allocations produced) and `sent`
(objects handed to the signalling layer) are history variables.

### UniformPriceMarket and BasAuction

The market is one step from a book of offers to an outcome: what each offer is
granted, the price, what is unsold.  `Lawful` lists what a bidder or the owner
of the resource may rely on.  `BasAuction` is `execute` of `bas.cpp`, one step
for each pass of its two loops.  Offers are the entries of the multimap in the
order of insertion, and the walk from the end of the map is `Ahead`: higher
prices first, of equal prices the last inserted.  The first loop overwrites
quantities (`grant`), the second makes an allocation for each bid and, for
another offer of the same bid, takes a field out and puts it back incremented;
`FieldToIncrement` is the search with the comparison the code has.  Prices and
quantities are natural numbers; rounding of floats is left out, and so are the
figures that only go to the statistics file.

### IdSource and AgentProcessor

A source of numbers is a counter of 16 bits (`Modulus`) and the list of freed
numbers.  The agent uses one that recycles (`Unique = FALSE`).  `AddRequest` is
`addRequest` with the `addAuctionRequest` calls that
`Agent::createProcessRequests` makes right after it; it writes the map
unconditionally.  A request is deleted by the end of its interval and by its
event `RemovePushExecution`, in either order (the event is due at the end of
the last auction interval that was started, so it is often the later one), and
by `delAuctions` when its last auction ends.  `calls` are the deletions still to
come and `over` is a history variable.

### Agent

One action per handler (`HandleX` is `Agent::handleX`).  The signalling layer
is a variable `net`: an interval asks, gets the name of its session, and gets
a list of auctions (`Answers`) up to `MaxLate` seconds after the interval has
ended.  An answer installs the auctions the agent does not hold, moves the
removal of the others (`rescheduleAuctionDelete`), adds a process under a
number of `AgentProcessor`, and queues its execution and its end.  Bids are
made by an execution, activated, transmitted over the session of the process
they were made by, and removed; allocations come back and are removed.  What
makes the agent harder than the auctioneer is that a session, an auction and a
process each have several ends: `answer` in a session records whether its
answer came in time, slowly or late, and the properties say for which of these
they hold.  `answer` is "replaced" when `addRequest` overwrites the process of an
interval, because two active requests share a number (`Shared`): its bids may then
go out over the session of the other, which TLC finds with three intervals.  A
removal of several auctions moves as a whole when one of them is used longer, to
the stop of whichever was used last (`Together` in `HeldUntilStop`).  `sent` and
`answer` are history variables.

Outside the model: a file asks for each interval once, auctions are of one
module, and no command adds auctions or bids to the agent (only tests do).

### ControlConnection

`web[c]` is the request structure of `httpd` for a client and what the client
did; the states have the names of the code.  A pass of the loop is `Schedule`
(the byte of `getNextEventTime`) and then one of: a byte of the pipe, which
handles the head of the queue or a signal; one round of `httpd` over all
connections in the order of its list - timeouts, reading, parsing, processing,
writing; or nothing, when `select` has waited its 10 ms.  Requests come in
parts (a header, a body), the parts in any pass; a client may leave at any
moment.  What was read beyond a request is served in the same round, request by
request (`Serve`, the `goto parsing` of `httpd_handle_event`).  A tick is the second of `time(NULL)`, which is what `httpd` measures
idleness in.  Memory that is used after it was freed makes `fault` differ from
`"none"`, and then nothing more happens.  `Scenes` fixes the daemon, the
requests and who leaves; when and in what order is left to TLC.

### ObjectStore, AllocationStore, ModuleLoader

The managers' maps, one step for each object of a list; between the steps of a
list nothing else runs, but the database may fail at every save.  `gone` are deleted
objects, `fault` what was done to memory that holds none, after which nothing
more happens.
Names are `[set, name]` pairs that the inputs use again and again.
`AllocationStore` keeps `delAllocation` as it is written: the check whether a
name has numbers left reads a copy made before the number was taken out, so
names stay, and the statements behind it, which erase a set from the wrong
index, are never reached - the first mistake hides the second.
`ModuleLoader` counts references as `link` and `unlink` do, and `dlopen` and
`dlclose` per library: two names may lead to one library.

### Signalling

`agent[s]` and `server[s]` are the two `Session` objects of a session: the next
number, what was sent, what is pending.  A message has a number and one more
than the number it confirms.  `net` is a set: messages are delivered in any
order, or lost.  The A-NSLP daemon between the two programs is not in the
repository; what is assumed of it is that it delivers a message of one side as
the event the other side handles, or loses it.  The code holds what it sent
until it is confirmed but resends nothing (`beginMessages` and `endMessages`
have no caller), so there are no retries to model.  `troubled` are the sessions
of which a message was lost, refused, or came after the removal.

### Intervals and Exchange

`Intervals` has an operator for each way the code reads a time and for each of
the three rules that put start, stop and duration together (`AuctionWindow`,
`OptionWindows`, `RequestWindows`).  What is written is one of: nothing,
relative, seconds, a date, or junk.  `Exchange` carries an auction, a request
and a bid through them, with the clock moving between any two readings, an
auctioneer that restarts (numbers of templates begin anew), and an agent that
asserts that a template it knows has not changed.  `Leftover` is what an
`interval_t` holds that nobody initialises.

## 3. What is checked

Every property states something that takes several events to go wrong.

| Run | Properties | What it shows |
|---|---|---|
| `Life` | `TypeOK` `DoneHasNoProcess` `CompetingBidsActive` `Scheduled` | two auctions of a file, one loaded twice, bids that end before, with and after the auctions: what is installed stays scheduled, only active bids compete, removed auctions leave no process |
| `Delivery` | `AuctionCloses` `AllocationDelivered` | an agent's bids and its departure at every moment: auctions close, and allocations are in the end transmitted |
| `Late` | `QueueCurrent` `OneExecutionPerProcess` `ActiveHasProcess` `WindowsDisjoint` `Running` `DoneIsFinal` | half-second ticks, a loop up to three ticks late, an auction that cannot be loaded, failing executions, a mixed message: queue, processor and managers agree, windows do not overlap, no transmission finds its auction gone |
| `Clearing` | `GrantsAreShares` `AllocationsMatch` `ImplementsMarket` | every book of up to three offers by one to three bids: the market is cleared lawfully, every offer gets its share, and the allocations agree |
| `Requests` | `FreeListSound` `ProcessesHaveAuctions` `OverIsGone` | four requests over three auctions, each deleted twice at any time: what holds although numbers are shared and recycled |
| `Agent` | `BooksAgree` `ReferencesCounted` `BidsHaveAuctions` `TransmissionsOwn` `BidsBeforeEnd` `HeldUntilStop` | two overlapping intervals, answers in time, slow and late with lists that overlap, an auction that ends before the intervals: managers, queue and processes agree, an answer in time leads to bids, over its own session unless its process was overwritten, for auctions that are still held |
| `Control` | `WatchedRightly` `EventsHaveConnections` `AnswersInOrder` `EventsOnTime` `ConnectionsEnd` | seven scenes of two clients against the loops of both daemons, requests in parts or three in one read, clients that leave, a barred host, signals, commands nobody answers: every client gets its own answers in order, no event runs early, no connection stays but behind a POST that is never answered |
| `Stores` | `NamesFind` `MemorySound` `IndexesAgree` `InUseLoaded` `UnusedUnloaded` | three stores, one at a time: names used again with a failing database and room for one done object; allocations under three indices; modules with two names for a library, numbers given out twice, libraries that cannot be loaded |
| `Signalling` | `ConfirmedReceived` `Confirmed` | two sessions, messages lost, refused and overtaken, sessions removed while answers are on their way, room for one removed session: what is confirmed was taken up, and what arrives is confirmed |
| `Exchange` | `SameAuction` `TemplatesAgree` `BidKept` `RequestInOrder` | every way to write start, stop and duration, time passing between any two readings, restarts of the auctioneer: both sides mean the same by an auction, a bid and a template |

These runs reach every action.  Two more show where the code departs from what
it says; each is a finding in `PROJECT.json` with the lines that disagree.

| Run | Property that fails | Why |
|---|---|---|
| `Twin` | `DoneHasNoProcess` | two auctions end in the same second; `AUMProcessor::delAuctions` restarts its walk after a deletion and then steps over one process, which stays, pointing to a done auction |
| `Shared` | `NumbersUnique` | `freeId` lists the number and takes the counter back as well: one deletion, then two additions, and two active requests share a number; one overwrites the other |

`DoneHasNoProcess` holds in `Life`, where no two auctions end together: it is
the second deletion that the walk misses.

What else surprises in this code is in the actions, and the properties say
exactly where they except it:

* Stop 0 is documented as "no end".  `handlePushExecution` compares it as a time
  and never schedules the second execution; a message with it is refused by
  the other side as unreadable, so an auction without an end is never offered
  (`SameAuction`) and a bid without one never taken (`BidKept`).  After such a
  refusal the agent's `readAuctionList` ends without a return.
* The removal of the object with uid 0 also erases an allocation that has no
  uid yet (`BidsBeforeEnd` in the agent; the inputs of `Delivery`).
* A file or message with one good and one refused bid installs the good one and
  never activates or removes it (`AddThrows`; the inputs of
  `Life` have no such message, those of `Late` do).
* A bid with two elements: the second adds its quantity to the unit price, a
  third makes the execution fail (`FieldToIncrement`, `AllocationsMatch`).
* A request's second deletion may come when its number belongs to another
  (`OverIsGone` says what is left to rely on).
* A bid whose interval is empty is inserted in its auction after its removal,
  because the insertion is queued behind it (`CompetingBidsActive`).
* A removal of several auctions moves as a whole when one of them is used longer: to
  the stop of whichever was used last, which may be before the others' (`HeldUntilStop`).
* An answer to an interval that has been removed installs auctions with a
  reference that nobody takes back (`ReferencesCounted`).
* A bid with the name of an installed one: the failure path deletes by number 0
  and takes the name of the other bid out of the index.  From then on bids may
  be deleted twice (`NamesFind`, `MemorySound` hold until then).
* SIGUSR1 makes the loop execute an event before its time: every pass over a due
  head writes a byte, and the pass that reads the signal's byte instead leaves one
  too many (`EventsOnTime`).
* A page served after a command in the same call makes the event of the command
  again, for another connection; and a client that shuts down its side frees the
  connection its command refers to (`AnswersInOrder`, `EventsHaveConnections`).
* A POST of a command that has no answer (`/add_request`, which is the form of
  `etc/main_agnt.html`) leaves its connection in `STATE_PROCESS` or `STATE_PARSE_BODY`,
  where `httpd_handle_event` reads nothing.  When the client then leaves or sends
  more, select reports the connection in every pass, and every pass sets `ping`, which
  `httpd.h:97` calls the "last read/write (for timeouts)".  No timeout comes: the
  connection stays and the loop does not sleep, until the daemon is stopped; in
  `STATE_PARSE_BODY` each pass makes the command again as well.  `ConnectionsEnd` excepts
  this (`Spinning`) and nothing else: the last scene of the run has such a client,
  and without the exception TLC finds it in twenty steps.
* A session request without data throws a string that leaves `run`
  (`Confirmed`).
* A page about a module takes a reference that is not given back; a module whose
  constructor fails is closed twice; a name of less than three characters throws
  what nobody expects; an entry under a number that is given out twice leaves
  the reference of the old one; the agent does not delete its loader
  (`UnusedUnloaded`).
* After a restart the auctioneer uses the numbers of templates again, and an
  agent that knows them aborts in an assertion (`TemplatesAgree`).
* Intervals of a request may be open, empty or reckoned back from their end, and
  are then out of order (`RequestInOrder`).

The verification of a file forgets its auctions when the file is done
(`Verified` keeps nothing), so two files may sell a resource twice; and
`IdSource` gives out 0 first, which its header lists as reserved.

Bounds.  In the runs of `AuctionServer`, `MaxTime` (4 to 9 ticks) is longer than
the longest auction plus its last transmission; two executions with a
rescheduling between them happen in every passing run.  `MaxLag` bounds by how
much the loop may be late: 0 means that what is due runs before the clock moves,
3 half-seconds is more than one interval, so executions are missed and moved.
Two auctions are the least for the deletion loop and for lists of auctions;
three bids the least for a list with a refused one in the middle.  `Clearing` has
prices above, at and below the reserve and quantities of nothing, one and two
against a supply of three: the supply can run out before, within and exactly at
the end of an offer, and offers of equal price occur with both orders of their
quantities.  Three offers are the least with a bid of three elements.  In
`Requests` a modulus of 8 lets the counter run below zero; four requests are one
more than `Shared` needs.  Its instances are symmetric in requests and auctions,
and only invariants are checked.  `Agent` runs to a second after the last
interval (`MaxTime` 8 half-seconds), answers come up to a second late, lists
overlap in one auction; two intervals are the least that share an auction and
change places in the free list.  `Control` has timeouts of one second, so that
every one of them runs out, and as many connections as may be open, so that
none is turned away for their number.  `Stores` has room for one done object,
three bids of one name, and six references.  `Signalling` has a bid and an allocation per session, which is enough
for a confirmation to overtake the message after it, and stores one session, so
that the second removal deletes the first.  `Exchange` has five seconds, two
intervals in a request, and numbers for two starts of the auctioneer.

`CHECK_DEADLOCK FALSE` stands where the system may stop: when the clock reaches
its bound and nothing is left to do, when an execution of `bas` has returned,
when all requests, messages or objects have come and gone, or memory is used
that is gone.

Fairness.  `Delivery` uses `FairSpec`: weak fairness of handling an event
(`select` in `run` waits 10 ms at most and `getNextEventTime` writes a byte for
a due head, so a due event is handled) and of the clock.  Nothing is assumed
of files, messages and agents.  `AuctionCloses` is about auctions whose stop
lies within the modelled time.  `Control` assumes that the loop goes on: that it
asks the scheduler again, that a pass ends (nothing in it waits longer than the
10 ms of `select`), that a shutdown is carried through, and that time passes
(strongly fair, because a tick is possible only while the loop waits).  Clients
owe nothing.  `Signalling` assumes that the A-NSLP daemon names a session and
that a message is handled or lost at some time; sending is free.

## 4. What is proved

Every theorem is for all values of the constants under the named assumptions of
the modules; the bounds of the runs (`MaxTime` and the like) are such constants.
The hypotheses of the theorems that have some, and what the assumptions leave
out, are at the end of this section.

| Theorem | States | Of |
|---|---|---|
| `TypeCorrect` | `TypeOK` | `AuctionServer` |
| `ExecutionsUnique`, `ActiveAuctionsServed`, `QueueUpToDate` | `OneExecutionPerProcess`, `ActiveHasProcess`, `QueueCurrent` | |
| `DoneStays` | `DoneIsFinal`, an action property | |
| `KeepsRunning` | `Running` | |
| `InstalledIsScheduled` | `Scheduled`, if modules load and lists are accepted | |
| `ProcessesClosed` | `DoneHasNoProcess`, if no two auctions end together | |
| `WindowsStayDisjoint` | `WindowsDisjoint`, if no two auctions end together | |
| `CompetitorsActive` | `CompetingBidsActive`, if besides the loop keeps up | |
| `ClearsMarket` | `ImplementsMarket`: the specification of `UniformPriceMarket` under the refinement mapping | `BasAuction` |
| `GrantsStayShares`, `AllocationsStayMatched` | `GrantsAreShares`, `AllocationsMatch` | |
| `ProcessesTypeCorrect`, `FreeListStaysSound`, `NoDanglingAuctions`, `EndedStaysGone` | types, `FreeListSound`, `ProcessesHaveAuctions`, `OverIsGone` | `AgentProcessor` |
| `BooksStayInAgreement`, `ReferencesStayCounted` | `BooksAgree`, `ReferencesCounted` | `Agent` |
| `BidsKeepAuctions`, `TransmissionsStayOwn`, `BidsBeforeProcessEnds` | `BidsHaveAuctions`, `TransmissionsOwn`, `BidsBeforeEnd`, if answers come before the end of their interval | |
| `ProcessorRefined` | `Spec => ProcessesSpec`: the agent uses its processor only as `AgentProcessor` says, so the four results above hold of the agent | |
| `ExecutedOnTime` | `EventsOnTime` | `ControlConnection` |
| `ConnectionsWatched`, `CommandsHaveConnections`, `AnsweredInOrder` | `WatchedRightly`, `EventsHaveConnections`, `AnswersInOrder` | |
| `AuctionsStaySame`, `TemplatesKeepMeaning`, `BidsStayKept`, `RequestsStayInOrder` | `SameAuction`, `TemplatesAgree`, `BidKept`, `RequestInOrder` | `Exchange` |
| `ConfirmedWasReceived` | `ConfirmedReceived` | `Signalling` |
| `ModulesInUseStayLoaded`, `UnusedModulesAreUnloaded` | `InUseLoaded`, `UnusedUnloaded` | `ModuleLoader` |
| `IndexesAlwaysAgree` | `IndexesAgree`, if `Nothing` is not an allocation | `AllocationStore` |
| `InstalledObjectsAreFound`, `QueuedObjectsAreAlive` | `NamesFind`, `MemorySound` | `ObjectStore` |

### The auctioneer: books

`TypeOK` is inductive.  Besides types it says that the numbers in the queue, in
the processes and in `sent` are numbers of installed objects and that no list in
the queue is empty.  The next four results rest on `IInv` (`AuctionServer_proofs`):
`TypeOK`, `OneExecutionPerProcess`, `ActiveHasProcess` and the parts of
`QueueCurrent`.  None of them is inductive alone.  An execution stays the only one
of its process because an activation only opens auctions that have no process
(`ActivationsCurrent`); that stays so because no auction is in two lists and none
in a list is done; a removal takes the processes of all auctions *named* like the
removed ones, and takes no process from another active auction because names are
unique among those that are not done (`NamesUnique`), which installation
preserves by its check for duplicates.  Bidding objects need only that a removal
strikes them from every pending activation (`BidActivationsCurrent`).

`delAuctions` overlooking a process disturbs none of these: the process that stays
keeps its single execution.  What it breaks is `DoneHasNoProcess`.

### The auctioneer: time

The properties about time relate events that different handlers added, so the
proofs do not go handler by handler.  `Effects(e)` says once what the handler of
`e` may do: every event of the queue it leaves was there, perhaps with a shorter
list, or is one of six kinds of new event (`Accounted`); what was listed and not
struck is still listed (`Remains`); and what becomes of the auctions, the bidding
objects, the processes and the history.  `HandlersHaveEffects` proves it for every
handler, and each part of the invariants below is preserved by `Effects` alone or
with the one handler that matters.

* `KeepsRunning`.  A transmission stops the daemon when the auction of an
  allocation is gone.  It is not: the allocation ends with its auction at the
  latest (`GeneratedInside`), its removal is in the queue before the transmission,
  or the allocation ends later and the auction is still there
  (`TransmissionsCovered`).  The order is that of the two `addEvent` calls in
  `handleAddGeneratedBiddingObjects`, so a removal that is already due is first
  (`RemovedBeforeTransmission`).  It needs that an auction is done only when its
  end has come (`EndsOnTime`, `DoneEnded`), that an execution carries the end of its
  auction (`ExecutionsOwn`) and that a bid competes in an auction of its name
  (`BidsPlaced`); together they are `RunInv`.  There is no hypothesis: it holds
  however late the loop is.
* `InstalledIsScheduled`.  A list leaves the queue only when it is handled.  For the
  ends of auctions that is `EndsInv` and needs nothing.  The beginning of an auction
  is lost when the module of an earlier one of its list cannot be loaded, and
  everything of a bid when `AddThrows`, which is what the two hypotheses exclude.
* `ProcessesClosed`.  With distinct ends a removal is of one auction
  (`RemovalsSingle`, from `EndsOnTime`), and the walk of `delAuctions` overlooks only
  a second process.  The run `Twin` shows that the hypothesis is needed.
* `WindowsStayDisjoint`.  What was made before ends before the next window of its
  auction begins, whether that is pending or has still to be scheduled
  (`MadeBefore`): `reschedNextEvent` adds the interval to the second in which the
  window began, or moves the execution further.  Distinct ends are needed because a
  process that was overlooked goes on when its auction's name is loaded again.  A
  window lies in its auction because an execution comes before the removal that
  closes its process (`ExecutionInTime`).
* `CompetitorsActive`.  A bid is activated, inserted and removed by three events.  If
  the loop keeps up (`MaxLag = 0`), activations and insertions run in the tick they
  are due (`NothingLate`), so the activation of a bid whose interval is not empty is
  before its removal (`ActivatedFirst`), its insertion too (`InsertedActive`), and a
  removal takes the bid out of the processes it was put in.  When the loop is late
  the insertion may be queued behind a removal that is due already, and a bid that
  is done competes: the hypothesis is needed.

`Sec` and `At` divide by `Frac`; the lemmas about them (`SecOfAt`, `AtDue`, `AtOrder`,
`SecLater`) are in `EventQueue_proofs`.

### The market

`ClearsMarket` rests on what the walk has left behind at any point: what is
served is ahead of what is not (`WalkOrdered`), nobody served was cut short
while something is left (`FullWhileLeft`), so whoever wins now wins behind
offers that are full (`Priority`), at a price none of them is below
(`PriceCeiling`).  `Settle` is the clearing, every other step a stutter.

`GrantsStayShares` needs to know what is left exactly: what the eligible offers
served leave of the supply (`LeftExact`).  As the walk goes down, these are the
offers ahead of the one it stands at, over which the property sums.  The sums are
recursive functions on the subsets of a finite set; that there is one, that it does
not depend on the whole set and that any member may be taken first (`SumsExist`,
`SumsAgree`, `SumsAnyOrder`) is proved from a smallest set for which it would not
hold.  `AllocationsStayMatched` rests on what an allocation is made of
(`AllocationExact`): one offer as it was made, or two, the second of which
`incrementQuantityAllocation` has added to the price and not to the quantity.
Only when that one has won nothing is the allocation right, and a third offer meets
the record's id, which is no number.

### The agent

The results about `AgentProcessor` rest on `OwnNumber`: the process under a
number belongs to a request that keeps this number.  It survives sharing,
because a request that is overwritten leaves no process, and so a deletion by
number never leaves behind a process of the request it was meant for.  That an
active request *has* a process is false (`Shared`, `Stale`).

`BooksAgree` says that an auction and a bid wait for their end, that a name has one
installed auction, and what the queue holds.  It is not inductive.  `EventOK` says
what each event relies on, `Covered` that no object is without the event that ends
it.  A removal that an answer moves (`rescheduleAuctionDelete`) leaves one list and
enters another, so `Covered` is about some event, not one.  Windows must not be empty
(`WindowsOK`): otherwise a bid could end at 0, which is no end.  `ReferencesCounted`
adds references at an answer and takes them back at the end of an interval, so it
needs that an interval is asked for once, answered once and removed once
(`IntervalsOnce`, `AnswersOnce`), and that an answer to a removed interval is `late`.

That an answer in time leads to bids, over its own session and for auctions that are
held, rests on `FInv`.  The bids are on their way (`Carries`) as an execution, then as
objects to be installed, then as a transmission, and each of the three is due when it
is queued (`EventsTimed`).  In between other events run, and any of them could take the
process, the auctions or the bids away.  None does, because what could is not due
before the clock moves, and the clock does not move while something is due:

* a session is asked for when its interval has begun (`Begun`), so the execution that
  an answer queues is due at once, and with an answer before the interval's end no end
  of the process is due before it: the ends that are due stand before the answer in
  the queue (`Before` in `EventsTimed`) and are gone when it is handled;
* as long as bids are on their way nothing due removes their interval's auctions or
  bids or ends its process (`Clear`, `Apart`), whichever answers come meanwhile: these
  move a removal to the end of an interval that is not over, and an auction with a
  removal that is due makes an answer slow;
* the process of a number is the interval's own (`OwnProcess`) unless it was
  overwritten, and a list of bids on their way is of one interval (`OfOne`), so the
  bids go over its session;
* and they do not vanish: they arrive or stay on their way until the process is over
  (`BidsFollow`), except that the removal of the bid with number 0 takes bids without a
  number out of the queue (`Lost`).

TLC checked `FInv` on instances with three intervals and `MaxLate` 0 before it was
proved; they showed that what was overwritten has to be excepted.

### The event loop

`EventsOnTime` is about a byte that is written when the head of the queue is due and
read in a later call.  `PipeMeans` says what a byte in the pipe stands for: a signal,
or a head that is due *now*, unless a signal is in front of it.  Nothing between
the two calls can put an earlier event at the head or take the due one away, and
after a SIGUSR1 the property makes no claim.

### The control connection

The three results about connections rest on one invariant, `CInv`.  None of the
properties is inductive: an answer is right because the header at the head of the
buffer is the one that was parsed when it was made, and that header is still there
because `lbreq` counts no more than what was read behind it; a command finds its
connection because the connection stays in the state in which it asked.

* `Sound` holds of a connection at every step of a pass, in the middle of a
  handler too: the fields have their types and the parts in the buffer, in the
  socket and not yet sent are, in this order, what the client has to say
  (`Shape`, `Ordered`); select is told one thing of it (`Watched`); a state in
  which a request is looked at has its header at the head of the buffer
  (`Buffered`).  `Settled` is what is true besides when the pass is over: nothing is
  left finished, and an answer that is begun is watched for writing.
* `Clean` is about answers: those a client has are right and of requests before all
  those ahead, and the one to be written is right.  It is claimed only of
  connections that no event was made twice for (`again`), because such an event may
  write the answer of another request.
* `Waits`: every `GET_INFO` in the queue is the only one of its connection, which
  still has the request it is for at the head of its buffer, in a state of `Asking`,
  and has been idle for no longer than the timeout; or its client has shut down its
  side.

Each function of `httpd` has a lemma that it keeps these.  `httpd_handle_event` has
two loops, one over the list of connections and within it one over the requests of
a connection's buffer, without a bound.  Both are recursive functions here;
that what one step keeps the loop keeps is an induction over its steps, from the
least number for which it would not be so (`AllNumbers`).

### Messages and files

In `Exchange` an auction is followed from its file through a message to the agent:
`AuctionInv` says of each offer on its way that it is of the auction as it was when it
was sent.  For bids and requests the readers are recursive functions over lists,
and the clock moves between two elements.  `BidRead`, `SentRead`, `RequestRead` and
`AskedRead` say that a list was read by the recursion at some instants in order;
`RequestInOrder` and `BidKept` follow.  That the recursion defines a function, and
that it relates neighbours as it should, is proved from the least number for which
it would not (`LeastNumber`, `AllNumbers`): the induction theorems of the library
cannot be instantiated, well-foundedness of the numbers can be cited.

`ConfirmedWasReceived` rests on `ConfirmationsTrue`: a confirmation on its way is
of a message that was taken up.  That a session is either installed or stored,
as its state says, needs that it is asked for once (`AskedOnce`): between
`check` and `create` there is one message for it at most.

### Tables

The results about `ModuleLoader` rest on `Counted`: a loaded module has at least
as many references as users, and exactly as many unless it was preloaded or got
one too many.  "At least" is what keeps a module in use loaded, "exactly" what
unloads the others; neither is inductive without `LibrariesCounted`, which
counts the names a library is loaded under.  Once the daemon has stopped,
references no longer match, so `LoaderInv` asks for `Counted` only before that.

`IndexesAlwaysAgree` rests on soundness and completeness of each index and on
the numbers still to be deleted being installed (`DoomedPresent`): a number that
is deleted is in the copy `delAllocation` reads, so no name is found empty and
the statements that erase from the wrong index are not reached
(`DelIndicesEffect`).

The two results about `ObjectStore` rest on the life of an object, `Lifecycle`:
it is read, waits to be added, is installed and awaits its removal, is done, is
deleted.  What is installed or awaits anything is neither done nor deleted, and
what waits to be added is not installed.  `NamesFind` alone is not inductive: that
a removal takes out the object its number names, and not one installed later,
needs `Placed` (what awaits its removal is where its number says); that a number
in the index of an auction is not one yet to be given out needs `IndexBounded`.
`MemorySound` needs `Fresh`: a done object is done once and was not deleted, so
the oldest one is deleted once.  Of the bids the invariant asks this only until
one was refused for its name, because `delBiddingObject` then takes out what
stands under number 0 and deletes a done object; what remains after that
(`Numbered`, `Lifecycle`) is what `MemorySound` needs.  TLC checked the invariant
on the run `Stores` before it was proved.

### What is assumed

| Hypothesis or assumption | Why |
|---|---|
| `DistinctEnds` | not guaranteed by the code; where it fails `delAuctions` overlooks a process (`Twin`, a finding) |
| `ModulesLoad`, `ListsAccepted` | not guaranteed; where they fail something installed is forgotten (section 3) |
| `MaxLag = 0` | the loop handles what is due before the clock moves; `Life` checks the same case |
| `WindowAssumption` of `Agent` | windows of requests and auctions have a beginning before their end (`RequestInOrder` says when the reader gives such), a file asks once for an interval and no two files for the same, the intervals of one file start at different times, an answer names an auction once |
| `MaxLate = 0` (three theorems of `Agent`) | an answer comes before the second in which its interval ends; not guaranteed by the code, which has no timeout for answers.  With an answer a second late TLC finds `BidsBeforeEnd` violated for an auction without an interval of its own (`ival` 0), whose process ends with the request's interval.  The run `Agent` has answers a second late and positive intervals |
| `SpecAssumption` of `AuctionServer` | intervals of auctions are positive (an input, section 2); times are natural numbers |
| `ObjectAssumption` | auctions and bids are of two classes, `DONE_LIST_SIZE` is positive |
| `ControlAssumption` | requests are records of a path and what a client may add to it; the interval of the timer is positive |
| the other assumptions | types, finite sets, and values for "none" that are no values |

The constants of the run `Life` satisfy the first four hypotheses together, and the theorems
of `AuctionServer` with hypotheses are about what that run checks; `Late` checks `WindowsDisjoint` and
`Running` where the loop is late and modules fail.

### Only model-checked

* liveness (`AuctionCloses`, `AllocationDelivered`, `ConnectionsEnd`, `Confirmed`): fairness
  and ENABLED are out of the prover's reach;
* of `Agent`: `HeldUntilStop`, an action property.  Which auctions wait together depends
  on the order in which answers came and on how they moved removals before, so an
  invariant for it would have to follow every removal through its moves; and what the
  three theorems under `MaxLate = 0` say, for answers up to a second late.

## 5. Not modelled

See `components` in `PROJECT.json`.  In short:

* of the auctioneer: `ADD_RESOURCE` (the resources exist); `GET_INFO`,
  `GET_MODINFO` and `CREATE_CHECK_SESSION` only where they change something
  (references to modules, answers to clients); `REMOVE_BIDDING_OBJECTS_AUCTION`
  and `PROC_MODULE_TIMER` are handled but created nowhere;
* of the agent: commands and events that only tests use, several modules in one
  answer, prices and quantities of its bids (`execute_user` computes them and
  keeps nothing);
* of `bas`: its statistics, and the checks of its parameters (a refused parameter
  is a failing execution in `AuctionServer`);
* of the parsers: fields other than times and templates, XML and the bytes of
  messages, which are conversions without state;
* configuration, logging, the threaded mode of the processors, TLS, ranges and
  mime types of `httpd`, `getopt`;
* the A-NSLP daemon, the database and the clients are external: only what the
  code does with what they may answer is modelled.

## 6. What could follow

1. `AuctionScan`: the deletion loop of `delAuctions`, step by step, against
   `Overlooked`.
2. A refinement of `AuctionServer`'s sequences by the maps of `ObjectStore`, for
   inputs without duplicate names of bids.
3. Theorems: numbers are unique if the source does not recycle, or recycles
   without taking the counter back; when `Clashes` is the overlap of closed
   intervals and when it is not; `HeldUntilStop` of `Agent`, with an invariant that follows
   a removal through its moves; the bids of answers that come after their interval's end.
