---------------------------- MODULE ObjectStore ----------------------------
(***************************************************************************)
(* The managers of auctions and of bidding objects: AuctionManager and     *)
(* BiddingObjectManager over AuctioningObjectManager.  A manager keeps its *)
(* objects in a vector by number, an index from names to numbers, and a    *)
(* list of the last done objects, which deletes its oldest member when it  *)
(* is full; the manager of bidding objects has a second index, by auction. *)
(*                                                                         *)
(* A list of objects is added, or removed, in one call; the calls are cut  *)
(* here at each object, and nothing else runs until the list is through.   *)
(* The database may fail at every save.  Memory is modelled as far as the  *)
(* managers delete it: an object that is deleted stays in "gone".          *)
(***************************************************************************)
EXTENDS Naturals, Sequences, Functions

CONSTANTS
  Auctions,     \* the objects parsed from files and messages
  Bids,
  Name,         \* their names, [set, name]
  AuctionOf,    \* the name of the auction of a bid
  DoneLimit,    \* DONE_LIST_SIZE
  Null          \* NULL

ASSUME ObjectAssumption ==
  /\ Auctions \cap Bids = {} /\ Null \notin Auctions \cup Bids
  /\ DoneLimit \in Nat \ {0}

Objects == Auctions \cup Bids
ObjectNames == {Name[o] : o \in Objects}

VARIABLES
  auctions,   \* the manager of auctions
  bids,       \* the manager of bidding objects
  byAuction,  \* bidAuctionSetIndex: the numbers of the bids of an auction, by its name
  number,     \* AuctioningObject::uid; 0 until it is installed
  removals,   \* the objects that queued removal events hold
  work,       \* the call in progress: what it does, the rest of its list,
              \*   the length of the list, what it has added
  read,       \* objects that were made
  gone,       \* objects that were deleted
  refused,    \* some bid had the name of an installed one
  fault       \* what was done to memory that holds no object

objectVars ==
  <<auctions, bids, byAuction, number, removals, work, read, gone, refused, fault>>

Idle == [op |-> "idle", rest |-> <<>>, size |-> 0, added |-> {}]
Empty == [db |-> <<>>, index |-> <<>>, done |-> <<>>, count |-> 0]

ObjectInit ==
  /\ auctions = Empty /\ bids = Empty /\ byAuction = <<>>
  /\ number = [o \in Objects |-> 0]
  /\ removals = {} /\ work = Idle /\ read = {} /\ gone = {}
  /\ refused = FALSE /\ fault = "none"

----------------------------------------------------------------------------
(* AuctioningObjectManager *)

ObjectAt(m, n) == IF n < Len(m.db) THEN m.db[n + 1] ELSE Null
InstalledObject(m, name) ==
  IF name \in DOMAIN m.index THEN ObjectAt(m, m.index[name]) ELSE Null

\* Numbers are given out once, so that the next one is the length of the vector.
Install(m, o) ==
  [db |-> Append(m.db, o),
   index |-> [x \in DOMAIN m.index \cup {Name[o]} |->
                IF x = Name[o] THEN Len(m.db) ELSE m.index[x]],
   done |-> m.done,
   count |-> m.count + 1]

DoneFull(m) == Len(m.done) >= DoneLimit
\* Mutant: the name stays in the index.
DeleteKeepsName(m, o, n) ==
  [m EXCEPT !.db[n + 1] = Null, !.count = @ - 1,
            !.done = IF DoneFull(m) THEN Append(Tail(@), o) ELSE Append(@, o)]

Delete(m, o, n) ==
  [db |-> [m.db EXCEPT ![n + 1] = Null],
   index |-> [x \in DOMAIN m.index \ {Name[o]} |-> m.index[x]],
   done |-> IF DoneFull(m) THEN Append(Tail(m.done), o) ELSE Append(m.done, o),
   count |-> m.count - 1]

\* The oldest of the done objects is deleted to make room.
Evicted(m) == IF DoneFull(m) THEN {Head(m.done)} ELSE {}
DoubleFree(m) == Evicted(m) \cap gone # {}

\* The list of done objects is searched from its oldest member on.
DoneReads(m, name) ==
  {i \in 1 .. Len(m.done) : \A j \in 1 .. (i - 1) : Name[m.done[j]] # name}

----------------------------------------------------------------------------
(* Calls *)

Quiet == work.op = "idle" /\ fault = "none"
Begin(op, list) == work' = [op |-> op, rest |-> list, size |-> Len(list), added |-> {}]
Doing(op) == fault = "none" /\ work.op = op

\* Lists without repetition of at most two objects of S.
Lists(S) == {<<o>> : o \in S} \cup {l \in S \X S : l[1] # l[2]}

AddObjects(op, S) ==
  /\ Quiet
  /\ \E list \in Lists(S \ read) : Begin(op, list) /\ read' = read \cup Range(list)
  /\ UNCHANGED <<auctions, bids, byAuction, number, removals, gone, refused, fault>>

\* parseAuctions and parseMessage; a list with an error is deleted as a whole and
\* never seen here.
ParseAuctions == AddObjects("add auctions", Auctions)

\* parseBiddingObjects and parseMessage
ParseBids == AddObjects("add bids", Bids)

\* AuctionManager::addAuctioningObjects: an auction whose name is installed is
\* deleted and passed over.
AddAuction ==
  /\ Doing("add auctions") /\ work.rest # <<>>
  /\ LET a == Head(work.rest) IN
       IF InstalledObject(auctions, Name[a]) # Null
       THEN /\ gone' = gone \cup {a}
            /\ work' = [work EXCEPT !.rest = Tail(@)]
            /\ UNCHANGED <<auctions, number>>
       ELSE /\ auctions' = Install(auctions, a)
            /\ number' = [number EXCEPT ![a] = Len(auctions.db)]
            /\ work' = [work EXCEPT !.rest = Tail(@), !.added = @ \cup {a}]
            /\ UNCHANGED gone
  /\ UNCHANGED <<bids, byAuction, removals, read, refused, fault>>

\* A bid that cannot be indexed is not in the program: every node is made.
IndexBid(b) ==
  byAuction' = [x \in DOMAIN byAuction \cup {AuctionOf[b]} |->
                  (IF x \in DOMAIN byAuction THEN byAuction[x] ELSE {})
                    \cup (IF x = AuctionOf[b] THEN {Len(bids.db)} ELSE {})]

\* The number leaves the list of its auction, and the list goes when it is empty.
UnindexBid(b, n) ==
  LET left == byAuction[AuctionOf[b]] \ {n} IN
    byAuction' = [x \in {y \in DOMAIN byAuction : y = AuctionOf[b] => left # {}} |->
                    IF x = AuctionOf[b] THEN left ELSE byAuction[x]]

\* BiddingObjectManager::addAuctioningObjects and addBiddingObject
InstallBid ==
  /\ Doing("add bids") /\ work.rest # <<>>
  /\ LET b == Head(work.rest) IN
       /\ InstalledObject(bids, Name[b]) = Null
       /\ bids' = Install(bids, b)
       /\ number' = [number EXCEPT ![b] = Len(bids.db)]
       /\ IndexBid(b)
       /\ work' = [work EXCEPT !.rest = Tail(@), !.added = @ \cup {b}]
  /\ UNCHANGED <<auctions, removals, read, gone, refused, fault>>

\* delBiddingObject, of an object with the number n, up to its save.
DeleteBid(b, n) ==
  /\ AuctionOf[b] \in DOMAIN byAuction /\ ~DoubleFree(bids)
  /\ bids' = Delete(bids, b, n)
  /\ UnindexBid(b, n)
  /\ UNCHANGED <<auctions, number, read, fault>>

\* The bid is deleted like an installed one, though it has no number: under 0.
\* Then it is deleted for good, while it is in the list of done objects.  The
\* call ends with an error if one object is left in its list, whether that was
\* added or not; what it has added then has no events.
RefuseBid ==
  /\ Doing("add bids") /\ work.rest # <<>>
  /\ LET b == Head(work.rest) IN
       /\ InstalledObject(bids, Name[b]) # Null
       /\ DeleteBid(b, number[b])
       /\ gone' = gone \cup Evicted(bids) \cup {b}
  /\ work' = IF work.size = 2 THEN Idle
             ELSE [work EXCEPT !.rest = Tail(@), !.size = @ - 1]
  /\ refused' = TRUE
  /\ UNCHANGED removals

\* The objects added get their events: of those, the removals are kept here.
FinishAdd ==
  /\ fault = "none" /\ work.op \in {"add auctions", "add bids"} /\ work.rest = <<>>
  /\ removals' = removals \cup work.added
  /\ work' = Idle
  /\ UNCHANGED <<auctions, bids, byAuction, number, read, gone, refused, fault>>

\* The event has left the queue.
RemoveObjects(op, S) ==
  /\ Quiet
  /\ \E list \in Lists(removals \cap S) :
       /\ Begin(op, list)
       /\ removals' = removals \ Range(list)
  /\ UNCHANGED <<auctions, bids, byAuction, number, read, gone, refused, fault>>

HandleRemoveAuctions == RemoveObjects("remove auctions", Auctions)
HandleRemoveBiddingObjects == RemoveObjects("remove bids", Bids)

\* AuctionManager::delAuction
RemoveAuction ==
  /\ Doing("remove auctions") /\ work.rest # <<>>
  /\ ~DoubleFree(auctions)
  /\ LET a == Head(work.rest) IN
       /\ auctions' = Delete(auctions, a, number[a])
       /\ removals' = {o \in removals : o \in Auctions => number[o] # number[a]}
  /\ gone' = gone \cup Evicted(auctions)
  /\ work' = [work EXCEPT !.rest = Tail(@)]
  /\ UNCHANGED <<bids, byAuction, number, read, refused, fault>>

\* BiddingObject::save, the header, the elements, the options and their fields in one
\* transaction: it is stored or the database throws.
Saves == BOOLEAN
AfterSave(saved) == IF saved THEN [work EXCEPT !.rest = Tail(@)] ELSE Idle

\* Mutant: saveDelete(r) after the save is no comment.
RemoveBidSaved ==
  /\ Doing("remove bids") /\ work.rest # <<>>
  /\ LET b == Head(work.rest) IN
       /\ DeleteBid(b, number[b])
       /\ removals' = {o \in removals : o \in Bids => number[o] # number[b]}
       /\ gone' = gone \cup Evicted(bids) \cup {b}
  /\ \E saved \in Saves : work' = AfterSave(saved)
  /\ UNCHANGED refused

\* BiddingObjectManager::delBiddingObject: when the database fails, the rest of
\* the list stays installed, without an event.
RemoveBid ==
  /\ Doing("remove bids") /\ work.rest # <<>>
  /\ LET b == Head(work.rest) IN
       /\ DeleteBid(b, number[b])
       /\ removals' = {o \in removals : o \in Bids => number[o] # number[b]}
  /\ gone' = gone \cup Evicted(bids)
  /\ \E saved \in Saves : work' = AfterSave(saved)
  /\ UNCHANGED refused

FinishRemove ==
  /\ fault = "none" /\ work.op \in {"remove auctions", "remove bids"} /\ work.rest = <<>>
  /\ work' = Idle
  /\ UNCHANGED <<auctions, bids, byAuction, number, removals, read, gone, refused, fault>>

\* What DeleteBid and Delete do when their memory is not there.
Crash ==
  /\ fault = "none" /\ work.rest # <<>>
  /\ LET o == Head(work.rest) IN
       \/ /\ Doing("remove auctions") /\ DoubleFree(auctions)
          /\ fault' = "freed twice"
       \/ /\ \/ Doing("remove bids")
             \/ Doing("add bids") /\ InstalledObject(bids, Name[o]) # Null
          /\ \/ DoubleFree(bids) /\ fault' = "freed twice"
             \/ AuctionOf[o] \notin DOMAIN byAuction /\ fault' = "no index"
  /\ UNCHANGED <<auctions, bids, byAuction, number, removals, work, read, gone>>
  /\ refused' = (refused \/ work.op = "add bids")

\* The page of a bid: one that is not installed is looked for among the done.
GetInfo ==
  /\ Quiet
  /\ \E name \in {Name[b] : b \in Bids} :
       /\ InstalledObject(bids, name) = Null
       /\ \E i \in DoneReads(bids, name) : bids.done[i] \in gone
  /\ fault' = "read freed"
  /\ UNCHANGED <<auctions, bids, byAuction, number, removals, work, read, gone, refused>>

\* The page of a set of bids: the index of a set nobody has is NULL.
GetInfoOfSet ==
  /\ Quiet
  /\ \E set \in {Name[b].set : b \in Bids} : \A name \in DOMAIN bids.index : name.set # set
  /\ fault' = "no set"
  /\ UNCHANGED <<auctions, bids, byAuction, number, removals, work, read, gone, refused>>

ObjectNext ==
  \/ ParseAuctions \/ ParseBids
  \/ AddAuction \/ InstallBid \/ RefuseBid \/ FinishAdd
  \/ HandleRemoveAuctions \/ HandleRemoveBiddingObjects
  \/ RemoveAuction \/ RemoveBid \/ FinishRemove
  \/ Crash \/ GetInfo \/ GetInfoOfSet

ObjectSpec == ObjectInit /\ [][ObjectNext]_objectVars

----------------------------------------------------------------------------
(* Properties *)

\* Names and numbers lead to the same objects, and to nothing that is done.
Agree(m) ==
  /\ \A i \in 1 .. Len(m.db) : m.db[i] # Null =>
       /\ number[m.db[i]] = i - 1
       /\ Name[m.db[i]] \in DOMAIN m.index
       /\ m.index[Name[m.db[i]]] = i - 1
  /\ \A x \in DOMAIN m.index : InstalledObject(m, x) # Null /\ Name[InstalledObject(m, x)] = x

\* The two indices of bids have the same members, by auction.
IndexedByAuction ==
  \A n \in 0 .. (Len(bids.db) - 1), x \in {AuctionOf[b] : b \in Bids} :
    (x \in DOMAIN byAuction /\ n \in byAuction[x])
      <=> (ObjectAt(bids, n) # Null /\ AuctionOf[ObjectAt(bids, n)] = x)

\* As long as no bid was refused for its name, whatever is installed is found by
\* its name, by its number and by its auction, and what was removed by none of
\* them - with names used again, lists cut short by the database, and the oldest
\* of the done objects deleted (AuctionManager, BiddingObjectManager).  Auctions
\* may be refused.
NamesFind ==
  /\ Agree(auctions)
  /\ ~refused => Agree(bids) /\ IndexedByAuction

\* What a removal still queued holds, and what is installed, was not deleted; and
\* the managers use deleted memory only when a bid has been refused
\* (AuctioningObjectManager::storeAuctioningObjectAsDone and its callers).
MemorySound ==
  /\ gone \cap (removals \cup Range(work.rest)) = {}
  /\ gone \cap (Range(auctions.db) \cup Range(bids.db)) = {}
  /\ fault \in {"freed twice", "read freed", "no index"} => refused
=============================================================================
