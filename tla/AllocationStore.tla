-------------------------- MODULE AllocationStore --------------------------
(***************************************************************************)
(* AllocationManager: the allocations by number, and three indices from    *)
(* the name of an allocation, of its auction and of its bid to the numbers *)
(* of allocations.  No handler of the daemons uses it at this commit.      *)
(*                                                                         *)
(* An index is a map of sets to maps of names to numbers; here it is a     *)
(* function of pairs <<set, name>>.  A set without names, which the code   *)
(* may leave behind, is the same as no set to everything that reads it.    *)
(***************************************************************************)
EXTENDS Naturals, Sequences, Functions

CONSTANTS
  Allocations,  \* the allocations parsed from messages
  Key,          \* their pairs, by index
  DoneSize,     \* DONE_LIST_SIZE
  Nothing       \* NULL

Kinds == {"allocation", "auction", "bid"}

VARIABLES
  db,       \* allocationDB: allocations by number, from 0
  index,    \* allocationSetIndex, auctionSetIndex, bidSetIndex
  done,     \* allocationDone
  doomed,   \* the numbers that delBidAllocations or delAuctionAllocations has left
  parsed,   \* allocations that were made
  freed     \* allocations that were deleted

allocationVars == <<db, index, done, doomed, parsed, freed>>

AllocationInit ==
  /\ db = <<>> /\ done = <<>> /\ doomed = {} /\ parsed = {} /\ freed = {}
  /\ index = [k \in Kinds |-> <<>>]

At(n) == db[n + 1]
Numbers(k, key) == IF key \in DOMAIN index[k] THEN index[k][key] ELSE {}
Installed(a) == \E n \in Numbers("allocation", Key[a].allocation) : TRUE

----------------------------------------------------------------------------
\* addAllocation: one whose name is installed is deleted again.
AddAllocation ==
  /\ doomed = {}
  /\ \E a \in Allocations \ parsed :
       /\ parsed' = parsed \cup {a}
       /\ IF Installed(a)
          THEN freed' = freed \cup {a} /\ UNCHANGED <<db, index>>
          ELSE /\ db' = Append(db, a)
               /\ index' = [k \in Kinds |->
                    [x \in DOMAIN index[k] \cup {Key[a][k]} |->
                       Numbers(k, x) \cup (IF x = Key[a][k] THEN {Len(db)} ELSE {})]]
               /\ UNCHANGED freed
  /\ UNCHANGED <<done, doomed>>

\* Mutant: whether a name has numbers left is read from the index itself.
WithoutLive(idx, key, n) ==
  [x \in {y \in DOMAIN idx : y = key => idx[key] \ {n} # {}} |->
     IF x = key THEN idx[x] \ {n} ELSE idx[x]]

\* A number leaves an index.  Whether a name has no numbers left is read from a
\* copy that was made before: names stay.
Without(idx, key, n) ==
  [x \in {y \in DOMAIN idx : y = key => idx[key] # {}} |->
     IF x = key THEN idx[x] \ {n} ELSE idx[x]]

HasSet(idx, set) == \E x \in DOMAIN idx : x[1] = set

\* delAllocation.  At its end, when the set of the allocation is empty, the set of
\* that name is erased from the index of auctions.
DelIndices(a, n) ==
  LET left == [k \in Kinds |-> Without(index[k], Key[a][k], n)]
      set == Key[a].allocation[1] IN
    IF HasSet(left.allocation, set) THEN left
    ELSE [left EXCEPT !.auction = [x \in {y \in DOMAIN @ : y[1] # set} |-> @[x]]]

Full == Len(done) >= DoneSize

DelAllocation(n) ==
  /\ db' = [db EXCEPT ![n + 1] = Nothing]
  /\ index' = DelIndices(At(n), n)
  /\ done' = Append(IF Full THEN Tail(done) ELSE done, At(n))
  /\ freed' = freed \cup (IF Full THEN {Head(done)} ELSE {})
  /\ UNCHANGED parsed

\* delAllocation of a name; others throw.
DelByName ==
  /\ doomed = {}
  /\ \E x \in DOMAIN index["allocation"] : \E n \in index["allocation"][x] : DelAllocation(n)
  /\ UNCHANGED doomed

\* delBidAllocations, delAuctionAllocations: the numbers of the name, in order.
DelAllOf(k) ==
  /\ doomed = {}
  /\ \E x \in DOMAIN index[k] : doomed' = index[k][x]
  /\ UNCHANGED <<db, index, done, parsed, freed>>

DelNext ==
  /\ \E n \in doomed :
       /\ \A i \in doomed : n <= i
       /\ DelAllocation(n)
       /\ doomed' = doomed \ {n}

AllocationNext == AddAllocation \/ DelByName \/ DelAllOf("bid") \/ DelAllOf("auction") \/ DelNext

AllocationSpec == AllocationInit /\ [][AllocationNext]_allocationVars

----------------------------------------------------------------------------
\* Each index gives, for every name, the allocations installed under it - although
\* names are never erased and the last statements of delAllocation erase a set
\* from the wrong index: the first mistake keeps the second from being reached.
IndexesAgree ==
  \A k \in Kinds, n \in 0 .. (Len(db) - 1) :
    \A x \in DOMAIN index[k] \cup {Key[a][k] : a \in Allocations} :
      n \in Numbers(k, x) <=> At(n) # Nothing /\ Key[At(n)][k] = x
=============================================================================
