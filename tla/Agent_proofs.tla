----------------------------- MODULE Agent_proofs -----------------------------
(***************************************************************************)
(* The books of the agent: its managers, its processor, its sessions and   *)
(* the one queue, for every set of intervals, auctions, files and answers, *)
(* every Frac and every bound.                                             *)
(*                                                                         *)
(* Lists of objects lie in the queue, and every handler takes one list and *)
(* changes others.  EventOK says what an event relies on, and Covered that *)
(* no object is without the event that ends it; the rest is what keeps     *)
(* these two: names, windows that are not empty, and that an interval      *)
(* comes, is answered and is removed once.                                 *)
(*                                                                         *)
(* The second half is about bids: FInv follows those of an answer from its *)
(* event to their transmission, with answers that come before the end of   *)
(* their interval.                                                         *)
(***************************************************************************)
EXTENDS Agent, EventQueue_proofs

(***************************************************************************)
(* The request processes on their own, for every number of requests and    *)
(* auctions, every width of the numbers and both modes of the source: what *)
(* holds although numbers are shared and recycled.                         *)
(***************************************************************************)

\* A process is entered under the number its request keeps.
OwnNumber == \A i \in DOMAIN requests : number[requests[i].req] = i

\* Only a request that was added can be over.
OverWasAdded == \A r \in over : number[r] # NotAdded

ProcessesInv ==
  /\ ProcessesTypeOK
  /\ FreeListSound
  /\ ProcessesHaveAuctions
  /\ OverIsGone
  /\ OwnNumber
  /\ OverWasAdded

-----------------------------------------------------------------------------
(***************************************************************************)
(* The source of numbers.                                                  *)
(***************************************************************************)

\* newId gives a number of the right width and leaves a source.
LEMMA NewIdType ==
  ASSUME NEW s \in SourceType
  PROVE  NewId(s) \in Numbers /\ AfterNewId(s) \in SourceType
<1>1. s.num \in Numbers /\ s.free \in Seq(Numbers)
  BY DEF SourceType
<1>2. (s.num + 1) % Modulus \in Numbers
  BY <1>1, IdSourceAssumption DEF Numbers
<1>3. CASE s.free = <<>>
  BY <1>1, <1>2, <1>3 DEF NewId, AfterNewId, SourceType
<1>4. CASE s.free # <<>>
  <2>1. Head(s.free) \in Numbers /\ Tail(s.free) \in Seq(Numbers)
    BY <1>1, <1>4
  <2> QED
    BY <1>1, <1>4, <2>1 DEF NewId, AfterNewId, SourceType
<1> QED
  BY <1>3, <1>4

\* What newId leaves in the list was there before, in the same order, and the
\* number it gives from the list was the first.
LEMMA NewIdList ==
  ASSUME NEW s \in SourceType
  PROVE  \/ s.free = <<>> /\ AfterNewId(s).free = <<>>
         \/ /\ Len(s.free) > 0 /\ NewId(s) = s.free[1]
            /\ Len(AfterNewId(s).free) = Len(s.free) - 1
            /\ \A k \in 1 .. Len(s.free) - 1 : AfterNewId(s).free[k] = s.free[k + 1]
<1>1. s.free \in Seq(Numbers)
  BY DEF SourceType
<1>2. CASE s.free = <<>>
  BY <1>2 DEF AfterNewId, SourceType
<1>3. CASE s.free # <<>>
  <2>1. AfterNewId(s).free = Tail(s.free) /\ NewId(s) = Head(s.free)
    BY <1>3 DEF AfterNewId, NewId, SourceType
  <2> QED
    BY <1>1, <1>3, <2>1
<1> QED
  BY <1>2, <1>3

\* freeId leaves a source; a number is in its list if it was before or is one
\* of those given back.
LEMMA FreeIdsType ==
  ASSUME NEW s \in SourceType, NEW ids \in Seq(Numbers)
  PROVE  /\ AfterFreeIds(s, ids) \in SourceType
         /\ AfterFreeIds(s, ids).free \in {s.free, s.free \o ids}
<1>1. s.num \in Numbers /\ s.free \in Seq(Numbers)
  BY DEF SourceType
<1>2. (s.num - Len(ids)) % Modulus \in Numbers
  BY <1>1, IdSourceAssumption DEF Numbers
<1>3. s.free \o ids \in Seq(Numbers)
  BY <1>1
<1> QED
  BY <1>1, <1>2, <1>3 DEF AfterFreeIds, SourceType

-----------------------------------------------------------------------------
(***************************************************************************)
(* The invariant.                                                          *)
(***************************************************************************)

\* At the start there are no processes and no freed numbers.
LEMMA InitProcesses == ProcessesInit => ProcessesInv
<1> SUFFICES ASSUME ProcessesInit PROVE ProcessesInv
  OBVIOUS
<1>1. DOMAIN requests = {} /\ source.free = <<>> /\ over = {}
  BY DEF ProcessesInit, NewSource
<1>2. ProcessesTypeOK
  <2>1. source \in SourceType
    BY IdSourceAssumption DEF ProcessesInit, NewSource, SourceType, Numbers
  <2> QED
    BY <1>1, <2>1 DEF ProcessesInit, ProcessesTypeOK
<1> QED
  BY <1>1, <1>2
     DEF ProcessesInv, FreeListSound, ProcessesHaveAuctions, OverIsGone, OwnNumber, OverWasAdded

\* A new request gets an entry of its own or takes over that of another; the
\* number comes off the list, so the list stays apart from the table.
LEMMA AddRequestKeeps ==
  ASSUME ProcessesInv, NEW r \in Requests, NEW S \in SUBSET Auctions, AddRequest(r, S)
  PROVE  ProcessesInv'
<1> DEFINE index == NewId(source)
<1>0. source \in SourceType /\ source.free \in Seq(Numbers)
  BY DEF ProcessesInv, ProcessesTypeOK, SourceType
<1>1. /\ number[r] = NotAdded /\ S \subseteq Auctions /\ S # {}
      /\ source' = AfterNewId(source)
      /\ requests' = [i \in DOMAIN requests \cup {index} |->
                        IF i = index THEN [req |-> r, aucs |-> S] ELSE requests[i]]
      /\ number' = [number EXCEPT ![r] = index]
      /\ calls' = [calls EXCEPT ![r] = Deleters]
      /\ present' = present \cup S /\ over' = over
  BY DEF AddRequest, AuctionsToServe
<1>2. index \in Numbers /\ source' \in SourceType /\ index # NotAdded
  BY <1>0, <1>1, NewIdType, AgentAssumption, IdSourceAssumption DEF Numbers
<1>3. /\ DOMAIN requests' = DOMAIN requests \cup {index}
      /\ requests'[index] = [req |-> r, aucs |-> S]
      /\ \A i \in DOMAIN requests \ {index} : requests'[i] = requests[i]
  BY <1>1
<1>4. \A i \in DOMAIN requests : requests[i].req # r /\ requests[i].req \in Requests
  BY <1>1, AgentAssumption, IdSourceAssumption
     DEF ProcessesInv, ProcessesTypeOK, OwnNumber, Process, Numbers
<1>5. ProcessesTypeOK'
  <2>1. \A i \in DOMAIN requests' : requests'[i] \in Process
    BY <1>1, <1>3 DEF ProcessesInv, ProcessesTypeOK, Process
  <2> QED
    BY <1>1, <1>2, <1>3, <2>1 DEF ProcessesInv, ProcessesTypeOK
<1>6. FreeListSound'
  <2>1. CASE AfterNewId(source).free = <<>>
    BY <2>1, <1>1 DEF FreeListSound
  <2>2. CASE /\ Len(source.free) > 0 /\ index = source.free[1]
             /\ Len(AfterNewId(source).free) = Len(source.free) - 1
             /\ \A k \in 1 .. Len(source.free) - 1 :
                  AfterNewId(source).free[k] = source.free[k + 1]
    <3>1. DOMAIN source.free = 1 .. Len(source.free) /\ Len(source.free) \in Nat
      BY <1>0
    <3>2. DOMAIN source'.free = 1 .. Len(source.free) - 1
      BY <1>1, <1>2, <2>2, <3>1 DEF SourceType
    <3>3. \A k \in DOMAIN source'.free :
            /\ k + 1 \in DOMAIN source.free /\ k + 1 # 1
            /\ source'.free[k] = source.free[k + 1]
      BY <1>1, <2>2, <3>1, <3>2
    <3>4. \A k \in DOMAIN source'.free : source'.free[k] # index
      BY <2>2, <3>1, <3>3 DEF ProcessesInv, FreeListSound
    <3>5. \A k \in DOMAIN source'.free : source'.free[k] \notin DOMAIN requests'
      BY <1>3, <3>3, <3>4 DEF ProcessesInv, FreeListSound
    <3>6. ASSUME NEW k \in DOMAIN source'.free, NEW l \in DOMAIN source'.free,
                 source'.free[l] = source'.free[k]
          PROVE  l = k
      <4>1. source.free[l + 1] = source.free[k + 1]
        BY <3>3, <3>6
      <4>2. l + 1 = k + 1
        BY <3>3, <4>1 DEF ProcessesInv, FreeListSound
      <4> QED
        BY <3>1, <3>2, <4>2
    <3> QED
      BY <3>5, <3>6 DEF FreeListSound
  <2> QED
    BY <1>0, <2>1, <2>2, NewIdList
<1>7. ProcessesHaveAuctions'
  BY <1>1, <1>3 DEF ProcessesInv, ProcessesHaveAuctions
<1>8. OverIsGone'
  BY <1>1, <1>3 DEF ProcessesInv, OverIsGone, OverWasAdded
<1>9. OwnNumber'
  BY <1>1, <1>3, <1>4 DEF ProcessesInv, ProcessesTypeOK, OwnNumber
<1>10. OverWasAdded'
  BY <1>1, <1>2 DEF ProcessesInv, ProcessesTypeOK, OverWasAdded
<1> QED
  BY <1>5, <1>6, <1>7, <1>8, <1>9, <1>10 DEF ProcessesInv

\* Numbers that leave the table can go to the list.
LEMMA FreeingKeepsListSound ==
  ASSUME ProcessesTypeOK, FreeListSound,
         NEW ids \in Seq(Numbers), NEW S \in SUBSET DOMAIN requests,
         \A k \in DOMAIN ids : ids[k] \in S,
         \A k, l \in DOMAIN ids : ids[k] = ids[l] => k = l,
         source' = AfterFreeIds(source, ids),
         DOMAIN requests' = DOMAIN requests \ S
  PROVE  source' \in SourceType /\ FreeListSound'
<1>1. source \in SourceType /\ source.free \in Seq(Numbers)
  BY DEF ProcessesTypeOK, SourceType
<1>2. source' \in SourceType /\ source'.free \in {source.free, source.free \o ids}
  BY <1>1, FreeIdsType
<1>3. CASE source'.free = source.free
  BY <1>2, <1>3 DEF FreeListSound
<1>4. CASE source'.free = source.free \o ids
  <2> DEFINE n == Len(source.free)
  <2>1. /\ DOMAIN source.free = 1 .. n /\ n \in Nat
        /\ DOMAIN ids = 1 .. Len(ids) /\ Len(ids) \in Nat
        /\ DOMAIN source'.free = 1 .. n + Len(ids)
        /\ \A k \in 1 .. n : source'.free[k] = source.free[k]
        /\ \A k \in n + 1 .. n + Len(ids) : source'.free[k] = ids[k - n]
    BY <1>1, <1>4
  <2>2. \A k \in 1 .. n : source'.free[k] \notin DOMAIN requests
    BY <2>1 DEF FreeListSound
  <2> HIDE DEF n
  <2>3. \A k \in n + 1 .. n + Len(ids) : k - n \in DOMAIN ids /\ source'.free[k] \in S
    <3> SUFFICES ASSUME NEW k \in n + 1 .. n + Len(ids)
                 PROVE  k - n \in DOMAIN ids /\ source'.free[k] \in S
      OBVIOUS
    <3>1. k - n \in 1 .. Len(ids)
      BY <2>1
    <3> QED
      BY <2>1, <3>1
  <2>4. \A k \in DOMAIN source'.free : source'.free[k] \notin DOMAIN requests'
    BY <2>1, <2>2, <2>3
  <2>5. ASSUME NEW k \in DOMAIN source'.free, NEW l \in DOMAIN source'.free,
               source'.free[l] = source'.free[k]
        PROVE  l = k
    <3>1. CASE k \in 1 .. n /\ l \in 1 .. n
      BY <3>1, <2>1, <2>5 DEF FreeListSound
    <3>2. CASE k \notin 1 .. n /\ l \notin 1 .. n
      <4>0. k \in n + 1 .. n + Len(ids) /\ l \in n + 1 .. n + Len(ids)
        BY <3>2, <2>1
      <4>1. ids[k - n] = ids[l - n] /\ k - n \in DOMAIN ids /\ l - n \in DOMAIN ids
        BY <4>0, <2>1, <2>3, <2>5
      <4>2. k - n = l - n
        BY <4>1
      <4> QED
        BY <4>2, <2>1
    <3>3. CASE (k \in 1 .. n) # (l \in 1 .. n)
      BY <3>3, <2>1, <2>2, <2>3, <2>5
    <3> QED
      BY <3>1, <3>2, <3>3
  <2> QED
    BY <1>2, <2>4, <2>5 DEF FreeListSound
<1> QED
  BY <1>2, <1>3, <1>4

\* A deletion takes at most the entry under the request's number: the entry
\* of the request itself, if it has one.
LEMMA DelRequestKeeps ==
  ASSUME ProcessesInv, NEW r \in Requests, NEW d \in Deleters, DelRequest(r, d)
  PROVE  ProcessesInv'
<1> DEFINE found == {number[r]} \cap DOMAIN requests
<1>1. /\ d \in calls[r]
      /\ calls' = [calls EXCEPT ![r] = @ \ {d}]
      /\ requests' = Erased(found)
      /\ source' = IF found = {} THEN source ELSE AfterFreeIds(source, <<number[r]>>)
      /\ over' = over \cup {r} /\ number' = number /\ present' = present
  BY DEF DelRequest
<1>2. number[r] # NotAdded /\ number[r] \in Numbers
  BY <1>1 DEF ProcessesInv, ProcessesTypeOK
<1>3. /\ DOMAIN requests' = DOMAIN requests \ found
      /\ \A i \in DOMAIN requests' : requests'[i] = requests[i]
  BY <1>1 DEF Erased
<1>4. source' \in SourceType /\ FreeListSound'
  <2>1. CASE found = {}
    BY <2>1, <1>1, <1>3 DEF ProcessesInv, ProcessesTypeOK, FreeListSound
  <2>2. CASE found # {}
    <3> DEFINE ids == <<number[r]>>
    <3>1. /\ ids \in Seq(Numbers)
          /\ \A k \in DOMAIN ids : ids[k] \in found
          /\ \A k, l \in DOMAIN ids : ids[k] = ids[l] => k = l
      BY <2>2, <1>2
    <3>2. source' = AfterFreeIds(source, ids) /\ found \in SUBSET DOMAIN requests
      BY <2>2, <1>1
    <3> HIDE DEF ids, found
    <3> QED
      BY <1>3, <3>1, <3>2, FreeingKeepsListSound DEF ProcessesInv
  <2> QED
    BY <2>1, <2>2
<1>5. ProcessesTypeOK'
  BY <1>1, <1>3, <1>4 DEF ProcessesInv, ProcessesTypeOK
<1>6. ProcessesHaveAuctions' /\ OwnNumber'
  BY <1>1, <1>3 DEF ProcessesInv, ProcessesHaveAuctions, OwnNumber
<1>7. OverIsGone'
  <2>1. \A i \in DOMAIN requests' : requests'[i].req # r
    BY <1>1, <1>3 DEF ProcessesInv, OwnNumber
  <2> QED
    BY <1>1, <1>3, <2>1 DEF ProcessesInv, OverIsGone
<1>8. OverWasAdded'
  BY <1>1, <1>2 DEF ProcessesInv, OverWasAdded
<1> QED
  BY <1>4, <1>5, <1>6, <1>7, <1>8 DEF ProcessesInv

\* The end of auctions takes the processes that had no others, and their
\* numbers go to the list, each once.
LEMMA DelAuctionsKeeps ==
  ASSUME ProcessesInv, NEW S \in SUBSET Auctions, DelAuctions(S)
  PROVE  ProcessesInv'
<1> DEFINE E == Emptied(S)
<1>1. /\ requests' = [i \in DOMAIN Erased(E) |-> [requests[i] EXCEPT !.aucs = @ \ S]]
      /\ present' = present \ S
      /\ over' = over \cup {requests[i].req : i \in E}
      /\ number' = number /\ calls' = calls
  BY DEF DelAuctions
<1>2. PICK ids \in InMapOrder(E) : source' = AfterFreeIds(source, ids)
  BY DEF DelAuctions
<1>3. E \subseteq DOMAIN requests /\ E \subseteq Numbers
  BY DEF Emptied, ProcessesInv, ProcessesTypeOK
<1>4. DOMAIN requests' = DOMAIN requests \ E
  BY <1>1 DEF Erased
<1>5. \A i \in DOMAIN requests' :
        /\ requests[i] \in Process
        /\ requests'[i].req = requests[i].req
        /\ requests'[i].aucs = requests[i].aucs \ S
        /\ requests'[i] \in Process
        /\ ~(requests[i].aucs \subseteq S)
  <2>1. \A i \in DOMAIN requests' :
          /\ i \in DOMAIN requests /\ i \notin E
          /\ requests'[i] = [requests[i] EXCEPT !.aucs = @ \ S]
    BY <1>1, <1>4
  <2> QED
    BY <2>1 DEF ProcessesInv, ProcessesTypeOK, Process, Emptied
<1>6. source' \in SourceType /\ FreeListSound'
  <2>1. IsFiniteSet(E)
    <3>1. IsFiniteSet(Numbers)
      BY FS_Interval, IdSourceAssumption DEF Numbers
    <3> QED
      BY <1>3, <3>1, FS_Subset
  <2>2. Cardinality(E) \in Nat
    BY <2>1, FS_CardinalityType
  <2>3. /\ ids \in [1 .. Cardinality(E) -> E]
        /\ \A k, l \in DOMAIN ids : k < l => ids[k] < ids[l]
    BY <1>2 DEF InMapOrder
  <2>4. ids \in Seq(Numbers) /\ \A k \in DOMAIN ids : ids[k] \in E
    BY <2>2, <2>3, <1>3
  <2>5. \A k, l \in DOMAIN ids : ids[k] = ids[l] => k = l
    <3>1. \A k \in DOMAIN ids : ids[k] \in Int /\ k \in Int
      BY <2>2, <2>3, <1>3, IdSourceAssumption DEF Numbers
    <3> QED
      BY <2>3, <3>1
  <2> HIDE DEF E
  <2> QED
    BY <1>2, <1>3, <1>4, <2>4, <2>5, FreeingKeepsListSound DEF ProcessesInv
<1>7. \A i \in E : requests[i].req \in Requests /\ number[requests[i].req] = i
  BY <1>3 DEF ProcessesInv, ProcessesTypeOK, OwnNumber, Process
<1>8. ProcessesTypeOK'
  <2>1. over' \subseteq Requests
    BY <1>1, <1>7 DEF ProcessesInv, ProcessesTypeOK
  <2> HIDE DEF E
  <2> QED
    BY <1>1, <1>4, <1>5, <1>6, <2>1 DEF ProcessesInv, ProcessesTypeOK
<1>9. ProcessesHaveAuctions'
  BY <1>1, <1>4, <1>5 DEF ProcessesInv, ProcessesHaveAuctions
<1>10. OwnNumber'
  BY <1>1, <1>4, <1>5 DEF ProcessesInv, OwnNumber
<1>11. OverIsGone'
  <2>1. \A i \in DOMAIN requests', k \in E : requests[i].req # requests[k].req
    BY <1>4, <1>7 DEF ProcessesInv, OwnNumber
  <2>2. ASSUME NEW i \in DOMAIN requests' PROVE requests'[i].req \notin over'
    <3>1. requests'[i].req = requests[i].req /\ i \in DOMAIN requests
      BY <1>4, <1>5
    <3>2. requests[i].req \notin over
      BY <3>1 DEF ProcessesInv, OverIsGone
    <3>3. requests[i].req \notin {requests[k].req : k \in E}
      BY <2>1
    <3>4. over' = over \cup {requests[k].req : k \in E}
      BY <1>1
    <3> HIDE DEF E
    <3> QED
      BY <3>1, <3>2, <3>3, <3>4
  <2> QED
    BY <2>2 DEF OverIsGone
<1>12. OverWasAdded'
  <2>1. \A i \in E : number[requests[i].req] # NotAdded
    BY <1>3, <1>7, AgentAssumption, IdSourceAssumption DEF Numbers
  <2> QED
    BY <1>1, <2>1 DEF ProcessesInv, OverWasAdded
<1> QED
  BY <1>6, <1>8, <1>9, <1>10, <1>11, <1>12 DEF ProcessesInv

\* Every step keeps the invariant.
LEMMA NextProcesses == ProcessesInv /\ [ProcessesNext]_processes => ProcessesInv'
<1> SUFFICES ASSUME ProcessesInv, [ProcessesNext]_processes PROVE ProcessesInv'
  OBVIOUS
<1>1. ASSUME NEW r \in Requests, NEW S \in SUBSET Auctions, AddRequest(r, S)
      PROVE  ProcessesInv'
  BY <1>1, AddRequestKeeps
<1>2. ASSUME NEW r \in Requests, NEW d \in Deleters, DelRequest(r, d)
      PROVE  ProcessesInv'
  BY <1>2, DelRequestKeeps
<1>3. ASSUME NEW S \in SUBSET Auctions, DelAuctions(S)
      PROVE  ProcessesInv'
  BY <1>3, DelAuctionsKeeps
<1>4. CASE UNCHANGED processes
  BY <1>4
     DEF processes, ProcessesInv, ProcessesTypeOK, FreeListSound, ProcessesHaveAuctions, OverIsGone,
         OwnNumber, OverWasAdded
<1> QED
  BY <1>1, <1>2, <1>3, <1>4 DEF ProcessesNext

\* The fields of AgentProcessor and IdSource keep their types; numbers stay
\* within their width.
THEOREM ProcessesTypeCorrect == ProcessesSpec => []ProcessesTypeOK
<1>1. ProcessesInv => ProcessesTypeOK
  BY DEF ProcessesInv
<1> QED
  BY <1>1, InitProcesses, NextProcesses, PTL DEF ProcessesSpec

\* The list of freed numbers never holds a number twice or one that is in the
\* table, although delRequest is called twice for a request (freeId).
THEOREM FreeListStaysSound == ProcessesSpec => []FreeListSound
<1>1. ProcessesInv => FreeListSound
  BY DEF ProcessesInv
<1> QED
  BY <1>1, InitProcesses, NextProcesses, PTL DEF ProcessesSpec

\* A process never refers to an auction the agent has deleted (delAuctions).
THEOREM NoDanglingAuctions == ProcessesSpec => []ProcessesHaveAuctions
<1>1. ProcessesInv => ProcessesHaveAuctions
  BY DEF ProcessesInv
<1> QED
  BY <1>1, InitProcesses, NextProcesses, PTL DEF ProcessesSpec

\* A request that has ended is not executed again (delRequest, delAuctions).
THEOREM EndedStaysGone == ProcessesSpec => []OverIsGone
<1>1. ProcessesInv => OverIsGone
  BY DEF ProcessesInv
<1> QED
  BY <1>1, InitProcesses, NextProcesses, PTL DEF ProcessesSpec

-----------------------------------------------------------------------------
(***************************************************************************)
(* The agent.                                                              *)
(***************************************************************************)

Bids == ObjectType({"valid", "active", "done"})

Generated == ObjectType({"new"})

IntervalTypes == {"ACTIVATE_RESOURCE_REQUEST_INTERVAL", "REMOVE_RESOURCE_REQUEST_INTERVAL"}

ListOf(N) == {S \in SUBSET N : S # {}}

\* The events, over auctions with the numbers A and objects with the numbers O.
Events(A, O) ==
  [at : Int, rank : Nat, type : {"ADD_RESOURCE_REQUESTS"}, reqs : Files]
  \cup [at : Int, rank : Nat, type : IntervalTypes \cup {"CONFIGURE_SESSION"}, req : Requests]
  \cup [at : Int, rank : Nat, type : {"CREATE_SESSION"}, req : Requests, list : Answers]
  \cup [at : Int, rank : Nat, type : {"PUSH_EXECUTION"}, index : Numbers]
  \cup [at : Int, rank : Nat, type : {"REMOVE_PUSH_EXECUTION"}, index : Numbers, req : Requests]
  \cup [at : Int, rank : Nat, type : AuctionLists, objs : ListOf(A)]
  \cup [at : Int, rank : Nat, type : {"ACTIVATE_BIDDING_OBJECTS", "REMOVE_BIDDING_OBJECTS"},
        objs : ListOf(O)]
  \cup [at : Int, rank : Nat, type : {"TRANSMIT_BIDDING_OBJECTS"}, index : Numbers,
        objs : ListOf(O)]
  \cup [at : Int, rank : Nat, type : {"ADD_GENERATED_BIDDING_OBJECTS"}, index : Numbers,
        allocs : Seq(Generated) \ {<<>>}]
  \cup [at : Int, rank : Nat, type : {"AUCTION_INTERACTION"}, obj : O]

\* What is in the lists of an event is not done, an interval that is to begin has a
\* window, and bids that were made have an end.
EventOK(e, as, os, ss) ==
  /\ e \in Events(DOMAIN as, DOMAIN os)
  /\ e.type \in AuctionLists => \A i \in e.objs : as[i].state # "done"
  /\ e.type = "ACTIVATE_BIDDING_OBJECTS" => \A o \in e.objs : os[o].state # "done"
  /\ e.type \in {"ACTIVATE_RESOURCE_REQUEST_INTERVAL", "CREATE_SESSION"} =>
       ss[e.req].start < ss[e.req].stop
  /\ e.type = "ADD_GENERATED_BIDDING_OBJECTS" =>
       \A k \in DOMAIN e.allocs : e.allocs[k].stop > 0

QueueOK == IsFiniteSet(queue) /\ \A e \in queue : EventOK(e, aucs, objs, sess)

\* Every object waits for its end, and what has not begun for its beginning.
Covered(q, as, os) ==
  /\ \A i \in DOMAIN as :
       as[i].state # "done" => \E e \in q : e.type = "REMOVE_AUCTIONS" /\ i \in e.objs
  /\ \A o \in DOMAIN os :
       /\ os[o].state = "valid" =>
            \E e \in q : e.type = "ACTIVATE_BIDDING_OBJECTS" /\ o \in e.objs
       /\ os[o].state # "done" =>
            \E e \in q : e.type = "REMOVE_BIDDING_OBJECTS" /\ o \in e.objs

Types ==
  /\ now \in 0 .. MaxTime
  /\ aucs \in Seq(AuctionType)
  /\ objs \in Seq(Bids)
  /\ sess \in [Requests -> SessionType]
  /\ net \in [Requests -> {"idle", "asked", "configured", "answered"}]
  /\ files \subseteq Files /\ up \in BOOLEAN
  /\ sent \subseteq (DOMAIN objs) \X Requests

\* Windows are not empty, and nothing that was made ends at 0, which is no end.
WindowsOK ==
  /\ \A r \in Requests : net[r] # "idle" => sess[r].start < sess[r].stop
  /\ \A i \in DOMAIN requests : sess[requests[i].req].end > 0 /\ IsFiniteSet(requests[i].aucs)
  /\ \A o \in DOMAIN objs : objs[o].stop > 0

\* An interval whose file has not been read.
Waiting(r) ==
  \/ \E F \in files : r \in F
  \/ \E e \in queue : e.type = "ADD_RESOURCE_REQUESTS" /\ r \in e.reqs

\* A file is read once, and an interval removed once.
IntervalsOnce ==
  /\ \A e \in queue : e.type = "ADD_RESOURCE_REQUESTS" => e.reqs \notin files
  /\ \A e, f \in queue :
       /\ e.type = "ADD_RESOURCE_REQUESTS" /\ f.type = e.type /\ e.reqs = f.reqs => e = f
       /\ e.type = "REMOVE_RESOURCE_REQUEST_INTERVAL" /\ f.type = e.type /\ e.req = f.req => e = f
  /\ \A e \in queue :
       e.type = "REMOVE_RESOURCE_REQUEST_INTERVAL" => ~sess[e.req].torn /\ ~Waiting(e.req)
  /\ \A r \in Requests : sess[r].torn => ~Waiting(r)

\* An interval lists auctions when it was answered, and then it has had a process.
AnswersOnce ==
  \A r \in Requests :
    /\ sess[r].answer = "none" => sess[r].aucs = {}
    /\ sess[r].answer # "none" => number[r] # NotAdded
    /\ sess[r].answer = "late" => sess[r].torn

IInv ==
  /\ Types /\ ProcessesInv /\ QueueOK /\ Covered(queue, aucs, objs)
  /\ OneAuctionPerName /\ WindowsOK /\ IntervalsOnce /\ AnswersOnce /\ ReferencesCounted

-----------------------------------------------------------------------------
(***************************************************************************)
(* Events and the queue.                                                   *)
(***************************************************************************)

\* f is e but for its time and its rank.
SameEvent(e, f) ==
  /\ f.type = e.type
  /\ e.type = "ADD_RESOURCE_REQUESTS" => f.reqs = e.reqs
  /\ e.type \in IntervalTypes \cup {"CREATE_SESSION"} => f.req = e.req
  /\ e.type \in AuctionLists \cup BidLists => f.objs = e.objs
  /\ e.type = "ADD_GENERATED_BIDDING_OBJECTS" => f.allocs = e.allocs

\* What an event holds, by its type.
LEMMA EventShape ==
  ASSUME NEW A, NEW O, NEW e \in Events(A, O)
  PROVE  /\ e.at \in Int /\ e.rank \in Nat
         /\ e.type = "ADD_RESOURCE_REQUESTS" => e.reqs \in Files
         /\ e.type \in IntervalTypes \cup {"CONFIGURE_SESSION", "CREATE_SESSION"} =>
              e.req \in Requests
         /\ e.type = "CREATE_SESSION" => e.list \in Answers
         /\ e.type \in {"PUSH_EXECUTION", "REMOVE_PUSH_EXECUTION", "TRANSMIT_BIDDING_OBJECTS",
                        "ADD_GENERATED_BIDDING_OBJECTS"} => e.index \in Numbers
         /\ e.type = "REMOVE_PUSH_EXECUTION" => e.req \in Requests
         /\ e.type \in AuctionLists => e.objs \subseteq A /\ e.objs # {}
         /\ e.type \in BidLists => e.objs \subseteq O /\ e.objs # {}
         /\ e.type = "ADD_GENERATED_BIDDING_OBJECTS" =>
              e.allocs \in Seq(Generated) /\ e.allocs # <<>>
         /\ e.type = "AUCTION_INTERACTION" => e.obj \in O
<1>1. e.at \in Int /\ e.rank \in Nat
  BY DEF Events
<1>2. e.type \in AuctionLists => e.objs \subseteq A /\ e.objs # {}
  <2>1. e.type \in AuctionLists => e.objs \in ListOf(A)
    BY DEF Events, AuctionLists, BidLists, IntervalTypes
  <2> QED
    BY <2>1 DEF ListOf
<1>3. e.type \in BidLists => e.objs \subseteq O /\ e.objs # {}
  <2>1. e.type \in BidLists => e.objs \in ListOf(O)
    BY DEF Events, AuctionLists, BidLists, IntervalTypes
  <2> QED
    BY <2>1 DEF ListOf
<1>4. e.type = "ADD_GENERATED_BIDDING_OBJECTS" =>
        e.allocs \in Seq(Generated) /\ e.allocs # <<>>
  BY DEF Events, AuctionLists, BidLists, IntervalTypes
<1>5. /\ e.type = "ADD_RESOURCE_REQUESTS" => e.reqs \in Files
      /\ e.type \in IntervalTypes \cup {"CONFIGURE_SESSION", "CREATE_SESSION"} =>
           e.req \in Requests
      /\ e.type = "CREATE_SESSION" => e.list \in Answers
  BY DEF Events, AuctionLists, BidLists, IntervalTypes
<1>6. /\ e.type \in {"PUSH_EXECUTION", "REMOVE_PUSH_EXECUTION", "TRANSMIT_BIDDING_OBJECTS",
                     "ADD_GENERATED_BIDDING_OBJECTS"} => e.index \in Numbers
      /\ e.type = "REMOVE_PUSH_EXECUTION" => e.req \in Requests
      /\ e.type = "AUCTION_INTERACTION" => e.obj \in O
  BY DEF Events, AuctionLists, BidLists, IntervalTypes
<1> QED
  BY <1>1, <1>2, <1>3, <1>4, <1>5, <1>6

\* An inserted event keeps what it is.
LEMMA RankedEvent ==
  ASSUME NEW A, NEW O, NEW e \in Events(A, O), NEW r \in Nat
  PROVE  Ranked(e, r) \in Events(A, O) /\ SameEvent(e, Ranked(e, r))
BY DEF Ranked, Events, SameEvent, AuctionLists, BidLists, IntervalTypes

\* An event moved to another time keeps what it is.
LEMMA MovedEvent ==
  ASSUME NEW A, NEW O, NEW e \in Events(A, O), NEW t \in Int, NEW r \in Nat
  PROVE  /\ [e EXCEPT !.at = t, !.rank = r] \in Events(A, O)
         /\ SameEvent(e, [e EXCEPT !.at = t, !.rank = r])
BY DEF Events, SameEvent, AuctionLists, BidLists, IntervalTypes

\* An event stays well-formed when more auctions and objects are installed.
LEMMA EventsMonotone ==
  ASSUME NEW A, NEW O, NEW A2, NEW O2, A \subseteq A2, O \subseteq O2
  PROVE  Events(A, O) \subseteq Events(A2, O2)
BY DEF Events, ListOf

\* What an event relies on does not depend on its place in the queue.
LEMMA SameEventOK ==
  ASSUME NEW as, NEW os, NEW ss, NEW e, EventOK(e, as, os, ss),
         NEW f \in Events(DOMAIN as, DOMAIN os), SameEvent(e, f)
  PROVE  EventOK(f, as, os, ss)
BY DEF EventOK, SameEvent, AuctionLists, BidLists, IntervalTypes

\* addEvent: what is in the queue is what was in it, and the events added.
LEMMA Enqueued ==
  ASSUME NEW as, NEW os, NEW ss, NEW q, NEW S,
         \A e \in q \cup S : EventOK(e, as, os, ss)
  PROVE  /\ \A e \in Enqueue(q, S) :
              /\ EventOK(e, as, os, ss)
              /\ e \in q \/ \E f \in S : SameEvent(f, e)
         /\ \A f \in S : \E e \in Enqueue(q, S) : SameEvent(f, e)
         /\ q \subseteq Enqueue(q, S)
<1> DEFINE In(f) == Ranked(f, LastRank(q, f.at) + f.rank)
<1>1. \A e \in q \cup S : e \in Events(DOMAIN as, DOMAIN os) /\ e.rank \in Nat
  BY EventShape DEF EventOK
<1>2. \A t : LastRank(q, t) \in Nat
  BY <1>1, LastRankNat
<1>3. ASSUME NEW f \in S
      PROVE  EventOK(In(f), as, os, ss) /\ SameEvent(f, In(f))
  <2>0. LastRank(q, f.at) \in Nat /\ f.rank \in Nat
    BY <1>1, <1>2
  <2>1. LastRank(q, f.at) + f.rank \in Nat
    BY <2>0
  <2>2. In(f) \in Events(DOMAIN as, DOMAIN os) /\ SameEvent(f, In(f))
    BY <1>1, <2>1, RankedEvent
  <2> HIDE DEF In
  <2> QED
    BY <2>2, SameEventOK
<1>4. Enqueue(q, S) = q \cup {In(f) : f \in S}
  BY DEF Enqueue
<1> HIDE DEF In
<1> QED
  BY <1>3, <1>4

\* addEvent adds finitely many events.
LEMMA EnqueueFinite ==
  ASSUME NEW q, NEW S, IsFiniteSet(q), IsFiniteSet(S)
  PROVE  IsFiniteSet(Enqueue(q, S))
<1> DEFINE f == [e \in S |-> Ranked(e, LastRank(q, e.at) + e.rank)]
<1>1. IsFiniteSet({f[e] : e \in S})
  <2>1. DOMAIN f = S /\ f = [e \in S |-> f[e]]
    OBVIOUS
  <2> HIDE DEF f
  <2> QED
    BY <2>1, FiniteImage
<1>2. Enqueue(q, S) = q \cup {f[e] : e \in S}
  BY DEF Enqueue
<1> HIDE DEF f
<1> QED
  BY <1>1, <1>2, FS_Union

\* An event keeps what it relies on when objects are installed and none is done.
LEMMA EventOKGrows ==
  ASSUME NEW as, NEW os, NEW ss, NEW as2, NEW os2, NEW ss2,
         NEW e, EventOK(e, as, os, ss),
         DOMAIN as \subseteq DOMAIN as2, DOMAIN os \subseteq DOMAIN os2,
         \A i \in DOMAIN as : as[i].state # "done" => as2[i].state # "done",
         \A o \in DOMAIN os : os[o].state # "done" => os2[o].state # "done",
         \A r \in Requests : ss2[r].start = ss[r].start /\ ss2[r].stop = ss[r].stop
  PROVE  EventOK(e, as2, os2, ss2)
<1>1. e \in Events(DOMAIN as, DOMAIN os) /\ e \in Events(DOMAIN as2, DOMAIN os2)
  BY EventsMonotone DEF EventOK
<1>2. e.type \in AuctionLists => \A i \in e.objs : as2[i].state # "done"
  BY <1>1, EventShape DEF EventOK
<1>3. e.type = "ACTIVATE_BIDDING_OBJECTS" => \A o \in e.objs : os2[o].state # "done"
  BY <1>1, EventShape DEF EventOK, BidLists
<1>4. e.type \in {"ACTIVATE_RESOURCE_REQUEST_INTERVAL", "CREATE_SESSION"} =>
        ss2[e.req].start < ss2[e.req].stop
  BY <1>1, EventShape DEF EventOK, IntervalTypes
<1> QED
  BY <1>1, <1>2, <1>3, <1>4 DEF EventOK

\* The events pending once e has been taken from the queue.
LEMMA RestOK ==
  ASSUME QueueOK, NEW e \in queue
  PROVE  /\ IsFiniteSet(Rest(e)) /\ Rest(e) \subseteq queue
         /\ \A f \in Rest(e) : EventOK(f, aucs, objs, sess)
         /\ EventOK(e, aucs, objs, sess) /\ e \in Events(DOMAIN aucs, DOMAIN objs)
BY FS_Subset DEF QueueOK, Rest, EventOK

\* The events that begin or end something.
CoverTypes == AuctionLists \cup {"ACTIVATE_BIDDING_OBJECTS", "REMOVE_BIDDING_OBJECTS"}

\* Events that end or begin nothing may go, and any may come.
LEMMA CoveredKept ==
  ASSUME NEW as, NEW os, NEW q, NEW q2, Covered(q, as, os),
         \A f \in q : f.type \in CoverTypes =>
           \E g \in q2 : g.type = f.type /\ g.objs = f.objs
  PROVE  Covered(q2, as, os)
<1>1. ASSUME NEW i \in DOMAIN as, as[i].state # "done"
      PROVE  \E g \in q2 : g.type = "REMOVE_AUCTIONS" /\ i \in g.objs
  <2>1. PICK f \in q : f.type = "REMOVE_AUCTIONS" /\ i \in f.objs
    BY <1>1 DEF Covered
  <2> QED
    BY <2>1 DEF CoverTypes, AuctionLists
<1>2. ASSUME NEW o \in DOMAIN os, os[o].state = "valid"
      PROVE  \E g \in q2 : g.type = "ACTIVATE_BIDDING_OBJECTS" /\ o \in g.objs
  <2>1. PICK f \in q : f.type = "ACTIVATE_BIDDING_OBJECTS" /\ o \in f.objs
    BY <1>2 DEF Covered
  <2> QED
    BY <2>1 DEF CoverTypes, AuctionLists
<1>3. ASSUME NEW o \in DOMAIN os, os[o].state # "done"
      PROVE  \E g \in q2 : g.type = "REMOVE_BIDDING_OBJECTS" /\ o \in g.objs
  <2>1. PICK f \in q : f.type = "REMOVE_BIDDING_OBJECTS" /\ o \in f.objs
    BY <1>3 DEF Covered
  <2> QED
    BY <2>1 DEF CoverTypes, AuctionLists
<1> QED
  BY <1>1, <1>2, <1>3 DEF Covered

-----------------------------------------------------------------------------
(***************************************************************************)
(* Steps that leave most of the state alone.                               *)
(***************************************************************************)

FileTypes == {"ADD_RESOURCE_REQUESTS", "REMOVE_RESOURCE_REQUEST_INTERVAL"}

\* Sessions that differ in their state only.
SameSessions(ss, ss2) ==
  \A r \in Requests :
    /\ ss2[r].start = ss[r].start /\ ss2[r].stop = ss[r].stop
    /\ ss2[r].end = ss[r].end /\ ss2[r].aucs = ss[r].aucs
    /\ ss2[r].torn = ss[r].torn /\ ss2[r].answer = ss[r].answer

\* No file and no end of an interval comes.
LEMMA IntervalsKept ==
  ASSUME IntervalsOnce, files' = files,
         \A e \in queue : e.type = "REMOVE_RESOURCE_REQUEST_INTERVAL" => e.req \in Requests,
         \A r \in Requests : sess'[r].torn = sess[r].torn,
         \A e \in queue' : e.type \in FileTypes => e \in queue
  PROVE  IntervalsOnce'
<1>1. \A r : Waiting(r)' => Waiting(r)
  BY DEF Waiting, FileTypes
<1> QED
  BY <1>1 DEF IntervalsOnce, FileTypes

\* The processor is not called.
LEMMA ProcessesKept ==
  ASSUME ProcessesInv, UNCHANGED processes
  PROVE  ProcessesInv'
BY NextProcesses

\* A step of the queue, the objects and the state of sessions.
LEMMA Quiet ==
  ASSUME IInv, UNCHANGED <<aucs, files, processes>>, Types', QueueOK',
         Covered(queue', aucs', objs'), SameSessions(sess, sess'),
         \A r \in Requests : net'[r] # "idle" => sess[r].start < sess[r].stop,
         \A o \in DOMAIN objs' : objs'[o].stop > 0,
         \A e \in queue' : e.type \in FileTypes => e \in queue
  PROVE  IInv'
<1>1. ProcessesInv'
  BY ProcessesKept DEF IInv
<1>2. number' = number /\ requests' = requests /\ present' = present
  BY DEF processes
<1>3. OneAuctionPerName'
  BY <1>2 DEF IInv, OneAuctionPerName, Installed
<1>4. WindowsOK'
  <2>1. \A i \in DOMAIN requests : requests[i].req \in Requests
    BY DEF IInv, ProcessesInv, ProcessesTypeOK, Process
  <2> QED
    BY <1>2, <2>1 DEF IInv, WindowsOK, SameSessions
<1>5. IntervalsOnce'
  <2>1. \A e \in queue : e.type = "REMOVE_RESOURCE_REQUEST_INTERVAL" => e.req \in Requests
    BY EventShape DEF IInv, QueueOK, EventOK, IntervalTypes
  <2> QED
    BY <2>1, IntervalsKept DEF IInv, SameSessions
<1>6. AnswersOnce'
  BY <1>2 DEF IInv, AnswersOnce, SameSessions
<1>7. ReferencesCounted'
  BY DEF IInv, ReferencesCounted, SameSessions
<1> QED
  BY <1>1, <1>3, <1>4, <1>5, <1>6, <1>7 DEF IInv

\* Objects that are installed, and no object is done now that was not.
Grown(as, as2) ==
  /\ DOMAIN as \subseteq DOMAIN as2
  /\ \A i \in DOMAIN as : as[i].state # "done" => as2[i].state # "done"

\* A step that takes events from the queue and adds others.
LEMMA PostedQueue ==
  ASSUME QueueOK, NEW q \in SUBSET queue, NEW S, IsFiniteSet(S), queue' = Enqueue(q, S),
         Grown(aucs, aucs'), Grown(objs, objs'),
         \A r \in Requests : sess'[r].start = sess[r].start /\ sess'[r].stop = sess[r].stop,
         \A f \in S : EventOK(f, aucs', objs', sess')
  PROVE  /\ QueueOK'
         /\ \A e \in queue' : e \in q \/ \E f \in S : SameEvent(f, e)
         /\ \A f \in S : \E e \in queue' : SameEvent(f, e)
         /\ q \subseteq queue'
<1>1. \A e \in q : EventOK(e, aucs', objs', sess')
  BY EventOKGrows DEF QueueOK, Grown
<1>2. \A e \in q \cup S : EventOK(e, aucs', objs', sess')
  BY <1>1
<1>3. /\ \A e \in queue' : EventOK(e, aucs', objs', sess')
      /\ \A e \in queue' : e \in q \/ \E f \in S : SameEvent(f, e)
      /\ \A f \in S : \E e \in queue' : SameEvent(f, e)
      /\ q \subseteq queue'
  <2> DEFINE as == aucs'
             os == objs'
             ss == sess'
  <2>1. \A e \in q \cup S : EventOK(e, as, os, ss)
    BY <1>2
  <2> HIDE DEF as, os, ss
  <2>2. /\ \A e \in Enqueue(q, S) : EventOK(e, as, os, ss)
        /\ \A e \in Enqueue(q, S) : e \in q \/ \E f \in S : SameEvent(f, e)
        /\ \A f \in S : \E e \in Enqueue(q, S) : SameEvent(f, e)
        /\ q \subseteq Enqueue(q, S)
    BY <2>1, Enqueued, ZenonT(30)
  <2> USE DEF as, os, ss
  <2> QED
    BY <2>2
<1>4. IsFiniteSet(queue')
  BY EnqueueFinite, FS_Subset DEF QueueOK
<1> QED
  BY <1>3, <1>4 DEF QueueOK

\* A step that only takes events from the queue.
LEMMA DroppedQueue ==
  ASSUME QueueOK, queue' \subseteq queue, Grown(aucs, aucs'), Grown(objs, objs'),
         \A r \in Requests : sess'[r].start = sess[r].start /\ sess'[r].stop = sess[r].stop
  PROVE  QueueOK'
<1>1. \A e \in queue' : EventOK(e, aucs', objs', sess')
  BY EventOKGrows DEF QueueOK, Grown
<1>2. IsFiniteSet(queue')
  BY FS_Subset DEF QueueOK
<1> QED
  BY <1>1, <1>2 DEF QueueOK

\* The state of some objects, when they are not done afterwards.
LEMMA EnteringObjects ==
  ASSUME NEW os \in Seq(Bids), NEW S, NEW state \in {"valid", "active", "done"}
  PROVE  /\ Entering(os, S, state) \in Seq(Bids)
         /\ DOMAIN Entering(os, S, state) = DOMAIN os
         /\ \A o \in DOMAIN os :
              /\ Entering(os, S, state)[o].stop = os[o].stop
              /\ o \in S => Entering(os, S, state)[o].state = state
              /\ o \notin S => Entering(os, S, state)[o] = os[o]
<1>1. \A o \in DOMAIN os : os[o] \in Bids
  BY ElementOfSeq, LenProperties
<1>2. \A o \in DOMAIN os : [os[o] EXCEPT !.state = state] \in Bids
  BY <1>1 DEF Bids, ObjectType
<1>3. Entering(os, S, state) \in [DOMAIN os -> Bids]
  BY <1>1, <1>2 DEF Entering
<1>4. Entering(os, S, state) \in Seq(Bids) /\ DOMAIN Entering(os, S, state) = DOMAIN os
  BY <1>3, Mapped
<1>5. \A o \in DOMAIN os :
        /\ Entering(os, S, state)[o].stop = os[o].stop
        /\ o \in S => Entering(os, S, state)[o].state = state
        /\ o \notin S => Entering(os, S, state)[o] = os[o]
  BY <1>1 DEF Entering, Bids, ObjectType
<1> QED
  BY <1>4, <1>5

\* What Quiet asks of a step that changes the queue only, but for the rest of
\* its variables.
LEMMA OneEventTaken ==
  ASSUME IInv, NEW e \in queue, e.type \notin CoverTypes,
         queue' = Rest(e), UNCHANGED <<aucs, objs>>, SameSessions(sess, sess')
  PROVE  QueueOK' /\ Covered(queue', aucs', objs') /\ queue' \subseteq queue
<1>1. queue' \subseteq queue /\ \A f \in queue : f = e \/ f \in queue'
  BY DEF Rest
<1>2. QueueOK'
  BY <1>1, DroppedQueue DEF IInv, Grown, SameSessions
<1>3. Covered(queue', aucs, objs)
  BY <1>1, CoveredKept DEF IInv
<1> QED
  BY <1>1, <1>2, <1>3

-----------------------------------------------------------------------------
(***************************************************************************)
(* The handlers of sessions and bids.                                      *)
(***************************************************************************)

\* The type of the head of the queue.
LEMMA Handled ==
  ASSUME IInv, NEW e \in queue, NEW type, Handling(e, type)
  PROVE  e.type = type /\ EventOK(e, aucs, objs, sess) /\ e \in Events(DOMAIN aucs, DOMAIN objs)
BY DEF Handling, IInv, QueueOK, EventOK

\* A session changes its state.
LEMMA SessionEnters ==
  ASSUME IInv, NEW r \in Requests, NEW state \in {"created", "active"},
         sess' = [sess EXCEPT ![r].state = state]
  PROVE  SameSessions(sess, sess') /\ sess' \in [Requests -> SessionType]
<1>1. sess \in [Requests -> SessionType]
  BY DEF IInv, Types
<1>2. SameSessions(sess, sess')
  BY <1>1 DEF SameSessions, SessionType
<1>3. [sess[r] EXCEPT !.state = state] \in SessionType
  BY <1>1 DEF SessionType
<1>4. sess' \in [Requests -> SessionType]
  BY <1>1, <1>3
<1> QED
  BY <1>2, <1>4

\* A session that is made asks for auctions within a window that is not empty.
LEMMA ActivateIntervalKeeps ==
  ASSUME IInv, NEW e \in queue, HandleActivateInterval(e)
  PROVE  IInv'
<1>1. /\ sess' = [sess EXCEPT ![e.req].state = "created"]
      /\ net' = [net EXCEPT ![e.req] = "asked"]
      /\ queue' = Rest(e)
      /\ UNCHANGED <<now, aucs, objs, files, up, sent, processes>>
      /\ Handling(e, "ACTIVATE_RESOURCE_REQUEST_INTERVAL")
  BY Zenon DEF HandleActivateInterval
<1>2. /\ e.type = "ACTIVATE_RESOURCE_REQUEST_INTERVAL" /\ e.req \in Requests
      /\ sess[e.req].start < sess[e.req].stop
  BY <1>1, Handled, EventShape DEF EventOK, IntervalTypes
<1>3. SameSessions(sess, sess') /\ sess' \in [Requests -> SessionType]
  BY <1>1, <1>2, SessionEnters
<1>4. Types'
  BY <1>1, <1>3 DEF IInv, Types, SessionType
<1>5. QueueOK' /\ Covered(queue', aucs', objs') /\ queue' \subseteq queue
  BY <1>1, <1>2, <1>3, OneEventTaken DEF CoverTypes, AuctionLists
<1>6. \A r \in Requests : net'[r] # "idle" => sess[r].start < sess[r].stop
  BY <1>1, <1>2 DEF IInv, Types, WindowsOK
<1>7. \A o \in DOMAIN objs' : objs'[o].stop > 0
  BY <1>1 DEF IInv, WindowsOK
<1> QED
  BY <1>1, <1>3, <1>4, <1>5, <1>6, <1>7, Quiet

\* A session gets its name.
LEMMA ConfigureSessionKeeps ==
  ASSUME IInv, NEW e \in queue, HandleConfigureSession(e)
  PROVE  IInv'
<1>1. /\ sess' = [sess EXCEPT ![e.req].state = "active"]
      /\ queue' = Rest(e)
      /\ UNCHANGED <<now, aucs, objs, net, files, up, sent, processes>>
      /\ Handling(e, "CONFIGURE_SESSION")
  BY Zenon DEF HandleConfigureSession
<1>2. e.type = "CONFIGURE_SESSION" /\ e.req \in Requests
  BY <1>1, Handled, EventShape
<1>3. SameSessions(sess, sess') /\ sess' \in [Requests -> SessionType]
  BY <1>1, <1>2, SessionEnters
<1>4. Types'
  BY <1>1, <1>3 DEF IInv, Types, SessionType
<1>5. QueueOK' /\ Covered(queue', aucs', objs') /\ queue' \subseteq queue
  BY <1>1, <1>2, <1>3, OneEventTaken DEF CoverTypes, AuctionLists
<1>6. \A r \in Requests : net'[r] # "idle" => sess[r].start < sess[r].stop
  BY <1>1 DEF IInv, WindowsOK
<1>7. \A o \in DOMAIN objs' : objs'[o].stop > 0
  BY <1>1 DEF IInv, WindowsOK
<1> QED
  BY <1>1, <1>3, <1>4, <1>5, <1>6, <1>7, Quiet

\* A step that leaves auctions, objects and sessions alone.
LEMMA QuieterStill ==
  ASSUME IInv, UNCHANGED <<aucs, objs, sess, files, processes>>,
         now' \in 0 .. MaxTime, up' \in BOOLEAN, sent' \subseteq (DOMAIN objs) \X Requests,
         net' \in [Requests -> {"idle", "asked", "configured", "answered"}],
         \A r \in Requests : net'[r] # "idle" => net[r] # "idle",
         QueueOK', Covered(queue', aucs, objs),
         \A e \in queue' : e.type \in FileTypes => e \in queue
  PROVE  IInv'
<1>1. Types'
  BY DEF IInv, Types, SessionType
<1>2. SameSessions(sess, sess')
  BY DEF SameSessions
<1>3. \A r \in Requests : net'[r] # "idle" => sess[r].start < sess[r].stop
  BY DEF IInv, WindowsOK
<1>4. \A o \in DOMAIN objs' : objs'[o].stop > 0
  BY DEF IInv, WindowsOK
<1> QED
  BY <1>1, <1>2, <1>3, <1>4, Quiet

\* An event that changes no object is handled, and nothing comes of it.
LEMMA TakenQuietly ==
  ASSUME IInv, NEW e \in queue, e.type \notin CoverTypes, queue' = Rest(e),
         UNCHANGED <<now, aucs, objs, sess, net, files, processes>>,
         up' \in BOOLEAN, sent' \subseteq (DOMAIN objs) \X Requests
  PROVE  IInv'
<1>1. QueueOK' /\ Covered(queue', aucs, objs) /\ queue' \subseteq queue
  BY OneEventTaken DEF SameSessions
<1>2. /\ now' \in 0 .. MaxTime
      /\ net' \in [Requests -> {"idle", "asked", "configured", "answered"}]
  BY DEF IInv, Types
<1> QED
  BY <1>1, <1>2, QuieterStill

\* The daemon is lost.
LEMMA UseDeletedKeeps ==
  ASSUME IInv, NEW e \in queue, UseDeletedAuction(e)
  PROVE  IInv'
<1>1. /\ up' = FALSE /\ sent' = sent /\ queue' = Rest(e)
      /\ UNCHANGED <<now, aucs, objs, sess, net, files, processes>>
      /\ Handling(e, "CREATE_SESSION")
  BY Zenon DEF UseDeletedAuction
<1>2. e.type \notin CoverTypes
  BY <1>1, Handled DEF CoverTypes, AuctionLists
<1>3. sent' \subseteq (DOMAIN objs) \X Requests
  BY <1>1 DEF IInv, Types
<1> QED
  BY <1>1, <1>2, <1>3, TakenQuietly

\* Events that are neither lists nor ends of intervals come.
LEMMA PostedQuietly ==
  ASSUME IInv, NEW q \in SUBSET queue, NEW ev, queue' = Enqueue(q, {ev}),
         \A f \in queue : f.type \in CoverTypes => f \in q,
         EventOK(ev, aucs, objs, sess), ev.type \notin FileTypes,
         UNCHANGED <<now, aucs, objs, sess, files, up, sent, processes>>,
         net' \in [Requests -> {"idle", "asked", "configured", "answered"}],
         \A r \in Requests : net'[r] # "idle" => net[r] # "idle"
  PROVE  IInv'
<1> DEFINE S == {ev}
<1>1. IsFiniteSet(S) /\ \A f \in S : EventOK(f, aucs', objs', sess')
  BY FS_Singleton
<1>2. Grown(aucs, aucs') /\ Grown(objs, objs')
  BY DEF Grown
<1>3. /\ QueueOK'
      /\ \A e \in queue' : e \in q \/ \E f \in S : SameEvent(f, e)
      /\ q \subseteq queue'
  <2> HIDE DEF S
  <2>1. queue' = Enqueue(q, S)
    BY DEF S
  <2> QED
    BY <1>1, <1>2, <2>1, PostedQueue DEF IInv
<1>4. \A e \in queue' : e.type \in FileTypes => e \in queue
  BY <1>3 DEF SameEvent
<1>5. Covered(queue', aucs, objs)
  BY <1>3, CoveredKept DEF IInv
<1>6. now' \in 0 .. MaxTime /\ up' \in BOOLEAN /\ sent' \subseteq (DOMAIN objs) \X Requests
  BY DEF IInv, Types
<1> QED
  BY <1>3, <1>4, <1>5, <1>6, QuieterStill

\* The signalling layer tells the name of a session.
LEMMA ConfigureKeeps ==
  ASSUME IInv, NEW r \in Requests, Configure(r)
  PROVE  IInv'
<1> DEFINE ev == [at |-> now, rank |-> 1, type |-> "CONFIGURE_SESSION", req |-> r]
<1>1. /\ net[r] = "asked" /\ net' = [net EXCEPT ![r] = "configured"]
      /\ queue' = Enqueue(queue, {ev})
      /\ UNCHANGED <<now, aucs, objs, sess, files, up, sent, processes>>
  BY Zenon DEF Configure, Post
<1>2. now \in Int
  BY WindowAssumption DEF IInv, Types
<1>3. ev \in [at : Int, rank : Nat, type : IntervalTypes \cup {"CONFIGURE_SESSION"}, req : Requests]
  BY <1>2
<1>4. EventOK(ev, aucs, objs, sess) /\ ev.type \notin FileTypes
  <2>1. ev \in Events(DOMAIN aucs, DOMAIN objs) /\ ev.type = "CONFIGURE_SESSION"
    BY <1>3 DEF Events
  <2> HIDE DEF ev
  <2> QED
    BY <2>1 DEF EventOK, FileTypes, AuctionLists
<1>5. /\ net' \in [Requests -> {"idle", "asked", "configured", "answered"}]
      /\ \A s \in Requests : net'[s] # "idle" => net[s] # "idle"
  BY <1>1 DEF IInv, Types
<1> HIDE DEF ev
<1> QED
  BY <1>1, <1>4, <1>5, PostedQuietly

\* The answer comes; the session has a window since it was made.
LEMMA AnswerKeeps ==
  ASSUME IInv, NEW r \in Requests, NEW list \in Answers, Answer(r, list)
  PROVE  IInv'
<1> DEFINE ev == [at |-> now, rank |-> 1, type |-> "CREATE_SESSION", req |-> r, list |-> list]
<1>1. /\ net[r] = "configured" /\ net' = [net EXCEPT ![r] = "answered"]
      /\ queue' = Enqueue(queue, {ev})
      /\ UNCHANGED <<now, aucs, objs, sess, files, up, sent, processes>>
  BY Zenon DEF Answer, Post
<1>2. now \in Int
  BY WindowAssumption DEF IInv, Types
<1>3. ev \in [at : Int, rank : Nat, type : {"CREATE_SESSION"}, req : Requests, list : Answers]
  BY <1>2
<1>4. EventOK(ev, aucs, objs, sess) /\ ev.type \notin FileTypes
  <2>1. ev \in Events(DOMAIN aucs, DOMAIN objs) /\ ev.type = "CREATE_SESSION" /\ ev.req = r
    BY <1>3 DEF Events
  <2>2. sess[r].start < sess[r].stop
    BY <1>1 DEF IInv, WindowsOK
  <2> HIDE DEF ev
  <2> QED
    BY <2>1, <2>2 DEF EventOK, FileTypes, AuctionLists
<1>5. /\ net' \in [Requests -> {"idle", "asked", "configured", "answered"}]
      /\ \A s \in Requests : net'[s] # "idle" => net[s] # "idle"
  BY <1>1 DEF IInv, Types
<1> HIDE DEF ev
<1> QED
  BY <1>1, <1>4, <1>5, PostedQuietly

\* An allocation comes for a bid that is installed.
LEMMA AllocateKeeps ==
  ASSUME IInv, NEW o \in DOMAIN objs, Allocate(o)
  PROVE  IInv'
<1> DEFINE ev == [at |-> now, rank |-> 1, type |-> "AUCTION_INTERACTION", obj |-> o]
<1>1. /\ queue' = Enqueue(queue, {ev})
      /\ UNCHANGED <<now, aucs, objs, sess, net, files, up, sent, processes>>
  BY Zenon DEF Allocate, Post
<1>2. now \in Int
  BY WindowAssumption DEF IInv, Types
<1>3. ev \in [at : Int, rank : Nat, type : {"AUCTION_INTERACTION"}, obj : DOMAIN objs]
  BY <1>2
<1>4. EventOK(ev, aucs, objs, sess) /\ ev.type \notin FileTypes
  <2>1. ev \in Events(DOMAIN aucs, DOMAIN objs) /\ ev.type = "AUCTION_INTERACTION"
    BY <1>3 DEF Events
  <2> HIDE DEF ev
  <2> QED
    BY <2>1 DEF EventOK, FileTypes, AuctionLists
<1>5. /\ net' \in [Requests -> {"idle", "asked", "configured", "answered"}]
      /\ \A s \in Requests : net'[s] # "idle" => net[s] # "idle"
  BY <1>1 DEF IInv, Types
<1> HIDE DEF ev
<1> QED
  BY <1>1, <1>4, <1>5, PostedQuietly

\* Time passes.
LEMMA TickKeeps ==
  ASSUME IInv, Tick
  PROVE  IInv'
<1>1. now' \in 0 .. MaxTime
  BY WindowAssumption DEF Tick, IInv, Types
<1>2. UNCHANGED <<queue, aucs, objs, sess, net, files, up, sent, processes>>
  BY Zenon DEF Tick
<1>3. QueueOK' /\ Covered(queue', aucs, objs)
  BY <1>2 DEF IInv, QueueOK
<1>4. /\ up' \in BOOLEAN /\ sent' \subseteq (DOMAIN objs) \X Requests
      /\ net' \in [Requests -> {"idle", "asked", "configured", "answered"}]
  BY <1>2 DEF IInv, Types
<1> QED
  BY <1>1, <1>2, <1>3, <1>4, QuieterStill

\* The bids of an execution are a sequence.
LEMMA ArrangementsAreSeqs ==
  ASSUME NEW S, IsFiniteSet(S), S # {}, NEW f \in Arrangements(S)
  PROVE  f \in Seq(S) /\ f # <<>>
<1>1. Cardinality(S) \in Nat /\ Cardinality(S) # 0
  BY FS_CardinalityType, FS_EmptySet
<1>2. f \in [1 .. Cardinality(S) -> S]
  BY DEF Arrangements
<1>3. f \in Seq(S) /\ Len(f) = Cardinality(S)
  BY <1>1, <1>2, FunctionIsSeq
<1> QED
  BY <1>1, <1>3, EmptySeq

\* The bids that an execution makes have types and an end.
LEMMA BidsMade ==
  ASSUME IInv, NEW index \in DOMAIN requests, NEW order \in Arrangements(requests[index].aucs),
         NEW allocs, allocs = [k \in DOMAIN order |-> Bid(index, order[k])]
  PROVE  allocs \in Seq(Generated) /\ allocs # <<>>
         /\ \A k \in DOMAIN allocs : allocs[k].stop > 0
<1> DEFINE r == requests[index].req
           S == requests[index].aucs
<1>1. /\ r \in Requests /\ S \subseteq Auctions /\ S # {}
      /\ IsFiniteSet(S) /\ sess[r].end > 0
  BY DEF IInv, ProcessesInv, ProcessesTypeOK, ProcessesHaveAuctions, Process, WindowsOK
<1>2. sess[r].start \in Nat /\ sess[r].end \in Nat
  BY <1>1 DEF IInv, Types, SessionType
<1>3. order \in Seq(S) /\ order # <<>>
  <2> HIDE DEF S
  <2>1. order \in Arrangements(S)
    BY DEF S
  <2> QED
    BY <1>1, <2>1, ArrangementsAreSeqs
<1>4. \A k \in DOMAIN order : order[k] \in Auctions
  BY <1>1, <1>3, ElementOfSeq, LenProperties
<1>5. \A k \in DOMAIN order : /\ Bid(index, order[k]) \in Generated
                             /\ Bid(index, order[k]).stop > 0
  BY <1>1, <1>2, <1>4 DEF Bid, Generated, ObjectType
<1>6. allocs \in Seq(Generated) /\ DOMAIN allocs = DOMAIN order
  BY <1>3, <1>5, Mapped
<1>7. allocs # <<>>
  BY <1>3, <1>6, EmptySeq, LenProperties
<1> QED
  BY <1>5, <1>6, <1>7

\* An execution posts its bids.
LEMMA PushExecutionKeeps ==
  ASSUME IInv, NEW e \in queue, HandlePushExecution(e)
  PROVE  IInv'
<1>1. /\ Handling(e, "PUSH_EXECUTION")
      /\ UNCHANGED <<now, aucs, objs, sess, net, files, up, sent, processes>>
  BY Zenon DEF HandlePushExecution
<1>2. e.type = "PUSH_EXECUTION" /\ e.index \in Numbers /\ e.type \notin CoverTypes
  BY <1>1, Handled, EventShape DEF CoverTypes, AuctionLists
<1>3. CASE e.index \notin DOMAIN requests
  <2>1. queue' = Rest(e)
    BY <1>3 DEF HandlePushExecution
  <2>2. up' \in BOOLEAN /\ sent' \subseteq (DOMAIN objs) \X Requests
    BY <1>1 DEF IInv, Types
  <2> QED
    BY <1>1, <1>2, <2>1, <2>2, TakenQuietly
<1>4. CASE e.index \in DOMAIN requests
  <2> DEFINE made(order) == [at |-> now, rank |-> 1, type |-> "ADD_GENERATED_BIDDING_OBJECTS",
                             index |-> e.index,
                             allocs |-> [k \in DOMAIN order |-> Bid(e.index, order[k])]]
  <2>1. PICK order \in Arrangements(requests[e.index].aucs) :
          queue' = Enqueue(Rest(e), {made(order)})
    BY <1>4 DEF HandlePushExecution
  <2> DEFINE allocs == [k \in DOMAIN order |-> Bid(e.index, order[k])]
             ev == made(order)
  <2>2. /\ allocs \in Seq(Generated) /\ allocs # <<>>
        /\ \A k \in DOMAIN allocs : allocs[k].stop > 0
    BY <1>4, BidsMade
  <2>3. now \in Int
    BY WindowAssumption DEF IInv, Types
  <2> HIDE DEF allocs
  <2>4. ev \in [at : Int, rank : Nat, type : {"ADD_GENERATED_BIDDING_OBJECTS"}, index : Numbers,
                allocs : Seq(Generated) \ {<<>>}]
    BY <1>2, <2>2, <2>3 DEF allocs
  <2>5. EventOK(ev, aucs, objs, sess) /\ ev.type \notin FileTypes
    <3>1. /\ ev \in Events(DOMAIN aucs, DOMAIN objs) /\ ev.allocs = allocs
          /\ ev.type = "ADD_GENERATED_BIDDING_OBJECTS"
      BY <2>4 DEF Events, allocs
    <3> HIDE DEF ev
    <3> QED
      BY <2>2, <3>1 DEF EventOK, FileTypes, AuctionLists
  <2>6. Rest(e) \in SUBSET queue /\ \A f \in queue : f.type \in CoverTypes => f \in Rest(e)
    BY <1>2 DEF Rest
  <2>7. /\ net' \in [Requests -> {"idle", "asked", "configured", "answered"}]
        /\ \A s \in Requests : net'[s] # "idle" => net[s] # "idle"
    BY <1>1 DEF IInv, Types
  <2>8. queue' = Enqueue(Rest(e), {ev})
    BY <2>1
  <2> HIDE DEF ev
  <2> QED
    BY <1>1, <2>5, <2>6, <2>7, <2>8, PostedQuietly
<1> QED
  BY <1>3, <1>4

\* What is transmitted is installed.
LEMMA TransmitKeeps ==
  ASSUME IInv, NEW e \in queue, HandleTransmitBiddingObjects(e)
  PROVE  IInv'
<1> DEFINE reached == {o \in e.objs : \A p \in e.objs : p <= o => objs[p].auc \in present}
<1>1. /\ Handling(e, "TRANSMIT_BIDDING_OBJECTS") /\ queue' = Rest(e)
      /\ UNCHANGED <<now, aucs, objs, sess, net, files, processes>>
  BY Zenon DEF HandleTransmitBiddingObjects
<1>2. e.type = "TRANSMIT_BIDDING_OBJECTS" /\ e.objs \subseteq DOMAIN objs
      /\ e.type \notin CoverTypes
  BY <1>1, Handled, EventShape DEF CoverTypes, AuctionLists, BidLists
<1>3. up' \in BOOLEAN /\ sent' \subseteq (DOMAIN objs) \X Requests
  <2>1. CASE e.index \in DOMAIN requests
    <3>1. up' = (reached = e.objs) /\ sent' = sent \cup (reached \X {requests[e.index].req})
      BY <2>1, Zenon DEF HandleTransmitBiddingObjects
    <3>2. requests[e.index].req \in Requests
      BY <2>1 DEF IInv, ProcessesInv, ProcessesTypeOK, Process
    <3>3. reached \subseteq DOMAIN objs
      BY <1>2
    <3> HIDE DEF reached
    <3>4. up' \in BOOLEAN
      BY <3>1, Zenon
    <3> QED
      BY <3>1, <3>2, <3>3, <3>4 DEF IInv, Types
  <2>2. CASE e.index \notin DOMAIN requests
    <3>1. up' = up /\ sent' = sent
      BY <2>2, Zenon DEF HandleTransmitBiddingObjects
    <3> QED
      BY <3>1 DEF IInv, Types
  <2> QED
    BY <2>1, <2>2
<1> QED
  BY <1>1, <1>2, <1>3, TakenQuietly

-----------------------------------------------------------------------------
(***************************************************************************)
(* The handlers of objects.                                                *)
(***************************************************************************)

\* What delBiddingObjectEvents makes of an event: lists without the objects of S,
\* and perhaps one bid less among those that are not installed.
Stripped(f, e, S) ==
  /\ e.type = f.type
  /\ f.type \in BidLists => e.objs = f.objs \ S
  /\ f.type = "ADD_GENERATED_BIDDING_OBJECTS" => e.allocs \in {f.allocs, Tail(f.allocs)}
  /\ f.type \notin BidLists \cup {"ADD_GENERATED_BIDDING_OBJECTS"} => e = f

\* delBiddingObjectEvents leaves events, and takes none whose list has other objects.
LEMMA DelBiddingObjectEventsMembers ==
  ASSUME NEW A, NEW O, NEW q, NEW S, NEW First, q \subseteq Events(A, O), IsFiniteSet(q)
  PROVE  LET D == DelBiddingObjectEvents(q, S, First)
         IN  /\ IsFiniteSet(D)
             /\ \A e \in D : e \in Events(A, O) /\ \E f \in q : Stripped(f, e, S)
             /\ \A f \in q : f.type # "ADD_GENERATED_BIDDING_OBJECTS" =>
                  \/ f.type \in BidLists /\ f.objs \subseteq S
                  \/ \E e \in D : Stripped(f, e, S)
<1> DEFINE Matches(e) == e.type = "ADD_GENERATED_BIDDING_OBJECTS" /\ First \in S
           Gone(e) == \/ e.type \in BidLists /\ e.objs \subseteq S
                      \/ Matches(e) /\ Len(e.allocs) = 1
           Strip(e) == IF e.type \in BidLists THEN [e EXCEPT !.objs = @ \ S]
                       ELSE IF Matches(e) THEN [e EXCEPT !.allocs = Tail(@)]
                       ELSE e
           kept == {f \in q : ~Gone(f)}
           D == DelBiddingObjectEvents(q, S, First)
<1>1. D = {Strip(f) : f \in kept}
  BY DEF DelBiddingObjectEvents
<1>2. ASSUME NEW f \in kept
      PROVE  Strip(f) \in Events(A, O) /\ Stripped(f, Strip(f), S)
  <2>0. f \in Events(A, O)
    OBVIOUS
  <2>1. CASE f.type \in BidLists
    <3>0. ~(f.objs \subseteq S)
      BY <2>1
    <3>1. f.objs \ S \in ListOf(O)
      BY <2>0, <2>1, <3>0, EventShape DEF ListOf
    <3>2. Strip(f) = [f EXCEPT !.objs = f.objs \ S]
      BY <2>1
    <3> DEFINE l == f.objs \ S
    <3> HIDE DEF l
    <3>3. \/ f \in [at : Int, rank : Nat, objs : ListOf(O),
                    type : {"ACTIVATE_BIDDING_OBJECTS", "REMOVE_BIDDING_OBJECTS"}]
          \/ f \in [at : Int, rank : Nat, type : {"TRANSMIT_BIDDING_OBJECTS"}, index : Numbers,
                    objs : ListOf(O)]
      BY <2>0, <2>1 DEF Events, BidLists, AuctionLists, IntervalTypes
    <3>4. [f EXCEPT !.objs = l] \in Events(A, O) /\ [f EXCEPT !.objs = l].type = f.type
          /\ [f EXCEPT !.objs = l].objs = l
      BY <3>1, <3>3 DEF Events, l
    <3> QED
      BY <2>1, <3>2, <3>4 DEF Stripped, l, BidLists
  <2>2. CASE f.type = "ADD_GENERATED_BIDDING_OBJECTS" /\ First \in S
    <3>1. f \in [at : Int, rank : Nat, type : {"ADD_GENERATED_BIDDING_OBJECTS"}, index : Numbers,
                 allocs : Seq(Generated) \ {<<>>}]
      BY <2>0, <2>2 DEF Events, BidLists, AuctionLists, IntervalTypes
    <3>2. Len(f.allocs) # 1 /\ f.allocs \in Seq(Generated) /\ f.allocs # <<>>
      BY <2>2, <3>1
    <3>3. Tail(f.allocs) \in Seq(Generated) /\ Tail(f.allocs) # <<>>
      <4>1. Tail(f.allocs) \in Seq(Generated) /\ Len(Tail(f.allocs)) = Len(f.allocs) - 1
        BY <3>2
      <4>2. Len(f.allocs) \in Nat /\ Len(f.allocs) # 0
        BY <3>2, EmptySeq, LenProperties
      <4>3. Len(Tail(f.allocs)) # 0
        BY <3>2, <4>1, <4>2
      <4>4. Len(<<>>) = 0
        OBVIOUS
      <4>5. Tail(f.allocs) # <<>>
        BY <4>3, <4>4, Zenon
      <4> QED
        BY <4>1, <4>5
    <3>4. Strip(f) = [f EXCEPT !.allocs = Tail(f.allocs)]
      BY <2>2 DEF BidLists
    <3> DEFINE l == Tail(f.allocs)
    <3> HIDE DEF l
    <3>5. [f EXCEPT !.allocs = l] \in Events(A, O) /\ [f EXCEPT !.allocs = l].type = f.type
          /\ [f EXCEPT !.allocs = l].allocs = l
      BY <3>1, <3>3 DEF Events, l
    <3> QED
      BY <2>2, <3>4, <3>5 DEF Stripped, l, BidLists
  <2>3. CASE f.type \notin BidLists /\ ~(f.type = "ADD_GENERATED_BIDDING_OBJECTS" /\ First \in S)
    <3>1. Strip(f) = f
      BY <2>3
    <3> QED
      BY <2>0, <2>3, <3>1 DEF Stripped
  <2> QED
    BY <2>1, <2>2, <2>3
<1>3. IsFiniteSet(D)
  <2> DEFINE g == [f \in kept |-> Strip(f)]
  <2>1. IsFiniteSet(kept)
    BY FS_Subset
  <2>2. DOMAIN g = kept /\ g = [f \in kept |-> g[f]] /\ D = {g[f] : f \in kept}
    BY <1>1
  <2> HIDE DEF g, kept, D
  <2> QED
    BY <2>1, <2>2, FiniteImage
<1>4. \A f \in q : f.type # "ADD_GENERATED_BIDDING_OBJECTS" =>
        (f.type \in BidLists /\ f.objs \subseteq S) \/ f \in kept
  OBVIOUS
<1> HIDE DEF Strip, kept, D
<1>5. \A f \in q : f \in kept => \E e \in D : Stripped(f, e, S)
  BY <1>1, <1>2
<1>6. \A e \in D : e \in Events(A, O) /\ \E f \in q : Stripped(f, e, S)
  <2>1. kept \subseteq q
    BY DEF kept
  <2> QED
    BY <1>1, <1>2, <2>1
<1> QED
  BY <1>3, <1>4, <1>5, <1>6 DEF D

\* What Quiet asks of a step that changes the states of objects.
LEMMA ObjectsEnter ==
  ASSUME IInv, NEW S, NEW state \in {"active", "done"},
         objs' = Entering(objs, S, state),
         UNCHANGED <<now, aucs, sess, net, files, up, sent, processes>>,
         QueueOK', Covered(queue', aucs', objs'),
         \A e \in queue' : e.type \in FileTypes => e \in queue
  PROVE  IInv'
<1>1. /\ objs' \in Seq(Bids) /\ DOMAIN objs' = DOMAIN objs
      /\ \A o \in DOMAIN objs : objs'[o].stop = objs[o].stop
  BY EnteringObjects DEF IInv, Types
<1>2. Types'
  BY <1>1 DEF IInv, Types, SessionType
<1>3. SameSessions(sess, sess')
  BY DEF SameSessions
<1>4. \A r \in Requests : net'[r] # "idle" => sess[r].start < sess[r].stop
  BY DEF IInv, WindowsOK
<1>5. \A o \in DOMAIN objs' : objs'[o].stop > 0
  BY <1>1 DEF IInv, WindowsOK
<1> QED
  BY <1>2, <1>3, <1>4, <1>5, Quiet

\* Objects begin; their list had none that is done.
LEMMA ActivateBiddingObjectsKeeps ==
  ASSUME IInv, NEW e \in queue, HandleActivateBiddingObjects(e)
  PROVE  IInv'
<1>1. /\ Handling(e, "ACTIVATE_BIDDING_OBJECTS") /\ queue' = Rest(e)
      /\ objs' = Entering(objs, e.objs, "active")
      /\ UNCHANGED <<now, aucs, sess, net, files, up, sent, processes>>
  BY Zenon DEF HandleActivateBiddingObjects
<1>2. /\ e.type = "ACTIVATE_BIDDING_OBJECTS"
      /\ \A o \in e.objs : objs[o].state # "done"
  BY <1>1, Handled DEF EventOK
<1>3. /\ DOMAIN objs' = DOMAIN objs
      /\ \A o \in DOMAIN objs :
           /\ o \in e.objs => objs'[o].state = "active"
           /\ o \notin e.objs => objs'[o] = objs[o]
  BY <1>1, EnteringObjects DEF IInv, Types
<1>4. queue' \subseteq queue /\ \A f \in queue : f = e \/ f \in queue'
  BY <1>1 DEF Rest
<1>5. QueueOK'
  <2>1. Grown(objs, objs') /\ Grown(aucs, aucs')
    BY <1>1, <1>3 DEF Grown
  <2> QED
    BY <1>1, <1>4, <2>1, DroppedQueue DEF IInv
<1>6. Covered(queue', aucs', objs')
  <2>1. ASSUME NEW i \in DOMAIN aucs, aucs[i].state # "done"
        PROVE  \E f \in queue' : f.type = "REMOVE_AUCTIONS" /\ i \in f.objs
    BY <1>2, <1>4, <2>1 DEF IInv, Covered
  <2>2. ASSUME NEW o \in DOMAIN objs, objs'[o].state = "valid"
        PROVE  \E f \in queue' : f.type = "ACTIVATE_BIDDING_OBJECTS" /\ o \in f.objs
    <3>1. o \notin e.objs /\ objs[o].state = "valid"
      BY <1>3, <2>2
    <3>2. PICK f \in queue : f.type = "ACTIVATE_BIDDING_OBJECTS" /\ o \in f.objs
      BY <3>1 DEF IInv, Covered
    <3> QED
      BY <1>4, <3>1, <3>2
  <2>3. ASSUME NEW o \in DOMAIN objs, objs'[o].state # "done"
        PROVE  \E f \in queue' : f.type = "REMOVE_BIDDING_OBJECTS" /\ o \in f.objs
    <3>1. objs[o].state # "done"
      BY <1>2, <1>3, <2>3
    <3>2. PICK f \in queue : f.type = "REMOVE_BIDDING_OBJECTS" /\ o \in f.objs
      BY <3>1 DEF IInv, Covered
    <3> QED
      BY <1>2, <1>4, <3>2
  <2> QED
    BY <1>1, <1>3, <2>1, <2>2, <2>3 DEF Covered
<1> QED
  BY <1>1, <1>4, <1>5, <1>6, ObjectsEnter

\* Objects end and leave the lists; those of the others stay.
LEMMA RemoveBiddingObjectsKeeps ==
  ASSUME IInv, NEW e \in queue, HandleRemoveBiddingObjects(e)
  PROVE  IInv'
<1> DEFINE S == e.objs
           A == DOMAIN aucs
           O == DOMAIN objs
<1>1. /\ Handling(e, "REMOVE_BIDDING_OBJECTS")
      /\ queue' = DelBiddingObjectEvents(Rest(e), S, 1)
      /\ objs' = Entering(objs, S, "done")
      /\ UNCHANGED <<now, aucs, sess, net, files, up, sent, processes>>
  BY Zenon DEF HandleRemoveBiddingObjects
<1>2. e.type = "REMOVE_BIDDING_OBJECTS"
  BY <1>1, Handled
<1>3. /\ DOMAIN objs' = O
      /\ \A o \in O : /\ o \in S => objs'[o].state = "done"
                      /\ o \notin S => objs'[o] = objs[o]
  BY <1>1, EnteringObjects DEF IInv, Types
<1>4. /\ IsFiniteSet(Rest(e)) /\ Rest(e) \subseteq queue
      /\ \A f \in Rest(e) : EventOK(f, aucs, objs, sess)
      /\ Rest(e) \subseteq Events(A, O)
  BY RestOK DEF IInv, EventOK
<1> HIDE DEF S, A, O
<1>5. /\ IsFiniteSet(queue')
      /\ \A g \in queue' : g \in Events(A, O) /\ \E f \in Rest(e) : Stripped(f, g, S)
      /\ \A f \in Rest(e) : f.type # "ADD_GENERATED_BIDDING_OBJECTS" =>
           \/ f.type \in BidLists /\ f.objs \subseteq S
           \/ \E g \in queue' : Stripped(f, g, S)
  BY <1>1, <1>4, DelBiddingObjectEventsMembers
<1>6. ASSUME NEW g \in queue' PROVE EventOK(g, aucs, objs', sess)
  <2>1. PICK f \in Rest(e) : Stripped(f, g, S)
    BY <1>5
  <2>2. EventOK(f, aucs, objs, sess) /\ f \in Events(A, O) /\ g \in Events(A, O)
    BY <1>4, <1>5
  <2>3. CASE g.type = "ACTIVATE_BIDDING_OBJECTS"
    <3>1. g.objs = f.objs \ S /\ f.type = g.type /\ g.objs \subseteq O
      BY <2>1, <2>2, <2>3, EventShape DEF Stripped, BidLists
    <3>2. \A o \in g.objs : objs'[o].state # "done"
      BY <1>3, <2>2, <2>3, <3>1 DEF EventOK, O
    <3> QED
      BY <1>3, <2>2, <2>3, <3>2 DEF EventOK, A, O, AuctionLists
  <2>4. CASE g.type = "ADD_GENERATED_BIDDING_OBJECTS"
    <3>1. /\ g.allocs \in {f.allocs, Tail(f.allocs)} /\ f.type = g.type
          /\ f.allocs \in Seq(Generated) /\ f.allocs # <<>>
      BY <2>1, <2>2, <2>4, EventShape DEF Stripped
    <3>2. \A k \in DOMAIN f.allocs : f.allocs[k].stop > 0
      BY <2>2, <2>4, <3>1 DEF EventOK
    <3>3. \A k \in DOMAIN g.allocs : g.allocs[k].stop > 0
      <4>1. CASE g.allocs = f.allocs
        BY <3>2, <4>1
      <4>2. CASE g.allocs = Tail(f.allocs)
        <5>1. \A k \in DOMAIN Tail(f.allocs) :
                k + 1 \in DOMAIN f.allocs /\ Tail(f.allocs)[k] = f.allocs[k + 1]
          BY <3>1
        <5> QED
          BY <3>2, <4>2, <5>1
      <4> QED
        BY <3>1, <4>1, <4>2
    <3> QED
      BY <1>3, <2>2, <2>4, <3>3 DEF EventOK, A, O, AuctionLists
  <2>5. CASE g.type \notin {"ACTIVATE_BIDDING_OBJECTS", "ADD_GENERATED_BIDDING_OBJECTS"}
    <3>1. CASE g.type \in BidLists
      BY <1>3, <2>2, <2>5, <3>1 DEF EventOK, A, O, AuctionLists, BidLists
    <3>2. CASE g.type \notin BidLists
      <4>1. g = f
        BY <2>1, <2>5, <3>2 DEF Stripped
      <4> QED
        BY <1>3, <2>2, <2>5, <4>1 DEF EventOK, A, O
    <3> QED
      BY <3>1, <3>2
  <2> QED
    BY <2>3, <2>4, <2>5
<1>7. QueueOK'
  BY <1>1, <1>5, <1>6 DEF QueueOK
<1>8. \A g \in queue' : g.type \in FileTypes => g \in queue
  BY <1>4, <1>5 DEF FileTypes, Stripped, BidLists
<1>9. Covered(queue', aucs', objs')
  <2>1. ASSUME NEW i \in DOMAIN aucs, aucs[i].state # "done"
        PROVE  \E g \in queue' : g.type = "REMOVE_AUCTIONS" /\ i \in g.objs
    <3>1. PICK f \in queue : f.type = "REMOVE_AUCTIONS" /\ i \in f.objs
      BY <2>1 DEF IInv, Covered
    <3>2. f \in Rest(e) /\ f.type \notin BidLists
      BY <1>2, <3>1 DEF Rest, BidLists
    <3>3. PICK g \in queue' : Stripped(f, g, S)
      BY <1>5, <3>1, <3>2
    <3>4. g = f
      BY <3>1, <3>2, <3>3 DEF Stripped
    <3> QED
      BY <3>1, <3>3, <3>4
  <2>2. ASSUME NEW o \in O, o \notin S, NEW f \in queue, f.type \in BidLists, o \in f.objs
        PROVE  \E g \in queue' : g.type = f.type /\ o \in g.objs
    <3>1. f \in Rest(e)
      BY <2>2 DEF Rest, S
    <3>2. PICK g \in queue' : Stripped(f, g, S)
      BY <1>5, <2>2, <3>1 DEF BidLists
    <3>3. g.type = f.type /\ g.objs = f.objs \ S
      BY <2>2, <3>2 DEF Stripped
    <3> QED
      BY <2>2, <3>3
  <2>3. ASSUME NEW o \in O, objs'[o].state = "valid"
        PROVE  \E g \in queue' : g.type = "ACTIVATE_BIDDING_OBJECTS" /\ o \in g.objs
    <3>1. o \notin S /\ objs[o].state = "valid"
      BY <1>3, <2>3
    <3>2. PICK f \in queue : f.type = "ACTIVATE_BIDDING_OBJECTS" /\ o \in f.objs
      BY <3>1 DEF IInv, Covered, O
    <3> QED
      BY <2>2, <3>1, <3>2 DEF BidLists
  <2>4. ASSUME NEW o \in O, objs'[o].state # "done"
        PROVE  \E g \in queue' : g.type = "REMOVE_BIDDING_OBJECTS" /\ o \in g.objs
    <3>1. o \notin S /\ objs[o].state # "done"
      BY <1>3, <2>4
    <3>2. PICK f \in queue : f.type = "REMOVE_BIDDING_OBJECTS" /\ o \in f.objs
      BY <3>1 DEF IInv, Covered, O
    <3> QED
      BY <2>2, <3>1, <3>2 DEF BidLists
  <2> QED
    BY <1>1, <1>3, <2>1, <2>3, <2>4 DEF Covered, O
<1> QED
  BY <1>1, <1>7, <1>8, <1>9, ObjectsEnter

\* Events for new objects, whose numbers follow base: finitely many, each of a list of
\* new numbers, and one of each kind for every number.
ListsOf(events, new, base, activate, remove) ==
  /\ IsFiniteSet(events)
  /\ \A f \in events :
       \E t \in Int, rank \in Nat, type \in {activate, remove},
          ids \in ListOf({base + k : k \in DOMAIN new}) :
         f = [at |-> t, rank |-> rank, type |-> type, objs |-> ids]
  /\ \A k \in DOMAIN new : \E f \in events : f.type = activate /\ base + k \in f.objs
  /\ \A k \in DOMAIN new :
       new[k].stop # 0 => \E f \in events : f.type = remove /\ base + k \in f.objs

\* Such are the events that a manager schedules for what it installs.
LEMMA Scheduled ==
  ASSUME NEW new, NEW base \in Nat, IsFiniteSet(DOMAIN new), now \in Int,
         \A k \in DOMAIN new : new[k].start \in Int /\ new[k].stop \in Int,
         NEW activate, NEW remove
  PROVE  ListsOf(Schedule(new, base, activate, remove), new, base, activate, remove)
<1> DEFINE Starts == {new[k].start : k \in DOMAIN new}
           Stops == {new[k].stop : k \in DOMAIN new}
           begin(t) == [at |-> At(now, t), rank |-> 1, type |-> activate,
                        objs |-> With(new, base, "start", t)]
           end(t) == [at |-> At(now, t), rank |-> 2, type |-> remove,
                      objs |-> With(new, base, "stop", t)]
           Begins == {begin(t) : t \in Starts}
           Ends == {end(t) : t \in Stops \ {0}}
           numbers == {base + k : k \in DOMAIN new}
<1>1. Schedule(new, base, activate, remove) = Begins \cup Ends
  BY DEF Schedule
<1>2. \A t \in Starts : With(new, base, "start", t) \in ListOf(numbers)
  <2> SUFFICES ASSUME NEW k \in DOMAIN new
               PROVE  With(new, base, "start", new[k].start) \in ListOf(numbers)
    OBVIOUS
  <2>1. base + k \in With(new, base, "start", new[k].start)
    BY DEF With
  <2>2. With(new, base, "start", new[k].start) \subseteq numbers
    BY DEF With
  <2> QED
    BY <2>1, <2>2 DEF ListOf
<1>3. \A t \in Stops : With(new, base, "stop", t) \in ListOf(numbers)
  <2> SUFFICES ASSUME NEW k \in DOMAIN new
               PROVE  With(new, base, "stop", new[k].stop) \in ListOf(numbers)
    OBVIOUS
  <2>1. base + k \in With(new, base, "stop", new[k].stop)
    BY DEF With
  <2>2. With(new, base, "stop", new[k].stop) \subseteq numbers
    BY DEF With
  <2> QED
    BY <2>1, <2>2 DEF ListOf
<1>4. \A t \in Starts \cup Stops : At(now, t) \in Int
  BY TimesInt
<1>5. \A f \in Begins \cup Ends :
        \E t \in Int, rank \in Nat, type \in {activate, remove}, ids \in ListOf(numbers) :
          f = [at |-> t, rank |-> rank, type |-> type, objs |-> ids]
  <2>1. ASSUME NEW t \in Starts
        PROVE  \E u \in Int, rank \in Nat, type \in {activate, remove}, ids \in ListOf(numbers) :
                 begin(t) = [at |-> u, rank |-> rank, type |-> type, objs |-> ids]
    BY <1>2, <1>4
  <2>2. ASSUME NEW t \in Stops
        PROVE  \E u \in Int, rank \in Nat, type \in {activate, remove}, ids \in ListOf(numbers) :
                 end(t) = [at |-> u, rank |-> rank, type |-> type, objs |-> ids]
    BY <1>3, <1>4
  <2> HIDE DEF begin, end, Starts, Stops, numbers
  <2> QED
    BY <2>1, <2>2
<1>6. ASSUME NEW k \in DOMAIN new
      PROVE  \E f \in Begins : f.type = activate /\ base + k \in f.objs
  <2>1. begin(new[k].start) \in Begins
    OBVIOUS
  <2>2. begin(new[k].start).type = activate /\ base + k \in begin(new[k].start).objs
    BY DEF With
  <2> HIDE DEF begin, Begins
  <2> QED
    BY <2>1, <2>2
<1>7. ASSUME NEW k \in DOMAIN new, new[k].stop # 0
      PROVE  \E f \in Ends : f.type = remove /\ base + k \in f.objs
  <2>1. end(new[k].stop) \in Ends
    BY <1>7
  <2>2. end(new[k].stop).type = remove /\ base + k \in end(new[k].stop).objs
    BY DEF With
  <2> HIDE DEF end, Ends
  <2> QED
    BY <2>1, <2>2
<1>8. IsFiniteSet(Begins \cup Ends)
  <2>1. IsFiniteSet(Starts)
    <3> DEFINE g == [k \in DOMAIN new |-> new[k].start]
    <3>1. DOMAIN g = DOMAIN new /\ g = [k \in DOMAIN new |-> g[k]]
          /\ Starts = {g[k] : k \in DOMAIN new}
      OBVIOUS
    <3> HIDE DEF g, Starts
    <3> QED
      BY <3>1, FiniteImage
  <2>2. IsFiniteSet(Stops \ {0})
    <3> DEFINE g == [k \in DOMAIN new |-> new[k].stop]
    <3>1. DOMAIN g = DOMAIN new /\ g = [k \in DOMAIN new |-> g[k]]
          /\ Stops = {g[k] : k \in DOMAIN new}
      OBVIOUS
    <3> HIDE DEF g, Stops
    <3>2. IsFiniteSet(Stops)
      BY <3>1, FiniteImage
    <3> QED
      BY <3>2, FS_RemoveElement
  <2>3. IsFiniteSet(Begins)
    <3> DEFINE g == [t \in Starts |-> begin(t)]
    <3>1. DOMAIN g = Starts /\ g = [t \in Starts |-> g[t]] /\ Begins = {g[t] : t \in Starts}
      OBVIOUS
    <3> HIDE DEF g, Starts, Begins
    <3> QED
      BY <2>1, <3>1, FiniteImage
  <2>4. IsFiniteSet(Ends)
    <3> DEFINE N == Stops \ {0}
               g == [t \in N |-> end(t)]
    <3>1. DOMAIN g = N /\ g = [t \in N |-> g[t]] /\ Ends = {g[t] : t \in N}
      OBVIOUS
    <3>2. IsFiniteSet(N)
      BY <2>2
    <3> HIDE DEF g, N, Ends
    <3> QED
      BY <3>1, <3>2, FiniteImage
  <2> HIDE DEF Begins, Ends
  <2> QED
    BY <2>3, <2>4, FS_Union
<1> HIDE DEF Begins, Ends, numbers
<1> QED
  BY <1>1, <1>5, <1>6, <1>7, <1>8 DEF ListsOf, numbers

\* Objects are installed: their lists come, and no other list goes.
LEMMA InstalledKeeps ==
  ASSUME IInv, NEW e \in queue, e.type \notin CoverTypes,
         NEW new \in Seq(Bids), \A k \in DOMAIN new : new[k].stop > 0 /\ new[k].state = "valid",
         NEW more, IsFiniteSet(more),
         \A f \in more : EventOK(f, aucs, objs', sess) /\ f.type \notin FileTypes,
         objs' = objs \o new,
         queue' = Enqueue(Rest(e), ScheduleObjects(new, Len(objs)) \cup more),
         UNCHANGED <<now, aucs, sess, net, files, up, sent, processes>>
  PROVE  IInv'
<1> DEFINE base == Len(objs)
           own == ScheduleObjects(new, base)
           numbers == {base + k : k \in DOMAIN new}
<1>1. objs \in Seq(Bids) /\ now \in Int /\ base \in Nat
  BY WindowAssumption, LenProperties DEF IInv, Types
<1>2. /\ objs' \in Seq(Bids) /\ DOMAIN objs \subseteq DOMAIN objs'
      /\ \A k \in DOMAIN new : base + k \in DOMAIN objs'
      /\ \A o \in DOMAIN objs : objs'[o] = objs[o]
      /\ \A k \in DOMAIN new : objs'[base + k] = new[k]
      /\ \A o \in DOMAIN objs' : o \in DOMAIN objs \/ \E k \in DOMAIN new : o = base + k
  BY <1>1, Appended, SMTT(30)
<1>3. /\ IsFiniteSet(DOMAIN new)
      /\ \A k \in DOMAIN new : new[k].start \in Int /\ new[k].stop \in Int /\ new[k].stop # 0
  <2>1. \A k \in DOMAIN new : new[k] \in Bids
    BY ElementOfSeq, LenProperties
  <2>3. IsFiniteSet(DOMAIN new)
    BY FinitePositions
  <2>4. \A k \in DOMAIN new : new[k].start \in Nat /\ new[k].stop \in Nat /\ new[k].stop # 0
    BY <2>1 DEF Bids, ObjectType
  <2> QED
    BY <2>3, <2>4
<1>4. /\ IsFiniteSet(own)
      /\ \A f \in own :
           \E t \in Int, rank \in Nat,
              type \in {"ACTIVATE_BIDDING_OBJECTS", "REMOVE_BIDDING_OBJECTS"},
              ids \in ListOf(numbers) :
             f = [at |-> t, rank |-> rank, type |-> type, objs |-> ids]
      /\ \A k \in DOMAIN new :
           \E f \in own : f.type = "ACTIVATE_BIDDING_OBJECTS" /\ base + k \in f.objs
      /\ \A k \in DOMAIN new :
           \E f \in own : f.type = "REMOVE_BIDDING_OBJECTS" /\ base + k \in f.objs
  <2>1. own = Schedule(new, base, "ACTIVATE_BIDDING_OBJECTS", "REMOVE_BIDDING_OBJECTS")
    BY DEF ScheduleObjects
  <2> HIDE DEF base, own
  <2>2. ListsOf(own, new, base, "ACTIVATE_BIDDING_OBJECTS", "REMOVE_BIDDING_OBJECTS")
    BY <1>1, <1>3, <2>1, Scheduled
  <2> QED
    BY <1>3, <2>2 DEF ListsOf
<1> HIDE DEF base, own
<1>5. \A o \in numbers : o \in DOMAIN objs' /\ objs'[o].state = "valid"
  BY <1>2
<1>6. ASSUME NEW f \in own
      PROVE  EventOK(f, aucs, objs', sess) /\ f.type \notin FileTypes
  <2>1. PICK t \in Int, rank \in Nat,
             type \in {"ACTIVATE_BIDDING_OBJECTS", "REMOVE_BIDDING_OBJECTS"},
             ids \in ListOf(numbers) :
               f = [at |-> t, rank |-> rank, type |-> type, objs |-> ids]
    BY <1>4
  <2>2. ids \in ListOf(DOMAIN objs')
    BY <1>5 DEF ListOf
  <2> HIDE DEF numbers
  <2>3. f \in [at : Int, rank : Nat, objs : ListOf(DOMAIN objs'),
               type : {"ACTIVATE_BIDDING_OBJECTS", "REMOVE_BIDDING_OBJECTS"}]
    BY <2>1, <2>2
  <2>4. f \in Events(DOMAIN aucs, DOMAIN objs')
    BY <2>3 DEF Events
  <2>5. f.type \in {"ACTIVATE_BIDDING_OBJECTS", "REMOVE_BIDDING_OBJECTS"} /\ f.objs \in ListOf(numbers)
    BY <2>1
  <2>6. \A o \in f.objs : objs'[o].state # "done"
    BY <1>5, <2>5 DEF ListOf
  <2> QED
    BY <2>4, <2>5, <2>6 DEF EventOK, FileTypes, AuctionLists
<1>7. /\ QueueOK'
      /\ \A g \in queue' : g \in Rest(e) \/ \E f \in own \cup more : SameEvent(f, g)
      /\ \A f \in own \cup more : \E g \in queue' : SameEvent(f, g)
      /\ Rest(e) \subseteq queue'
  <2>1. Grown(aucs, aucs') /\ Grown(objs, objs')
    BY <1>2 DEF Grown
  <2>2. \A f \in own \cup more : EventOK(f, aucs', objs', sess')
    BY <1>6
  <2>3. IsFiniteSet(own \cup more) /\ Rest(e) \in SUBSET queue
    BY <1>4, FS_Union DEF Rest
  <2>4. queue' = Enqueue(Rest(e), own \cup more)
    BY DEF own, base
  <2> QED
    BY <2>1, <2>2, <2>3, <2>4, PostedQueue DEF IInv
<1>8. \A g \in queue' : g.type \in FileTypes => g \in queue
  <2> SUFFICES ASSUME NEW g \in queue', g.type \in FileTypes, g \notin Rest(e) PROVE FALSE
    BY DEF Rest
  <2>1. PICK f \in own \cup more : SameEvent(f, g)
    BY <1>7
  <2>2. f.type \notin FileTypes
    BY <1>6
  <2> QED
    BY <2>1, <2>2 DEF SameEvent
<1>9. Covered(queue', aucs', objs')
  <2>1. \A f \in queue : f.type \in CoverTypes => f \in queue'
    BY <1>7 DEF Rest
  <2>2. ASSUME NEW i \in DOMAIN aucs, aucs[i].state # "done"
        PROVE  \E f \in queue' : f.type = "REMOVE_AUCTIONS" /\ i \in f.objs
    BY <2>1, <2>2 DEF IInv, Covered, CoverTypes, AuctionLists
  <2>3. ASSUME NEW o \in DOMAIN objs', objs'[o].state = "valid"
        PROVE  \E f \in queue' : f.type = "ACTIVATE_BIDDING_OBJECTS" /\ o \in f.objs
    <3>1. CASE o \in DOMAIN objs
      BY <1>2, <2>1, <2>3, <3>1 DEF IInv, Covered, CoverTypes
    <3>2. CASE o \notin DOMAIN objs
      <4>1. PICK k \in DOMAIN new : o = base + k
        BY <1>2, <3>2
      <4>2. PICK f \in own : f.type = "ACTIVATE_BIDDING_OBJECTS" /\ o \in f.objs
        BY <1>4, <4>1
      <4>3. PICK g \in queue' : SameEvent(f, g)
        BY <1>7
      <4> QED
        BY <4>2, <4>3 DEF SameEvent, BidLists
    <3> QED
      BY <3>1, <3>2
  <2>4. ASSUME NEW o \in DOMAIN objs', objs'[o].state # "done"
        PROVE  \E f \in queue' : f.type = "REMOVE_BIDDING_OBJECTS" /\ o \in f.objs
    <3>1. CASE o \in DOMAIN objs
      BY <1>2, <2>1, <2>4, <3>1 DEF IInv, Covered, CoverTypes
    <3>2. CASE o \notin DOMAIN objs
      <4>1. PICK k \in DOMAIN new : o = base + k
        BY <1>2, <3>2
      <4>2. PICK f \in own : f.type = "REMOVE_BIDDING_OBJECTS" /\ o \in f.objs
        BY <1>4, <4>1
      <4>3. PICK g \in queue' : SameEvent(f, g)
        BY <1>7
      <4> QED
        BY <4>2, <4>3 DEF SameEvent, BidLists
    <3> QED
      BY <3>1, <3>2
  <2> QED
    BY <2>2, <2>3, <2>4 DEF Covered
<1>10. Types'
  <2>1. sent' \subseteq (DOMAIN objs') \X Requests
    BY <1>2 DEF IInv, Types
  <2> QED
    BY <1>2, <2>1 DEF IInv, Types, SessionType
<1>11. \A o \in DOMAIN objs' : objs'[o].stop > 0
  BY <1>2 DEF IInv, WindowsOK
<1>12. SameSessions(sess, sess')
  BY DEF SameSessions
<1>13. \A r \in Requests : net'[r] # "idle" => sess[r].start < sess[r].stop
  BY DEF IInv, WindowsOK
<1> QED
  BY <1>7, <1>8, <1>9, <1>10, <1>11, <1>12, <1>13, Quiet

\* Objects that were made are valid, start now at the earliest, and keep their end.
LEMMA ValidObjects ==
  ASSUME now \in Nat, NEW states, NEW os \in Seq(ObjectType(states)),
         \A k \in DOMAIN os : os[k].stop > 0
  PROVE  /\ Valid(os) \in Seq(Bids) /\ DOMAIN Valid(os) = DOMAIN os
         /\ \A k \in DOMAIN os : Valid(os)[k].stop > 0 /\ Valid(os)[k].state = "valid"
<1> DEFINE valid(b) == [b EXCEPT !.state = "valid", !.start = Later(@, Time)]
<1>1. \A k \in DOMAIN os : os[k] \in ObjectType(states)
  BY ElementOfSeq, LenProperties
<1>2. Time \in Nat
  BY FracAssumption DEF Time, Sec
<1>3. ASSUME NEW k \in DOMAIN os
      PROVE  valid(os[k]) \in Bids /\ valid(os[k]).stop > 0 /\ valid(os[k]).state = "valid"
  <2>1. os[k] \in ObjectType(states) /\ os[k].stop > 0
    BY <1>1
  <2>2. Later(os[k].start, Time) \in Nat
    BY <1>2, <2>1 DEF Later, ObjectType
  <2> QED
    BY <2>1, <2>2 DEF Bids, ObjectType
<1>4. Valid(os) = [k \in DOMAIN os |-> valid(os[k])]
  BY DEF Valid
<1> HIDE DEF valid
<1>5. Valid(os) \in [DOMAIN os -> Bids]
  BY <1>3, <1>4
<1>6. Valid(os) \in Seq(Bids) /\ DOMAIN Valid(os) = DOMAIN os
  BY <1>5, Mapped
<1> QED
  BY <1>3, <1>4, <1>6

\* The bids of a process are installed, and their transmission is posted.
LEMMA AddGeneratedKeeps ==
  ASSUME IInv, NEW e \in queue, HandleAddGeneratedBiddingObjects(e)
  PROVE  IInv'
<1> DEFINE new == Valid(e.allocs)
           base == Len(objs)
           numbers == {base + k : k \in DOMAIN new}
           tx == [at |-> TransmitTime, rank |-> 3, type |-> "TRANSMIT_BIDDING_OBJECTS",
                  index |-> e.index, objs |-> numbers]
<1>1. /\ Handling(e, "ADD_GENERATED_BIDDING_OBJECTS")
      /\ objs' = objs \o new
      /\ queue' = Enqueue(Rest(e), ScheduleObjects(new, base) \cup {tx})
      /\ UNCHANGED <<now, aucs, sess, net, files, up, sent, processes>>
  BY Zenon DEF HandleAddGeneratedBiddingObjects
<1>2. /\ e.type = "ADD_GENERATED_BIDDING_OBJECTS" /\ e.index \in Numbers
      /\ e.allocs \in Seq(Generated) /\ e.allocs # <<>>
      /\ \A k \in DOMAIN e.allocs : e.allocs[k].stop > 0
  BY <1>1, Handled, EventShape DEF EventOK
<1>3. now \in Nat /\ objs \in Seq(Bids)
  BY WindowAssumption DEF IInv, Types
<1>4. /\ new \in Seq(Bids) /\ DOMAIN new = DOMAIN e.allocs
      /\ \A k \in DOMAIN new : new[k].stop > 0 /\ new[k].state = "valid"
  BY <1>2, <1>3, ValidObjects DEF Generated
<1> HIDE DEF new
<1>5. numbers \in ListOf(DOMAIN objs')
  <2>1. \A k \in DOMAIN new : base + k \in DOMAIN objs'
    BY <1>1, <1>3, <1>4, Appended
  <2>2. 1 \in DOMAIN new
    BY <1>2, <1>4, EmptySeq, LenProperties
  <2> QED
    BY <2>1, <2>2 DEF ListOf
<1> HIDE DEF numbers
<1>6. tx \in [at : Int, rank : Nat, type : {"TRANSMIT_BIDDING_OBJECTS"}, index : Numbers,
              objs : ListOf(DOMAIN objs')]
  BY <1>2, <1>3, <1>5 DEF TransmitTime
<1>7. EventOK(tx, aucs, objs', sess) /\ tx.type \notin FileTypes
  <2>1. tx \in Events(DOMAIN aucs, DOMAIN objs') /\ tx.type = "TRANSMIT_BIDDING_OBJECTS"
    BY <1>6 DEF Events
  <2> HIDE DEF tx
  <2> QED
    BY <2>1 DEF EventOK, FileTypes, AuctionLists
<1>8. e.type \notin CoverTypes
  BY <1>2 DEF CoverTypes, AuctionLists
<1> HIDE DEF tx
<1>9. IsFiniteSet({tx}) /\ \A f \in {tx} : EventOK(f, aucs, objs', sess) /\ f.type \notin FileTypes
  BY <1>7, FS_Singleton
<1> DEFINE more == {tx}
<1> HIDE DEF more
<1> QED
  BY <1>1, <1>4, <1>8, <1>9, InstalledKeeps DEF more

\* An allocation is installed, with the end of its bid.
LEMMA InteractionKeeps ==
  ASSUME IInv, NEW e \in queue, HandleAuctioningInteraction(e)
  PROVE  IInv'
<1> DEFINE alloc == [objs[e.obj] EXCEPT !.kind = "alloc"]
           os == <<alloc>>
           new == Valid(os)
<1>1. /\ Handling(e, "AUCTION_INTERACTION")
      /\ objs' = objs \o new
      /\ queue' = Enqueue(Rest(e), ScheduleObjects(new, Len(objs)))
      /\ UNCHANGED <<now, aucs, sess, net, files, up, sent, processes>>
  BY Zenon DEF HandleAuctioningInteraction
<1>2. e.type = "AUCTION_INTERACTION" /\ e.obj \in DOMAIN objs
  BY <1>1, Handled, EventShape
<1>3. now \in Nat /\ objs[e.obj] \in Bids /\ objs[e.obj].stop > 0
  BY <1>2, WindowAssumption, ElementOfSeq, LenProperties DEF IInv, Types, WindowsOK
<1>4. alloc \in Bids /\ alloc.stop > 0
  BY <1>3 DEF Bids, ObjectType
<1>5. os \in Seq(Bids) /\ \A k \in DOMAIN os : os[k].stop > 0
  <2> HIDE DEF alloc
  <2> QED
    BY <1>4
<1> HIDE DEF os
<1>6. /\ new \in Seq(Bids)
      /\ \A k \in DOMAIN new : new[k].stop > 0 /\ new[k].state = "valid"
  BY <1>3, <1>5, ValidObjects DEF Bids
<1> DEFINE more == {}
<1>7. /\ IsFiniteSet(more)
      /\ \A f \in more : EventOK(f, aucs, objs', sess) /\ f.type \notin FileTypes
  BY FS_EmptySet
<1>8. queue' = Enqueue(Rest(e), ScheduleObjects(new, Len(objs)) \cup more)
  BY <1>1
<1>9. e.type \notin CoverTypes
  BY <1>2 DEF CoverTypes, AuctionLists
<1> HIDE DEF new, more
<1> QED
  BY <1>1, <1>6, <1>7, <1>8, <1>9, InstalledKeeps

-----------------------------------------------------------------------------
(***************************************************************************)
(* The handlers of processes and of auctions.                              *)
(***************************************************************************)

\* A process that ends changes nothing of the others.
LEMMA RequestDeleted ==
  ASSUME IInv, NEW r \in Requests, NEW d \in Deleters, DelRequest(r, d)
  PROVE  /\ ProcessesInv' /\ number' = number /\ present' = present
         /\ \A i \in DOMAIN requests' : i \in DOMAIN requests /\ requests'[i] = requests[i]
<1>1. ProcessesInv'
  BY DelRequestKeeps DEF IInv
<1> QED
  BY <1>1 DEF DelRequest, Erased

\* The process of an event ends.
LEMMA RemovePushExecutionKeeps ==
  ASSUME IInv, NEW e \in queue, HandleRemovePushExecution(e)
  PROVE  IInv'
<1>1. /\ Handling(e, "REMOVE_PUSH_EXECUTION") /\ DelRequest(e.req, "event")
      /\ queue' = Rest(e)
      /\ UNCHANGED <<now, aucs, objs, sess, net, files, up, sent>>
  BY Zenon DEF HandleRemovePushExecution
<1>2. /\ e.type = "REMOVE_PUSH_EXECUTION" /\ e.req \in Requests
      /\ e.type \notin CoverTypes
  BY <1>1, Handled, EventShape DEF CoverTypes, AuctionLists
<1>3. /\ ProcessesInv' /\ number' = number /\ present' = present
      /\ \A i \in DOMAIN requests' : i \in DOMAIN requests /\ requests'[i] = requests[i]
  BY <1>1, <1>2, RequestDeleted DEF Deleters
<1>4. QueueOK' /\ Covered(queue', aucs', objs') /\ queue' \subseteq queue
  BY <1>1, <1>2, OneEventTaken DEF SameSessions
<1>5. Types'
  BY <1>1 DEF IInv, Types, SessionType
<1>6. OneAuctionPerName'
  BY <1>1, <1>3 DEF IInv, OneAuctionPerName, Installed
<1>7. WindowsOK'
  BY <1>1, <1>3 DEF IInv, WindowsOK
<1>8. IntervalsOnce'
  BY <1>1, <1>4, IntervalsKept, EventShape DEF IInv, QueueOK, EventOK, IntervalTypes
<1>9. AnswersOnce' /\ ReferencesCounted'
  BY <1>1, <1>3 DEF IInv, AnswersOnce, ReferencesCounted
<1> QED
  BY <1>3, <1>4, <1>5, <1>6, <1>7, <1>8, <1>9 DEF IInv

\* The state of some auctions.
LEMMA EnteringAuctions ==
  ASSUME NEW as \in Seq(AuctionType), NEW S, NEW state \in {"valid", "active", "done"}
  PROVE  /\ Entering(as, S, state) \in Seq(AuctionType)
         /\ DOMAIN Entering(as, S, state) = DOMAIN as
         /\ \A i \in DOMAIN as :
              /\ Entering(as, S, state)[i].name = as[i].name
              /\ Entering(as, S, state)[i].sessions = as[i].sessions
              /\ i \in S => Entering(as, S, state)[i].state = state
              /\ i \notin S => Entering(as, S, state)[i] = as[i]
<1>1. \A i \in DOMAIN as : as[i] \in AuctionType
  BY ElementOfSeq, LenProperties
<1>2. \A i \in DOMAIN as : [as[i] EXCEPT !.state = state] \in AuctionType
  BY <1>1 DEF AuctionType
<1>3. Entering(as, S, state) \in [DOMAIN as -> AuctionType]
  BY <1>1, <1>2 DEF Entering
<1>4. Entering(as, S, state) \in Seq(AuctionType) /\ DOMAIN Entering(as, S, state) = DOMAIN as
  BY <1>3, Mapped
<1>5. \A i \in DOMAIN as :
        /\ Entering(as, S, state)[i].name = as[i].name
        /\ Entering(as, S, state)[i].sessions = as[i].sessions
        /\ i \in S => Entering(as, S, state)[i].state = state
        /\ i \notin S => Entering(as, S, state)[i] = as[i]
  BY <1>1 DEF Entering, AuctionType
<1> QED
  BY <1>4, <1>5

\* What does not depend on the states of auctions, when only these change.
LEMMA AuctionStates ==
  ASSUME IInv, NEW S, NEW state \in {"active", "done"}, aucs' = Entering(aucs, S, state),
         UNCHANGED <<now, objs, sess, net, files, up, sent, number>>,
         \A f \in queue' : f.type \in FileTypes => f \in queue
  PROVE  Types' /\ IntervalsOnce' /\ AnswersOnce' /\ ReferencesCounted'
<1>1. /\ aucs' \in Seq(AuctionType) /\ DOMAIN aucs' = DOMAIN aucs
      /\ \A i \in DOMAIN aucs : aucs'[i].sessions = aucs[i].sessions
  BY EnteringAuctions DEF IInv, Types
<1>2. Types'
  BY <1>1 DEF IInv, Types, SessionType
<1>3. IntervalsOnce'
  BY IntervalsKept, EventShape DEF IInv, QueueOK, EventOK, IntervalTypes
<1>4. AnswersOnce'
  BY DEF IInv, AnswersOnce
<1>5. ReferencesCounted'
  BY <1>1 DEF IInv, ReferencesCounted
<1> QED
  BY <1>2, <1>3, <1>4, <1>5

\* Auctions begin; their list had none that is done.
LEMMA ActivateAuctionsKeeps ==
  ASSUME IInv, NEW e \in queue, HandleActivateAuctions(e)
  PROVE  IInv'
<1>1. /\ Handling(e, "ACTIVATE_AUCTIONS") /\ queue' = Rest(e)
      /\ aucs' = Entering(aucs, e.objs, "active")
      /\ UNCHANGED <<now, objs, sess, net, files, up, sent, processes>>
  BY Zenon DEF HandleActivateAuctions
<1>2. /\ e.type = "ACTIVATE_AUCTIONS"
      /\ \A i \in e.objs : aucs[i].state # "done"
  BY <1>1, Handled DEF EventOK, AuctionLists
<1>3. /\ DOMAIN aucs' = DOMAIN aucs
      /\ \A i \in DOMAIN aucs :
           /\ aucs'[i].name = aucs[i].name
           /\ aucs[i].state = "done" => aucs'[i].state = "done"
           /\ aucs'[i].state = "done" => aucs[i].state = "done"
  <2>1. /\ DOMAIN aucs' = DOMAIN aucs
        /\ \A i \in DOMAIN aucs :
             /\ aucs'[i].name = aucs[i].name
             /\ i \in e.objs => aucs'[i].state = "active"
             /\ i \notin e.objs => aucs'[i] = aucs[i]
    BY <1>1, EnteringAuctions DEF IInv, Types
  <2> QED
    BY <1>2, <2>1
<1>4. queue' \subseteq queue /\ \A f \in queue : f = e \/ f \in queue'
  BY <1>1 DEF Rest
<1>5. number' = number /\ requests' = requests /\ present' = present
  BY <1>1 DEF processes
<1>6. Types' /\ IntervalsOnce' /\ AnswersOnce' /\ ReferencesCounted'
  BY <1>1, <1>4, <1>5, AuctionStates
<1>7. ProcessesInv'
  BY <1>1, ProcessesKept DEF IInv
<1>8. QueueOK'
  <2>1. Grown(objs, objs') /\ Grown(aucs, aucs')
    BY <1>1, <1>3 DEF Grown
  <2> QED
    BY <1>1, <1>4, <2>1, DroppedQueue DEF IInv
<1>9. Covered(queue', aucs', objs')
  <2>1. ASSUME NEW i \in DOMAIN aucs, aucs'[i].state # "done"
        PROVE  \E f \in queue' : f.type = "REMOVE_AUCTIONS" /\ i \in f.objs
    <3>1. PICK f \in queue : f.type = "REMOVE_AUCTIONS" /\ i \in f.objs
      BY <1>3, <2>1 DEF IInv, Covered
    <3> QED
      BY <1>2, <1>4, <3>1
  <2>2. ASSUME NEW o \in DOMAIN objs, objs[o].state = "valid"
        PROVE  \E f \in queue' : f.type = "ACTIVATE_BIDDING_OBJECTS" /\ o \in f.objs
    BY <1>2, <1>4, <2>2 DEF IInv, Covered
  <2>3. ASSUME NEW o \in DOMAIN objs, objs[o].state # "done"
        PROVE  \E f \in queue' : f.type = "REMOVE_BIDDING_OBJECTS" /\ o \in f.objs
    BY <1>2, <1>4, <2>3 DEF IInv, Covered
  <2> QED
    BY <1>1, <1>3, <2>1, <2>2, <2>3 DEF Covered
<1>10. OneAuctionPerName'
  BY <1>3, <1>5 DEF IInv, OneAuctionPerName, Installed
<1>11. WindowsOK'
  BY <1>1, <1>5 DEF IInv, WindowsOK
<1> QED
  BY <1>6, <1>7, <1>8, <1>9, <1>10, <1>11 DEF IInv

\* What delAuctionEvents makes of an event.
WithoutAuctions(f, g, S) ==
  /\ g.type = f.type
  /\ f.type \in AuctionLists => g.objs = f.objs \ S
  /\ f.type \notin AuctionLists => g = f

\* delAuctionEvents leaves events, and takes none whose list has other auctions.
LEMMA DelAuctionEventsMembers ==
  ASSUME NEW A, NEW O, NEW q, NEW S, q \subseteq Events(A, O), IsFiniteSet(q)
  PROVE  LET D == DelAuctionEvents(q, S)
         IN  /\ IsFiniteSet(D)
             /\ \A g \in D : g \in Events(A, O) /\ \E f \in q : WithoutAuctions(f, g, S)
             /\ \A f \in q : \/ f.type \in AuctionLists /\ f.objs \subseteq S
                             \/ \E g \in D : WithoutAuctions(f, g, S)
<1> DEFINE Strip(f) == IF f.type \in AuctionLists THEN [f EXCEPT !.objs = @ \ S] ELSE f
           kept == {f \in q : f.type \in AuctionLists => ~(f.objs \subseteq S)}
           D == DelAuctionEvents(q, S)
<1>1. D = {Strip(f) : f \in kept}
  BY DEF DelAuctionEvents
<1>2. ASSUME NEW f \in kept
      PROVE  Strip(f) \in Events(A, O) /\ WithoutAuctions(f, Strip(f), S)
  <2>0. f \in Events(A, O)
    OBVIOUS
  <2>1. CASE f.type \in AuctionLists
    <3>1. f.objs \ S \in ListOf(A)
      BY <2>0, <2>1, EventShape DEF ListOf
    <3>2. Strip(f) = [f EXCEPT !.objs = f.objs \ S]
      BY <2>1
    <3> DEFINE l == f.objs \ S
    <3> HIDE DEF l
    <3>3. f \in [at : Int, rank : Nat, type : AuctionLists, objs : ListOf(A)]
      BY <2>0, <2>1 DEF Events, AuctionLists, IntervalTypes
    <3>4. [f EXCEPT !.objs = l] \in Events(A, O) /\ [f EXCEPT !.objs = l].type = f.type
          /\ [f EXCEPT !.objs = l].objs = l
      BY <3>1, <3>3 DEF Events, l
    <3> QED
      BY <2>1, <3>2, <3>4 DEF WithoutAuctions, l
  <2>2. CASE f.type \notin AuctionLists
    BY <2>0, <2>2 DEF WithoutAuctions
  <2> QED
    BY <2>1, <2>2
<1>3. IsFiniteSet(D)
  <2> DEFINE g == [f \in kept |-> Strip(f)]
  <2>1. IsFiniteSet(kept)
    BY FS_Subset
  <2>2. DOMAIN g = kept /\ g = [f \in kept |-> g[f]] /\ D = {g[f] : f \in kept}
    BY <1>1
  <2> HIDE DEF g, kept, D
  <2> QED
    BY <2>1, <2>2, FiniteImage
<1>4. \A f \in q : (f.type \in AuctionLists /\ f.objs \subseteq S) \/ f \in kept
  OBVIOUS
<1>5. kept \subseteq q
  OBVIOUS
<1> HIDE DEF Strip, kept, D
<1>6. \A f \in q : f \in kept => \E g \in D : WithoutAuctions(f, g, S)
  BY <1>1, <1>2
<1>7. \A g \in D : g \in Events(A, O) /\ \E f \in q : WithoutAuctions(f, g, S)
  BY <1>1, <1>2, <1>5
<1> QED
  BY <1>3, <1>4, <1>6, <1>7 DEF D

\* Auctions that end leave the processes, of which some end as well.
LEMMA AuctionsDeleted ==
  ASSUME IInv, NEW S \in SUBSET Auctions, DelAuctions(S)
  PROVE  /\ ProcessesInv' /\ number' = number /\ present' = present \ S
         /\ \A i \in DOMAIN requests' :
              /\ i \in DOMAIN requests
              /\ requests'[i].req = requests[i].req
              /\ requests'[i].aucs = requests[i].aucs \ S
<1>1. ProcessesInv'
  BY DelAuctionsKeeps DEF IInv
<1>2. /\ requests' = [i \in DOMAIN Erased(Emptied(S)) |-> [requests[i] EXCEPT !.aucs = @ \ S]]
      /\ number' = number /\ present' = present \ S
  BY DEF DelAuctions
<1>3. DOMAIN Erased(Emptied(S)) = DOMAIN requests \ Emptied(S)
  BY DEF Erased
<1>4. \A i \in DOMAIN requests : requests[i] \in Process
  BY DEF IInv, ProcessesInv, ProcessesTypeOK
<1>5. ASSUME NEW i \in DOMAIN requests'
      PROVE  /\ i \in DOMAIN requests
             /\ requests'[i].req = requests[i].req
             /\ requests'[i].aucs = requests[i].aucs \ S
  <2>1. i \in DOMAIN requests /\ requests'[i] = [requests[i] EXCEPT !.aucs = @ \ S]
    BY <1>2, <1>3
  <2> QED
    BY <1>4, <2>1 DEF Process
<1> QED
  BY <1>1, <1>2, <1>5

\* The removals of bids that the end of auctions posts.
BidRemovals(S) ==
  {[at |-> now, rank |-> i, type |-> "REMOVE_BIDDING_OBJECTS", objs |-> BidsOf(i)] :
     i \in {j \in S : BidsOf(j) # {}}}

\* They are finitely many, of bids that are installed.
LEMMA BidRemovalsOK ==
  ASSUME IInv, NEW S \in SUBSET DOMAIN aucs
  PROVE  /\ IsFiniteSet(BidRemovals(S))
         /\ \A f \in BidRemovals(S) :
              EventOK(f, aucs, objs, sess) /\ f.type = "REMOVE_BIDDING_OBJECTS"
<1> DEFINE J == {j \in S : BidsOf(j) # {}}
           removal(i) == [at |-> now, rank |-> i, type |-> "REMOVE_BIDDING_OBJECTS",
                          objs |-> BidsOf(i)]
<1>1. now \in Int /\ aucs \in Seq(AuctionType)
  BY WindowAssumption DEF IInv, Types
<1>2. IsFiniteSet(BidRemovals(S))
  <2>1. IsFiniteSet(J)
    BY <1>1, FinitePositions, FS_Subset
  <2> DEFINE g == [i \in J |-> removal(i)]
  <2>2. DOMAIN g = J /\ g = [i \in J |-> g[i]] /\ BidRemovals(S) = {g[i] : i \in J}
    BY DEF BidRemovals
  <2> HIDE DEF g, J
  <2> QED
    BY <2>1, <2>2, FiniteImage
<1>3. ASSUME NEW i \in J
      PROVE  EventOK(removal(i), aucs, objs, sess)
             /\ removal(i).type = "REMOVE_BIDDING_OBJECTS"
  <2>1. BidsOf(i) \in ListOf(DOMAIN objs)
    BY DEF BidsOf, ListOf
  <2>2. i \in Nat
    BY <1>1, LenProperties
  <2> DEFINE l == BidsOf(i)
  <2> HIDE DEF l
  <2>3. [at |-> now, rank |-> i, type |-> "REMOVE_BIDDING_OBJECTS", objs |-> l]
          \in [at : Int, rank : Nat, objs : ListOf(DOMAIN objs),
               type : {"ACTIVATE_BIDDING_OBJECTS", "REMOVE_BIDDING_OBJECTS"}]
    BY <1>1, <2>1, <2>2 DEF l
  <2>4. removal(i) \in Events(DOMAIN aucs, DOMAIN objs) /\ removal(i).type = "REMOVE_BIDDING_OBJECTS"
    BY <2>3 DEF Events, l
  <2> HIDE DEF removal
  <2> QED
    BY <2>4 DEF EventOK, AuctionLists
<1>4. BidRemovals(S) = {removal(i) : i \in J}
  BY DEF BidRemovals
<1> HIDE DEF removal, J
<1> QED
  BY <1>2, <1>3, <1>4

\* Auctions end and leave processes and lists; names tell them from the others.
LEMMA RemoveAuctionsKeeps ==
  ASSUME IInv, NEW e \in queue, HandleRemoveAuctions(e)
  PROVE  IInv'
<1> DEFINE S == e.objs
           names == {aucs[i].name : i \in S}
           A == DOMAIN aucs
           O == DOMAIN objs
           q == Enqueue(Rest(e), BidRemovals(S))
<1>1. /\ Handling(e, "REMOVE_AUCTIONS") /\ DelAuctions(names)
      /\ queue' = DelAuctionEvents(q, S)
      /\ aucs' = Entering(aucs, S, "done")
      /\ UNCHANGED <<now, objs, sess, net, files, up, sent>>
  BY Zenon DEF HandleRemoveAuctions, BidRemovals
<1>2. /\ e.type = "REMOVE_AUCTIONS" /\ S \subseteq A
      /\ \A i \in S : aucs[i].state # "done"
  BY <1>1, Handled, EventShape DEF EventOK, AuctionLists
<1>3. /\ DOMAIN aucs' = A
      /\ \A i \in A : /\ aucs'[i].name = aucs[i].name
                      /\ i \in S => aucs'[i].state = "done"
                      /\ i \notin S => aucs'[i] = aucs[i]
  BY <1>1, EnteringAuctions DEF IInv, Types
<1>4. \A i \in A : aucs[i].name \in Auctions
  <2>1. aucs \in Seq(AuctionType)
    BY DEF IInv, Types
  <2>2. \A i \in A : aucs[i] \in AuctionType
    BY <2>1, ElementOfSeq, LenProperties
  <2> QED
    BY <2>2 DEF AuctionType
<1>5. /\ ProcessesInv' /\ number' = number /\ present' = present \ names
      /\ \A i \in DOMAIN requests' :
           /\ i \in DOMAIN requests
           /\ requests'[i].req = requests[i].req
           /\ requests'[i].aucs = requests[i].aucs \ names
  <2>1. names \in SUBSET Auctions
    BY <1>2, <1>4
  <2> HIDE DEF names
  <2> QED
    BY <1>1, <2>1, AuctionsDeleted
<1>6. /\ IsFiniteSet(q)
      /\ \A f \in q : /\ EventOK(f, aucs, objs, sess)
                      /\ f \in Rest(e) \/ f.type = "REMOVE_BIDDING_OBJECTS"
      /\ Rest(e) \subseteq q /\ q \subseteq Events(A, O)
  <2>1. /\ IsFiniteSet(BidRemovals(S))
        /\ \A f \in BidRemovals(S) :
             EventOK(f, aucs, objs, sess) /\ f.type = "REMOVE_BIDDING_OBJECTS"
    BY <1>2, BidRemovalsOK
  <2>2. IsFiniteSet(Rest(e)) /\ \A f \in Rest(e) : EventOK(f, aucs, objs, sess)
    BY RestOK DEF IInv
  <2>3. IsFiniteSet(q)
    BY <2>1, <2>2, EnqueueFinite
  <2>4. /\ \A f \in q : /\ EventOK(f, aucs, objs, sess)
                        /\ f \in Rest(e) \/ \E g \in BidRemovals(S) : SameEvent(g, f)
        /\ Rest(e) \subseteq q
    <3>1. \A f \in Rest(e) \cup BidRemovals(S) : EventOK(f, aucs, objs, sess)
      BY <2>1, <2>2
    <3> QED
      BY <3>1, Enqueued
  <2> HIDE DEF q
  <2>5. \A f \in q : f \in Rest(e) \/ f.type = "REMOVE_BIDDING_OBJECTS"
    BY <2>1, <2>4 DEF SameEvent
  <2> QED
    BY <2>3, <2>4, <2>5 DEF EventOK
<1> HIDE DEF S, names, A, O, q
<1>7. /\ IsFiniteSet(queue')
      /\ \A g \in queue' : g \in Events(A, O) /\ \E f \in q : WithoutAuctions(f, g, S)
      /\ \A f \in q : \/ f.type \in AuctionLists /\ f.objs \subseteq S
                      \/ \E g \in queue' : WithoutAuctions(f, g, S)
  BY <1>1, <1>6, DelAuctionEventsMembers
<1>8. ASSUME NEW g \in queue' PROVE EventOK(g, aucs', objs', sess')
  <2>1. PICK f \in q : WithoutAuctions(f, g, S)
    BY <1>7
  <2>2. EventOK(f, aucs, objs, sess) /\ f \in Events(A, O) /\ g \in Events(A, O)
    BY <1>6, <1>7
  <2>3. CASE g.type \in AuctionLists
    <3>1. g.objs = f.objs \ S /\ f.type = g.type /\ g.objs \subseteq A
      BY <2>1, <2>2, <2>3, EventShape DEF WithoutAuctions
    <3>2. \A i \in g.objs : aucs'[i].state # "done"
      BY <1>3, <2>2, <2>3, <3>1 DEF EventOK
    <3> QED
      BY <1>1, <1>3, <2>2, <2>3, <3>2 DEF EventOK, A, O, AuctionLists
  <2>4. CASE g.type \notin AuctionLists
    <3>1. g = f
      BY <2>1, <2>4 DEF WithoutAuctions
    <3> QED
      BY <1>1, <1>3, <2>2, <2>4, <3>1 DEF EventOK, A, O
  <2> QED
    BY <2>3, <2>4
<1>9. QueueOK'
  BY <1>7, <1>8 DEF QueueOK
<1>10. \A g \in queue' : g.type \in FileTypes => g \in queue
  BY <1>6, <1>7 DEF FileTypes, WithoutAuctions, AuctionLists, Rest
<1>11. Covered(queue', aucs', objs')
  <2>1. ASSUME NEW i \in A, aucs'[i].state # "done"
        PROVE  \E g \in queue' : g.type = "REMOVE_AUCTIONS" /\ i \in g.objs
    <3>1. i \notin S /\ aucs[i].state # "done"
      BY <1>3, <2>1
    <3>2. PICK f \in queue : f.type = "REMOVE_AUCTIONS" /\ i \in f.objs
      BY <3>1 DEF IInv, Covered, A
    <3>3. f \in q
      BY <1>6, <3>1, <3>2 DEF Rest, S
    <3>4. PICK g \in queue' : WithoutAuctions(f, g, S)
      BY <1>7, <3>1, <3>2, <3>3
    <3>5. g.type = f.type /\ g.objs = f.objs \ S
      BY <3>2, <3>4 DEF WithoutAuctions, AuctionLists
    <3> QED
      BY <3>1, <3>2, <3>5
  <2>2. ASSUME NEW f \in queue, f.type \in BidLists
        PROVE  f \in queue'
    <3>1. f \in q /\ f.type \notin AuctionLists
      BY <1>2, <1>6, <2>2 DEF Rest, BidLists, AuctionLists
    <3>2. PICK g \in queue' : WithoutAuctions(f, g, S)
      BY <1>7, <3>1
    <3> QED
      BY <3>1, <3>2 DEF WithoutAuctions
  <2>3. ASSUME NEW o \in O, objs[o].state = "valid"
        PROVE  \E g \in queue' : g.type = "ACTIVATE_BIDDING_OBJECTS" /\ o \in g.objs
    <3>1. PICK f \in queue : f.type = "ACTIVATE_BIDDING_OBJECTS" /\ o \in f.objs
      BY <2>3 DEF IInv, Covered, O
    <3> QED
      BY <2>2, <3>1 DEF BidLists
  <2>4. ASSUME NEW o \in O, objs[o].state # "done"
        PROVE  \E g \in queue' : g.type = "REMOVE_BIDDING_OBJECTS" /\ o \in g.objs
    <3>1. PICK f \in queue : f.type = "REMOVE_BIDDING_OBJECTS" /\ o \in f.objs
      BY <2>4 DEF IInv, Covered, O
    <3> QED
      BY <2>2, <3>1 DEF BidLists
  <2> QED
    BY <1>1, <1>3, <2>1, <2>3, <2>4 DEF Covered, O
<1>12. Types' /\ IntervalsOnce' /\ AnswersOnce' /\ ReferencesCounted'
  BY <1>1, <1>5, <1>10, AuctionStates
<1>13. OneAuctionPerName'
  <2>1. \A i \in A : Installed(i)' <=> Installed(i) /\ i \notin S
    BY <1>2, <1>3 DEF Installed, A
  <2>2. \A i, j \in A : Installed(i) /\ Installed(j) /\ aucs[i].name = aucs[j].name => i = j
    BY DEF IInv, OneAuctionPerName, A
  <2>3. \A i \in S : i \in A /\ Installed(i)
    BY <1>2 DEF Installed, A
  <2>4. \A i \in A : Installed(i)' => aucs[i].name \notin names
    BY <2>1, <2>2, <2>3 DEF names
  <2>5. present = {aucs[i].name : i \in {j \in A : Installed(j)}}
    BY DEF IInv, OneAuctionPerName, A
  <2>6. present' = {aucs'[i].name : i \in {j \in DOMAIN aucs' : Installed(j)'}}
    <3>1. \A n \in present' : \E i \in A : Installed(i)' /\ aucs'[i].name = n
      BY <1>3, <1>5, <2>1, <2>5 DEF names
    <3>2. \A i \in A : Installed(i)' => aucs'[i].name \in present'
      BY <1>3, <1>5, <2>1, <2>4, <2>5
    <3> QED
      BY <1>3, <3>1, <3>2
  <2>7. \A i, j \in DOMAIN aucs' :
          Installed(i)' /\ Installed(j)' /\ aucs'[i].name = aucs'[j].name => i = j
    BY <1>3, <2>1, <2>2
  <2> QED
    BY <2>6, <2>7 DEF OneAuctionPerName
<1>14. WindowsOK'
  <2>1. ASSUME NEW i \in DOMAIN requests' PROVE IsFiniteSet(requests'[i].aucs)
    <3>1. IsFiniteSet(requests[i].aucs)
      BY <1>5 DEF IInv, WindowsOK
    <3> DEFINE T == requests[i].aucs
    <3> HIDE DEF T
    <3>2. IsFiniteSet(T \ names)
      BY <3>1, FS_Subset DEF T
    <3> QED
      BY <1>5, <3>2 DEF T
  <2> QED
    BY <1>1, <1>5, <2>1 DEF IInv, WindowsOK
<1> QED
  BY <1>5, <1>9, <1>11, <1>12, <1>13, <1>14 DEF IInv

\* The references of a session are taken back, and nothing else changes.
LEMMA ReferencesTaken ==
  ASSUME NEW T, NEW q, NEW as, aucs \in Seq(AuctionType), as = DecrementReferences(T, q)
  PROVE  /\ as \in Seq(AuctionType) /\ DOMAIN as = DOMAIN aucs
         /\ \A i \in DOMAIN aucs :
              /\ as[i].name = aucs[i].name /\ as[i].state = aucs[i].state
              /\ i \in T => as[i].sessions = aucs[i].sessions \ {q}
              /\ i \notin T => as[i].sessions = aucs[i].sessions
<1>1. \A i \in DOMAIN aucs : aucs[i] \in AuctionType
  BY ElementOfSeq, LenProperties
<1> DEFINE taken(i) == IF i \in T THEN [aucs[i] EXCEPT !.sessions = @ \ {q}] ELSE aucs[i]
<1>2. ASSUME NEW i \in DOMAIN aucs
      PROVE  /\ taken(i) \in AuctionType
             /\ taken(i).name = aucs[i].name /\ taken(i).state = aucs[i].state
             /\ taken(i).sessions = IF i \in T THEN aucs[i].sessions \ {q} ELSE aucs[i].sessions
  <2>1. aucs[i] \in AuctionType
    BY <1>1
  <2> DEFINE a == aucs[i]
  <2> HIDE DEF a
  <2>2. a \in AuctionType => /\ [a EXCEPT !.sessions = @ \ {q}] \in AuctionType
                             /\ [a EXCEPT !.sessions = @ \ {q}].name = a.name
                             /\ [a EXCEPT !.sessions = @ \ {q}].state = a.state
                             /\ [a EXCEPT !.sessions = @ \ {q}].sessions = a.sessions \ {q}
    BY DEF AuctionType
  <2> QED
    BY <2>1, <2>2 DEF a
<1>3. DecrementReferences(T, q) = [i \in DOMAIN aucs |-> taken(i)]
  BY DEF DecrementReferences
<1> HIDE DEF taken
<1>4. DecrementReferences(T, q) \in [DOMAIN aucs -> AuctionType]
  BY <1>2, <1>3
<1>5. DecrementReferences(T, q) \in Seq(AuctionType)
  BY <1>4, Mapped
<1> QED
  BY <1>2, <1>3, <1>5

\* The end of an interval calls the processor at most once.
LEMMA ProcessEnded ==
  ASSUME IInv, NEW r \in Requests, EndProcess(r)
  PROVE  /\ ProcessesInv' /\ number' = number /\ present' = present
         /\ \A i \in DOMAIN requests' : i \in DOMAIN requests /\ requests'[i] = requests[i]
<1>1. CASE number[r] = NotAdded
  <2>1. UNCHANGED processes
    BY <1>1 DEF EndProcess
  <2>2. ProcessesInv'
    BY <2>1, ProcessesKept DEF IInv
  <2> QED
    BY <2>1, <2>2 DEF processes
<1>2. CASE number[r] # NotAdded
  <2>1. DelRequest(r, "interval")
    BY <1>2 DEF EndProcess
  <2> QED
    BY <2>1, RequestDeleted DEF Deleters
<1> QED
  BY <1>1, <1>2

\* An interval ends: it had the references its list says, for it was not
\* removed before, and no other event removes it.
LEMMA RemoveIntervalKeeps ==
  ASSUME IInv, NEW e \in queue, HandleRemoveInterval(e)
  PROVE  IInv'
<1> DEFINE r == e.req
           S == sess[r].aucs
           list == Unreferenced(S)
           ev == [at |-> now, rank |-> 1, type |-> "REMOVE_AUCTIONS", objs |-> list]
           more == {f \in {ev} : f.objs # {}}
<1>1. /\ Handling(e, "REMOVE_RESOURCE_REQUEST_INTERVAL")
      /\ sess' = [sess EXCEPT ![r].torn = TRUE]
      /\ aucs' = DecrementReferences(S, r)
      /\ queue' = Enqueue(Rest(e), more)
      /\ EndProcess(r)
      /\ UNCHANGED <<now, objs, net, files, up, sent>>
  BY Zenon DEF HandleRemoveInterval
<1>2. /\ e.type = "REMOVE_RESOURCE_REQUEST_INTERVAL" /\ r \in Requests
      /\ e.type \notin CoverTypes
  BY <1>1, Handled, EventShape DEF IntervalTypes, CoverTypes, AuctionLists
<1>3. /\ aucs \in Seq(AuctionType) /\ sess \in [Requests -> SessionType]
      /\ now \in Int
  BY WindowAssumption DEF IInv, Types
<1>4. S \subseteq DOMAIN aucs
  BY <1>2, <1>3 DEF SessionType
<1>5. /\ aucs' \in Seq(AuctionType) /\ DOMAIN aucs' = DOMAIN aucs
      /\ \A i \in DOMAIN aucs :
           /\ aucs'[i].name = aucs[i].name /\ aucs'[i].state = aucs[i].state
           /\ i \in S => aucs'[i].sessions = aucs[i].sessions \ {r}
           /\ i \notin S => aucs'[i].sessions = aucs[i].sessions
  <2> DEFINE D == DecrementReferences(S, r)
  <2>1. D = DecrementReferences(S, r) /\ aucs' = D
    BY <1>1
  <2> HIDE DEF D, S, r
  <2>2. /\ D \in Seq(AuctionType) /\ DOMAIN D = DOMAIN aucs
        /\ \A i \in DOMAIN aucs :
             /\ D[i].name = aucs[i].name /\ D[i].state = aucs[i].state
             /\ i \in S => D[i].sessions = aucs[i].sessions \ {r}
             /\ i \notin S => D[i].sessions = aucs[i].sessions
    BY <1>3, <2>1, ReferencesTaken
  <2> QED
    BY <2>1, <2>2
<1>6. /\ sess' \in [Requests -> SessionType]
      /\ sess'[r].torn = TRUE
      /\ \A q \in Requests :
           /\ sess'[q].start = sess[q].start /\ sess'[q].stop = sess[q].stop
           /\ sess'[q].end = sess[q].end /\ sess'[q].aucs = sess[q].aucs
           /\ sess'[q].answer = sess[q].answer
           /\ q # r => sess'[q].torn = sess[q].torn
  <2>1. sess' = [sess EXCEPT ![r].torn = TRUE] /\ r \in Requests
    BY <1>1, <1>2
  <2> HIDE DEF r
  <2>2. \A q \in Requests : q # r => sess'[q] = sess[q]
    BY <1>3, <2>1
  <2>3. sess'[r] = [sess[r] EXCEPT !.torn = TRUE] /\ sess[r] \in SessionType
    BY <1>3, <2>1
  <2>4. /\ sess'[r] \in SessionType /\ sess'[r].torn = TRUE
        /\ sess'[r].start = sess[r].start /\ sess'[r].stop = sess[r].stop
        /\ sess'[r].end = sess[r].end /\ sess'[r].aucs = sess[r].aucs
        /\ sess'[r].answer = sess[r].answer
    BY <2>3 DEF SessionType
  <2>5. sess' \in [Requests -> SessionType]
    <3>1. sess' = [q \in Requests |-> sess'[q]]
      BY <1>3, <2>1
    <3>2. \A q \in Requests : sess'[q] \in SessionType
      BY <1>3, <2>2, <2>4
    <3> QED
      BY <3>1, <3>2
  <2> QED
    BY <2>2, <2>4, <2>5
<1>7. /\ ProcessesInv' /\ number' = number /\ present' = present
      /\ \A i \in DOMAIN requests' : i \in DOMAIN requests /\ requests'[i] = requests[i]
  BY <1>1, <1>2, ProcessEnded
<1>8. ~sess[r].torn /\ sess[r].answer # "late" /\ ~Waiting(r)
  BY <1>2 DEF IInv, IntervalsOnce, AnswersOnce
<1>9. \A i \in list : i \in S /\ i \in DOMAIN aucs /\ aucs[i].state # "done"
  BY DEF Unreferenced, Installed
<1> HIDE DEF list
<1>10. ASSUME NEW f \in more
       PROVE  EventOK(f, aucs', objs', sess') /\ f.type = "REMOVE_AUCTIONS"
  <2>1. f = ev /\ list # {}
    OBVIOUS
  <2>2. list \in ListOf(DOMAIN aucs')
    BY <1>5, <1>9, <2>1 DEF ListOf
  <2>3. ev \in [at : Int, rank : Nat, type : AuctionLists, objs : ListOf(DOMAIN aucs')]
    BY <1>3, <2>2 DEF AuctionLists
  <2>4. ev \in Events(DOMAIN aucs', DOMAIN objs')
    BY <2>3 DEF Events
  <2>5. \A i \in ev.objs : aucs'[i].state # "done"
    BY <1>5, <1>9
  <2>6. ev.type = "REMOVE_AUCTIONS"
    OBVIOUS
  <2> HIDE DEF ev
  <2> QED
    BY <2>1, <2>4, <2>5, <2>6 DEF EventOK
<1>11. IsFiniteSet(more)
  <2> HIDE DEF ev
  <2> QED
    BY FS_Singleton, FS_Subset
<1> HIDE DEF more
<1>12. /\ QueueOK'
       /\ \A g \in queue' : g \in Rest(e) \/ \E f \in more : SameEvent(f, g)
       /\ Rest(e) \subseteq queue'
  <2>1. Grown(aucs, aucs') /\ Grown(objs, objs')
    BY <1>1, <1>5 DEF Grown
  <2>2. Rest(e) \in SUBSET queue
    BY DEF Rest
  <2> QED
    BY <1>1, <1>6, <1>10, <1>11, <2>1, <2>2, PostedQueue DEF IInv
<1>13. \A g \in queue' : g.type \in FileTypes => g \in queue /\ g # e
  BY <1>10, <1>12 DEF SameEvent, FileTypes, Rest
<1>14. Covered(queue', aucs', objs')
  <2>1. \A f \in queue : f.type \in CoverTypes => f \in queue'
    BY <1>2, <1>12 DEF Rest
  <2>2. Covered(queue', aucs, objs)
    BY <2>1, CoveredKept DEF IInv
  <2> QED
    BY <1>1, <1>5, <2>2 DEF Covered
<1>15. Types'
  <2>1. SessionType' = SessionType
    BY <1>5 DEF SessionType
  <2>2. sess' \in [Requests -> SessionType']
    BY <1>6, <2>1
  <2>3. Types
    BY DEF IInv
  <2> HIDE DEF r, ev, S
  <2> QED
    BY <1>1, <1>5, <2>2, <2>3 DEF Types
<1>16. OneAuctionPerName'
  <2>1. \A i \in DOMAIN aucs : Installed(i)' <=> Installed(i)
    BY <1>5 DEF Installed
  <2>2. {aucs'[i].name : i \in {j \in DOMAIN aucs' : Installed(j)'}}
          = {aucs[i].name : i \in {j \in DOMAIN aucs : Installed(j)}}
    BY <1>5, <2>1
  <2>3. OneAuctionPerName
    BY DEF IInv
  <2> QED
    BY <1>5, <1>7, <2>1, <2>2, <2>3 DEF OneAuctionPerName
<1>17. WindowsOK'
  <2>1. \A i \in DOMAIN requests : requests[i].req \in Requests
    BY DEF IInv, ProcessesInv, ProcessesTypeOK, Process
  <2> QED
    BY <1>1, <1>6, <1>7, <2>1 DEF IInv, WindowsOK
<1>18. IntervalsOnce'
  <2>1. \A q : Waiting(q)' => Waiting(q)
    BY <1>1, <1>13 DEF Waiting, FileTypes
  <2>2. ASSUME NEW f \in queue', f.type = "REMOVE_RESOURCE_REQUEST_INTERVAL"
        PROVE  ~sess'[f.req].torn /\ ~Waiting(f.req)'
    <3>1. f \in queue /\ f # e
      BY <1>13, <2>2 DEF FileTypes
    <3>2. f.req # r /\ f.req \in Requests
      BY <1>2, <2>2, <3>1, EventShape DEF IInv, IntervalsOnce, QueueOK, EventOK, IntervalTypes
    <3> QED
      BY <1>6, <2>1, <2>2, <3>1, <3>2 DEF IInv, IntervalsOnce
  <2>3. ASSUME NEW q \in Requests, sess'[q].torn PROVE ~Waiting(q)'
    BY <1>6, <1>8, <2>1, <2>3 DEF IInv, IntervalsOnce
  <2>4. \A f \in queue' : f.type = "ADD_RESOURCE_REQUESTS" => f.reqs \notin files'
    BY <1>1, <1>13 DEF IInv, IntervalsOnce, FileTypes
  <2>5. \A f, g \in queue' :
          /\ f.type = "ADD_RESOURCE_REQUESTS" /\ g.type = f.type /\ f.reqs = g.reqs => f = g
          /\ f.type = "REMOVE_RESOURCE_REQUEST_INTERVAL" /\ g.type = f.type /\ f.req = g.req => f = g
    BY <1>13 DEF IInv, IntervalsOnce, FileTypes
  <2> QED
    BY <2>2, <2>3, <2>4, <2>5 DEF IntervalsOnce
<1>19. AnswersOnce'
  BY <1>6, <1>7 DEF IInv, AnswersOnce
<1>20. ReferencesCounted'
  <2>1. ASSUME NEW i \in DOMAIN aucs
        PROVE  aucs'[i].sessions =
                 {q \in Requests : i \in sess'[q].aucs /\ (sess'[q].torn => sess'[q].answer = "late")}
    <3>1. aucs[i].sessions =
            {q \in Requests : i \in sess[q].aucs /\ (sess[q].torn => sess[q].answer = "late")}
      BY DEF IInv, ReferencesCounted
    <3>2. /\ i \in S => aucs'[i].sessions = aucs[i].sessions \ {r}
          /\ i \notin S => aucs'[i].sessions = aucs[i].sessions
      BY <1>5
    <3> HIDE DEF r
    <3>3. i \notin S => r \notin aucs[i].sessions
      BY <3>1
    <3> QED
      BY <1>6, <1>8, <3>1, <3>2, <3>3
  <2> QED
    BY <1>5, <2>1 DEF ReferencesCounted
<1> QED
  BY <1>7, <1>12, <1>14, <1>15, <1>16, <1>17, <1>18, <1>19, <1>20 DEF IInv

-----------------------------------------------------------------------------
(***************************************************************************)
(* The files.                                                              *)
(***************************************************************************)

\* A file is given; it had not been read.
LEMMA FileKeeps ==
  ASSUME IInv, NEW F \in files, File(F)
  PROVE  IInv'
<1> DEFINE ev == [at |-> now, rank |-> 1, type |-> "ADD_RESOURCE_REQUESTS", reqs |-> F]
           more == {ev}
           in == Ranked(ev, LastRank(queue, ev.at) + ev.rank)
<1>1. /\ files' = files \ {F}
      /\ queue' = Enqueue(queue, more)
      /\ UNCHANGED <<now, aucs, objs, sess, net, up, sent, processes>>
  BY Zenon DEF File, Post
<1>2. now \in Int /\ F \in Files /\ files \subseteq Files
  BY WindowAssumption DEF IInv, Types
<1>3. EventOK(ev, aucs, objs, sess) /\ ev.type = "ADD_RESOURCE_REQUESTS" /\ ev.reqs = F
  <2>1. ev \in [at : Int, rank : Nat, type : {"ADD_RESOURCE_REQUESTS"}, reqs : Files]
    BY <1>2
  <2>2. ev \in Events(DOMAIN aucs, DOMAIN objs) /\ ev.type = "ADD_RESOURCE_REQUESTS"
        /\ ev.reqs = F
    BY <2>1 DEF Events
  <2> HIDE DEF ev
  <2> QED
    BY <2>2 DEF EventOK, AuctionLists
<1>4. /\ IsFiniteSet(more)
      /\ \A f \in more : f = ev
      /\ \A g \in queue' : g \in queue \/ g = in
  <2>1. IsFiniteSet(more) /\ \A f \in more : f = ev
    BY FS_Singleton
  <2> HIDE DEF ev
  <2> QED
    BY <1>1, <2>1, EnqueueMembers
<1> HIDE DEF more, ev
<1>5. /\ QueueOK'
      /\ \A g \in queue' : g \in queue \/ \E f \in more : SameEvent(f, g)
      /\ queue \subseteq queue'
  <2>1. Grown(aucs, aucs') /\ Grown(objs, objs')
    BY <1>1 DEF Grown
  <2>2. \A f \in more : EventOK(f, aucs', objs', sess')
    BY <1>1, <1>3, <1>4
  <2> QED
    BY <1>1, <1>4, <2>1, <2>2, PostedQueue DEF IInv
<1> HIDE DEF in
<1>6. ASSUME NEW g \in queue', g.type \in FileTypes
      PROVE  g \in queue \/ (g = in /\ g.type = "ADD_RESOURCE_REQUESTS" /\ g.reqs = F)
  <2>1. CASE g \in queue
    BY <2>1
  <2>2. CASE g \notin queue
    <3>1. SameEvent(ev, g)
      BY <1>4, <1>5, <2>2
    <3> QED
      BY <1>3, <1>4, <2>2, <3>1 DEF SameEvent
  <2> QED
    BY <2>1, <2>2
<1>7. \A r : Waiting(r)' => Waiting(r)
  <2>1. ASSUME NEW r, NEW G \in files', r \in G PROVE Waiting(r)
    BY <1>1, <2>1 DEF Waiting
  <2>2. ASSUME NEW r, NEW g \in queue', g.type = "ADD_RESOURCE_REQUESTS", r \in g.reqs
        PROVE  Waiting(r)
    BY <1>6, <2>2 DEF Waiting, FileTypes
  <2> QED
    BY <2>1, <2>2 DEF Waiting
<1>8. IntervalsOnce'
  <2>1. \A g \in queue' : g.type = "ADD_RESOURCE_REQUESTS" => g.reqs \notin files'
    BY <1>1, <1>6 DEF IInv, IntervalsOnce, FileTypes
  <2>2. ASSUME NEW f \in queue', NEW g \in queue',
               f.type = "ADD_RESOURCE_REQUESTS", g.type = f.type, f.reqs = g.reqs
        PROVE  f = g
    <3>1. \A h \in queue : h.type = "ADD_RESOURCE_REQUESTS" => h.reqs # F
      BY DEF IInv, IntervalsOnce
    <3> QED
      BY <1>6, <2>2, <3>1 DEF IInv, IntervalsOnce, FileTypes
  <2>3. ASSUME NEW f \in queue', NEW g \in queue',
               f.type = "REMOVE_RESOURCE_REQUEST_INTERVAL", g.type = f.type, f.req = g.req
        PROVE  f = g
    BY <1>6, <2>3 DEF IInv, IntervalsOnce, FileTypes
  <2>4. ASSUME NEW g \in queue', g.type = "REMOVE_RESOURCE_REQUEST_INTERVAL"
        PROVE  ~sess'[g.req].torn /\ ~Waiting(g.req)'
    BY <1>1, <1>6, <1>7, <2>4 DEF IInv, IntervalsOnce, FileTypes
  <2>5. \A r \in Requests : sess'[r].torn => ~Waiting(r)'
    BY <1>1, <1>7 DEF IInv, IntervalsOnce
  <2> QED
    BY <2>1, <2>2, <2>3, <2>4, <2>5 DEF IntervalsOnce
<1>9. Covered(queue', aucs', objs')
  <2>1. Covered(queue', aucs, objs)
    BY <1>5, CoveredKept DEF IInv
  <2> QED
    BY <1>1, <2>1
<1>10. Types'
  <2>1. files' \subseteq Files
    BY <1>1, <1>2
  <2> QED
    BY <1>1, <2>1 DEF IInv, Types, SessionType
<1>11. ProcessesInv' /\ number' = number /\ requests' = requests /\ present' = present
  <2>1. UNCHANGED processes
    BY <1>1
  <2>2. ProcessesInv'
    BY <2>1, ProcessesKept DEF IInv
  <2> QED
    BY <2>1, <2>2 DEF processes
<1>12. OneAuctionPerName' /\ WindowsOK'
  BY <1>1, <1>11 DEF IInv, OneAuctionPerName, WindowsOK, Installed
<1>13. AnswersOnce' /\ ReferencesCounted'
  BY <1>1, <1>11 DEF IInv, AnswersOnce, ReferencesCounted
<1> QED
  BY <1>5, <1>8, <1>9, <1>10, <1>11, <1>12, <1>13 DEF IInv

\* The events of the intervals of a file.
LEMMA IntervalEventsOK ==
  ASSUME now \in Nat, NEW F \in Files, NEW A, NEW O
  PROVE  /\ IsFiniteSet(IntervalEvents(F))
         /\ \A f \in IntervalEvents(F) :
              /\ f \in Events(A, O) /\ f.type \in IntervalTypes /\ f.req \in F
         /\ \A f, g \in IntervalEvents(F) : f.type = g.type /\ f.req = g.req => f = g
<1> DEFINE begin(r) == [at |-> At(now, Later(Window[r].start, Time)), rank |-> 2 * Place(r, F) - 1,
                        type |-> "ACTIVATE_RESOURCE_REQUEST_INTERVAL", req |-> r]
           end(r) == [at |-> At(now, Window[r].stop), rank |-> 2 * Place(r, F),
                      type |-> "REMOVE_RESOURCE_REQUEST_INTERVAL", req |-> r]
           B == {begin(r) : r \in F}
           E == {end(r) : r \in F}
<1>1. IntervalEvents(F) = B \cup E
  BY DEF IntervalEvents
<1>2. F \subseteq Requests /\ IsFiniteSet(F)
  BY WindowAssumption, AgentAssumption, FS_Subset
<1>3. ASSUME NEW r \in F PROVE Place(r, F) \in Nat \ {0}
  <2> DEFINE P == {q \in F : Window[q].start <= Window[r].start}
  <2>1. IsFiniteSet(P) /\ P # {}
    <3>1. r \in P
      BY <1>2, WindowAssumption
    <3> QED
      BY <1>2, <3>1, FS_Subset
  <2> HIDE DEF P
  <2>2. Cardinality(P) \in Nat /\ Cardinality(P) # 0
    BY <2>1, FS_CardinalityType, FS_EmptySet
  <2> QED
    BY <2>2 DEF P, Place
<1>4. ASSUME NEW r \in F
      PROVE  /\ begin(r) \in [at : Int, rank : Nat, type : IntervalTypes \cup {"CONFIGURE_SESSION"},
                              req : Requests]
             /\ begin(r).type = "ACTIVATE_RESOURCE_REQUEST_INTERVAL" /\ begin(r).req = r
             /\ end(r) \in [at : Int, rank : Nat, type : IntervalTypes \cup {"CONFIGURE_SESSION"},
                            req : Requests]
             /\ end(r).type = "REMOVE_RESOURCE_REQUEST_INTERVAL" /\ end(r).req = r
  <2>1. r \in Requests /\ Window[r].start \in Int /\ Window[r].stop \in Int
    BY <1>2, WindowAssumption
  <2>2. Later(Window[r].start, Time) \in Int
    <3>1. Time \in Int
      BY TimesInt DEF Time
    <3> QED
      BY <2>1, <3>1 DEF Later
  <2>3. At(now, Later(Window[r].start, Time)) \in Int /\ At(now, Window[r].stop) \in Int
    <3>1. now \in Int
      OBVIOUS
    <3>2. \A t \in Int : At(now, t) \in Int
      BY <3>1, TimesInt
    <3> QED
      BY <2>1, <2>2, <3>2, Zenon
  <2>4. 2 * Place(r, F) - 1 \in Nat /\ 2 * Place(r, F) \in Nat
    BY <1>3
  <2> QED
    BY <2>1, <2>3, <2>4 DEF IntervalTypes
<1>5. IsFiniteSet(B) /\ IsFiniteSet(E)
  <2> DEFINE b == [r \in F |-> begin(r)]
             d == [r \in F |-> end(r)]
  <2>1. DOMAIN b = F /\ b = [r \in F |-> b[r]] /\ B = {b[r] : r \in F}
    OBVIOUS
  <2>2. DOMAIN d = F /\ d = [r \in F |-> d[r]] /\ E = {d[r] : r \in F}
    OBVIOUS
  <2> HIDE DEF b, d, B, E
  <2> QED
    BY <1>2, <2>1, <2>2, FiniteImage
<1> HIDE DEF begin, end
<1>6. ASSUME NEW f \in B \cup E
      PROVE  f \in Events(A, O) /\ f.type \in IntervalTypes /\ f.req \in F
  <2>1. \E r \in F : f = begin(r) \/ f = end(r)
    OBVIOUS
  <2> HIDE DEF B, E
  <2> QED
    BY <1>4, <2>1 DEF Events, IntervalTypes
<1>7. ASSUME NEW f \in B \cup E, NEW g \in B \cup E, f.type = g.type, f.req = g.req
      PROVE  f = g
  <2>1. PICK r \in F : f = begin(r) \/ f = end(r)
    OBVIOUS
  <2>2. PICK q \in F : g = begin(q) \/ g = end(q)
    OBVIOUS
  <2> HIDE DEF B, E
  <2>3. r = q
    BY <1>4, <1>7, <2>1, <2>2
  <2> QED
    BY <1>4, <1>7, <2>1, <2>2, <2>3
<1>8. IsFiniteSet(B \cup E)
  BY <1>5, FS_Union
<1> HIDE DEF B, E
<1> QED
  BY <1>1, <1>6, <1>7, <1>8

\* A file is refused, or its intervals get their windows and their two events.
LEMMA AddResourceRequestsKeeps ==
  ASSUME IInv, NEW e \in queue, HandleAddResourceRequests(e)
  PROVE  IInv'
<1> DEFINE F == e.reqs
           more == IntervalEvents(F)
           late == \E r \in F : Window[r].stop <= Time
<1>1. /\ Handling(e, "ADD_RESOURCE_REQUESTS")
      /\ UNCHANGED <<now, aucs, objs, net, files, up, sent, processes>>
      /\ late => queue' = Rest(e) /\ UNCHANGED sess
      /\ ~late => /\ queue' = Enqueue(Rest(e), more)
                  /\ sess' = [r \in Requests |->
                               IF r \in F
                               THEN [sess[r] EXCEPT !.start = Later(Window[r].start, Time),
                                                    !.stop = Window[r].stop]
                               ELSE sess[r]]
  BY Zenon DEF HandleAddResourceRequests
<1>2. e.type = "ADD_RESOURCE_REQUESTS" /\ F \in Files /\ e.type \notin CoverTypes
  <2>1. Handling(e, "ADD_RESOURCE_REQUESTS")
    BY <1>1
  <2> QED
    BY <2>1, Handled, EventShape DEF CoverTypes, AuctionLists
<1>3. now \in Nat /\ sess \in [Requests -> SessionType] /\ F \subseteq Requests
  BY <1>2, WindowAssumption DEF IInv, Types
<1>4. CASE late
  <2>1. up' \in BOOLEAN /\ sent' \subseteq (DOMAIN objs) \X Requests
    BY <1>1 DEF IInv, Types
  <2> QED
    BY <1>1, <1>2, <1>4, <2>1, TakenQuietly
<1>5. CASE ~late
  <2>1. \A r \in F : Time < Window[r].stop
    <3>1. Time \in Int
      BY <1>3, TimesInt DEF Time
    <3> QED
      BY <1>3, <1>5, <3>1, WindowAssumption
  <2>2. ASSUME NEW r \in Requests
        PROVE  /\ sess'[r] \in SessionType
               /\ sess'[r].end = sess[r].end /\ sess'[r].aucs = sess[r].aucs
               /\ sess'[r].torn = sess[r].torn /\ sess'[r].answer = sess[r].answer
               /\ r \in F => sess'[r].start < sess'[r].stop
               /\ r \notin F => sess'[r] = sess[r]
    <3> DEFINE t == Later(Window[r].start, Time)
    <3>1. t \in Nat /\ Window[r].stop \in Nat /\ (r \in F => t < Window[r].stop)
      <4>1. Time \in Nat
        BY <1>3, FracAssumption DEF Time, Sec
      <4> QED
        BY <2>1, <4>1, WindowAssumption DEF Later
    <3>2. sess'[r] = IF r \in F THEN [sess[r] EXCEPT !.start = t, !.stop = Window[r].stop]
                     ELSE sess[r]
      BY <1>1, <1>5
    <3>3. sess[r] \in SessionType
      BY <1>3
    <3> DEFINE s == sess[r]
               u == Window[r].stop
    <3> HIDE DEF t, s, u
    <3>4. CASE r \in F
      <4>1. sess'[r] = [s EXCEPT !.start = t, !.stop = u] /\ s \in SessionType /\ u \in Nat /\ t < u
        BY <3>1, <3>2, <3>3, <3>4 DEF s, u
      <4>2. /\ [s EXCEPT !.start = t, !.stop = u] \in SessionType
            /\ [s EXCEPT !.start = t, !.stop = u].end = s.end
            /\ [s EXCEPT !.start = t, !.stop = u].aucs = s.aucs
            /\ [s EXCEPT !.start = t, !.stop = u].torn = s.torn
            /\ [s EXCEPT !.start = t, !.stop = u].answer = s.answer
            /\ [s EXCEPT !.start = t, !.stop = u].start = t
            /\ [s EXCEPT !.start = t, !.stop = u].stop = u
        BY <3>1, <4>1 DEF SessionType
      <4> QED
        BY <3>4, <4>1, <4>2 DEF s
    <3>5. CASE r \notin F
      BY <3>2, <3>3, <3>5
    <3> QED
      BY <3>4, <3>5
  <2>3. sess' \in [Requests -> SessionType]
    BY <1>1, <1>5, <2>2
  <2>4. \A r \in F : Waiting(r)
    BY <1>2 DEF Waiting
  <2>5. \A r \in F : ~sess[r].torn
    BY <1>3, <2>4 DEF IInv, IntervalsOnce
  <2>6. \A f \in queue : f.type = "REMOVE_RESOURCE_REQUEST_INTERVAL" => f.req \notin F
    BY <2>4 DEF IInv, IntervalsOnce
  <2>7. /\ IsFiniteSet(more)
        /\ \A f \in more : /\ f \in Events(DOMAIN aucs, DOMAIN objs)
                           /\ f.type \in IntervalTypes /\ f.req \in F
        /\ \A f, g \in more : f.type = g.type /\ f.req = g.req => f = g
    BY <1>2, <1>3, IntervalEventsOK
  <2>8. queue' = Enqueue(Rest(e), more)
    BY <1>1, <1>5
  <2> HIDE DEF more, F, late
  <2>9. ASSUME NEW f \in Rest(e) \cup more PROVE EventOK(f, aucs, objs, sess')
    <3>1. CASE f \in more
      BY <1>3, <2>2, <2>7, <3>1 DEF EventOK, IntervalTypes, AuctionLists
    <3>2. CASE f \in Rest(e)
      <4>1. EventOK(f, aucs, objs, sess) /\ f \in Events(DOMAIN aucs, DOMAIN objs)
        BY <3>2, RestOK DEF IInv, EventOK
      <4>2. f.type \in {"ACTIVATE_RESOURCE_REQUEST_INTERVAL", "CREATE_SESSION"} =>
              sess'[f.req].start < sess'[f.req].stop
        BY <2>2, <4>1, EventShape DEF EventOK, IntervalTypes
      <4> QED
        BY <4>1, <4>2 DEF EventOK
    <3> QED
      BY <3>1, <3>2
  <2>10. /\ \A g \in queue' : /\ EventOK(g, aucs, objs, sess')
                              /\ g \in Rest(e) \/ \E f \in more : SameEvent(f, g)
         /\ Rest(e) \subseteq queue'
    <3> DEFINE ss == sess'
    <3>1. \A f \in Rest(e) \cup more : EventOK(f, aucs, objs, ss)
      BY <2>9
    <3> HIDE DEF ss
    <3>2. /\ \A g \in queue' : /\ EventOK(g, aucs, objs, ss)
                               /\ g \in Rest(e) \/ \E f \in more : SameEvent(f, g)
          /\ Rest(e) \subseteq queue'
      BY <2>8, <3>1, Enqueued
    <3> QED
      BY <3>2 DEF ss
  <2>11. QueueOK'
    <3>1. IsFiniteSet(queue')
      BY <2>7, <2>8, EnqueueFinite, RestOK DEF IInv
    <3> QED
      BY <1>1, <2>10, <3>1 DEF QueueOK
  <2>12. Covered(queue', aucs', objs')
    <3>1. \A f \in queue : f.type \in CoverTypes => f \in queue'
      BY <1>2, <2>10 DEF Rest
    <3>2. Covered(queue', aucs, objs)
      BY <3>1, CoveredKept DEF IInv
    <3> QED
      BY <1>1, <3>2
  <2>13. ASSUME NEW g \in queue'
         PROVE  /\ g.type = "ADD_RESOURCE_REQUESTS" => g \in queue /\ g # e
                /\ g.type = "REMOVE_RESOURCE_REQUEST_INTERVAL" => g \in queue \/ g.req \in F
    BY <2>7, <2>10 DEF SameEvent, IntervalTypes, Rest
  <2>14. \A r : Waiting(r)' => Waiting(r)
    BY <1>1, <2>13 DEF Waiting
  <2>15. ASSUME NEW r \in F, Waiting(r)' PROVE FALSE
    <3>1. \A G \in Files : r \in G => G = F
      BY <1>2, WindowAssumption DEF F
    <3>2. files \subseteq Files /\ F \notin files
      BY <1>2 DEF IInv, Types, IntervalsOnce, F
    <3>3. PICK g \in queue' : g.type = "ADD_RESOURCE_REQUESTS" /\ r \in g.reqs
      BY <1>1, <2>15, <3>1, <3>2 DEF Waiting
    <3>4. g \in queue /\ g # e
      BY <2>13, <3>3
    <3>5. g.reqs \in Files
      BY <3>3, <3>4, EventShape DEF IInv, QueueOK, EventOK
    <3>6. g.reqs = e.reqs
      BY <3>1, <3>3, <3>5 DEF F
    <3> QED
      BY <1>2, <3>3, <3>4, <3>6 DEF IInv, IntervalsOnce
  <2>16. ASSUME NEW f \in queue', NEW g \in queue', f.req = g.req, g.type = f.type,
                f.type = "REMOVE_RESOURCE_REQUEST_INTERVAL"
         PROVE  f = g
    <3>1. CASE f \in queue /\ g \in queue
      BY <2>16, <3>1 DEF IInv, IntervalsOnce
    <3>2. CASE ~(f \in queue /\ g \in queue)
      <4>1. f.req \in F
        BY <2>13, <2>16, <3>2
      <4>2. f \notin Rest(e) /\ g \notin Rest(e)
        BY <2>6, <2>16, <4>1 DEF Rest
      <4> DEFINE In(h) == Ranked(h, LastRank(Rest(e), h.at) + h.rank)
      <4>3. (\E h \in more : f = In(h)) /\ (\E h \in more : g = In(h))
        BY <2>8, <4>2, EnqueueMembers
      <4>4. \A h \in more : In(h).type = h.type /\ In(h).req = h.req
        BY <2>7 DEF Ranked, Events, IntervalTypes, AuctionLists
      <4> HIDE DEF In
      <4> QED
        BY <2>7, <2>16, <4>3, <4>4
    <3> QED
      BY <3>1, <3>2
  <2>17. IntervalsOnce'
    <3>1. \A g \in queue' : g.type = "ADD_RESOURCE_REQUESTS" => g.reqs \notin files'
      BY <1>1, <2>13 DEF IInv, IntervalsOnce
    <3>2. \A f, g \in queue' :
            f.type = "ADD_RESOURCE_REQUESTS" /\ g.type = f.type /\ f.reqs = g.reqs => f = g
      BY <2>13 DEF IInv, IntervalsOnce
    <3>3. ASSUME NEW g \in queue', g.type = "REMOVE_RESOURCE_REQUEST_INTERVAL"
          PROVE  ~sess'[g.req].torn /\ ~Waiting(g.req)'
      <4>1. CASE g.req \in F
        BY <1>3, <2>2, <2>5, <2>15, <4>1
      <4>2. CASE g.req \notin F
        <5>1. g \in queue
          BY <2>13, <3>3, <4>2
        <5>2. g.req \in Requests
          BY <3>3, <5>1, EventShape DEF IInv, QueueOK, EventOK, IntervalTypes
        <5>3. ~sess[g.req].torn /\ ~Waiting(g.req)
          BY <3>3, <5>1 DEF IInv, IntervalsOnce
        <5> QED
          BY <2>2, <2>14, <5>2, <5>3
      <4> QED
        BY <4>1, <4>2
    <3>4. \A r \in Requests : sess'[r].torn => ~Waiting(r)'
      BY <2>2, <2>14 DEF IInv, IntervalsOnce
    <3> QED
      BY <2>16, <3>1, <3>2, <3>3, <3>4 DEF IntervalsOnce
  <2>18. Types'
    <3>1. SessionType' = SessionType
      BY <1>1 DEF SessionType
    <3> QED
      BY <1>1, <2>3, <3>1 DEF IInv, Types
  <2>19. ProcessesInv' /\ number' = number /\ requests' = requests /\ present' = present
    <3>1. UNCHANGED processes
      BY <1>1
    <3>2. ProcessesInv'
      BY <3>1, ProcessesKept DEF IInv
    <3> QED
      BY <3>1, <3>2 DEF processes
  <2>20. WindowsOK'
    <3>1. \A i \in DOMAIN requests : requests[i].req \in Requests
      BY DEF IInv, ProcessesInv, ProcessesTypeOK, Process
    <3>2. \A r \in Requests : net'[r] # "idle" => sess'[r].start < sess'[r].stop
      BY <1>1, <2>2 DEF IInv, WindowsOK
    <3> QED
      BY <1>1, <2>2, <2>19, <3>1, <3>2 DEF IInv, WindowsOK
  <2>21. OneAuctionPerName' /\ AnswersOnce' /\ ReferencesCounted'
    <3>1. OneAuctionPerName'
      BY <1>1, <2>19 DEF IInv, OneAuctionPerName, Installed
    <3>2. AnswersOnce'
      BY <2>2, <2>19 DEF IInv, AnswersOnce
    <3>3. ReferencesCounted'
      BY <1>1, <2>2, ZenonT(30) DEF IInv, ReferencesCounted
    <3> QED
      BY <3>1, <3>2, <3>3
  <2> QED
    BY <2>11, <2>12, <2>17, <2>18, <2>19, <2>20, <2>21 DEF IInv
<1> QED
  BY <1>4, <1>5

-----------------------------------------------------------------------------
(***************************************************************************)
(* Copies of events.                                                       *)
(***************************************************************************)

\* What is to happen at once when an answer has come in time.
Flights == {"PUSH_EXECUTION", "ADD_GENERATED_BIDDING_OBJECTS", "TRANSMIT_BIDDING_OBJECTS"}

\* g is f but for its rank.
Copy(f, g) ==
  /\ g.type = f.type /\ g.at = f.at
  /\ f.type = "ADD_RESOURCE_REQUESTS" => g.reqs = f.reqs
  /\ f.type \in Flights => g.index = f.index
  /\ f.type \in IntervalTypes \cup {"CREATE_SESSION"} => g.req = f.req
  /\ f.type \in AuctionLists \cup BidLists => g.objs = f.objs
  /\ f.type = "ADD_GENERATED_BIDDING_OBJECTS" => g.allocs = f.allocs

\* The rank is all that addEvent changes.
LEMMA RankedCopy ==
  ASSUME NEW A, NEW O, NEW e \in Events(A, O), NEW r \in Nat
  PROVE  Copy(e, Ranked(e, r)) /\ Ranked(e, r).rank = r
BY DEF Ranked, Events, Copy, AuctionLists, BidLists, IntervalTypes, Flights

\* What is added to the queue is there as a copy, and what was there stays.
LEMMA EnqueuedCopies ==
  ASSUME NEW A, NEW O, NEW q, NEW S, q \cup S \subseteq Events(A, O)
  PROVE  /\ \A g \in Enqueue(q, S) :
              \/ g \in q
              \/ \E f \in S : Copy(f, g) /\ g.rank = LastRank(q, g.at) + f.rank
         /\ \A f \in S : \E g \in Enqueue(q, S) : Copy(f, g)
         /\ q \subseteq Enqueue(q, S)
<1> DEFINE In(f) == Ranked(f, LastRank(q, f.at) + f.rank)
<1>1. \A e \in q \cup S : e \in Events(A, O) /\ e.rank \in Nat
  BY EventShape
<1>2. \A t : LastRank(q, t) \in Nat
  BY <1>1, LastRankNat
<1>3. ASSUME NEW f \in S
      PROVE  Copy(f, In(f)) /\ In(f).rank = LastRank(q, In(f).at) + f.rank
  <2>0. LastRank(q, f.at) \in Nat /\ f.rank \in Nat
    BY <1>1, <1>2
  <2>1. LastRank(q, f.at) + f.rank \in Nat
    BY <2>0
  <2>2. Copy(f, In(f)) /\ In(f).rank = LastRank(q, f.at) + f.rank
    BY <1>1, <2>1, RankedCopy
  <2> HIDE DEF In
  <2>3. In(f).at = f.at
    BY <2>2 DEF Copy
  <2> QED
    BY <2>2, <2>3, Zenon
<1>4. Enqueue(q, S) = q \cup {In(f) : f \in S}
  BY DEF Enqueue
<1> HIDE DEF In
<1> QED
  BY <1>3, <1>4

\* rescheduleAuctionDelete moves removals of auctions, to the second given, and nothing
\* else.
LEMMA MovedElsewhere ==
  ASSUME NEW A, NEW O, NEW q, IsFiniteSet(q), q \subseteq Events(A, O),
         NEW i, NEW t \in Nat, NEW m, m = RescheduleAuctionDelete(q, i, t)
  PROVE  /\ \A g \in m : g \in q \/ (g.type = "REMOVE_AUCTIONS" /\ g.at = t * Frac)
         /\ \A f \in q : f.type # "REMOVE_AUCTIONS" => f \in m
<1> DEFINE M == {e \in q : e.type = "REMOVE_AUCTIONS" /\ i \in e.objs}
           place(e) == Cardinality({f \in M : ~Before(e, f)})
           to(e) == [e EXCEPT !.at = t * Frac, !.rank = place(e)]
           S == {to(e) : e \in M}
<1>1. m = Enqueue(q \ M, S)
  BY DEF RescheduleAuctionDelete
<1>2. \A e \in M : place(e) \in Nat
  <2> HIDE DEF M
  <2>1. IsFiniteSet(M)
    BY FS_Subset DEF M
  <2>2. \A e : IsFiniteSet({f \in M : ~Before(e, f)})
    BY <2>1, FS_Subset
  <2> QED
    BY <2>2, FS_CardinalityType
<1>3. t * Frac \in Int
  BY FracAssumption
<1> HIDE DEF place
<1>4. ASSUME NEW e \in M
      PROVE  to(e) \in Events(A, O) /\ to(e).at = t * Frac /\ to(e).type = "REMOVE_AUCTIONS"
  <2>1. e \in [at : Int, rank : Nat, type : AuctionLists, objs : ListOf(A)]
    BY DEF Events, AuctionLists, IntervalTypes
  <2>2. e.type = "REMOVE_AUCTIONS"
    OBVIOUS
  <2>3. PICK u \in Int : u = t * Frac
    BY <1>3
  <2>4. PICK p \in Nat : p = place(e)
    BY <1>2
  <2>5. PICK h : h = [e EXCEPT !.at = u, !.rank = p]
    OBVIOUS
  <2>6. /\ h \in [at : Int, rank : Nat, type : AuctionLists, objs : ListOf(A)]
        /\ h.at = u /\ h.type = "REMOVE_AUCTIONS"
    BY ONLY <2>1, <2>2, <2>5, u \in Int, p \in Nat DEF AuctionLists
  <2>7. to(e) = h
    BY <2>3, <2>4, <2>5
  <2> QED
    BY <2>3, <2>6, <2>7 DEF Events
<1>5. \A f \in q : f.type # "REMOVE_AUCTIONS" => f \in q \ M
  OBVIOUS
<1>6. q \ M \subseteq q
  OBVIOUS
<1> HIDE DEF to, M
<1>7. \A f \in S : f \in Events(A, O) /\ f.at = t * Frac /\ f.type = "REMOVE_AUCTIONS"
  BY <1>4
<1> HIDE DEF S
<1>8. /\ \A g \in m : g \in q \ M \/ \E f \in S : Copy(f, g)
      /\ q \ M \subseteq m
  <2>1. (q \ M) \cup S \subseteq Events(A, O)
    BY <1>6, <1>7
  <2> QED
    BY <1>1, <2>1, EnqueuedCopies
<1> QED
  BY <1>5, <1>6, <1>7, <1>8 DEF Copy

\* When the events of new objects are.
LEMMA ScheduledTimes ==
  ASSUME NEW new, NEW base, NEW activate, NEW remove, activate # remove,
         NEW f \in Schedule(new, base, activate, remove)
  PROVE  /\ f.type \in {activate, remove}
         /\ \A o \in f.objs : \E k \in DOMAIN new :
              /\ o = base + k
              /\ f.type = remove => f.at = At(now, new[k].stop)
BY DEF Schedule, With

-----------------------------------------------------------------------------
(***************************************************************************)
(* The answer to a session.                                                *)
(***************************************************************************)

\* Whole periods, and one more, lie beyond where they begin.
LEMMA PeriodsBeyond ==
  ASSUME NEW n \in Nat, NEW d \in Nat, NEW p \in Nat \ {0}
  PROVE  n + p * (d \div p + 1) \in Nat \ {0}
<1> DEFINE m == d \div p
<1>1. m \in Nat
  BY SMTT(30)
<1> HIDE DEF m
<1>2. p * (m + 1) \in Nat /\ p * (m + 1) >= 1
  <2>1. p * (m + 1) = p * m + p
    BY <1>1, SMTT(30)
  <2>2. p * m \in Nat
    BY <1>1, SMTT(30)
  <2> DEFINE x == p * m
             y == p * (m + 1)
  <2> HIDE DEF x, y
  <2>3. x \in Nat /\ y = x + p
    BY <2>1, <2>2 DEF x, y
  <2>4. y \in Nat /\ y >= 1
    BY <2>3
  <2> QED
    BY <2>4 DEF y
<1> DEFINE z == p * (m + 1)
<1> HIDE DEF z
<1>3. n + z \in Nat \ {0}
  BY <1>2 DEF z
<1> QED
  BY <1>3 DEF m, z

\* An auction that is installed lies in the window of its session or has its own
\* end, which is not 0.
LEMMA NewAuctionOK ==
  ASSUME NEW a \in Auctions, NEW s, s.start \in Nat, s.stop \in Nat, s.start < s.stop
  PROVE  /\ NewAuction(a, s) \in AuctionType
         /\ NewAuction(a, s).name = a /\ NewAuction(a, s).state = "valid"
         /\ NewAuction(a, s).sessions = {} /\ NewAuction(a, s).stop > 0
<1> DEFINE w == IntersectInterval(Offer[a], s)
<1>1. /\ Offer[a].start \in Nat /\ Offer[a].stop \in Nat
      /\ Offer[a].start < Offer[a].stop /\ Offer[a].ival \in Nat
  BY WindowAssumption
<1>2. w.start \in Nat /\ w.stop \in Nat /\ w.start < w.stop
  BY <1>1 DEF IntersectInterval
<1> HIDE DEF w
<1> DEFINE p == Offer[a].ival
<1>3. RoundUp(w, p) \in Nat \ {0}
  <2>1. CASE p > 0
    <3>1. w.stop - w.start \in Nat /\ p \in Nat \ {0}
      BY <1>1, <1>2, <2>1
    <3> HIDE DEF p
    <3>2. w.start + p * ((w.stop - w.start) \div p + 1) \in Nat \ {0}
      BY <1>2, <3>1, PeriodsBeyond
    <3>3. RoundUp(w, p) \in {w.start + p * ((w.stop - w.start) \div p + 1), w.stop}
      BY DEF RoundUp
    <3>4. w.stop \in Nat \ {0}
      BY <1>2
    <3> QED
      BY <3>2, <3>3, <3>4
  <2>2. CASE ~(p > 0)
    BY <1>2, <2>2 DEF RoundUp
  <2> QED
    BY <2>1, <2>2
<1>4. NewAuction(a, s) = [name |-> a, start |-> w.start, stop |-> RoundUp(w, p),
                          state |-> "valid", sessions |-> {}]
  BY DEF NewAuction, w
<1> DEFINE t == RoundUp(w, p)
<1> HIDE DEF t, p
<1>5. t \in Nat /\ t > 0
  BY <1>3 DEF t
<1> QED
  BY <1>2, <1>4, <1>5 DEF AuctionType, t

\* The last of them ends beyond d.
LEMMA PeriodsPast ==
  ASSUME NEW n \in Nat, NEW d \in Nat, NEW p \in Nat \ {0}
  PROVE  n + d < n + p * (d \div p + 1)
<1> DEFINE m == d \div p
<1>1. m \in Nat /\ d < m * p + p
  BY DivBounds
<1> HIDE DEF m
<1>2. p * (m + 1) = m * p + p /\ m * p \in Nat
  BY <1>1, SMTT(30)
<1> DEFINE x == m * p
           y == p * (m + 1)
<1> HIDE DEF x, y
<1>3. y = x + p /\ x \in Nat /\ d < x + p
  BY <1>1, <1>2 DEF x, y
<1>4. n + d < n + y
  BY <1>3
<1> QED
  BY <1>4 DEF y, m

\* The process of a session has an end, which is not 0 and not before the session's
\* stop.
LEMMA RequestEndBeyond ==
  ASSUME NEW s, s.start \in Nat, s.stop \in Nat, s.start < s.stop,
         NEW S \in SUBSET Auctions, S # {}, IsFiniteSet(S)
  PROVE  RequestEnd(s, S) \in Nat \ {0} /\ s.stop <= RequestEnd(s, S)
<1> DEFINE ivals == {Offer[a].ival : a \in S}
           longest == CHOOSE n \in ivals : \A m \in ivals : m <= n
<1>1. ivals \in SUBSET Nat /\ ivals # {}
  BY WindowAssumption
<1>2. IsFiniteSet(ivals)
  <2> DEFINE g == [a \in S |-> Offer[a].ival]
  <2>1. DOMAIN g = S /\ g = [a \in S |-> g[a]] /\ ivals = {g[a] : a \in S}
    OBVIOUS
  <2> HIDE DEF g, ivals
  <2> QED
    BY <2>1, FiniteImage
<1>3. longest \in Nat
  <2> HIDE DEF ivals
  <2>1. \E n \in ivals : \A m \in ivals : m <= n
    BY <1>1, <1>2, Greatest
  <2> QED
    BY <1>1, <2>1
<1>4. RequestEnd(s, S) = IF longest > 0
                         THEN s.start + longest * ((s.stop - s.start) \div longest + 1)
                         ELSE s.stop
  BY DEF RequestEnd
<1> HIDE DEF longest
<1>5. CASE longest > 0
  <2>1. s.stop - s.start \in Nat /\ longest \in Nat \ {0}
    BY <1>3, <1>5
  <2> DEFINE end == s.start + longest * ((s.stop - s.start) \div longest + 1)
  <2>2. s.start + (s.stop - s.start) < end
    BY <2>1, PeriodsPast
  <2>3. end \in Nat \ {0}
    BY <2>1, PeriodsBeyond
  <2>4. RequestEnd(s, S) = end
    BY <1>4, <1>5
  <2> HIDE DEF end
  <2> QED
    BY <2>2, <2>3, <2>4
<1>6. CASE ~(longest > 0)
  BY <1>4, <1>6
<1> QED
  BY <1>5, <1>6

\* createAuctions finds the new auctions of a list: all but the last place, if that
\* holds one that is installed.
LEMMA FreshNames ==
  ASSUME NEW list \in Answers, WalkSound(list)
  PROVE  /\ Fresh(list) \in Seq(Auctions) /\ DOMAIN Fresh(list) \subseteq DOMAIN list
         /\ \A k \in DOMAIN Fresh(list) : Fresh(list)[k] = list[k] /\ list[k] \notin present
         /\ \A k \in DOMAIN list : k \in DOMAIN Fresh(list) \/ list[k] \in present
         /\ \A k, l \in DOMAIN Fresh(list) : Fresh(list)[k] = Fresh(list)[l] => k = l
<1> DEFINE n == Len(list)
           P == Positions(list)
           m == n - Cardinality(P)
<1>1. /\ list \in Seq(Auctions) /\ list # <<>>
      /\ \A k, l \in DOMAIN list : list[k] = list[l] => k = l
  BY WindowAssumption
<1>2. n \in Nat /\ n > 0 /\ DOMAIN list = 1 .. n
  BY <1>1, EmptySeq, LenProperties
<1>3. P \subseteq {n} /\ P \subseteq DOMAIN list
      /\ \A k \in DOMAIN list : k \in P <=> list[k] \in present
  BY DEF WalkSound, Positions
<1> HIDE DEF P
<1>4. /\ m \in Nat /\ m <= n
      /\ \A k \in 1 .. n : k \in P <=> k > m
  <2>1. CASE P = {}
    <3>1. Cardinality(P) = 0
      BY <2>1, FS_EmptySet
    <3> QED
      BY <1>2, <2>1, <3>1
  <2>2. CASE P = {n}
    <3>1. Cardinality(P) = 1
      BY <2>2, FS_Singleton
    <3>2. m = n - 1
      BY <3>1
    <3>3. \A k : k \in P <=> k = n
      BY <2>2
    <3> HIDE DEF m, n
    <3> QED
      BY <1>2, <3>2, <3>3
  <2> QED
    BY <1>3, <2>1, <2>2
<1> HIDE DEF m
<1>5. Fresh(list) = SubSeq(list, 1, m)
  BY DEF Fresh, m, n, P
<1>6. /\ SubSeq(list, 1, m) \in Seq(Auctions) /\ DOMAIN SubSeq(list, 1, m) = 1 .. m
      /\ \A k \in 1 .. m : SubSeq(list, 1, m)[k] = list[k]
  <2>1. 1 .. m \subseteq 1 .. n
    BY <1>2, <1>4
  <2>2. \A k \in 1 .. m : list[k] \in Auctions
    BY <1>1, <1>2, <2>1, ElementOfSeq
  <2> DEFINE t == SubSeq(list, 1, m)
  <2>3. /\ t \in Seq(Auctions) /\ Len(t) = (IF 1 <= m THEN m - 1 + 1 ELSE 0)
        /\ \A k \in 1 .. m - 1 + 1 : t[k] = list[1 + k - 1]
    BY <1>4, <2>2, SubSeqProperties
  <2> HIDE DEF t
  <2>4. Len(t) = m /\ \A k \in 1 .. m : t[k] = list[k]
    BY <1>4, <2>3
  <2> QED
    BY <2>3, <2>4, LenProperties DEF t
<1> QED
  BY <1>1, <1>2, <1>3, <1>4, <1>5, <1>6

\* The numbers that names of installed auctions stand for.
LEMMA KnownNumbers ==
  ASSUME OneAuctionPerName, NEW T \in SUBSET present
  PROVE  \A i \in {NumberOf(a) : a \in T} : Installed(i) /\ i \in DOMAIN aucs /\ aucs[i].name \in T
<1> SUFFICES ASSUME NEW a \in T
             PROVE  LET i == NumberOf(a)
                    IN  Installed(i) /\ i \in DOMAIN aucs /\ aucs[i].name \in T
  OBVIOUS
<1>1. \E i \in DOMAIN aucs : aucs[i].name = a /\ Installed(i)
  BY DEF OneAuctionPerName
<1>2. NumberOf(a) \in DOMAIN aucs /\ aucs[NumberOf(a)].name = a /\ Installed(NumberOf(a))
  BY <1>1 DEF NumberOf
<1> QED
  BY <1>2

\* The auctions as are those of list, and r refers to those in numbers.
Referring(as, list, numbers, r) ==
  /\ as \in Seq(AuctionType) /\ DOMAIN as = DOMAIN list
  /\ \A i \in DOMAIN list :
       /\ as[i].name = list[i].name /\ as[i].state = list[i].state
       /\ i \in numbers => as[i].sessions = list[i].sessions \cup {r}
       /\ i \notin numbers => as[i].sessions = list[i].sessions

\* A session refers to the auctions it lists.
LEMMA ReferencesGiven ==
  ASSUME NEW list \in Seq(AuctionType), NEW numbers, NEW r \in Requests,
         NEW as, as = Referenced(list, numbers, r)
  PROVE  Referring(as, list, numbers, r)
<1>1. \A i \in DOMAIN list : list[i] \in AuctionType
  BY ElementOfSeq, LenProperties
<1> DEFINE given(i) == IF i \in numbers THEN [list[i] EXCEPT !.sessions = @ \cup {r}] ELSE list[i]
<1>2. ASSUME NEW i \in DOMAIN list
      PROVE  /\ given(i) \in AuctionType
             /\ given(i).name = list[i].name /\ given(i).state = list[i].state
             /\ i \in numbers => given(i).sessions = list[i].sessions \cup {r}
             /\ i \notin numbers => given(i).sessions = list[i].sessions
  <2> DEFINE a == list[i]
  <2>1. a \in AuctionType
    BY <1>1
  <2> HIDE DEF a
  <2>2. /\ [a EXCEPT !.sessions = @ \cup {r}] \in AuctionType
        /\ [a EXCEPT !.sessions = @ \cup {r}].name = a.name
        /\ [a EXCEPT !.sessions = @ \cup {r}].state = a.state
        /\ [a EXCEPT !.sessions = @ \cup {r}].sessions = a.sessions \cup {r}
    BY <2>1 DEF AuctionType
  <2> QED
    BY <2>1, <2>2 DEF a
<1>3. as = [i \in DOMAIN list |-> given(i)]
  BY DEF Referenced
<1> HIDE DEF given
<1>4. as \in [DOMAIN list -> AuctionType]
  BY <1>2, <1>3
<1>5. as \in Seq(AuctionType)
  BY <1>4, Mapped
<1> QED
  BY <1>2, <1>3, <1>5 DEF Referring

\* The auctions that a session uses longer.
Extended(known, s) ==
  [i \in DOMAIN aucs |->
     IF i \in known
     THEN [aucs[i] EXCEPT !.start = Sooner(@, s.start), !.stop = Later(@, s.stop)]
     ELSE aucs[i]]

\* They keep their names, their states and their sessions.
LEMMA ExtendedAuctions ==
  ASSUME aucs \in Seq(AuctionType), NEW known, NEW s, s.start \in Nat, s.stop \in Nat
  PROVE  /\ Extended(known, s) \in Seq(AuctionType) /\ DOMAIN Extended(known, s) = DOMAIN aucs
         /\ Len(Extended(known, s)) = Len(aucs)
         /\ \A i \in DOMAIN aucs :
              /\ Extended(known, s)[i].name = aucs[i].name
              /\ Extended(known, s)[i].state = aucs[i].state
              /\ Extended(known, s)[i].sessions = aucs[i].sessions
<1>1. \A i \in DOMAIN aucs : aucs[i] \in AuctionType
  BY ElementOfSeq, LenProperties
<1> DEFINE longer(i) == [aucs[i] EXCEPT !.start = Sooner(@, s.start), !.stop = Later(@, s.stop)]
           E == Extended(known, s)
<1>2. ASSUME NEW i \in DOMAIN aucs
      PROVE  /\ longer(i) \in AuctionType /\ longer(i).name = aucs[i].name
             /\ longer(i).state = aucs[i].state /\ longer(i).sessions = aucs[i].sessions
  <2> DEFINE a == aucs[i]
  <2>1. a \in AuctionType
    BY <1>1
  <2> HIDE DEF a
  <2>2. Sooner(a.start, s.start) \in Int /\ Later(a.stop, s.stop) \in Nat
    BY <2>1 DEF Sooner, Later, AuctionType
  <2> DEFINE t == Sooner(a.start, s.start)
             u == Later(a.stop, s.stop)
  <2> HIDE DEF t, u
  <2>3. /\ [a EXCEPT !.start = t, !.stop = u] \in AuctionType
        /\ [a EXCEPT !.start = t, !.stop = u].name = a.name
        /\ [a EXCEPT !.start = t, !.stop = u].state = a.state
        /\ [a EXCEPT !.start = t, !.stop = u].sessions = a.sessions
    BY <2>1, <2>2 DEF AuctionType, t, u
  <2>4. longer(i) = [a EXCEPT !.start = t, !.stop = u]
    BY DEF a, t, u
  <2> HIDE DEF longer
  <2> QED
    BY <2>3, <2>4 DEF a
<1>3. E = [i \in DOMAIN aucs |-> IF i \in known THEN longer(i) ELSE aucs[i]]
  BY DEF Extended
<1> HIDE DEF longer, E
<1>4. E \in [DOMAIN aucs -> AuctionType]
  BY <1>1, <1>2, <1>3
<1>5. E \in Seq(AuctionType) /\ DOMAIN E = DOMAIN aucs
  BY <1>4, Mapped
<1>6. Len(E) = Len(aucs)
  <2>1. DOMAIN E = 1 .. Len(E) /\ DOMAIN aucs = 1 .. Len(aucs) /\ Len(E) \in Nat /\ Len(aucs) \in Nat
    BY <1>5, LenProperties
  <2> DEFINE n == Len(E)
             m == Len(aucs)
  <2> HIDE DEF n, m
  <2>2. n \in Nat /\ m \in Nat /\ \A i : i \in 1 .. n <=> i \in 1 .. m
    BY <1>5, <2>1 DEF n, m
  <2>3. n <= m /\ m <= n
    <3>1. n > 0 => n \in 1 .. n
      BY <2>2
    <3>2. m > 0 => m \in 1 .. m
      BY <2>2
    <3> QED
      BY <2>2, <3>1, <3>2
  <2> QED
    BY <2>2, <2>3 DEF n, m
<1>7. \A i \in DOMAIN aucs : E[i].name = aucs[i].name /\ E[i].state = aucs[i].state
                              /\ E[i].sessions = aucs[i].sessions
  BY <1>2, <1>3
<1> QED
  BY <1>5, <1>6, <1>7 DEF E

\* The auctions after an answer: those there were, and the new ones at the end.
Created(as, new, known, r) ==
  /\ as \in Seq(AuctionType) /\ DOMAIN aucs \subseteq DOMAIN as
  /\ \A i \in DOMAIN aucs :
       /\ as[i].name = aucs[i].name /\ as[i].state = aucs[i].state
       /\ i \in known => as[i].sessions = aucs[i].sessions \cup {r}
       /\ i \notin known => as[i].sessions = aucs[i].sessions
  /\ \A k \in DOMAIN new :
       /\ Len(aucs) + k \in DOMAIN as /\ Len(aucs) + k \notin DOMAIN aucs
       /\ as[Len(aucs) + k].name = new[k].name /\ as[Len(aucs) + k].state = new[k].state
       /\ as[Len(aucs) + k].sessions = new[k].sessions \cup {r}
  /\ \A i \in DOMAIN as : i \notin DOMAIN aucs => \E k \in DOMAIN new : i = Len(aucs) + k

\* The numbers of new objects.
Following(base, new) == {base + k : k \in DOMAIN new}

\* createAuctions and increaseSessionReferences.
LEMMA CreatedAuctions ==
  ASSUME aucs \in Seq(AuctionType), NEW known \in SUBSET DOMAIN aucs,
         NEW s, s.start \in Nat, s.stop \in Nat,
         NEW new \in Seq(AuctionType), NEW r \in Requests, NEW listed,
         listed = known \cup Following(Len(aucs), new),
         NEW as, as = Referenced(Extended(known, s) \o new, listed, r)
  PROVE  Created(as, new, known, r) /\ listed \subseteq DOMAIN as
<1> DEFINE E == Extended(known, s)
           B == Len(aucs)
           L == E \o new
<1>1. /\ E \in Seq(AuctionType) /\ DOMAIN E = DOMAIN aucs /\ Len(E) = B
      /\ \A i \in DOMAIN aucs : E[i].name = aucs[i].name /\ E[i].state = aucs[i].state
                                /\ E[i].sessions = aucs[i].sessions
  BY ExtendedAuctions
<1>2. DOMAIN aucs = 1 .. B /\ B \in Nat /\ DOMAIN new = 1 .. Len(new) /\ Len(new) \in Nat
  BY LenProperties
<1> HIDE DEF E
<1>3. /\ L \in Seq(AuctionType) /\ DOMAIN aucs \subseteq DOMAIN L
      /\ \A k \in DOMAIN new : B + k \in DOMAIN L /\ L[B + k] = new[k]
      /\ \A i \in DOMAIN aucs : L[i] = E[i]
      /\ \A i \in DOMAIN L : i \notin DOMAIN aucs => \E k \in DOMAIN new : i = B + k
  BY <1>1, Appended, SMTT(30)
<1>4. \A k \in DOMAIN new : B + k \notin DOMAIN aucs
  BY <1>2
<1> HIDE DEF B, L
<1>5. as = Referenced(L, listed, r)
  BY DEF L, E
<1>6. /\ as \in Seq(AuctionType) /\ DOMAIN as = DOMAIN L
      /\ \A i \in DOMAIN L :
           /\ as[i].name = L[i].name /\ as[i].state = L[i].state
           /\ i \in listed => as[i].sessions = L[i].sessions \cup {r}
           /\ i \notin listed => as[i].sessions = L[i].sessions
  <2>1. L \in Seq(AuctionType)
    BY <1>3
  <2>2. Referring(as, L, listed, r)
    BY <1>5, <2>1, ReferencesGiven
  <2> QED
    BY <2>2 DEF Referring
<1>7. listed = known \cup {B + k : k \in DOMAIN new}
  BY DEF B, Following
<1>8. \A i \in DOMAIN aucs : i \in listed <=> i \in known
  BY <1>4, <1>7
<1>9. \A k \in DOMAIN new : B + k \in listed
  BY <1>7
<1>10. \A i \in DOMAIN aucs :
         /\ as[i].name = aucs[i].name /\ as[i].state = aucs[i].state
         /\ i \in known => as[i].sessions = aucs[i].sessions \cup {r}
         /\ i \notin known => as[i].sessions = aucs[i].sessions
  <2> SUFFICES ASSUME NEW i \in DOMAIN aucs
               PROVE  /\ as[i].name = aucs[i].name /\ as[i].state = aucs[i].state
                      /\ i \in known => as[i].sessions = aucs[i].sessions \cup {r}
                      /\ i \notin known => as[i].sessions = aucs[i].sessions
    OBVIOUS
  <2>1. i \in DOMAIN L /\ L[i] = E[i]
    BY <1>3
  <2>2. L[i].name = aucs[i].name /\ L[i].state = aucs[i].state /\ L[i].sessions = aucs[i].sessions
    BY <1>1, <2>1
  <2> QED
    BY <1>6, <1>8, <2>1, <2>2
<1>11. \A k \in DOMAIN new :
         /\ B + k \in DOMAIN as /\ B + k \notin DOMAIN aucs
         /\ as[B + k].name = new[k].name /\ as[B + k].state = new[k].state
         /\ as[B + k].sessions = new[k].sessions \cup {r}
  BY <1>3, <1>4, <1>6, <1>9
<1>12. listed \subseteq DOMAIN as /\ DOMAIN aucs \subseteq DOMAIN as
  BY <1>3, <1>6, <1>7
<1>13. \A i \in DOMAIN as : i \notin DOMAIN aucs => \E k \in DOMAIN new : i = B + k
  BY <1>3, <1>6
<1> QED
  BY <1>6, <1>10, <1>11, <1>12, <1>13 DEF Created, B

\* The removals of an auction that is used longer move; no event goes.
LEMMA MovedRemovals ==
  ASSUME NEW q, IsFiniteSet(q), \A f \in q : EventOK(f, aucs, objs, sess),
         NEW i, NEW t \in Nat, NEW m, m = RescheduleAuctionDelete(q, i, t)
  PROVE  /\ IsFiniteSet(m)
         /\ \A g \in m : /\ EventOK(g, aucs, objs, sess)
                         /\ g \in q \/ g.type = "REMOVE_AUCTIONS"
         /\ \A f \in q : \E g \in m : SameEvent(f, g)
<1> DEFINE M == {e \in q : e.type = "REMOVE_AUCTIONS" /\ i \in e.objs}
           place(e) == Cardinality({f \in M : ~Before(e, f)})
           to(e) == [e EXCEPT !.at = t * Frac, !.rank = place(e)]
           S == {to(e) : e \in M}
<1>1. m = Enqueue(q \ M, S)
  BY DEF RescheduleAuctionDelete
<1>2. IsFiniteSet(M) /\ IsFiniteSet(q \ M)
  BY FS_Subset
<1>3. \A e \in M : place(e) \in Nat
  <2> HIDE DEF M
  <2>1. \A e : IsFiniteSet({f \in M : ~Before(e, f)})
    BY <1>2, FS_Subset
  <2> QED
    BY <2>1, FS_CardinalityType
<1>4. t * Frac \in Int
  BY FracAssumption
<1>5. \A e \in M : e \in Events(DOMAIN aucs, DOMAIN objs) /\ EventOK(e, aucs, objs, sess)
                   /\ e.type = "REMOVE_AUCTIONS"
  BY DEF EventOK
<1> HIDE DEF M, place
<1>6. ASSUME NEW e \in M
      PROVE  EventOK(to(e), aucs, objs, sess) /\ SameEvent(e, to(e)) /\ to(e).type = "REMOVE_AUCTIONS"
  <2>1. to(e) \in Events(DOMAIN aucs, DOMAIN objs) /\ SameEvent(e, to(e))
    BY <1>3, <1>4, <1>5, MovedEvent
  <2> HIDE DEF to
  <2>2. to(e).type = "REMOVE_AUCTIONS"
    BY <1>5, <2>1 DEF SameEvent
  <2> QED
    BY <1>5, <2>1, <2>2, SameEventOK
<1>7. IsFiniteSet(S)
  <2> DEFINE g == [e \in M |-> to(e)]
  <2>1. DOMAIN g = M /\ g = [e \in M |-> g[e]] /\ S = {g[e] : e \in M}
    OBVIOUS
  <2> HIDE DEF g, S
  <2> QED
    BY <1>2, <2>1, FiniteImage
<1> HIDE DEF to
<1>8. \A f \in S : EventOK(f, aucs, objs, sess) /\ f.type = "REMOVE_AUCTIONS"
  BY <1>6
<1>9. \A e \in M : \E f \in S : SameEvent(e, f)
  BY <1>6
<1> HIDE DEF S
<1>10. /\ \A g \in m : /\ EventOK(g, aucs, objs, sess)
                       /\ g \in q \ M \/ \E f \in S : SameEvent(f, g)
       /\ \A f \in S : \E g \in m : SameEvent(f, g)
       /\ q \ M \subseteq m
  <2>1. \A f \in (q \ M) \cup S : EventOK(f, aucs, objs, sess)
    BY <1>8
  <2> QED
    BY <1>1, <2>1, Enqueued
<1>11. \A g \in m : g \in q \/ g.type = "REMOVE_AUCTIONS"
  BY <1>8, <1>10 DEF SameEvent
<1>12. IsFiniteSet(m)
  BY <1>1, <1>2, <1>7, EnqueueFinite
<1>13. ASSUME NEW f \in q PROVE \E g \in m : SameEvent(f, g)
  <2>1. CASE f \in M
    <3>1. PICK h \in S : SameEvent(f, h)
      BY <1>9, <2>1
    <3>2. PICK g \in m : SameEvent(h, g)
      BY <1>10
    <3> QED
      BY <1>5, <1>8, <2>1, <3>1, <3>2 DEF SameEvent, IntervalTypes, AuctionLists
  <2>2. CASE f \notin M
    BY <1>10, <2>2 DEF SameEvent
  <2> QED
    BY <2>1, <2>2
<1> QED
  BY <1>10, <1>11, <1>12, <1>13

\* The events that a process brings: its execution and its end.
ProcessEvents(t, u, index, r) ==
  {[at |-> At(now, t), rank |-> 3, type |-> "PUSH_EXECUTION", index |-> index],
   [at |-> At(now, u), rank |-> 4, type |-> "REMOVE_PUSH_EXECUTION", index |-> index, req |-> r]}

ProcessTypes == {"PUSH_EXECUTION", "REMOVE_PUSH_EXECUTION"}

\* They refer to no object.
LEMMA ProcessEventsOK ==
  ASSUME now \in Int, NEW t \in Int, NEW u \in Int, NEW index \in Numbers, NEW r \in Requests,
         NEW as, NEW os, NEW ss
  PROVE  /\ IsFiniteSet(ProcessEvents(t, u, index, r))
         /\ \A f \in ProcessEvents(t, u, index, r) :
              EventOK(f, as, os, ss) /\ f.type \in ProcessTypes
<1> DEFINE push == [at |-> At(now, t), rank |-> 3, type |-> "PUSH_EXECUTION", index |-> index]
           pop == [at |-> At(now, u), rank |-> 4, type |-> "REMOVE_PUSH_EXECUTION",
                   index |-> index, req |-> r]
<1>1. At(now, t) \in Int /\ At(now, u) \in Int
  BY TimesInt
<1>2. push \in [at : Int, rank : Nat, type : {"PUSH_EXECUTION"}, index : Numbers]
  BY <1>1
<1>3. pop \in [at : Int, rank : Nat, type : {"REMOVE_PUSH_EXECUTION"}, index : Numbers,
               req : Requests]
  BY <1>1
<1>4. ProcessEvents(t, u, index, r) = {push, pop}
  BY DEF ProcessEvents
<1> HIDE DEF push, pop
<1>5. EventOK(push, as, os, ss) /\ push.type \in ProcessTypes
  BY <1>2 DEF EventOK, Events, AuctionLists, ProcessTypes
<1>6. EventOK(pop, as, os, ss) /\ pop.type \in ProcessTypes
  BY <1>3 DEF EventOK, Events, AuctionLists, ProcessTypes
<1>7. IsFiniteSet({push, pop})
  <2>1. IsFiniteSet({push}) /\ IsFiniteSet({pop}) /\ {push, pop} = {push} \cup {pop}
    BY FS_Singleton
  <2> QED
    BY <2>1, FS_Union
<1> QED
  BY <1>4, <1>5, <1>6, <1>7

\* The events of new auctions, which begin and end them.
LEMMA AuctionListsOK ==
  ASSUME now \in Int, aucs \in Seq(AuctionType), NEW new \in Seq(AuctionType),
         \A k \in DOMAIN new : new[k].state = "valid" /\ new[k].stop > 0,
         NEW as, NEW known, NEW r, Created(as, new, known, r), NEW os, NEW ss,
         NEW events, events = Schedule(new, Len(aucs), "ACTIVATE_AUCTIONS", "REMOVE_AUCTIONS")
  PROVE  /\ IsFiniteSet(events)
         /\ \A f \in events : EventOK(f, as, os, ss) /\ f.type \in AuctionLists
         /\ \A k \in DOMAIN new :
              \E f \in events : f.type = "REMOVE_AUCTIONS" /\ Len(aucs) + k \in f.objs
<1> DEFINE base == Len(aucs)
           numbers == {base + k : k \in DOMAIN new}
           activate == "ACTIVATE_AUCTIONS"
           remove == "REMOVE_AUCTIONS"
<1>1. base \in Nat /\ IsFiniteSet(DOMAIN new)
  BY LenProperties, FinitePositions
<1>2. \A k \in DOMAIN new : new[k].start \in Int /\ new[k].stop \in Int
  <2>1. \A k \in DOMAIN new : new[k] \in AuctionType
    BY ElementOfSeq, LenProperties
  <2> QED
    BY <2>1 DEF AuctionType
<1> HIDE DEF activate, remove
<1>3. ListsOf(events, new, base, activate, remove)
  <2>1. ListsOf(Schedule(new, base, activate, remove), new, base, activate, remove)
    BY <1>1, <1>2, Scheduled
  <2> QED
    BY <2>1 DEF activate, remove
<1>4. \A i \in numbers : i \in DOMAIN as /\ as[i].state # "done"
  BY DEF Created
<1> HIDE DEF base, numbers
<1>5. ASSUME NEW f \in events
      PROVE  EventOK(f, as, os, ss) /\ f.type \in AuctionLists
  <2>1. PICK t \in Int, rank \in Nat, type \in {activate, remove}, ids \in ListOf(numbers) :
          f = [at |-> t, rank |-> rank, type |-> type, objs |-> ids]
    BY <1>3 DEF ListsOf, numbers
  <2>2. ids \in ListOf(DOMAIN as) /\ \A i \in ids : as[i].state # "done"
    BY <1>4, <2>1 DEF ListOf
  <2>3. /\ f \in [at : Int, rank : Nat, type : AuctionLists, objs : ListOf(DOMAIN as)]
        /\ f.objs = ids /\ f.type \in AuctionLists
    BY <2>1, <2>2 DEF AuctionLists, activate, remove
  <2>4. f \in Events(DOMAIN as, DOMAIN os)
    BY <2>3 DEF Events
  <2> QED
    BY <2>2, <2>3, <2>4 DEF EventOK, AuctionLists
<1>6. ASSUME NEW k \in DOMAIN new
      PROVE  \E f \in events : f.type = "REMOVE_AUCTIONS" /\ Len(aucs) + k \in f.objs
  <2>1. new[k].stop # 0
    BY <1>2
  <2> QED
    BY <1>3, <2>1 DEF ListsOf, remove, base
<1> QED
  BY <1>3, <1>5, <1>6 DEF ListsOf

\* A session whose process is overwritten remembers it.
LEMMA ReplacedSession ==
  ASSUME sess \in [Requests -> SessionType], NEW index, NEW q \in Requests
  PROVE  /\ Replaced(index)[q] \in SessionType
         /\ Replaced(index)[q] =
              IF /\ sess[q].answer = "in time"
                 /\ index \in DOMAIN requests /\ requests[index].req = q
              THEN [sess[q] EXCEPT !.answer = "replaced"] ELSE sess[q]
<1>1. PICK s : s = sess[q] /\ s \in SessionType
  OBVIOUS
<1> DEFINE There == index \in DOMAIN requests /\ requests[index].req = q
<1>2. Replaced(index)[q] =
        IF s.answer = "in time" /\ There THEN [s EXCEPT !.answer = "replaced"] ELSE s
  BY <1>1, Zenon DEF Replaced
<1>3. [s EXCEPT !.answer = "replaced"] \in SessionType
  BY <1>1 DEF SessionType
<1> HIDE DEF There
<1>4. Replaced(index)[q] \in SessionType
  BY <1>1, <1>2, <1>3, Zenon
<1> QED
  BY <1>1, <1>2, <1>4, Zenon DEF There

\* What it is otherwise it stays.
LEMMA ReplacedFields ==
  ASSUME sess \in [Requests -> SessionType], NEW index, NEW q \in Requests
  PROVE  /\ Replaced(index)[q].start = sess[q].start /\ Replaced(index)[q].stop = sess[q].stop
         /\ Replaced(index)[q].end = sess[q].end /\ Replaced(index)[q].aucs = sess[q].aucs
         /\ Replaced(index)[q].torn = sess[q].torn
         /\ \/ Replaced(index)[q].answer = sess[q].answer
            \/ sess[q].answer = "in time" /\ Replaced(index)[q].answer = "replaced"
         /\ index \in DOMAIN requests /\ requests[index].req = q =>
              Replaced(index)[q].answer # "in time"
<1>1. PICK s : s = sess[q] /\ s \in SessionType
  OBVIOUS
<1> DEFINE There == index \in DOMAIN requests /\ requests[index].req = q
<1>2. PICK t : t = Replaced(index)[q]
  OBVIOUS
<1>3. t = IF s.answer = "in time" /\ There THEN [s EXCEPT !.answer = "replaced"] ELSE s
  BY <1>1, <1>2, ReplacedSession, Zenon
<1> HIDE DEF There
<1>4. /\ t.start = s.start /\ t.stop = s.stop /\ t.end = s.end /\ t.aucs = s.aucs
      /\ t.torn = s.torn
      /\ \/ t.answer = s.answer
         \/ s.answer = "in time" /\ t.answer = "replaced"
      /\ There => t.answer # "in time"
  BY ONLY <1>1, <1>3 DEF SessionType
<1> QED
  BY <1>1, <1>2, <1>4, Zenon DEF There

\* All sessions are such.
LEMMA ReplacedSessions ==
  ASSUME sess \in [Requests -> SessionType], NEW index
  PROVE  Replaced(index) \in [Requests -> SessionType]
<1>1. \A q \in Requests : Replaced(index)[q] \in SessionType
  BY ReplacedSession, Zenon
<1>2. Replaced(index) = [q \in Requests |-> Replaced(index)[q]]
  BY DEF Replaced
<1> QED
  BY <1>1, <1>2

\* What the answer in event e does to the sessions: that of its interval r lists
\* auctions and gets an end; the one whose process is overwritten remembers it.
SessionsAnswered(r, index, listed, end) ==
  /\ \A q \in Requests : sess'[q].start = sess[q].start /\ sess'[q].stop = sess[q].stop
  /\ sess'[r].aucs = listed /\ sess'[r].end = end /\ sess'[r].answer # "replaced"
  /\ sess'[r].answer = "in time" =>
       \A g \in queue' : g.type = "REMOVE_AUCTIONS" /\ g.at <= now => g.objs \cap listed = {}
  /\ \A q \in Requests : q # r =>
       /\ sess'[q].end = sess[q].end /\ sess'[q].aucs = sess[q].aucs
       /\ \/ sess'[q].answer = sess[q].answer
          \/ sess[q].answer = "in time" /\ sess'[q].answer = "replaced"
       /\ index \in DOMAIN requests /\ requests[index].req = q => sess'[q].answer # "in time"

\* To the processes: number index is given to one for the auctions of S.
ProcessAnswered(r, S, index) ==
  /\ number[r] = NotAdded /\ index # NotAdded
  /\ number' = [number EXCEPT ![r] = index]
  /\ requests' = [i \in DOMAIN requests \cup {index} |->
                    IF i = index THEN [req |-> r, aucs |-> S] ELSE requests[i]]
  /\ present' = present \cup S /\ over' = over

\* To the auctions: those that are listed are installed, and they are those of S.
AuctionsAnswered(S, listed) ==
  /\ \A i \in DOMAIN aucs : /\ i \in DOMAIN aucs' /\ aucs'[i].name = aucs[i].name
                            /\ aucs'[i].state = aucs[i].state
  /\ \A i \in listed : i \in DOMAIN aucs' /\ aucs'[i].state # "done"
  /\ \A a \in S : \E i \in listed : aucs'[i].name = a

\* To the queue: removals move to the session's stop, and new events are those of
\* new auctions and of the process.
EventsAnswered(e, index, end) ==
  /\ \A g \in queue' :
       \/ g \in Rest(e)
       \/ g.type = "ACTIVATE_AUCTIONS"
       \/ /\ g.type = "REMOVE_AUCTIONS"
          /\ g.at = sess[e.req].stop * Frac \/ g.objs \cap DOMAIN aucs = {}
       \/ g.type = "PUSH_EXECUTION" /\ g.index = index /\ g.at = At(now, sess[e.req].start)
       \/ g.type = "REMOVE_PUSH_EXECUTION" /\ g.at = At(now, end)
  /\ \A f \in Rest(e) : f.type # "REMOVE_AUCTIONS" => f \in queue'
  /\ \E g \in queue' : g.type = "PUSH_EXECUTION" /\ g.index = index

Answered(e, S, index, listed, end) ==
  /\ SessionsAnswered(e.req, index, listed, end)
  /\ ProcessAnswered(e.req, S, index)
  /\ AuctionsAnswered(S, listed)
  /\ EventsAnswered(e, index, end)
  /\ end \in Nat /\ sess[e.req].stop <= end
  /\ UNCHANGED <<now, objs, net, files, sent>>

\* An answer: the new auctions are installed under numbers of their own, the others
\* are used longer, and the process has an end.
LEMMA ResponseAnswers ==
  ASSUME IInv, NEW e \in queue, HandleResponseCreateSession(e)
  PROVE  IInv' /\ \E S, index, listed, end : Answered(e, S, index, listed, end)
<1> DEFINE r == e.req
           list == e.list
           s == sess[r]
           S == {list[k] : k \in DOMAIN list}
           fresh == Fresh(list)
           new == [k \in DOMAIN fresh |-> NewAuction(fresh[k], s)]
           base == Len(aucs)
           known == {NumberOf(a) : a \in S \cap present}
           longer == {i \in known : aucs[i].stop < s.stop}
           listed == known \cup {base + k : k \in DOMAIN new}
           index == NewId(source)
           end == RequestEnd(s, S)
           moved == IF longer = {} THEN Rest(e)
                    ELSE RescheduleAuctionDelete(Rest(e), CHOOSE i \in longer : TRUE, s.stop)
           lists == Schedule(new, base, "ACTIVATE_AUCTIONS", "REMOVE_AUCTIONS")
           more == lists \cup ProcessEvents(s.start, end, index, r)
           answer == IF s.torn THEN "late"
                     ELSE IF RemovalDue(queue', listed) THEN "slow" ELSE "in time"
<1>1. /\ Handling(e, "CREATE_SESSION") /\ WalkSound(list) /\ AddRequest(r, S)
      /\ aucs' = Referenced(Extended(known, s) \o new, listed, r)
      /\ queue' = Enqueue(moved, more)
      /\ sess' = [Replaced(index) EXCEPT ![r].aucs = listed, ![r].end = end, ![r].answer = answer]
      /\ UNCHANGED <<now, objs, net, files, up, sent>>
  BY Zenon DEF HandleResponseCreateSession, Extended, ProcessEvents
<1>2. /\ e.type = "CREATE_SESSION" /\ r \in Requests /\ list \in Answers
      /\ s.start < s.stop
  <2>1. Handling(e, "CREATE_SESSION")
    BY <1>1
  <2> QED
    BY <2>1, Handled, EventShape DEF EventOK
<1>3. /\ aucs \in Seq(AuctionType) /\ sess \in [Requests -> SessionType]
      /\ now \in Int
  BY WindowAssumption DEF IInv, Types
<1>4. /\ s \in SessionType /\ s.start \in Nat /\ s.stop \in Nat
  BY <1>2, <1>3 DEF SessionType
<1>5. /\ fresh \in Seq(Auctions) /\ DOMAIN fresh \subseteq DOMAIN list
      /\ \A k \in DOMAIN fresh : fresh[k] = list[k] /\ list[k] \notin present
      /\ \A k \in DOMAIN list : k \in DOMAIN fresh \/ list[k] \in present
      /\ \A k, l \in DOMAIN fresh : fresh[k] = fresh[l] => k = l
  <2> HIDE DEF list, fresh
  <2>1. WalkSound(list) /\ list \in Answers /\ fresh = Fresh(list)
    BY <1>1, <1>2 DEF fresh
  <2> QED
    BY <2>1, FreshNames
<1>6. /\ S \in SUBSET Auctions /\ S # {} /\ IsFiniteSet(S)
  <2>1. list \in Seq(Auctions) /\ list # <<>>
    BY <1>2, WindowAssumption
  <2>2. \A k \in DOMAIN list : list[k] \in Auctions
    BY <2>1, ElementOfSeq, LenProperties
  <2>3. 1 \in DOMAIN list
    BY <2>1, EmptySeq, LenProperties
  <2>4. IsFiniteSet(S)
    <3> DEFINE g == [k \in DOMAIN list |-> list[k]]
    <3>1. DOMAIN g = DOMAIN list /\ g = [k \in DOMAIN list |-> g[k]] /\ S = {g[k] : k \in DOMAIN list}
      OBVIOUS
    <3>2. IsFiniteSet(DOMAIN list)
      BY <2>1, FinitePositions
    <3> HIDE DEF g, S, list
    <3> QED
      BY <3>1, <3>2, FiniteImage
  <2> QED
    BY <2>2, <2>3, <2>4
<1> HIDE DEF list, s, fresh
<1>7. /\ new \in Seq(AuctionType) /\ DOMAIN new = DOMAIN fresh
      /\ \A k \in DOMAIN new : /\ new[k].name = fresh[k] /\ new[k].state = "valid"
                               /\ new[k].sessions = {} /\ new[k].stop > 0
  <2>1. \A k \in DOMAIN fresh : fresh[k] \in Auctions
    BY <1>5, ElementOfSeq, LenProperties
  <2>2. ASSUME NEW k \in DOMAIN fresh
        PROVE  /\ new[k] \in AuctionType
               /\ new[k].name = fresh[k] /\ new[k].state = "valid"
               /\ new[k].sessions = {} /\ new[k].stop > 0
    <3>1. new[k] = NewAuction(fresh[k], s) /\ fresh[k] \in Auctions
      BY <2>1
    <3> HIDE DEF new
    <3> QED
      BY <1>2, <1>4, <3>1, NewAuctionOK
  <2>3. new \in [DOMAIN fresh -> AuctionType]
    BY <2>2
  <2> HIDE DEF new
  <2>4. new \in Seq(AuctionType) /\ DOMAIN new = DOMAIN fresh
    BY <1>5, <2>3, Mapped
  <2> QED
    BY <2>2, <2>4
<1> HIDE DEF new, r
<1>8. \A i \in known : Installed(i) /\ i \in DOMAIN aucs /\ aucs[i].name \in S \cap present
  <2> DEFINE T == S \cap present
  <2>1. OneAuctionPerName /\ T \in SUBSET present
    BY DEF IInv
  <2> HIDE DEF T
  <2>2. \A i \in {NumberOf(a) : a \in T} :
          Installed(i) /\ i \in DOMAIN aucs /\ aucs[i].name \in T
    BY <2>1, KnownNumbers
  <2> QED
    BY <2>2 DEF T
<1> HIDE DEF S, known
<1>9. Created(aucs', new, known, r) /\ listed \subseteq DOMAIN aucs'
  <2> DEFINE as == aucs'
  <2>1. /\ as = Referenced(Extended(known, s) \o new, listed, r)
        /\ listed = known \cup Following(Len(aucs), new)
        /\ known \in SUBSET DOMAIN aucs
    BY <1>1, <1>8 DEF Following
  <2>2. /\ r \in Requests /\ aucs \in Seq(AuctionType) /\ new \in Seq(AuctionType)
        /\ s.start \in Nat /\ s.stop \in Nat
    BY <1>2, <1>3, <1>4, <1>7
  <2> HIDE DEF as, listed, base
  <2>3. Created(as, new, known, r)
    BY <2>1, <2>2, CreatedAuctions
  <2>4. listed \subseteq DOMAIN as
    BY <2>1, <2>2, CreatedAuctions
  <2> QED
    BY <2>3, <2>4 DEF as
<1>10. \A i \in DOMAIN aucs : i \in listed <=> i \in known
  BY <1>9 DEF Created
<1> HIDE DEF listed
<1>11. end \in Nat \ {0}
  BY <1>2, <1>4, <1>6, RequestEndBeyond
<1> HIDE DEF end
<1>12. answer \in {"late", "slow", "in time"} /\ (s.torn => answer = "late")
       /\ (answer = "late" => s.torn)
  OBVIOUS
<1> HIDE DEF answer
<1>13. /\ s.answer = "none" /\ s.aucs = {} /\ number[r] = NotAdded
  BY <1>1, <1>2 DEF IInv, AnswersOnce, AddRequest, s
<1>14. /\ ProcessesInv' /\ index \in Numbers /\ index # NotAdded
       /\ number' = [number EXCEPT ![r] = index]
       /\ requests' = [i \in DOMAIN requests \cup {index} |->
                         IF i = index THEN [req |-> r, aucs |-> S] ELSE requests[i]]
       /\ present' = present \cup S
  <2>1. ProcessesInv'
    BY <1>1, <1>2, <1>6, AddRequestKeeps DEF IInv
  <2>2. index \in Numbers /\ index # NotAdded
    BY NewIdType, AgentAssumption, IdSourceAssumption
       DEF IInv, ProcessesInv, ProcessesTypeOK, Numbers
  <2>3. AddRequest(r, S)
    BY <1>1
  <2> QED
    BY <2>1, <2>2, <2>3, Zenon DEF AddRequest
<1>15. /\ IsFiniteSet(moved)
       /\ \A g \in moved : /\ EventOK(g, aucs, objs, sess)
                           /\ g \in Rest(e) \/ g.type = "REMOVE_AUCTIONS"
       /\ \A f \in Rest(e) : \E g \in moved : SameEvent(f, g)
  <2>1. IsFiniteSet(Rest(e)) /\ \A f \in Rest(e) : EventOK(f, aucs, objs, sess)
    BY RestOK DEF IInv
  <2>2. CASE longer = {}
    BY <2>1, <2>2 DEF SameEvent
  <2>3. CASE longer # {}
    <3> DEFINE i == CHOOSE j \in longer : TRUE
    <3>1. moved = RescheduleAuctionDelete(Rest(e), i, s.stop)
      BY <2>3
    <3> HIDE DEF i, moved
    <3> QED
      BY <1>4, <2>1, <3>1, MovedRemovals
  <2> QED
    BY <2>2, <2>3
<1> HIDE DEF moved, index
<1> DEFINE old == Replaced(index)
<1>29. old \in [Requests -> SessionType]
  BY <1>3, ReplacedSessions
<1>30. ASSUME NEW q \in Requests
       PROVE  /\ old[q].start = sess[q].start /\ old[q].stop = sess[q].stop
              /\ old[q].end = sess[q].end /\ old[q].aucs = sess[q].aucs
              /\ old[q].torn = sess[q].torn
              /\ \/ old[q].answer = sess[q].answer
                 \/ sess[q].answer = "in time" /\ old[q].answer = "replaced"
  BY <1>3, ReplacedFields, Zenon
<1>31. old[r] = s
  <2>1. sess[r].answer # "in time"
    BY <1>13 DEF s
  <2> QED
    BY <1>2, <1>3, <2>1, ReplacedSession, Zenon DEF s
<1>32. sess' = [old EXCEPT ![r].aucs = listed, ![r].end = end, ![r].answer = answer]
  BY <1>1
<1> HIDE DEF old
<1>16. /\ sess'[r].aucs = listed /\ sess'[r].end = end /\ sess'[r].answer = answer
       /\ sess'[r].start = s.start /\ sess'[r].stop = s.stop
       /\ sess'[r].torn = s.torn /\ sess'[r].state = s.state
       /\ \A q \in Requests : q # r => sess'[q] = old[q]
       /\ sess' = [old EXCEPT ![r] = sess'[r]]
       /\ DOMAIN sess'[r] = DOMAIN s
  BY <1>2, <1>4, <1>29, <1>31, <1>32 DEF SessionType
<1>17. /\ IsFiniteSet(more)
       /\ \A f \in more : /\ EventOK(f, aucs', objs', sess')
                          /\ f.type \in AuctionLists \cup ProcessTypes
       /\ \A k \in DOMAIN new :
            \E f \in more : f.type = "REMOVE_AUCTIONS" /\ base + k \in f.objs
  <2> DEFINE as == aucs'
             os == objs'
             ss == sess'
             P == ProcessEvents(s.start, end, index, r)
  <2>1. Created(as, new, known, r)
    BY <1>9
  <2>2. end \in Int /\ s.start \in Int /\ index \in Numbers /\ r \in Requests /\ now \in Int
    BY <1>2, <1>3, <1>4, <1>11, <1>14
  <2> HIDE DEF as, os, ss
  <2>3. IsFiniteSet(P) /\ \A f \in P : EventOK(f, as, os, ss) /\ f.type \in ProcessTypes
    BY <2>2, ProcessEventsOK
  <2> HIDE DEF P
  <2>4. /\ aucs \in Seq(AuctionType) /\ new \in Seq(AuctionType)
        /\ \A k \in DOMAIN new : new[k].state = "valid" /\ new[k].stop > 0
        /\ lists = Schedule(new, Len(aucs), "ACTIVATE_AUCTIONS", "REMOVE_AUCTIONS")
    BY <1>3, <1>7
  <2> HIDE DEF lists
  <2>5. /\ IsFiniteSet(lists)
        /\ \A f \in lists : EventOK(f, as, os, ss) /\ f.type \in AuctionLists
        /\ \A k \in DOMAIN new :
             \E f \in lists : f.type = "REMOVE_AUCTIONS" /\ Len(aucs) + k \in f.objs
    BY <2>1, <2>2, <2>4, AuctionListsOK
  <2>6. more = lists \cup P
    BY DEF P
  <2> HIDE DEF more
  <2>7. IsFiniteSet(more)
    BY <2>3, <2>5, <2>6, FS_Union
  <2>8. \A f \in more : EventOK(f, as, os, ss) /\ f.type \in AuctionLists \cup ProcessTypes
    BY <2>3, <2>5, <2>6
  <2>9. \A k \in DOMAIN new : \E f \in more : f.type = "REMOVE_AUCTIONS" /\ base + k \in f.objs
    BY <2>5, <2>6
  <2> QED
    BY <2>7, <2>8, <2>9 DEF as, os, ss
<1> HIDE DEF more, lists
<1>18. \A q \in Requests : sess'[q].start = sess[q].start /\ sess'[q].stop = sess[q].stop
                           /\ sess'[q].torn = sess[q].torn
  <2>1. ASSUME NEW q \in Requests
        PROVE  sess'[q].start = sess[q].start /\ sess'[q].stop = sess[q].stop
               /\ sess'[q].torn = sess[q].torn
    <3>1. CASE q = r
      BY <1>16, <3>1 DEF s
    <3>2. CASE q # r
      <4>1. sess'[q] = old[q]
        BY <1>16, <3>2, Zenon
      <4> QED
        BY <1>30, <4>1, Zenon
    <3> QED
      BY <3>1, <3>2
  <2> QED
    BY <2>1
<1>19. /\ \A g \in queue' : /\ EventOK(g, aucs', objs', sess')
                            /\ g \in moved \/ \E f \in more : SameEvent(f, g)
       /\ \A f \in more : \E g \in queue' : SameEvent(f, g)
       /\ moved \subseteq queue'
  <2> DEFINE as == aucs'
             os == objs'
             ss == sess'
  <2>1. /\ DOMAIN aucs \subseteq DOMAIN as /\ DOMAIN objs \subseteq DOMAIN os
        /\ \A i \in DOMAIN aucs : aucs[i].state # "done" => as[i].state # "done"
        /\ \A o \in DOMAIN objs : objs[o].state # "done" => os[o].state # "done"
        /\ \A q \in Requests : ss[q].start = sess[q].start /\ ss[q].stop = sess[q].stop
    BY <1>1, <1>9, <1>18 DEF Created
  <2>2. queue' = Enqueue(moved, more) /\ \A f \in more : EventOK(f, as, os, ss)
    BY <1>1, <1>17
  <2> HIDE DEF as, os, ss
  <2>3. \A f \in moved : EventOK(f, as, os, ss)
    BY <1>15, <2>1, EventOKGrows
  <2>4. \A f \in moved \cup more : EventOK(f, as, os, ss)
    BY <2>2, <2>3
  <2>5. /\ \A g \in queue' : /\ EventOK(g, as, os, ss)
                             /\ g \in moved \/ \E f \in more : SameEvent(f, g)
        /\ \A f \in more : \E g \in queue' : SameEvent(f, g)
        /\ moved \subseteq queue'
    BY <2>2, <2>4, Enqueued
  <2> QED
    BY <2>5 DEF as, os, ss
<1>20. QueueOK'
  <2>1. IsFiniteSet(queue')
    BY <1>1, <1>15, <1>17, EnqueueFinite
  <2> QED
    BY <1>19, <2>1 DEF QueueOK
<1>21. IntervalsOnce'
  <2>1. \A g \in queue' : g.type \in FileTypes => g \in queue
    BY <1>15, <1>17, <1>19 DEF SameEvent, FileTypes, AuctionLists, ProcessTypes, Rest
  <2>2. \A f \in queue : f.type = "REMOVE_RESOURCE_REQUEST_INTERVAL" => f.req \in Requests
    BY EventShape DEF IInv, QueueOK, EventOK, IntervalTypes
  <2> QED
    BY <1>1, <1>18, <2>1, <2>2, IntervalsKept DEF IInv
<1>22. Covered(queue', aucs', objs')
  <2>1. ASSUME NEW f \in queue, f.type \in CoverTypes
        PROVE  \E g \in queue' : g.type = f.type /\ g.objs = f.objs
    <3>1. f \in Rest(e)
      BY <1>2, <2>1 DEF Rest, CoverTypes, AuctionLists
    <3>2. PICK g \in moved : SameEvent(f, g)
      BY <1>15, <3>1
    <3>3. g.type = f.type /\ g.objs = f.objs
      BY <2>1, <3>2 DEF SameEvent, CoverTypes, BidLists
    <3> QED
      BY <1>19, <3>2, <3>3
  <2>2. Covered(queue', aucs, objs)
    BY <2>1, CoveredKept DEF IInv
  <2>3. ASSUME NEW i \in DOMAIN aucs', aucs'[i].state # "done"
        PROVE  \E g \in queue' : g.type = "REMOVE_AUCTIONS" /\ i \in g.objs
    <3>1. CASE i \in DOMAIN aucs
      BY <1>9, <2>2, <2>3, <3>1 DEF Covered, Created
    <3>2. CASE i \notin DOMAIN aucs
      <4>1. PICK k \in DOMAIN new : i = base + k
        BY <1>9, <3>2 DEF Created
      <4>2. PICK f \in more : f.type = "REMOVE_AUCTIONS" /\ i \in f.objs
        BY <1>17, <4>1
      <4>3. PICK g \in queue' : SameEvent(f, g)
        BY <1>19
      <4> QED
        BY <4>2, <4>3 DEF SameEvent, AuctionLists
    <3> QED
      BY <3>1, <3>2
  <2> QED
    BY <1>1, <2>2, <2>3 DEF Covered
<1>23. sess' \in [Requests -> SessionType']
  <2>1. \A q \in Requests : q # r => sess'[q] \in SessionType'
    <3> DEFINE A == DOMAIN aucs
               B == DOMAIN aucs'
               type(N) == [state : {"none", "created", "active"}, start : Nat, stop : Nat,
                           end : Nat, aucs : SUBSET N, torn : BOOLEAN,
                           answer : {"none", "in time", "replaced", "slow", "late"}]
    <3>1. SessionType = type(A) /\ SessionType' = type(B)
      BY DEF SessionType
    <3>2. A \subseteq B
      BY <1>9 DEF Created
    <3> HIDE DEF A, B
    <3>3. type(A) \subseteq type(B)
      BY <3>2
    <3> HIDE DEF type
    <3> QED
      BY <1>16, <1>29, <3>1, <3>3
  <2>2. sess'[r] \in SessionType'
    <3> DEFINE D == DOMAIN aucs'
    <3>1. listed \subseteq D /\ end \in Nat
      BY <1>9, <1>11
    <3>2. sess'[r] = [s EXCEPT !.aucs = listed, !.end = end, !.answer = answer]
      BY <1>2, <1>29, <1>31, <1>32
    <3>3. SessionType' = [state : {"none", "created", "active"}, start : Nat, stop : Nat,
                          end : Nat, aucs : SUBSET D, torn : BOOLEAN,
                          answer : {"none", "in time", "replaced", "slow", "late"}]
      BY DEF SessionType
    <3> HIDE DEF D
    <3> QED
      BY <1>4, <1>12, <3>1, <3>2, <3>3 DEF SessionType
  <2> QED
    BY <1>16, <1>29, <2>1, <2>2
<1>24. Types'
  <2>1. aucs' \in Seq(AuctionType)
    BY <1>9 DEF Created
  <2>2. Types
    BY DEF IInv
  <2> QED
    BY <1>1, <1>23, <2>1, <2>2 DEF Types
<1>25. OneAuctionPerName'
  <2>1. \A i \in DOMAIN aucs : Installed(i)' <=> Installed(i)
    BY <1>9 DEF Installed, Created
  <2>2. \A i \in DOMAIN aucs : aucs'[i].name = aucs[i].name
    BY <1>9 DEF Created
  <2>3. \A i \in DOMAIN aucs : Installed(i) => aucs[i].name \in present
    BY DEF IInv, OneAuctionPerName
  <2>4. ASSUME NEW i \in DOMAIN aucs', i \notin DOMAIN aucs
        PROVE  \E k \in DOMAIN fresh : i = base + k /\ aucs'[i].name = fresh[k] /\ Installed(i)'
    <3>1. PICK k \in DOMAIN new : i = base + k
      BY <1>9, <2>4 DEF Created
    <3>2. aucs'[i].name = fresh[k] /\ aucs'[i].state = "valid" /\ k \in DOMAIN fresh
      BY <1>7, <1>9, <3>1 DEF Created
    <3> QED
      BY <3>1, <3>2 DEF Installed
  <2>5. \A k \in DOMAIN fresh : fresh[k] \notin present /\ fresh[k] \in S
    BY <1>5 DEF S
  <2>6. ASSUME NEW i \in DOMAIN aucs', NEW j \in DOMAIN aucs', Installed(i)', Installed(j)',
               aucs'[i].name = aucs'[j].name
        PROVE  i = j
    <3>1. CASE i \in DOMAIN aucs /\ j \in DOMAIN aucs
      BY <2>1, <2>2, <2>6, <3>1 DEF IInv, OneAuctionPerName
    <3>2. CASE i \in DOMAIN aucs /\ j \notin DOMAIN aucs
      BY <2>1, <2>2, <2>3, <2>4, <2>5, <2>6, <3>2
    <3>3. CASE i \notin DOMAIN aucs /\ j \in DOMAIN aucs
      BY <2>1, <2>2, <2>3, <2>4, <2>5, <2>6, <3>3
    <3>4. CASE i \notin DOMAIN aucs /\ j \notin DOMAIN aucs
      BY <1>5, <2>4, <2>6, <3>4
    <3> QED
      BY <3>1, <3>2, <3>3, <3>4
  <2>7. ASSUME NEW a \in present'
        PROVE  \E i \in DOMAIN aucs' : Installed(i)' /\ aucs'[i].name = a
    <3>1. CASE a \in present
      <4>1. PICK i \in DOMAIN aucs : Installed(i) /\ aucs[i].name = a
        BY <3>1 DEF IInv, OneAuctionPerName
      <4> QED
        BY <1>9, <2>1, <2>2, <4>1 DEF Created
    <3>2. CASE a \notin present
      <4>1. PICK k \in DOMAIN list : a = list[k]
        BY <1>14, <2>7, <3>2 DEF S
      <4>2. k \in DOMAIN fresh /\ fresh[k] = a
        BY <1>5, <3>2, <4>1
      <4>3. base + k \in DOMAIN aucs' /\ base + k \notin DOMAIN aucs
            /\ aucs'[base + k].name = a /\ aucs'[base + k].state = "valid"
        BY <1>7, <1>9, <4>2 DEF Created
      <4> QED
        BY <4>3 DEF Installed
    <3> QED
      BY <3>1, <3>2
  <2>8. ASSUME NEW i \in DOMAIN aucs', Installed(i)'
        PROVE  aucs'[i].name \in present'
    <3>1. CASE i \in DOMAIN aucs
      BY <1>14, <2>1, <2>2, <2>3, <2>8, <3>1
    <3>2. CASE i \notin DOMAIN aucs
      BY <1>14, <2>4, <2>5, <3>2
    <3> QED
      BY <3>1, <3>2
  <2>9. present' = {aucs'[i].name : i \in {j \in DOMAIN aucs' : Installed(j)'}}
    BY <2>7, <2>8
  <2> QED
    BY <2>6, <2>9 DEF OneAuctionPerName
<1>26. WindowsOK'
  <2>1. \A q \in Requests : net'[q] # "idle" => sess'[q].start < sess'[q].stop
    BY <1>1, <1>18 DEF IInv, WindowsOK
  <2>2. ASSUME NEW i \in DOMAIN requests'
        PROVE  sess'[requests'[i].req].end > 0 /\ IsFiniteSet(requests'[i].aucs)
    <3>1. CASE i = index
      <4>1. requests'[i].req = r /\ requests'[i].aucs = S
        BY <1>14, <3>1
      <4> QED
        BY <1>6, <1>11, <1>16, <4>1
    <3>2. CASE i # index
      <4>1. i \in DOMAIN requests /\ requests'[i] = requests[i]
        BY <1>14, <3>2
      <4>2. requests[i].req \in Requests
        BY <4>1 DEF IInv, ProcessesInv, ProcessesTypeOK, Process
      <4>3. sess[requests[i].req].end > 0 /\ IsFiniteSet(requests[i].aucs)
        BY <4>1 DEF IInv, WindowsOK
      <4>4. sess'[requests[i].req].end > 0
        <5>1. CASE requests[i].req = r
          BY <1>11, <1>16, <5>1
        <5>2. CASE requests[i].req # r
          BY <1>16, <1>30, <4>2, <4>3, <5>2
        <5> QED
          BY <5>1, <5>2
      <4> QED
        BY <4>1, <4>3, <4>4
    <3> QED
      BY <3>1, <3>2
  <2>3. \A o \in DOMAIN objs' : objs'[o].stop > 0
    BY <1>1 DEF IInv, WindowsOK
  <2> QED
    BY <2>1, <2>2, <2>3 DEF WindowsOK
<1>27. AnswersOnce'
  <2>1. ASSUME NEW q \in Requests
        PROVE  /\ sess'[q].answer = "none" => sess'[q].aucs = {}
               /\ sess'[q].answer # "none" => number'[q] # NotAdded
               /\ sess'[q].answer = "late" => sess'[q].torn
    <3>1. number \in [Requests -> Numbers \cup {NotAdded}]
      BY DEF IInv, ProcessesInv, ProcessesTypeOK
    <3>2. CASE q = r
      BY <1>2, <1>12, <1>14, <1>16, <3>1, <3>2
    <3>3. CASE q # r
      <4>1. /\ sess'[q].aucs = sess[q].aucs /\ sess'[q].torn = sess[q].torn
            /\ \/ sess'[q].answer = sess[q].answer
               \/ sess[q].answer = "in time" /\ sess'[q].answer = "replaced"
        <5>1. sess'[q] = old[q]
          BY <1>16, <3>3, Zenon
        <5> QED
          BY <1>30, <5>1, Zenon
      <4>2. number'[q] = number[q]
        BY <1>14, <3>1, <3>3
      <4> QED
        BY <4>1, <4>2 DEF IInv, AnswersOnce
    <3> QED
      BY <3>2, <3>3
  <2> QED
    BY <2>1 DEF AnswersOnce
<1>28. ReferencesCounted'
  <2> SUFFICES ASSUME NEW i \in DOMAIN aucs'
               PROVE  aucs'[i].sessions =
                        {q \in Requests : i \in sess'[q].aucs
                                          /\ (sess'[q].torn => sess'[q].answer = "late")}
    BY DEF ReferencesCounted
  <2> DEFINE Uses(q) == i \in sess[q].aucs /\ (sess[q].torn => sess[q].answer = "late")
             UsesNow(q) == i \in sess'[q].aucs /\ (sess'[q].torn => sess'[q].answer = "late")
  <2>1. \A q \in Requests : q # r => (UsesNow(q) <=> Uses(q))
    <3>1. ASSUME NEW q \in Requests, q # r
          PROVE  UsesNow(q) <=> Uses(q)
      <4>1. /\ sess'[q].aucs = sess[q].aucs /\ sess'[q].torn = sess[q].torn
            /\ sess'[q].answer = "late" <=> sess[q].answer = "late"
        BY <1>16, <1>30, <3>1
      <4> QED
        BY <4>1
    <3> QED
      BY <3>1
  <2>2. UsesNow(r) <=> i \in listed
    BY <1>12, <1>16
  <2>3. ~Uses(r)
    BY <1>13 DEF s
  <2>4. aucs'[i].sessions = {q \in Requests : UsesNow(q)}
    <3>1. CASE i \in DOMAIN aucs
      <4>1. aucs[i].sessions = {q \in Requests : Uses(q)}
        BY <3>1 DEF IInv, ReferencesCounted
      <4>2. CASE i \in known
        <5>1. aucs'[i].sessions = aucs[i].sessions \cup {r} /\ i \in listed
          BY <1>9, <1>10, <3>1, <4>2 DEF Created
        <5> HIDE DEF Uses, UsesNow
        <5> QED
          BY <1>2, <2>1, <2>2, <4>1, <5>1
      <4>3. CASE i \notin known
        <5>1. aucs'[i].sessions = aucs[i].sessions /\ i \notin listed
          BY <1>9, <1>10, <3>1, <4>3 DEF Created
        <5> HIDE DEF Uses, UsesNow
        <5> QED
          BY <1>2, <2>1, <2>2, <2>3, <4>1, <5>1
      <4> QED
        BY <4>2, <4>3
    <3>2. CASE i \notin DOMAIN aucs
      <4>1. PICK k \in DOMAIN new : i = base + k
        BY <1>9, <3>2 DEF Created
      <4>2. aucs'[i].sessions = {r}
        BY <1>7, <1>9, <4>1 DEF Created
      <4>3. i \in listed
        BY <4>1 DEF listed
      <4>4. \A q \in Requests : ~Uses(q)
        BY <1>3, <3>2 DEF SessionType
      <4> HIDE DEF Uses, UsesNow
      <4> QED
        BY <1>2, <2>1, <2>2, <4>2, <4>3, <4>4
    <3> QED
      BY <3>1, <3>2
  <2> QED
    BY <2>4
<1>33. IInv'
  BY <1>14, <1>20, <1>21, <1>22, <1>24, <1>25, <1>26, <1>27, <1>28 DEF IInv
<1>34. SessionsAnswered(r, index, listed, end)
  <2>1. answer = "in time" =>
          \A g \in queue' : g.type = "REMOVE_AUCTIONS" /\ g.at <= now => g.objs \cap listed = {}
    BY DEF answer, RemovalDue
  <2>2. ASSUME NEW q \in Requests, q # r
        PROVE  /\ sess'[q].end = sess[q].end /\ sess'[q].aucs = sess[q].aucs
               /\ \/ sess'[q].answer = sess[q].answer
                  \/ sess[q].answer = "in time" /\ sess'[q].answer = "replaced"
               /\ index \in DOMAIN requests /\ requests[index].req = q =>
                    sess'[q].answer # "in time"
    <3>1. sess'[q] = old[q]
      BY <1>16, <2>2
    <3>2. index \in DOMAIN requests /\ requests[index].req = q => old[q].answer # "in time"
      BY <1>3, ReplacedFields, Zenon DEF old
    <3> QED
      BY <1>30, <3>1, <3>2
  <2> QED
    BY <1>12, <1>16, <1>18, <2>1, <2>2 DEF SessionsAnswered
<1>35. ProcessAnswered(r, S, index)
  <2>1. over' = over
    BY <1>1, Zenon DEF AddRequest
  <2> QED
    BY <1>13, <1>14, <2>1 DEF ProcessAnswered
<1>36. AuctionsAnswered(S, listed)
  <2>1. \A i \in listed : i \in DOMAIN aucs' /\ aucs'[i].state # "done"
    <3>1. ASSUME NEW i \in known PROVE i \in DOMAIN aucs' /\ aucs'[i].state # "done"
      BY <1>8, <1>9 DEF Created, Installed
    <3>2. ASSUME NEW k \in DOMAIN new PROVE base + k \in DOMAIN aucs' /\ aucs'[base + k].state # "done"
      BY <1>7, <1>9 DEF Created
    <3> QED
      BY <3>1, <3>2 DEF listed
  <2>2. ASSUME NEW a \in S PROVE \E i \in listed : aucs'[i].name = a
    <3>1. CASE a \in present
      <4>1. NumberOf(a) \in known
        BY <2>2, <3>1 DEF known
      <4>2. aucs[NumberOf(a)].name = a
        <5>1. \E i \in DOMAIN aucs : aucs[i].name = a /\ Installed(i)
          BY <3>1 DEF IInv, OneAuctionPerName
        <5> QED
          BY <5>1 DEF NumberOf
      <4> QED
        BY <1>8, <1>9, <4>1, <4>2 DEF Created, listed
    <3>2. CASE a \notin present
      <4>1. PICK k \in DOMAIN list : a = list[k]
        BY <2>2 DEF S
      <4>2. k \in DOMAIN new /\ fresh[k] = a
        BY <1>5, <1>7, <3>2, <4>1
      <4>3. base + k \in listed /\ aucs'[base + k].name = a
        BY <1>7, <1>9, <4>2 DEF Created, listed
      <4> QED
        BY <4>3
    <3> QED
      BY <3>1, <3>2
  <2> QED
    BY <1>9, <2>1, <2>2 DEF AuctionsAnswered, Created
<1>37. EventsAnswered(e, index, end)
  <2> DEFINE A == DOMAIN aucs'
             O == DOMAIN objs'
             Q == queue'
             P == ProcessEvents(s.start, end, index, r)
             push == [at |-> At(now, s.start), rank |-> 3, type |-> "PUSH_EXECUTION",
                      index |-> index]
             pop == [at |-> At(now, end), rank |-> 4, type |-> "REMOVE_PUSH_EXECUTION",
                     index |-> index, req |-> r]
  <2>1. more = lists \cup {push, pop}
    BY DEF more, ProcessEvents
  <2>2. /\ push.type = "PUSH_EXECUTION" /\ push.index = index /\ push.at = At(now, s.start)
        /\ pop.type = "REMOVE_PUSH_EXECUTION" /\ pop.at = At(now, end)
    OBVIOUS
  <2>3. ASSUME NEW f \in lists
        PROVE  /\ f.type \in {"ACTIVATE_AUCTIONS", "REMOVE_AUCTIONS"}
               /\ f.objs \cap DOMAIN aucs = {}
    <3>1. /\ f.type \in {"ACTIVATE_AUCTIONS", "REMOVE_AUCTIONS"}
          /\ \A o \in f.objs : \E k \in DOMAIN new : o = base + k
      BY ScheduledTimes DEF lists
    <3>2. \A k \in DOMAIN new : base + k \notin DOMAIN aucs
      BY <1>9 DEF Created
    <3> QED
      BY <3>1, <3>2
  <2> HIDE DEF push, pop, A, O, Q
  <2>4. /\ \A g \in Q : g \in moved \/ \E f \in more : Copy(f, g)
        /\ \A f \in more : \E g \in Q : Copy(f, g)
        /\ moved \subseteq Q
    <3>1. \A f \in moved \cup more : f \in Events(A, O)
      <4>1. \A f \in moved : f \in Q
        BY <1>19 DEF Q
      <4>2. \A f \in Q : f \in Events(A, O)
        BY <1>19 DEF EventOK, A, O, Q
      <4>3. \A f \in more : f \in Events(A, O)
        BY <1>17 DEF EventOK, A, O
      <4> QED
        BY <4>1, <4>2, <4>3
    <3>2. Q = Enqueue(moved, more)
      BY <1>1 DEF Q
    <3> QED
      BY <3>1, <3>2, EnqueuedCopies
  <2>5. /\ \A g \in moved : g \in Rest(e) \/ (g.type = "REMOVE_AUCTIONS" /\ g.at = s.stop * Frac)
        /\ \A f \in Rest(e) : f.type # "REMOVE_AUCTIONS" => f \in moved
    <3>1. IsFiniteSet(Rest(e)) /\ \A f \in Rest(e) : EventOK(f, aucs, objs, sess)
      BY RestOK DEF IInv
    <3>2. CASE longer = {}
      BY <3>2 DEF moved
    <3>3. CASE longer # {}
      <4> DEFINE i == CHOOSE j \in longer : TRUE
                 B == DOMAIN aucs
                 C == DOMAIN objs
      <4>1. moved = RescheduleAuctionDelete(Rest(e), i, s.stop)
        BY <3>3 DEF moved
      <4>2. Rest(e) \subseteq Events(B, C)
        BY <3>1 DEF EventOK
      <4> HIDE DEF i, B, C
      <4> QED
        BY <1>4, <3>1, <4>1, <4>2, MovedElsewhere
    <3> QED
      BY <3>2, <3>3
  <2>6. ASSUME NEW g \in Q
        PROVE  \/ g \in Rest(e)
               \/ g.type = "ACTIVATE_AUCTIONS"
               \/ /\ g.type = "REMOVE_AUCTIONS"
                  /\ g.at = s.stop * Frac \/ g.objs \cap DOMAIN aucs = {}
               \/ g.type = "PUSH_EXECUTION" /\ g.index = index /\ g.at = At(now, s.start)
               \/ g.type = "REMOVE_PUSH_EXECUTION" /\ g.at = At(now, end)
    <3>1. CASE g \in moved
      BY <2>5, <3>1
    <3>2. ASSUME NEW f \in lists, Copy(f, g)
          PROVE  \/ g.type = "ACTIVATE_AUCTIONS"
                 \/ g.type = "REMOVE_AUCTIONS" /\ g.objs \cap DOMAIN aucs = {}
      BY <2>3, <3>2 DEF Copy, AuctionLists
    <3>3. CASE Copy(push, g)
      BY <2>2, <3>3 DEF Copy, Flights
    <3>4. CASE Copy(pop, g)
      BY <2>2, <3>4 DEF Copy
    <3> QED
      BY <2>1, <2>4, <3>1, <3>2, <3>3, <3>4
  <2>7. \E g \in Q : g.type = "PUSH_EXECUTION" /\ g.index = index
    <3>1. push \in more
      BY <2>1
    <3>2. PICK g \in Q : Copy(push, g)
      BY <2>4, <3>1
    <3> QED
      BY <2>2, <3>2 DEF Copy, Flights
  <2>8. \A f \in Rest(e) : f.type # "REMOVE_AUCTIONS" => f \in Q
    BY <2>4, <2>5
  <2> QED
    BY <2>6, <2>7, <2>8 DEF EventsAnswered, Q, s, r
<1>38. end \in Nat /\ s.stop <= end
  <2>1. s.stop <= RequestEnd(s, S)
    BY <1>2, <1>4, <1>6, RequestEndBeyond
  <2> QED
    BY <1>11, <2>1 DEF end
<1>39. Answered(e, S, index, listed, end)
  BY <1>1, <1>34, <1>35, <1>36, <1>37, <1>38 DEF Answered, r, s
<1> QED
  BY <1>33, <1>39

-----------------------------------------------------------------------------
(***************************************************************************)
(* The invariant.                                                          *)
(***************************************************************************)

LEMMA InitAgent == Init => IInv
<1> SUFFICES ASSUME Init PROVE IInv
  OBVIOUS
<1>1. /\ now = Start /\ queue = {} /\ aucs = <<>> /\ objs = <<>>
      /\ sess = [r \in Requests |-> NoSession] /\ net = [r \in Requests |-> "idle"]
      /\ files = Files /\ up = TRUE /\ sent = {} /\ ProcessesInit
  BY Zenon DEF Init
<1>2. /\ number = [r \in Requests |-> NotAdded] /\ requests = <<>> /\ present = {}
  BY <1>1, Zenon DEF ProcessesInit
<1>3. DOMAIN aucs = {} /\ DOMAIN objs = {} /\ DOMAIN requests = {}
  BY <1>1, <1>2
<1>4. ProcessesInv
  BY <1>1, InitProcesses
<1>5. sess \in [Requests -> SessionType]
  <2>1. NoSession \in SessionType
    BY DEF NoSession, SessionType
  <2> QED
    BY <1>1, <2>1
<1>6. Types
  <2>1. aucs \in Seq(AuctionType) /\ objs \in Seq(Bids)
    BY <1>1
  <2>2. now \in 0 .. MaxTime
    BY <1>1, WindowAssumption
  <2>3. net \in [Requests -> {"idle", "asked", "configured", "answered"}]
    BY <1>1
  <2>4. files \subseteq Files /\ up \in BOOLEAN /\ sent \subseteq (DOMAIN objs) \X Requests
    BY <1>1
  <2> QED
    BY <1>5, <2>1, <2>2, <2>3, <2>4 DEF Types
<1>7. QueueOK /\ Covered(queue, aucs, objs)
  BY <1>1, <1>3, FS_EmptySet DEF QueueOK, Covered
<1>8. OneAuctionPerName
  BY <1>2, <1>3 DEF OneAuctionPerName
<1>9. WindowsOK
  BY <1>1, <1>3 DEF WindowsOK
<1>10. IntervalsOnce
  BY <1>1 DEF IntervalsOnce, NoSession
<1>11. AnswersOnce
  BY <1>1, <1>2 DEF AnswersOnce, NoSession
<1>12. ReferencesCounted
  BY <1>3 DEF ReferencesCounted
<1> QED
  BY <1>4, <1>6, <1>7, <1>8, <1>9, <1>10, <1>11, <1>12 DEF IInv

\* Handler by handler, as Agent::handleEvent dispatches them.
LEMMA HandleEventKeeps ==
  ASSUME IInv, NEW e \in queue, HandleEvent(e)
  PROVE  IInv'
<1>1. CASE HandleAddResourceRequests(e)
  BY <1>1, AddResourceRequestsKeeps
<1>2. CASE HandleActivateInterval(e)
  BY <1>2, ActivateIntervalKeeps
<1>3. CASE HandleConfigureSession(e)
  BY <1>3, ConfigureSessionKeeps
<1>4. CASE HandleResponseCreateSession(e)
  BY <1>4, ResponseAnswers
<1>5. CASE UseDeletedAuction(e)
  BY <1>5, UseDeletedKeeps
<1>6. CASE HandlePushExecution(e)
  BY <1>6, PushExecutionKeeps
<1>7. CASE HandleRemovePushExecution(e)
  BY <1>7, RemovePushExecutionKeeps
<1>8. CASE HandleAddGeneratedBiddingObjects(e)
  BY <1>8, AddGeneratedKeeps
<1>9. CASE HandleTransmitBiddingObjects(e)
  BY <1>9, TransmitKeeps
<1>10. CASE HandleActivateBiddingObjects(e)
  BY <1>10, ActivateBiddingObjectsKeeps
<1>11. CASE HandleRemoveBiddingObjects(e)
  BY <1>11, RemoveBiddingObjectsKeeps
<1>12. CASE HandleAuctioningInteraction(e)
  BY <1>12, InteractionKeeps
<1>13. CASE HandleActivateAuctions(e)
  BY <1>13, ActivateAuctionsKeeps
<1>14. CASE HandleRemoveAuctions(e)
  BY <1>14, RemoveAuctionsKeeps
<1>15. CASE HandleRemoveInterval(e)
  BY <1>15, RemoveIntervalKeeps
<1> QED
  BY <1>1, <1>2, <1>3, <1>4, <1>5, <1>6, <1>7, <1>8, <1>9, <1>10, <1>11, <1>12, <1>13,
     <1>14, <1>15 DEF HandleEvent

\* Nothing changes.
LEMMA StutterKeeps ==
  ASSUME IInv, UNCHANGED vars
  PROVE  IInv'
<1>1. UNCHANGED <<now, queue, aucs, objs, sess, net, files, up, sent, processes>>
  BY DEF vars
<1>2. QueueOK' /\ Covered(queue', aucs, objs)
  BY <1>1 DEF IInv, QueueOK
<1>3. /\ now' \in 0 .. MaxTime /\ up' \in BOOLEAN /\ sent' \subseteq (DOMAIN objs) \X Requests
      /\ net' \in [Requests -> {"idle", "asked", "configured", "answered"}]
  BY <1>1 DEF IInv, Types
<1> QED
  BY <1>1, <1>2, <1>3, QuieterStill

LEMMA NextAgent == IInv /\ [Next]_vars => IInv'
<1> SUFFICES ASSUME IInv, [Next]_vars PROVE IInv'
  OBVIOUS
<1>1. ASSUME NEW e \in queue, HandleEvent(e) PROVE IInv'
  BY <1>1, HandleEventKeeps
<1>2. ASSUME NEW F \in files, File(F) PROVE IInv'
  BY <1>2, FileKeeps
<1>3. ASSUME NEW r \in Requests, Configure(r) PROVE IInv'
  BY <1>3, ConfigureKeeps
<1>4. ASSUME NEW r \in Requests, NEW list \in Answers, Answer(r, list) PROVE IInv'
  BY <1>4, AnswerKeeps
<1>5. ASSUME NEW o \in DOMAIN objs, Allocate(o) PROVE IInv'
  BY <1>5, AllocateKeeps
<1>6. CASE Tick
  BY <1>6, TickKeeps
<1>7. CASE Stopped
  <2>1. UNCHANGED vars
    BY <1>7, Zenon DEF Stopped
  <2> QED
    BY <2>1, StutterKeeps
<1>8. CASE UNCHANGED vars
  BY <1>8, StutterKeeps
<1> QED
  BY <1>1, <1>2, <1>3, <1>4, <1>5, <1>6, <1>7, <1>8 DEF Next

LEMMA AgentInvariant == Spec => []IInv
<1>1. Init => IInv
  BY InitAgent
<1>2. IInv /\ [Next]_vars => IInv'
  BY NextAgent
<1> QED
  BY <1>1, <1>2, PTL DEF Spec

\* What the invariant says of types, event by event.
LEMMA TypesOfEvents ==
  ASSUME IInv
  PROVE  TypeOK
<1>1. ASSUME NEW e \in queue
      PROVE  /\ e.at \in Int /\ e.rank \in Nat
             /\ CASE e.type \in {"CREATE_SESSION", "CONFIGURE_SESSION"} -> SessionEventType(e)
                  [] e.type \in {"PUSH_EXECUTION", "REMOVE_PUSH_EXECUTION"} -> ProcessEventType(e)
                  [] \/ e.type \in AuctionLists \cup BidLists
                     \/ e.type = "ADD_GENERATED_BIDDING_OBJECTS" -> ListEventType(e)
                  [] e.type = "AUCTION_INTERACTION" -> InteractionEventType(e)
                  [] OTHER -> RequestEventType(e)
  <2>1. e \in Events(DOMAIN aucs, DOMAIN objs)
    BY DEF IInv, QueueOK, EventOK
  <2>2. e.at \in Int /\ e.rank \in Nat
    BY <2>1, EventShape
  <2>3. CASE e.type \in {"CREATE_SESSION", "CONFIGURE_SESSION"}
    <3>1. SessionEventType(e)
      BY <2>1, <2>3, EventShape DEF SessionEventType
    <3> QED
      BY <2>2, <2>3, <3>1 DEF AuctionLists, BidLists
  <2>4. CASE e.type \in {"PUSH_EXECUTION", "REMOVE_PUSH_EXECUTION"}
    <3>1. ProcessEventType(e)
      BY <2>1, <2>4, EventShape DEF ProcessEventType
    <3> QED
      BY <2>2, <2>4, <3>1 DEF AuctionLists, BidLists
  <2>5. CASE e.type \in AuctionLists
    <3>1. ListEventType(e)
      BY <2>1, <2>5, EventShape DEF ListEventType, AuctionLists, BidLists
    <3> QED
      BY <2>2, <2>5, <3>1 DEF AuctionLists, BidLists
  <2>6. CASE e.type \in BidLists
    <3>1. ListEventType(e)
      BY <2>1, <2>6, EventShape DEF ListEventType, AuctionLists, BidLists
    <3> QED
      BY <2>2, <2>6, <3>1 DEF AuctionLists, BidLists
  <2>7. CASE e.type = "ADD_GENERATED_BIDDING_OBJECTS"
    <3>1. ListEventType(e)
      BY <2>1, <2>7, EventShape DEF ListEventType, AuctionLists, BidLists, Generated
    <3> QED
      BY <2>2, <2>7, <3>1 DEF AuctionLists, BidLists
  <2>8. CASE e.type = "AUCTION_INTERACTION"
    <3>1. InteractionEventType(e)
      BY <2>1, <2>8, EventShape DEF InteractionEventType
    <3> QED
      BY <2>2, <2>8, <3>1 DEF AuctionLists, BidLists
  <2>9. CASE e.type \in {"ADD_RESOURCE_REQUESTS"} \cup IntervalTypes
    <3>1. RequestEventType(e)
      BY <2>1, <2>9, EventShape DEF RequestEventType, IntervalTypes
    <3> QED
      BY <2>2, <2>9, <3>1 DEF AuctionLists, BidLists, IntervalTypes
  <2>10. e.type \in {"ADD_RESOURCE_REQUESTS"} \cup IntervalTypes \cup AuctionLists \cup BidLists
           \cup {"CREATE_SESSION", "CONFIGURE_SESSION", "PUSH_EXECUTION", "REMOVE_PUSH_EXECUTION",
                 "ADD_GENERATED_BIDDING_OBJECTS", "AUCTION_INTERACTION"}
    BY <2>1 DEF Events, IntervalTypes, AuctionLists, BidLists
  <2> QED
    BY <2>3, <2>4, <2>5, <2>6, <2>7, <2>8, <2>9, <2>10
<1>2. EventType
  BY <1>1, Zenon DEF EventType
<1> QED
  BY <1>2 DEF IInv, Types, TypeOK, Bids

\* The managers, the processor and the queue of the agent agree, whatever the
\* order of files, answers, allocations and ends of auctions: the types of
\* everything, one number for the name of an installed auction, and an end in the
\* queue for every auction and bid (AuctionManager, BiddingObjectManager and
\* EventScheduler of the agent).
THEOREM BooksStayInAgreement == Spec => []BooksAgree
<1>1. IInv => BooksAgree
  <2> SUFFICES ASSUME IInv PROVE BooksAgree
    OBVIOUS
  <2>1. TypeOK /\ OneAuctionPerName
    BY TypesOfEvents DEF IInv
  <2>2. AuctionsScheduled
    <3>1. ASSUME NEW e \in queue, e.type \in AuctionLists
          PROVE  \A i \in e.objs : Installed(i)
      <4>1. EventOK(e, aucs, objs, sess) /\ e \in Events(DOMAIN aucs, DOMAIN objs)
        BY DEF IInv, QueueOK, EventOK
      <4> QED
        BY <3>1, <4>1, EventShape DEF EventOK, Installed
    <3> QED
      BY <3>1 DEF IInv, Covered, AuctionsScheduled, Pending, Installed
  <2>3. BidsScheduled
    BY DEF IInv, Covered, BidsScheduled, Pending
  <2> QED
    BY <2>1, <2>2, <2>3 DEF BooksAgree
<1> QED
  BY <1>1, AgentInvariant, PTL

\* An auction is kept as long as a session uses it: its references are the sessions
\* that list it and have not ended, and those answered too late
\* (increaseSessionReferences, decrementReferences).
THEOREM ReferencesStayCounted == Spec => []ReferencesCounted
<1>1. IInv => ReferencesCounted
  BY DEF IInv
<1> QED
  BY <1>1, AgentInvariant, PTL

\* The agent calls its processor as AgentProcessor says: every handler adds, ends or
\* cleans up processes in one of its three ways or leaves it alone.
THEOREM ProcessorRefined == Spec => ProcessesSpec
<1>1. Init => ProcessesInit
  BY Zenon DEF Init
<1>2. IInv /\ [Next]_vars => [ProcessesNext]_processes
  <2> SUFFICES ASSUME IInv, [Next]_vars PROVE ProcessesNext \/ UNCHANGED processes
    OBVIOUS
  <2>1. ASSUME NEW e \in queue, HandleResponseCreateSession(e)
        PROVE  ProcessesNext
    <3> DEFINE S == {e.list[k] : k \in DOMAIN e.list}
    <3>1. Handling(e, "CREATE_SESSION") /\ AddRequest(e.req, S)
      BY <2>1, Zenon DEF HandleResponseCreateSession
    <3>2. S \in SUBSET Auctions
      BY <3>1, Zenon DEF AddRequest, AuctionsToServe
    <3>3. e.req \in Requests
      BY <3>1, Handled, EventShape
    <3> HIDE DEF S
    <3> QED
      BY <3>1, <3>2, <3>3, Zenon DEF ProcessesNext
  <2>2. ASSUME NEW e \in queue, HandleRemovePushExecution(e)
        PROVE  ProcessesNext
    <3>1. Handling(e, "REMOVE_PUSH_EXECUTION") /\ DelRequest(e.req, "event")
      BY <2>2, Zenon DEF HandleRemovePushExecution
    <3>2. e.req \in Requests /\ "event" \in Deleters
      BY <3>1, Handled, EventShape DEF Deleters
    <3> QED
      BY <3>1, <3>2, Zenon DEF ProcessesNext
  <2>3. ASSUME NEW e \in queue, HandleRemoveAuctions(e)
        PROVE  ProcessesNext
    <3> DEFINE S == {aucs[i].name : i \in e.objs}
    <3>1. DelAuctions(S)
      BY <2>3, Zenon DEF HandleRemoveAuctions
    <3>2. S \in SUBSET Auctions
      <4>1. S \subseteq present
        BY <3>1, Zenon DEF DelAuctions
      <4>2. present \subseteq Auctions
        BY DEF IInv, ProcessesInv, ProcessesTypeOK
      <4> HIDE DEF S
      <4> QED
        BY <4>1, <4>2
    <3> HIDE DEF S
    <3> QED
      BY <3>1, <3>2, Zenon DEF ProcessesNext
  <2>4. ASSUME NEW e \in queue, HandleRemoveInterval(e)
        PROVE  ProcessesNext \/ UNCHANGED processes
    <3>1. Handling(e, "REMOVE_RESOURCE_REQUEST_INTERVAL") /\ EndProcess(e.req)
      BY <2>4, Zenon DEF HandleRemoveInterval
    <3>2. e.req \in Requests /\ "interval" \in Deleters
      BY <3>1, Handled, EventShape DEF IntervalTypes, Deleters
    <3> QED
      BY <3>1, <3>2, Zenon DEF ProcessesNext, EndProcess
  <2>5. ASSUME NEW e \in queue, HandleEvent(e)
        PROVE  ProcessesNext \/ UNCHANGED processes
    BY <2>1, <2>2, <2>3, <2>4, <2>5, Zenon
       DEF HandleEvent, HandleAddResourceRequests, HandleActivateInterval, HandleConfigureSession,
           UseDeletedAuction, HandlePushExecution, HandleAddGeneratedBiddingObjects,
           HandleTransmitBiddingObjects, HandleActivateBiddingObjects, HandleRemoveBiddingObjects,
           HandleAuctioningInteraction, HandleActivateAuctions
  <2>6. ASSUME NEW F \in files, File(F) PROVE UNCHANGED processes
    BY <2>6, Zenon DEF File
  <2>7. ASSUME NEW r \in Requests, Configure(r) PROVE UNCHANGED processes
    BY <2>7, Zenon DEF Configure
  <2>8. ASSUME NEW r \in Requests, NEW list \in Answers, Answer(r, list)
        PROVE  UNCHANGED processes
    BY <2>8, Zenon DEF Answer
  <2>9. ASSUME NEW o \in DOMAIN objs, Allocate(o) PROVE UNCHANGED processes
    BY <2>9, Zenon DEF Allocate
  <2>10. CASE Tick \/ Stopped \/ UNCHANGED vars
    BY <2>10 DEF Tick, Stopped, vars
  <2> QED
    BY <2>5, <2>6, <2>7, <2>8, <2>9, <2>10 DEF Next
<1> QED
  BY <1>1, <1>2, AgentInvariant, PTL DEF Spec, ProcessesSpec

-----------------------------------------------------------------------------
(***************************************************************************)
(* The bids on their way: from the answer to an interval through the       *)
(* execution of its process, the installation of its bids and their        *)
(* transmission, all in one second.  FInv says that nothing comes between, *)
(* when an answer comes before its interval's end (MaxLate = 0).           *)
(***************************************************************************)

\* What ends a process of itself.
Ends == {"REMOVE_RESOURCE_REQUEST_INTERVAL", "REMOVE_PUSH_EXECUTION"}

\* The names of the auctions that session r lists.
Names(r) == {aucs[i].name : i \in sess[r].aucs}

\* Event f is on the way from the answer to r to its bids being sent.
Carries(f, r) ==
  \/ /\ f.type = "PUSH_EXECUTION"
     /\ f.index \in DOMAIN requests /\ requests[f.index].req = r
  \/ /\ f.type = "ADD_GENERATED_BIDDING_OBJECTS"
     /\ \E k \in DOMAIN f.allocs : f.allocs[k].req = r
  \/ /\ f.type = "TRANSMIT_BIDDING_OBJECTS"
     /\ \E o \in f.objs : objs[o].req = r

\* The bids of r are still to be sent.
Flying(r) == \E f \in queue : Carries(f, r)

\* What is to happen in the course of an answer is due, an interval begins in its
\* time, and an answer comes before its interval's end and before other processes'.
EventsTimed ==
  \A f \in queue :
    /\ f.type \in Flights \cup {"CREATE_SESSION"} => f.at <= now
    /\ f.type = "ACTIVATE_RESOURCE_REQUEST_INTERVAL" => sess[f.req].start <= Sec(f.at)
    /\ f.type = "CREATE_SESSION" =>
         /\ net[f.req] # "idle" /\ Time < sess[f.req].stop
         /\ \A g \in queue : g.type \in Ends /\ g.at <= now => Before(g, f)

\* A session is asked for when its interval has begun, and of a file that was read.
Begun ==
  \A r \in Requests :
    /\ net[r] # "idle" => sess[r].start <= Time
    /\ Waiting(r) => /\ net[r] = "idle"
                     /\ \A f \in queue : f.type = "ACTIVATE_RESOURCE_REQUEST_INTERVAL" => f.req # r

\* What carries bids carries those of one process.
OfOne(f) ==
  /\ f.type = "ADD_GENERATED_BIDDING_OBJECTS" =>
       \A k, l \in DOMAIN f.allocs :
         f.allocs[k].req = f.allocs[l].req /\ number[f.allocs[k].req] # NotAdded
  /\ f.type = "TRANSMIT_BIDDING_OBJECTS" =>
       \A o, p \in f.objs : objs[o].req = objs[p].req

\* So for all; bids and processes are of intervals that were answered, with their
\* auctions.
BidsCarried ==
  /\ \A f \in queue : OfOne(f)
  /\ \A o \in DOMAIN objs : number[objs[o].req] # NotAdded
  /\ \A i \in DOMAIN requests : requests[i].aucs \subseteq Names(requests[i].req)

\* Event f leaves interval r, its bids and its auctions alone until time goes on.
Apart(f, r) ==
  /\ f.at <= now =>
       /\ f.type \notin Ends
       /\ f.type = "REMOVE_AUCTIONS" => f.objs \cap sess[r].aucs = {}
       /\ f.type = "REMOVE_BIDDING_OBJECTS" => \A o \in f.objs : objs[o].req # r
  /\ f.type = "ADD_GENERATED_BIDDING_OBJECTS" =>
       \A k \in DOMAIN f.allocs :
         f.allocs[k].req = r => f.allocs[k].auc \in Names(r) /\ Time < f.allocs[k].stop

\* So does all that is due, and the auctions and the bids are there.
Clear(r) ==
  /\ Time < sess[r].end
  /\ \A i \in sess[r].aucs : Installed(i)
  /\ \A o \in DOMAIN objs : objs[o].req = r => objs[o].auc \in Names(r) /\ Time < objs[o].stop
  /\ \A f \in queue : Apart(f, r)

\* The process of r is in the table, and what carries its bids has its number.
OwnProcess(r) ==
  /\ number[r] \in DOMAIN requests /\ requests[number[r]].req = r
  /\ \A f \in queue : Carries(f, r) => f.index = number[r]

\* The bid with the code's number 0 was removed.
Lost(r) == 1 \in DOMAIN objs /\ objs[1].state = "done" /\ objs[1].req # r

\* A bid of r was sent, or its bids may be lost.
Delivered(r) == (\E s \in sent : objs[s[1]].req = r) \/ Lost(r)

\* Nothing that is due touches an interval whose bids are on their way, or its
\* auctions; nor its process, if that was not overwritten.
FlightsSafe ==
  \A r \in Requests :
    InTime(r) /\ Flying(r) =>
      /\ Clear(r)
      /\ Undisturbed(r) => OwnProcess(r)

\* An answer in time is followed by bids, before the process is over.
BidsFollow ==
  \A r \in Requests : Undisturbed(r) => Delivered(r) \/ (Flying(r) /\ r \notin over)

\* The invariant of the bids on their way.
FInv ==
  /\ EventsTimed /\ Begun /\ BidsCarried /\ FlightsSafe /\ BidsFollow
  /\ SentOverOwn /\ BidsHaveAuctions

-----------------------------------------------------------------------------
(***************************************************************************)
(* What deletions leave of the queue.                                      *)
(***************************************************************************)

\* g is f, with some of its lists taken away.
Kept(f, g) ==
  /\ g.type = f.type /\ g.at = f.at /\ g.rank = f.rank
  /\ f.type = "ADD_RESOURCE_REQUESTS" => g.reqs = f.reqs
  /\ f.type \in Flights => g.index = f.index
  /\ f.type \in IntervalTypes \cup {"CREATE_SESSION"} => g.req = f.req
  /\ f.type \in AuctionLists \cup BidLists => g.objs \subseteq f.objs
  /\ f.type = "ADD_GENERATED_BIDDING_OBJECTS" =>
       \A l \in DOMAIN g.allocs : \E k \in DOMAIN f.allocs : g.allocs[l] = f.allocs[k]

\* An event that stays is kept.
LEMMA KeptItself == \A f : Kept(f, f)
BY DEF Kept

\* What delBiddingObjectEvents leaves is kept, and it leaves all but the bids of S.
LEMMA BidEventsKept ==
  ASSUME NEW A, NEW O, NEW q, NEW S, NEW First, q \subseteq Events(A, O),
         NEW D, D = DelBiddingObjectEvents(q, S, First)
  PROVE  /\ \A g \in D : \E f \in q : Kept(f, g)
         /\ \A f \in q :
              /\ f.type \notin BidLists \cup {"ADD_GENERATED_BIDDING_OBJECTS"} => f \in D
              /\ f.type \in BidLists /\ ~(f.objs \subseteq S) =>
                   \E g \in D : Kept(f, g) /\ g.objs = f.objs \ S
              /\ f.type = "ADD_GENERATED_BIDDING_OBJECTS" /\ First \notin S => f \in D
<1> DEFINE Matches(e) == e.type = "ADD_GENERATED_BIDDING_OBJECTS" /\ First \in S
           Gone(e) == \/ e.type \in BidLists /\ e.objs \subseteq S
                      \/ Matches(e) /\ Len(e.allocs) = 1
           Strip(e) == IF e.type \in BidLists THEN [e EXCEPT !.objs = @ \ S]
                       ELSE IF Matches(e) THEN [e EXCEPT !.allocs = Tail(@)]
                       ELSE e
           kept == {f \in q : ~Gone(f)}
<1>1. D = {Strip(f) : f \in kept}
  BY DEF DelBiddingObjectEvents
<1>2. ASSUME NEW f \in q, f.type \in BidLists
      PROVE  Kept(f, Strip(f)) /\ Strip(f).objs = f.objs \ S
  <2>1. \/ f \in [at : Int, rank : Nat, objs : ListOf(O),
                  type : {"ACTIVATE_BIDDING_OBJECTS", "REMOVE_BIDDING_OBJECTS"}]
        \/ f \in [at : Int, rank : Nat, type : {"TRANSMIT_BIDDING_OBJECTS"}, index : Numbers,
                  objs : ListOf(O)]
    BY <1>2 DEF Events, BidLists, AuctionLists, IntervalTypes
  <2>2. PICK l : l = f.objs \ S
    OBVIOUS
  <2>3. PICK h : h = [f EXCEPT !.objs = l]
    OBVIOUS
  <2>4. Strip(f) = h
    BY <1>2, <2>2, <2>3
  <2>5. /\ h.type = f.type /\ h.at = f.at /\ h.rank = f.rank /\ h.objs = l
        /\ f.type = "TRANSMIT_BIDDING_OBJECTS" => h.index = f.index
    BY <2>1, <2>3
  <2>6. Kept(f, h)
    BY <1>2, <2>2, <2>5 DEF Kept, BidLists, IntervalTypes, Flights
  <2> QED
    BY <2>2, <2>4, <2>5, <2>6
<1>3. ASSUME NEW f \in q, f.type = "ADD_GENERATED_BIDDING_OBJECTS", First \in S
      PROVE  Kept(f, Strip(f))
  <2>1. f \in [at : Int, rank : Nat, type : {"ADD_GENERATED_BIDDING_OBJECTS"}, index : Numbers,
               allocs : Seq(Generated) \ {<<>>}]
    BY <1>3 DEF Events, BidLists, AuctionLists, IntervalTypes
  <2>2. PICK l : l = Tail(f.allocs)
    OBVIOUS
  <2>3. PICK h : h = [f EXCEPT !.allocs = l]
    OBVIOUS
  <2>4. Strip(f) = h
    BY <1>3, <2>2, <2>3 DEF BidLists
  <2>5. /\ h.type = f.type /\ h.at = f.at /\ h.rank = f.rank /\ h.allocs = l
        /\ h.index = f.index
    BY <2>1, <2>3
  <2>6. \A j \in DOMAIN l : \E k \in DOMAIN f.allocs : l[j] = f.allocs[k]
    <3>1. PICK s : s = f.allocs
      OBVIOUS
    <3>2. s \in Seq(Generated) /\ s # <<>>
      BY <2>1, <3>1
    <3>3. Len(s) \in Nat /\ DOMAIN s = 1 .. Len(s) /\ Len(s) # 0
      BY <3>2, EmptySeq, LenProperties
    <3>4. Tail(s) \in Seq(Generated) /\ Len(Tail(s)) = Len(s) - 1
      BY <3>2
    <3>5. DOMAIN Tail(s) = 1 .. Len(s) - 1
      BY <3>4, LenProperties
    <3>6. \A j \in 1 .. Len(s) - 1 : j + 1 \in DOMAIN s /\ Tail(s)[j] = s[j + 1]
      BY <3>2, <3>3
    <3>7. \A j \in DOMAIN Tail(s) : \E k \in DOMAIN s : Tail(s)[j] = s[k]
      BY <3>5, <3>6
    <3> QED
      BY <2>2, <3>1, <3>7
  <2>7. Kept(f, h)
    BY <1>3, <2>5, <2>6 DEF Kept, AuctionLists, BidLists, IntervalTypes, Flights
  <2> QED
    BY <2>4, <2>7
<1>4. \A f \in q : f.type \notin BidLists /\ ~Matches(f) => Strip(f) = f /\ f \in kept
  OBVIOUS
<1>5. \A f \in q : f.type \in BidLists /\ ~(f.objs \subseteq S) => f \in kept
  <2>1. "ADD_GENERATED_BIDDING_OBJECTS" \notin BidLists
    BY DEF BidLists
  <2>2. ASSUME NEW f \in q, f.type \in BidLists, ~(f.objs \subseteq S) PROVE ~Gone(f)
    <3>1. f.type # "ADD_GENERATED_BIDDING_OBJECTS"
      BY <2>1, <2>2, Zenon
    <3> QED
      BY <2>2, <3>1, Zenon
  <2> HIDE DEF Gone
  <2> QED
    BY <2>2
<1>6. kept \subseteq q
  OBVIOUS
<1>7. \A f \in q : Matches(f) <=> f.type = "ADD_GENERATED_BIDDING_OBJECTS" /\ First \in S
  OBVIOUS
<1> HIDE DEF Strip, kept, Matches
<1>8. \A g \in D : \E f \in q : Kept(f, g)
  <2> SUFFICES ASSUME NEW f \in kept PROVE Kept(f, Strip(f)) /\ f \in q
    BY <1>1
  <2> QED
    BY <1>2, <1>3, <1>4, <1>6, <1>7, KeptItself
<1>9. \A f \in q : f \in kept => Strip(f) \in D
  BY <1>1
<1>10. \A f \in q : f.type \notin BidLists /\ ~Matches(f) => f \in D
  BY <1>4, <1>9
<1>11. \A f \in q : f.type \in BidLists /\ ~(f.objs \subseteq S) =>
         \E g \in D : Kept(f, g) /\ g.objs = f.objs \ S
  BY <1>2, <1>5, <1>9
<1>12. "ADD_GENERATED_BIDDING_OBJECTS" \notin BidLists
  BY DEF BidLists
<1> QED
  BY <1>7, <1>8, <1>10, <1>11, <1>12

\* So does delAuctionEvents, with auctions.
LEMMA AuctionEventsKept ==
  ASSUME NEW A, NEW O, NEW q, NEW S, q \subseteq Events(A, O),
         NEW D, D = DelAuctionEvents(q, S)
  PROVE  /\ \A g \in D : \E f \in q : Kept(f, g)
         /\ \A f \in q : f.type \notin AuctionLists => f \in D
<1> DEFINE Strip(f) == IF f.type \in AuctionLists THEN [f EXCEPT !.objs = @ \ S] ELSE f
           kept == {f \in q : f.type \in AuctionLists => ~(f.objs \subseteq S)}
<1>1. D = {Strip(f) : f \in kept}
  BY DEF DelAuctionEvents
<1>2. ASSUME NEW f \in q, f.type \in AuctionLists
      PROVE  Kept(f, Strip(f))
  <2>1. f \in [at : Int, rank : Nat, type : AuctionLists, objs : ListOf(A)]
    BY <1>2 DEF Events, AuctionLists, IntervalTypes
  <2>2. PICK l : l = f.objs \ S
    OBVIOUS
  <2>3. PICK h : h = [f EXCEPT !.objs = l]
    OBVIOUS
  <2>4. Strip(f) = h
    BY <1>2, <2>2, <2>3
  <2>5. h.type = f.type /\ h.at = f.at /\ h.rank = f.rank /\ h.objs = l
    BY <2>1, <2>3
  <2> QED
    BY <1>2, <2>2, <2>4, <2>5 DEF Kept, AuctionLists, IntervalTypes, Flights
<1>3. \A f \in q : f.type \notin AuctionLists => Strip(f) = f /\ f \in kept
  OBVIOUS
<1>4. kept \subseteq q
  OBVIOUS
<1> HIDE DEF Strip, kept
<1>5. \A f \in kept : Kept(f, Strip(f)) /\ f \in q
  BY <1>2, <1>3, <1>4, KeptItself
<1> QED
  BY <1>1, <1>3, <1>5

-----------------------------------------------------------------------------
(***************************************************************************)
(* What steps have in common.                                              *)
(***************************************************************************)

\* Types of what is looked up.
LEMMA FlightTypes ==
  ASSUME IInv
  PROVE  /\ now \in Int
         /\ \A o \in DOMAIN objs : objs[o].req \in Requests
         /\ \A i \in DOMAIN requests : requests[i].req \in Requests /\ number[requests[i].req] = i
         /\ \A r \in Requests : /\ sess[r].aucs \subseteq DOMAIN aucs
                                /\ sess[r].start \in Nat /\ sess[r].stop \in Nat /\ sess[r].end \in Nat
         /\ \A f \in queue :
              /\ f \in Events(DOMAIN aucs, DOMAIN objs) /\ f.at \in Int /\ f.rank \in Nat
              /\ f.type \in BidLists => f.objs \subseteq DOMAIN objs /\ f.objs # {}
              /\ f.type \in AuctionLists => f.objs \subseteq DOMAIN aucs
              /\ f.type = "ADD_GENERATED_BIDDING_OBJECTS" =>
                   /\ f.allocs # <<>>
                   /\ \A k \in DOMAIN f.allocs : f.allocs[k].req \in Requests
<1>1. now \in Int
  BY WindowAssumption DEF IInv, Types
<1>2. \A o \in DOMAIN objs : objs[o] \in Bids
  BY ElementOfSeq, LenProperties DEF IInv, Types
<1>3. \A o \in DOMAIN objs : objs[o].req \in Requests
  BY <1>2 DEF Bids, ObjectType
<1>4. \A i \in DOMAIN requests : requests[i].req \in Requests /\ number[requests[i].req] = i
  BY DEF IInv, ProcessesInv, ProcessesTypeOK, Process, OwnNumber
<1>5. \A r \in Requests : sess[r] \in SessionType
  BY DEF IInv, Types
<1>6. \A r \in Requests : /\ sess[r].aucs \subseteq DOMAIN aucs
                          /\ sess[r].start \in Nat /\ sess[r].stop \in Nat /\ sess[r].end \in Nat
  BY <1>5 DEF SessionType
<1>7. \A f \in queue : f \in Events(DOMAIN aucs, DOMAIN objs)
  BY DEF IInv, QueueOK, EventOK
<1>8. ASSUME NEW f \in queue, f.type = "ADD_GENERATED_BIDDING_OBJECTS"
      PROVE  f.allocs # <<>> /\ \A k \in DOMAIN f.allocs : f.allocs[k].req \in Requests
  <2>1. f.allocs \in Seq(Generated) /\ f.allocs # <<>>
    BY <1>7, <1>8, EventShape
  <2>2. \A k \in DOMAIN f.allocs : f.allocs[k] \in Generated
    BY <2>1, ElementOfSeq, LenProperties
  <2>3. \A k \in DOMAIN f.allocs : f.allocs[k].req \in Requests
    BY <2>2 DEF Generated, ObjectType
  <2> QED
    BY <2>1, <2>3
<1>9. ASSUME NEW f \in queue
      PROVE  /\ f.at \in Int /\ f.rank \in Nat
             /\ f.type \in BidLists => f.objs \subseteq DOMAIN objs /\ f.objs # {}
             /\ f.type \in AuctionLists => f.objs \subseteq DOMAIN aucs
  BY <1>7, EventShape
<1> QED
  BY <1>1, <1>3, <1>4, <1>6, <1>7, <1>8, <1>9

\* What carries the bids of r after a step did before, if no process took a number.
LEMMA CarriedBack ==
  ASSUME IInv, NEW f \in queue, NEW g, Kept(f, g), NEW r, Carries(g, r)',
         \A o \in DOMAIN objs : objs'[o].req = objs[o].req,
         \A i \in DOMAIN requests' : i \in DOMAIN requests /\ requests'[i].req = requests[i].req
  PROVE  Carries(f, r)
<1>1. CASE g.type = "PUSH_EXECUTION"
  BY <1>1 DEF Carries, Kept, Flights
<1>2. CASE g.type = "ADD_GENERATED_BIDDING_OBJECTS"
  BY <1>2 DEF Carries, Kept
<1>3. CASE g.type = "TRANSMIT_BIDDING_OBJECTS"
  <2>1. f.type = "TRANSMIT_BIDDING_OBJECTS" /\ f.type \in BidLists
    BY <1>3 DEF Kept, BidLists
  <2>2. f.objs \subseteq DOMAIN objs /\ g.objs \subseteq f.objs
    BY <2>1, FlightTypes DEF Kept
  <2>3. PICK o \in g.objs : objs'[o].req = r
    BY <1>3 DEF Carries
  <2> QED
    BY <2>1, <2>2, <2>3 DEF Carries
<1> QED
  BY <1>1, <1>2, <1>3 DEF Carries

\* The names of the auctions of a session stay.
LEMMA NamesKept ==
  ASSUME IInv, NEW r \in Requests, sess'[r].aucs = sess[r].aucs,
         \A i \in DOMAIN aucs : aucs'[i].name = aucs[i].name
  PROVE  Names(r)' = Names(r)
<1>1. sess[r].aucs \subseteq DOMAIN aucs
  BY FlightTypes
<1> QED
  BY <1>1 DEF Names

\* What leaves r alone after a step did before, or is new and does.
LEMMA ClearKept ==
  ASSUME IInv, NEW r \in Requests, Clear(r), now' = now,
         sess'[r].end = sess[r].end, sess'[r].aucs = sess[r].aucs,
         \A i \in DOMAIN aucs : i \in DOMAIN aucs' /\ aucs'[i].name = aucs[i].name,
         \A i \in sess[r].aucs : aucs[i].state # "done" => aucs'[i].state # "done",
         \A o \in DOMAIN objs : objs'[o].req = objs[o].req,
         \A o \in DOMAIN objs' : objs'[o].req = r => objs'[o].auc \in Names(r) /\ Time < objs'[o].stop,
         \A g \in queue' : (\E f \in queue : Kept(f, g)) \/ Apart(g, r)'
  PROVE  Clear(r)'
<1>1. Names(r)' = Names(r)
  BY NamesKept
<1>2. Time' = Time
  BY DEF Time
<1>3. sess[r].aucs \subseteq DOMAIN aucs
  BY FlightTypes
<1>4. ASSUME NEW f \in queue, NEW g \in queue', Kept(f, g)
      PROVE  Apart(g, r)'
  <2>1. Apart(f, r)
    BY DEF Clear
  <2>2. g.at <= now' => g.type \notin Ends
    BY <1>4, <2>1 DEF Apart, Kept
  <2>3. g.at <= now' /\ g.type = "REMOVE_AUCTIONS" => g.objs \cap sess'[r].aucs = {}
    BY <1>4, <2>1 DEF Apart, Kept, AuctionLists
  <2>4. ASSUME g.at <= now', g.type = "REMOVE_BIDDING_OBJECTS"
        PROVE  \A o \in g.objs : objs'[o].req # r
    <3>1. /\ f.at <= now /\ f.type = "REMOVE_BIDDING_OBJECTS" /\ f.type \in BidLists
          /\ g.objs \subseteq f.objs
      BY <1>4, <2>4 DEF Kept, BidLists
    <3>2. f.objs \subseteq DOMAIN objs
      BY <3>1, FlightTypes
    <3> QED
      BY <2>1, <3>1, <3>2 DEF Apart
  <2>5. ASSUME g.type = "ADD_GENERATED_BIDDING_OBJECTS", NEW k \in DOMAIN g.allocs,
               g.allocs[k].req = r
        PROVE  g.allocs[k].auc \in Names(r)' /\ Time' < g.allocs[k].stop
    <3>1. PICK l \in DOMAIN f.allocs : g.allocs[k] = f.allocs[l]
      BY <1>4, <2>5 DEF Kept
    <3>2. f.type = "ADD_GENERATED_BIDDING_OBJECTS"
      BY <1>4, <2>5 DEF Kept
    <3> QED
      BY <1>1, <1>2, <2>1, <2>5, <3>1, <3>2 DEF Apart
  <2> QED
    BY <2>2, <2>3, <2>4, <2>5, Zenon DEF Apart
<1>5. \A g \in queue' : Apart(g, r)'
  BY <1>4
<1>6. Time' < sess'[r].end
  BY <1>2 DEF Clear
<1>7. \A i \in sess'[r].aucs : Installed(i)'
  BY <1>3 DEF Clear, Installed
<1> QED
  BY <1>1, <1>2, <1>5, <1>6, <1>7 DEF Clear

\* Bids that were sent, or lost, stay so.
LEMMA DeliveredKept ==
  ASSUME IInv, NEW r \in Requests, Delivered(r), sent \subseteq sent',
         \A o \in DOMAIN objs : /\ o \in DOMAIN objs' /\ objs'[o].req = objs[o].req
                                /\ objs[o].state = "done" => objs'[o].state = "done"
  PROVE  Delivered(r)'
<1>1. CASE Lost(r)
  BY <1>1 DEF Lost, Delivered
<1>2. CASE \E s \in sent : objs[s[1]].req = r
  <2>1. PICK s \in sent : objs[s[1]].req = r
    BY <1>2
  <2>2. s[1] \in DOMAIN objs
    BY DEF IInv, Types
  <2> QED
    BY <2>1, <2>2 DEF Delivered
<1> QED
  BY <1>1, <1>2 DEF Delivered

\* What carries bids carries those of one process after a step that makes none.
LEMMA CarriedKept ==
  ASSUME IInv, BidsCarried,
         \A r \in Requests : number[r] # NotAdded => number'[r] # NotAdded,
         \A r \in Requests : sess'[r].aucs = sess[r].aucs,
         \A i \in DOMAIN aucs : aucs'[i].name = aucs[i].name,
         \A o \in DOMAIN objs : objs'[o].req = objs[o].req,
         \A o \in DOMAIN objs' : o \notin DOMAIN objs => number'[objs'[o].req] # NotAdded,
         \A i \in DOMAIN requests' : /\ i \in DOMAIN requests /\ requests'[i].req = requests[i].req
                                     /\ requests'[i].aucs \subseteq requests[i].aucs,
         \A g \in queue' : (\E f \in queue : Kept(f, g)) \/ OfOne(g)'
  PROVE  BidsCarried'
<1>1. ASSUME NEW f \in queue, NEW g \in queue', Kept(f, g)
      PROVE  OfOne(g)'
  <2>1. OfOne(f)
    BY DEF BidsCarried
  <2>2. ASSUME g.type = "ADD_GENERATED_BIDDING_OBJECTS", NEW k \in DOMAIN g.allocs,
               NEW l \in DOMAIN g.allocs
        PROVE  g.allocs[k].req = g.allocs[l].req /\ number'[g.allocs[k].req] # NotAdded
    <3>1. PICK i \in DOMAIN f.allocs : g.allocs[k] = f.allocs[i]
      BY <1>1, <2>2 DEF Kept
    <3>2. PICK j \in DOMAIN f.allocs : g.allocs[l] = f.allocs[j]
      BY <1>1, <2>2 DEF Kept
    <3>3. f.type = "ADD_GENERATED_BIDDING_OBJECTS" /\ f.allocs[i].req \in Requests
      BY <1>1, <2>2, FlightTypes DEF Kept
    <3> QED
      BY <2>1, <3>1, <3>2, <3>3 DEF OfOne
  <2>3. ASSUME g.type = "TRANSMIT_BIDDING_OBJECTS", NEW o \in g.objs, NEW p \in g.objs
        PROVE  objs'[o].req = objs'[p].req
    <3>1. f.type = "TRANSMIT_BIDDING_OBJECTS" /\ f.type \in BidLists /\ g.objs \subseteq f.objs
      BY <1>1, <2>3 DEF Kept, BidLists
    <3>2. f.objs \subseteq DOMAIN objs
      BY <3>1, FlightTypes
    <3> QED
      BY <2>1, <3>1, <3>2 DEF OfOne
  <2> QED
    BY <2>2, <2>3, Zenon DEF OfOne
<1>2. \A o \in DOMAIN objs' : number'[objs'[o].req] # NotAdded
  BY FlightTypes DEF BidsCarried
<1>3. ASSUME NEW i \in DOMAIN requests'
      PROVE  (requests[i].aucs \subseteq Names(requests[i].req))'
  <2>1. PICK q \in Requests : q = requests[i].req /\ q = requests'[i].req /\ i \in DOMAIN requests
    BY FlightTypes
  <2>2. Names(q)' = Names(q)
    BY NamesKept
  <2>3. requests'[i].aucs \subseteq requests[i].aucs /\ requests[i].aucs \subseteq Names(q)
    BY <2>1 DEF BidsCarried
  <2> QED
    BY <2>1, <2>2, <2>3
<1> QED
  BY <1>1, <1>2, <1>3 DEF BidsCarried

\* Bids keep their auctions in a step by which none ends and removals stay.
LEMMA HeldKept ==
  ASSUME IInv, BidsHaveAuctions, now' = now, present \subseteq present',
         \A r \in Requests : InTime(r)' => InTime(r) \/ \A o \in DOMAIN objs : objs[o].req # r,
         \A o \in DOMAIN objs : /\ objs'[o].req = objs[o].req /\ objs'[o].auc = objs[o].auc
                                /\ objs'[o].kind = objs[o].kind
                                /\ objs'[o].state # "done" => objs[o].state # "done",
         \A o \in DOMAIN objs' : o \notin DOMAIN objs =>
           /\ objs'[o].req \in Requests
           /\ \/ objs'[o].kind # "bid"
              \/ \A r \in Requests : objs'[o].req = r /\ InTime(r)' => objs'[o].auc \in present,
         \A f \in queue : \A o : f.type = "REMOVE_BIDDING_OBJECTS" /\ o \in f.objs
                              /\ objs'[o].state # "done" =>
           \E g \in queue' : g.type = f.type /\ g.at = f.at /\ o \in g.objs
  PROVE  BidsHaveAuctions'
<1> SUFFICES ASSUME NEW o \in DOMAIN objs', objs'[o].kind = "bid", objs'[o].state # "done",
                    InTime(objs[o].req)'
             PROVE  \/ objs'[o].auc \in present'
                    \/ \E e \in queue' : /\ e.type = "REMOVE_BIDDING_OBJECTS"
                                         /\ o \in e.objs /\ e.at <= now'
  BY DEF BidsHaveAuctions, Pending
<1>1. CASE o \in DOMAIN objs
  <2>1. objs[o].req \in Requests /\ objs'[o].req = objs[o].req
    BY <1>1, FlightTypes
  <2>2. InTime(objs[o].req) /\ objs[o].kind = "bid" /\ objs[o].state # "done"
    <3>1. PICK r \in Requests : r = objs[o].req
      BY <2>1
    <3>2. InTime(r)'
      BY <2>1, <3>1 DEF InTime
    <3> QED
      BY <1>1, <3>1, <3>2
  <2>3. CASE objs[o].auc \in present
    BY <1>1, <2>3
  <2>4. CASE \E e \in queue : e.type = "REMOVE_BIDDING_OBJECTS" /\ o \in e.objs /\ e.at <= now
    BY <2>4
  <2> QED
    BY <1>1, <2>2, <2>3, <2>4 DEF BidsHaveAuctions, Pending
<1>2. CASE o \notin DOMAIN objs
  <2>1. PICK r \in Requests : r = objs'[o].req
    BY <1>2
  <2>2. InTime(r)'
    BY <2>1 DEF InTime
  <2> QED
    BY <1>2, <2>1, <2>2
<1> QED
  BY <1>1, <1>2

\* What was sent over its own session was.
LEMMA SentKept ==
  ASSUME IInv, SentOverOwn, sent' = sent,
         \A r \in Requests : Undisturbed(r)' => Undisturbed(r),
         \A o \in DOMAIN objs : objs'[o].req = objs[o].req
  PROVE  SentOverOwn'
<1>1. \A s \in sent : s[1] \in DOMAIN objs
  BY DEF IInv, Types
<1> QED
  BY <1>1, FlightTypes DEF SentOverOwn

\* The flights of r stay safe, if what carries bids of r did so before.
LEMMA SafeKept ==
  ASSUME IInv, FlightsSafe, now' = now, NEW r \in Requests,
         InTime(r)' => InTime(r), Undisturbed(r)' => Undisturbed(r),
         sess'[r].end = sess[r].end, sess'[r].aucs = sess[r].aucs, number'[r] = number[r],
         \A i \in DOMAIN aucs : i \in DOMAIN aucs' /\ aucs'[i].name = aucs[i].name,
         \A o \in DOMAIN objs : objs'[o].req = objs[o].req,
         \A g \in queue' : Carries(g, r)' => \E f \in queue : Carries(f, r) /\ g.index = f.index,
         InTime(r) /\ Flying(r) /\ Clear(r) /\ (Undisturbed(r) => OwnProcess(r)) =>
           /\ \A i \in sess[r].aucs : aucs[i].state # "done" => aucs'[i].state # "done"
           /\ \A o \in DOMAIN objs' : objs'[o].req = r => objs'[o].auc \in Names(r) /\ Time < objs'[o].stop
           /\ \A g \in queue' : (\E f \in queue : Kept(f, g)) \/ Apart(g, r)'
           /\ Undisturbed(r) => /\ number[r] \in DOMAIN requests'
                                /\ requests'[number[r]].req = r
  PROVE  InTime(r)' /\ Flying(r)' => Clear(r)' /\ (Undisturbed(r)' => OwnProcess(r)')
<1> SUFFICES ASSUME InTime(r)', Flying(r)'
             PROVE  Clear(r)' /\ (Undisturbed(r)' => OwnProcess(r)')
  OBVIOUS
<1>1. InTime(r) /\ Flying(r)
  BY DEF Flying
<1>2. Clear(r) /\ (Undisturbed(r) => OwnProcess(r))
  BY <1>1 DEF FlightsSafe
<1>3. Clear(r)'
  BY <1>1, <1>2, ClearKept
<1>4. ASSUME Undisturbed(r)' PROVE OwnProcess(r)'
  <2>1. \A f \in queue : Carries(f, r) => f.index = number[r]
    BY <1>2, <1>4 DEF OwnProcess
  <2>2. \A g \in queue' : Carries(g, r)' => g.index = number'[r]
    BY <2>1
  <2> QED
    BY <1>1, <1>2, <1>4, <2>2 DEF OwnProcess
<1> QED
  BY <1>3, <1>4

\* New events of this kind are no matter of time.
LEMMA Punctual ==
  ASSUME IInv, EventsTimed, Begun, now' = now, files' = files,
         \A r \in Requests :
           /\ net[r] # "idle" <=> net'[r] # "idle"
           /\ sess'[r].start = sess[r].start /\ sess'[r].stop = sess[r].stop,
         \A g \in queue' :
           \/ \E f \in queue : Kept(f, g)
           \/ /\ g.type \notin {"CREATE_SESSION", "ACTIVATE_RESOURCE_REQUEST_INTERVAL",
                                "ADD_RESOURCE_REQUESTS"}
              /\ g.type \in Flights => g.at <= now
              /\ g.type \in Ends => ~(g.at <= now)
  PROVE  EventsTimed' /\ Begun'
<1>1. Time' = Time
  BY DEF Time
<1>2. \A r : Waiting(r)' => Waiting(r)
  BY DEF Waiting, Kept
<1>3. Begun'
  <2> SUFFICES ASSUME NEW r \in Requests
               PROVE  /\ net'[r] # "idle" => sess'[r].start <= Time'
                      /\ Waiting(r)' =>
                           /\ net'[r] = "idle"
                           /\ \A g \in queue' :
                                g.type = "ACTIVATE_RESOURCE_REQUEST_INTERVAL" => g.req # r
    BY Zenon DEF Begun
  <2>1. net'[r] # "idle" => sess'[r].start <= Time'
    BY <1>1 DEF Begun
  <2>2. ASSUME Waiting(r)', NEW g \in queue', g.type = "ACTIVATE_RESOURCE_REQUEST_INTERVAL"
        PROVE  g.req # r
    <3>1. PICK f \in queue : Kept(f, g)
      BY <2>2
    <3>2. f.type = "ACTIVATE_RESOURCE_REQUEST_INTERVAL" /\ g.req = f.req
      BY <2>2, <3>1 DEF Kept, IntervalTypes
    <3> QED
      BY <1>2, <2>2, <3>2 DEF Begun
  <2>3. Waiting(r)' => net'[r] = "idle"
    BY <1>2 DEF Begun
  <2> QED
    BY <2>1, <2>2, <2>3
<1>4. EventsTimed'
  <2> SUFFICES ASSUME NEW g \in queue'
               PROVE  /\ g.type \in Flights \cup {"CREATE_SESSION"} => g.at <= now'
                      /\ g.type = "ACTIVATE_RESOURCE_REQUEST_INTERVAL" => sess'[g.req].start <= Sec(g.at)
                      /\ g.type = "CREATE_SESSION" =>
                           /\ net'[g.req] # "idle" /\ Time' < sess'[g.req].stop
                           /\ \A h \in queue' : h.type \in Ends /\ h.at <= now' => Before(h, g)
    BY Zenon DEF EventsTimed
  <2>1. CASE ~ \E f \in queue : Kept(f, g)
    BY <2>1
  <2>2. ASSUME NEW f \in queue, Kept(f, g)
        PROVE  /\ g.type \in Flights \cup {"CREATE_SESSION"} => g.at <= now'
               /\ g.type = "ACTIVATE_RESOURCE_REQUEST_INTERVAL" => sess'[g.req].start <= Sec(g.at)
    <3>1. f.type = g.type /\ f.at = g.at
      BY <2>2 DEF Kept
    <3>2. g.type = "ACTIVATE_RESOURCE_REQUEST_INTERVAL" => g.req = f.req /\ f.req \in Requests
      BY <2>2, <3>1, FlightTypes, EventShape DEF Kept, IntervalTypes
    <3> QED
      BY <3>1, <3>2 DEF EventsTimed
  <2>3. ASSUME NEW f \in queue, Kept(f, g), g.type = "CREATE_SESSION"
        PROVE  /\ net'[g.req] # "idle" /\ Time' < sess'[g.req].stop
               /\ \A h \in queue' : h.type \in Ends /\ h.at <= now' => Before(h, g)
    <3>1. f.type = "CREATE_SESSION" /\ f.at = g.at /\ f.rank = g.rank /\ g.req = f.req
      BY <2>3 DEF Kept
    <3>2. f.req \in Requests
      BY <3>1, FlightTypes, EventShape
    <3>3. net[f.req] # "idle" /\ Time < sess[f.req].stop
      BY <3>1 DEF EventsTimed
    <3>4. ASSUME NEW h \in queue', h.type \in Ends, h.at <= now' PROVE Before(h, g)
      <4>1. PICK d \in queue : Kept(d, h)
        BY <3>4
      <4>2. d.type \in Ends /\ d.at = h.at /\ d.rank = h.rank
        BY <3>4, <4>1 DEF Kept
      <4>3. Before(d, f)
        BY <3>1, <3>4, <4>2 DEF EventsTimed
      <4> QED
        BY <3>1, <4>2, <4>3 DEF Before
    <3> QED
      BY <1>1, <3>1, <3>2, <3>3, <3>4
  <2> QED
    BY <2>1, <2>2, <2>3
<1> QED
  BY <1>3, <1>4

\* A step by which bids get on their way, that leaves processes and what was sent alone.
LEMMA PassedOn ==
  ASSUME IInv, FInv, UNCHANGED <<now, sent, processes>>, EventsTimed', Begun',
         \A r \in Requests : /\ sess'[r].end = sess[r].end /\ sess'[r].aucs = sess[r].aucs
                             /\ sess'[r].answer = sess[r].answer,
         \A i \in DOMAIN aucs : /\ i \in DOMAIN aucs' /\ aucs'[i].name = aucs[i].name
                                /\ aucs[i].state # "done" => aucs'[i].state # "done",
         \A o \in DOMAIN objs : /\ o \in DOMAIN objs' /\ objs'[o].req = objs[o].req
                                /\ objs'[o].auc = objs[o].auc
                                /\ objs'[o].stop = objs[o].stop /\ objs'[o].kind = objs[o].kind
                                /\ objs'[o].state # "done" <=> objs[o].state # "done",
         \A o \in DOMAIN objs' : o \notin DOMAIN objs =>
           /\ objs'[o].req \in Requests /\ number[objs'[o].req] # NotAdded
           /\ \A r \in Requests : objs'[o].req = r /\ InTime(r) =>
                /\ Flying(r) => objs'[o].auc \in Names(r) /\ Time < objs'[o].stop
                /\ objs'[o].kind # "bid" \/ objs'[o].auc \in present,
         \A g \in queue' :
           \/ \E f \in queue : Kept(f, g)
           \/ OfOne(g)' /\ \A r \in Requests : InTime(r) /\ Flying(r) => Apart(g, r)',
         \A g \in queue', r \in Requests :
           Carries(g, r)' => \E f \in queue : Carries(f, r) /\ g.index = f.index,
         \A f \in queue, r \in Requests : Carries(f, r) => \E g \in queue' : Carries(g, r)',
         \A f \in queue : f.type = "REMOVE_BIDDING_OBJECTS" => f \in queue'
  PROVE  FInv'
<1>1. /\ requests' = requests /\ number' = number /\ over' = over /\ present' = present
  BY DEF processes
<1>2. EventsTimed /\ Begun /\ BidsCarried /\ FlightsSafe /\ BidsFollow
      /\ SentOverOwn /\ BidsHaveAuctions
  BY DEF FInv
<1>3. \A r \in Requests : Flying(r)' <=> Flying(r)
  BY DEF Flying
<1>4. \A r \in Requests : /\ InTime(r)' <=> InTime(r)
                          /\ Undisturbed(r)' <=> Undisturbed(r)
  BY DEF InTime, Undisturbed
<1>5. BidsCarried'
  <2>1. \A o \in DOMAIN objs' : o \notin DOMAIN objs => number'[objs'[o].req] # NotAdded
    BY <1>1
  <2>2. \A g \in queue' : (\E f \in queue : Kept(f, g)) \/ OfOne(g)'
    OBVIOUS
  <2> QED
    BY <1>1, <1>2, <2>1, <2>2, CarriedKept
<1>6. ASSUME NEW r \in Requests
      PROVE  InTime(r)' /\ Flying(r)' => Clear(r)' /\ (Undisturbed(r)' => OwnProcess(r)')
  <2>1. ASSUME InTime(r), Flying(r), Clear(r), Undisturbed(r) => OwnProcess(r)
        PROVE  /\ \A i \in sess[r].aucs : aucs[i].state # "done" => aucs'[i].state # "done"
               /\ \A o \in DOMAIN objs' :
                    objs'[o].req = r => objs'[o].auc \in Names(r) /\ Time < objs'[o].stop
               /\ \A g \in queue' : (\E f \in queue : Kept(f, g)) \/ Apart(g, r)'
               /\ Undisturbed(r) => /\ number[r] \in DOMAIN requests'
                                    /\ requests'[number[r]].req = r
    <3>1. \A i \in sess[r].aucs : aucs[i].state # "done" => aucs'[i].state # "done"
      BY FlightTypes
    <3>2. \A o \in DOMAIN objs' :
            objs'[o].req = r => objs'[o].auc \in Names(r) /\ Time < objs'[o].stop
      <4>1. \A o \in DOMAIN objs : objs[o].req = r => objs[o].auc \in Names(r) /\ Time < objs[o].stop
        BY <2>1 DEF Clear
      <4> QED
        BY <2>1, <4>1
    <3>3. \A g \in queue' : (\E f \in queue : Kept(f, g)) \/ Apart(g, r)'
      BY <2>1
    <3>4. Undisturbed(r) => number[r] \in DOMAIN requests' /\ requests'[number[r]].req = r
      BY <1>1, <2>1 DEF OwnProcess
    <3> QED
      BY <3>1, <3>2, <3>3, <3>4
  <2>2. \A g \in queue' : Carries(g, r)' => \E f \in queue : Carries(f, r) /\ g.index = f.index
    OBVIOUS
  <2>3. number'[r] = number[r]
    BY <1>1
  <2> QED
    BY <1>2, <1>4, <2>1, <2>2, <2>3, SafeKept
<1>7. FlightsSafe'
  BY <1>6 DEF FlightsSafe
<1>8. BidsFollow'
  <2> SUFFICES ASSUME NEW r \in Requests, Undisturbed(r)'
               PROVE  Delivered(r)' \/ (Flying(r)' /\ r \notin over')
    BY DEF BidsFollow
  <2>1. Delivered(r) \/ (Flying(r) /\ r \notin over)
    BY <1>2, <1>4 DEF BidsFollow
  <2>2. Delivered(r) => Delivered(r)'
    BY DeliveredKept
  <2> QED
    BY <1>1, <1>3, <2>1, <2>2
<1>9. SentOverOwn'
  BY <1>2, <1>4, SentKept
<1>10. BidsHaveAuctions'
  <2>1. \A f \in queue : \A o : f.type = "REMOVE_BIDDING_OBJECTS" /\ o \in f.objs
                             /\ objs'[o].state # "done" =>
          \E g \in queue' : g.type = f.type /\ g.at = f.at /\ o \in g.objs
    OBVIOUS
  <2>2. \A o \in DOMAIN objs' : o \notin DOMAIN objs =>
           /\ objs'[o].req \in Requests
           /\ \/ objs'[o].kind # "bid"
              \/ \A r \in Requests : objs'[o].req = r /\ InTime(r)' => objs'[o].auc \in present
    BY <1>4
  <2> QED
    BY <1>1, <1>2, <1>4, <2>1, <2>2, HeldKept
<1> QED
  BY <1>5, <1>7, <1>8, <1>9, <1>10 DEF FInv

\* A step that leaves bids on their way alone as well.
LEMMA CalmStep ==
  ASSUME IInv, FInv, UNCHANGED <<now, sent, processes>>, EventsTimed', Begun',
         \A r \in Requests : /\ sess'[r].end = sess[r].end /\ sess'[r].aucs = sess[r].aucs
                             /\ sess'[r].answer = sess[r].answer,
         \A i \in DOMAIN aucs : /\ i \in DOMAIN aucs' /\ aucs'[i].name = aucs[i].name
                                /\ aucs[i].state # "done" => aucs'[i].state # "done",
         \A o \in DOMAIN objs : /\ o \in DOMAIN objs' /\ objs'[o].req = objs[o].req
                                /\ objs'[o].auc = objs[o].auc /\ objs'[o].stop = objs[o].stop
                                /\ objs'[o].kind = objs[o].kind
                                /\ objs'[o].state # "done" <=> objs[o].state # "done",
         \A o \in DOMAIN objs' : o \notin DOMAIN objs =>
           /\ objs'[o].kind # "bid"
           /\ \E p \in DOMAIN objs : /\ objs'[o].req = objs[p].req /\ objs'[o].auc = objs[p].auc
                                     /\ objs'[o].stop = objs[p].stop,
         \A g \in queue' :
           \/ \E f \in queue : Kept(f, g)
           \/ /\ g.type \notin Flights
              /\ \A r \in Requests : InTime(r) /\ Flying(r) => Apart(g, r)',
         \A f \in queue : f.type = "REMOVE_BIDDING_OBJECTS" \/ (\E r \in Requests : Carries(f, r))
                            => f \in queue'
  PROVE  FInv'
<1>1. /\ requests' = requests /\ number' = number /\ over' = over /\ present' = present
  BY DEF processes
<1>2. BidsCarried /\ FlightsSafe
  BY DEF FInv
<1>3. ASSUME NEW g \in queue', NEW r \in Requests, Carries(g, r)'
      PROVE  \E f \in queue : Carries(f, r) /\ g.index = f.index
  <2>1. g.type \in Flights
    BY <1>3 DEF Carries, Flights
  <2>2. PICK f \in queue : Kept(f, g)
    BY <2>1
  <2>3. Carries(f, r)
    BY <1>1, <1>3, <2>2, CarriedBack
  <2> QED
    BY <2>1, <2>2, <2>3 DEF Kept
<1>4. ASSUME NEW f \in queue, NEW r \in Requests, Carries(f, r)
      PROVE  f \in queue' /\ Carries(f, r)'
  <2>1. f \in queue'
    BY <1>4
  <2>2. f.type = "TRANSMIT_BIDDING_OBJECTS" => f.objs \subseteq DOMAIN objs
    BY FlightTypes DEF BidLists
  <2>3. Carries(f, r)'
    <3>1. CASE f.type = "PUSH_EXECUTION"
      BY <1>1, <1>4, <3>1 DEF Carries
    <3>2. CASE f.type = "ADD_GENERATED_BIDDING_OBJECTS"
      BY <1>4, <3>2 DEF Carries
    <3>3. CASE f.type = "TRANSMIT_BIDDING_OBJECTS"
      BY <1>4, <2>2, <3>3 DEF Carries
    <3> QED
      BY <1>4, <3>1, <3>2, <3>3 DEF Carries
  <2> QED
    BY <2>1, <2>3
<1>5. ASSUME NEW o \in DOMAIN objs', o \notin DOMAIN objs
      PROVE  /\ objs'[o].req \in Requests /\ number[objs'[o].req] # NotAdded
             /\ \A r \in Requests : objs'[o].req = r /\ InTime(r) =>
                  /\ Flying(r) => objs'[o].auc \in Names(r) /\ Time < objs'[o].stop
                  /\ objs'[o].kind # "bid" \/ objs'[o].auc \in present
  <2>1. PICK p \in DOMAIN objs : /\ objs'[o].req = objs[p].req /\ objs'[o].auc = objs[p].auc
                                 /\ objs'[o].stop = objs[p].stop
    BY <1>5
  <2>2. objs[p].req \in Requests /\ number[objs[p].req] # NotAdded
    BY <1>2, FlightTypes DEF BidsCarried
  <2>3. \A r \in Requests : objs[p].req = r /\ InTime(r) /\ Flying(r) =>
          objs[p].auc \in Names(r) /\ Time < objs[p].stop
    BY <1>2 DEF FlightsSafe, Clear
  <2> QED
    BY <1>5, <2>1, <2>2, <2>3
<1>6. \A g \in queue' :
        \/ \E f \in queue : Kept(f, g)
        \/ OfOne(g)' /\ \A r \in Requests : InTime(r) /\ Flying(r) => Apart(g, r)'
  BY DEF OfOne, Flights
<1>7. \A f \in queue, r \in Requests : Carries(f, r) => \E g \in queue' : Carries(g, r)'
  BY <1>4
<1> QED
  BY <1>3, <1>5, <1>6, <1>7, PassedOn

\* Handlers that only take their event.
LEMMA CalmRest ==
  ASSUME IInv, FInv, NEW e \in queue, queue' = Rest(e),
         e.type # "REMOVE_BIDDING_OBJECTS", \A r \in Requests : ~Carries(e, r),
         UNCHANGED <<now, files, sent, processes>>,
         \A r \in Requests : net[r] # "idle" <=> net'[r] # "idle",
         SameSessions(sess, sess'),
         \A i \in DOMAIN aucs : /\ i \in DOMAIN aucs' /\ aucs'[i].name = aucs[i].name
                                /\ aucs[i].state # "done" => aucs'[i].state # "done",
         DOMAIN objs' = DOMAIN objs,
         \A o \in DOMAIN objs : /\ objs'[o].req = objs[o].req
                                /\ objs'[o].auc = objs[o].auc /\ objs'[o].stop = objs[o].stop
                                /\ objs'[o].kind = objs[o].kind
                                /\ objs'[o].state # "done" <=> objs[o].state # "done"
  PROVE  FInv'
<1>1. \A g \in queue' : \E f \in queue : Kept(f, g)
  BY KeptItself DEF Rest
<1>2. \A f \in queue : f.type = "REMOVE_BIDDING_OBJECTS" \/ (\E r \in Requests : Carries(f, r))
                         => f \in queue'
  BY DEF Rest
<1>3. EventsTimed' /\ Begun'
  BY <1>1, Punctual DEF FInv, SameSessions
<1> QED
  BY <1>1, <1>2, <1>3, CalmStep DEF SameSessions

\* A session that gets its name,
LEMMA ConfigureSessionFlies ==
  ASSUME IInv, FInv, NEW e \in queue, HandleConfigureSession(e)
  PROVE  FInv'
<1>1. /\ Handling(e, "CONFIGURE_SESSION") /\ sess' = [sess EXCEPT ![e.req].state = "active"]
      /\ queue' = Rest(e) /\ UNCHANGED <<now, aucs, objs, net, files, up, sent, processes>>
  BY Zenon DEF HandleConfigureSession
<1>2. e.type = "CONFIGURE_SESSION" /\ e.req \in Requests
  BY <1>1, Handled, EventShape
<1>3. SameSessions(sess, sess')
  BY <1>1, <1>2, SessionEnters
<1> QED
  BY <1>1, <1>2, <1>3, CalmRest DEF Carries

\* an answer by which the daemon is lost,
LEMMA UseDeletedFlies ==
  ASSUME IInv, FInv, NEW e \in queue, UseDeletedAuction(e)
  PROVE  FInv'
<1>1. /\ Handling(e, "CREATE_SESSION")
      /\ queue' = Rest(e) /\ UNCHANGED <<now, aucs, objs, sess, net, files, sent, processes>>
  BY Zenon DEF UseDeletedAuction
<1>2. e.type = "CREATE_SESSION"
  BY <1>1, Handled
<1>3. SameSessions(sess, sess')
  BY <1>1 DEF SameSessions
<1> QED
  BY <1>1, <1>2, <1>3, CalmRest DEF Carries

\* (bids that change their state keep the rest)
LEMMA EnteringFields ==
  ASSUME IInv, NEW S, NEW state \in {"valid", "active", "done"}
  PROVE  /\ DOMAIN Entering(objs, S, state) = DOMAIN objs
         /\ \A o \in DOMAIN objs :
              /\ Entering(objs, S, state)[o].req = objs[o].req
              /\ Entering(objs, S, state)[o].auc = objs[o].auc
              /\ Entering(objs, S, state)[o].stop = objs[o].stop
              /\ Entering(objs, S, state)[o].kind = objs[o].kind
              /\ o \in S => Entering(objs, S, state)[o].state = state
              /\ o \notin S => Entering(objs, S, state)[o] = objs[o]
<1>1. \A o \in DOMAIN objs : objs[o] \in Bids
  BY ElementOfSeq, LenProperties DEF IInv, Types
<1>2. ASSUME NEW o \in DOMAIN objs
      PROVE  /\ [objs[o] EXCEPT !.state = state].req = objs[o].req
             /\ [objs[o] EXCEPT !.state = state].auc = objs[o].auc
             /\ [objs[o] EXCEPT !.state = state].stop = objs[o].stop
             /\ [objs[o] EXCEPT !.state = state].kind = objs[o].kind
             /\ [objs[o] EXCEPT !.state = state].state = state
  <2>1. PICK b \in Bids : b = objs[o]
    BY <1>1
  <2>2. /\ [b EXCEPT !.state = state].req = b.req
        /\ [b EXCEPT !.state = state].auc = b.auc
        /\ [b EXCEPT !.state = state].stop = b.stop
        /\ [b EXCEPT !.state = state].kind = b.kind
        /\ [b EXCEPT !.state = state].state = state
    BY DEF Bids, ObjectType
  <2> QED
    BY <2>1, <2>2
<1>3. \A o \in DOMAIN objs :
        /\ o \in S => Entering(objs, S, state)[o] = [objs[o] EXCEPT !.state = state]
        /\ o \notin S => Entering(objs, S, state)[o] = objs[o]
  BY DEF Entering
<1>4. DOMAIN Entering(objs, S, state) = DOMAIN objs
  BY DEF Entering
<1> QED
  BY <1>2, <1>3, <1>4

\* bids that begin,
LEMMA ActivateBiddingObjectsFlies ==
  ASSUME IInv, FInv, NEW e \in queue, HandleActivateBiddingObjects(e)
  PROVE  FInv'
<1>1. /\ Handling(e, "ACTIVATE_BIDDING_OBJECTS") /\ objs' = Entering(objs, e.objs, "active")
      /\ queue' = Rest(e) /\ UNCHANGED <<now, aucs, sess, net, files, up, sent, processes>>
  BY Zenon DEF HandleActivateBiddingObjects
<1>2. e.type = "ACTIVATE_BIDDING_OBJECTS" /\ \A o \in e.objs : objs[o].state # "done"
  BY <1>1, Handled DEF EventOK
<1>3. SameSessions(sess, sess')
  BY <1>1 DEF SameSessions
<1>4. /\ DOMAIN objs' = DOMAIN objs
      /\ \A o \in DOMAIN objs :
           /\ objs'[o].req = objs[o].req /\ objs'[o].auc = objs[o].auc
           /\ objs'[o].stop = objs[o].stop /\ objs'[o].kind = objs[o].kind
           /\ o \in e.objs => objs'[o].state = "active"
           /\ o \notin e.objs => objs'[o] = objs[o]
  BY <1>1, EnteringFields
<1>5. \A o \in DOMAIN objs : objs'[o].state # "done" <=> objs[o].state # "done"
  BY <1>2, <1>4
<1> QED
  BY <1>1, <1>2, <1>3, <1>4, <1>5, CalmRest DEF Carries

\* and auctions that begin.
LEMMA ActivateAuctionsFlies ==
  ASSUME IInv, FInv, NEW e \in queue, HandleActivateAuctions(e)
  PROVE  FInv'
<1>1. /\ Handling(e, "ACTIVATE_AUCTIONS") /\ aucs' = Entering(aucs, e.objs, "active")
      /\ queue' = Rest(e) /\ UNCHANGED <<now, objs, sess, net, files, up, sent, processes>>
  BY Zenon DEF HandleActivateAuctions
<1>2. e.type = "ACTIVATE_AUCTIONS"
  BY <1>1, Handled
<1>3. SameSessions(sess, sess')
  BY <1>1 DEF SameSessions
<1>4. /\ DOMAIN aucs' = DOMAIN aucs
      /\ \A i \in DOMAIN aucs :
           /\ aucs'[i].name = aucs[i].name
           /\ i \in e.objs => aucs'[i].state = "active"
           /\ i \notin e.objs => aucs'[i] = aucs[i]
  BY <1>1, EnteringAuctions DEF IInv, Types
<1>5. \A i \in DOMAIN aucs : aucs[i].state # "done" => aucs'[i].state # "done"
  BY <1>4
<1> QED
  BY <1>1, <1>2, <1>3, <1>4, <1>5, CalmRest DEF Carries

\* An event that comes leaves what is there.
LEMMA CalmPost ==
  ASSUME IInv, FInv, NEW ev \in Events(DOMAIN aucs, DOMAIN objs), Post(ev),
         UNCHANGED <<now, aucs, objs, sess, sent, processes>>, EventsTimed', Begun',
         ev.type \in {"ADD_RESOURCE_REQUESTS", "CONFIGURE_SESSION", "CREATE_SESSION",
                      "AUCTION_INTERACTION"}
  PROVE  FInv'
<1>1. /\ \A g \in queue' : g \in queue \/ Copy(ev, g)
      /\ queue \subseteq queue'
  <2>1. queue \cup {ev} \subseteq Events(DOMAIN aucs, DOMAIN objs)
    BY FlightTypes
  <2> QED
    BY <2>1, EnqueuedCopies DEF Post
<1>2. ASSUME NEW g \in queue', ~ \E f \in queue : Kept(f, g)
      PROVE  g.type \notin Flights /\ \A r \in Requests : Apart(g, r)'
  <2>1. g.type = ev.type
    BY <1>1, <1>2, KeptItself DEF Copy
  <2> QED
    BY <2>1 DEF Apart, Flights, Ends
<1> QED
  BY <1>1, <1>2, CalmStep

\* It comes behind what is there at its time.
LEMMA PostedEvents ==
  ASSUME IInv, NEW ev \in Events(DOMAIN aucs, DOMAIN objs), Post(ev)
  PROVE  \A g \in queue' : \/ \E f \in queue : Kept(f, g)
                           \/ Copy(ev, g) /\ g.rank = LastRank(queue, g.at) + ev.rank
<1>1. queue \cup {ev} \subseteq Events(DOMAIN aucs, DOMAIN objs)
  BY FlightTypes
<1> QED
  BY <1>1, EnqueuedCopies, KeptItself DEF Post

\* The name of a session comes,
LEMMA ConfigureFlies ==
  ASSUME IInv, FInv, NEW r \in Requests, Configure(r)
  PROVE  FInv'
<1> DEFINE ev == [at |-> now, rank |-> 1, type |-> "CONFIGURE_SESSION", req |-> r]
<1>1. /\ net[r] = "asked" /\ net' = [net EXCEPT ![r] = "configured"] /\ Post(ev)
      /\ UNCHANGED <<now, aucs, objs, sess, files, up, sent, processes>>
  BY Zenon DEF Configure
<1>2. ev \in Events(DOMAIN aucs, DOMAIN objs) /\ ev.type = "CONFIGURE_SESSION"
  BY FlightTypes DEF Events
<1> HIDE DEF ev
<1>3. \A q \in Requests : net[q] # "idle" <=> net'[q] # "idle"
  BY <1>1 DEF IInv, Types
<1>4. \A g \in queue' : \/ \E f \in queue : Kept(f, g)
                        \/ g.type = "CONFIGURE_SESSION"
  BY <1>1, <1>2, PostedEvents DEF Copy
<1>5. EventsTimed' /\ Begun'
  BY <1>1, <1>3, <1>4, Punctual DEF FInv, Flights, Ends
<1> QED
  BY <1>1, <1>2, <1>5, CalmPost

\* and an allocation.
LEMMA AllocateFlies ==
  ASSUME IInv, FInv, NEW o \in DOMAIN objs, Allocate(o)
  PROVE  FInv'
<1> DEFINE ev == [at |-> now, rank |-> 1, type |-> "AUCTION_INTERACTION", obj |-> o]
<1>1. Post(ev) /\ UNCHANGED <<now, aucs, objs, sess, net, files, up, sent, processes>>
  BY Zenon DEF Allocate
<1>2. ev \in Events(DOMAIN aucs, DOMAIN objs) /\ ev.type = "AUCTION_INTERACTION"
  BY FlightTypes DEF Events
<1> HIDE DEF ev
<1>3. \A g \in queue' : \/ \E f \in queue : Kept(f, g)
                        \/ g.type = "AUCTION_INTERACTION"
  BY <1>1, <1>2, PostedEvents DEF Copy
<1>4. EventsTimed' /\ Begun'
  BY <1>1, <1>3, Punctual DEF FInv, Flights, Ends
<1> QED
  BY <1>1, <1>2, <1>4, CalmPost

\* Time goes on when nothing is due: nothing is on its way.
LEMMA TickFlies ==
  ASSUME IInv, FInv, Tick
  PROVE  FInv'
<1>1. /\ now' = now + 1 /\ \A f \in queue : f.at > now
      /\ UNCHANGED <<queue, aucs, objs, sess, net, files, up, sent, processes>>
  BY Zenon DEF Tick
<1>2. /\ requests' = requests /\ number' = number /\ over' = over /\ present' = present
  BY <1>1 DEF processes
<1>3. EventsTimed /\ Begun /\ BidsCarried /\ BidsFollow /\ SentOverOwn /\ BidsHaveAuctions
  BY DEF FInv
<1>4. now \in Int /\ \A f \in queue : f.at \in Int /\ ~(f.at <= now)
  BY <1>1, FlightTypes
<1>5. \A f \in queue : f.type \notin Flights \cup {"CREATE_SESSION"}
  BY <1>3, <1>4 DEF EventsTimed
<1>6. \A r : ~Flying(r) /\ ~Flying(r)'
  BY <1>1, <1>5 DEF Flying, Carries, Flights
<1>7. Time <= Time'
  BY <1>1, <1>4, SecMonotone DEF Time
<1>8. EventsTimed'
  BY <1>1, <1>3, <1>5 DEF EventsTimed
<1>9. Begun'
  <2>1. \A r : Waiting(r)' <=> Waiting(r)
    BY <1>1 DEF Waiting
  <2>2. \A r \in Requests : net[r] # "idle" => sess[r].start <= Time'
    <3>1. Time \in Int /\ Time' \in Int
      BY <1>1, <1>4, TimesInt DEF Time
    <3>2. \A r \in Requests : sess[r].start \in Nat /\ (net[r] # "idle" => sess[r].start <= Time)
      BY <1>3, FlightTypes DEF Begun
    <3> QED
      BY <1>7, <3>1, <3>2
  <2> QED
    BY <1>1, <1>3, <2>1, <2>2 DEF Begun
<1>10. BidsCarried'
  BY <1>1, <1>2, <1>3 DEF BidsCarried, OfOne, Names
<1>11. FlightsSafe'
  BY <1>6 DEF FlightsSafe
<1>12. BidsFollow'
  BY <1>1, <1>3, <1>6 DEF BidsFollow, Delivered, Lost, Undisturbed
<1>13. SentOverOwn'
  BY <1>1, <1>3 DEF SentOverOwn, Undisturbed
<1>14. BidsHaveAuctions'
  <2>1. \A e \in queue : ~(e.at <= now)
    BY <1>4
  <2> QED
    BY <1>1, <1>2, <1>3, <2>1 DEF BidsHaveAuctions, Pending, InTime
<1> QED
  BY <1>8, <1>9, <1>10, <1>11, <1>12, <1>13, <1>14 DEF FInv

\* The rank that is given out is beyond those that were.
LEMMA LastRankLast ==
  ASSUME NEW q, IsFiniteSet(q), \A e \in q : e.rank \in Nat, NEW e \in q
  PROVE  e.rank <= LastRank(q, e.at)
<1> DEFINE F == {f \in q : f.at = e.at}
           ranks == {f.rank : f \in F}
           g == [f \in F |-> f.rank]
           IsLast(r) == \A s \in ranks : s <= r
<1>1. IsFiniteSet(F)
  BY FS_Subset
<1>2. IsFiniteSet(ranks)
  <2>1. DOMAIN g = F /\ g = [f \in F |-> g[f]] /\ ranks = {g[f] : f \in F}
    OBVIOUS
  <2> HIDE DEF g, F, ranks
  <2> QED
    BY <1>1, <2>1, FiniteImage
<1>3. ranks \in SUBSET Nat /\ e.rank \in ranks
  OBVIOUS
<1>4. LastRank(q, e.at) = IF \E r \in ranks : IsLast(r) THEN CHOOSE r \in ranks : IsLast(r) ELSE 0
  BY DEF LastRank
<1> HIDE DEF ranks
<1>5. \E r \in ranks : IsLast(r)
  BY <1>2, <1>3, Greatest
<1>6. IsLast(CHOOSE r \in ranks : IsLast(r))
  BY <1>5
<1> QED
  BY <1>3, <1>4, <1>5, <1>6

\* An answer is put behind all that is due.
LEMMA AnswerFlies ==
  ASSUME MaxLate = 0, IInv, FInv, NEW r \in Requests, NEW list \in Answers, Answer(r, list)
  PROVE  FInv'
<1> DEFINE ev == [at |-> now, rank |-> 1, type |-> "CREATE_SESSION", req |-> r, list |-> list]
<1>1. /\ net[r] = "configured" /\ net' = [net EXCEPT ![r] = "answered"] /\ Post(ev)
      /\ Time < sess[r].stop + MaxLate
      /\ UNCHANGED <<now, aucs, objs, sess, files, up, sent, processes>>
  BY Zenon DEF Answer
<1>2. ev \in Events(DOMAIN aucs, DOMAIN objs)
  BY FlightTypes DEF Events
<1>3. ev.type = "CREATE_SESSION" /\ ev.req = r /\ ev.at = now /\ ev.rank = 1
  OBVIOUS
<1> HIDE DEF ev
<1>4. \A q \in Requests : net[q] # "idle" <=> net'[q] # "idle"
  BY <1>1 DEF IInv, Types
<1>5. EventsTimed /\ Begun
  BY DEF FInv
<1>6. /\ \A g \in queue' : g \in queue \/ (Copy(ev, g) /\ g.rank = LastRank(queue, g.at) + 1)
      /\ queue \subseteq queue'
  <2>1. queue \cup {ev} \subseteq Events(DOMAIN aucs, DOMAIN objs)
    BY <1>2, FlightTypes
  <2> QED
    BY <1>1, <1>3, <2>1, EnqueuedCopies DEF Post
<1>7. Time' = Time
  BY <1>1 DEF Time
<1>8. ASSUME NEW h \in queue', h.type \in Ends
      PROVE  h \in queue
  BY <1>3, <1>6, <1>8 DEF Copy, Ends
<1>9. Time < sess[r].stop
  <2>1. now \in Int /\ sess[r].stop \in Nat
    BY FlightTypes
  <2>2. Time \in Int
    BY <2>1, TimesInt DEF Time
  <2> QED
    BY <1>1, <2>1, <2>2
<1>10. ASSUME NEW g \in queue', g \notin queue
       PROVE  /\ g.type = "CREATE_SESSION" /\ g.at = now /\ g.req = r
              /\ \A h \in queue' : h.type \in Ends /\ h.at <= now => Before(h, g)
  <2>1. /\ g.type = "CREATE_SESSION" /\ g.at = now /\ g.req = r
        /\ g.rank = LastRank(queue, now) + 1
    BY <1>3, <1>6, <1>10 DEF Copy
  <2>2. ASSUME NEW h \in queue', h.type \in Ends, h.at <= now PROVE Before(h, g)
    <3>1. h \in queue /\ h.at \in Int /\ h.rank \in Nat /\ now \in Int
      BY <1>8, <2>2, FlightTypes
    <3>2. CASE h.at < now
      BY <2>1, <3>2 DEF Before
    <3>3. CASE h.at = now
      <4>1. IsFiniteSet(queue) /\ \A f \in queue : f.rank \in Nat
        BY FlightTypes DEF IInv, QueueOK
      <4>2. h.rank <= LastRank(queue, now)
        BY <3>1, <3>3, <4>1, LastRankLast
      <4>3. LastRank(queue, now) \in Nat
        BY <4>1, LastRankNat
      <4> QED
        BY <2>1, <3>1, <3>3, <4>2, <4>3 DEF Before
    <3> QED
      BY <2>2, <3>1, <3>2, <3>3
  <2> QED
    BY <2>1, <2>2
<1>11. EventsTimed'
  <2> SUFFICES ASSUME NEW g \in queue'
               PROVE  /\ g.type \in Flights \cup {"CREATE_SESSION"} => g.at <= now'
                      /\ g.type = "ACTIVATE_RESOURCE_REQUEST_INTERVAL" => sess'[g.req].start <= Sec(g.at)
                      /\ g.type = "CREATE_SESSION" =>
                           /\ net'[g.req] # "idle" /\ Time' < sess'[g.req].stop
                           /\ \A h \in queue' : h.type \in Ends /\ h.at <= now' => Before(h, g)
    BY Zenon DEF EventsTimed
  <2>1. CASE g \notin queue
    <3>1. now <= now
      BY FlightTypes
    <3> QED
      BY <1>1, <1>4, <1>7, <1>9, <1>10, <2>1, <3>1
  <2>2. CASE g \in queue
    <3>1. /\ g.type \in Flights \cup {"CREATE_SESSION"} => g.at <= now
          /\ g.type = "ACTIVATE_RESOURCE_REQUEST_INTERVAL" => sess[g.req].start <= Sec(g.at)
          /\ g.type = "CREATE_SESSION" =>
               /\ net[g.req] # "idle" /\ Time < sess[g.req].stop
               /\ \A h \in queue : h.type \in Ends /\ h.at <= now => Before(h, g)
      BY <1>5, <2>2, Zenon DEF EventsTimed
    <3>2. g.type = "CREATE_SESSION" => g.req \in Requests
      BY <2>2, FlightTypes, EventShape
    <3> QED
      BY <1>1, <1>4, <1>7, <1>8, <3>1, <3>2
  <2> QED
    BY <2>1, <2>2
<1>12. Begun'
  <2>1. \A q : Waiting(q)' => Waiting(q)
    BY <1>1, <1>6, <1>10 DEF Waiting
  <2>2. \A g \in queue' : g.type = "ACTIVATE_RESOURCE_REQUEST_INTERVAL" => g \in queue
    BY <1>10
  <2> QED
    BY <1>1, <1>4, <1>5, <1>7, <2>1, <2>2 DEF Begun
<1> QED
  BY <1>1, <1>2, <1>3, <1>11, <1>12, CalmPost

\* A file comes: its intervals were not asked for.
LEMMA FileFlies ==
  ASSUME IInv, FInv, NEW F \in files, File(F)
  PROVE  FInv'
<1> DEFINE ev == [at |-> now, rank |-> 1, type |-> "ADD_RESOURCE_REQUESTS", reqs |-> F]
<1>1. /\ files' = files \ {F} /\ Post(ev)
      /\ UNCHANGED <<now, aucs, objs, sess, net, up, sent, processes>>
  BY Zenon DEF File
<1>2. ev \in Events(DOMAIN aucs, DOMAIN objs)
  BY FlightTypes DEF Events, IInv, Types
<1>3. ev.type = "ADD_RESOURCE_REQUESTS" /\ ev.reqs = F
  OBVIOUS
<1> HIDE DEF ev
<1>4. /\ \A g \in queue' : g \in queue \/ Copy(ev, g)
      /\ queue \subseteq queue'
  <2>1. queue \cup {ev} \subseteq Events(DOMAIN aucs, DOMAIN objs)
    BY <1>2, FlightTypes
  <2> QED
    BY <1>1, <2>1, EnqueuedCopies DEF Post
<1>5. \A g \in queue' : g \in queue \/ (g.type = "ADD_RESOURCE_REQUESTS" /\ g.reqs = F)
  BY <1>3, <1>4 DEF Copy
<1>6. EventsTimed /\ Begun /\ Time' = Time
  BY <1>1 DEF FInv, Time
<1>7. EventsTimed'
  <2>1. \A g \in queue' :
          g.type \in Flights \cup Ends \cup {"CREATE_SESSION", "ACTIVATE_RESOURCE_REQUEST_INTERVAL"} =>
            g \in queue
    BY <1>5 DEF Flights, Ends
  <2> QED
    BY <1>1, <1>6, <2>1 DEF EventsTimed
<1>8. Begun'
  <2>1. \A q : Waiting(q)' => Waiting(q)
    BY <1>1, <1>5 DEF Waiting
  <2>2. \A g \in queue' : g.type = "ACTIVATE_RESOURCE_REQUEST_INTERVAL" => g \in queue
    BY <1>5
  <2> QED
    BY <1>1, <1>6, <2>1, <2>2 DEF Begun
<1> QED
  BY <1>1, <1>2, <1>3, <1>7, <1>8, CalmPost

\* An interval begins in its time.
LEMMA ActivateIntervalFlies ==
  ASSUME IInv, FInv, NEW e \in queue, HandleActivateInterval(e)
  PROVE  FInv'
<1>1. /\ Handling(e, "ACTIVATE_RESOURCE_REQUEST_INTERVAL")
      /\ sess' = [sess EXCEPT ![e.req].state = "created"]
      /\ net' = [net EXCEPT ![e.req] = "asked"]
      /\ queue' = Rest(e) /\ UNCHANGED <<now, aucs, objs, files, up, sent, processes>>
  BY Zenon DEF HandleActivateInterval
<1>2. e.type = "ACTIVATE_RESOURCE_REQUEST_INTERVAL" /\ e.req \in Requests /\ e.at <= now
  BY <1>1, Handled, EventShape DEF Handling, IntervalTypes
<1>3. SameSessions(sess, sess')
  BY <1>1, <1>2, SessionEnters
<1>4. \A g \in queue' : g \in queue
  BY <1>1 DEF Rest
<1>5. EventsTimed /\ Begun /\ Time' = Time
  BY <1>1 DEF FInv, Time
<1>6. /\ net'[e.req] = "asked"
      /\ \A q \in Requests : q # e.req => net'[q] = net[q]
  BY <1>1, <1>2 DEF IInv, Types
<1>7. EventsTimed'
  <2> SUFFICES ASSUME NEW g \in queue'
               PROVE  /\ g.type \in Flights \cup {"CREATE_SESSION"} => g.at <= now'
                      /\ g.type = "ACTIVATE_RESOURCE_REQUEST_INTERVAL" => sess'[g.req].start <= Sec(g.at)
                      /\ g.type = "CREATE_SESSION" =>
                           /\ net'[g.req] # "idle" /\ Time' < sess'[g.req].stop
                           /\ \A h \in queue' : h.type \in Ends /\ h.at <= now' => Before(h, g)
    BY Zenon DEF EventsTimed
  <2>1. /\ g.type \in Flights \cup {"CREATE_SESSION"} => g.at <= now
        /\ g.type = "ACTIVATE_RESOURCE_REQUEST_INTERVAL" => sess[g.req].start <= Sec(g.at)
        /\ g.type = "CREATE_SESSION" =>
             /\ net[g.req] # "idle" /\ Time < sess[g.req].stop
             /\ \A h \in queue : h.type \in Ends /\ h.at <= now => Before(h, g)
    BY <1>4, <1>5, Zenon DEF EventsTimed
  <2>2. g.type \in {"CREATE_SESSION", "ACTIVATE_RESOURCE_REQUEST_INTERVAL"} => g.req \in Requests
    BY <1>4, FlightTypes, EventShape DEF IntervalTypes
  <2> QED
    BY <1>1, <1>3, <1>4, <1>5, <1>6, <2>1, <2>2 DEF SameSessions
<1>8. Begun'
  <2>1. \A q : Waiting(q)' => Waiting(q)
    BY <1>1, <1>4 DEF Waiting
  <2>2. ~Waiting(e.req)
    BY <1>2, <1>5 DEF Begun
  <2>3. sess[e.req].start <= Time
    <3>1. e.at \in Int /\ now \in Int /\ sess[e.req].start \in Nat
      BY <1>2, FlightTypes
    <3>2. Sec(e.at) <= Time /\ Sec(e.at) \in Int /\ Time \in Int
      BY <1>2, <3>1, SecMonotone, TimesInt DEF Time
    <3>3. sess[e.req].start <= Sec(e.at)
      BY <1>2, <1>5 DEF EventsTimed
    <3> QED
      BY <3>1, <3>2, <3>3
  <2>4. \A q \in Requests : sess'[q].start = sess[q].start
    BY <1>3 DEF SameSessions
  <2>5. ASSUME NEW q \in Requests
        PROVE  /\ net'[q] # "idle" => sess'[q].start <= Time'
               /\ Waiting(q)' => net'[q] = "idle"
               /\ Waiting(q)' => \A f \in queue' :
                                   f.type = "ACTIVATE_RESOURCE_REQUEST_INTERVAL" => f.req # q
    BY <1>2, <1>4, <1>5, <1>6, <2>1, <2>2, <2>3, <2>4 DEF Begun
  <2> QED
    BY <2>5 DEF Begun
<1>9. \A g \in queue' : \E f \in queue : Kept(f, g)
  BY <1>4, KeptItself
<1>10. \A f \in queue : f.type = "REMOVE_BIDDING_OBJECTS" \/ (\E r \in Requests : Carries(f, r))
                          => f \in queue'
  BY <1>1, <1>2 DEF Rest, Carries
<1> QED
  BY <1>1, <1>3, <1>7, <1>8, <1>9, <1>10, CalmStep DEF SameSessions

\* They are events of the queue.
LEMMA ObjectEvents ==
  ASSUME NEW A, NEW O, NEW new \in Seq(Bids), NEW base \in Nat, now \in Int,
         \A k \in DOMAIN new : base + k \in O
  PROVE  ScheduleObjects(new, base) \subseteq Events(A, O)
<1>1. ListsOf(ScheduleObjects(new, base), new, base, "ACTIVATE_BIDDING_OBJECTS", "REMOVE_BIDDING_OBJECTS")
  <2>1. \A k \in DOMAIN new : new[k].start \in Int /\ new[k].stop \in Int
    <3>1. \A k \in DOMAIN new : new[k] \in Bids
      BY ElementOfSeq, LenProperties
    <3> QED
      BY <3>1 DEF Bids, ObjectType
  <2> QED
    BY <2>1, FinitePositions, Scheduled DEF ScheduleObjects
<1>2. {base + k : k \in DOMAIN new} \subseteq O
  OBVIOUS
<1>3. ListOf({base + k : k \in DOMAIN new}) \subseteq ListOf(O)
  BY <1>2 DEF ListOf
<1> SUFFICES ASSUME NEW f \in ScheduleObjects(new, base) PROVE f \in Events(A, O)
  OBVIOUS
<1>4. PICK t \in Int, rank \in Nat, type \in {"ACTIVATE_BIDDING_OBJECTS", "REMOVE_BIDDING_OBJECTS"},
           ids \in ListOf({base + k : k \in DOMAIN new}) :
        f = [at |-> t, rank |-> rank, type |-> type, objs |-> ids]
  BY <1>1, Zenon DEF ListsOf
<1>5. ids \in ListOf(O)
  BY <1>3
<1>6. f \in [at : Int, rank : Nat, type : {"ACTIVATE_BIDDING_OBJECTS", "REMOVE_BIDDING_OBJECTS"},
              objs : ListOf(O)]
  BY <1>4, <1>5
<1> QED
  BY <1>6 DEF Events

\* An allocation is there as long as its bid.
LEMMA InteractionFlies ==
  ASSUME IInv, IInv', FInv, NEW e \in queue, HandleAuctioningInteraction(e)
  PROVE  FInv'
<1> DEFINE alloc == [objs[e.obj] EXCEPT !.kind = "alloc"]
           os == <<alloc>>
           new == Valid(os)
           base == Len(objs)
           events == ScheduleObjects(new, base)
<1>1. /\ Handling(e, "AUCTION_INTERACTION")
      /\ objs' = objs \o new
      /\ queue' = Enqueue(Rest(e), events)
      /\ UNCHANGED <<now, aucs, sess, net, files, up, sent, processes>>
  BY Zenon DEF HandleAuctioningInteraction
<1>2. e.type = "AUCTION_INTERACTION" /\ e.obj \in DOMAIN objs
  BY <1>1, Handled, EventShape
<1>3. now \in Nat /\ objs[e.obj] \in Bids /\ objs[e.obj].stop > 0
  BY <1>2, WindowAssumption, ElementOfSeq, LenProperties DEF IInv, Types, WindowsOK
<1>4. alloc \in Bids /\ alloc.stop > 0 /\ alloc.kind = "alloc" /\ alloc.req = objs[e.obj].req
      /\ alloc.auc = objs[e.obj].auc /\ alloc.stop = objs[e.obj].stop
  BY <1>3 DEF Bids, ObjectType
<1>5. PICK o \in DOMAIN objs : o = e.obj
  BY <1>2
<1>6. /\ os \in Seq(Bids) /\ DOMAIN os = {1} /\ os[1] = alloc
      /\ \A k \in DOMAIN os : os[k].stop > 0
  <2> HIDE DEF alloc
  <2> QED
    BY <1>4
<1>7. /\ new \in Seq(Bids) /\ DOMAIN new = {1}
      /\ \A k \in DOMAIN new : new[k].stop > 0 /\ new[k].state = "valid"
  <2> HIDE DEF os
  <2> QED
    BY <1>3, <1>6, ValidObjects DEF Bids
<1>8. /\ new[1].kind = "alloc" /\ new[1].req = objs[o].req
      /\ new[1].auc = objs[o].auc /\ new[1].stop = objs[o].stop
  <2>1. new[1] = [os[1] EXCEPT !.state = "valid", !.start = Later(@, Time)]
    BY <1>6 DEF Valid
  <2>2. PICK a \in Bids : a = alloc
    BY <1>4
  <2>3. new[1] = [a EXCEPT !.state = "valid", !.start = Later(@, Time)]
    BY <1>6, <2>1, <2>2
  <2>4. new[1].kind = a.kind /\ new[1].req = a.req /\ new[1].auc = a.auc /\ new[1].stop = a.stop
    BY <2>3 DEF Bids, ObjectType
  <2> QED
    BY <1>4, <1>5, <2>2, <2>4
<1> HIDE DEF os, new, alloc
<1>9. objs \in Seq(Bids)
  BY DEF IInv, Types
<1>10. /\ DOMAIN objs \subseteq DOMAIN objs' /\ base + 1 \in DOMAIN objs'
       /\ \A p \in DOMAIN objs : objs'[p] = objs[p]
       /\ objs'[base + 1] = new[1]
       /\ \A p \in DOMAIN objs' : p \notin DOMAIN objs => p = base + 1
  <2>1. /\ DOMAIN objs \subseteq DOMAIN objs'
        /\ \A k \in DOMAIN new : base + k \in DOMAIN objs'
        /\ \A k \in DOMAIN new : objs'[base + k] = new[k]
        /\ \A i \in DOMAIN objs : objs'[i] = objs[i]
    <3>1. new \in Seq(Bids) /\ objs' = objs \o new
      BY <1>1, <1>7, Zenon
    <3> QED
      BY <1>9, <3>1, AppendedValues
  <2>2. \A i \in DOMAIN objs' : i \notin DOMAIN objs => \E k \in DOMAIN new : i = base + k
    BY <1>1, <1>7, <1>9, Appended
  <2> QED
    BY <1>7, <2>1, <2>2
<1> HIDE DEF base
<1>11. \A f \in events : f.type \in {"ACTIVATE_BIDDING_OBJECTS", "REMOVE_BIDDING_OBJECTS"}
                         /\ \A p \in f.objs :
                              /\ p = base + 1
                              /\ f.type = "REMOVE_BIDDING_OBJECTS" => f.at = At(now, new[1].stop)
  BY <1>7, ScheduledTimes DEF ScheduleObjects
<1>12. /\ \A g \in queue' : g \in Rest(e) \/ \E f \in events : Copy(f, g)
       /\ Rest(e) \subseteq queue'
  <2> DEFINE O == DOMAIN objs'
             A == DOMAIN aucs
  <2>1. \A g \in Rest(e) : g \in Events(A, O)
    BY <1>10, FlightTypes, EventsMonotone DEF Rest
  <2>2. events \subseteq Events(A, O)
    <3>1. base \in Nat /\ now \in Int
      BY <1>3, <1>9, LenProperties DEF base
    <3>2. \A k \in DOMAIN new : base + k \in O
      BY <1>7, <1>10
    <3> HIDE DEF O
    <3> QED
      BY <1>7, <3>1, <3>2, ObjectEvents
  <2>3. Rest(e) \cup events \subseteq Events(A, O)
    BY <2>1, <2>2
  <2> HIDE DEF A, O, events
  <2> QED
    BY <1>1, <2>3, EnqueuedCopies
<1> HIDE DEF events
<1>13. Rest(e) \subseteq queue /\ \A f \in queue : f # e => f \in queue'
  BY <1>12 DEF Rest
<1>14. ASSUME NEW g \in queue', ~ \E f \in queue : Kept(f, g)
       PROVE  /\ g.type \in {"ACTIVATE_BIDDING_OBJECTS", "REMOVE_BIDDING_OBJECTS"}
              /\ \A p \in g.objs : /\ p = base + 1
                                   /\ g.type = "REMOVE_BIDDING_OBJECTS" => g.at = At(now, new[1].stop)
  <2>1. PICK f \in events : Copy(f, g)
    BY <1>12, <1>13, <1>14, KeptItself
  <2> QED
    BY <1>11, <2>1 DEF Copy, BidLists
<1>15. EventsTimed' /\ Begun'
  <2>1. \A g \in queue' :
           \/ \E f \in queue : Kept(f, g)
           \/ /\ g.type \notin {"CREATE_SESSION", "ACTIVATE_RESOURCE_REQUEST_INTERVAL",
                                "ADD_RESOURCE_REQUESTS"}
              /\ g.type \in Flights => g.at <= now
              /\ g.type \in Ends => ~(g.at <= now)
    BY <1>14 DEF Flights, Ends
  <2> QED
    BY <1>1, <2>1, Punctual DEF FInv
<1>16. ASSUME NEW g \in queue', ~ \E f \in queue : Kept(f, g)
       PROVE  /\ g.type \notin Flights
              /\ \A r \in Requests : InTime(r) /\ Flying(r) => Apart(g, r)'
  <2>1. g.type \notin Flights
    BY <1>14, <1>16 DEF Flights
  <2>2. ASSUME NEW r \in Requests, InTime(r), Flying(r) PROVE Apart(g, r)'
    <3>1. Clear(r)
      BY <2>2 DEF FInv, FlightsSafe
    <3>2. ASSUME g.at <= now, g.type = "REMOVE_BIDDING_OBJECTS", NEW p \in g.objs
          PROVE  objs'[p].req # r
      <4>1. p = base + 1 /\ g.at = At(now, new[1].stop)
        BY <1>14, <1>16, <3>2
      <4>2. SUFFICES ASSUME objs[o].req = r PROVE FALSE
        BY <1>8, <1>10, <4>1
      <4>3. Time < objs[o].stop
        BY <3>1, <4>2 DEF Clear
      <4>4. now \in Int /\ objs[o].stop \in Int /\ Time \in Int
        BY <1>3, <1>5, TimesInt DEF Bids, ObjectType, Time
      <4>5. At(now, objs[o].stop) > now /\ At(now, objs[o].stop) \in Int
        BY <4>3, <4>4, AtDue, TimesInt DEF Time
      <4> QED
        BY <1>8, <3>2, <4>1, <4>4, <4>5
    <3> QED
      BY <1>1, <1>14, <1>16, <3>2 DEF Apart, Ends
  <2> QED
    BY <2>1, <2>2
<1>17. \A p \in DOMAIN objs' : p \notin DOMAIN objs =>
           /\ objs'[p].kind # "bid"
           /\ \E q \in DOMAIN objs : /\ objs'[p].req = objs[q].req /\ objs'[p].auc = objs[q].auc
                                     /\ objs'[p].stop = objs[q].stop
  BY <1>8, <1>10
<1>18. \A f \in queue : f.type = "REMOVE_BIDDING_OBJECTS" \/ (\E r \in Requests : Carries(f, r))
                          => f \in queue'
  BY <1>2, <1>13 DEF Carries
<1> QED
  BY <1>1, <1>10, <1>15, <1>16, <1>17, <1>18, CalmStep

\* What an event carries depends on the bids and the processes.
LEMMA CarriesSame ==
  ASSUME UNCHANGED <<objs, requests>>
  PROVE  \A f, r : Carries(f, r)' <=> Carries(f, r)
BY DEF Carries

\* An execution is for one process, and its bids for that of its interval.
LEMMA PushExecutionFlies ==
  ASSUME IInv, FInv, NEW e \in queue, HandlePushExecution(e)
  PROVE  FInv'
<1>1. /\ Handling(e, "PUSH_EXECUTION")
      /\ UNCHANGED <<now, aucs, objs, sess, net, files, up, sent, processes>>
  BY Zenon DEF HandlePushExecution
<1>2. e.type = "PUSH_EXECUTION" /\ e.index \in Numbers
  BY <1>1, Handled, EventShape
<1>3. CASE e.index \notin DOMAIN requests
  <2>1. queue' = Rest(e)
    BY <1>3 DEF HandlePushExecution
  <2>2. \A r \in Requests : ~Carries(e, r)
    BY <1>2, <1>3 DEF Carries
  <2>3. SameSessions(sess, sess')
    BY <1>1 DEF SameSessions
  <2> QED
    BY <1>1, <1>2, <2>1, <2>2, <2>3, CalmRest
<1>4. CASE e.index \in DOMAIN requests
  <2> DEFINE made(order) == [at |-> now, rank |-> 1, type |-> "ADD_GENERATED_BIDDING_OBJECTS",
                             index |-> e.index,
                             allocs |-> [k \in DOMAIN order |-> Bid(e.index, order[k])]]
             r == requests[e.index].req
             S == requests[e.index].aucs
  <2>1. PICK order \in Arrangements(S) : queue' = Enqueue(Rest(e), {made(order)})
    BY <1>4 DEF HandlePushExecution
  <2> DEFINE allocs == [k \in DOMAIN order |-> Bid(e.index, order[k])]
             ev == made(order)
  <2>2. /\ allocs \in Seq(Generated) /\ allocs # <<>>
        /\ \A k \in DOMAIN allocs : allocs[k].stop > 0
    BY <1>4, BidsMade
  <2>3. r \in Requests /\ S \subseteq Auctions /\ S # {} /\ IsFiniteSet(S)
    BY <1>4 DEF IInv, ProcessesInv, ProcessesTypeOK, ProcessesHaveAuctions, Process, WindowsOK
  <2>4. \A k \in DOMAIN allocs : allocs[k].req = r /\ allocs[k].auc \in S /\ allocs[k].stop = sess[r].end
    <3>1. \A k \in DOMAIN order : order[k] \in S
      BY DEF Arrangements
    <3> QED
      BY <3>1 DEF Bid
  <2>5. EventsTimed /\ Begun /\ BidsCarried /\ FlightsSafe
    BY DEF FInv
  <2>6. number[r] # NotAdded /\ S \subseteq Names(r)
    <3>1. number[r] = e.index
      BY <1>4, FlightTypes
    <3>2. NotAdded \notin Numbers
      BY AgentAssumption, IdSourceAssumption DEF Numbers
    <3> QED
      BY <1>2, <1>4, <2>5, <3>1, <3>2 DEF BidsCarried
  <2>7. now \in Int /\ now <= now
    BY FlightTypes
  <2>8. 1 \in DOMAIN allocs
    BY <2>2, EmptySeq, LenProperties
  <2> HIDE DEF allocs, r, S
  <2>9. /\ ev.type = "ADD_GENERATED_BIDDING_OBJECTS" /\ ev.allocs = allocs /\ ev.index = e.index
        /\ ev.at = now
        /\ ev \in Events(DOMAIN aucs, DOMAIN objs)
    BY <1>2, <2>2, <2>7 DEF Events, allocs
  <2>10. queue' = Enqueue(Rest(e), {ev})
    BY <2>1
  <2> HIDE DEF ev
  <2>11. /\ \A g \in queue' : g \in Rest(e) \/ Copy(ev, g)
         /\ \E g \in queue' : Copy(ev, g)
         /\ Rest(e) \subseteq queue'
    <3>1. Rest(e) \cup {ev} \subseteq Events(DOMAIN aucs, DOMAIN objs)
      BY <2>9, FlightTypes DEF Rest
    <3> QED
      BY <2>10, <3>1, EnqueuedCopies
  <2>12. \A g \in queue' :
           \/ g \in queue
           \/ /\ g.type = "ADD_GENERATED_BIDDING_OBJECTS" /\ g.at = now
              /\ g.index = e.index /\ g.allocs = allocs
    BY <2>9, <2>11 DEF Copy, Rest, Flights
  <2>13. \E g \in queue' : g.type = "ADD_GENERATED_BIDDING_OBJECTS" /\ g.allocs = allocs
    BY <2>9, <2>11 DEF Copy
  <2>14. Carries(e, r) /\ \A q : Carries(e, q) => q = r
    BY <1>2, <1>4 DEF Carries, r
  <2>15. \A f, q : Carries(f, q)' <=> Carries(f, q)
    BY <1>1, CarriesSame DEF processes
  <2>16. \A g \in queue', q \in Requests :
           Carries(g, q)' => \E f \in queue : Carries(f, q) /\ g.index = f.index
    <3> SUFFICES ASSUME NEW g \in queue', NEW q \in Requests, Carries(g, q)
                 PROVE  \E f \in queue : Carries(f, q) /\ g.index = f.index
      BY <2>15
    <3>1. CASE g \in queue
      BY <3>1
    <3>2. CASE g.type = "ADD_GENERATED_BIDDING_OBJECTS" /\ g.index = e.index /\ g.allocs = allocs
      <4>1. q = r
        BY <2>4, <3>2 DEF Carries
      <4> QED
        BY <2>14, <3>2, <4>1
    <3> QED
      BY <2>12, <3>1, <3>2
  <2>17. \A f \in queue, q \in Requests : Carries(f, q) => \E g \in queue' : Carries(g, q)'
    <3> SUFFICES ASSUME NEW f \in queue, NEW q \in Requests, Carries(f, q)
                 PROVE  \E g \in queue' : Carries(g, q)
      BY <2>15
    <3>1. CASE f = e
      <4>1. q = r
        BY <2>14, <3>1
      <4> QED
        BY <2>4, <2>8, <2>13, <4>1 DEF Carries
    <3>2. CASE f # e
      BY <2>11, <3>2 DEF Rest
    <3> QED
      BY <3>1, <3>2
  <2>18. ASSUME NEW g \in queue', g \notin queue
         PROVE  OfOne(g)' /\ \A q \in Requests : InTime(q) /\ Flying(q) => Apart(g, q)'
    <3>1. /\ g.type = "ADD_GENERATED_BIDDING_OBJECTS" /\ g.allocs = allocs
      BY <2>12, <2>18
    <3>2. number' = number
      BY <1>1 DEF processes
    <3>3. OfOne(g)'
      BY <2>4, <2>6, <3>1, <3>2 DEF OfOne
    <3>4. ASSUME NEW q \in Requests, InTime(q), Flying(q) PROVE Apart(g, q)'
      <4>1. Time < sess[q].end
        BY <2>5, <3>4 DEF FlightsSafe, Clear
      <4>2. Time' = Time /\ Names(q)' = Names(q)
        BY <1>1 DEF Time, Names
      <4> QED
        BY <2>4, <2>6, <3>1, <4>1, <4>2 DEF Apart, Ends
    <3> QED
      BY <3>3, <3>4
  <2>19. EventsTimed' /\ Begun'
    <3>1. \A g \in queue' :
           \/ \E f \in queue : Kept(f, g)
           \/ /\ g.type \notin {"CREATE_SESSION", "ACTIVATE_RESOURCE_REQUEST_INTERVAL",
                                "ADD_RESOURCE_REQUESTS"}
              /\ g.type \in Flights => g.at <= now
              /\ g.type \in Ends => ~(g.at <= now)
      BY <2>7, <2>12, KeptItself DEF Ends
    <3> QED
      BY <1>1, <2>5, <3>1, Punctual
  <2>20. \A g \in queue' :
           \/ \E f \in queue : Kept(f, g)
           \/ OfOne(g)' /\ \A q \in Requests : InTime(q) /\ Flying(q) => Apart(g, q)'
    BY <2>18, KeptItself
  <2>21. \A f \in queue : f.type = "REMOVE_BIDDING_OBJECTS" => f \in queue'
    BY <1>2, <2>11 DEF Rest
  <2> QED
    BY <1>1, <2>16, <2>17, <2>19, <2>20, <2>21, PassedOn
<1> QED
  BY <1>3, <1>4

\* What an installed bid has of a generated one.
LEMMA ValidFields ==
  ASSUME NEW states, NEW os \in Seq(ObjectType(states)), NEW k \in DOMAIN os
  PROVE  /\ Valid(os)[k].kind = os[k].kind /\ Valid(os)[k].req = os[k].req
         /\ Valid(os)[k].auc = os[k].auc /\ Valid(os)[k].stop = os[k].stop
<1>1. os[k] \in ObjectType(states)
  BY ElementOfSeq, LenProperties
<1>2. PICK a \in ObjectType(states) : a = os[k]
  BY <1>1
<1>3. Valid(os)[k] = [a EXCEPT !.state = "valid", !.start = Later(@, Time)]
  BY <1>2 DEF Valid
<1>4. Valid(os)[k].kind = a.kind /\ Valid(os)[k].req = a.req /\ Valid(os)[k].auc = a.auc /\ Valid(os)[k].stop = a.stop
  BY <1>3 DEF ObjectType
<1> QED
  BY <1>2, <1>4

\* The bids of an interval are installed, and are transmitted at once.
LEMMA AddGeneratedFlies ==
  ASSUME IInv, FInv, NEW e \in queue, HandleAddGeneratedBiddingObjects(e)
  PROVE  FInv'
<1> DEFINE new == Valid(e.allocs)
           base == Len(objs)
           numbers == {base + k : k \in DOMAIN new}
           events == ScheduleObjects(new, base)
           tx == [at |-> TransmitTime, rank |-> 3, type |-> "TRANSMIT_BIDDING_OBJECTS",
                  index |-> e.index, objs |-> numbers]
<1>1. /\ Handling(e, "ADD_GENERATED_BIDDING_OBJECTS")
      /\ objs' = objs \o new
      /\ queue' = Enqueue(Rest(e), events \cup {tx})
      /\ UNCHANGED <<now, aucs, sess, net, files, up, sent, processes>>
  BY Zenon DEF HandleAddGeneratedBiddingObjects
<1>2. /\ e.type = "ADD_GENERATED_BIDDING_OBJECTS" /\ e.index \in Numbers
      /\ e.allocs \in Seq(Generated) /\ e.allocs # <<>>
      /\ \A k \in DOMAIN e.allocs : e.allocs[k].stop > 0
  BY <1>1, Handled, EventShape DEF EventOK
<1>3. now \in Nat /\ objs \in Seq(Bids) /\ base \in Nat
  BY WindowAssumption, LenProperties DEF IInv, Types
<1>4. new \in Seq(Bids) /\ DOMAIN new = DOMAIN e.allocs
  BY <1>2, <1>3, ValidObjects DEF Generated
<1>5. \A k \in DOMAIN new : /\ new[k].req = e.allocs[k].req /\ new[k].auc = e.allocs[k].auc
                            /\ new[k].stop = e.allocs[k].stop
  BY <1>2, <1>4, ValidFields DEF Generated
<1>6. EventsTimed /\ Begun /\ BidsCarried /\ FlightsSafe
  BY DEF FInv
<1>7. PICK r \in Requests : \A k \in DOMAIN e.allocs : e.allocs[k].req = r /\ number[r] # NotAdded
  <2>1. 1 \in DOMAIN e.allocs
    BY <1>2, EmptySeq, LenProperties
  <2>2. e.allocs[1].req \in Requests
    BY <1>2, <2>1, FlightTypes
  <2>3. OfOne(e)
    BY <1>6 DEF BidsCarried
  <2>4. \A k \in DOMAIN e.allocs : e.allocs[k].req = e.allocs[1].req /\ number[e.allocs[1].req] # NotAdded
    BY <1>2, <2>1, <2>3 DEF OfOne
  <2> QED
    BY <2>2, <2>4
<1>8. 1 \in DOMAIN new
  BY <1>2, <1>4, EmptySeq, LenProperties
<1> HIDE DEF new
<1>9. /\ DOMAIN objs \subseteq DOMAIN objs'
      /\ \A o \in DOMAIN objs : objs'[o] = objs[o]
      /\ \A k \in DOMAIN new : base + k \in DOMAIN objs' /\ objs'[base + k] = new[k]
      /\ \A o \in DOMAIN objs' : o \notin DOMAIN objs => \E k \in DOMAIN new : o = base + k
  <2>1. /\ DOMAIN objs \subseteq DOMAIN objs'
        /\ \A k \in DOMAIN new : base + k \in DOMAIN objs'
        /\ \A k \in DOMAIN new : objs'[base + k] = new[k]
        /\ \A i \in DOMAIN objs : objs'[i] = objs[i]
    BY <1>1, <1>3, <1>4, AppendedValues
  <2>2. \A i \in DOMAIN objs' : i \notin DOMAIN objs => \E k \in DOMAIN new : i = base + k
    BY <1>1, <1>3, <1>4, Appended
  <2> QED
    BY <2>1, <2>2
<1>10. \A f \in events : /\ f.type \in {"ACTIVATE_BIDDING_OBJECTS", "REMOVE_BIDDING_OBJECTS"}
                         /\ \A p \in f.objs : \E k \in DOMAIN new :
                              /\ p = base + k
                              /\ f.type = "REMOVE_BIDDING_OBJECTS" => f.at = At(now, new[k].stop)
  BY ScheduledTimes DEF ScheduleObjects
<1>11. /\ events \subseteq Events(DOMAIN aucs, DOMAIN objs')
       /\ tx \in Events(DOMAIN aucs, DOMAIN objs')
  <2>1. \A k \in DOMAIN new : base + k \in DOMAIN objs'
    BY <1>9
  <2>2. now \in Int
    BY <1>3
  <2> DEFINE O == DOMAIN objs'
  <2>3. events \subseteq Events(DOMAIN aucs, O)
    <3> HIDE DEF O, base
    <3>1. \A k \in DOMAIN new : base + k \in O
      BY <2>1 DEF O
    <3> QED
      BY <1>3, <1>4, <2>2, <3>1, ObjectEvents
  <2>4. numbers \in ListOf(O)
    BY <1>8, <2>1 DEF ListOf
  <2> HIDE DEF numbers, O
  <2>5. tx \in [at : Int, rank : Nat, type : {"TRANSMIT_BIDDING_OBJECTS"}, index : Numbers,
                objs : ListOf(O)]
    BY <1>2, <2>2, <2>4 DEF TransmitTime
  <2>6. tx \in Events(DOMAIN aucs, O)
    BY <2>5 DEF Events
  <2> QED
    BY <2>3, <2>6 DEF O
<1>12. /\ tx.type = "TRANSMIT_BIDDING_OBJECTS" /\ tx.at = now /\ tx.index = e.index
       /\ tx.objs = numbers
  BY DEF TransmitTime
<1> HIDE DEF events, tx
<1>13. /\ \A g \in queue' : g \in Rest(e) \/ \E f \in events \cup {tx} : Copy(f, g)
       /\ \E g \in queue' : Copy(tx, g)
       /\ Rest(e) \subseteq queue'
  <2> DEFINE O == DOMAIN objs'
             A == DOMAIN aucs
             S == events \cup {tx}
  <2>1. \A g \in Rest(e) : g \in Events(A, O)
    BY <1>9, FlightTypes, EventsMonotone DEF Rest
  <2>2. Rest(e) \cup S \subseteq Events(A, O)
    BY <1>11, <2>1
  <2>3. queue' = Enqueue(Rest(e), S) /\ tx \in S
    BY <1>1
  <2> HIDE DEF A, O, S
  <2>4. /\ \A g \in queue' : g \in Rest(e) \/ \E f \in S : Copy(f, g)
        /\ \A f \in S : \E g \in queue' : Copy(f, g)
        /\ Rest(e) \subseteq queue'
    BY <2>2, <2>3, EnqueuedCopies
  <2> QED
    BY <2>3, <2>4 DEF S
<1>14. \A g \in queue' :
         \/ g \in queue /\ g # e
         \/ /\ g.type \in {"ACTIVATE_BIDDING_OBJECTS", "REMOVE_BIDDING_OBJECTS"}
            /\ \A p \in g.objs : \E k \in DOMAIN new :
                 /\ p = base + k
                 /\ g.type = "REMOVE_BIDDING_OBJECTS" => g.at = At(now, new[k].stop)
         \/ /\ g.type = "TRANSMIT_BIDDING_OBJECTS" /\ g.at = now /\ g.index = e.index
            /\ g.objs = numbers
  <2> SUFFICES ASSUME NEW g \in queue', ~(g \in queue /\ g # e)
               PROVE  \/ /\ g.type \in {"ACTIVATE_BIDDING_OBJECTS", "REMOVE_BIDDING_OBJECTS"}
                         /\ \A p \in g.objs : \E k \in DOMAIN new :
                              /\ p = base + k
                              /\ g.type = "REMOVE_BIDDING_OBJECTS" => g.at = At(now, new[k].stop)
                      \/ /\ g.type = "TRANSMIT_BIDDING_OBJECTS" /\ g.at = now /\ g.index = e.index
                         /\ g.objs = numbers
    OBVIOUS
  <2>1. PICK f \in events \cup {tx} : Copy(f, g)
    BY <1>13 DEF Rest
  <2>2. CASE f \in events
    <3>1. /\ g.type = f.type /\ g.at = f.at /\ g.objs = f.objs
      BY <1>10, <2>1, <2>2 DEF Copy, BidLists
    <3> QED
      BY <1>10, <2>2, <3>1
  <2>3. CASE f = tx
    BY <1>12, <2>1, <2>3 DEF Copy, BidLists, Flights
  <2> QED
    BY <2>2, <2>3
<1>15. PICK g0 \in queue' : g0.type = "TRANSMIT_BIDDING_OBJECTS" /\ g0.objs = numbers
  BY <1>12, <1>13 DEF Copy, BidLists
<1>16. \A p \in numbers : p \in DOMAIN objs' /\ objs'[p].req = r
  BY <1>4, <1>5, <1>7, <1>9
<1>17. base + 1 \in numbers
  BY <1>8
<1>18. Carries(e, r) /\ \A q : Carries(e, q) => q = r
  BY <1>2, <1>4, <1>7, <1>8 DEF Carries
<1>19. requests' = requests /\ number' = number /\ over' = over /\ present' = present
  BY <1>1 DEF processes
<1>20. \A f \in queue : \A q : Carries(f, q)' <=> Carries(f, q)
  <2>1. \A f \in queue : f.type = "TRANSMIT_BIDDING_OBJECTS" => f.objs \subseteq DOMAIN objs
    BY FlightTypes DEF BidLists
  <2>2. \A f \in queue : \A q : f.type = "TRANSMIT_BIDDING_OBJECTS" => (Carries(f, q)' <=> Carries(f, q))
    BY <1>9, <2>1 DEF Carries
  <2>3. \A f \in queue : \A q : f.type # "TRANSMIT_BIDDING_OBJECTS" => (Carries(f, q)' <=> Carries(f, q))
    BY <1>19 DEF Carries
  <2> QED
    BY <2>2, <2>3
<1> HIDE DEF numbers
<1>21. \A g \in queue', q \in Requests :
         Carries(g, q)' => \E f \in queue : Carries(f, q) /\ g.index = f.index
  <2> SUFFICES ASSUME NEW g \in queue', NEW q \in Requests, Carries(g, q)'
               PROVE  \E f \in queue : Carries(f, q) /\ g.index = f.index
    OBVIOUS
  <2>1. CASE g \in queue
    BY <1>20, <2>1
  <2>2. CASE g.type = "TRANSMIT_BIDDING_OBJECTS" /\ g.index = e.index /\ g.objs = numbers
    <3>1. q = r
      BY <1>16, <2>2 DEF Carries
    <3> QED
      BY <1>18, <2>2, <3>1
  <2>3. g.type \notin {"ACTIVATE_BIDDING_OBJECTS", "REMOVE_BIDDING_OBJECTS"}
    BY DEF Carries
  <2> QED
    BY <1>14, <2>1, <2>2, <2>3
<1>22. \A f \in queue, q \in Requests : Carries(f, q) => \E g \in queue' : Carries(g, q)'
  <2> SUFFICES ASSUME NEW f \in queue, NEW q \in Requests, Carries(f, q)
               PROVE  \E g \in queue' : Carries(g, q)'
    OBVIOUS
  <2>1. CASE f = e
    <3>1. q = r
      BY <1>18, <2>1
    <3>2. Carries(g0, r)'
      BY <1>15, <1>16, <1>17 DEF Carries
    <3> QED
      BY <3>1, <3>2
  <2>2. CASE f # e
    BY <1>13, <1>20, <2>2 DEF Rest
  <2> QED
    BY <2>1, <2>2
<1>23. ASSUME NEW q \in Requests, q = r, InTime(q), Flying(q), NEW k \in DOMAIN new
       PROVE  /\ new[k].auc \in Names(q) /\ Time < new[k].stop /\ new[k].auc \in present
              /\ ~(At(now, new[k].stop) <= now)
  <2>1. Clear(q)
    BY <1>6, <1>23 DEF FlightsSafe
  <2>2. Apart(e, q)
    BY <2>1 DEF Clear
  <2>3. new[k].auc \in Names(q) /\ Time < new[k].stop
    BY <1>2, <1>4, <1>5, <1>7, <1>23, <2>2 DEF Apart
  <2>4. Names(q) \subseteq present
    <3>1. \A i \in sess[q].aucs : i \in DOMAIN aucs /\ Installed(i)
      BY <2>1 DEF Clear, Installed
    <3> QED
      BY <3>1 DEF Names, IInv, OneAuctionPerName
  <2>5. now \in Int /\ new[k].stop \in Int /\ Time \in Int
    <3>1. new[k] \in Bids
      BY <1>4, ElementOfSeq, LenProperties
    <3>2. now \in Int
      BY <1>3
    <3> QED
      BY <3>1, <3>2, TimesInt DEF Bids, ObjectType, Time
  <2>6. At(now, new[k].stop) > now /\ At(now, new[k].stop) \in Int
    BY <2>3, <2>5, AtDue, TimesInt DEF Time
  <2> QED
    BY <2>3, <2>4, <2>5, <2>6
<1>24. ASSUME NEW o \in DOMAIN objs', o \notin DOMAIN objs
       PROVE  /\ objs'[o].req \in Requests /\ number[objs'[o].req] # NotAdded
              /\ \A q \in Requests : objs'[o].req = q /\ InTime(q) =>
                   /\ Flying(q) => objs'[o].auc \in Names(q) /\ Time < objs'[o].stop
                   /\ objs'[o].kind # "bid" \/ objs'[o].auc \in present
  <2>1. PICK k \in DOMAIN new : objs'[o] = new[k]
    BY <1>9, <1>24
  <2>2. objs'[o].req = r /\ number[r] # NotAdded
    BY <1>4, <1>5, <1>7, <2>1
  <2>3. Flying(r)
    BY <1>18 DEF Flying
  <2> QED
    BY <1>23, <2>1, <2>2, <2>3
<1>25. ASSUME NEW g \in queue', g \notin queue
       PROVE  OfOne(g)' /\ \A q \in Requests : InTime(q) /\ Flying(q) => Apart(g, q)'
  <2>1. g.type \in {"ACTIVATE_BIDDING_OBJECTS", "REMOVE_BIDDING_OBJECTS", "TRANSMIT_BIDDING_OBJECTS"}
    BY <1>14, <1>25
  <2>2. OfOne(g)'
    <3>1. g.type = "TRANSMIT_BIDDING_OBJECTS" => g.objs = numbers
      BY <1>14, <1>25
    <3> QED
      BY <1>16, <2>1, <3>1 DEF OfOne
  <2>3. ASSUME NEW q \in Requests, InTime(q), Flying(q) PROVE Apart(g, q)'
    <3>1. ASSUME g.at <= now, g.type = "REMOVE_BIDDING_OBJECTS", NEW p \in g.objs
          PROVE  objs'[p].req # q
      <4>1. PICK k \in DOMAIN new : p = base + k /\ g.at = At(now, new[k].stop)
        BY <1>14, <1>25, <3>1
      <4>2. objs'[p].req = r
        BY <1>4, <1>5, <1>7, <1>9, <4>1
      <4> QED
        BY <1>23, <2>3, <3>1, <4>1, <4>2
    <3> QED
      BY <1>1, <2>1, <3>1 DEF Apart, Ends
  <2> QED
    BY <2>2, <2>3
<1>26. EventsTimed' /\ Begun'
  <2>1. now <= now
    BY <1>3
  <2>2. \A g \in queue' :
          \/ \E f \in queue : Kept(f, g)
          \/ /\ g.type \notin {"CREATE_SESSION", "ACTIVATE_RESOURCE_REQUEST_INTERVAL",
                               "ADD_RESOURCE_REQUESTS"}
             /\ g.type \in Flights => g.at <= now
             /\ g.type \in Ends => ~(g.at <= now)
    <3> SUFFICES ASSUME NEW g \in queue', ~ \E f \in queue : Kept(f, g)
                 PROVE  /\ g.type \notin {"CREATE_SESSION", "ACTIVATE_RESOURCE_REQUEST_INTERVAL",
                                          "ADD_RESOURCE_REQUESTS"}
                        /\ g.type \in Flights => g.at <= now
                        /\ g.type \in Ends => ~(g.at <= now)
      OBVIOUS
    <3>1. \/ g.type \in {"ACTIVATE_BIDDING_OBJECTS", "REMOVE_BIDDING_OBJECTS"}
          \/ g.type = "TRANSMIT_BIDDING_OBJECTS" /\ g.at = now
      BY <1>14, KeptItself
    <3> QED
      BY <2>1, <3>1 DEF Flights, Ends
  <2> QED
    BY <1>1, <1>6, <2>2, Punctual
<1>27. \A g \in queue' :
         \/ \E f \in queue : Kept(f, g)
         \/ OfOne(g)' /\ \A q \in Requests : InTime(q) /\ Flying(q) => Apart(g, q)'
  BY <1>25, KeptItself
<1>28. \A f \in queue : f.type = "REMOVE_BIDDING_OBJECTS" => f \in queue'
  BY <1>2, <1>13 DEF Rest
<1> QED
  BY <1>1, <1>9, <1>21, <1>22, <1>24, <1>26, <1>27, <1>28, PassedOn

\* The bids of an interval go over the session of their own process, all of them.
LEMMA TransmitFlies ==
  ASSUME IInv, FInv, NEW e \in queue, HandleTransmitBiddingObjects(e)
  PROVE  FInv'
<1> DEFINE reached == {o \in e.objs : \A p \in e.objs : p <= o => objs[p].auc \in present}
<1>1. /\ Handling(e, "TRANSMIT_BIDDING_OBJECTS") /\ queue' = Rest(e)
      /\ UNCHANGED <<now, aucs, objs, sess, net, files, processes>>
      /\ e.index \in DOMAIN requests => sent' = sent \cup (reached \X {requests[e.index].req})
      /\ e.index \notin DOMAIN requests => sent' = sent
  BY Zenon DEF HandleTransmitBiddingObjects
<1>2. e.type = "TRANSMIT_BIDDING_OBJECTS" /\ e.objs # {} /\ e.objs \subseteq DOMAIN objs
  BY <1>1, Handled, EventShape DEF BidLists
<1>3. /\ requests' = requests /\ number' = number /\ over' = over /\ present' = present
  BY <1>1 DEF processes
<1>4. EventsTimed /\ Begun /\ BidsCarried /\ FlightsSafe /\ BidsFollow
      /\ SentOverOwn /\ BidsHaveAuctions
  BY DEF FInv
<1>5. PICK r \in Requests : \A o \in e.objs : objs[o].req = r
  <2>1. PICK o \in e.objs : objs[o].req \in Requests
    BY <1>2, FlightTypes
  <2>2. OfOne(e)
    BY <1>4 DEF BidsCarried
  <2> QED
    BY <1>2, <2>1, <2>2 DEF OfOne
<1>6. Carries(e, r) /\ \A q : Carries(e, q) => q = r
  BY <1>2, <1>5 DEF Carries
<1>7. Undisturbed(r) => /\ e.index \in DOMAIN requests /\ requests[e.index].req = r
                        /\ \A o \in e.objs : objs[o].auc \in present
  <2> SUFFICES ASSUME Undisturbed(r)
               PROVE  /\ e.index \in DOMAIN requests /\ requests[e.index].req = r
                      /\ \A o \in e.objs : objs[o].auc \in present
    OBVIOUS
  <2>1. Clear(r) /\ OwnProcess(r)
    BY <1>4, <1>6 DEF FlightsSafe, Flying, InTime, Undisturbed
  <2>2. Names(r) \subseteq present
    <3>1. \A i \in sess[r].aucs : i \in DOMAIN aucs /\ Installed(i)
      BY <2>1 DEF Clear, Installed
    <3> QED
      BY <3>1 DEF Names, IInv, OneAuctionPerName
  <2> QED
    BY <1>2, <1>5, <1>6, <2>1, <2>2 DEF Clear, OwnProcess
<1>8. \A f, q : Carries(f, q)' <=> Carries(f, q)
  BY <1>1, <1>3, CarriesSame
<1>9. /\ \A g \in queue' : g \in queue
      /\ \A f \in queue : f # e => f \in queue'
  BY <1>1 DEF Rest
<1>10. \A g \in queue' : \E f \in queue : Kept(f, g)
  BY <1>9, KeptItself
<1>11. EventsTimed' /\ Begun'
  BY <1>1, <1>4, <1>10, Punctual
<1>12. BidsCarried'
  BY <1>1, <1>3, <1>4, <1>10, CarriedKept
<1>13. \A q \in Requests : /\ InTime(q)' <=> InTime(q)
                           /\ Undisturbed(q)' <=> Undisturbed(q)
  BY <1>1 DEF InTime, Undisturbed
<1>14. FlightsSafe'
  <2> SUFFICES ASSUME NEW q \in Requests
               PROVE  InTime(q)' /\ Flying(q)' => Clear(q)' /\ (Undisturbed(q)' => OwnProcess(q)')
    BY DEF FlightsSafe
  <2>1. \A g \in queue' : Carries(g, q)' => \E f \in queue : Carries(f, q) /\ g.index = f.index
    BY <1>8, <1>9
  <2>2. ASSUME Clear(q), Undisturbed(q) => OwnProcess(q)
        PROVE  /\ \A i \in sess[q].aucs : aucs[i].state # "done" => aucs'[i].state # "done"
               /\ \A o \in DOMAIN objs' : objs'[o].req = q => objs'[o].auc \in Names(q) /\ Time < objs'[o].stop
               /\ \A g \in queue' : (\E f \in queue : Kept(f, g)) \/ Apart(g, q)'
               /\ Undisturbed(q) => number[q] \in DOMAIN requests' /\ requests'[number[q]].req = q
    BY <1>1, <1>3, <1>10, <2>2 DEF Clear, OwnProcess
  <2> QED
    BY <1>1, <1>3, <1>4, <1>13, <2>1, <2>2, SafeKept
<1>15. sent \subseteq sent'
  BY <1>1
<1>16. BidsFollow'
  <2> SUFFICES ASSUME NEW q \in Requests, Undisturbed(q)
               PROVE  Delivered(q)' \/ (Flying(q)' /\ q \notin over')
    BY <1>13 DEF BidsFollow
  <2>1. CASE Delivered(q)
    BY <1>1, <1>15, <2>1, DeliveredKept
  <2>2. CASE Flying(q) /\ q \notin over
    <3>1. PICK f \in queue : Carries(f, q)
      BY <2>2 DEF Flying
    <3>2. CASE f # e
      BY <1>3, <1>8, <1>9, <2>2, <3>1, <3>2 DEF Flying
    <3>3. CASE f = e
      <4>1. q = r
        BY <1>6, <3>1, <3>3
      <4>2. /\ e.index \in DOMAIN requests /\ requests[e.index].req = r
            /\ \A o \in e.objs : objs[o].auc \in present
        BY <1>7, <4>1
      <4>3. PICK o \in e.objs : objs[o].req = r
        BY <1>2, <1>5
      <4>4. o \in reached
        BY <4>2
      <4>5. <<o, r>> \in sent'
        BY <1>1, <4>2, <4>4
      <4> QED
        BY <1>1, <4>1, <4>3, <4>5 DEF Delivered
    <3> QED
      BY <3>2, <3>3
  <2> QED
    BY <1>4, <2>1, <2>2 DEF BidsFollow
<1>17. SentOverOwn'
  <2> SUFFICES ASSUME NEW s \in sent', Undisturbed(objs[s[1]].req) PROVE objs[s[1]].req = s[2]
    <3>1. \A q : Undisturbed(q)' <=> Undisturbed(q)
      BY <1>1 DEF Undisturbed
    <3>2. SentOverOwn' <=> \A s \in sent' : Undisturbed(objs[s[1]].req) => objs[s[1]].req = s[2]
      BY <1>1 DEF SentOverOwn, Undisturbed
    <3> QED
      BY <3>2
  <2>1. CASE s \in sent
    BY <1>4, <2>1 DEF SentOverOwn
  <2>2. CASE s \notin sent
    <3>1. e.index \in DOMAIN requests /\ s[1] \in e.objs /\ s[2] = requests[e.index].req
      BY <1>1, <2>2
    <3>2. objs[s[1]].req = r
      BY <1>5, <3>1
    <3> QED
      BY <1>7, <3>1, <3>2
  <2> QED
    BY <2>1, <2>2
<1>18. BidsHaveAuctions'
  <2>1. \A f \in queue : \A o : f.type = "REMOVE_BIDDING_OBJECTS" /\ o \in f.objs
                             /\ objs'[o].state # "done" =>
          \E g \in queue' : g.type = f.type /\ g.at = f.at /\ o \in g.objs
    BY <1>2, <1>9
  <2> QED
    BY <1>1, <1>3, <1>4, <1>13, <2>1, HeldKept
<1> QED
  BY <1>11, <1>12, <1>14, <1>16, <1>17, <1>18 DEF FInv

\* When the event that ends a process is due, no bid of an answer in time is on
\* its way.
LEMMA EndsFlies ==
  ASSUME IInv, FInv, NEW e \in queue, e.type \in Ends, e.at <= now,
         UNCHANGED <<now, objs, net, files, sent>>, number' = number, present' = present,
         \A i \in DOMAIN requests' : i \in DOMAIN requests /\ requests'[i] = requests[i],
         \A r \in Requests :
           /\ sess'[r].start = sess[r].start /\ sess'[r].stop = sess[r].stop
           /\ sess'[r].aucs = sess[r].aucs /\ sess'[r].answer = sess[r].answer,
         \A i \in DOMAIN aucs : i \in DOMAIN aucs' /\ aucs'[i].name = aucs[i].name,
         \A g \in queue' : (\E f \in queue : Kept(f, g)) \/ g.type = "REMOVE_AUCTIONS",
         \A f \in queue : f # e => f \in queue'
  PROVE  FInv'
<1>1. EventsTimed /\ Begun /\ BidsCarried /\ FlightsSafe /\ BidsFollow
      /\ SentOverOwn /\ BidsHaveAuctions
  BY DEF FInv
<1>2. \A r \in Requests : InTime(r) => ~Flying(r)
  BY <1>1 DEF FlightsSafe, Clear, Apart
<1>3. \A r \in Requests : /\ InTime(r)' <=> InTime(r)
                          /\ Undisturbed(r)' <=> Undisturbed(r)
  BY DEF InTime, Undisturbed
<1>4. ASSUME NEW r \in Requests, Flying(r)' PROVE Flying(r)
  <2>1. PICK g \in queue' : Carries(g, r)'
    BY <1>4 DEF Flying
  <2>2. g.type # "REMOVE_AUCTIONS"
    BY <2>1 DEF Carries
  <2>3. PICK f \in queue : Kept(f, g)
    BY <2>2
  <2>4. Carries(f, r)
    BY <2>1, <2>3, CarriedBack
  <2> QED
    BY <2>4 DEF Flying
<1>5. EventsTimed' /\ Begun'
  <2>1. \A g \in queue' :
          \/ \E f \in queue : Kept(f, g)
          \/ /\ g.type \notin {"CREATE_SESSION", "ACTIVATE_RESOURCE_REQUEST_INTERVAL",
                               "ADD_RESOURCE_REQUESTS"}
             /\ g.type \in Flights => g.at <= now
             /\ g.type \in Ends => ~(g.at <= now)
    BY DEF Flights, Ends
  <2> QED
    BY <1>1, <2>1, Punctual
<1>6. BidsCarried'
  <2>1. \A g \in queue' : (\E f \in queue : Kept(f, g)) \/ OfOne(g)'
    BY DEF OfOne
  <2> QED
    BY <1>1, <2>1, CarriedKept
<1>7. FlightsSafe'
  BY <1>2, <1>3, <1>4 DEF FlightsSafe
<1>8. BidsFollow'
  <2> SUFFICES ASSUME NEW r \in Requests, Undisturbed(r) PROVE Delivered(r)'
    BY <1>3 DEF BidsFollow
  <2>1. Delivered(r)
    BY <1>1, <1>2 DEF BidsFollow, InTime, Undisturbed
  <2> QED
    BY <2>1, DeliveredKept
<1>9. SentOverOwn'
  BY <1>1, <1>3, SentKept
<1>10. BidsHaveAuctions'
  <2>1. \A f \in queue : \A o : f.type = "REMOVE_BIDDING_OBJECTS" /\ o \in f.objs
                             /\ objs'[o].state # "done" =>
          \E g \in queue' : g.type = f.type /\ g.at = f.at /\ o \in g.objs
    BY DEF Ends
  <2> QED
    BY <1>1, <1>3, <2>1, HeldKept
<1> QED
  BY <1>5, <1>6, <1>7, <1>8, <1>9, <1>10 DEF FInv

\* The end of a process by its event,
LEMMA RemovePushExecutionFlies ==
  ASSUME IInv, FInv, NEW e \in queue, HandleRemovePushExecution(e)
  PROVE  FInv'
<1>1. /\ Handling(e, "REMOVE_PUSH_EXECUTION") /\ DelRequest(e.req, "event")
      /\ queue' = Rest(e)
      /\ UNCHANGED <<now, aucs, objs, sess, net, files, up, sent>>
  BY Zenon DEF HandleRemovePushExecution
<1>2. e.type = "REMOVE_PUSH_EXECUTION" /\ e.req \in Requests /\ e.at <= now
  BY <1>1, Handled, EventShape DEF Handling
<1>3. /\ number' = number /\ present' = present
      /\ \A i \in DOMAIN requests' : i \in DOMAIN requests /\ requests'[i] = requests[i]
  BY <1>1, <1>2, RequestDeleted DEF Deleters
<1>4. /\ \A g \in queue' : \E f \in queue : Kept(f, g)
      /\ \A f \in queue : f # e => f \in queue'
  BY <1>1, KeptItself DEF Rest
<1> QED
  BY <1>1, <1>2, <1>3, <1>4, EndsFlies DEF Ends

\* and with its interval.
LEMMA RemoveIntervalFlies ==
  ASSUME IInv, FInv, NEW e \in queue, HandleRemoveInterval(e)
  PROVE  FInv'
<1> DEFINE s == sess[e.req]
           posted == {ev \in {[at |-> now, rank |-> 1, type |-> "REMOVE_AUCTIONS",
                               objs |-> Unreferenced(s.aucs)]} : ev.objs # {}}
<1>1. /\ Handling(e, "REMOVE_RESOURCE_REQUEST_INTERVAL")
      /\ sess' = [sess EXCEPT ![e.req].torn = TRUE]
      /\ aucs' = DecrementReferences(s.aucs, e.req)
      /\ queue' = Enqueue(Rest(e), posted)
      /\ EndProcess(e.req)
      /\ UNCHANGED <<now, objs, net, files, up, sent>>
  BY Zenon DEF HandleRemoveInterval
<1>2. e.type = "REMOVE_RESOURCE_REQUEST_INTERVAL" /\ e.req \in Requests /\ e.at <= now
  BY <1>1, Handled, EventShape DEF Handling, IntervalTypes
<1>3. /\ number' = number /\ present' = present
      /\ \A i \in DOMAIN requests' : i \in DOMAIN requests /\ requests'[i] = requests[i]
  BY <1>1, <1>2, ProcessEnded
<1>4. \A r \in Requests :
        /\ sess'[r].start = sess[r].start /\ sess'[r].stop = sess[r].stop
        /\ sess'[r].aucs = sess[r].aucs /\ sess'[r].answer = sess[r].answer
  <2>1. sess \in [Requests -> SessionType]
    BY DEF IInv, Types
  <2>2. \A r \in Requests : r # e.req => sess'[r] = sess[r]
    BY <1>1, <2>1
  <2>3. PICK t \in SessionType : t = sess[e.req]
    BY <1>2, <2>1
  <2>4. sess'[e.req] = [t EXCEPT !.torn = TRUE]
    BY <1>1, <1>2, <2>1, <2>3
  <2>5. /\ sess'[e.req].start = t.start /\ sess'[e.req].stop = t.stop
        /\ sess'[e.req].aucs = t.aucs /\ sess'[e.req].answer = t.answer
    BY <2>4 DEF SessionType
  <2> QED
    BY <2>2, <2>3, <2>5
<1>5. /\ DOMAIN aucs' = DOMAIN aucs
      /\ \A i \in DOMAIN aucs : aucs'[i].name = aucs[i].name
  <2>1. \A i \in DOMAIN aucs : aucs[i] \in AuctionType
    BY ElementOfSeq, LenProperties DEF IInv, Types
  <2>2. DOMAIN aucs' = DOMAIN aucs
    BY <1>1 DEF DecrementReferences
  <2>3. ASSUME NEW i \in DOMAIN aucs PROVE aucs'[i].name = aucs[i].name
    <3>1. PICK a \in AuctionType : a = aucs[i]
      BY <2>1
    <3>2. aucs'[i] = [a EXCEPT !.sessions = @ \ {e.req}] \/ aucs'[i] = a
      BY <1>1, <3>1 DEF DecrementReferences
    <3>3. aucs'[i].name = a.name
      BY <3>2 DEF AuctionType
    <3> QED
      BY <3>1, <3>3
  <2> QED
    BY <2>2, <2>3
<1>6. /\ \A g \in queue' : g \in Rest(e) \/ g.type = "REMOVE_AUCTIONS"
      /\ Rest(e) \subseteq queue'
  <2>1. \A ev \in posted : /\ ev.type = "REMOVE_AUCTIONS" /\ ev \in Events(DOMAIN aucs, DOMAIN objs)
    <3> DEFINE l == Unreferenced(s.aucs)
    <3>1. l \subseteq DOMAIN aucs /\ now \in Int
      <4>1. s.aucs \subseteq DOMAIN aucs /\ now \in Int
        BY <1>2, FlightTypes
      <4> HIDE DEF s
      <4> QED
        BY <4>1 DEF Unreferenced
    <3> HIDE DEF l
    <3> SUFFICES ASSUME l # {}
                 PROVE  [at |-> now, rank |-> 1, type |-> "REMOVE_AUCTIONS", objs |-> l]
                          \in Events(DOMAIN aucs, DOMAIN objs)
      BY DEF l
    <3>2. l \in ListOf(DOMAIN aucs)
      BY <3>1 DEF ListOf
    <3> QED
      BY <3>1, <3>2 DEF Events, AuctionLists
  <2> HIDE DEF posted
  <2>2. Rest(e) \cup posted \subseteq Events(DOMAIN aucs, DOMAIN objs)
    BY <2>1, FlightTypes DEF Rest
  <2>3. /\ \A g \in queue' : g \in Rest(e) \/ \E f \in posted : Copy(f, g)
        /\ Rest(e) \subseteq queue'
    BY <1>1, <2>2, EnqueuedCopies
  <2> QED
    BY <2>1, <2>3 DEF Copy
<1>7. /\ \A g \in queue' : (\E f \in queue : Kept(f, g)) \/ g.type = "REMOVE_AUCTIONS"
      /\ \A f \in queue : f # e => f \in queue'
  BY <1>6, KeptItself DEF Rest
<1> QED
  BY <1>1, <1>2, <1>3, <1>4, <1>5, <1>7, EndsFlies DEF Ends

\* Bids that are removed are not among those on their way, unless they take with
\* them the first of those not installed yet.
LEMMA RemoveBiddingObjectsFlies ==
  ASSUME IInv, FInv, NEW e \in queue, HandleRemoveBiddingObjects(e)
  PROVE  FInv'
<1> DEFINE S == e.objs
<1>1. /\ Handling(e, "REMOVE_BIDDING_OBJECTS") /\ objs' = Entering(objs, S, "done")
      /\ queue' = DelBiddingObjectEvents(Rest(e), S, 1)
      /\ UNCHANGED <<now, aucs, sess, net, files, up, sent, processes>>
  BY Zenon DEF HandleRemoveBiddingObjects
<1>2. e.type = "REMOVE_BIDDING_OBJECTS" /\ S \subseteq DOMAIN objs /\ e.at <= now
  BY <1>1, Handled, EventShape DEF BidLists, Handling
<1>3. /\ requests' = requests /\ number' = number /\ over' = over /\ present' = present
  BY <1>1 DEF processes
<1>4. EventsTimed /\ Begun /\ BidsCarried /\ FlightsSafe /\ BidsFollow
      /\ SentOverOwn /\ BidsHaveAuctions
  BY DEF FInv
<1>5. /\ DOMAIN objs' = DOMAIN objs
      /\ \A o \in DOMAIN objs :
           /\ objs'[o].req = objs[o].req /\ objs'[o].auc = objs[o].auc
           /\ objs'[o].stop = objs[o].stop /\ objs'[o].kind = objs[o].kind
           /\ o \in S => objs'[o].state = "done"
           /\ o \notin S => objs'[o] = objs[o]
  BY <1>1, EnteringFields
<1>6. /\ \A g \in queue' : \E f \in queue : Kept(f, g)
      /\ \A f \in queue : f # e =>
           /\ f.type = "PUSH_EXECUTION" => f \in queue'
           /\ f.type \in BidLists /\ ~(f.objs \subseteq S) =>
                \E g \in queue' : Kept(f, g) /\ g.objs = f.objs \ S
           /\ f.type = "ADD_GENERATED_BIDDING_OBJECTS" /\ 1 \notin S => f \in queue'
  <2>1. Rest(e) \subseteq Events(DOMAIN aucs, DOMAIN objs)
    BY FlightTypes DEF Rest
  <2> DEFINE D == queue'
             q == Rest(e)
  <2>2. D = DelBiddingObjectEvents(q, S, 1)
    BY <1>1
  <2> HIDE DEF D, S, q
  <2>3. /\ \A g \in D : \E f \in q : Kept(f, g)
        /\ \A f \in q :
             /\ f.type \notin BidLists \cup {"ADD_GENERATED_BIDDING_OBJECTS"} => f \in D
             /\ f.type \in BidLists /\ ~(f.objs \subseteq S) =>
                  \E g \in D : Kept(f, g) /\ g.objs = f.objs \ S
             /\ f.type = "ADD_GENERATED_BIDDING_OBJECTS" /\ 1 \notin S => f \in D
    <3>1. q \subseteq Events(DOMAIN aucs, DOMAIN objs)
      BY <2>1 DEF q
    <3> QED
      BY <2>2, <3>1, BidEventsKept
  <2> QED
    BY <2>3 DEF D, q, Rest, BidLists
<1> HIDE DEF S
<1>7. \A q \in Requests : /\ InTime(q)' <=> InTime(q)
                          /\ Undisturbed(q)' <=> Undisturbed(q)
  BY <1>1 DEF InTime, Undisturbed
<1>8. EventsTimed' /\ Begun'
  BY <1>1, <1>4, <1>6, Punctual
<1>9. BidsCarried'
  <2>1. \A g \in queue' : (\E f \in queue : Kept(f, g)) \/ OfOne(g)'
    BY <1>6
  <2>2. \A o \in DOMAIN objs' : o \notin DOMAIN objs => number'[objs'[o].req] # NotAdded
    BY <1>5
  <2> QED
    BY <1>1, <1>3, <1>4, <1>5, <2>1, <2>2, CarriedKept
<1>10. FlightsSafe'
  <2> SUFFICES ASSUME NEW q \in Requests
               PROVE  InTime(q)' /\ Flying(q)' => Clear(q)' /\ (Undisturbed(q)' => OwnProcess(q)')
    BY DEF FlightsSafe
  <2>1. \A g \in queue' : Carries(g, q)' => \E f \in queue : Carries(f, q) /\ g.index = f.index
    <3> SUFFICES ASSUME NEW g \in queue', Carries(g, q)'
                 PROVE  \E f \in queue : Carries(f, q) /\ g.index = f.index
      OBVIOUS
    <3>1. PICK f \in queue : Kept(f, g)
      BY <1>6
    <3>2. Carries(f, q)
      BY <1>3, <1>5, <3>1, CarriedBack
    <3> QED
      BY <3>1, <3>2 DEF Kept, Carries, Flights
  <2>2. ASSUME Clear(q), Undisturbed(q) => OwnProcess(q)
        PROVE  /\ \A i \in sess[q].aucs : aucs[i].state # "done" => aucs'[i].state # "done"
               /\ \A o \in DOMAIN objs' : objs'[o].req = q => objs'[o].auc \in Names(q) /\ Time < objs'[o].stop
               /\ \A g \in queue' : (\E f \in queue : Kept(f, g)) \/ Apart(g, q)'
               /\ Undisturbed(q) => number[q] \in DOMAIN requests' /\ requests'[number[q]].req = q
    BY <1>1, <1>3, <1>5, <1>6, <2>2 DEF Clear, OwnProcess
  <2> QED
    BY <1>1, <1>3, <1>4, <1>5, <1>7, <2>1, <2>2, SafeKept
<1>11. BidsFollow'
  <2> SUFFICES ASSUME NEW q \in Requests, Undisturbed(q)
               PROVE  Delivered(q)' \/ (Flying(q)' /\ q \notin over')
    BY <1>7 DEF BidsFollow
  <2>1. CASE Delivered(q)
    <3>1. \A o \in DOMAIN objs : objs[o].state = "done" => objs'[o].state = "done"
      BY <1>5
    <3> QED
      BY <1>1, <1>5, <2>1, <3>1, DeliveredKept
  <2>2. CASE Flying(q) /\ q \notin over
    <3>1. PICK f \in queue : Carries(f, q)
      BY <2>2 DEF Flying
    <3>2. Clear(q)
      BY <1>4, <2>2 DEF FlightsSafe, InTime, Undisturbed
    <3>3. \A o \in S : objs[o].req # q
      BY <1>2, <3>2 DEF Clear, Apart, S
    <3>4. f # e
      BY <1>2, <3>1 DEF Carries
    <3>5. CASE f.type = "PUSH_EXECUTION"
      <4>1. f \in queue' /\ Carries(f, q)'
        BY <1>3, <1>6, <3>1, <3>4, <3>5 DEF Carries
      <4> QED
        BY <1>3, <2>2, <4>1 DEF Flying
    <3>6. CASE f.type = "ADD_GENERATED_BIDDING_OBJECTS"
      <4>1. CASE 1 \in S
        <5>1. 1 \in DOMAIN objs' /\ objs'[1].state = "done" /\ objs'[1].req # q
          BY <1>2, <1>5, <3>3, <4>1 DEF S
        <5> QED
          BY <5>1 DEF Delivered, Lost
      <4>2. CASE 1 \notin S
        <5>1. f \in queue' /\ Carries(f, q)'
          BY <1>6, <3>1, <3>4, <3>6, <4>2 DEF Carries
        <5> QED
          BY <1>3, <2>2, <5>1 DEF Flying
      <4> QED
        BY <4>1, <4>2
    <3>7. CASE f.type = "TRANSMIT_BIDDING_OBJECTS"
      <4>1. PICK o \in f.objs : objs[o].req = q
        BY <3>1, <3>7 DEF Carries
      <4>2. f.type \in BidLists /\ o \in DOMAIN objs /\ o \notin S
        BY <3>3, <3>7, <4>1, FlightTypes DEF BidLists
      <4>3. PICK g \in queue' : Kept(f, g) /\ g.objs = f.objs \ S
        BY <1>6, <3>4, <4>1, <4>2
      <4>4. Carries(g, q)'
        BY <1>5, <3>7, <4>1, <4>2, <4>3 DEF Carries, Kept
      <4> QED
        BY <1>3, <2>2, <4>4 DEF Flying
    <3> QED
      BY <3>1, <3>5, <3>6, <3>7 DEF Carries
  <2> QED
    BY <1>4, <2>1, <2>2 DEF BidsFollow
<1>12. SentOverOwn'
  BY <1>1, <1>4, <1>5, <1>7, SentKept
<1>13. BidsHaveAuctions'
  <2>1. ASSUME NEW f \in queue, NEW o, f.type = "REMOVE_BIDDING_OBJECTS", o \in f.objs,
               objs'[o].state # "done"
        PROVE  \E g \in queue' : g.type = f.type /\ g.at = f.at /\ o \in g.objs
    <3>1. f.type \in BidLists /\ o \in DOMAIN objs
      BY <2>1, FlightTypes DEF BidLists
    <3>2. o \notin S
      BY <1>5, <2>1, <3>1
    <3>3. f # e
      BY <2>1, <3>2 DEF S
    <3>4. PICK g \in queue' : Kept(f, g) /\ g.objs = f.objs \ S
      BY <1>6, <2>1, <3>1, <3>2, <3>3
    <3> QED
      BY <2>1, <3>2, <3>4 DEF Kept
  <2>2. \A o \in DOMAIN objs : objs'[o].state # "done" => objs[o].state # "done"
    BY <1>5
  <2> QED
    BY <1>1, <1>3, <1>4, <1>5, <1>7, <2>1, <2>2, HeldKept
<1> QED
  BY <1>8, <1>9, <1>10, <1>11, <1>12, <1>13 DEF FInv

\* The intervals of a file: none of them had begun, and none is waiting any more.
LEMMA AddResourceRequestsFlies ==
  ASSUME IInv, IInv', FInv, NEW e \in queue, HandleAddResourceRequests(e)
  PROVE  FInv'
<1> DEFINE F == e.reqs
           more == IntervalEvents(F)
           late == \E r \in F : Window[r].stop <= Time
<1>1. /\ Handling(e, "ADD_RESOURCE_REQUESTS")
      /\ UNCHANGED <<now, aucs, objs, net, files, up, sent, processes>>
      /\ late => queue' = Rest(e) /\ UNCHANGED sess
      /\ ~late => /\ queue' = Enqueue(Rest(e), more)
                  /\ sess' = [r \in Requests |->
                               IF r \in F
                               THEN [sess[r] EXCEPT !.start = Later(Window[r].start, Time),
                                                    !.stop = Window[r].stop]
                               ELSE sess[r]]
  BY Zenon DEF HandleAddResourceRequests
<1>2. e.type = "ADD_RESOURCE_REQUESTS" /\ F \in Files
  <2>1. Handling(e, "ADD_RESOURCE_REQUESTS")
    BY <1>1
  <2> QED
    BY <2>1, Handled, EventShape
<1>3. now \in Nat /\ sess \in [Requests -> SessionType] /\ F \subseteq Requests
  BY <1>2, WindowAssumption DEF IInv, Types
<1>4. \A r \in Requests : ~Carries(e, r)
  BY <1>2 DEF Carries
<1>5. CASE late
  <2>1. SameSessions(sess, sess')
    BY <1>1, <1>5 DEF SameSessions
  <2> QED
    BY <1>1, <1>2, <1>4, <1>5, <2>1, CalmRest
<1>6. CASE ~late
  <2> DEFINE begin(r) == [at |-> At(now, Later(Window[r].start, Time)), rank |-> 2 * Place(r, F) - 1,
                          type |-> "ACTIVATE_RESOURCE_REQUEST_INTERVAL", req |-> r]
             end(r) == [at |-> At(now, Window[r].stop), rank |-> 2 * Place(r, F),
                        type |-> "REMOVE_RESOURCE_REQUEST_INTERVAL", req |-> r]
  <2>1. Time \in Nat /\ now \in Int /\ Time = Sec(now)
    BY <1>3, FracAssumption DEF Time, Sec
  <2>2. ASSUME NEW r \in F
        PROVE  /\ Time < Window[r].stop /\ Window[r].stop \in Nat
               /\ Later(Window[r].start, Time) \in Nat
    BY <1>3, <1>6, <2>1, <2>2, WindowAssumption DEF Later
  <2>3. ASSUME NEW r \in F
        PROVE  /\ ~(At(now, Window[r].stop) <= now)
               /\ Sec(At(now, Later(Window[r].start, Time))) = Later(Window[r].start, Time)
    <3>1. Window[r].stop \in Int /\ Window[r].stop > Sec(now) /\ Later(Window[r].start, Time) \in Int
      BY <2>1, <2>2
    <3>2. At(now, Window[r].stop) > now /\ At(now, Window[r].stop) \in Int
      BY <2>1, <3>1, AtDue, TimesInt
    <3>3. Sec(At(now, Later(Window[r].start, Time))) = Later(Window[r].start, Time)
      BY <2>1, <3>1, SecOfAt
    <3> QED
      BY <2>1, <3>2, <3>3
  <2>4. ASSUME NEW r \in Requests
        PROVE  /\ sess'[r].end = sess[r].end /\ sess'[r].aucs = sess[r].aucs
               /\ sess'[r].answer = sess[r].answer
               /\ r \in F => sess'[r].start = Later(Window[r].start, Time)
               /\ r \notin F => sess'[r] = sess[r]
    <3> DEFINE t == Later(Window[r].start, Time)
               u == Window[r].stop
    <3>1. sess'[r] = IF r \in F THEN [sess[r] EXCEPT !.start = t, !.stop = u]
                     ELSE sess[r]
      BY <1>1, <1>6
    <3>2. PICK s \in SessionType : s = sess[r]
      BY <1>3
    <3> HIDE DEF t, u
    <3>3. [s EXCEPT !.start = t, !.stop = u].end = s.end
          /\ [s EXCEPT !.start = t, !.stop = u].aucs = s.aucs
          /\ [s EXCEPT !.start = t, !.stop = u].answer = s.answer
          /\ [s EXCEPT !.start = t, !.stop = u].start = t
      BY DEF SessionType
    <3> QED
      BY <3>1, <3>2, <3>3 DEF t
  <2>5. /\ \A f \in more : \E r \in F :
             /\ f.req = r
             /\ \/ /\ f.type = "ACTIVATE_RESOURCE_REQUEST_INTERVAL"
                   /\ f.at = At(now, Later(Window[r].start, Time))
                \/ /\ f.type = "REMOVE_RESOURCE_REQUEST_INTERVAL"
                   /\ f.at = At(now, Window[r].stop)
        /\ \A r \in F : \E f \in more : f.type = "REMOVE_RESOURCE_REQUEST_INTERVAL" /\ f.req = r
    <3>1. more = {begin(r) : r \in F} \cup {end(r) : r \in F}
      BY DEF IntervalEvents
    <3>2. \A r \in F : /\ begin(r).req = r /\ begin(r).type = "ACTIVATE_RESOURCE_REQUEST_INTERVAL"
                       /\ begin(r).at = At(now, Later(Window[r].start, Time))
                       /\ end(r).req = r /\ end(r).type = "REMOVE_RESOURCE_REQUEST_INTERVAL"
                       /\ end(r).at = At(now, Window[r].stop)
      OBVIOUS
    <3> HIDE DEF more, begin, end
    <3> QED
      BY <3>1, <3>2
  <2>6. \A f \in more : f \in Events(DOMAIN aucs, DOMAIN objs)
    BY <1>2, <1>3, IntervalEventsOK
  <2> HIDE DEF more, F
  <2>7. /\ \A g \in queue' : g \in Rest(e) \/ \E f \in more : Copy(f, g)
        /\ \A f \in more : \E g \in queue' : Copy(f, g)
        /\ Rest(e) \subseteq queue'
    <3>1. Rest(e) \cup more \subseteq Events(DOMAIN aucs, DOMAIN objs)
      BY <2>6, FlightTypes DEF Rest
    <3> QED
      BY <1>1, <1>6, <3>1, EnqueuedCopies
  <2>8. \A g \in queue' :
          \/ g \in queue
          \/ \E r \in F :
               /\ g.req = r
               /\ \/ /\ g.type = "ACTIVATE_RESOURCE_REQUEST_INTERVAL"
                     /\ g.at = At(now, Later(Window[r].start, Time))
                  \/ /\ g.type = "REMOVE_RESOURCE_REQUEST_INTERVAL"
                     /\ g.at = At(now, Window[r].stop)
    <3> SUFFICES ASSUME NEW g \in queue', g \notin queue
                 PROVE  \E r \in F :
                   /\ g.req = r
                   /\ \/ /\ g.type = "ACTIVATE_RESOURCE_REQUEST_INTERVAL"
                         /\ g.at = At(now, Later(Window[r].start, Time))
                      \/ /\ g.type = "REMOVE_RESOURCE_REQUEST_INTERVAL"
                         /\ g.at = At(now, Window[r].stop)
      OBVIOUS
    <3>1. PICK f \in more : Copy(f, g)
      BY <2>7 DEF Rest
    <3>2. PICK r \in F :
             /\ f.req = r
             /\ \/ /\ f.type = "ACTIVATE_RESOURCE_REQUEST_INTERVAL"
                   /\ f.at = At(now, Later(Window[r].start, Time))
                \/ /\ f.type = "REMOVE_RESOURCE_REQUEST_INTERVAL"
                   /\ f.at = At(now, Window[r].stop)
      BY <2>5
    <3>3. g.type = f.type /\ g.at = f.at /\ g.req = f.req
      BY <3>1, <3>2 DEF Copy, IntervalTypes
    <3> QED
      BY <3>2, <3>3
  <2>9. EventsTimed /\ Begun /\ Time' = Time
    BY <1>1 DEF FInv, Time
  <2>10. \A r \in F : /\ Waiting(r) /\ net[r] = "idle"
                      /\ \A f \in queue : f.type = "ACTIVATE_RESOURCE_REQUEST_INTERVAL" => f.req # r
    <3>1. \A r \in F : Waiting(r) /\ r \in Requests
      BY <1>2, <1>3 DEF Waiting, F
    <3> QED
      BY <2>9, <3>1 DEF Begun
  <2>11. \A g \in queue', h \in queue' : h.type \in Ends /\ h.at <= now => h \in queue
    BY <2>3, <2>8 DEF Ends
  <2>12. EventsTimed'
    <3> SUFFICES ASSUME NEW g \in queue'
                 PROVE  /\ g.type \in Flights \cup {"CREATE_SESSION"} => g.at <= now'
                        /\ g.type = "ACTIVATE_RESOURCE_REQUEST_INTERVAL" => sess'[g.req].start <= Sec(g.at)
                        /\ g.type = "CREATE_SESSION" =>
                             /\ net'[g.req] # "idle" /\ Time' < sess'[g.req].stop
                             /\ \A h \in queue' : h.type \in Ends /\ h.at <= now' => Before(h, g)
      BY Zenon DEF EventsTimed
    <3>1. CASE g \in queue
      <4>1. /\ g.type \in Flights \cup {"CREATE_SESSION"} => g.at <= now
            /\ g.type = "ACTIVATE_RESOURCE_REQUEST_INTERVAL" => sess[g.req].start <= Sec(g.at)
            /\ g.type = "CREATE_SESSION" =>
                 /\ net[g.req] # "idle" /\ Time < sess[g.req].stop
                 /\ \A h \in queue : h.type \in Ends /\ h.at <= now => Before(h, g)
        BY <2>9, <3>1, Zenon DEF EventsTimed
      <4>2. g.type \in {"CREATE_SESSION", "ACTIVATE_RESOURCE_REQUEST_INTERVAL"} =>
              g.req \in Requests /\ g.req \notin F
        <5>1. g.type \in {"CREATE_SESSION", "ACTIVATE_RESOURCE_REQUEST_INTERVAL"} => g.req \in Requests
          BY <3>1, FlightTypes, EventShape DEF IntervalTypes
        <5> QED
          BY <2>10, <3>1, <4>1, <5>1
      <4> QED
        BY <1>1, <2>4, <2>9, <2>11, <4>1, <4>2
    <3>2. CASE g \notin queue
      <4>1. PICK r \in F :
               /\ g.req = r
               /\ \/ /\ g.type = "ACTIVATE_RESOURCE_REQUEST_INTERVAL"
                     /\ g.at = At(now, Later(Window[r].start, Time))
                  \/ g.type = "REMOVE_RESOURCE_REQUEST_INTERVAL"
        BY <2>8, <3>2
      <4>2. /\ sess'[r].start = Later(Window[r].start, Time)
            /\ Sec(At(now, Later(Window[r].start, Time))) = Later(Window[r].start, Time)
            /\ Later(Window[r].start, Time) <= Later(Window[r].start, Time)
        BY <1>3, <2>2, <2>3, <2>4 DEF F
      <4> QED
        BY <4>1, <4>2 DEF Flights
    <3> QED
      BY <3>1, <3>2
  <2>13. Begun'
    <3> SUFFICES ASSUME NEW r \in Requests
                 PROVE  /\ net'[r] # "idle" => sess'[r].start <= Time'
                        /\ Waiting(r)' => net'[r] = "idle"
                        /\ Waiting(r)' => \A f \in queue' :
                             f.type = "ACTIVATE_RESOURCE_REQUEST_INTERVAL" => f.req # r
      BY Zenon DEF Begun
    <3>1. Waiting(r)' => Waiting(r)
      BY <1>1, <2>8 DEF Waiting
    <3>2. r \in F => ~Waiting(r)'
      <4>1. ASSUME r \in F
            PROVE  \E g \in queue' : g.type = "REMOVE_RESOURCE_REQUEST_INTERVAL" /\ g.req = r
        <5>1. PICK f \in more : f.type = "REMOVE_RESOURCE_REQUEST_INTERVAL" /\ f.req = r
          BY <2>5, <4>1
        <5> QED
          BY <2>7, <5>1 DEF Copy, IntervalTypes
      <4> QED
        BY <4>1 DEF IInv, IntervalsOnce
    <3>3. CASE r \in F
      BY <1>1, <2>10, <3>2, <3>3
    <3>4. CASE r \notin F
      <4>1. /\ net[r] # "idle" => sess[r].start <= Time
            /\ Waiting(r) => /\ net[r] = "idle"
                             /\ \A f \in queue : f.type = "ACTIVATE_RESOURCE_REQUEST_INTERVAL" => f.req # r
        BY <2>9, Zenon DEF Begun
      <4>2. \A f \in queue' : f \notin queue => f.req # r
        BY <2>8, <3>4
      <4> QED
        BY <1>1, <2>4, <2>9, <3>1, <3>4, <4>1, <4>2
    <3> QED
      BY <3>3, <3>4
  <2>14. ASSUME NEW g \in queue', ~ \E f \in queue : Kept(f, g)
         PROVE  g.type \notin Flights /\ \A r \in Requests : Apart(g, r)'
    <3>1. PICK r \in F :
            \/ g.type = "ACTIVATE_RESOURCE_REQUEST_INTERVAL"
            \/ /\ g.type = "REMOVE_RESOURCE_REQUEST_INTERVAL"
               /\ g.at = At(now, Window[r].stop)
      BY <2>8, <2>14, KeptItself
    <3> QED
      BY <1>1, <2>3, <3>1 DEF Apart, Flights, Ends
  <2>15. \A f \in queue : f.type = "REMOVE_BIDDING_OBJECTS" \/ (\E r \in Requests : Carries(f, r))
                            => f \in queue'
    BY <1>2, <1>4, <2>7 DEF Rest
  <2> QED
    BY <1>1, <2>4, <2>12, <2>13, <2>14, <2>15, CalmStep
<1> QED
  BY <1>5, <1>6

\* Auctions that end are not those of an interval whose bids are on their way, and
\* the bids that competed in them go at once.
LEMMA RemoveAuctionsFlies ==
  ASSUME IInv, FInv, NEW e \in queue, HandleRemoveAuctions(e)
  PROVE  FInv'
<1> DEFINE S == e.objs
           names == {aucs[i].name : i \in S}
           A == DOMAIN aucs
           O == DOMAIN objs
           q == Enqueue(Rest(e), BidRemovals(S))
<1>1. /\ Handling(e, "REMOVE_AUCTIONS") /\ DelAuctions(names)
      /\ queue' = DelAuctionEvents(q, S)
      /\ aucs' = Entering(aucs, S, "done")
      /\ UNCHANGED <<now, objs, sess, net, files, up, sent>>
  BY Zenon DEF HandleRemoveAuctions, BidRemovals
<1>2. /\ e.type = "REMOVE_AUCTIONS" /\ S \subseteq A /\ e.at <= now
      /\ \A i \in S : aucs[i].state # "done"
  BY <1>1, Handled, EventShape DEF EventOK, AuctionLists, Handling
<1>3. /\ DOMAIN aucs' = A
      /\ \A i \in A : /\ aucs'[i].name = aucs[i].name
                      /\ i \in S => aucs'[i].state = "done"
                      /\ i \notin S => aucs'[i] = aucs[i]
  BY <1>1, EnteringAuctions DEF IInv, Types
<1>4. \A i \in A : aucs[i].name \in Auctions
  <2>1. aucs \in Seq(AuctionType)
    BY DEF IInv, Types
  <2>2. \A i \in A : aucs[i] \in AuctionType
    BY <2>1, ElementOfSeq, LenProperties
  <2> QED
    BY <2>2 DEF AuctionType
<1>5. /\ number' = number /\ present' = present \ names
      /\ \A i \in DOMAIN requests' :
           /\ i \in DOMAIN requests
           /\ requests'[i].req = requests[i].req
           /\ requests'[i].aucs = requests[i].aucs \ names
  <2>1. names \in SUBSET Auctions
    BY <1>2, <1>4
  <2> HIDE DEF names
  <2> QED
    BY <1>1, <2>1, AuctionsDeleted
<1>6. /\ DOMAIN requests' = DOMAIN requests \ Emptied(names)
      /\ over' = over \cup {requests[i].req : i \in Emptied(names)}
  <2> HIDE DEF names
  <2> QED
    BY <1>1 DEF DelAuctions, Erased
<1>7. EventsTimed /\ Begun /\ BidsCarried /\ FlightsSafe /\ BidsFollow
      /\ SentOverOwn /\ BidsHaveAuctions
  BY DEF FInv
<1>8. /\ \A g \in q : \/ g \in Rest(e)
                      \/ \E i \in S : /\ g.type = "REMOVE_BIDDING_OBJECTS" /\ g.at = now
                                      /\ g.objs = BidsOf(i)
      /\ \A i \in S : BidsOf(i) # {} =>
           \E g \in q : g.type = "REMOVE_BIDDING_OBJECTS" /\ g.at = now /\ g.objs = BidsOf(i)
      /\ Rest(e) \subseteq q /\ q \subseteq Events(A, O)
  <2> DEFINE removals == BidRemovals(S)
  <2>1. \A f \in removals : EventOK(f, aucs, objs, sess) /\ f.type = "REMOVE_BIDDING_OBJECTS"
    BY <1>2, BidRemovalsOK
  <2>2. /\ \A f \in removals : \E i \in S : f.at = now /\ f.objs = BidsOf(i)
        /\ \A i \in S : BidsOf(i) # {} => \E f \in removals : f.at = now /\ f.objs = BidsOf(i)
    <3> DEFINE J == {j \in S : BidsOf(j) # {}}
               removal(i) == [at |-> now, rank |-> i, type |-> "REMOVE_BIDDING_OBJECTS",
                              objs |-> BidsOf(i)]
    <3>1. removals = {removal(i) : i \in J}
      BY DEF BidRemovals
    <3>2. \A i : removal(i).at = now /\ removal(i).objs = BidsOf(i)
      OBVIOUS
    <3>3. \A i : i \in J <=> i \in S /\ BidsOf(i) # {}
      OBVIOUS
    <3> HIDE DEF S, J, removal, removals
    <3> QED
      BY <3>1, <3>2, <3>3
  <2>3. \A f \in Rest(e) \cup removals : EventOK(f, aucs, objs, sess)
    BY <2>1, RestOK DEF IInv
  <2>4. Rest(e) \cup removals \subseteq Events(A, O)
    BY <2>3 DEF EventOK
  <2>5. q = Enqueue(Rest(e), removals)
    OBVIOUS
  <2> HIDE DEF q, removals, S, A, O
  <2>6. /\ \A g \in q : g \in Rest(e) \/ \E f \in removals : Copy(f, g)
        /\ \A f \in removals : \E g \in q : Copy(f, g)
        /\ Rest(e) \subseteq q
    BY <2>4, <2>5, EnqueuedCopies
  <2>7. \A f \in removals : \A g : Copy(f, g) =>
          g.type = "REMOVE_BIDDING_OBJECTS" /\ g.at = f.at /\ g.objs = f.objs
    BY <2>1 DEF Copy, BidLists
  <2>8. q \subseteq Events(A, O)
    <3>1. \A f \in q : EventOK(f, aucs, objs, sess)
      BY <2>3, <2>5, Enqueued
    <3> QED
      BY <3>1 DEF EventOK, A, O
  <2>9. \A g \in q : \/ g \in Rest(e)
                     \/ \E i \in S : /\ g.type = "REMOVE_BIDDING_OBJECTS" /\ g.at = now
                                     /\ g.objs = BidsOf(i)
    BY <2>2, <2>6, <2>7
  <2>10. \A i \in S : BidsOf(i) # {} =>
           \E g \in q : g.type = "REMOVE_BIDDING_OBJECTS" /\ g.at = now /\ g.objs = BidsOf(i)
    BY <2>2, <2>6, <2>7
  <2> QED
    BY <2>6, <2>8, <2>9, <2>10
<1> HIDE DEF A, O, q
<1>9. /\ \A g \in queue' : \E f \in q : Kept(f, g)
      /\ \A f \in q : f.type \notin AuctionLists => f \in queue'
  <2> DEFINE D == queue'
  <2>1. D = DelAuctionEvents(q, S)
    BY <1>1
  <2> HIDE DEF D, S
  <2>2. /\ \A g \in D : \E f \in q : Kept(f, g)
        /\ \A f \in q : f.type \notin AuctionLists => f \in D
    BY <1>8, <2>1, AuctionEventsKept
  <2> QED
    BY <2>2 DEF D
<1>10. /\ \A g \in queue' :
            \/ \E f \in queue : Kept(f, g)
            \/ \E i \in S : /\ g.type = "REMOVE_BIDDING_OBJECTS" /\ g.at = now
                            /\ g.objs \subseteq BidsOf(i)
       /\ \A f \in queue : f.type \notin AuctionLists => f \in queue'
       /\ \A i \in S : BidsOf(i) # {} =>
           \E g \in queue' : g.type = "REMOVE_BIDDING_OBJECTS" /\ g.at = now /\ g.objs = BidsOf(i)
  <2>1. ASSUME NEW g \in queue'
        PROVE  \/ \E f \in queue : Kept(f, g)
               \/ \E i \in S : /\ g.type = "REMOVE_BIDDING_OBJECTS" /\ g.at = now
                               /\ g.objs \subseteq BidsOf(i)
    <3>1. PICK f \in q : Kept(f, g)
      BY <1>9
    <3>2. CASE f \in Rest(e)
      BY <3>1, <3>2 DEF Rest
    <3>3. CASE \E i \in S : /\ f.type = "REMOVE_BIDDING_OBJECTS" /\ f.at = now
                            /\ f.objs = BidsOf(i)
      BY <3>1, <3>3 DEF Kept, BidLists
    <3> QED
      BY <1>8, <3>2, <3>3
  <2>2. \A f \in queue : f.type \notin AuctionLists => f \in queue'
    BY <1>2, <1>8, <1>9 DEF Rest, AuctionLists
  <2>3. \A i \in S : BidsOf(i) # {} =>
           \E g \in queue' : g.type = "REMOVE_BIDDING_OBJECTS" /\ g.at = now /\ g.objs = BidsOf(i)
    BY <1>8, <1>9 DEF AuctionLists
  <2> QED
    BY <2>1, <2>2, <2>3
<1> HIDE DEF S
<1>11. \A r \in Requests : /\ InTime(r)' <=> InTime(r)
                           /\ Undisturbed(r)' <=> Undisturbed(r)
  BY <1>1 DEF InTime, Undisturbed
<1>12. ASSUME NEW r \in Requests, Clear(r)
       PROVE  /\ S \cap sess[r].aucs = {} /\ Names(r) \cap names = {}
  <2>1. S \cap sess[r].aucs = {}
    BY <1>2, <1>12 DEF Clear, Apart, S
  <2>2. ASSUME NEW i \in S, NEW j \in sess[r].aucs PROVE aucs[i].name # aucs[j].name
    <3>1. Installed(i) /\ Installed(j) /\ i \in A /\ j \in A /\ i # j
      BY <1>2, <1>12, <2>1 DEF Clear, Installed, A
    <3> QED
      BY <3>1 DEF IInv, OneAuctionPerName, A
  <2> QED
    BY <2>1, <2>2 DEF Names, S
<1>13. ASSUME NEW r \in Requests, Clear(r), number[r] \in DOMAIN requests, requests[number[r]].req = r
       PROVE  /\ number[r] \in DOMAIN requests' /\ requests'[number[r]].req = r
              /\ r \notin {requests[i].req : i \in Emptied(names)}
  <2>1. requests[number[r]].aucs \subseteq Names(r) /\ requests[number[r]].aucs # {}
    BY <1>7, <1>13 DEF BidsCarried, IInv, ProcessesInv, ProcessesHaveAuctions
  <2>2. number[r] \notin Emptied(names)
    BY <1>12, <1>13, <2>1 DEF Emptied
  <2>3. \A i \in Emptied(names) : i \in DOMAIN requests /\ number[requests[i].req] = i
    BY FlightTypes DEF Emptied
  <2> QED
    BY <1>5, <1>6, <1>13, <2>2, <2>3
<1>14. EventsTimed' /\ Begun'
  <2>1. \A g \in queue' :
          \/ \E f \in queue : Kept(f, g)
          \/ /\ g.type \notin {"CREATE_SESSION", "ACTIVATE_RESOURCE_REQUEST_INTERVAL",
                               "ADD_RESOURCE_REQUESTS"}
             /\ g.type \in Flights => g.at <= now
             /\ g.type \in Ends => ~(g.at <= now)
    BY <1>10 DEF Flights, Ends
  <2> QED
    BY <1>1, <1>7, <2>1, Punctual
<1>15. BidsCarried'
  <2>1. \A g \in queue' : (\E f \in queue : Kept(f, g)) \/ OfOne(g)'
    BY <1>10 DEF OfOne
  <2>2. \A i \in DOMAIN aucs : aucs'[i].name = aucs[i].name
    BY <1>3 DEF A
  <2>3. \A i \in DOMAIN requests' : /\ i \in DOMAIN requests /\ requests'[i].req = requests[i].req
                                    /\ requests'[i].aucs \subseteq requests[i].aucs
    BY <1>5
  <2> QED
    BY <1>1, <1>5, <1>7, <2>1, <2>2, <2>3, CarriedKept
<1>16. FlightsSafe'
  <2> SUFFICES ASSUME NEW r \in Requests
               PROVE  InTime(r)' /\ Flying(r)' => Clear(r)' /\ (Undisturbed(r)' => OwnProcess(r)')
    BY DEF FlightsSafe
  <2>1. \A g \in queue' : Carries(g, r)' => \E f \in queue : Carries(f, r) /\ g.index = f.index
    <3> SUFFICES ASSUME NEW g \in queue', Carries(g, r)'
                 PROVE  \E f \in queue : Carries(f, r) /\ g.index = f.index
      OBVIOUS
    <3>1. g.type # "REMOVE_BIDDING_OBJECTS"
      BY DEF Carries
    <3>2. PICK f \in queue : Kept(f, g)
      BY <1>10, <3>1
    <3>3. Carries(f, r)
      BY <1>1, <1>5, <3>2, CarriedBack
    <3> QED
      BY <3>2, <3>3 DEF Kept, Carries, Flights
  <2>2. ASSUME Clear(r), Undisturbed(r) => OwnProcess(r)
        PROVE  /\ \A i \in sess[r].aucs : aucs[i].state # "done" => aucs'[i].state # "done"
               /\ \A o \in DOMAIN objs' : objs'[o].req = r => objs'[o].auc \in Names(r) /\ Time < objs'[o].stop
               /\ \A g \in queue' : (\E f \in queue : Kept(f, g)) \/ Apart(g, r)'
               /\ Undisturbed(r) => number[r] \in DOMAIN requests' /\ requests'[number[r]].req = r
    <3>1. \A i \in sess[r].aucs : aucs[i].state # "done" => aucs'[i].state # "done"
      <4>1. sess[r].aucs \subseteq A
        BY FlightTypes DEF A
      <4> QED
        BY <1>3, <1>12, <2>2, <4>1
    <3>2. \A o \in DOMAIN objs' : objs'[o].req = r => objs'[o].auc \in Names(r) /\ Time < objs'[o].stop
      BY <1>1, <2>2 DEF Clear
    <3>3. ASSUME NEW g \in queue', ~ \E f \in queue : Kept(f, g) PROVE Apart(g, r)'
      <4>1. PICK i \in S : g.type = "REMOVE_BIDDING_OBJECTS" /\ g.objs \subseteq BidsOf(i)
        BY <1>10, <3>3
      <4>2. ASSUME NEW o \in g.objs PROVE objs'[o].req # r
        <5>1. o \in DOMAIN objs /\ objs[o].auc = aucs[i].name /\ objs' = objs
          BY <1>1, <4>1, <4>2 DEF BidsOf
        <5>2. objs[o].auc \in names
          BY <5>1 DEF S
        <5> QED
          BY <1>12, <2>2, <5>1, <5>2 DEF Clear
      <4> QED
        BY <4>1, <4>2 DEF Apart, Ends
    <3>4. Undisturbed(r) => number[r] \in DOMAIN requests' /\ requests'[number[r]].req = r
      BY <1>13, <2>2 DEF OwnProcess
    <3> QED
      BY <3>1, <3>2, <3>3, <3>4
  <2> QED
    BY <1>1, <1>3, <1>5, <1>7, <1>11, <2>1, <2>2, SafeKept DEF A
<1>17. BidsFollow'
  <2> SUFFICES ASSUME NEW r \in Requests, Undisturbed(r)
               PROVE  Delivered(r)' \/ (Flying(r)' /\ r \notin over')
    BY <1>11 DEF BidsFollow
  <2>1. CASE Delivered(r)
    BY <1>1, <2>1, DeliveredKept
  <2>2. CASE Flying(r) /\ r \notin over
    <3>1. PICK f \in queue : Carries(f, r)
      BY <2>2 DEF Flying
    <3>2. Clear(r) /\ OwnProcess(r)
      BY <1>7, <2>2 DEF FlightsSafe, InTime, Undisturbed
    <3>3. /\ number[r] \in DOMAIN requests' /\ requests'[number[r]].req = r
          /\ r \notin {requests[i].req : i \in Emptied(names)}
      BY <1>13, <3>2 DEF OwnProcess
    <3>4. f \in queue' /\ f.index = number[r]
      <4>1. f.type \notin AuctionLists
        BY <3>1 DEF Carries, AuctionLists
      <4> QED
        BY <1>10, <3>1, <3>2, <4>1 DEF OwnProcess
    <3>5. Carries(f, r)'
      <4>1. CASE f.type = "PUSH_EXECUTION"
        BY <3>3, <3>4, <4>1 DEF Carries
      <4>2. CASE f.type # "PUSH_EXECUTION"
        BY <1>1, <3>1, <4>2 DEF Carries
      <4> QED
        BY <4>1, <4>2
    <3> QED
      BY <1>6, <2>2, <3>3, <3>4, <3>5 DEF Flying
  <2> QED
    BY <1>7, <2>1, <2>2 DEF BidsFollow
<1>18. SentOverOwn'
  BY <1>1, <1>7, <1>11, SentKept
<1>19. BidsHaveAuctions'
  <2> SUFFICES ASSUME NEW o \in DOMAIN objs, objs[o].kind = "bid", objs[o].state # "done",
                      InTime(objs[o].req)
               PROVE  \/ objs[o].auc \in present'
                      \/ \E f \in queue' : /\ f.type = "REMOVE_BIDDING_OBJECTS"
                                           /\ o \in f.objs /\ f.at <= now
    BY <1>1 DEF BidsHaveAuctions, Pending, InTime
  <2>1. CASE \E f \in queue : f.type = "REMOVE_BIDDING_OBJECTS" /\ o \in f.objs /\ f.at <= now
    BY <1>10, <2>1 DEF AuctionLists
  <2>2. CASE objs[o].auc \in present /\ objs[o].auc \notin names
    BY <1>5, <2>2
  <2>3. CASE objs[o].auc \in names
    <3>1. PICK i \in S : objs[o].auc = aucs[i].name
      BY <2>3 DEF S
    <3>2. o \in BidsOf(i)
      BY <3>1 DEF BidsOf
    <3>3. now <= now
      BY FlightTypes
    <3> QED
      BY <1>10, <3>2, <3>3
  <2> QED
    BY <1>7, <2>1, <2>2, <2>3 DEF BidsHaveAuctions, Pending
<1> QED
  BY <1>14, <1>15, <1>16, <1>17, <1>18, <1>19 DEF FInv

\* What lies in a second to come is not due.
LEMMA LaterSecond ==
  ASSUME NEW t \in Int, NEW s \in Int, Sec(t) < s
  PROVE  t < s * Frac
<1> DEFINE n == Sec(t)
<1>1. Frac \in Nat \ {0} /\ n \in Int
  BY FracAssumption, TimesInt
<1>2. t < n * Frac + Frac
  BY <1>1, DivBounds DEF Sec
<1> HIDE DEF n
<1>3. (n + 1) * Frac <= s * Frac
  BY <1>1, SMTT(30) DEF n
<1>4. (n + 1) * Frac = n * Frac + Frac
  BY <1>1
<1>5. n * Frac \in Int /\ s * Frac \in Int
  BY <1>1
<1> QED
  BY <1>1, <1>2, <1>3, <1>4, <1>5

\* An answer in time sets the bids of its interval on their way, and leaves those
\* of others alone but for the process that is overwritten.
LEMMA AnsweredFlies ==
  ASSUME IInv, FInv, NEW e \in queue, Handling(e, "CREATE_SESSION"),
         NEW S, NEW index, NEW listed, NEW end, Answered(e, S, index, listed, end)
  PROVE  FInv'
<1>1. /\ e.type = "CREATE_SESSION" /\ e.req \in Requests /\ e.at <= now
      /\ \A f \in queue : f # e => Before(e, f)
  BY Handled, EventShape DEF Handling, IsHead, IntervalTypes
<1>2. PICK r \in Requests : r = e.req
  BY <1>1
<1>3. EventsTimed /\ Begun /\ BidsCarried /\ FlightsSafe /\ BidsFollow
      /\ SentOverOwn /\ BidsHaveAuctions
  BY DEF FInv
<1>4. /\ SessionsAnswered(r, index, listed, end) /\ ProcessAnswered(r, S, index)
      /\ AuctionsAnswered(S, listed) /\ EventsAnswered(e, index, end)
      /\ end \in Nat /\ sess[r].stop <= end
      /\ UNCHANGED <<now, objs, net, files, sent>>
  BY <1>2 DEF Answered
<1>5. /\ now \in Int /\ Time \in Int /\ Time' = Time
      /\ sess[r].start \in Nat /\ sess[r].stop \in Nat
  BY <1>2, <1>4, FlightTypes, TimesInt DEF Time
<1>6. sess[r].start <= Time /\ Time < sess[r].stop /\ Time < end
  <2>1. Time < sess[r].stop /\ net[r] # "idle"
    BY <1>1, <1>2, <1>3 DEF EventsTimed
  <2>2. sess[r].start <= Time
    BY <1>3, <2>1 DEF Begun
  <2> QED
    BY <1>4, <1>5, <2>1, <2>2
<1>7. \A h \in queue : h.type \in Ends => ~(h.at <= now)
  <2> SUFFICES ASSUME NEW h \in queue, h.type \in Ends, h.at <= now PROVE FALSE
    OBVIOUS
  <2>1. Before(h, e)
    BY <1>1, <1>3 DEF EventsTimed
  <2>2. Before(e, h)
    BY <1>1 DEF Ends
  <2>3. h.at \in Int /\ h.rank \in Nat /\ e.at \in Int /\ e.rank \in Nat
    BY FlightTypes
  <2> QED
    BY <2>1, <2>2, <2>3 DEF Before
<1>8. /\ \A g \in queue' :
           \/ g \in queue /\ g # e
           \/ g.type = "ACTIVATE_AUCTIONS"
           \/ g.type = "REMOVE_AUCTIONS" /\ (g.at <= now => g.objs \cap DOMAIN aucs = {})
           \/ g.type = "PUSH_EXECUTION" /\ g.index = index /\ g.at <= now
           \/ g.type = "REMOVE_PUSH_EXECUTION" /\ ~(g.at <= now)
      /\ \A f \in queue : f # e /\ f.type # "REMOVE_AUCTIONS" => f \in queue'
      /\ \E g \in queue' : g.type = "PUSH_EXECUTION" /\ g.index = index
  <2>1. /\ At(now, sess[r].start) <= now
        /\ At(now, end) \in Int /\ ~(At(now, end) <= now)
    <3>1. At(now, sess[r].start) <= now
      BY <1>5, <1>6, AtDue DEF Time
    <3>2. end \in Int /\ Sec(now) < end
      BY <1>4, <1>6 DEF Time
    <3>3. At(now, end) \in Int /\ now < At(now, end)
      <4>1. end > Sec(now)
        BY <1>5, <3>2, TimesInt
      <4>2. At(now, end) > now /\ At(now, end) \in Int
        BY <1>5, <3>2, <4>1, AtDue, TimesInt
      <4> QED
        BY <1>5, <4>2
    <3> QED
      BY <1>5, <3>1, <3>3
  <2>2. sess[r].stop * Frac \in Int /\ ~(sess[r].stop * Frac <= now)
    <3>1. now < sess[r].stop * Frac
      BY <1>5, <1>6, LaterSecond DEF Time
    <3>2. sess[r].stop * Frac \in Int
      BY <1>5, FracAssumption
    <3> QED
      BY <1>5, <3>1, <3>2
  <2> QED
    BY <1>2, <1>4, <2>1, <2>2 DEF EventsAnswered, Rest
<1>9. /\ number[r] = NotAdded /\ index # NotAdded /\ number'[r] = index
      /\ \A q \in Requests : q # r => number'[q] = number[q]
      /\ index \in DOMAIN requests' /\ requests'[index].req = r /\ requests'[index].aucs = S
      /\ \A i : i # index => /\ i \in DOMAIN requests' <=> i \in DOMAIN requests
                             /\ requests'[i] = requests[i] \/ i \notin DOMAIN requests
      /\ present \subseteq present' /\ over' = over
  <2>1. number \in [Requests -> Numbers \cup {NotAdded}]
    BY DEF IInv, ProcessesInv, ProcessesTypeOK
  <2> QED
    BY <1>4, <2>1 DEF ProcessAnswered
<1>10. /\ \A i \in DOMAIN requests : requests[i].req # r
       /\ \A o \in DOMAIN objs : objs[o].req # r
       /\ \A f \in queue : ~Carries(f, r)
  <2>1. \A i \in DOMAIN requests : requests[i].req # r
    <3>1. \A i \in DOMAIN requests : i # NotAdded
      BY AgentAssumption DEF IInv, ProcessesInv, ProcessesTypeOK, Numbers
    <3> QED
      BY <1>9, <3>1, FlightTypes
  <2>2. \A o \in DOMAIN objs : objs[o].req # r
    BY <1>3, <1>9 DEF BidsCarried
  <2>3. \A f \in queue : ~Carries(f, r)
    <3> SUFFICES ASSUME NEW f \in queue, Carries(f, r) PROVE FALSE
      OBVIOUS
    <3>1. f.type = "TRANSMIT_BIDDING_OBJECTS" => f.objs \subseteq DOMAIN objs
      BY FlightTypes DEF BidLists
    <3> QED
      BY <1>3, <1>9, <2>1, <2>2, <3>1 DEF Carries, BidsCarried, OfOne
  <2> QED
    BY <2>1, <2>2, <2>3
<1>11. /\ \A g \in queue' : Carries(g, r)' => g.type = "PUSH_EXECUTION" /\ g.index = index
       /\ \A g \in queue', q \in Requests : q # r /\ Carries(g, q)' => g \in queue /\ Carries(g, q)
  <2> SUFFICES ASSUME NEW g \in queue', NEW q \in Requests, Carries(g, q)'
               PROVE  /\ q = r => g.type = "PUSH_EXECUTION" /\ g.index = index
                      /\ q # r => g \in queue /\ Carries(g, q)
    BY <1>2
  <2>1. CASE g \in queue
    <3>1. CASE g.type = "PUSH_EXECUTION"
      <4>1. g.index \in DOMAIN requests' /\ requests'[g.index].req = q
        BY <2>1, <3>1 DEF Carries
      <4>2. CASE g.index = index
        BY <1>9, <3>1, <4>1, <4>2
      <4>3. CASE g.index # index
        BY <1>9, <1>10, <2>1, <3>1, <4>1, <4>3 DEF Carries
      <4> QED
        BY <4>2, <4>3
    <3>2. CASE g.type # "PUSH_EXECUTION"
      <4>1. Carries(g, q)
        BY <1>4, <3>2 DEF Carries
      <4> QED
        BY <1>10, <2>1, <4>1
    <3> QED
      BY <3>1, <3>2
  <2>2. CASE g \notin queue
    <3>1. g.type = "PUSH_EXECUTION" /\ g.index = index
      BY <1>8, <2>2 DEF Carries
    <3>2. q = r
      BY <1>9, <3>1 DEF Carries
    <3> QED
      BY <3>1, <3>2
  <2> QED
    BY <2>1, <2>2
<1>12. /\ \A q \in Requests : sess'[q].start = sess[q].start /\ sess'[q].stop = sess[q].stop
       /\ sess'[r].aucs = listed /\ sess'[r].end = end
       /\ \A q \in Requests : q # r =>
            /\ sess'[q].end = sess[q].end /\ sess'[q].aucs = sess[q].aucs
            /\ InTime(q)' => InTime(q)
            /\ Undisturbed(q)' => /\ Undisturbed(q)
                                  /\ ~(index \in DOMAIN requests /\ requests[index].req = q)
  BY <1>4 DEF SessionsAnswered, InTime, Undisturbed
<1>13. /\ \A i \in DOMAIN aucs : /\ i \in DOMAIN aucs' /\ aucs'[i].name = aucs[i].name
                                 /\ aucs'[i].state = aucs[i].state
       /\ \A i \in listed : Installed(i)'
       /\ S \subseteq Names(r)'
  BY <1>4, <1>12 DEF AuctionsAnswered, Installed, Names
<1> HIDE DEF Answered
<1>14. EventsTimed' /\ Begun'
  <2>1. \A g \in queue' :
          \/ \E f \in queue : Kept(f, g)
          \/ /\ g.type \notin {"CREATE_SESSION", "ACTIVATE_RESOURCE_REQUEST_INTERVAL",
                               "ADD_RESOURCE_REQUESTS"}
             /\ g.type \in Flights => g.at <= now
             /\ g.type \in Ends => ~(g.at <= now)
    BY <1>8, KeptItself DEF Flights, Ends
  <2> QED
    BY <1>3, <1>4, <1>12, <2>1, Punctual
<1>15. BidsCarried'
  <2>1. ASSUME NEW g \in queue' PROVE OfOne(g)'
    <3>1. CASE g \in queue
      <4>1. OfOne(g)
        BY <1>3, <3>1 DEF BidsCarried
      <4>2. ASSUME g.type = "ADD_GENERATED_BIDDING_OBJECTS", NEW k \in DOMAIN g.allocs,
                   NEW l \in DOMAIN g.allocs
            PROVE  g.allocs[k].req = g.allocs[l].req /\ number'[g.allocs[k].req] # NotAdded
        <5>1. g.allocs[k].req \in Requests
          BY <3>1, <4>2, FlightTypes
        <5> QED
          BY <1>9, <4>1, <4>2, <5>1 DEF OfOne
      <4> QED
        BY <1>4, <4>1, <4>2, Zenon DEF OfOne
    <3>2. CASE g \notin queue
      BY <1>8, <3>2 DEF OfOne
    <3> QED
      BY <3>1, <3>2
  <2>2. \A o \in DOMAIN objs' : number'[objs'[o].req] # NotAdded
    BY <1>3, <1>4, <1>9, <1>10, FlightTypes DEF BidsCarried
  <2>3. ASSUME NEW i \in DOMAIN requests'
        PROVE  (requests[i].aucs \subseteq Names(requests[i].req))'
    <3>1. CASE i = index
      BY <1>9, <1>13, <3>1
    <3>2. CASE i # index
      <4>1. i \in DOMAIN requests /\ requests'[i] = requests[i]
        BY <1>9, <3>2
      <4>2. PICK q \in Requests : q = requests[i].req /\ q # r
        BY <1>10, <4>1, FlightTypes
      <4>3. Names(q)' = Names(q)
        BY <1>12, <1>13, <4>2, NamesKept
      <4>4. requests[i].aucs \subseteq Names(q)
        BY <1>3, <4>1, <4>2 DEF BidsCarried
      <4> QED
        BY <4>1, <4>2, <4>3, <4>4
    <3> QED
      BY <3>1, <3>2
  <2> QED
    BY <2>1, <2>2, <2>3 DEF BidsCarried
<1>16. ASSUME Undisturbed(r)' PROVE Clear(r)' /\ OwnProcess(r)'
  <2>1. \A g \in queue' : g.type = "REMOVE_AUCTIONS" /\ g.at <= now => g.objs \cap listed = {}
    BY <1>4, <1>16 DEF SessionsAnswered, Undisturbed
  <2>2. ASSUME NEW g \in queue' PROVE Apart(g, r)'
    <3>1. g.at <= now => g.type \notin Ends
      BY <1>7, <1>8 DEF Ends
    <3>2. g.type = "REMOVE_BIDDING_OBJECTS" => \A o \in g.objs : objs'[o].req # r
      <4>1. g.type = "REMOVE_BIDDING_OBJECTS" => g \in queue /\ g.objs \subseteq DOMAIN objs
        BY <1>8, FlightTypes DEF BidLists
      <4> QED
        BY <1>4, <1>10, <4>1
    <3>3. g.type = "ADD_GENERATED_BIDDING_OBJECTS" =>
            \A k \in DOMAIN g.allocs : g.allocs[k].req # r
      <4>1. g.type = "ADD_GENERATED_BIDDING_OBJECTS" => g \in queue
        BY <1>8
      <4> QED
        BY <1>10, <4>1 DEF Carries
    <3> QED
      BY <1>4, <1>12, <2>1, <3>1, <3>2, <3>3 DEF Apart
  <2>3. Clear(r)'
    BY <1>4, <1>5, <1>6, <1>10, <1>12, <1>13, <2>2 DEF Clear
  <2>4. OwnProcess(r)'
    BY <1>9, <1>11 DEF OwnProcess
  <2> QED
    BY <2>3, <2>4
<1>17. InTime(r)' => Undisturbed(r)'
  BY <1>4 DEF SessionsAnswered, InTime, Undisturbed
<1>18. ASSUME NEW q \in Requests, q # r, Undisturbed(q)', OwnProcess(q)
       PROVE  /\ number[q] # index /\ number'[q] = number[q]
              /\ number[q] \in DOMAIN requests' /\ requests'[number[q]].req = q
  <2>1. number[q] \in DOMAIN requests /\ requests[number[q]].req = q
    BY <1>18 DEF OwnProcess
  <2>2. number[q] # index
    BY <1>12, <1>18, <2>1
  <2> QED
    BY <1>9, <1>18, <2>1, <2>2
<1>19. FlightsSafe'
  <2> SUFFICES ASSUME NEW q \in Requests, InTime(q)', Flying(q)'
               PROVE  Clear(q)' /\ (Undisturbed(q)' => OwnProcess(q)')
    BY DEF FlightsSafe
  <2>1. CASE q = r
    BY <1>16, <1>17, <2>1
  <2>2. CASE q # r
    <3>1. InTime(q) /\ Flying(q)
      BY <1>11, <1>12, <2>2 DEF Flying
    <3>2. Clear(q) /\ (Undisturbed(q) => OwnProcess(q))
      BY <1>3, <3>1 DEF FlightsSafe
    <3>3. ASSUME NEW g \in queue' PROVE (\E f \in queue : Kept(f, g)) \/ Apart(g, q)'
      <4>1. CASE g \in queue
        BY <4>1, KeptItself
      <4>2. CASE g \notin queue
        <5>1. sess'[q].aucs \subseteq DOMAIN aucs
          BY <1>12, <2>2, FlightTypes
        <5> QED
          BY <1>4, <1>8, <4>2, <5>1 DEF Apart, Ends
      <4> QED
        BY <4>1, <4>2
    <3>4. \A o \in DOMAIN objs' : objs'[o].req = q => objs'[o].auc \in Names(q) /\ Time < objs'[o].stop
      BY <1>4, <3>2 DEF Clear
    <3>5. Clear(q)'
      <4>1. \A i \in sess[q].aucs : aucs[i].state # "done" => aucs'[i].state # "done"
        BY <1>13, FlightTypes
      <4> QED
        BY <1>4, <1>12, <1>13, <2>2, <3>2, <3>3, <3>4, <4>1, ClearKept
    <3>6. ASSUME Undisturbed(q)' PROVE OwnProcess(q)'
      <4>1. OwnProcess(q)
        BY <1>12, <2>2, <3>2, <3>6
      <4>2. \A g \in queue' : Carries(g, q)' => g.index = number[q]
        BY <1>11, <2>2, <4>1 DEF OwnProcess
      <4> QED
        BY <1>18, <2>2, <3>6, <4>1, <4>2 DEF OwnProcess
    <3> QED
      BY <3>5, <3>6
  <2> QED
    BY <2>1, <2>2
<1>20. BidsFollow'
  <2> SUFFICES ASSUME NEW q \in Requests, Undisturbed(q)'
               PROVE  Delivered(q)' \/ (Flying(q)' /\ q \notin over')
    BY DEF BidsFollow
  <2>1. CASE q = r
    <3>1. r \notin over
      BY <1>9 DEF IInv, ProcessesInv, OverWasAdded
    <3>2. PICK g \in queue' : g.type = "PUSH_EXECUTION" /\ g.index = index
      BY <1>8
    <3>3. Carries(g, r)'
      BY <1>9, <3>2 DEF Carries
    <3> QED
      BY <1>9, <2>1, <3>1, <3>3 DEF Flying
  <2>2. CASE q # r
    <3>1. Undisturbed(q)
      BY <1>12, <2>2
    <3>2. CASE Delivered(q)
      BY <1>4, <3>2, DeliveredKept
    <3>3. CASE Flying(q) /\ q \notin over
      <4>1. PICK f \in queue : Carries(f, q)
        BY <3>3 DEF Flying
      <4>2. OwnProcess(q)
        BY <1>3, <3>1, <3>3 DEF FlightsSafe, InTime, Undisturbed
      <4>3. f \in queue' /\ f.index = number[q]
        <5>1. f # e /\ f.type # "REMOVE_AUCTIONS"
          BY <1>1, <4>1 DEF Carries
        <5> QED
          BY <1>8, <4>1, <4>2, <5>1 DEF OwnProcess
      <4>4. Carries(f, q)'
        <5>1. CASE f.type = "PUSH_EXECUTION"
          BY <1>18, <2>2, <4>2, <4>3, <5>1 DEF Carries
        <5>2. CASE f.type # "PUSH_EXECUTION"
          BY <1>4, <4>1, <5>2 DEF Carries
        <5> QED
          BY <5>1, <5>2
      <4> QED
        BY <1>9, <3>3, <4>3, <4>4 DEF Flying
    <3> QED
      BY <1>3, <3>1, <3>2, <3>3 DEF BidsFollow
  <2> QED
    BY <2>1, <2>2
<1>21. SentOverOwn'
  <2>1. \A s \in sent : s[1] \in DOMAIN objs
    BY DEF IInv, Types
  <2> SUFFICES ASSUME NEW s \in sent, Undisturbed(objs[s[1]].req)' PROVE objs[s[1]].req = s[2]
    BY <1>4 DEF SentOverOwn
  <2>2. PICK q \in Requests : q = objs[s[1]].req /\ q # r
    BY <1>10, <2>1, FlightTypes
  <2>3. Undisturbed(q)'
    BY <1>4, <2>2 DEF Undisturbed
  <2>4. Undisturbed(q)
    BY <1>12, <2>2, <2>3
  <2> QED
    BY <1>3, <2>2, <2>4 DEF SentOverOwn
<1>22. BidsHaveAuctions'
  <2>1. \A q \in Requests : InTime(q)' => InTime(q) \/ \A o \in DOMAIN objs : objs[o].req # q
    BY <1>10, <1>12
  <2>2. \A f \in queue : \A o : f.type = "REMOVE_BIDDING_OBJECTS" /\ o \in f.objs
                             /\ objs'[o].state # "done" =>
          \E g \in queue' : g.type = f.type /\ g.at = f.at /\ o \in g.objs
    BY <1>1, <1>8
  <2> QED
    BY <1>3, <1>4, <1>9, <2>1, <2>2, HeldKept
<1> QED
  BY <1>14, <1>15, <1>19, <1>20, <1>21, <1>22 DEF FInv

\* So an answer is: it comes as AnsweredFlies has it.
LEMMA ResponseFlies ==
  ASSUME IInv, FInv, NEW e \in queue, HandleResponseCreateSession(e)
  PROVE  FInv'
<1>1. Handling(e, "CREATE_SESSION")
  BY Zenon DEF HandleResponseCreateSession
<1>2. \E S, index, listed, end : Answered(e, S, index, listed, end)
  BY ResponseAnswers
<1> QED
  BY <1>1, <1>2, AnsweredFlies

\* Handler by handler.
LEMMA HandleEventFlies ==
  ASSUME IInv, IInv', FInv, NEW e \in queue, HandleEvent(e)
  PROVE  FInv'
<1>1. CASE HandleAddResourceRequests(e)
  BY <1>1, AddResourceRequestsFlies
<1>2. CASE HandleActivateInterval(e)
  BY <1>2, ActivateIntervalFlies
<1>3. CASE HandleConfigureSession(e)
  BY <1>3, ConfigureSessionFlies
<1>4. CASE HandleResponseCreateSession(e)
  BY <1>4, ResponseFlies
<1>5. CASE UseDeletedAuction(e)
  BY <1>5, UseDeletedFlies
<1>6. CASE HandlePushExecution(e)
  BY <1>6, PushExecutionFlies
<1>7. CASE HandleRemovePushExecution(e)
  BY <1>7, RemovePushExecutionFlies
<1>8. CASE HandleAddGeneratedBiddingObjects(e)
  BY <1>8, AddGeneratedFlies
<1>9. CASE HandleTransmitBiddingObjects(e)
  BY <1>9, TransmitFlies
<1>10. CASE HandleActivateBiddingObjects(e)
  BY <1>10, ActivateBiddingObjectsFlies
<1>11. CASE HandleRemoveBiddingObjects(e)
  BY <1>11, RemoveBiddingObjectsFlies
<1>12. CASE HandleAuctioningInteraction(e)
  BY <1>12, InteractionFlies
<1>13. CASE HandleActivateAuctions(e)
  BY <1>13, ActivateAuctionsFlies
<1>14. CASE HandleRemoveAuctions(e)
  BY <1>14, RemoveAuctionsFlies
<1>15. CASE HandleRemoveInterval(e)
  BY <1>15, RemoveIntervalFlies
<1> QED
  BY <1>1, <1>2, <1>3, <1>4, <1>5, <1>6, <1>7, <1>8, <1>9, <1>10, <1>11, <1>12, <1>13,
     <1>14, <1>15 DEF HandleEvent

\* Nothing changes.
LEMMA StutterFlies ==
  ASSUME IInv, FInv, UNCHANGED vars
  PROVE  FInv'
<1>1. UNCHANGED <<now, queue, aucs, objs, sess, net, files, up, sent, processes>>
  BY DEF vars
<1>2. \A g \in queue' : \E f \in queue : Kept(f, g)
  BY <1>1, KeptItself
<1>3. EventsTimed' /\ Begun'
  BY <1>1, <1>2, Punctual DEF FInv
<1> QED
  BY <1>1, <1>2, <1>3, CalmStep

\* Nothing is on its way at the start.
LEMMA InitFlies == Init => FInv
<1> SUFFICES ASSUME Init PROVE FInv
  OBVIOUS
<1>1. /\ queue = {} /\ objs = <<>> /\ sent = {} /\ requests = <<>>
      /\ \A r \in Requests : net[r] = "idle" /\ sess[r] = NoSession
  BY Zenon DEF Init, ProcessesInit
<1>2. /\ \A r : ~Flying(r)
      /\ \A r \in Requests : ~Undisturbed(r)
  <2>1. NoSession.answer # "in time"
    BY DEF NoSession
  <2> QED
    BY <1>1, <2>1 DEF Flying, Undisturbed
<1>3. EventsTimed /\ Begun
  BY <1>1 DEF EventsTimed, Begun
<1>4. BidsCarried
  BY <1>1 DEF BidsCarried
<1>5. FlightsSafe /\ BidsFollow
  BY <1>2 DEF FlightsSafe, BidsFollow
<1>6. SentOverOwn /\ BidsHaveAuctions
  BY <1>1 DEF SentOverOwn, BidsHaveAuctions
<1> QED
  BY <1>3, <1>4, <1>5, <1>6 DEF FInv

\* With answers that come before their interval's end, the bids of one that came in
\* time are safe on their way.
LEMMA NextFlies ==
  ASSUME MaxLate = 0, IInv, FInv, [Next]_vars
  PROVE  IInv' /\ FInv'
<1>1. IInv'
  BY NextAgent
<1>2. ASSUME NEW e \in queue, HandleEvent(e) PROVE FInv'
  BY <1>1, <1>2, HandleEventFlies
<1>3. ASSUME NEW F \in files, File(F) PROVE FInv'
  BY <1>3, FileFlies
<1>4. ASSUME NEW r \in Requests, Configure(r) PROVE FInv'
  BY <1>4, ConfigureFlies
<1>5. ASSUME NEW r \in Requests, NEW list \in Answers, Answer(r, list) PROVE FInv'
  BY <1>5, AnswerFlies
<1>6. ASSUME NEW o \in DOMAIN objs, Allocate(o) PROVE FInv'
  BY <1>6, AllocateFlies
<1>7. CASE Tick
  BY <1>1, <1>7, TickFlies
<1>8. CASE Stopped
  <2>1. UNCHANGED vars
    BY <1>8, Zenon DEF Stopped
  <2> QED
    BY <1>1, <2>1, StutterFlies
<1>9. CASE UNCHANGED vars
  BY <1>1, <1>9, StutterFlies
<1> QED
  BY <1>1, <1>2, <1>3, <1>4, <1>5, <1>6, <1>7, <1>8, <1>9 DEF Next

\* So they are in every behaviour.
LEMMA FlightInvariant == ASSUME MaxLate = 0 PROVE Spec => [](IInv /\ FInv)
<1>1. Init => IInv /\ FInv
  BY InitAgent, InitFlies
<1>2. IInv /\ FInv /\ [Next]_vars => (IInv /\ FInv)'
  BY NextFlies
<1> QED
  BY <1>1, <1>2, PTL DEF Spec

\* When every answer comes before the end of its interval, a bid of an interval that
\* was answered in time competes in an auction the agent holds, or its removal is
\* due (handleRemoveAuctions, handleAddGeneratedBiddingObjects).
THEOREM BidsKeepAuctions == ASSUME MaxLate = 0 PROVE Spec => []BidsHaveAuctions
<1>1. FInv => BidsHaveAuctions
  BY DEF FInv
<1> QED
  BY <1>1, FlightInvariant, PTL

\* Then the bids of an answer in time go to their auctioneers over the session of
\* their own interval, whatever numbers processes get meanwhile, unless their own is
\* given out again, and their auctions are there to give the address
\* (handleTransmitBiddingObjects).
THEOREM TransmissionsStayOwn == ASSUME MaxLate = 0 PROVE Spec => []TransmissionsOwn
<1>1. IInv /\ FInv => TransmissionsOwn
  <2> SUFFICES ASSUME IInv, FInv PROVE TransmissionsOwn
    OBVIOUS
  <2>1. ASSUME NEW e \in queue, e.type = "TRANSMIT_BIDDING_OBJECTS", NEW o \in e.objs,
               InTime(objs[o].req)
        PROVE  objs[o].auc \in present
    <3>1. o \in DOMAIN objs
      BY <2>1, FlightTypes DEF BidLists
    <3>2. PICK r \in Requests : r = objs[o].req
      BY <3>1, FlightTypes
    <3>3. Flying(r)
      BY <2>1, <3>2 DEF Flying, Carries
    <3>4. Clear(r)
      BY <2>1, <3>2, <3>3 DEF FInv, FlightsSafe
    <3>5. PICK i \in sess[r].aucs : Installed(i) /\ aucs[i].name = objs[o].auc
      BY <3>1, <3>2, <3>4 DEF Clear, Names
    <3> QED
      BY <3>5 DEF IInv, OneAuctionPerName, Installed
  <2> QED
    BY <2>1 DEF FInv, TransmissionsOwn, Addressed, Pending
<1> QED
  BY <1>1, FlightInvariant, PTL

\* And an answer in time leads to bids: by whichever of its three ends a process
\* ends, it was executed and its bids were sent, unless its number was given out
\* again or the bid with number 0 was removed meanwhile
\* (handlePushExecution, handleRemoveBiddingObjects).
THEOREM BidsBeforeProcessEnds == ASSUME MaxLate = 0 PROVE Spec => []BidsBeforeEnd
<1>1. IInv /\ FInv => BidsBeforeEnd
  <2> SUFFICES ASSUME IInv, FInv, NEW r \in over, Undisturbed(r)
               PROVE  \/ \E s \in sent : objs[s[1]].req = r
                      \/ 1 \in DOMAIN objs /\ objs[1].state = "done" /\ objs[1].req # r
    BY DEF BidsBeforeEnd
  <2>1. r \in Requests
    BY DEF IInv, ProcessesInv, ProcessesTypeOK
  <2> QED
    BY <2>1 DEF FInv, BidsFollow, Delivered, Lost
<1> QED
  BY <1>1, FlightInvariant, PTL

=============================================================================
