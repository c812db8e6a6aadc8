---------------------------- MODULE AgentProcessor ----------------------------
(***************************************************************************)
(* The agent's request processes.  For an interval of a resource request   *)
(* the agent adds a request process over the auctions that may serve it,   *)
(* and keeps its number in three places: the interval, the event that      *)
(* executes it and the event that removes it.  The process goes when the   *)
(* interval is removed, when its event comes, or when it has no auction    *)
(* left, whichever is first; the other places keep the number.             *)
(*   source   - idSource(0)                                                *)
(*   requests - the map from numbers to request processes                  *)
(*   number   - the number the agent keeps of each request                 *)
(*   calls    - the calls of delRequest that are still to come for it      *)
(*   present  - the auctions the agent's manager holds                     *)
(*   over     - history: the requests that have ended                      *)
(***************************************************************************)
EXTENDS IdSource, FiniteSets

CONSTANTS
  Requests,  \* requests to come; one per interval and module
  Auctions,  \* the auctions the agent may be told of
  NotAdded,  \* the number of a request that has not come
  MaxActive  \* bound: requests that are active at a time

ASSUME AgentAssumption ==
  /\ IsFiniteSet(Requests)
  /\ NotAdded \notin Nat
  /\ MaxActive \in Nat

VARIABLES source, requests, number, calls, present, over

processes == <<source, requests, number, calls, present, over>>

\* The processes in the table, one per number.
Process == [req : Requests, aucs : SUBSET Auctions]

\* Who deletes a request: the end of its interval, and RemovePushExecution.
Deleters == {"interval", "event"}

Active == {r \in Requests : number[r] # NotAdded /\ r \notin over}

-----------------------------------------------------------------------------
ProcessesInit ==
  /\ source = NewSource
  /\ requests = <<>>
  /\ number = [r \in Requests |-> NotAdded]
  /\ calls = [r \in Requests |-> {}]
  /\ present = {}
  /\ over = {}

\* The auctions of a request: createProcessRequests adds the first with the
\* request and the others right after it.
AuctionsToServe == {S \in SUBSET Auctions : S # {}}

\* createAuctions brings the auctions of the request that are new into the
\* manager; then the request is added.
\* requests[index] = reqProcess: what is there is overwritten.  A module that
\* cannot be loaded throws before newId and changes nothing.
AddRequest(r, S) ==
  LET index == NewId(source)
  IN /\ number[r] = NotAdded
     /\ S \in AuctionsToServe
     /\ Cardinality(Active) < MaxActive
     /\ source' = AfterNewId(source)
     /\ requests' = [i \in DOMAIN requests \cup {index} |->
                       IF i = index THEN [req |-> r, aucs |-> S] ELSE requests[i]]
     /\ number' = [number EXCEPT ![r] = index]
     /\ calls' = [calls EXCEPT ![r] = Deleters]
     /\ present' = present \cup S
     /\ UNCHANGED over

\* Mutant: the processes stay in the table.
ErasedNothing(S) == requests

Erased(S) == [i \in DOMAIN requests \ S |-> requests[i]]

\* A number that is not in the table is only logged.
DelRequest(r, d) ==
  LET found == {number[r]} \cap DOMAIN requests
  IN /\ d \in calls[r]
     /\ calls' = [calls EXCEPT ![r] = @ \ {d}]
     /\ requests' = Erased(found)
     /\ source' = IF found = {} THEN source ELSE AfterFreeIds(source, <<number[r]>>)
     /\ over' = over \cup {r}
     /\ UNCHANGED <<number, present>>

\* The numbers of S from the smallest to the largest, as the map has them.
InMapOrder(S) ==
  {f \in [1 .. Cardinality(S) -> S] : \A k, l \in DOMAIN f : k < l => f[k] < f[l]}

\* Mutant: the processes without auctions stay.
EmptiedNever(S) == {}

\* The processes that lose their last auction with S.
Emptied(S) == {i \in DOMAIN requests : requests[i].aucs \subseteq S}

\* Auctions end: handleRemoveAuctions takes them out of every process and
\* then out of the manager.
DelAuctions(S) ==
  /\ S \subseteq present /\ S # {}
  /\ \E ids \in InMapOrder(Emptied(S)) : source' = AfterFreeIds(source, ids)
  /\ requests' = [i \in DOMAIN Erased(Emptied(S)) |->
                    [requests[i] EXCEPT !.aucs = @ \ S]]
  /\ present' = present \ S
  /\ over' = over \cup {requests[i].req : i \in Emptied(S)}
  /\ UNCHANGED <<number, calls>>

ProcessesNext ==
  \/ \E r \in Requests, S \in SUBSET Auctions : AddRequest(r, S)
  \/ \E r \in Requests, d \in Deleters : DelRequest(r, d)
  \/ \E S \in SUBSET Auctions : DelAuctions(S)

ProcessesSpec == ProcessesInit /\ [][ProcessesNext]_processes

-----------------------------------------------------------------------------
(***************************************************************************)
(* Properties.                                                             *)
(***************************************************************************)

\* The types of the fields, and a delRequest still to come only for a request
\* that was added.
ProcessesTypeOK ==
  /\ source \in SourceType
  /\ DOMAIN requests \subseteq Numbers
  /\ \A i \in DOMAIN requests : requests[i] \in Process
  /\ number \in [Requests -> Numbers \cup {NotAdded}]
  /\ calls \in [Requests -> SUBSET Deleters]
  /\ \A r \in Requests : number[r] = NotAdded => calls[r] = {}
  /\ present \subseteq Auctions
  /\ over \subseteq Requests

\* A number in the list of freed ones is there once and is not in the table,
\* although deletions come twice for a request: newId hands out no number
\* twice from the list.
FreeListSound ==
  \A k \in DOMAIN source.free :
    /\ source.free[k] \notin DOMAIN requests
    /\ \A l \in DOMAIN source.free : source.free[l] = source.free[k] => l = k

\* A process has auctions, and all of them exist: execute_user is never given
\* an auction that was deleted.
ProcessesHaveAuctions ==
  \A i \in DOMAIN requests : requests[i].aucs # {} /\ requests[i].aucs \subseteq present

\* A request that has ended is not in the table: no execution bids for it.
OverIsGone == \A i \in DOMAIN requests : requests[i].req \notin over

\* As IdSource.h and AgentProcessor.h have it: requests that are active have
\* numbers of their own.
NumbersUnique ==
  \A r, q \in Active : number[r] = number[q] => r = q

=============================================================================
