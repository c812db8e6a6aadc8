----------------------- MODULE ControlConnection_proofs -----------------------
(***************************************************************************)
(* The event loop of a daemon, for every number of connections, every      *)
(* limit and whatever clients and signals do.  The scheduler is asked once *)
(* a pass and the head of the queue is taken in another; what lies between *)
(* them is the byte in the pipe.                                           *)
(***************************************************************************)
EXTENDS ControlConnection, EventQueue_proofs, TLAPS

\* An event has a time and a rank; what is executed again has an interval.
QueueTimed ==
  \A e \in queue :
    /\ {"at", "rank", "ival", "freed", "type"} \subseteq DOMAIN e
    /\ e.at \in Int /\ e.rank \in Nat
    /\ e.type = "CTRLCOMM_TIMER" => e.ival \in Nat

Dumped == "D" \in scene.signals \ signals

\* A byte stands for a signal that has come, or for the head of the queue: then no
\* other 'A' is read before it, unless the daemon stops first, and the head is due.
PipeMeans ==
  /\ pipe \in Seq({"A", "S", "D"})
  /\ \A k \in DOMAIN pipe : pipe[k] # "A" => pipe[k] \in scene.signals \ signals
  /\ \A k \in DOMAIN pipe :
       pipe[k] = "A" =>
         \/ Dumped \/ pc \in {"stopped", "ended"}
         \/ \E j \in 1 .. k - 1 : pipe[j] = "S"
         \/ k = 1 /\ Due /\ (pc = "select" \/ \E j \in DOMAIN pipe : pipe[j] = "S")

IInv ==
  /\ QueueTimed /\ PipeMeans
  /\ scene \in Scenes /\ signals \subseteq scene.signals
  /\ pc \in {"top", "select", "stopped", "ended"}
  /\ EventsOnTime

-----------------------------------------------------------------------------
\* The order of the queue has one head.
LEMMA OneHead ==
  ASSUME QueueTimed, NEW e, NEW f, IsHead(queue, e), IsHead(queue, f)
  PROVE  e = f
BY DEF QueueTimed, IsHead, Before

\* What is added with a time and a rank leaves the queue timed.
LEMMA EnqueueTimed ==
  ASSUME NEW q, NEW S,
         \A e \in q \cup S :
           /\ {"at", "rank", "ival", "freed", "type"} \subseteq DOMAIN e
           /\ e.at \in Int /\ e.rank \in Nat
           /\ e.type = "CTRLCOMM_TIMER" => e.ival \in Nat,
         queue' = Enqueue(q, S)
  PROVE  QueueTimed'
<1> SUFFICES ASSUME NEW e \in queue'
             PROVE  /\ {"at", "rank", "ival", "freed", "type"} \subseteq DOMAIN e
                    /\ e.at \in Int /\ e.rank \in Nat
                    /\ e.type = "CTRLCOMM_TIMER" => e.ival \in Nat
  BY DEF QueueTimed
<1>1. CASE e \in q
  BY <1>1
<1>2. CASE \E f \in S : e = Ranked(f, LastRank(q, f.at) + f.rank)
  <2>1. PICK f \in S : e = Ranked(f, LastRank(q, f.at) + f.rank)
    BY <1>2
  <2>2. LastRank(q, f.at) \in Nat
    BY LastRankNat
  <2>3. LastRank(q, f.at) + f.rank \in Nat
    BY <2>2
  <2>. DEFINE r == LastRank(q, f.at) + f.rank
  <2>4. e = [f EXCEPT !.rank = r]
    BY <2>1 DEF Ranked
  <2>. HIDE DEF r
  <2>5. r \in Nat
    BY <2>3 DEF r
  <2>. QED
    BY <2>4, <2>5
<1>3. QED
  BY <1>1, <1>2, EnqueueMembers

\* Commands are due at once.
LEMMA EventsTimed ==
  ASSUME NEW back, NEW e \in Events(back)
  PROVE  /\ {"at", "rank", "ival", "freed", "type"} \subseteq DOMAIN e
         /\ e.at \in Int /\ e.rank \in Nat
         /\ e.type = "CTRLCOMM_TIMER" => e.ival \in Nat
BY DEF Events

\* Serving connections leaves the queue timed.
LEMMA HandleFDEventTimed ==
  ASSUME NEW w, NEW cs, NEW n, NEW room, NEW ready, NEW q,
         \A e \in q :
           /\ {"at", "rank", "ival", "freed", "type"} \subseteq DOMAIN e
           /\ e.at \in Int /\ e.rank \in Nat
           /\ e.type = "CTRLCOMM_TIMER" => e.ival \in Nat,
         HandleFDEvent(w, cs, n, room, ready, q)
  PROVE  QueueTimed'
<1>1. PICK s : queue' = Enqueue(q, Events(s.back))
  BY DEF HandleFDEvent
<1>. QED
  BY <1>1, EventsTimed, EnqueueTimed

-----------------------------------------------------------------------------
LEMMA InitIInv == Init => IInv
<1> SUFFICES ASSUME Init
             PROVE  IInv
  OBVIOUS
<1>1. QueueTimed
  <2>. DEFINE S == {[at |-> TimerPeriod, rank |-> 1, ival |-> TimerPeriod,
                     type |-> "CTRLCOMM_TIMER", freed |-> FALSE]}
                   \cup {[at |-> t, rank |-> 2, ival |-> 0, type |-> "OTHER",
                          freed |-> FALSE] : t \in Works}
  <2>1. queue = Enqueue({}, S)
    BY DEF Init
  <2>2. \A e \in S :
          /\ {"at", "rank", "ival", "freed", "type"} \subseteq DOMAIN e
          /\ e.at \in Nat /\ e.rank \in Nat
          /\ e.type = "CTRLCOMM_TIMER" => e.ival \in Nat
    BY ControlAssumption
  <2>3. LastRank({}, 0) = LastRank({}, 0)
    OBVIOUS
  <2>4. \A e \in S : LastRank({}, e.at) \in Nat
    BY LastRankNat
  <2>. HIDE DEF S
  <2>5. ASSUME NEW e \in queue
        PROVE  /\ {"at", "rank", "ival", "freed", "type"} \subseteq DOMAIN e
               /\ e.at \in Int /\ e.rank \in Nat
               /\ e.type = "CTRLCOMM_TIMER" => e.ival \in Nat
    <3>1. PICK f \in S : e = Ranked(f, LastRank({}, f.at) + f.rank)
      BY <2>1, EnqueueMembers
    <3>. DEFINE r == LastRank({}, f.at) + f.rank
    <3>2. r \in Nat
      BY <2>2, <2>4
    <3>3. e = [f EXCEPT !.rank = r]
      BY <3>1 DEF Ranked
    <3>. HIDE DEF r
    <3>. QED
      BY <2>2, <3>2, <3>3
  <2>. QED
    BY <2>5 DEF QueueTimed
<1>2. PipeMeans
  BY DEF Init, PipeMeans
<1>. QED
  BY <1>1, <1>2 DEF Init, IInv, EventsOnTime

\* Whatever the daemon does with the queue, its events keep their times.
LEMMA NextQueueTimed ==
  ASSUME QueueTimed, [Next]_vars
  PROVE  QueueTimed'
<1>1. CASE UNCHANGED queue
  BY <1>1 DEF QueueTimed
<1>2. ASSUME NEW e \in queue, HandleTimer(e)
      PROVE  QueueTimed'
  <2>. DEFINE next == [e EXCEPT !.at = IF 0 - (e.at + e.ival * Frac) >= Frac THEN 0
                                       ELSE e.at + e.ival * Frac, !.rank = 1]
              rest == queue \ {e}
              q == Reschedule(rest, e, 0)
  <2>1. PICK n, room : HandleFDEvent(web, conns, n, room, [c \in Conns |-> {}], q)
    BY <1>2 DEF HandleTimer
  <2>2. q = Enqueue(rest, {next})
    BY DEF Reschedule
  <2>3. e.at + e.ival * Frac \in Int
    <3>1. e.at \in Int /\ e.ival \in Nat
      BY <1>2 DEF QueueTimed, HandleTimer
    <3>. QED
      BY <3>1, FracAssumption
  <2>4. /\ {"at", "rank", "ival", "freed", "type"} \subseteq DOMAIN next
        /\ next.at \in Int /\ next.rank \in Nat /\ next.type = e.type /\ next.ival = e.ival
    BY <2>3 DEF QueueTimed
  <2>. HIDE DEF next
  <2>5. ASSUME NEW f \in q
        PROVE  /\ {"at", "rank", "ival", "freed", "type"} \subseteq DOMAIN f
               /\ f.at \in Int /\ f.rank \in Nat
               /\ f.type = "CTRLCOMM_TIMER" => f.ival \in Nat
    <3>1. CASE f \in rest
      BY <3>1 DEF QueueTimed
    <3>2. CASE f = Ranked(next, LastRank(rest, next.at) + next.rank)
      <4>. DEFINE r == LastRank(rest, next.at) + next.rank
      <4>1. LastRank(rest, next.at) \in Nat
        BY LastRankNat DEF QueueTimed
      <4>2. r \in Nat
        BY <2>4, <4>1
      <4>3. f = [next EXCEPT !.rank = r]
        BY <3>2 DEF Ranked
      <4>. HIDE DEF r
      <4>4. e.type = "CTRLCOMM_TIMER" => e.ival \in Nat
        BY DEF QueueTimed
      <4>. QED
        BY <2>4, <4>2, <4>3, <4>4
    <3>. QED
      BY <2>2, <3>1, <3>2, EnqueueMembers
  <2>. HIDE DEF q
  <2>. QED
    BY <2>1, <2>5, HandleFDEventTimed
<1>3. ASSUME NEW e \in queue, HandleGetInfo(e) \/ HandleAdd(e)
      PROVE  QueueTimed'
  <2>1. Deleted(e)
    BY <1>3 DEF HandleGetInfo, HandleAdd
  <2>2. ASSUME NEW k
        PROVE  LET f == [e EXCEPT !.copies = e.copies - 1, !.freed = TRUE]
               IN  /\ {"at", "rank", "ival", "freed", "type"} \subseteq DOMAIN f
                   /\ f.at = e.at /\ f.rank = e.rank /\ f.ival = e.ival /\ f.type = e.type
    BY DEF QueueTimed
  <2>. QED
    BY <2>1, <2>2 DEF Deleted, QueueTimed
<1>4. ASSUME NEW e \in queue, HandleOther(e)
      PROVE  QueueTimed'
  BY <1>4 DEF HandleOther, QueueTimed
<1>5. CASE ServeConnections
  <2>1. PICK w, cs, n, room, ready : HandleFDEvent(w, cs, n, room, ready, queue)
    BY <1>5 DEF ServeConnections
  <2>. QED
    BY <2>1, HandleFDEventTimed DEF QueueTimed
<1>6. CASE Tick
  <2>1. queue' = {[e EXCEPT !.at = @ - 1] : e \in queue}
    BY <1>6 DEF Tick
  <2>. QED
    BY <2>1 DEF QueueTimed
<1>7. ASSUME NEW e \in queue, HandleFreed(e)
      PROVE  UNCHANGED queue
  BY <1>7 DEF HandleFreed
<1>8. CASE Schedule \/ Dump \/ Stop \/ Idle \/ Shutdown
  BY <1>1, <1>8 DEF Schedule, Dump, Stop, Idle, Shutdown
<1>9. CASE Clients \/ (\E b \in {"S", "D"} : Signal(b)) \/ Ended \/ UNCHANGED vars
  BY <1>1, <1>9 DEF Clients, Client, Connect, Send, Quit, Signal, Ended, vars
<1>. QED
  BY <1>1, <1>2, <1>3, <1>4, <1>5, <1>6, <1>7, <1>8, <1>9 DEF Next, Loop, HandleHead

-----------------------------------------------------------------------------
\* A byte that is read has its meaning before, and those behind it keep theirs.
LEMMA ReadMeans ==
  ASSUME IInv, NEW b \in {"A", "S", "D"}, Read(b), pc' \in {"top", "stopped"},
         b = "S" => pc' = "stopped"
  PROVE  PipeMeans' /\ (b = "A" => Dumped \/ Due) /\ (Dumped' <=> Dumped)
<1>1. /\ pipe # <<>> /\ Head(pipe) = b /\ pipe' = Tail(pipe) /\ pc = "select"
      /\ UNCHANGED <<scene, signals>>
  BY DEF Read
<1>2. pipe \in Seq({"A", "S", "D"})
  BY DEF IInv, PipeMeans
<1>3. /\ pipe' \in Seq({"A", "S", "D"})
      /\ \A k \in DOMAIN pipe' : k \in Nat \ {0} /\ k + 1 \in DOMAIN pipe /\ pipe'[k] = pipe[k + 1]
      /\ 1 \in DOMAIN pipe /\ pipe[1] = b
  BY <1>1, <1>2
<1>4. Dumped' <=> Dumped
  BY <1>1 DEF Dumped
<1>5. b = "A" => Dumped \/ Due
  BY <1>1, <1>3 DEF IInv, PipeMeans
<1>6. b = "D" => Dumped
  BY <1>3 DEF IInv, PipeMeans, Dumped
<1>7. ASSUME NEW k \in DOMAIN pipe', pipe'[k] = "A", ~Dumped, pc' # "stopped"
      PROVE  \E j \in 1 .. k - 1 : pipe'[j] = "S"
  <2>1. PICK j \in 1 .. k : pipe[j] = "S"
    BY <1>1, <1>3, <1>7 DEF IInv, PipeMeans
  <2>2. j # 1
    BY <1>3, <1>7, <2>1
  <2>3. j - 1 \in 1 .. k - 1 /\ j - 1 \in DOMAIN pipe'
    BY <1>3, <2>2
  <2>. QED
    BY <1>3, <2>1, <2>3
<1>8. \A k \in DOMAIN pipe' : pipe'[k] # "A" => pipe'[k] \in (scene.signals \ signals)'
  BY <1>1, <1>3 DEF IInv, PipeMeans
<1>. QED
  BY <1>3, <1>4, <1>5, <1>7, <1>8 DEF PipeMeans

\* A step that neither reads nor writes the pipe, and does not stop the loop or
\* let the head of the queue go, keeps what it means.
LEMMA PipeUntouched ==
  ASSUME PipeMeans, UNCHANGED <<pipe, scene, signals>>,
         Due => Due' \/ pipe = <<>>,
         \/ pc' = pc \/ pipe = <<>> \/ pc' \in {"stopped", "ended"}
  PROVE  PipeMeans'
<1>1. Dumped' <=> Dumped
  BY DEF Dumped
<1>2. CASE pipe = <<>>
  BY <1>2 DEF PipeMeans
<1>3. CASE pipe # <<>>
  BY <1>1, <1>3 DEF PipeMeans
<1>. QED
  BY <1>2, <1>3

\* The scheduler's byte means that the head is due; one behind the byte of a SIGINT
\* is never read.
LEMMA ScheduleMeans ==
  ASSUME IInv, Schedule
  PROVE  PipeMeans'
<1>1. /\ pc = "top" /\ pc' = "select" /\ UNCHANGED <<queue, scene, signals>>
      /\ pipe' = IF Due THEN Append(pipe, "A") ELSE pipe
  BY DEF Schedule
<1>2. (Due' <=> Due) /\ (Dumped' <=> Dumped)
  BY <1>1 DEF Due, Dumped, IsHead
<1>3. pipe \in Seq({"A", "S", "D"})
  BY DEF IInv, PipeMeans
<1>4. /\ pipe' \in Seq({"A", "S", "D"}) /\ DOMAIN pipe \subseteq DOMAIN pipe'
      /\ \A k \in DOMAIN pipe' : k \in DOMAIN pipe \/ (k = Len(pipe) + 1 /\ pipe'[k] = "A" /\ Due)
      /\ \A k \in DOMAIN pipe : pipe'[k] = pipe[k]
  BY <1>1, <1>3
<1>5. ASSUME NEW k \in DOMAIN pipe', pipe'[k] = "A", ~Dumped
      PROVE  \/ \E j \in 1 .. k - 1 : pipe'[j] = "S"
             \/ k = 1 /\ Due
  <2>1. CASE k \in DOMAIN pipe
    <3>1. 1 .. k - 1 \subseteq DOMAIN pipe
      BY <1>3, <2>1
    <3>. QED
      BY <1>1, <1>4, <1>5, <2>1, <3>1 DEF IInv, PipeMeans
  <2>2. CASE k = Len(pipe) + 1 /\ Due
    <3>1. CASE pipe = <<>>
      BY <2>2, <3>1
    <3>2. CASE pipe # <<>>
      <4>1. 1 \in DOMAIN pipe /\ DOMAIN pipe = 1 .. k - 1
        BY <1>3, <2>2, <3>2
      <4>2. pipe[1] \in {"A", "S"}
        BY <1>3, <1>5, <4>1 DEF IInv, PipeMeans, Dumped
      <4>3. \E j \in DOMAIN pipe : pipe[j] = "S"
        BY <1>1, <1>5, <4>1, <4>2 DEF IInv, PipeMeans
      <4>. QED
        BY <1>4, <4>1, <4>3
    <3>. QED
      BY <3>1, <3>2
  <2>. QED
    BY <1>4, <2>1, <2>2
<1>6. \A k \in DOMAIN pipe' : pipe'[k] # "A" => pipe'[k] \in (scene.signals \ signals)'
  BY <1>1, <1>4 DEF IInv, PipeMeans
<1>. QED
  BY <1>1, <1>2, <1>4, <1>5, <1>6 DEF PipeMeans

\* A signal comes behind what is in the pipe, and may send the loop to its top.
LEMMA SignalMeans ==
  ASSUME IInv, NEW b \in {"S", "D"}, Signal(b)
  PROVE  PipeMeans' /\ signals' \subseteq scene.signals /\ (Dumped => Dumped')
<1>1. /\ b \in signals /\ signals' = signals \ {b} /\ pipe' = Append(pipe, b)
      /\ pc' \in {pc, "top"} /\ pc \in {"top", "select"} /\ UNCHANGED <<queue, scene>>
  BY DEF Signal
<1>2. Due' <=> Due
  BY <1>1 DEF Due, IsHead
<1>3. signals' \subseteq scene.signals /\ scene.signals \ signals \subseteq (scene.signals \ signals)'
      /\ b \in (scene.signals \ signals)'
  BY <1>1 DEF IInv
<1>4. /\ pipe' \in Seq({"A", "S", "D"}) /\ DOMAIN pipe \subseteq DOMAIN pipe'
      /\ \A k \in DOMAIN pipe' : k \in DOMAIN pipe \/ (k = Len(pipe) + 1 /\ pipe'[k] = b)
      /\ \A k \in DOMAIN pipe : pipe'[k] = pipe[k] /\ 1 .. k - 1 \subseteq DOMAIN pipe
      /\ \E k \in DOMAIN pipe' : pipe'[k] = b
  <2>1. pipe \in Seq({"A", "S", "D"})
    BY DEF IInv, PipeMeans
  <2>2. Len(pipe) + 1 \in DOMAIN pipe' /\ pipe'[Len(pipe) + 1] = b
    BY <1>1, <2>1
  <2>. QED
    BY <1>1, <2>1, <2>2
<1>5. ASSUME NEW k \in DOMAIN pipe, pipe[k] = "A", ~Dumped'
      PROVE  \/ \E j \in 1 .. k - 1 : pipe'[j] = "S"
             \/ k = 1 /\ Due /\ \E j \in DOMAIN pipe' : pipe'[j] = "S"
  <2>1. b = "S" /\ ~Dumped
    BY <1>3, <1>5 DEF Dumped
  <2>. QED
    BY <1>1, <1>4, <1>5, <2>1 DEF IInv, PipeMeans
<1>6. \A k \in DOMAIN pipe' : pipe'[k] # "A" => pipe'[k] \in (scene.signals \ signals)'
  BY <1>3, <1>4 DEF IInv, PipeMeans
<1>7. \A k \in DOMAIN pipe' : pipe'[k] = "A" => k \in DOMAIN pipe /\ pipe[k] = "A"
  BY <1>4
<1>. QED
  BY <1>2, <1>3, <1>4, <1>5, <1>6, <1>7 DEF PipeMeans, Dumped

-----------------------------------------------------------------------------
\* The head that is taken is the head that was due.
LEMMA TakenOnTime ==
  ASSUME IInv, NEW e \in queue, TakeHead(e), UNCHANGED <<scene, signals>>
  PROVE  PipeMeans' /\ EventsOnTime'
<1>1. Read("A") /\ pc' = "top" /\ IsHead(queue, e) /\ early' = (early \/ e.at > 0)
  BY DEF TakeHead
<1>2. PipeMeans' /\ (Dumped \/ Due)
  BY <1>1, ReadMeans
<1>3. Due => e.at <= 0
  BY <1>1, OneHead DEF Due, IInv
<1>4. e.at \in Int
  BY DEF IInv, QueueTimed
<1>5. e.at > 0 => Dumped
  BY <1>2, <1>3, <1>4
<1>6. early' => early \/ Dumped
  BY <1>1, <1>5, Zenon
<1>. QED
  BY <1>2, <1>6 DEF IInv, EventsOnTime, Dumped

LEMMA NextIInv == IInv /\ [Next]_vars => IInv'
<1> SUFFICES ASSUME IInv, [Next]_vars
             PROVE  IInv'
  OBVIOUS
<1>1. QueueTimed'
  BY NextQueueTimed DEF IInv
<1>2. CASE Schedule
  <2>1. PipeMeans'
    BY <1>2, ScheduleMeans
  <2>2. UNCHANGED <<scene, signals, early>> /\ pc' = "select"
    BY <1>2 DEF Schedule
  <2>. QED
    BY <1>1, <2>1, <2>2 DEF IInv, EventsOnTime
<1>3. ASSUME NEW e \in queue, HandleHead(e)
      PROVE  IInv'
  <2>1. TakeHead(e)
    BY <1>3 DEF HandleHead, HandleTimer, HandleGetInfo, HandleAdd, HandleFreed, HandleOther
  <2>2. pc' = "top" /\ UNCHANGED <<scene, signals>>
    BY <2>1 DEF TakeHead, Read
  <2>3. PipeMeans' /\ EventsOnTime'
    BY <2>1, <2>2, TakenOnTime
  <2>. QED
    BY <1>1, <2>2, <2>3 DEF IInv
<1>4. CASE Dump \/ Stop
  <2>1. PipeMeans'
    BY <1>4, ReadMeans DEF Dump, Stop
  <2>. QED
    BY <1>1, <1>4, <2>1 DEF Dump, Stop, Read, IInv, EventsOnTime
<1>5. CASE ServeConnections \/ Idle
  <2>1. PipeMeans'
    BY <1>5, PipeUntouched DEF ServeConnections, Idle, IInv
  <2>2. pc' = "top" /\ UNCHANGED <<early, scene, signals>>
    BY <1>5 DEF ServeConnections, Idle
  <2>. QED
    BY <1>1, <2>1, <2>2 DEF IInv, EventsOnTime
<1>6. CASE Shutdown
  <2>1. UNCHANGED <<pipe, scene, signals, early, queue>> /\ pc' = "ended"
    BY <1>6 DEF Shutdown
  <2>2. Due' <=> Due
    BY <2>1 DEF Due, IsHead
  <2>3. PipeMeans'
    BY <2>1, <2>2, PipeUntouched DEF IInv
  <2>. QED
    BY <1>1, <2>1, <2>3 DEF IInv, EventsOnTime
<1>7. ASSUME NEW b \in {"S", "D"}, Signal(b)
      PROVE  IInv'
  <2>1. PipeMeans' /\ signals' \subseteq scene.signals /\ (Dumped => Dumped')
    BY <1>7, SignalMeans
  <2>2. UNCHANGED <<early, scene>> /\ pc' \in {pc, "top"}
    BY <1>7 DEF Signal
  <2>. QED
    BY <1>1, <2>1, <2>2 DEF IInv, EventsOnTime, Dumped
<1>8. CASE Tick
  <2>1. UNCHANGED <<pipe, pc, scene, signals, early>> /\ \A e \in queue : e.at > 0
    BY <1>8 DEF Tick
  <2>2. ~Due
    BY <2>1 DEF Due, IInv, QueueTimed
  <2>3. PipeMeans'
    BY <2>1, <2>2, PipeUntouched DEF IInv
  <2>. QED
    BY <1>1, <2>1, <2>3 DEF IInv, EventsOnTime
<1>9. CASE Clients \/ Ended \/ UNCHANGED vars
  <2>1. UNCHANGED <<queue, pipe, pc, scene, signals, early>>
    BY <1>9 DEF Clients, Client, Connect, Send, Quit, Ended, vars
  <2>2. Due' <=> Due
    BY <2>1 DEF Due, IsHead
  <2>3. PipeMeans'
    BY <2>1, <2>2, PipeUntouched DEF IInv
  <2>. QED
    BY <1>1, <2>1, <2>3 DEF IInv, EventsOnTime
<1>. QED
  BY <1>2, <1>3, <1>4, <1>5, <1>6, <1>7, <1>8, <1>9 DEF Next, Loop

-----------------------------------------------------------------------------
\* No event is executed before its time, although the head of the queue is looked at
\* in one pass and taken in another, with commands of clients, other events and a
\* SIGINT between them.  A SIGUSR1 makes the loop ask twice for one event.
THEOREM ExecutedOnTime == Spec => []EventsOnTime
<1>1. Init => IInv
  BY InitIInv
<1>2. IInv /\ [Next]_vars => IInv'
  BY NextIInv
<1>3. IInv => EventsOnTime
  BY DEF IInv
<1>. QED
  BY <1>1, <1>2, <1>3, PTL DEF Spec

-----------------------------------------------------------------------------
(***************************************************************************)
(* The connections, for every number of clients, of requests and of        *)
(* pipelined parts.                                                        *)
(*                                                                         *)
(* Sound is what a connection is at every step of a pass: the types of its *)
(* fields with the parts ahead of it in the order of its plan (Shape),     *)
(* what select is told of it (Watched), and what its buffer holds in each  *)
(* state (Buffered).  Clean is what its answers are: those it has are      *)
(* right and come before the requests that are ahead, and the one that is  *)
(* to be written is right.  Clean is given up for a connection of which an *)
(* event was made twice (again).  Settled holds at the end of a pass.  A   *)
(* command that waits in the queue is one of its own connection, which     *)
(* waits for it in Asking (Waits).  Each function of httpd has a lemma     *)
(* that says it keeps these, the loops over pipelined requests and over    *)
(* the list of connections one by induction over their steps.              *)
(***************************************************************************)
\* What a connection is made of.
Fields ==
  {"inbox", "eof", "sent", "got", "state", "rd", "wr", "idle", "buf", "lbreq", "clen",
   "parsed", "asked", "keep", "body", "reply", "for", "written"}

Plan(c) == Parts(scene.asks[c])

Part(c) == [req : DOMAIN scene.asks[c], body : BOOLEAN]

Reply == [req : Nat, reply : Replies]

Asking == {"PARSE_HEADER", "PARSE_BODY", "PROCESS"}

States ==
  {"free", "knocking", "KEEPALIVE", "READ_HEADER", "READ_BODY", "closed", "FINISHED", "CLOSE"}
  \cup Asking \cup Writing

\* The parts that are to be parsed yet: in the buffer, in the socket, not sent.
Ahead(c, r) == r.buf \o r.inbox \o SubSeq(Plan(c), r.sent + 1, Len(Plan(c)))

\* A header is that of a later request than what comes before it.
Ordered(s) == \A i, j \in DOMAIN s : i < j /\ ~s[j].body => s[i].req < s[j].req

\* What each field holds.
FieldType(c) ==
  [inbox |-> Seq(Part(c)), eof |-> BOOLEAN, sent |-> 0 .. Len(Plan(c)), got |-> Seq(Reply),
   state |-> States, rd |-> BOOLEAN, wr |-> BOOLEAN, idle |-> 0 .. Longest + 1,
   buf |-> Seq(Part(c)), lbreq |-> Nat, clen |-> {0, 1}, parsed |-> BOOLEAN,
   asked |-> BOOLEAN, keep |-> BOOLEAN, body |-> {"none", "heap", "static"},
   reply |-> Replies, for |-> Nat, written |-> BOOLEAN]

\* e is a connection, and is r but for the fields of F.
Same(r, e, F) ==
  /\ e = [f \in Fields |-> e[f]]
  /\ \A f \in Fields \ F : e[f] = r[f]

Shape(c, r) ==
  /\ r = [f \in Fields |-> r[f]]
  /\ \A f \in Fields : r[f] \in FieldType(c)[f]
  /\ Ordered(Ahead(c, r))

Watched(r) ==
  /\ Open(r) => r.rd = ~r.wr
  /\ ~Open(r) => ~r.rd /\ ~r.wr
  /\ r.wr => r.state \in Writing \cup {"FINISHED", "CLOSE"}
  /\ r.state = "WRITE_BODY" => r.wr

Buffered(r) ==
  /\ r.state \in Asking \cup {"READ_BODY"} =>
       r.buf # <<>> /\ ~r.buf[1].body /\ r.lbreq <= Extra(r)
  /\ r.state \in {"free", "knocking", "KEEPALIVE", "READ_HEADER"} => r.buf = <<>>
  /\ r.keep /\ r.buf # <<>> /\ r.state # "CLOSE" => r.lbreq <= Extra(r)

\* At the end of a pass.
Settled(r) ==
  /\ r.state \notin {"FINISHED", "CLOSE"}
  /\ r.state = "WRITE_HEADER" => r.wr

Bad == {"400", "403", "408"}

\* An answer to a request, as it must be.
Good(c, a) == a.req \in DOMAIN scene.asks[c] /\ a.reply = Expected(scene.asks[c][a.req])

InOrder(c, got) ==
  \A k \in DOMAIN got :
    \/ got[k].reply \in Bad /\ k = Len(got)
    \/ /\ Good(c, got[k])
       /\ \A l \in DOMAIN got : l < k => got[l].req < got[k].req

\* The answers so far are in order, and to requests before all but the first n
\* parts ahead.
Passed(c, r, n) ==
  \A k \in DOMAIN r.got :
    /\ Good(c, r.got[k])
    /\ \A l \in DOMAIN r.got : l < k => r.got[l].req < r.got[k].req
    /\ \A i \in DOMAIN Ahead(c, r) :
         i > n /\ ~Ahead(c, r)[i].body => r.got[k].req < Ahead(c, r)[i].req

Answering(c, r) ==
  \/ r.reply \in Bad /\ ~r.keep
  \/ /\ r.buf # <<>> /\ ~r.buf[1].body
     /\ r.for = r.buf[1].req /\ r.reply = Expected(scene.asks[c][r.for])

Asked(c, r) == scene.asks[c][r.buf[1].req]

Accepted(q) == q.path # "malformed" /\ q.user

Clean(c, r) ==
  /\ InOrder(c, r.got)
  /\ r.state \notin {"FINISHED", "CLOSE", "closed"} => Passed(c, r, 0)
  /\ r.state = "FINISHED" /\ r.keep => r.buf # <<>> /\ Passed(c, r, 1)
  /\ r.state \in Writing => Answering(c, r)
  /\ r.written => r.state \in {"WRITE_BODY", "CLOSE"}
  /\ r.asked => r.state \notin {"free", "knocking", "KEEPALIVE", "READ_HEADER", "READ_BODY"}
  /\ r.state \in {"READ_BODY", "PARSE_BODY", "PROCESS"} => Accepted(Asked(c, r))
  /\ r.asked /\ r.state \in {"PARSE_HEADER", "PARSE_BODY"} =>
       /\ Accepted(Asked(c, r)) /\ Kind(Asked(c, r)) \in {"info", "add"}
       /\ r.state = "PARSE_HEADER" => ~Asked(c, r).post

\* A command for the k-th request of c waits for its handler.
Waiting(c, r, k) ==
  \/ r.state = "closed" /\ r.eof
  \/ r.state = "CLOSE" /\ r.eof /\ r.asked
  \/ /\ r.state \in Asking /\ r.asked /\ r.idle <= NetTimeout
     /\ r.buf # <<>> /\ k = r.buf[1].req /\ Expected(Asked(c, r)) = "info"

Info(q) == {e \in q : e.type = "GET_INFO" /\ ~e.freed}

\* Each command that waits in q has its connection in w, one of its own.
Waits(q, w, a) ==
  /\ \A e \in Info(q) : e.conn \notin a => Waiting(e.conn, w[e.conn], e.req)
  /\ \A e, f \in Info(q) : e.conn = f.conn /\ e.conn \notin a => e = f

CommandsTyped(q) ==
  \A e \in q :
    /\ e.type \in {"CTRLCOMM_TIMER", "OTHER", "GET_INFO", "ADD"} /\ e.freed \in BOOLEAN
    /\ e.type \in {"GET_INFO", "ADD"} =>
         /\ {"conn", "req", "copies"} \subseteq DOMAIN e
         /\ e.conn \in Conns /\ e.req \in Nat /\ e.copies \in Nat /\ e.at = 0

\* The list l has the connections of V that are open in w, each once.
ListOf(l, V, w) ==
  /\ l \in Seq(V)
  /\ \A i, j \in DOMAIN l : l[i] = l[j] => i = j
  /\ \A d \in V : Open(w[d]) <=> \E i \in DOMAIN l : l[i] = d

ConnectionsSound(w, a) ==
  /\ w = [c \in Conns |-> w[c]]
  /\ \A c \in Conns :
       /\ Shape(c, w[c]) /\ Watched(w[c]) /\ Buffered(w[c]) /\ Settled(w[c])
       /\ c \notin a => Clean(c, w[c])

CInv ==
  /\ CommandsTyped(queue) /\ ListOf(conns, Conns, web) /\ ConnectionsSound(web, again)
  /\ pc # "ended" => Waits(queue, web, again)
  /\ again \subseteq Conns
  /\ lag \in BOOLEAN /\ early \in BOOLEAN
  /\ fault \in {"none", "dangling", "double free", "bad free"}

Sound(c, r) == Shape(c, r) /\ Watched(r) /\ Buffered(r)

\* The answers so far are right and there is none half written.
Fresh(c, r) == InOrder(c, r.got) /\ Passed(c, r, 0) /\ ~r.written

\* The requests of a client are numbered.
LEMMA AsksType ==
  ASSUME scene \in Scenes, NEW c \in Conns
  PROVE  /\ scene.asks[c] \in Seq([path : STRING, post : BOOLEAN, keep : BOOLEAN,
                                   user : BOOLEAN, params : BOOLEAN])
         /\ DOMAIN scene.asks[c] \subseteq Nat
<1>1. scene.asks \in [Conns -> Seq([path : STRING, post : BOOLEAN, keep : BOOLEAN,
                                   user : BOOLEAN, params : BOOLEAN])]
  BY ControlAssumption
<1>2. scene.asks[c] \in Seq([path : STRING, post : BOOLEAN, keep : BOOLEAN,
                                   user : BOOLEAN, params : BOOLEAN])
  BY <1>1
<1>3. DOMAIN scene.asks[c] = 1 .. Len(scene.asks[c]) /\ Len(scene.asks[c]) \in Nat
  BY <1>2, LenProperties
<1> QED
  BY <1>2, <1>3

\* The request that is answered has a number.
LEMMA CurrentNat ==
  ASSUME scene \in Scenes, NEW c \in Conns, NEW r, r.buf \in Seq(Part(c))
  PROVE  Current(r) \in Nat /\ (r.buf # <<>> => r.buf[1] \in Part(c) /\ Current(r) = r.buf[1].req)
<1>1. r.buf # <<>> => r.buf[1] \in Part(c)
  OBVIOUS
<1> QED
  BY <1>1, AsksType DEF Current, Part

\* What the fields of a connection hold.
LEMMA FieldsTyped ==
  ASSUME NEW c, NEW r, Shape(c, r)
  PROVE  /\ r.inbox \in Seq(Part(c)) /\ r.buf \in Seq(Part(c)) /\ r.got \in Seq(Reply)
         /\ r.eof \in BOOLEAN /\ r.rd \in BOOLEAN /\ r.wr \in BOOLEAN /\ r.parsed \in BOOLEAN
         /\ r.asked \in BOOLEAN /\ r.keep \in BOOLEAN /\ r.written \in BOOLEAN
         /\ r.sent \in 0 .. Len(Plan(c)) /\ r.idle \in 0 .. Longest + 1
         /\ r.lbreq \in Nat /\ r.clen \in {0, 1} /\ r.for \in Nat
         /\ r.body \in {"none", "heap", "static"} /\ r.reply \in Replies
         /\ r.state \in States
BY DEF Shape, FieldType, Fields

\* A connection that is like one of the right shape but for fields of the right type.
LEMMA ShapeKept ==
  ASSUME NEW c, NEW r, NEW e, NEW F, Shape(c, r), Same(r, e, F),
         \A f \in F : e[f] \in FieldType(c)[f],
         Ahead(c, e) = Ahead(c, r)
  PROVE  Shape(c, e)
BY DEF Shape, Same

\* A read takes nothing from what is to be parsed.
LEMMA AheadKept ==
  ASSUME NEW c, NEW r, NEW e, e.buf \o e.inbox = r.buf \o r.inbox, e.sent = r.sent
  PROVE  Ahead(c, e) = Ahead(c, r)
BY DEF Ahead

\* mkerror.
LEMMA MkErrorIs ==
  ASSUME NEW r, r = [f \in Fields |-> r[f]], NEW status, NEW ka,
         NEW e, e = MkError(r, status, ka)
  PROVE  /\ Same(r, e, {"state", "body", "reply", "for", "keep"})
         /\ e.state = "WRITE_HEADER" /\ e.body = "static" /\ e.reply = status
         /\ e.for = Current(r) /\ e.keep = (r.keep /\ ka)
BY DEF MkError, Fields, Same

\* An answer that is to be written, by mkerror or mkheader.
LEMMA AnswerSound ==
  ASSUME scene \in Scenes, NEW c \in Conns, NEW r, Shape(c, r), r.rd, ~r.wr,
         NEW e, Same(r, e, {"state", "body", "reply", "for", "keep"}),
         e.state = "WRITE_HEADER", e.body \in {"none", "heap", "static"}, e.reply \in Replies,
         e.for \in Nat, e.keep \in BOOLEAN, e.keep => r.keep,
         e.keep /\ r.buf # <<>> => r.lbreq <= Extra(r)
  PROVE  Sound(c, e) /\ (Fresh(c, r) /\ Answering(c, e) => Clean(c, e))
<1>1. /\ e.buf = r.buf /\ e.inbox = r.inbox /\ e.sent = r.sent /\ e.got = r.got
      /\ e.rd = r.rd /\ e.wr = r.wr /\ e.lbreq = r.lbreq /\ e.asked = r.asked
      /\ e.written = r.written
  BY DEF Fields, Same
<1>2. Ahead(c, e) = Ahead(c, r)
  BY <1>1, AheadKept
<1>3. Shape(c, e)
  <2>1. /\ e.state \in FieldType(c).state /\ e.body \in FieldType(c).body
        /\ e.reply \in FieldType(c).reply /\ e.for \in FieldType(c).for
        /\ e.keep \in FieldType(c).keep
    BY DEF FieldType, States, Writing
  <2> QED
    BY <1>2, <2>1, ShapeKept
<1>4. Watched(e)
  BY <1>1, FieldsTyped DEF Watched, Open, Writing
<1>5. Buffered(e)
  BY <1>1 DEF Buffered, Asking, Extra
<1>6. ASSUME Fresh(c, r), Answering(c, e) PROVE Clean(c, e)
  <2>1. InOrder(c, e.got) /\ Passed(c, e, 0) /\ ~e.written
    BY <1>1, <1>2, <1>6 DEF Fresh, Passed
  <2> QED
    BY <1>6, <2>1 DEF Clean
<1> QED
  BY <1>3, <1>4, <1>5, <1>6 DEF Sound

\* A sequence is its first m elements and the rest.
LEMMA SplitSeq ==
  \A S : \A s \in Seq(S) : \A m \in 0 .. Len(s) :
    /\ SubSeq(s, 1, m) \in Seq(S) /\ Len(SubSeq(s, 1, m)) = m
    /\ SubSeq(s, m + 1, Len(s)) \in Seq(S) /\ Len(SubSeq(s, m + 1, Len(s))) = Len(s) - m
    /\ SubSeq(s, 1, m) \o SubSeq(s, m + 1, Len(s)) = s
    /\ \A i \in 1 .. Len(s) - m : SubSeq(s, m + 1, Len(s))[i] = s[m + i]
<1> TAKE S
<1> TAKE s \in Seq(S)
<1> TAKE m \in 0 .. Len(s)
<1>0. Len(s) \in Nat /\ 1 \in 1 .. Len(s) + 1 /\ m \in 1 - 1 .. Len(s) /\ Len(s) \in m .. Len(s)
  OBVIOUS
<1>1. SubSeq(s, 1, m) \o SubSeq(s, m + 1, Len(s)) = SubSeq(s, 1, Len(s))
  BY <1>0, ConcatAdjacentSubSeq
<1>2. SubSeq(s, 1, Len(s)) = s
  BY <1>0
<1>3. SubSeq(s, 1, m) \in Seq(S) /\ Len(SubSeq(s, 1, m)) = m
  BY <1>0
<1>4. SubSeq(s, m + 1, Len(s)) \in Seq(S) /\ Len(SubSeq(s, m + 1, Len(s))) = Len(s) - m
  BY <1>0
<1>5. \A i \in 1 .. Len(s) - m : SubSeq(s, m + 1, Len(s))[i] = s[m + i]
  BY <1>0
<1> QED
  BY <1>1, <1>2, <1>3, <1>4, <1>5

Assoc(s, t, u) == (s \o t) \o u = s \o (t \o u)

\* It does not matter which of three sequences are joined first.
LEMMA AssocSeq ==
  ASSUME NEW S, NEW s \in Seq(S), NEW t \in Seq(S), NEW u \in Seq(S)
  PROVE  Assoc(s, t, u)
BY SMTT(30) DEF Assoc

\* Sequences that are joined.
LEMMA JoinSeq ==
  \A S : \A s, a, v \in Seq(S) :
    /\ s \o a \in Seq(S) /\ (s \o a) \o v = s \o (a \o v)
    /\ Len(s \o a) = Len(s) + Len(a)
<1> TAKE S
<1> TAKE s, a, v \in Seq(S)
<1>1. s \o a \in Seq(S) /\ Len(s \o a) = Len(s) + Len(a)
  BY ConcatProperties
<1>2. (s \o a) \o v = s \o (a \o v)
  BY ConcatAssociative
<1> QED
  BY <1>1, <1>2

\* The first m elements of t move to the end of s.
LEMMA MoveSeq ==
  \A S : \A s, t \in Seq(S) : \A m \in 0 .. Len(t) :
    LET u == s \o SubSeq(t, 1, m)
        v == SubSeq(t, m + 1, Len(t))
    IN  /\ u \in Seq(S) /\ v \in Seq(S) /\ u \o v = s \o t
        /\ Len(u) + Len(v) = Len(s) + Len(t) /\ Len(s) <= Len(u)
        /\ (s # <<>> => Len(u) > 0) /\ (m > 0 => Len(u) > 0)
<1> TAKE S
<1> TAKE s, t \in Seq(S)
<1> TAKE m \in 0 .. Len(t)
<1>1. PICK a, b : a = SubSeq(t, 1, m) /\ b = SubSeq(t, m + 1, Len(t))
  OBVIOUS
<1>2. a \in Seq(S) /\ Len(a) = m /\ b \in Seq(S) /\ a \o b = t
  BY <1>1, SplitSeq
<1>3. /\ s \o a \in Seq(S) /\ (s \o a) \o b = s \o (a \o b)
      /\ Len(s \o a) = Len(s) + Len(a)
  <2>1. s \in Seq(S) /\ a \in Seq(S) /\ b \in Seq(S)
    BY <1>2
  <2>2. Assoc(s, a, b)
    BY ONLY <2>1, AssocSeq
  <2>3. s \o a \in Seq(S) /\ Len(s \o a) = Len(s) + Len(a)
    BY ONLY <2>1, ConcatProperties
  <2> QED
    BY <2>2, <2>3 DEF Assoc
<1>4. Len(s) \in Nat /\ Len(a) \in Nat /\ Len(b) = Len(t) - m /\ (s # <<>> => Len(s) > 0)
  BY <1>1, <1>2, SplitSeq
<1>5. /\ Len(s \o a) + Len(b) = Len(s) + Len(t) /\ Len(s) <= Len(s \o a)
      /\ (s # <<>> => Len(s \o a) > 0) /\ (m > 0 => Len(s \o a) > 0)
  BY <1>2, <1>3, <1>4
<1> QED
  BY <1>1, <1>2, <1>3, <1>5

\* read: what moves from the socket to the buffer.
LEMMA TakeIs ==
  ASSUME NEW r, r = [f \in Fields |-> r[f]], NEW S, r.buf \in Seq(S), r.inbox \in Seq(S),
         NEW n \in Nat
  PROVE  LET t == Take(r, n)
         IN  /\ Same(r, t, {"buf", "inbox"})
             /\ t.buf \in Seq(S) /\ t.inbox \in Seq(S)
             /\ t.buf \o t.inbox = r.buf \o r.inbox
             /\ Len(t.buf) + Len(t.inbox) = Len(r.buf) + Len(r.inbox)
             /\ Len(r.buf) <= Len(t.buf)
             /\ r.buf # <<>> => t.buf # <<>> /\ t.buf[1] = r.buf[1]
             /\ r.inbox # <<>> /\ n > 0 => t.buf # <<>>
<1> DEFINE t == Take(r, n)
<1>0. PICK m : m = IF n < Len(r.inbox) THEN n ELSE Len(r.inbox)
  OBVIOUS
<1>1. m \in 0 .. Len(r.inbox) /\ (r.inbox # <<>> /\ n > 0 => m > 0)
  BY <1>0
<1>2. t = [r EXCEPT !.buf = r.buf \o SubSeq(r.inbox, 1, m),
                    !.inbox = SubSeq(r.inbox, m + 1, Len(r.inbox))]
  BY <1>0 DEF Take, Fields
<1>3. /\ Same(r, t, {"buf", "inbox"}) /\ t.buf = r.buf \o SubSeq(r.inbox, 1, m)
      /\ t.inbox = SubSeq(r.inbox, m + 1, Len(r.inbox))
  BY <1>2 DEF Fields, Same
<1> HIDE DEF t
<1>4. /\ t.buf \in Seq(S) /\ t.inbox \in Seq(S)
      /\ t.buf \o t.inbox = r.buf \o r.inbox
      /\ Len(t.buf) + Len(t.inbox) = Len(r.buf) + Len(r.inbox)
      /\ Len(r.buf) <= Len(t.buf)
      /\ r.buf # <<>> => t.buf # <<>> /\ t.buf[1] = r.buf[1]
      /\ m > 0 => t.buf # <<>>
  <2>1. PICK x, y : x = r.buf /\ y = r.inbox
    OBVIOUS
  <2>2. x \in Seq(S) /\ y \in Seq(S) /\ m \in 0 .. Len(y)
    BY <1>1, <2>1
  <2>3. LET u == x \o SubSeq(y, 1, m)
            v == SubSeq(y, m + 1, Len(y))
        IN  /\ u \in Seq(S) /\ v \in Seq(S) /\ u \o v = x \o y
            /\ Len(u) + Len(v) = Len(x) + Len(y) /\ Len(x) <= Len(u)
            /\ (x # <<>> => Len(u) > 0) /\ (m > 0 => Len(u) > 0)
    BY <2>2, MoveSeq
  <2>4. SubSeq(y, 1, m) \in Seq(S)
    BY <2>2, SplitSeq
  <2>5. x # <<>> => t.buf[1] = x[1]
    <3>1. x # <<>> => 1 \in 1 .. Len(x)
      BY <2>2
    <3> QED
      BY <1>3, <2>1, <2>2, <2>4, <3>1, ConcatProperties
  <2>6. PICK u, v : u = t.buf /\ v = t.inbox
    OBVIOUS
  <2>7. u = x \o SubSeq(y, 1, m) /\ v = SubSeq(y, m + 1, Len(y))
    BY <1>3, <2>1, <2>6
  <2>8. /\ u \in Seq(S) /\ v \in Seq(S) /\ u \o v = x \o y
        /\ Len(u) + Len(v) = Len(x) + Len(y) /\ Len(x) <= Len(u)
        /\ (x # <<>> => Len(u) > 0) /\ (m > 0 => Len(u) > 0)
    BY <2>3, <2>7
  <2>9. (x # <<>> => u # <<>>) /\ (m > 0 => u # <<>>)
    BY <2>8
  <2> QED
    BY <2>1, <2>5, <2>6, <2>8, <2>9
<1> QED
  BY <1>1, <1>3, <1>4 DEF t

\* The parts that are in the daemon's buffer and in the socket.
Size(r) == Len(r.buf) + Len(r.inbox)

\* e is connection r of c after a read: some parts may have moved to the buffer.
HasRead(c, r, e) ==
  /\ Sound(c, e) /\ Size(e) = Size(r) /\ e.idle = r.idle /\ e.eof = r.eof
  /\ e.got = r.got /\ e.asked = r.asked /\ e.rd = r.rd /\ e.wr = r.wr
  /\ Ahead(c, e) = Ahead(c, r) /\ e.written = r.written

\* What is read of a connection of the right shape.
LEMMA TakeShape ==
  ASSUME NEW c, NEW r, Shape(c, r), NEW n \in Nat
  PROVE  LET t == Take(r, n)
         IN  /\ Same(r, t, {"buf", "inbox"}) /\ Shape(c, t) /\ Size(t) = Size(r)
             /\ Ahead(c, t) = Ahead(c, r)
             /\ Len(r.buf) <= Len(t.buf)
             /\ r.buf # <<>> => t.buf # <<>> /\ t.buf[1] = r.buf[1]
             /\ r.inbox # <<>> /\ n > 0 => t.buf # <<>>
<1>1. PICK t : t = Take(r, n)
  OBVIOUS
<1>2. r.buf \in Seq(Part(c)) /\ r.inbox \in Seq(Part(c)) /\ r = [f \in Fields |-> r[f]]
  BY FieldsTyped DEF Shape
<1>3. /\ Same(r, t, {"buf", "inbox"})
      /\ t.buf \in Seq(Part(c)) /\ t.inbox \in Seq(Part(c))
      /\ t.buf \o t.inbox = r.buf \o r.inbox
      /\ Len(t.buf) + Len(t.inbox) = Len(r.buf) + Len(r.inbox)
      /\ Len(r.buf) <= Len(t.buf)
      /\ r.buf # <<>> => t.buf # <<>> /\ t.buf[1] = r.buf[1]
      /\ r.inbox # <<>> /\ n > 0 => t.buf # <<>>
  BY <1>1, <1>2, TakeIs
<1>4. t.sent = r.sent
  BY <1>3 DEF Fields, Same
<1>5. Ahead(c, t) = Ahead(c, r)
  BY <1>3, <1>4, AheadKept
<1>6. t.buf \in FieldType(c).buf /\ t.inbox \in FieldType(c).inbox
  BY <1>3 DEF FieldType
<1>7. Shape(c, t)
  BY <1>3, <1>5, <1>6, ShapeKept
<1> QED
  BY <1>1, <1>3, <1>5, <1>7 DEF Size

\* A read header: it is parsed, or it does not look like one.
LEMMA LookAtHeaderSound ==
  ASSUME scene \in Scenes, NEW c \in Conns, NEW t, Shape(c, t), t.rd, ~t.wr, t.buf # <<>>
  PROVE  LET e == LookAtHeader(t)
         IN  /\ HasRead(c, t, e) /\ e.state \in {"PARSE_HEADER", "WRITE_HEADER"}
             /\ e.state = "WRITE_HEADER" => ~e.keep
             /\ Fresh(c, t) /\ ~t.asked => Clean(c, e)
<1>1. PICK e : e = LookAtHeader(t)
  OBVIOUS
<1>0. SUFFICES /\ HasRead(c, t, e) /\ e.state \in {"PARSE_HEADER", "WRITE_HEADER"}
               /\ e.state = "WRITE_HEADER" => ~e.keep
               /\ Fresh(c, t) /\ ~t.asked => Clean(c, e)
  BY <1>1
<1>2. t.buf \in Seq(Part(c)) /\ t.buf[1] \in Part(c) /\ t = [f \in Fields |-> t[f]]
  BY FieldsTyped, CurrentNat DEF Shape
<1>3. CASE t.buf[1].body
  <2>0. PICK ka : ka = FALSE
    OBVIOUS
  <2>1. e = MkError(t, "400", ka)
    BY <1>1, <1>3, <2>0 DEF LookAtHeader
  <2>2. /\ Same(t, e, {"state", "body", "reply", "for", "keep"})
        /\ e.state = "WRITE_HEADER" /\ e.body = "static" /\ e.reply = "400"
        /\ e.for = Current(t) /\ e.keep = (t.keep /\ ka)
    BY <1>2, <2>1, MkErrorIs
  <2>3. e.for \in Nat /\ "400" \in Replies /\ ~e.keep
    BY <1>2, <2>0, <2>2, CurrentNat DEF Replies
  <2>4. Sound(c, e) /\ (Fresh(c, t) /\ Answering(c, e) => Clean(c, e))
    BY <2>2, <2>3, AnswerSound
  <2>5. Answering(c, e)
    BY <2>2, <2>3 DEF Answering, Bad
  <2>6. HasRead(c, t, e)
    BY <2>2, <2>4 DEF Ahead, HasRead, Size, Fields, Same
  <2> QED
    BY <2>2, <2>3, <2>4, <2>5, <2>6
<1>4. CASE ~t.buf[1].body
  <2>1. e = [t EXCEPT !.state = "PARSE_HEADER", !.lbreq = Extra(t)]
    BY <1>1, <1>4 DEF LookAtHeader
  <2>2. Same(t, e, {"state", "lbreq"}) /\ e.state = "PARSE_HEADER" /\ e.lbreq = Extra(t)
    BY <1>2, <2>1 DEF Fields, Same
  <2>3. /\ e.buf = t.buf /\ e.inbox = t.inbox /\ e.sent = t.sent /\ e.rd = t.rd /\ e.wr = t.wr
        /\ e.got = t.got /\ e.asked = t.asked /\ e.written = t.written /\ e.idle = t.idle
        /\ e.eof = t.eof /\ e.parsed = t.parsed
    BY <2>2 DEF Fields, Same
  <2>4. Ahead(c, e) = Ahead(c, t)
    BY <2>3, AheadKept
  <2>5. Extra(t) \in Nat /\ Extra(e) = Extra(t)
    BY <1>2, <2>3 DEF Extra
  <2>6. e.state \in FieldType(c).state /\ e.lbreq \in FieldType(c).lbreq
    BY <2>2, <2>5 DEF FieldType, States, Asking
  <2>7. Shape(c, e)
    BY <2>2, <2>4, <2>6, ShapeKept
  <2>8. Watched(e)
    BY <2>2, <2>3 DEF Watched, Open, Writing
  <2>9. Buffered(e)
    BY <1>4, <2>2, <2>3, <2>5 DEF Buffered, Asking
  <2>10. HasRead(c, t, e)
    BY <2>3, <2>4, <2>7, <2>8, <2>9 DEF HasRead, Sound, Size
  <2>11. ASSUME Fresh(c, t), ~t.asked PROVE Clean(c, e)
    <3>1. InOrder(c, e.got) /\ Passed(c, e, 0) /\ ~e.written /\ ~e.asked
      BY <2>3, <2>4, <2>11 DEF Fresh, Passed
    <3> QED
      BY <2>2, <3>1 DEF Clean, Writing
  <2> QED
    BY <2>2, <2>10, <2>11
<1> QED
  BY <1>3, <1>4

\* read_header.
LEMMA ReadHeaderSound ==
  ASSUME scene \in Scenes, NEW c \in Conns, NEW r, Shape(c, r), r.state = "READ_HEADER",
         r.rd, ~r.wr, NEW n \in 1 .. 2, NEW pipelined \in BOOLEAN,
         pipelined = (r.buf # <<>>)
  PROVE  LET e == ReadHeader(r, n, pipelined)
         IN  /\ HasRead(c, r, e)
             /\ e.state \in {"CLOSE", "READ_HEADER", "PARSE_HEADER", "WRITE_HEADER"}
             /\ e.state = "WRITE_HEADER" => ~e.keep
             /\ e.state = "CLOSE" => e.eof
             /\ e.state = "READ_HEADER" => ~pipelined
             /\ Fresh(c, r) /\ ~r.asked => Clean(c, e)
<1>1. PICK e : e = ReadHeader(r, n, pipelined)
  OBVIOUS
<1>0. SUFFICES /\ HasRead(c, r, e)
               /\ e.state \in {"CLOSE", "READ_HEADER", "PARSE_HEADER", "WRITE_HEADER"}
               /\ e.state = "WRITE_HEADER" => ~e.keep
               /\ e.state = "CLOSE" => e.eof
               /\ e.state = "READ_HEADER" => ~pipelined
               /\ Fresh(c, r) /\ ~r.asked => Clean(c, e)
  BY <1>1
<1>2. r = [f \in Fields |-> r[f]] /\ n \in Nat /\ n > 0
  BY DEF Shape
<1>3. CASE r.inbox = <<>> /\ r.eof
  <2>1. e = [r EXCEPT !.state = "CLOSE"]
    BY <1>1, <1>3 DEF ReadHeader
  <2>2. Same(r, e, {"state"}) /\ e.state = "CLOSE"
    BY <1>2, <2>1 DEF Fields, Same
  <2>3. /\ e.buf = r.buf /\ e.inbox = r.inbox /\ e.sent = r.sent /\ e.rd = r.rd /\ e.wr = r.wr
        /\ e.got = r.got /\ e.asked = r.asked /\ e.written = r.written /\ e.idle = r.idle
        /\ e.eof = r.eof /\ e.parsed = r.parsed
    BY <2>2 DEF Fields, Same
  <2>4. Ahead(c, e) = Ahead(c, r)
    BY <2>3, AheadKept
  <2>0. e.state \in FieldType(c).state
    BY <2>2 DEF FieldType, States
  <2>5. Shape(c, e)
    BY <2>0, <2>2, <2>4, ShapeKept
  <2>6. Watched(e) /\ Buffered(e)
    BY <2>2, <2>3 DEF Watched, Buffered, Open, Writing, Asking
  <2>7. Fresh(c, r) /\ ~r.asked => Clean(c, e)
    BY <2>2, <2>3 DEF Fresh, Clean, Writing
  <2> QED
    BY <1>3, <2>2, <2>3, <2>4, <2>5, <2>6, <2>7 DEF HasRead, Sound, Size
<1>4. CASE r.inbox = <<>> /\ ~r.eof /\ ~pipelined
  <2>1. e = r
    BY <1>1, <1>4 DEF ReadHeader
  <2>2. Watched(r) /\ Buffered(r)
    BY <1>4 DEF Watched, Buffered, Open, Writing, Asking
  <2>3. Fresh(c, r) /\ ~r.asked => Clean(c, r)
    BY DEF Fresh, Clean, Writing
  <2> QED
    BY <1>4, <2>1, <2>2, <2>3 DEF HasRead, Sound
<1>5. CASE r.inbox # <<>> \/ (~r.eof /\ pipelined)
  <2>1. PICK t : t = Take(r, n)
    OBVIOUS
  <2>2. /\ Same(r, t, {"buf", "inbox"}) /\ Shape(c, t) /\ Size(t) = Size(r)
        /\ Ahead(c, t) = Ahead(c, r) /\ t.buf # <<>>
    BY <1>2, <1>5, <2>1, TakeShape
  <2>3. /\ t.rd = r.rd /\ t.wr = r.wr
        /\ t.got = r.got /\ t.asked = r.asked /\ t.written = r.written /\ t.idle = r.idle
        /\ t.eof = r.eof /\ t.parsed = r.parsed
    BY <2>2 DEF Fields, Same
  <2>4. e = LookAtHeader(t)
    BY <1>1, <1>5, <2>1 DEF ReadHeader
  <2>5. /\ HasRead(c, t, e) /\ e.state \in {"PARSE_HEADER", "WRITE_HEADER"}
        /\ e.state = "WRITE_HEADER" => ~e.keep
        /\ Fresh(c, t) /\ ~t.asked => Clean(c, e)
    BY <2>2, <2>3, <2>4, LookAtHeaderSound
  <2>6. Fresh(c, r) /\ ~r.asked => Fresh(c, t) /\ ~t.asked
    BY <2>2, <2>3 DEF Fresh, Passed
  <2> QED
    BY <2>2, <2>3, <2>5, <2>6 DEF HasRead
<1> QED
  BY <1>3, <1>4, <1>5

\* e goes on with the request at the start of the buffer of r.
ReadOn(c, r, e) ==
  /\ HasRead(c, r, e)
  /\ e.buf # <<>> /\ e.buf[1] = r.buf[1] /\ e.lbreq <= Extra(e)
  /\ e.state = "CLOSE" => e.eof

\* read_body.
LEMMA ReadBodySound ==
  ASSUME NEW c \in Conns, NEW r, Shape(c, r), r.rd, ~r.wr, NEW n \in 1 .. 2,
         r.state \in {"READ_BODY", "PARSE_HEADER"},
         r.buf # <<>>, ~r.buf[1].body, r.lbreq <= Extra(r)
  PROVE  LET e == ReadBody(r, n)
         IN  /\ ReadOn(c, r, e) /\ e.keep = r.keep /\ e.clen = r.clen
             /\ e.state \in {r.state, "PARSE_BODY", "CLOSE"}
             /\ e.state = "PARSE_BODY" => e.lbreq = e.clen
<1>1. PICK e, f, a : e = ReadBody(r, n) /\ f = Take(r, n) /\ a = Take(r, Len(r.inbox))
  OBVIOUS
<1>0. SUFFICES /\ ReadOn(c, r, e) /\ e.keep = r.keep /\ e.clen = r.clen
               /\ e.state \in {r.state, "PARSE_BODY", "CLOSE"}
               /\ e.state = "PARSE_BODY" => e.lbreq = e.clen
  BY <1>1
<1>2. n \in Nat /\ Len(r.inbox) \in Nat
  BY FieldsTyped
<1>3. \A t \in {f, a} :
        /\ Same(r, t, {"buf", "inbox"}) /\ Shape(c, t) /\ Size(t) = Size(r)
        /\ Ahead(c, t) = Ahead(c, r)
        /\ Len(r.buf) <= Len(t.buf)
        /\ t.buf # <<>> /\ t.buf[1] = r.buf[1]
  BY <1>1, <1>2, TakeShape
<1>4. ASSUME NEW t \in {f, a}, NEW F \in {{"state"}, {"state", "lbreq"}}, Same(t, e, F),
             e.state \in {r.state, "PARSE_BODY", "CLOSE"}, e.lbreq \in Nat, e.lbreq <= Extra(t),
             e.state = "CLOSE" => e.eof, e.state = "PARSE_BODY" => e.lbreq = e.clen
      PROVE  /\ ReadOn(c, r, e) /\ e.keep = r.keep /\ e.clen = r.clen
  <2>1. /\ e.buf = t.buf /\ e.inbox = t.inbox /\ e.sent = t.sent /\ e.rd = t.rd /\ e.wr = t.wr
        /\ e.got = t.got /\ e.asked = t.asked /\ e.written = t.written /\ e.idle = t.idle
        /\ e.eof = t.eof /\ e.keep = t.keep /\ e.clen = t.clen
    BY <1>4 DEF Fields, Same
  <2>2. /\ t.rd = r.rd /\ t.wr = r.wr /\ t.clen = r.clen
        /\ t.got = r.got /\ t.asked = r.asked /\ t.written = r.written /\ t.idle = r.idle
        /\ t.eof = r.eof /\ t.keep = r.keep
    <3>1. Same(r, t, {"buf", "inbox"})
      BY <1>3
    <3> QED
      BY ONLY <3>1 DEF Fields, Same
  <2>3. Ahead(c, e) = Ahead(c, t)
    BY <2>1 DEF Ahead
  <2>4. e.state \in FieldType(c).state /\ e.lbreq \in FieldType(c).lbreq
    BY <1>4 DEF FieldType, States, Asking
  <2>5. Shape(c, t)
    BY <1>3
  <2>6. Shape(c, e)
    BY <1>4, <2>3, <2>4, <2>5, ShapeKept
  <2>7. Watched(e)
    BY <1>4, <2>1, <2>2 DEF Watched, Open, Writing
  <2>8. Extra(e) = Extra(t) /\ e.buf # <<>> /\ e.buf[1] = r.buf[1]
    BY <1>3, <2>1 DEF Extra
  <2>9. Buffered(e)
    BY <1>4, <2>8 DEF Buffered, Asking
  <2>10. Size(e) = Size(r)
    BY <1>3, <2>1 DEF Size
  <2>11. Ahead(c, e) = Ahead(c, r)
    BY <1>3, <2>3
  <2> QED
    BY <1>4, <2>1, <2>2, <2>6, <2>7, <2>8, <2>9, <2>10, <2>11 DEF ReadOn, HasRead, Sound
<1>5. /\ f = [g \in Fields |-> f[g]] /\ a = [g \in Fields |-> a[g]]
      /\ f.clen = r.clen /\ a.clen = r.clen /\ a.lbreq = r.lbreq /\ a.state = r.state
      /\ f.eof = r.eof /\ a.eof = r.eof
      /\ r.clen \in Nat /\ r.lbreq \in Nat
  <2>1. Same(r, f, {"buf", "inbox"}) /\ Same(r, a, {"buf", "inbox"})
    BY <1>3
  <2>2. r.clen \in Nat /\ r.lbreq \in Nat
    BY FieldsTyped
  <2> QED
    BY <2>1, <2>2 DEF Fields, Same
<1>6. Len(r.buf) \in Nat /\ Len(a.buf) \in Nat /\ Len(r.buf) <= Len(a.buf)
  BY <1>3, FieldsTyped
<1>7. CASE r.inbox # <<>> /\ Extra(f) = r.clen
  <2>1. e = [f EXCEPT !.state = "PARSE_BODY", !.lbreq = r.clen]
    BY <1>1, <1>7 DEF ReadBody
  <2>2. Same(f, e, {"state", "lbreq"}) /\ e.state = "PARSE_BODY" /\ e.lbreq = r.clen
    BY <1>5, <2>1 DEF Fields, Same
  <2>3. e.clen = r.clen
    BY <1>5, <2>2 DEF Fields, Same
  <2> QED
    BY <1>4, <1>5, <1>7, <2>2, <2>3
<1>8. CASE ~(r.inbox # <<>> /\ Extra(f) = r.clen)
  <2>1. e = [a EXCEPT !.state = IF r.eof THEN "CLOSE" ELSE a.state]
    BY <1>1, <1>8 DEF ReadBody
  <2>2. /\ Same(a, e, {"state"}) /\ e.state = (IF r.eof THEN "CLOSE" ELSE r.state)
        /\ e.lbreq = r.lbreq /\ e.eof = r.eof
    BY <1>5, <2>1 DEF Fields, Same
  <2>3. e.lbreq <= Extra(a)
    BY <1>5, <1>6, <2>2 DEF Extra
  <2>4. /\ e.state \in {r.state, "PARSE_BODY", "CLOSE"} /\ e.state # "PARSE_BODY"
        /\ e.state = "CLOSE" => e.eof
    BY <2>2
  <2> QED
    BY <1>4, <1>5, <2>2, <2>3, <2>4
<1> QED
  BY <1>7, <1>8

\* What a request is answered with.
LEMMA ExpectedIs ==
  ASSUME NEW q, q.path # "malformed"
  PROVE  /\ ~q.user => Expected(q) = "401"
         /\ q.user /\ Kind(q) = "incomplete" => Expected(q) = "error"
         /\ q.user /\ Kind(q) = "unknown" => Expected(q) = "404"
         /\ q.user /\ Kind(q) \notin {"incomplete", "unknown"} => Expected(q) = Kind(q)
<1>1. Kind(q) \notin {"incomplete", "unknown"} =>
        ~(Kind(q) = "incomplete") /\ ~(Kind(q) = "unknown")
  OBVIOUS
<1> QED
  BY <1>1 DEF Expected

\* A command is of one of five kinds.
LEMMA KindIs ==
  ASSUME NEW q
  PROVE  Kind(q) \in {"page", "info", "add", "unknown", "incomplete"}
<1>1. AgentCommand(q.path) \in {"page", "info", "add", "unknown"}
  BY DEF AgentCommand
<1>2. AuctioneerCommand(q.path) \in {"page", "info", "add", "unknown"}
  BY DEF AuctioneerCommand
<1> QED
  BY <1>1, <1>2 DEF Kind

\* The record of a request.
LEMMA AskedType ==
  ASSUME scene \in Scenes, NEW c \in Conns, NEW r, Shape(c, r), r.buf # <<>>
  PROVE  /\ r.buf[1].req \in DOMAIN scene.asks[c] /\ r.buf[1].body \in BOOLEAN
         /\ Current(r) = r.buf[1].req /\ Current(r) \in Nat
         /\ Asked(c, r) = Request(c, r)
         /\ Asked(c, r).post \in BOOLEAN /\ Asked(c, r).keep \in BOOLEAN
         /\ Asked(c, r).user \in BOOLEAN /\ Asked(c, r).params \in BOOLEAN
<1>1. r.buf[1] \in Part(c) /\ Current(r) = r.buf[1].req /\ Current(r) \in Nat
  BY FieldsTyped, CurrentNat
<1>2. r.buf[1].req \in DOMAIN scene.asks[c] /\ r.buf[1].body \in BOOLEAN
  BY <1>1 DEF Part
<1>3. scene.asks[c] \in Seq([path : STRING, post : BOOLEAN, keep : BOOLEAN,
                             user : BOOLEAN, params : BOOLEAN])
  BY AsksType
<1>4. Asked(c, r) \in [path : STRING, post : BOOLEAN, keep : BOOLEAN,
                       user : BOOLEAN, params : BOOLEAN]
  <2>1. PICK p, i, T : /\ p = scene.asks[c] /\ i = r.buf[1].req
                       /\ T = [path : STRING, post : BOOLEAN, keep : BOOLEAN,
                               user : BOOLEAN, params : BOOLEAN]
    OBVIOUS
  <2>3. p \in Seq(T) /\ i \in DOMAIN p
    BY <1>2, <1>3, <2>1, Zenon
  <2>4. p[i] \in T
    BY <2>3
  <2>2. p[i] \in [path : STRING, post : BOOLEAN, keep : BOOLEAN, user : BOOLEAN, params : BOOLEAN]
    BY <2>1, <2>4
  <2> QED
    BY <2>1, <2>2 DEF Asked
<1>5. Asked(c, r) = Request(c, r)
  BY <1>1 DEF Asked, Request
<1> QED
  BY <1>1, <1>2, <1>4, <1>5

\* The callback is called with e.
Heard(c, e) ==
  /\ Sound(c, e) /\ e.rd /\ ~e.wr /\ e.state \in Asking \cup {"CLOSE"}
  /\ e.buf # <<>> /\ ~e.buf[1].body /\ e.lbreq <= Extra(e)
  /\ e.state = "CLOSE" => e.eof

\* The answers before a request that was heard are right.
HeardClean(c, e) ==
  /\ Fresh(c, e) /\ Accepted(Asked(c, e))
  /\ e.state = "PARSE_HEADER" => ~Asked(c, e).post
  /\ e.asked => Kind(Asked(c, e)) \in {"info", "add"}

\* The header lines that matter are in the connection.
LEMMA HeaderSound ==
  ASSUME NEW c \in Conns, NEW r, Sound(c, r), r.state = "PARSE_HEADER",
         NEW h, Same(r, h, {"keep", "parsed", "clen"}),
         h.keep \in BOOLEAN, h.parsed \in BOOLEAN, h.clen \in {0, 1}
  PROVE  /\ Shape(c, h) /\ Ahead(c, h) = Ahead(c, r)
         /\ h.buf = r.buf /\ h.lbreq = r.lbreq /\ h.state = r.state /\ h.rd /\ ~h.wr
         /\ h.lbreq <= Extra(h) /\ h.buf # <<>> /\ ~h.buf[1].body
         /\ h.asked = r.asked /\ h.eof = r.eof /\ h.idle = r.idle /\ h.got = r.got
         /\ h.written = r.written /\ Size(h) = Size(r)
<1>2. r = [f \in Fields |-> r[f]] /\ Shape(c, r)
  BY DEF Sound, Shape
<1>6. /\ h.buf = r.buf /\ h.inbox = r.inbox /\ h.sent = r.sent /\ h.lbreq = r.lbreq
      /\ h.state = r.state /\ h.rd = r.rd /\ h.wr = r.wr /\ h.asked = r.asked
      /\ h.eof = r.eof /\ h.idle = r.idle /\ h.got = r.got /\ h.written = r.written
  BY DEF Fields, Same
<1>7. Ahead(c, h) = Ahead(c, r)
  BY <1>6 DEF Ahead
<1>8. /\ h.keep \in FieldType(c).keep /\ h.parsed \in FieldType(c).parsed
      /\ h.clen \in FieldType(c).clen
  BY DEF FieldType
<1>9. Shape(c, h)
  BY <1>2, <1>7, <1>8, ShapeKept
<1>10. r.rd /\ ~r.wr
  BY <1>2, FieldsTyped DEF Sound, Watched, Open, Writing
<1>11. r.lbreq <= Extra(r) /\ r.buf # <<>> /\ ~r.buf[1].body
  BY DEF Sound, Buffered, Asking
<1>12. Extra(h) = Extra(r) /\ Size(h) = Size(r)
  BY <1>6 DEF Extra, Size
<1> QED
  BY <1>6, <1>7, <1>9, <1>10, <1>11, <1>12

\* parse_request: to the callback, or without it.
LEMMA ParseHeaderSound ==
  ASSUME scene \in Scenes, NEW c \in Conns, NEW r, Sound(c, r), r.state = "PARSE_HEADER",
         NEW n \in 1 .. 2, NEW q, q = Asked(c, r)
  PROVE  LET e == ParseHeader(r, q, n)
         IN  /\ Sound(c, e) /\ e.rd /\ ~e.wr /\ e.idle = r.idle /\ e.eof = r.eof
             /\ e.asked = r.asked /\ Size(e) = Size(r) /\ e.buf # <<>> /\ e.buf[1] = r.buf[1]
             /\ ReachesCallback(e, q) => Heard(c, e) /\ (Clean(c, r) => HeardClean(c, e))
             /\ ~ReachesCallback(e, q) =>
                  e.state \in {"WRITE_HEADER", "READ_BODY"} /\ (Clean(c, r) => Clean(c, e) /\ ~r.asked)
<1>1. PICK e, h, b : /\ e = ParseHeader(r, q, n)
                     /\ h = [r EXCEPT !.keep = r.parsed \/ q.keep, !.parsed = TRUE,
                                      !.clen = IF q.post THEN 1 ELSE @]
                     /\ b = ReadBody(h, n)
  OBVIOUS
<1>0. SUFFICES
        /\ Sound(c, e) /\ e.rd /\ ~e.wr /\ e.idle = r.idle /\ e.eof = r.eof
        /\ e.asked = r.asked /\ Size(e) = Size(r) /\ e.buf # <<>> /\ e.buf[1] = r.buf[1]
        /\ ReachesCallback(e, q) => Heard(c, e) /\ (Clean(c, r) => HeardClean(c, e))
        /\ ~ReachesCallback(e, q) =>
             e.state \in {"WRITE_HEADER", "READ_BODY"} /\ (Clean(c, r) => Clean(c, e) /\ ~r.asked)
  BY <1>1
<1>2. /\ Shape(c, r) /\ r.rd /\ ~r.wr /\ r.buf # <<>> /\ ~r.buf[1].body /\ r.lbreq <= Extra(r)
      /\ r = [f \in Fields |-> r[f]]
  BY FieldsTyped DEF Sound, Watched, Open, Writing, Buffered, Asking, Shape
<1>3. /\ q.post \in BOOLEAN /\ q.keep \in BOOLEAN /\ q.user \in BOOLEAN
      /\ Current(r) = r.buf[1].req /\ Current(r) \in Nat
  BY <1>2, AskedType
<1>8. PICK k, l, p : /\ k = (r.parsed \/ q.keep) /\ l = (IF q.post THEN 1 ELSE r.clen) /\ p = TRUE
  OBVIOUS
<1>9. h = [r EXCEPT !.keep = k, !.parsed = p, !.clen = l]
  BY <1>1, <1>2, <1>8 DEF Fields
<1>11. Same(r, h, {"keep", "parsed", "clen"}) /\ h.keep = k /\ h.parsed = p /\ h.clen = l
  BY <1>2, <1>9 DEF Fields, Same
<1>10. k \in BOOLEAN /\ l \in {0, 1} /\ p \in BOOLEAN
  BY <1>2, <1>3, <1>8, FieldsTyped
<1>4. /\ Shape(c, h) /\ Ahead(c, h) = Ahead(c, r)
      /\ h.buf = r.buf /\ h.lbreq = r.lbreq /\ h.state = r.state /\ h.rd /\ ~h.wr
      /\ h.lbreq <= Extra(h) /\ h.buf # <<>> /\ ~h.buf[1].body
      /\ h.asked = r.asked /\ h.eof = r.eof /\ h.idle = r.idle /\ h.got = r.got
      /\ h.written = r.written /\ Size(h) = Size(r)
      /\ q.post => h.clen = 1
  <2>1. /\ Shape(c, h) /\ Ahead(c, h) = Ahead(c, r)
        /\ h.buf = r.buf /\ h.lbreq = r.lbreq /\ h.state = r.state /\ h.rd /\ ~h.wr
        /\ h.lbreq <= Extra(h) /\ h.buf # <<>> /\ ~h.buf[1].body
        /\ h.asked = r.asked /\ h.eof = r.eof /\ h.idle = r.idle /\ h.got = r.got
        /\ h.written = r.written /\ Size(h) = Size(r)
    BY <1>10, <1>11, HeaderSound
  <2> QED
    BY <1>8, <1>11, <2>1
<1>5. Clean(c, r) => Fresh(c, r) /\ Fresh(c, h) /\ (r.asked => Accepted(q) /\ ~q.post /\ Kind(q) \in {"info", "add"})
  BY <1>4 DEF Clean, Fresh, Passed, Writing
<1>6. CASE q.path = "malformed" \/ ~q.user
  <2>1. PICK w, status, ka : /\ w \in {r, h} /\ e = MkError(w, status, ka) /\ ka \in BOOLEAN
                             /\ (~ka /\ status = "400") \/ (status = "401" /\ ~q.user /\ q.path # "malformed")
    BY <1>1, <1>6 DEF ParseHeader
  <2>2. /\ Shape(c, w) /\ w.rd /\ ~w.wr /\ w.buf = r.buf /\ w.lbreq <= Extra(w)
        /\ w.asked = r.asked /\ w.idle = r.idle /\ w.eof = r.eof /\ Size(w) = Size(r)
        /\ w = [f \in Fields |-> w[f]]
    BY <1>2, <1>4, <2>1 DEF Shape
  <2>3. /\ Same(w, e, {"state", "body", "reply", "for", "keep"})
        /\ e.state = "WRITE_HEADER" /\ e.body = "static" /\ e.reply = status
        /\ e.for = Current(w) /\ e.keep = (w.keep /\ ka)
    BY <2>1, <2>2, MkErrorIs
  <2>4. Current(w) = Current(r) /\ status \in Replies /\ w.keep \in BOOLEAN
    BY <2>1, <2>2, FieldsTyped DEF Current, Replies
  <2>5. Sound(c, e) /\ (Fresh(c, w) /\ Answering(c, e) => Clean(c, e))
    <3>1. /\ e.body \in {"none", "heap", "static"} /\ e.reply \in Replies
          /\ e.for \in Nat /\ e.keep \in BOOLEAN /\ (e.keep => w.keep)
      BY <1>3, <2>1, <2>3, <2>4
    <3> QED
      BY <2>2, <2>3, <3>1, AnswerSound
  <2>6. /\ e.rd = w.rd /\ e.wr = w.wr /\ e.idle = w.idle /\ e.eof = w.eof /\ e.asked = w.asked
        /\ e.buf = w.buf /\ e.inbox = w.inbox
    BY <2>3 DEF Fields, Same
  <2>7. Answering(c, e)
    <3>1. e.buf # <<>> /\ ~e.buf[1].body /\ e.for = e.buf[1].req
      BY <1>2, <1>3, <2>2, <2>3, <2>4, <2>6
    <3>2. CASE ~ka /\ status = "400"
      BY <2>3, <3>2 DEF Answering, Bad
    <3>3. CASE status = "401" /\ ~q.user /\ q.path # "malformed"
      <4>1. scene.asks[c][e.for] = q
        BY <1>3, <2>3, <2>4 DEF Asked
      <4> QED
        BY <2>3, <3>1, <3>3, <4>1, ExpectedIs DEF Answering
    <3> QED
      BY <2>1, <3>2, <3>3
  <2>8. ~ReachesCallback(e, q)
    BY <1>6 DEF ReachesCallback
  <2>9. Clean(c, r) => Clean(c, e) /\ ~r.asked
    BY <1>5, <1>6, <2>1, <2>5, <2>7 DEF Accepted
  <2> QED
    BY <1>2, <2>2, <2>3, <2>5, <2>6, <2>8, <2>9 DEF Size
<1>7. CASE q.path # "malformed" /\ q.user
  <2>1. /\ ReadOn(c, h, b) /\ b.keep = h.keep /\ b.clen = h.clen
        /\ b.state \in {"PARSE_HEADER", "PARSE_BODY", "CLOSE"}
        /\ b.state = "PARSE_BODY" => b.lbreq = b.clen
    <3>1. h.state = "PARSE_HEADER" /\ Shape(c, h) /\ h.rd /\ ~h.wr
          /\ h.lbreq <= Extra(h) /\ h.buf # <<>> /\ ~h.buf[1].body
      BY <1>4
    <3>2. h.state \in {"READ_BODY", "PARSE_HEADER"}
      BY <3>1
    <3>3. /\ ReadOn(c, h, ReadBody(h, n)) /\ ReadBody(h, n).keep = h.keep
          /\ ReadBody(h, n).clen = h.clen
          /\ ReadBody(h, n).state \in {h.state, "PARSE_BODY", "CLOSE"}
          /\ ReadBody(h, n).state = "PARSE_BODY" => ReadBody(h, n).lbreq = ReadBody(h, n).clen
      BY <3>1, <3>2, ReadBodySound
    <3> QED
      BY <1>1, <3>1, <3>3
  <2>2. PICK st : /\ st = IF ~q.post THEN b.state ELSE IF b.lbreq < b.clen THEN "READ_BODY" ELSE "PROCESS"
                  /\ e = [b EXCEPT !.state = st]
    <3>1. CASE ~q.post
      <4>1. e = b /\ b = [f \in Fields |-> b[f]]
        BY <1>1, <1>7, <2>1, <3>1 DEF ParseHeader, ReadOn, HasRead, Sound, Shape
      <4>2. b = [b EXCEPT !.state = b.state]
        BY <4>1 DEF Fields
      <4> QED
        BY <3>1, <4>1, <4>2
    <3>2. CASE q.post
      BY <1>1, <1>7, <3>2 DEF ParseHeader
    <3> QED
      BY <1>3, <3>1, <3>2
  <2>3. /\ Shape(c, b) /\ b = [f \in Fields |-> b[f]] /\ b.rd /\ ~b.wr /\ b.lbreq <= Extra(b)
        /\ b.buf # <<>> /\ b.buf[1] = r.buf[1] /\ b.eof = r.eof /\ b.idle = r.idle
        /\ b.asked = r.asked /\ b.written = r.written /\ b.got = r.got /\ Size(b) = Size(r)
        /\ Ahead(c, b) = Ahead(c, r) /\ (b.state = "CLOSE" => b.eof)
    BY <1>4, <2>1 DEF ReadOn, HasRead, Sound, Shape
  <2>4. Same(b, e, {"state"}) /\ e.state = st
    BY <2>2, <2>3 DEF Fields, Same
  <2>5. /\ e.buf = b.buf /\ e.inbox = b.inbox /\ e.sent = b.sent /\ e.rd = b.rd /\ e.wr = b.wr
        /\ e.got = b.got /\ e.asked = b.asked /\ e.written = b.written /\ e.idle = b.idle
        /\ e.eof = b.eof /\ e.lbreq = b.lbreq
    BY <2>4 DEF Fields, Same
  <2>6. /\ st \in {"PARSE_HEADER", "PARSE_BODY", "CLOSE", "READ_BODY", "PROCESS"}
        /\ st = "CLOSE" => b.eof
        /\ st = "READ_BODY" => q.post
        /\ st = "PARSE_HEADER" => ~q.post
    BY <1>3, <2>1, <2>2, <2>3
  <2>7. Ahead(c, e) = Ahead(c, b) /\ Extra(e) = Extra(b) /\ Size(e) = Size(b)
    BY <2>5 DEF Ahead, Extra, Size
  <2>8. e.state \in FieldType(c).state
    BY <2>4, <2>6 DEF FieldType, States, Asking
  <2>9. Shape(c, e)
    BY <2>3, <2>4, <2>7, <2>8, ShapeKept
  <2>10. Watched(e)
    BY <2>3, <2>4, <2>5, <2>6 DEF Watched, Open, Writing
  <2>11. Buffered(e)
    BY <1>2, <2>3, <2>4, <2>5, <2>6, <2>7 DEF Buffered, Asking
  <2>12. Sound(c, e)
    BY <2>9, <2>10, <2>11 DEF Sound
  <2>13. Asked(c, e) = q
    BY <2>3, <2>5 DEF Asked
  <2>14. Clean(c, r) => Fresh(c, e)
    BY <1>5, <2>3, <2>5, <2>7 DEF Fresh, Passed
  <2>15. ReachesCallback(e, q) <=> st # "READ_BODY"
    BY <1>7, <2>4 DEF ReachesCallback
  <2>16. ASSUME st # "READ_BODY" PROVE Heard(c, e) /\ (Clean(c, r) => HeardClean(c, e))
    <3>1. Heard(c, e)
      BY <1>2, <2>3, <2>4, <2>5, <2>6, <2>7, <2>12, <2>16 DEF Heard, Asking
    <3>2. Clean(c, r) => HeardClean(c, e)
      BY <1>5, <1>7, <2>3, <2>4, <2>5, <2>6, <2>13, <2>14 DEF HeardClean, Accepted
    <3> QED
      BY <3>1, <3>2
  <2>17. ASSUME st = "READ_BODY", Clean(c, r) PROVE Clean(c, e) /\ ~r.asked
    <3>1. ~r.asked /\ ~e.asked
      BY <1>5, <2>3, <2>5, <2>6, <2>17
    <3>2. Fresh(c, e) /\ Accepted(Asked(c, e))
      BY <1>7, <2>13, <2>14, <2>17 DEF Accepted
    <3> QED
      BY <2>4, <2>17, <3>1, <3>2 DEF Clean, Fresh, Writing
  <2> QED
    BY <2>3, <2>4, <2>5, <2>7, <2>12, <2>15, <2>16, <2>17
<1> QED
  BY <1>3, <1>6, <1>7

\* The answer to a request the callback was called with.
LEMMA AnswerHeard ==
  ASSUME scene \in Scenes, NEW c \in Conns, NEW e, Heard(c, e),
         NEW f, Same(e, f, {"state", "body", "reply", "for", "keep"}),
         f.state = "WRITE_HEADER", f.body \in {"none", "heap", "static"}, f.reply \in Replies,
         f.for = Current(e), f.keep = e.keep
  PROVE  /\ Sound(c, f) /\ f.rd /\ ~f.wr /\ f.idle = e.idle /\ Size(f) = Size(e)
         /\ HeardClean(c, e) /\ f.reply = Expected(Asked(c, e)) => Clean(c, f)
<1>1. /\ Shape(c, e) /\ e.rd /\ ~e.wr /\ e.buf # <<>> /\ ~e.buf[1].body /\ e.lbreq <= Extra(e)
      /\ e.keep \in BOOLEAN /\ e.eof \in BOOLEAN
  BY FieldsTyped DEF Heard, Sound
<1>2. Current(e) = e.buf[1].req /\ Current(e) \in Nat
  BY <1>1, AskedType
<1>3. f.rd = e.rd /\ f.wr = e.wr /\ f.idle = e.idle /\ f.buf = e.buf /\ f.inbox = e.inbox
  BY DEF Fields, Same
<1>4. f.for \in Nat /\ f.keep \in BOOLEAN /\ (f.keep => e.keep)
  BY <1>1, <1>2
<1>5. Sound(c, f) /\ (Fresh(c, e) /\ Answering(c, f) => Clean(c, f))
  BY <1>1, <1>4, AnswerSound
<1>6. f.reply = Expected(Asked(c, e)) => Answering(c, f)
  BY <1>1, <1>2, <1>3 DEF Answering, Asked
<1>7. Size(f) = Size(e)
  BY <1>3 DEF Size
<1> QED
  BY <1>1, <1>3, <1>5, <1>6, <1>7 DEF HeardClean

\* mkheader.
LEMMA MkHeaderIs ==
  ASSUME NEW r, r = [f \in Fields |-> r[f]], NEW reply, NEW k,
         NEW e, e = MkHeader(r, reply, k)
  PROVE  /\ Same(r, e, {"state", "body", "reply", "for", "keep"})
         /\ e.state = "WRITE_HEADER" /\ e.body = "heap" /\ e.for = k /\ e.keep = r.keep
         /\ e.reply = IF r.written THEN "garbled" ELSE reply
BY DEF MkHeader, Fields, Same

\* A command that is to be an event.
LEMMA AskSound ==
  ASSUME scene \in Scenes, NEW c \in Conns, NEW e, Heard(c, e),
         NEW f, Same(e, f, {"asked"}), f.asked = TRUE
  PROVE  /\ Heard(c, f) /\ f.idle = e.idle /\ Size(f) = Size(e) /\ f.state = e.state
         /\ f.buf = e.buf /\ f.eof = e.eof
         /\ HeardClean(c, e) /\ Kind(Asked(c, e)) \in {"info", "add"} => Clean(c, f) /\ HeardClean(c, f)
<1>1. /\ Shape(c, e) /\ e.rd /\ ~e.wr /\ e.buf # <<>> /\ ~e.buf[1].body /\ e.lbreq <= Extra(e)
      /\ Watched(e) /\ Buffered(e)
  BY FieldsTyped DEF Heard, Sound
<1>3. /\ f.rd = e.rd /\ f.wr = e.wr /\ f.idle = e.idle /\ f.buf = e.buf /\ f.inbox = e.inbox
      /\ f.eof = e.eof /\ f.state = e.state /\ f.got = e.got /\ f.written = e.written
      /\ f.sent = e.sent /\ f.lbreq = e.lbreq /\ f.keep = e.keep
  BY DEF Fields, Same
<1>4. Ahead(c, f) = Ahead(c, e) /\ Size(f) = Size(e) /\ Extra(f) = Extra(e)
  BY <1>3 DEF Ahead, Size, Extra
<1>2. f.asked \in FieldType(c).asked
  <2>1. f.asked = TRUE
    <3>1. f.asked \in BOOLEAN
      BY DEF Same, Fields
    <3> QED
      BY <3>1
  <2> QED
    BY <2>1 DEF FieldType
<1>5. Shape(c, f)
  <2>1. \A x \in {"asked"} : f[x] \in FieldType(c)[x]
    BY <1>2
  <2> QED
    BY <1>1, <1>4, <2>1, ShapeKept
<1>6. Watched(f) /\ Buffered(f)
  BY <1>1, <1>3, <1>4 DEF Watched, Buffered, Open
<1>7. Heard(c, f)
  BY <1>1, <1>3, <1>4, <1>5, <1>6 DEF Heard, Sound
<1>8. Asked(c, f) = Asked(c, e)
  BY <1>3 DEF Asked
<1>9. ASSUME HeardClean(c, e), Kind(Asked(c, e)) \in {"info", "add"}
      PROVE  Clean(c, f) /\ HeardClean(c, f)
  <2>1. Fresh(c, f) /\ Accepted(Asked(c, f)) /\ (f.state = "PARSE_HEADER" => ~Asked(c, f).post)
    BY <1>3, <1>4, <1>8, <1>9 DEF HeardClean, Fresh, Passed
  <2>2. f.state \in Asking \cup {"CLOSE"}
    BY <1>7 DEF Heard
  <2>3. HeardClean(c, f)
    BY <1>8, <1>9, <2>1 DEF HeardClean
  <2>4. Clean(c, f)
    BY <1>8, <1>9, <2>1, <2>2 DEF Clean, Fresh, Asking, Writing
  <2> QED
    BY <2>3, <2>4
<1> QED
  BY <1>3, <1>4, <1>7, <1>9

\* What is left of s and t when the first k elements of s are dropped.
LEMMA DropSeq ==
  \A S : \A s, t \in Seq(S) : \A k \in 0 .. Len(s) :
    LET u == SubSeq(s, k + 1, Len(s)) \o t
    IN  /\ u \in Seq(S) /\ Len(u) = Len(s \o t) - k
        /\ \A i \in 1 .. Len(u) : u[i] = (s \o t)[i + k] /\ i + k \in 1 .. Len(s \o t)
<1> TAKE S
<1> TAKE s, t \in Seq(S)
<1> TAKE k \in 0 .. Len(s)
<1>1. PICK b : b = SubSeq(s, k + 1, Len(s))
  OBVIOUS
<1>2. b \in Seq(S) /\ Len(b) = Len(s) - k /\ \A i \in 1 .. Len(s) - k : b[i] = s[k + i]
  BY <1>1, SplitSeq
<1>3. Len(s) \in Nat /\ Len(t) \in Nat /\ k \in Nat
  OBVIOUS
<1>4. /\ b \o t \in Seq(S) /\ Len(b \o t) = Len(b) + Len(t)
      /\ \A i \in 1 .. Len(b) + Len(t) :
           (b \o t)[i] = IF i <= Len(b) THEN b[i] ELSE t[i - Len(b)]
  <2>1. b \in Seq(S)
    BY <1>2
  <2> QED
    BY <2>1
<1>5. /\ Len(s \o t) = Len(s) + Len(t)
      /\ \A i \in 1 .. Len(s) + Len(t) :
           (s \o t)[i] = IF i <= Len(s) THEN s[i] ELSE t[i - Len(s)]
  OBVIOUS
<1>6. ASSUME NEW i \in 1 .. Len(b \o t)
      PROVE  (b \o t)[i] = (s \o t)[i + k] /\ i + k \in 1 .. Len(s \o t)
  <2>1. i \in Nat /\ i + k \in 1 .. Len(s) + Len(t) /\ i \in 1 .. Len(b) + Len(t)
    BY <1>2, <1>3, <1>4
  <2>2. CASE i <= Len(b)
    <3>1. i \in 1 .. Len(s) - k /\ i + k <= Len(s) /\ k + i = i + k
      BY <1>2, <1>3, <2>1, <2>2
    <3>2. (b \o t)[i] = b[i] /\ (s \o t)[i + k] = s[i + k]
      BY <1>4, <1>5, <2>1, <2>2, <3>1
    <3>3. b[i] = s[k + i]
      BY <1>2, <3>1
    <3> QED
      BY <1>5, <2>1, <3>1, <3>2, <3>3
  <2>3. CASE ~(i <= Len(b))
    <3>1. ~(i + k <= Len(s)) /\ i - Len(b) = (i + k) - Len(s)
      BY <1>2, <1>3, <2>1, <2>3
    <3>2. (b \o t)[i] = t[i - Len(b)] /\ (s \o t)[i + k] = t[(i + k) - Len(s)]
      BY <1>4, <1>5, <2>1, <2>3, <3>1
    <3> QED
      BY <1>5, <2>1, <3>1, <3>2
  <2> QED
    BY <2>2, <2>3
<1>7. Len(b \o t) = Len(s \o t) - k
  BY <1>2, <1>3, <1>4, <1>5
<1> QED
  BY <1>1, <1>4, <1>6, <1>7

\* A connection that loses the first k parts of its buffer.
LEMMA DropAhead ==
  ASSUME NEW c \in Conns, Plan(c) \in Seq(Part(c)), NEW r, Shape(c, r),
         NEW k \in 0 .. Len(r.buf),
         NEW e, e.buf = SubSeq(r.buf, k + 1, Len(r.buf)), e.inbox = r.inbox, e.sent = r.sent
  PROVE  /\ Ordered(Ahead(c, e)) /\ e.buf \in Seq(Part(c))
         /\ k > 0 /\ e.got = r.got /\ Passed(c, r, 1) => Passed(c, e, 0)
<1>1. PICK b, p, q, u : /\ b = r.buf /\ u = SubSeq(b, k + 1, Len(b)) /\ p = r.inbox
                        /\ q = SubSeq(Plan(c), r.sent + 1, Len(Plan(c)))
  OBVIOUS
<1>2. b \in Seq(Part(c)) /\ p \in Seq(Part(c)) /\ r.sent \in 0 .. Len(Plan(c))
  BY <1>1, FieldsTyped
<1>3. q \in Seq(Part(c))
  BY <1>1, <1>2, SplitSeq
<1>4. PICK t : t = p \o q
  OBVIOUS
<1>5. t \in Seq(Part(c))
  BY <1>2, <1>3, <1>4, JoinSeq
<1>6. k \in 0 .. Len(b) /\ k \in Nat
  BY <1>1
<1>7. u \in Seq(Part(c))
  BY <1>1, <1>2, <1>6, SplitSeq
<1>8. Ahead(c, r) = b \o t
  <2>0. b \in Seq(Part(c)) /\ p \in Seq(Part(c)) /\ q \in Seq(Part(c))
    BY <1>2, <1>3
  <2>1. Assoc(b, p, q)
    BY ONLY <2>0, AssocSeq
  <2> QED
    BY <1>1, <1>4, <2>1 DEF Ahead, Assoc
<1>9. Ahead(c, e) = u \o t
  <2>0. u \in Seq(Part(c)) /\ p \in Seq(Part(c)) /\ q \in Seq(Part(c))
    BY <1>2, <1>3, <1>7
  <2>1. Assoc(u, p, q)
    BY ONLY <2>0, AssocSeq
  <2> QED
    BY <1>1, <1>4, <2>1 DEF Ahead, Assoc
<1>10. PICK w, x : w = b \o t /\ x = u \o t
  OBVIOUS
<1>11. /\ w \in Seq(Part(c)) /\ x \in Seq(Part(c)) /\ Len(x) = Len(w) - k
       /\ \A i \in 1 .. Len(x) : x[i] = w[i + k] /\ i + k \in 1 .. Len(w)
  <2>1. \A m \in 0 .. Len(b) :
          LET v == SubSeq(b, m + 1, Len(b)) \o t
          IN  /\ v \in Seq(Part(c)) /\ Len(v) = Len(b \o t) - m
              /\ \A i \in 1 .. Len(v) : v[i] = (b \o t)[i + m] /\ i + m \in 1 .. Len(b \o t)
    BY <1>2, <1>5, DropSeq
  <2>2. x = SubSeq(b, k + 1, Len(b)) \o t
    BY <1>1, <1>10
  <2>3. w \in Seq(Part(c))
    BY <1>2, <1>5, <1>10, JoinSeq
  <2> QED
    BY <1>6, <1>10, <2>1, <2>2, <2>3
<1>12. DOMAIN x = 1 .. Len(x) /\ DOMAIN w = 1 .. Len(w)
  BY <1>11
<1>13. Ordered(w)
  BY <1>8, <1>10 DEF Shape
<1>14. Ordered(x)
  <2> SUFFICES ASSUME NEW i \in DOMAIN x, NEW j \in DOMAIN x, i < j, ~x[j].body
               PROVE  x[i].req < x[j].req
    BY DEF Ordered
  <2>1. /\ x[i] = w[i + k] /\ x[j] = w[j + k] /\ i + k \in DOMAIN w /\ j + k \in DOMAIN w
        /\ i + k < j + k
    BY <1>6, <1>11, <1>12
  <2> QED
    BY <1>13, <2>1 DEF Ordered
<1>15. ASSUME k > 0, e.got = r.got, Passed(c, r, 1) PROVE Passed(c, e, 0)
  <2> SUFFICES ASSUME NEW l \in DOMAIN r.got
               PROVE  /\ Good(c, r.got[l])
                      /\ \A m \in DOMAIN r.got : m < l => r.got[m].req < r.got[l].req
                      /\ \A i \in DOMAIN x : i > 0 /\ ~x[i].body => r.got[l].req < x[i].req
    BY <1>9, <1>10, <1>15 DEF Passed
  <2>1. /\ Good(c, r.got[l])
        /\ \A m \in DOMAIN r.got : m < l => r.got[m].req < r.got[l].req
        /\ \A i \in DOMAIN w : i > 1 /\ ~w[i].body => r.got[l].req < w[i].req
    BY <1>8, <1>10, <1>15 DEF Passed
  <2>2. ASSUME NEW i \in DOMAIN x, ~x[i].body PROVE r.got[l].req < x[i].req
    <3>1. x[i] = w[i + k] /\ i + k \in DOMAIN w /\ i + k > 1
      BY <1>6, <1>11, <1>12, <1>15
    <3> QED
      BY <2>1, <2>2, <3>1
  <2> QED
    BY <2>1, <2>2
<1> QED
  BY <1>1, <1>7, <1>9, <1>10, <1>14, <1>15

\* What the socket takes of an answer.
RoomSet == {"all", "part", "none", "broken"}

\* e is r after something was written, or was not.
Wrote(c, r, e) ==
  /\ Sound(c, e) /\ Size(e) = Size(r) /\ e.idle = r.idle /\ e.keep = r.keep
  /\ e.state \in {"FINISHED", "WRITE_BODY", "CLOSE", r.state}
  /\ Clean(c, r) => Clean(c, e)

\* An answer is complete: the client has it after those before it.
LEMMA AnswerOrdered ==
  ASSUME NEW c \in Conns, Plan(c) \in Seq(Part(c)),
         NEW r, Shape(c, r), Clean(c, r), r.state \in Writing,
         NEW e, e.got = Append(r.got, [req |-> r.for, reply |-> r.reply]),
         Ahead(c, e) = Ahead(c, r), e.keep = r.keep, e.buf = r.buf, r.keep \in BOOLEAN
  PROVE  InOrder(c, e.got) /\ (e.keep => e.buf # <<>> /\ Passed(c, e, 1))
<1>1. /\ Passed(c, r, 0) /\ Answering(c, r)
  BY DEF Clean, Writing
<1>2. PICK g, a, w : g = r.got /\ a = [req |-> r.for, reply |-> r.reply] /\ w = Ahead(c, r)
  OBVIOUS
<1>3. g \in Seq(Reply) /\ a \in Reply
  BY <1>2, FieldsTyped DEF Reply
<1>4. /\ e.got = Append(g, a) /\ DOMAIN e.got = 1 .. Len(g) + 1 /\ DOMAIN g = 1 .. Len(g)
      /\ e.got[Len(g) + 1] = a /\ Len(e.got) = Len(g) + 1 /\ Len(g) \in Nat
      /\ \A k \in 1 .. Len(g) : e.got[k] = g[k]
  BY <1>2, <1>3
<1>5. \A k \in DOMAIN g :
        /\ Good(c, g[k])
        /\ \A l \in DOMAIN g : l < k => g[l].req < g[k].req
        /\ \A i \in DOMAIN w : i > 0 /\ ~w[i].body => g[k].req < w[i].req
  BY <1>1, <1>2 DEF Passed
<1>6. \A k \in DOMAIN g :
        /\ k < Len(g) + 1 /\ k \in DOMAIN e.got
        /\ Good(c, e.got[k]) /\ \A l \in DOMAIN e.got : l < k => e.got[l].req < e.got[k].req
  BY <1>4, <1>5
<1>7. CASE r.reply \in Bad /\ ~r.keep
  <2>1. InOrder(c, e.got)
    BY <1>2, <1>4, <1>6, <1>7 DEF InOrder
  <2> QED
    BY <1>7, <2>1
<1>8. CASE /\ r.buf # <<>> /\ ~r.buf[1].body
           /\ r.for = r.buf[1].req /\ r.reply = Expected(scene.asks[c][r.for])
  <2>1. 1 \in DOMAIN w /\ w[1] = r.buf[1] /\ DOMAIN w \subseteq Nat
    <3>1. PICK b, t, q : /\ b = r.buf /\ t = r.inbox
                         /\ q = SubSeq(Plan(c), r.sent + 1, Len(Plan(c)))
      OBVIOUS
    <3>2. b \in Seq(Part(c)) /\ t \in Seq(Part(c)) /\ b # <<>> /\ r.sent \in 0 .. Len(Plan(c))
      BY <1>8, <3>1, FieldsTyped
    <3>3. q \in Seq(Part(c))
      BY <3>1, <3>2, SplitSeq
    <3>4. b \o t \in Seq(Part(c)) /\ Len(b \o t) > 0 /\ (b \o t)[1] = b[1]
      <4>1. Len(b) \in Nat /\ Len(t) \in Nat /\ Len(b) > 0 /\ 1 \in 1 .. Len(b)
        BY <3>2
      <4> QED
        BY <3>2, <4>1, ConcatProperties
    <3>5. PICK ahead : ahead = b \o t
      OBVIOUS
    <3>6. ahead \o q \in Seq(Part(c)) /\ Len(ahead \o q) > 0 /\ (ahead \o q)[1] = ahead[1]
      <4>1. Len(ahead) \in Nat /\ Len(q) \in Nat /\ Len(ahead) > 0 /\ 1 \in 1 .. Len(ahead)
        BY <3>3, <3>4, <3>5
      <4>2. ahead \in Seq(Part(c))
        BY <3>4, <3>5
      <4> QED
        BY <3>3, <4>1, <4>2, ConcatProperties
    <3>7. w = ahead \o q
      BY <1>2, <3>1, <3>5 DEF Ahead
    <3>8. DOMAIN (ahead \o q) = 1 .. Len(ahead \o q) /\ Len(ahead \o q) \in Nat
      BY <3>6
    <3>9. w[1] = r.buf[1] /\ DOMAIN w = 1 .. Len(w) /\ Len(w) \in Nat /\ Len(w) > 0
      BY <3>1, <3>4, <3>5, <3>6, <3>7, <3>8
    <3> QED
      BY <3>9
  <2>2. \A k \in DOMAIN g : g[k].req < r.for
    BY <1>5, <1>8, <2>1
  <2>3. Good(c, a)
    <3>2. r.buf[1] \in Part(c)
      BY <1>8, FieldsTyped
    <3>1. r.buf[1].req \in DOMAIN scene.asks[c]
      BY <3>2 DEF Part
    <3> QED
      BY <1>2, <1>8, <3>1 DEF Good
  <2>4. \A k \in DOMAIN e.got :
          /\ Good(c, e.got[k]) /\ \A l \in DOMAIN e.got : l < k => e.got[l].req < e.got[k].req
    BY <1>2, <1>4, <1>6, <2>2, <2>3
  <2>5. InOrder(c, e.got)
    BY <2>4 DEF InOrder
  <2>6. \A i \in DOMAIN w : i > 1 /\ ~w[i].body => r.for < w[i].req
    BY <1>2, <1>8, <2>1 DEF Shape, Ordered
  <2>7. \A k \in DOMAIN e.got : \A i \in DOMAIN w : i > 1 /\ ~w[i].body => e.got[k].req < w[i].req
    BY <1>2, <1>4, <1>5, <2>1, <2>6
  <2>8. Passed(c, e, 1)
    BY <1>2, <2>4, <2>7 DEF Passed
  <2> QED
    BY <1>8, <2>5, <2>8
<1> QED
  BY <1>1, <1>7, <1>8 DEF Answering

\* write_request.
LEMMA WriteRequestSound ==
  ASSUME NEW c \in Conns, Plan(c) \in Seq(Part(c)),
         NEW r, Sound(c, r), r.state \in Writing, NEW room \in RoomSet, r.wr \/ room = "all"
  PROVE  Wrote(c, r, WriteRequest(r, room)) /\ WriteRequest(r, room).wr = r.wr
<1>1. PICK e : e = WriteRequest(r, room)
  OBVIOUS
<1>2. /\ Shape(c, r) /\ r = [f \in Fields |-> r[f]] /\ r.got \in Seq(Reply) /\ r.for \in Nat
      /\ r.reply \in Replies /\ r.keep \in BOOLEAN
      /\ Watched(r) /\ Buffered(r)
  BY FieldsTyped DEF Sound, Shape
<1>3. CASE room = "all"
  <2>1. PICK n, g : n = FALSE /\ g = Append(r.got, [req |-> r.for, reply |-> r.reply])
    OBVIOUS
  <2>2. e = [r EXCEPT !.state = "FINISHED", !.written = n, !.got = g]
    BY <1>1, <1>2, <1>3, <2>1 DEF WriteRequest, Fields
  <2>3. Same(r, e, {"state", "written", "got"}) /\ e.state = "FINISHED" /\ e.written = n /\ e.got = g
    BY <1>2, <2>2 DEF Fields, Same
  <2>4. /\ e.buf = r.buf /\ e.inbox = r.inbox /\ e.sent = r.sent /\ e.rd = r.rd /\ e.wr = r.wr
        /\ e.asked = r.asked /\ e.idle = r.idle /\ e.keep = r.keep /\ e.lbreq = r.lbreq
    BY <2>3 DEF Fields, Same
  <2>5. Ahead(c, e) = Ahead(c, r) /\ Size(e) = Size(r) /\ Extra(e) = Extra(r)
    BY <2>4 DEF Ahead, Size, Extra
  <2>6. /\ e.state \in FieldType(c).state /\ e.written \in FieldType(c).written
        /\ e.got \in FieldType(c).got
    <3>1. PICK h, a : h = r.got /\ a = [req |-> r.for, reply |-> r.reply]
      OBVIOUS
    <3>2. h \in Seq(Reply) /\ a \in Reply
      BY <1>2, <3>1 DEF Reply
    <3>3. Append(h, a) \in Seq(Reply)
      BY <3>2
    <3> QED
      BY <2>1, <2>3, <3>1, <3>3 DEF FieldType, States
  <2>7. Shape(c, e)
    BY <1>2, <2>3, <2>5, <2>6, ShapeKept
  <2>8. Watched(e) /\ Buffered(e)
    BY <1>2, <2>3, <2>4, <2>5 DEF Watched, Buffered, Open, Writing, Asking
  <2>9. ASSUME Clean(c, r) PROVE Clean(c, e)
    <3>1. InOrder(c, e.got) /\ (e.keep => e.buf # <<>> /\ Passed(c, e, 1))
      BY <1>2, <2>1, <2>3, <2>4, <2>5, <2>9, AnswerOrdered
    <3> QED
      BY <2>1, <2>3, <3>1 DEF Clean, Writing
  <2> QED
    BY <1>1, <2>3, <2>4, <2>5, <2>7, <2>8, <2>9 DEF Wrote, Sound
<1>4. CASE room = "part"
  <2>1. PICK y : y = TRUE
    OBVIOUS
  <2>2. e = [r EXCEPT !.state = "WRITE_BODY", !.written = y]
    BY <1>1, <1>2, <1>4, <2>1 DEF WriteRequest, Fields
  <2>3. Same(r, e, {"state", "written"}) /\ e.state = "WRITE_BODY" /\ e.written = y
    BY <1>2, <2>2 DEF Fields, Same
  <2>4. /\ e.buf = r.buf /\ e.inbox = r.inbox /\ e.sent = r.sent /\ e.rd = r.rd /\ e.wr = r.wr
        /\ e.asked = r.asked /\ e.idle = r.idle /\ e.keep = r.keep /\ e.lbreq = r.lbreq
        /\ e.got = r.got /\ e.reply = r.reply /\ e.for = r.for
    BY <2>3 DEF Fields, Same
  <2>5. Ahead(c, e) = Ahead(c, r) /\ Size(e) = Size(r) /\ Extra(e) = Extra(r)
    BY <2>4 DEF Ahead, Size, Extra
  <2>6. e.state \in FieldType(c).state /\ e.written \in FieldType(c).written
    BY <1>2, <2>1, <2>3 DEF FieldType, States, Writing
  <2>7. Shape(c, e)
    BY <1>2, <2>3, <2>5, <2>6, ShapeKept
  <2>8. Watched(e) /\ Buffered(e)
    BY <1>2, <1>4, <2>3, <2>4, <2>5 DEF Watched, Buffered, Open, Writing, Asking
  <2>9. ASSUME Clean(c, r) PROVE Clean(c, e)
    <3>1. InOrder(c, r.got) /\ Passed(c, r, 0) /\ Answering(c, r)
      BY <2>9 DEF Clean, Writing
    <3>2. InOrder(c, e.got) /\ Passed(c, e, 0) /\ Answering(c, e)
      BY <2>4, <2>5, <3>1 DEF Passed, Answering
    <3> QED
      BY <2>3, <3>2 DEF Clean, Writing
  <2> QED
    BY <1>1, <2>3, <2>4, <2>5, <2>7, <2>8, <2>9 DEF Wrote, Sound
<1>5. CASE room = "broken"
  <2>2. e = [r EXCEPT !.state = "CLOSE"]
    BY <1>1, <1>5 DEF WriteRequest
  <2>3. Same(r, e, {"state"}) /\ e.state = "CLOSE"
    BY <1>2, <2>2 DEF Fields, Same
  <2>4. /\ e.buf = r.buf /\ e.inbox = r.inbox /\ e.sent = r.sent /\ e.rd = r.rd /\ e.wr = r.wr
        /\ e.asked = r.asked /\ e.idle = r.idle /\ e.keep = r.keep /\ e.lbreq = r.lbreq
        /\ e.got = r.got
    BY <2>3 DEF Fields, Same
  <2>5. Ahead(c, e) = Ahead(c, r) /\ Size(e) = Size(r)
    BY <2>4 DEF Ahead, Size
  <2>6. e.state \in FieldType(c).state
    BY <2>3 DEF FieldType, States
  <2>7. Shape(c, e)
    BY <1>2, <2>3, <2>5, <2>6, ShapeKept
  <2>8. Watched(e) /\ Buffered(e)
    BY <1>2, <1>5, <2>3, <2>4, <2>5 DEF Watched, Buffered, Open, Writing, Asking
  <2>9. Clean(c, r) => Clean(c, e)
    BY <2>3, <2>4 DEF Clean, Writing
  <2> QED
    BY <1>1, <2>3, <2>4, <2>5, <2>7, <2>8, <2>9 DEF Wrote, Sound
<1>6. CASE room = "none"
  <2>1. e = r
    BY <1>1, <1>6 DEF WriteRequest
  <2> QED
    BY <1>1, <2>1 DEF Wrote
<1> QED
  BY <1>3, <1>4, <1>5, <1>6 DEF RoomSet

\* switch_to_writing, for an answer that is ready.
LEMMA SwitchToWritingSound ==
  ASSUME NEW c \in Conns, Plan(c) \in Seq(Part(c)),
         NEW r, Sound(c, r), NEW room \in RoomSet
  PROVE  LET e == SwitchToWriting(r, room)
         IN  /\ Wrote(c, r, e)
             /\ r.state # "WRITE_HEADER" => e = r
             /\ e.state = "WRITE_HEADER" => e.wr
<1>1. PICK e : e = SwitchToWriting(r, room)
  OBVIOUS
<1>2. CASE r.state # "WRITE_HEADER"
  BY <1>2 DEF SwitchToWriting, Wrote
<1>3. CASE r.state = "WRITE_HEADER"
  <2>1. PICK n, y : n = FALSE /\ y = TRUE
    OBVIOUS
  <2>2. PICK w : w = [r EXCEPT !.rd = n, !.wr = y]
    OBVIOUS
  <2>3. e = WriteRequest(w, room)
    BY <1>1, <1>3, <2>1, <2>2 DEF SwitchToWriting
  <2>4. /\ Shape(c, r) /\ r = [f \in Fields |-> r[f]] /\ Watched(r) /\ Buffered(r)
    BY DEF Sound, Shape
  <2>5. Same(r, w, {"rd", "wr"}) /\ w.rd = n /\ w.wr = y
    BY <2>2, <2>4 DEF Fields, Same
  <2>6. /\ w.buf = r.buf /\ w.inbox = r.inbox /\ w.sent = r.sent /\ w.state = r.state
        /\ w.asked = r.asked /\ w.idle = r.idle /\ w.keep = r.keep /\ w.lbreq = r.lbreq
        /\ w.got = r.got /\ w.reply = r.reply /\ w.for = r.for /\ w.written = r.written
    BY <2>5 DEF Fields, Same
  <2>7. Ahead(c, w) = Ahead(c, r) /\ Size(w) = Size(r) /\ Extra(w) = Extra(r)
    BY <2>6 DEF Ahead, Size, Extra
  <2>8. w.rd \in FieldType(c).rd /\ w.wr \in FieldType(c).wr
    BY <2>1, <2>5 DEF FieldType
  <2>9. Shape(c, w)
    BY <2>4, <2>5, <2>7, <2>8, ShapeKept
  <2>10. Watched(w) /\ Buffered(w)
    BY <1>3, <2>1, <2>4, <2>5, <2>6, <2>7 DEF Watched, Buffered, Open, Writing, Asking
  <2>11. ASSUME Clean(c, r) PROVE Clean(c, w)
    <3>1. InOrder(c, r.got) /\ Passed(c, r, 0) /\ Answering(c, r) /\ ~r.written
      BY <1>3, <2>11 DEF Clean, Writing
    <3>2. InOrder(c, w.got) /\ Passed(c, w, 0) /\ Answering(c, w) /\ ~w.written
      BY <2>6, <2>7, <3>1 DEF Passed, Answering
    <3> QED
      BY <1>3, <2>6, <3>2 DEF Clean, Writing
  <2>12. Wrote(c, w, e) /\ e.wr
    BY <1>3, <2>1, <2>3, <2>5, <2>6, <2>9, <2>10, WriteRequestSound DEF Sound, Writing
  <2> QED
    BY <1>1, <1>3, <2>6, <2>7, <2>11, <2>12 DEF Wrote
<1> QED
  BY <1>2, <1>3

\* The end of a request of a connection that is kept.
LEMMA NextRequestSound ==
  ASSUME scene \in Scenes, NEW c \in Conns, Plan(c) \in Seq(Part(c)),
         NEW r, Sound(c, r), r.state = "FINISHED", r.keep
  PROVE  LET e == NextRequest(r)
         IN  /\ Sound(c, e) /\ e.idle = r.idle
             /\ e.state \in {"KEEPALIVE", "CLOSE", "PARSE_HEADER", "WRITE_HEADER"}
             /\ e.state = "WRITE_HEADER" => ~e.keep
             /\ e.state # "KEEPALIVE" => Size(e) < Size(r)
             /\ Clean(c, r) => Clean(c, e)
<1>1. PICK e, n, y, b : /\ e = NextRequest(r) /\ n = FALSE /\ y = TRUE
                        /\ b = IF r.body = "heap" THEN "none" ELSE r.body
  OBVIOUS
<1>2. PICK f : f = [r EXCEPT !.wr = n, !.rd = y, !.parsed = n, !.asked = n, !.body = b]
  OBVIOUS
<1>3. /\ Shape(c, r) /\ r = [g \in Fields |-> r[g]] /\ Watched(r) /\ Buffered(r)
      /\ r.buf \in Seq(Part(c)) /\ r.inbox \in Seq(Part(c)) /\ r.lbreq \in Nat
      /\ r.body \in {"none", "heap", "static"} /\ r.keep \in BOOLEAN /\ r.written \in BOOLEAN
  BY FieldsTyped DEF Sound, Shape
<1>4. f = [r EXCEPT !.wr = FALSE, !.rd = TRUE, !.parsed = FALSE, !.asked = FALSE,
                    !.body = IF @ = "heap" THEN "none" ELSE @]
  BY <1>1, <1>2, <1>3 DEF Fields
<1>5. /\ Same(r, f, {"wr", "rd", "parsed", "asked", "body"}) /\ f.wr = n /\ f.rd = y
      /\ f.parsed = n /\ f.asked = n /\ f.body = b
  BY <1>2, <1>3 DEF Fields, Same
<1>6. b \in {"none", "heap", "static"}
  BY <1>1, <1>3
<1>7. PICK k, d : /\ k = (IF Extra(r) = r.lbreq \/ r.buf = <<>> THEN Len(r.buf) ELSE r.lbreq + 1)
                  /\ d = SubSeq(r.buf, k + 1, Len(r.buf))
  OBVIOUS
<1>8. PICK l, st, rp, fr, g :
        /\ l = (IF Extra(r) = r.lbreq \/ r.buf = <<>> THEN 0 ELSE r.lbreq)
        /\ st = (IF Extra(r) = r.lbreq \/ r.buf = <<>> THEN "KEEPALIVE" ELSE "READ_HEADER")
        /\ rp = (IF Extra(r) = r.lbreq \/ r.buf = <<>> THEN "none" ELSE r.reply)
        /\ fr = (IF Extra(r) = r.lbreq \/ r.buf = <<>> THEN 0 ELSE r.for)
        /\ g = [f EXCEPT !.state = st, !.buf = d, !.lbreq = l, !.reply = rp, !.for = fr]
  OBVIOUS
<1>9. PICK s : s = r.buf
  OBVIOUS
<1>10. /\ s \in Seq(Part(c)) /\ Len(s) \in Nat /\ (s # <<>> => Len(s) > 0)
       /\ (s # <<>> => r.lbreq <= Len(s) - 1)
  BY <1>3, <1>9 DEF Buffered, Extra
<1>11. /\ k \in 0 .. Len(s) /\ (s # <<>> => k > 0)
       /\ ~(Extra(r) = r.lbreq \/ s = <<>>) => k < Len(s) /\ k = r.lbreq + 1
  <2>1. /\ k = (IF Len(s) - 1 = r.lbreq \/ s = <<>> THEN Len(s) ELSE r.lbreq + 1)
        /\ Extra(r) = Len(s) - 1
    BY <1>7, <1>9 DEF Extra
  <2>2. PICK z, m : z = r.lbreq /\ m = Len(s)
    OBVIOUS
  <2>3. /\ z \in Nat /\ m \in Nat /\ (s # <<>> => m > 0 /\ z <= m - 1) /\ (s = <<>> => m = 0)
        /\ k = (IF m - 1 = z \/ s = <<>> THEN m ELSE z + 1)
    BY <1>3, <1>10, <2>1, <2>2
  <2>4. /\ k \in 0 .. m /\ (s # <<>> => k > 0)
        /\ ~(m - 1 = z \/ s = <<>>) => k < m /\ k = z + 1
    BY ONLY <2>3
  <2> QED
    BY <2>1, <2>2, <2>4
<1>12. d \in Seq(Part(c)) /\ Len(d) = Len(s) - k
  <2>1. s \in Seq(Part(c)) /\ k \in 0 .. Len(s) /\ d = SubSeq(s, k + 1, Len(s))
    BY <1>7, <1>9, <1>10, <1>11
  <2> QED
    BY ONLY <2>1, SplitSeq
<1>13. /\ g.state = st /\ g.buf = d /\ g.lbreq = l /\ g.reply = rp /\ g.for = fr
       /\ Same(r, g, {"wr", "rd", "parsed", "asked", "body", "state", "buf", "lbreq", "reply", "for"})
       /\ g.wr = n /\ g.rd = y /\ g.parsed = n /\ g.asked = n /\ g.body = b
  BY <1>5, <1>8 DEF Fields, Same
<1>14. /\ g.inbox = r.inbox /\ g.sent = r.sent /\ g.got = r.got /\ g.idle = r.idle
       /\ g.keep = r.keep /\ g.eof = r.eof /\ g.written = r.written
  BY <1>13 DEF Fields, Same
<1>15. /\ Ordered(Ahead(c, g))
       /\ k > 0 /\ g.got = r.got /\ Passed(c, r, 1) => Passed(c, g, 0)
  BY <1>3, <1>7, <1>9, <1>11, <1>13, <1>14, DropAhead
<1>16. r.reply \in Replies /\ r.for \in Nat /\ "none" \in Replies
  BY <1>3, FieldsTyped DEF Replies
<1>17. Shape(c, g)
  <2>1. /\ g.wr \in FieldType(c).wr /\ g.rd \in FieldType(c).rd
        /\ g.parsed \in FieldType(c).parsed /\ g.asked \in FieldType(c).asked
        /\ g.body \in FieldType(c).body /\ g.state \in FieldType(c).state
        /\ g.buf \in FieldType(c).buf /\ g.lbreq \in FieldType(c).lbreq
        /\ g.reply \in FieldType(c).reply /\ g.for \in FieldType(c).for
    <3>1. l \in Nat /\ st \in States /\ rp \in Replies /\ fr \in Nat
      BY <1>3, <1>8, <1>16 DEF States
    <3>2. n \in BOOLEAN /\ y \in BOOLEAN
      BY <1>1
    <3> QED
      BY <1>6, <1>12, <1>13, <3>1, <3>2 DEF FieldType
  <2> QED
    BY <1>3, <1>13, <1>15, <2>1 DEF Shape, Same
<1>18. Clean(c, r) => Fresh(c, g)
  <2> SUFFICES ASSUME Clean(c, r) PROVE Fresh(c, g)
    OBVIOUS
  <2>1. r.buf # <<>> /\ Passed(c, r, 1) /\ InOrder(c, r.got) /\ ~r.written
    BY DEF Clean
  <2> QED
    BY <1>9, <1>11, <1>14, <1>15, <2>1 DEF Fresh
<1>19. CASE Extra(r) = r.lbreq \/ r.buf = <<>>
  <2>1. d = <<>>
    BY <1>7, <1>9, <1>10, <1>12, <1>19
  <2>2. e = [f EXCEPT !.state = "KEEPALIVE", !.buf = <<>>, !.lbreq = 0, !.reply = "none", !.for = 0]
    BY <1>1, <1>4, <1>19 DEF NextRequest
  <2>3. e = g
    BY <1>8, <1>19, <2>1, <2>2
  <2>4. Watched(g) /\ Buffered(g)
    <3>1. ~g.wr /\ g.rd /\ g.state = "KEEPALIVE" /\ g.buf = <<>>
      BY <1>1, <1>8, <1>13, <1>19, <2>1
    <3>2. g.rd = ~g.wr
      BY <1>1, <1>13
    <3> QED
      BY <3>1, <3>2 DEF Watched, Buffered, Open, Writing, Asking
  <2>5. Clean(c, r) => Clean(c, g)
    BY <1>1, <1>8, <1>13, <1>18, <1>19 DEF Fresh, Clean, Writing
  <2> QED
    BY <1>1, <1>8, <1>13, <1>14, <1>17, <1>19, <2>3, <2>4, <2>5 DEF Sound
<1>20. CASE ~(Extra(r) = r.lbreq \/ r.buf = <<>>)
  <2>1. d # <<>> /\ Len(d) < Len(s) /\ d = SubSeq(r.buf, r.lbreq + 2, Len(r.buf))
    <3>1. k = r.lbreq + 1 /\ k < Len(s) /\ k > 0 /\ k + 1 = r.lbreq + 2
      BY <1>3, <1>9, <1>11, <1>20
    <3>2. d = SubSeq(r.buf, r.lbreq + 2, Len(r.buf))
      BY <1>7, <3>1
    <3>3. Len(d) < Len(s) /\ Len(d) > 0
      BY <1>10, <1>11, <1>12, <3>1
    <3>4. d # <<>>
      BY <3>3
    <3> QED
      BY <3>2, <3>3, <3>4
  <2>2. e = ReadHeader([f EXCEPT !.state = "READ_HEADER",
                                 !.buf = SubSeq(@, r.lbreq + 2, Len(@))], 1, TRUE)
    BY <1>1, <1>4, <1>20 DEF NextRequest
  <2>3. g = [f EXCEPT !.state = "READ_HEADER", !.buf = SubSeq(@, r.lbreq + 2, Len(@))]
    <3>1. f.buf = r.buf /\ f = [h \in Fields |-> f[h]] /\ f.lbreq = r.lbreq /\ f.reply = r.reply
          /\ f.for = r.for
      BY <1>5 DEF Fields, Same
    <3>2. g = [f EXCEPT !.state = "READ_HEADER", !.buf = d]
      BY <1>8, <1>20, <3>1 DEF Fields
    <3> QED
      BY <2>1, <3>1, <3>2
  <2>4. e = ReadHeader(g, 1, TRUE)
    BY <2>2, <2>3
  <2>5. g.state = "READ_HEADER" /\ g.rd /\ ~g.wr /\ ~g.asked /\ g.buf # <<>>
    BY <1>1, <1>8, <1>13, <1>20, <2>1
  <2>6. PICK p : p = TRUE /\ p = (g.buf # <<>>)
    BY <2>5
  <2>7. /\ HasRead(c, g, e)
        /\ e.state \in {"CLOSE", "READ_HEADER", "PARSE_HEADER", "WRITE_HEADER"}
        /\ e.state = "WRITE_HEADER" => ~e.keep
        /\ e.state = "READ_HEADER" => ~p
        /\ Fresh(c, g) /\ ~g.asked => Clean(c, e)
    <3>1. e = ReadHeader(g, 1, p)
      BY <2>4, <2>6, Zenon
    <3>2. p \in BOOLEAN
      BY <2>6, Zenon
    <3>3. p = (g.buf # <<>>)
      BY <2>6
    <3>4. 1 \in 1 .. 2
      OBVIOUS
    <3> QED
      BY <1>17, <2>5, <3>1, <3>2, <3>3, <3>4, ReadHeaderSound
  <2>8. e.state # "READ_HEADER"
    BY <2>6, <2>7
  <2>9. Size(g) < Size(r)
    <3>1. Len(r.inbox) \in Nat
      BY <1>3
    <3>2. Len(d) \in Nat
      BY <1>12
    <3>3. Size(g) = Len(d) + Len(r.inbox) /\ Size(r) = Len(s) + Len(r.inbox)
      BY <1>9, <1>13, <1>14 DEF Size
    <3> QED
      <4>1. PICK i, j, x : i = Len(d) /\ j = Len(s) /\ x = Len(r.inbox)
        OBVIOUS
      <4>2. i \in Nat /\ j \in Nat /\ x \in Nat /\ i < j
        BY <1>10, <2>1, <3>1, <3>2, <4>1
      <4>3. i + x < j + x
        BY <4>2
      <4> QED
        BY <3>3, <4>1, <4>3
  <2> QED
    BY <1>1, <1>14, <1>18, <2>5, <2>7, <2>8, <2>9 DEF HasRead
<1> QED
  BY <1>19, <1>20

\* A connection that is given up.
LEMMA GiveUpSound ==
  ASSUME NEW c \in Conns, NEW r, Sound(c, r), NEW e, e = [r EXCEPT !.state = "CLOSE"], Open(r)
  PROVE  /\ Sound(c, e) /\ Same(r, e, {"state"}) /\ e.state = "CLOSE"
         /\ Size(e) = Size(r)
         /\ InOrder(c, r.got) /\ (r.written => r.state \in Writing \cup {"CLOSE"}) => Clean(c, e)
<1>1. /\ Shape(c, r) /\ r = [f \in Fields |-> r[f]] /\ Watched(r) /\ Buffered(r)
  BY DEF Sound, Shape
<1>2. Same(r, e, {"state"}) /\ e.state = "CLOSE"
  BY <1>1 DEF Fields, Same
<1>3. /\ e.buf = r.buf /\ e.inbox = r.inbox /\ e.sent = r.sent /\ e.rd = r.rd /\ e.wr = r.wr
      /\ e.got = r.got /\ e.lbreq = r.lbreq /\ e.keep = r.keep /\ e.written = r.written
      /\ e.asked = r.asked
  BY <1>2 DEF Fields, Same
<1>4. Ahead(c, e) = Ahead(c, r) /\ Size(e) = Size(r)
  BY <1>3 DEF Ahead, Size
<1>5. e.state \in FieldType(c).state
  BY <1>2 DEF FieldType, States
<1>6. Shape(c, e)
  BY <1>1, <1>2, <1>4, <1>5, ShapeKept
<1>7. Watched(e) /\ Buffered(e)
  BY <1>1, <1>2, <1>3 DEF Watched, Buffered, Open, Writing, Asking
<1>8. InOrder(c, r.got) => Clean(c, e)
  BY <1>2, <1>3 DEF Clean, Writing
<1> QED
  BY <1>2, <1>4, <1>6, <1>7, <1>8 DEF Sound

\* A connection that only waited, or was only seen.
LEMMA IdleSound ==
  ASSUME NEW c \in Conns, NEW r, Sound(c, r), NEW v \in 0 .. Longest + 1,
         NEW e, e = [r EXCEPT !.idle = v]
  PROVE  /\ Sound(c, e) /\ Same(r, e, {"idle"}) /\ e.idle = v /\ Size(e) = Size(r)
         /\ Clean(c, r) => Clean(c, e)
<1>1. /\ Shape(c, r) /\ r = [f \in Fields |-> r[f]] /\ Watched(r) /\ Buffered(r)
  BY DEF Sound, Shape
<1>2. Same(r, e, {"idle"}) /\ e.idle = v
  BY <1>1 DEF Fields, Same
<1>3. /\ e.buf = r.buf /\ e.inbox = r.inbox /\ e.sent = r.sent /\ e.rd = r.rd /\ e.wr = r.wr
      /\ e.got = r.got /\ e.lbreq = r.lbreq /\ e.keep = r.keep /\ e.written = r.written
      /\ e.asked = r.asked /\ e.state = r.state /\ e.reply = r.reply /\ e.for = r.for
  BY <1>2 DEF Fields, Same
<1>4. Ahead(c, e) = Ahead(c, r) /\ Size(e) = Size(r) /\ Extra(e) = Extra(r)
  BY <1>3 DEF Ahead, Size, Extra
<1>5. e.idle \in FieldType(c).idle
  BY <1>2 DEF FieldType
<1>6. Shape(c, e)
  BY <1>1, <1>2, <1>4, <1>5, ShapeKept
<1>7. Watched(e) /\ Buffered(e)
  BY <1>1, <1>3, <1>4 DEF Watched, Buffered, Open
<1>8. ASSUME Clean(c, r) PROVE Clean(c, e)
  <2>1. /\ \A n \in {0, 1} : Passed(c, e, n) <=> Passed(c, r, n)
        /\ Answering(c, e) <=> Answering(c, r)
        /\ Asked(c, e) = Asked(c, r)
    BY <1>3, <1>4 DEF Passed, Answering, Asked
  <2> QED
    BY <1>3, <1>8, <2>1 DEF Clean
<1> QED
  BY <1>2, <1>4, <1>6, <1>7, <1>8 DEF Sound

\* The connection will be parsed only if it is not idle for too long.
Prompt(r) ==
  \/ r.idle <= NetTimeout
  \/ r.state \in {"CLOSE", "KEEPALIVE"}
  \/ r.state \in Writing \cup {"FINISHED"} /\ ~r.keep

\* What is left of a connection whose answer was written.
LEMMA FinishSound ==
  ASSUME scene \in Scenes, NEW c \in Conns, Plan(c) \in Seq(Part(c)), NEW r, Sound(c, r), Prompt(r)
  PROVE  LET e == Finish(r)
         IN  /\ Sound(c, e) /\ Prompt(e) /\ e.state # "FINISHED"
             /\ Clean(c, r) => Clean(c, e)
             /\ r.state # "FINISHED" => e = r
             /\ r.state = "FINISHED" /\ More(e) => Size(e) < Size(r)
             /\ Open(r) => Open(e)
<1>1. PICK e : e = Finish(r)
  OBVIOUS
<1>2. CASE r.state # "FINISHED"
  <2>1. e = r
    BY <1>1, <1>2 DEF Finish
  <2> QED
    BY <1>1, <1>2, <2>1
<1>3. CASE r.state = "FINISHED" /\ r.keep
  <2>1. e = NextRequest(r)
    BY <1>1, <1>3 DEF Finish
  <2>2. /\ Sound(c, e) /\ e.idle = r.idle
        /\ e.state \in {"KEEPALIVE", "CLOSE", "PARSE_HEADER", "WRITE_HEADER"}
        /\ e.state = "WRITE_HEADER" => ~e.keep
        /\ e.state # "KEEPALIVE" => Size(e) < Size(r)
        /\ Clean(c, r) => Clean(c, e)
    BY <1>3, <2>1, NextRequestSound
  <2>3. Prompt(e)
    BY <1>3, <2>2 DEF Prompt
  <2>4. More(e) => e.state # "KEEPALIVE"
    BY DEF More
  <2> QED
    BY <1>1, <1>3, <2>2, <2>3, <2>4 DEF Open
<1>4. CASE r.state = "FINISHED" /\ ~r.keep
  <2>1. e = [r EXCEPT !.state = "CLOSE"]
    BY <1>1, <1>4 DEF Finish
  <2>2. /\ Sound(c, e) /\ e.state = "CLOSE"
        /\ InOrder(c, r.got) /\ (r.written => r.state \in Writing \cup {"CLOSE"}) => Clean(c, e)
    BY <1>4, <2>1, GiveUpSound DEF Open
  <2>3. Clean(c, r) => InOrder(c, r.got) /\ (r.written => r.state \in Writing \cup {"CLOSE"})
    BY DEF Clean, Writing
  <2> QED
    BY <1>1, <1>4, <2>2, <2>3 DEF Prompt, More, Open
<1> QED
  BY <1>2, <1>3, <1>4

\* The end of a round.
LEMMA AnswerSent ==
  ASSUME scene \in Scenes, NEW c \in Conns, Plan(c) \in Seq(Part(c)), NEW r, Sound(c, r), Prompt(r),
         NEW room \in RoomSet, r.state = "PARSE_HEADER" => r.asked
  PROVE  LET e == Finish(SwitchToWriting(r, room))
         IN  /\ Sound(c, e) /\ Prompt(e) /\ e.state # "FINISHED"
             /\ Clean(c, r) => Clean(c, e)
             /\ More(e) => Size(e) < Size(r)
             /\ r.state \notin {"WRITE_HEADER", "FINISHED"} => e = r
             /\ Open(r) => Open(e)
<1>1. PICK w, e : w = SwitchToWriting(r, room) /\ e = Finish(w)
  OBVIOUS
<1>2. /\ Wrote(c, r, w)
      /\ r.state # "WRITE_HEADER" => w = r
      /\ w.state = "WRITE_HEADER" => w.wr
  BY <1>1, SwitchToWritingSound
<1>3. Prompt(w)
  BY <1>2 DEF Wrote, Prompt, Writing
<1>4. /\ Sound(c, e) /\ Prompt(e) /\ e.state # "FINISHED"
      /\ Clean(c, w) => Clean(c, e)
      /\ w.state # "FINISHED" => e = w
      /\ w.state = "FINISHED" /\ More(e) => Size(e) < Size(w)
      /\ Open(w) => Open(e)
  BY <1>1, <1>2, <1>3, FinishSound DEF Wrote
<1>5. ASSUME More(e) PROVE Size(e) < Size(r)
  <2>1. CASE w.state = "FINISHED"
    BY <1>2, <1>4, <1>5, <2>1 DEF Wrote
  <2>2. CASE w.state # "FINISHED"
    <3>1. e = w /\ ~(w.state = "WRITE_HEADER" /\ ~w.wr)
      BY <1>2, <1>4, <2>2
    <3>2. w.state = "PARSE_HEADER" /\ ~w.asked
      BY <1>5, <3>1 DEF More
    <3>3. r.state = "PARSE_HEADER" /\ w = r
      BY <1>2, <3>2 DEF Wrote
    <3> QED
      BY <3>2, <3>3
  <2> QED
    BY <2>1, <2>2
<1>6. Open(r) => Open(w)
  BY <1>2 DEF Wrote, Open
<1> QED
  BY <1>1, <1>2, <1>4, <1>5, <1>6 DEF Wrote

\* The timeouts are times.
LEMMA LongestNat == Longest \in Nat /\ NetTimeout <= Longest /\ 0 \in 0 .. Longest + 1
BY ControlAssumption DEF Longest

\* What is read of a connection that select reports.
LEMMA InputSound ==
  ASSUME scene \in Scenes, NEW c \in Conns, NEW r, Sound(c, r), r.rd, Open(r), NEW n \in 1 .. 2
  PROVE  LET e == Input(r, n)
         IN  /\ Sound(c, e) /\ e.idle = 0 /\ Open(e)
             /\ Clean(c, r) => Clean(c, e)
             /\ r.state \in Asking => Same(r, e, {"idle"})
             /\ e.wr = r.wr
<1>1. PICK e, h, b : /\ e = Input(r, n)
                     /\ h = (IF r.state \in {"KEEPALIVE", "READ_HEADER"}
                             THEN ReadHeader([r EXCEPT !.state = "READ_HEADER"], n, FALSE) ELSE r)
                     /\ b = (IF h.state = "READ_BODY" THEN ReadBody(h, n) ELSE h)
  OBVIOUS
<1>2. e = [b EXCEPT !.idle = 0]
  BY <1>1 DEF Input
<1>3. /\ Shape(c, r) /\ r = [f \in Fields |-> r[f]] /\ Watched(r) /\ Buffered(r) /\ ~r.wr
      /\ r.wr \in BOOLEAN
  BY FieldsTyped DEF Sound, Shape, Watched
<1>4. /\ Sound(c, b) /\ Open(b) /\ (Clean(c, r) => Clean(c, b)) /\ b.wr = r.wr
      /\ r.state \in Asking => b = r
  <2>1. CASE r.state \in {"KEEPALIVE", "READ_HEADER"}
    <3>1. PICK g, p : g = [r EXCEPT !.state = "READ_HEADER"] /\ p = FALSE
      OBVIOUS
    <3>2. h = ReadHeader(g, n, p)
      BY <1>1, <2>1, <3>1
    <3>3. Same(r, g, {"state"}) /\ g.state = "READ_HEADER"
      BY <1>3, <3>1 DEF Fields, Same
    <3>4. /\ g.buf = r.buf /\ g.inbox = r.inbox /\ g.sent = r.sent /\ g.rd = r.rd /\ g.wr = r.wr
          /\ g.got = r.got /\ g.asked = r.asked /\ g.written = r.written
      BY <3>3 DEF Fields, Same
    <3>5. Ahead(c, g) = Ahead(c, r)
      BY <3>4 DEF Ahead
    <3>6. g.state \in FieldType(c).state
      BY <3>3 DEF FieldType, States
    <3>7. Shape(c, g)
      BY <1>3, <3>3, <3>5, <3>6, ShapeKept
    <3>8. g.buf = <<>>
      BY <1>3, <2>1, <3>4 DEF Buffered
    <3>9. p \in BOOLEAN
      BY <3>1, Zenon
    <3>10. p = (g.buf # <<>>)
      BY <3>1, <3>8
    <3>11. /\ HasRead(c, g, h)
           /\ h.state \in {"CLOSE", "READ_HEADER", "PARSE_HEADER", "WRITE_HEADER"}
           /\ Fresh(c, g) /\ ~g.asked => Clean(c, h)
      BY <1>3, <3>2, <3>3, <3>4, <3>7, <3>9, <3>10, ReadHeaderSound
    <3>12. b = h
      BY <1>1, <3>11
    <3>13. Clean(c, r) => Fresh(c, g) /\ ~g.asked
      BY <2>1, <3>4, <3>5 DEF Clean, Fresh, Passed
    <3> QED
      BY <2>1, <3>4, <3>11, <3>12, <3>13 DEF HasRead, Open, Asking
  <2>2. CASE r.state = "READ_BODY"
    <3>1. h = r /\ b = ReadBody(r, n)
      BY <1>1, <2>2
    <3>2. r.buf # <<>> /\ ~r.buf[1].body /\ r.lbreq <= Extra(r)
      BY <1>3, <2>2 DEF Buffered
    <3>3. /\ ReadOn(c, r, b) /\ b.state \in {r.state, "PARSE_BODY", "CLOSE"}
      BY <1>3, <2>2, <3>1, <3>2, ReadBodySound
    <3>4. ASSUME Clean(c, r) PROVE Clean(c, b)
      <4>1. InOrder(c, r.got) /\ Passed(c, r, 0) /\ ~r.written /\ ~r.asked /\ Accepted(Asked(c, r))
        BY <2>2, <3>4 DEF Clean
      <4>2. InOrder(c, b.got) /\ Passed(c, b, 0) /\ ~b.written /\ ~b.asked /\ Accepted(Asked(c, b))
        BY <3>3, <4>1 DEF ReadOn, HasRead, Passed, Asked
      <4> QED
        BY <2>2, <3>3, <4>2 DEF Clean, Writing
    <3> QED
      BY <2>2, <3>3, <3>4 DEF ReadOn, HasRead, Open, Asking
  <2>3. CASE r.state \notin {"KEEPALIVE", "READ_HEADER", "READ_BODY"}
    <3>1. b = r
      BY <1>1, <2>3
    <3> QED
      BY <3>1
  <2> QED
    BY <2>1, <2>2, <2>3
<1>5. 0 \in 0 .. Longest + 1
  BY LongestNat
<1>6. /\ Sound(c, e) /\ Same(b, e, {"idle"}) /\ e.idle = 0
      /\ Clean(c, b) => Clean(c, e)
  BY <1>2, <1>4, <1>5, IdleSound
<1>7. e.state = b.state /\ e.wr = b.wr
  BY <1>6 DEF Fields, Same
<1>8. Open(e)
  BY <1>4, <1>7 DEF Open
<1> QED
  BY <1>1, <1>4, <1>6, <1>7, <1>8

\* What is written to a connection that select reports.
LEMMA OutputSound ==
  ASSUME NEW c \in Conns, Plan(c) \in Seq(Part(c)), NEW r, Sound(c, r), r.wr,
         r.state \in Writing, NEW room \in RoomSet
  PROVE  LET e == Output(r, room)
         IN  /\ Sound(c, e) /\ e.idle = 0 /\ Open(e)
             /\ Clean(c, r) => Clean(c, e)
<1>1. PICK w, e : w = WriteRequest(r, room) /\ e = Output(r, room)
  OBVIOUS
<1>2. e = [w EXCEPT !.idle = 0]
  BY <1>1 DEF Output
<1>3. Wrote(c, r, w)
  BY <1>1, WriteRequestSound
<1>4. 0 \in 0 .. Longest + 1
  BY LongestNat
<1>5. /\ Sound(c, e) /\ Same(w, e, {"idle"}) /\ e.idle = 0
      /\ Clean(c, w) => Clean(c, e)
  BY <1>2, <1>3, <1>4, IdleSound DEF Wrote
<1>6. e.state = w.state
  BY <1>5 DEF Fields, Same
<1>7. Open(e)
  BY <1>3, <1>6 DEF Wrote, Open, Writing
<1> QED
  BY <1>1, <1>3, <1>5, <1>7 DEF Wrote

\* The timeouts of a connection.
LEMMA TimeoutsSound ==
  ASSUME scene \in Scenes, NEW c \in Conns, NEW r, Sound(c, r), Open(r), NEW crowded \in BOOLEAN
  PROVE  LET e == Timeouts(r, crowded)
         IN  /\ Sound(c, e) /\ Prompt(e) /\ Open(e)
             /\ Clean(c, r) => Clean(c, e)
             /\ r.state # "KEEPALIVE" /\ r.idle <= NetTimeout => e = r
<1>1. PICK e, g : e = Timeouts(r, crowded) /\ g = [r EXCEPT !.state = "CLOSE"]
  OBVIOUS
<1>2. /\ Shape(c, r) /\ r = [f \in Fields |-> r[f]] /\ Watched(r) /\ Buffered(r)
      /\ r.wr \in BOOLEAN /\ r.keep \in BOOLEAN
  BY FieldsTyped DEF Sound, Shape, Watched
<1>3. /\ Sound(c, g) /\ g.state = "CLOSE" /\ Open(g) /\ Prompt(g)
      /\ InOrder(c, r.got) /\ (r.written => r.state \in Writing \cup {"CLOSE"}) => Clean(c, g)
  BY <1>1, GiveUpSound DEF Open, Prompt
<1>4. Clean(c, r) => InOrder(c, r.got) /\ (r.written => r.state \in Writing \cup {"CLOSE"})
  BY DEF Clean, Writing
<1>5. CASE r.state = "KEEPALIVE"
  <2>1. e = IF r.idle > KeepAlive \/ crowded THEN g ELSE [r EXCEPT !.state = r.state]
    BY <1>1, <1>5 DEF Timeouts
  <2>2. [r EXCEPT !.state = r.state] = r
    BY <1>2 DEF Fields
  <2>3. Prompt(r)
    BY <1>5 DEF Prompt
  <2> QED
    BY <1>1, <1>3, <1>4, <1>5, <2>1, <2>2, <2>3
<1>6. CASE r.state # "KEEPALIVE" /\ r.idle <= NetTimeout
  <2>1. e = r
    BY <1>1, <1>6 DEF Timeouts
  <2>2. Prompt(r)
    BY <1>6 DEF Prompt
  <2> QED
    BY <1>1, <2>1, <2>2
<1>7. CASE ~(r.idle <= NetTimeout) /\ r.state \in {"READ_HEADER", "READ_BODY"}
  <2>1. PICK ka : ka = FALSE
    OBVIOUS
  <2>2. e = MkError(r, "408", ka)
    BY <1>1, <1>7, <2>1 DEF Timeouts
  <2>3. /\ Same(r, e, {"state", "body", "reply", "for", "keep"})
        /\ e.state = "WRITE_HEADER" /\ e.body = "static" /\ e.reply = "408"
        /\ e.for = Current(r) /\ e.keep = (r.keep /\ ka)
    BY <1>2, <2>2, MkErrorIs
  <2>4. e.for \in Nat /\ e.reply \in Replies /\ ~e.keep /\ e.keep \in BOOLEAN
    BY <1>2, <2>1, <2>3, CurrentNat, FieldsTyped DEF Replies
  <2>5. r.rd /\ ~r.wr
    BY <1>2, <1>7 DEF Watched, Writing
  <2>6. Sound(c, e) /\ (Fresh(c, r) /\ Answering(c, e) => Clean(c, e))
    BY <1>2, <2>3, <2>4, <2>5, AnswerSound
  <2>7. Answering(c, e)
    BY <2>3, <2>4 DEF Answering, Bad
  <2>8. Clean(c, r) => Fresh(c, r)
    BY <1>7 DEF Clean, Fresh
  <2>9. Prompt(e) /\ Open(e)
    BY <2>3, <2>4 DEF Prompt, Open, Writing
  <2> QED
    BY <1>1, <1>7, <2>6, <2>7, <2>8, <2>9
<1>8. CASE ~(r.idle <= NetTimeout) /\ r.state \notin {"KEEPALIVE", "READ_HEADER", "READ_BODY"}
  <2>1. e = g
    BY <1>1, <1>8 DEF Timeouts
  <2> QED
    BY <1>1, <1>3, <1>4, <1>8, <2>1
<1> QED
  BY <1>5, <1>6, <1>7, <1>8

\* accept: a connection is read from, and that of a barred host is answered and given up.
LEMMA AcceptSound ==
  ASSUME scene \in Scenes, NEW c \in Conns, Plan(c) \in Seq(Part(c)),
         NEW r, Sound(c, r), r.state = "knocking", NEW n \in 1 .. 2
  PROVE  LET e == Accept(c, r, n)
         IN  /\ Sound(c, e) /\ e.state \in {"READ_HEADER", "CLOSE"} /\ e.idle = 0
             /\ Clean(c, r) => Clean(c, e)
<1>1. PICK e, y, a : /\ e = Accept(c, r, n) /\ y = TRUE
                     /\ a = [r EXCEPT !.state = "READ_HEADER", !.rd = y, !.idle = 0]
  OBVIOUS
<1>2. /\ Shape(c, r) /\ r = [f \in Fields |-> r[f]] /\ Watched(r) /\ Buffered(r)
      /\ r.wr \in BOOLEAN /\ r.rd \in BOOLEAN /\ r.buf = <<>> /\ ~r.wr
  BY FieldsTyped DEF Sound, Shape, Watched, Buffered, Open
<1>3. a = [r EXCEPT !.state = "READ_HEADER", !.rd = TRUE, !.idle = 0]
  BY <1>1, <1>2 DEF Fields
<1>4. Same(r, a, {"state", "rd", "idle"}) /\ a.state = "READ_HEADER" /\ a.rd = y /\ a.idle = 0
  BY <1>1, <1>2 DEF Fields, Same
<1>5. /\ a.buf = r.buf /\ a.inbox = r.inbox /\ a.sent = r.sent /\ a.wr = r.wr
      /\ a.got = r.got /\ a.asked = r.asked /\ a.written = r.written
  BY <1>4 DEF Fields, Same
<1>6. Ahead(c, a) = Ahead(c, r)
  BY <1>5 DEF Ahead
<1>7. Shape(c, a)
  <2>1. /\ a.state \in FieldType(c).state /\ a.rd \in FieldType(c).rd
        /\ a.idle \in FieldType(c).idle
    BY <1>1, <1>4, LongestNat DEF FieldType, States
  <2> QED
    BY <1>2, <1>4, <1>6, <2>1, ShapeKept
<1>8. Clean(c, r) => Fresh(c, a) /\ ~a.asked
  BY <1>5, <1>6 DEF Clean, Fresh, Passed
<1>9. a.rd /\ ~a.wr
  BY <1>1, <1>2, <1>4, <1>5
<1>10. CASE AccessCheck(c)
  <2>1. e = a
    BY <1>1, <1>3, <1>10 DEF Accept
  <2>2. Watched(a) /\ Buffered(a)
    BY <1>2, <1>4, <1>5, <1>9 DEF Watched, Buffered, Open, Writing, Asking
  <2>3. Clean(c, r) => Clean(c, a)
    BY <1>4, <1>8 DEF Clean, Fresh, Writing
  <2> QED
    BY <1>1, <1>4, <1>7, <2>1, <2>2, <2>3 DEF Sound
<1>11. CASE ~AccessCheck(c)
  <2>1. PICK p, h, m, w : /\ p = FALSE /\ h = ReadHeader(a, n, p) /\ m = MkError(h, "403", p)
                          /\ w = WriteRequest(m, "all")
    OBVIOUS
  <2>2. e = [w EXCEPT !.state = "CLOSE"]
    BY <1>1, <1>3, <1>11, <2>1 DEF Accept
  <2>3. p \in BOOLEAN
    BY <2>1, Zenon
  <2>4. p = (a.buf # <<>>)
    BY <1>2, <1>5, <2>1
  <2>5. /\ HasRead(c, a, h)
        /\ h.state \in {"CLOSE", "READ_HEADER", "PARSE_HEADER", "WRITE_HEADER"}
    BY <1>4, <1>7, <1>9, <2>1, <2>3, <2>4, ReadHeaderSound
  <2>6. /\ Shape(c, h) /\ h.rd /\ ~h.wr /\ h = [f \in Fields |-> h[f]]
        /\ h.buf \in Seq(Part(c)) /\ h.keep \in BOOLEAN
    BY <1>9, <2>5, FieldsTyped DEF HasRead, Sound, Shape
  <2>7. /\ Same(h, m, {"state", "body", "reply", "for", "keep"})
        /\ m.state = "WRITE_HEADER" /\ m.body = "static" /\ m.reply = "403"
        /\ m.for = Current(h) /\ m.keep = (h.keep /\ p)
    BY <2>1, <2>6, MkErrorIs
  <2>8. m.for \in Nat /\ m.reply \in Replies /\ ~m.keep /\ m.keep \in BOOLEAN
    BY <2>1, <2>6, <2>7, CurrentNat DEF Replies
  <2>9. Sound(c, m) /\ (Fresh(c, h) /\ Answering(c, m) => Clean(c, m))
    BY <2>6, <2>7, <2>8, AnswerSound
  <2>10. Answering(c, m)
    BY <2>7, <2>8 DEF Answering, Bad
  <2>11. Clean(c, r) => Fresh(c, h)
    BY <1>8, <2>5 DEF HasRead, Fresh, Passed
  <2>12. Wrote(c, m, w)
    BY <2>1, <2>7, <2>9, WriteRequestSound DEF RoomSet, Writing
  <2>13. Open(w)
    BY <2>7, <2>12 DEF Wrote, Open
  <2>14. /\ Sound(c, e) /\ Same(w, e, {"state"}) /\ e.state = "CLOSE"
         /\ InOrder(c, w.got) /\ (w.written => w.state \in Writing \cup {"CLOSE"}) => Clean(c, e)
    BY <2>2, <2>12, <2>13, GiveUpSound DEF Wrote
  <2>15. Clean(c, w) => InOrder(c, w.got) /\ (w.written => w.state \in Writing \cup {"CLOSE"})
    BY DEF Clean, Writing
  <2>16. e.idle = w.idle /\ m.idle = h.idle
    BY <2>7, <2>14 DEF Fields, Same
  <2>17. e.idle = 0
    BY <1>4, <2>5, <2>12, <2>16 DEF Wrote, HasRead
  <2> QED
    BY <1>1, <2>9, <2>10, <2>11, <2>12, <2>14, <2>15, <2>17 DEF Wrote
<1> QED
  BY <1>10, <1>11

\* A connection the daemon has nothing of.
Unserved(st, g, b) == [NewConnection EXCEPT !.state = st, !.got = g, !.eof = b]

\* A new connection, and one that is closed.
LEMMA ClosedSound ==
  ASSUME NEW c \in Conns, Plan(c) \in Seq(Part(c)), Ordered(Plan(c)),
         NEW g, g \in Seq(Reply), NEW b, b \in BOOLEAN,
         NEW st, st \in {"free", "closed"}, NEW e,
         e = Unserved(st, g, b)
  PROVE  /\ Sound(c, e) /\ Settled(e) /\ e.state = st /\ e.eof = b /\ e.got = g
         /\ ~Open(e) /\ ~e.asked
         /\ InOrder(c, g) /\ (st = "free" => g = <<>>) => Clean(c, e)
<1>1. PICK n : n = FALSE
  OBVIOUS
<1>2. NewConnection = [inbox |-> <<>>, eof |-> n, sent |-> 0, got |-> <<>>,
   state |-> "free", rd |-> n, wr |-> n, idle |-> 0,
   buf |-> <<>>, lbreq |-> 0, clen |-> 0, parsed |-> n,
   asked |-> n, keep |-> n,
   body |-> "none", reply |-> "none", for |-> 0, written |-> n]
  BY <1>1 DEF NewConnection
<1>3. /\ e = [f \in Fields |-> e[f]]
      /\ e.inbox = <<>> /\ e.eof = b /\ e.sent = 0 /\ e.got = g /\ e.state = st /\ e.rd = n
      /\ e.wr = n /\ e.idle = 0 /\ e.buf = <<>> /\ e.lbreq = 0 /\ e.clen = 0 /\ e.parsed = n
      /\ e.asked = n /\ e.keep = n /\ e.body = "none" /\ e.reply = "none" /\ e.for = 0
      /\ e.written = n
  BY <1>2 DEF Fields, Unserved
<1>4. n \in BOOLEAN
  BY <1>1
<1>5. Ahead(c, e) = Plan(c)
  <2>1. PICK p : p = Plan(c)
    OBVIOUS
  <2>2. p \in Seq(Part(c))
    BY <2>1
  <2>3. SubSeq(p, 0 + 1, Len(p)) = p
    BY <2>2
  <2>4. <<>> \o <<>> = <<>> /\ <<>> \o p = p
    BY <2>2, ConcatEmptySeq, EmptySeq
  <2> QED
    BY <1>3, <2>1, <2>3, <2>4 DEF Ahead
<1>6. Shape(c, e)
  <2>1. Len(Plan(c)) \in Nat /\ 0 \in 0 .. Len(Plan(c)) /\ <<>> \in Seq(Part(c))
    OBVIOUS
  <2>2. \A f \in Fields : e[f] \in FieldType(c)[f]
    <3>1. /\ e.inbox \in FieldType(c).inbox /\ e.eof \in FieldType(c).eof
          /\ e.sent \in FieldType(c).sent /\ e.got \in FieldType(c).got
          /\ e.state \in FieldType(c).state /\ e.rd \in FieldType(c).rd
          /\ e.wr \in FieldType(c).wr /\ e.idle \in FieldType(c).idle
          /\ e.buf \in FieldType(c).buf
      <4>1. e.sent \in FieldType(c).sent
        BY <1>3, <2>1 DEF FieldType
      <4>2. e.inbox \in FieldType(c).inbox /\ e.buf \in FieldType(c).buf
        BY <1>3, <2>1 DEF FieldType
      <4>3. e.idle \in FieldType(c).idle
        BY <1>3, LongestNat DEF FieldType
      <4>4. /\ e.eof \in FieldType(c).eof /\ e.got \in FieldType(c).got
            /\ e.rd \in FieldType(c).rd /\ e.wr \in FieldType(c).wr
        BY <1>3, <1>4 DEF FieldType
      <4>5. e.state \in FieldType(c).state
        BY <1>3 DEF FieldType, States
      <4> QED
        BY <4>1, <4>2, <4>3, <4>4, <4>5
    <3>2. /\ e.lbreq \in FieldType(c).lbreq /\ e.clen \in FieldType(c).clen
          /\ e.parsed \in FieldType(c).parsed /\ e.asked \in FieldType(c).asked
          /\ e.keep \in FieldType(c).keep /\ e.body \in FieldType(c).body
          /\ e.reply \in FieldType(c).reply /\ e.for \in FieldType(c).for
          /\ e.written \in FieldType(c).written
      BY <1>3, <1>4 DEF FieldType, Replies
    <3> QED
      BY <3>1, <3>2 DEF Fields
  <2> QED
    BY <1>3, <1>5, <2>2 DEF Shape
<1>7. Watched(e) /\ Buffered(e) /\ Settled(e) /\ ~Open(e) /\ ~e.asked
  BY <1>1, <1>3 DEF Watched, Buffered, Settled, Open, Writing, Asking
<1>8. ASSUME InOrder(c, g), st = "free" => g = <<>> PROVE Clean(c, e)
  <2>1. g = <<>> => Passed(c, e, 0)
    BY <1>3 DEF Passed
  <2> QED
    BY <1>1, <1>3, <1>8, <2>1 DEF Clean, Writing
<1> QED
  BY <1>3, <1>6, <1>7, <1>8 DEF Sound

\* What is left of a connection that is closed.
LEMMA CloseSound ==
  ASSUME NEW c \in Conns, Plan(c) \in Seq(Part(c)), Ordered(Plan(c)), NEW r, Sound(c, r)
  PROVE  LET e == Close(r)
         IN  /\ Sound(c, e) /\ (Clean(c, r) => Clean(c, e))
             /\ r.state # "CLOSE" => e = r
             /\ r.state = "CLOSE" => Settled(e) /\ e.state = "closed" /\ e.eof = r.eof /\ ~Open(e)
<1>1. PICK e : e = Close(r)
  OBVIOUS
<1>2. CASE r.state # "CLOSE"
  BY <1>2 DEF Close
<1>3. CASE r.state = "CLOSE"
  <2>1. e = [NewConnection EXCEPT !.state = "closed", !.got = r.got, !.eof = r.eof]
    BY <1>1, <1>3 DEF Close
  <2>2. r.got \in Seq(Reply) /\ r.eof \in BOOLEAN
    BY FieldsTyped DEF Sound
  <2>3. /\ Sound(c, e) /\ Settled(e) /\ e.state = "closed" /\ e.eof = r.eof /\ ~Open(e)
        /\ InOrder(c, r.got) => Clean(c, e)
    <3>1. PICK st, g, b : st = "closed" /\ g = r.got /\ b = r.eof
      OBVIOUS
    <3>2. /\ g \in Seq(Reply) /\ b \in BOOLEAN /\ st \in {"free", "closed"}
          /\ e = Unserved(st, g, b)
      BY <2>1, <2>2, <3>1 DEF Unserved
    <3>3. /\ Sound(c, e) /\ Settled(e) /\ e.state = st /\ e.eof = b /\ ~Open(e)
          /\ InOrder(c, g) /\ (st = "free" => g = <<>>) => Clean(c, e)
      BY <3>2, ClosedSound
    <3> QED
      BY <3>1, <3>3
  <2>4. Clean(c, r) => InOrder(c, r.got)
    BY DEF Clean
  <2> QED
    BY <1>1, <1>3, <2>3, <2>4
<1> QED
  BY <1>2, <1>3

\* What a pass of httpd_handle_event goes on with.
PassFields == {"web", "back", "again", "list"}

\* A command of retEventVec.
Order == [type : {"GET_INFO", "ADD"}, conn : Conns, req : Nat, copies : Nat]

\* A pass over the connections: what it has and what it made.
PassRecord(s) ==
  /\ s = [f \in PassFields |-> s[f]]
  /\ s.web = [d \in Conns |-> s.web[d]]

\* The types of a pass.
PassShape(s) ==
  /\ PassRecord(s)
  /\ s.back \in Seq(Order) /\ s.again \subseteq Conns

\* Every connection of a pass is sound.
PassSound(s) ==
  \A d \in Conns : Sound(d, s.web[d]) /\ (d \notin s.again => Clean(d, s.web[d]))

\* The commands that wait in queue q, or were made in this pass, have their
\* connections, each one of its own.
Pending(q, s) ==
  /\ \A e \in Info(q) : e.conn \in Conns
  /\ \A e \in Info(q) : e.conn \notin s.again => Waiting(e.conn, s.web[e.conn], e.req)
  /\ \A e, f \in Info(q) : e.conn = f.conn /\ e.conn \notin s.again => e = f
  /\ \A k \in DOMAIN s.back :
       s.back[k].type = "GET_INFO" /\ s.back[k].conn \notin s.again =>
         /\ Waiting(s.back[k].conn, s.web[s.back[k].conn], s.back[k].req)
         /\ \A e \in Info(q) : e.conn # s.back[k].conn
         /\ \A l \in DOMAIN s.back :
              s.back[l].type = "GET_INFO" /\ s.back[l].conn = s.back[k].conn => l = k

\* What every step of a pass keeps.
PassOK(q, s) == PassShape(s) /\ PassSound(s) /\ Pending(q, s)

\* t differs from s in what c did.
Changes(c, s, t) ==
  /\ t.list = s.list /\ s.again \subseteq t.again
  /\ \A d \in Conns \ {c} : t.web[d] = s.web[d]

\* The pass with e for the connection c.
WithWeb(s, c, e) == [s EXCEPT !.web[c] = e]

\* One connection of a pass is replaced.
LEMMA WebIs ==
  ASSUME NEW s, PassShape(s), NEW c \in Conns, NEW e, NEW t, t = WithWeb(s, c, e)
  PROVE  /\ PassShape(t) /\ t.back = s.back /\ t.again = s.again /\ t.list = s.list
         /\ t.web[c] = e /\ \A d \in Conns \ {c} : t.web[d] = s.web[d]
         /\ Changes(c, s, t)
<1>1. t = [f \in PassFields |-> IF f = "web" THEN [s.web EXCEPT ![c] = e] ELSE s[f]]
  BY DEF PassShape, PassRecord, PassFields, WithWeb
<1>2. /\ t.web = [s.web EXCEPT ![c] = e] /\ t.back = s.back /\ t.again = s.again
      /\ t.list = s.list
  BY <1>1 DEF PassFields
<1>3. t.web = [d \in Conns |-> t.web[d]] /\ t.web[c] = e /\ \A d \in Conns \ {c} : t.web[d] = s.web[d]
  BY <1>2 DEF PassShape, PassRecord
<1>4. t = [f \in PassFields |-> t[f]]
  BY <1>1
<1> QED
  BY <1>2, <1>3, <1>4 DEF PassShape, PassRecord, Changes

\* What waits for r waits for e.
Keeps(c, r, e) == \A k : Waiting(c, r, k) => Waiting(c, e, k)

\* One connection changes and the commands do not.
LEMMA UpdateOK ==
  ASSUME NEW q, NEW s, PassOK(q, s), NEW c \in Conns, NEW e, NEW t, t = WithWeb(s, c, e),
         Sound(c, e), c \notin s.again => Clean(c, e),
         c \notin s.again => Keeps(c, s.web[c], e)
  PROVE  /\ PassOK(q, t) /\ Changes(c, s, t) /\ t.web[c] = e /\ t.again = s.again
         /\ t.back = s.back
<1>1. /\ PassShape(t) /\ t.back = s.back /\ t.again = s.again /\ t.list = s.list
      /\ t.web[c] = e /\ \A d \in Conns \ {c} : t.web[d] = s.web[d]
      /\ Changes(c, s, t)
  BY WebIs DEF PassOK
<1>2. PassSound(t)
  BY <1>1 DEF PassSound, PassOK
<1>3. \A d \in Conns : \A k : d \notin s.again /\ Waiting(d, s.web[d], k) => Waiting(d, t.web[d], k)
  BY <1>1 DEF Keeps
<1>4. s.back \in Seq(Order) /\ Pending(q, s)
  BY DEF PassOK, PassShape
<1>5. \A k \in DOMAIN s.back : s.back[k].conn \in Conns
  <2>1. PICK b \in Seq(Order) : b = s.back
    BY <1>4
  <2>2. \A k \in DOMAIN b : b[k] \in Order
    OBVIOUS
  <2> QED
    BY <2>1, <2>2 DEF Order
<1>6. Pending(q, t)
  <2>1. /\ \A e1 \in Info(q) : e1.conn \in Conns
        /\ \A e1 \in Info(q) : e1.conn \notin t.again => Waiting(e1.conn, t.web[e1.conn], e1.req)
        /\ \A e1, f \in Info(q) : e1.conn = f.conn /\ e1.conn \notin t.again => e1 = f
    BY <1>1, <1>3, <1>4 DEF Pending
  <2>2. ASSUME NEW k \in DOMAIN t.back, t.back[k].type = "GET_INFO", t.back[k].conn \notin t.again
        PROVE  /\ Waiting(t.back[k].conn, t.web[t.back[k].conn], t.back[k].req)
               /\ \A e1 \in Info(q) : e1.conn # t.back[k].conn
               /\ \A l \in DOMAIN t.back :
                    t.back[l].type = "GET_INFO" /\ t.back[l].conn = t.back[k].conn => l = k
    <3>1. t.back = s.back /\ t.again = s.again /\ k \in DOMAIN s.back
      BY <1>1, <2>2
    <3>2. /\ Waiting(s.back[k].conn, s.web[s.back[k].conn], s.back[k].req)
          /\ \A e1 \in Info(q) : e1.conn # s.back[k].conn
          /\ \A l \in DOMAIN s.back :
               s.back[l].type = "GET_INFO" /\ s.back[l].conn = s.back[k].conn => l = k
      BY <3>1, <2>2, <1>4 DEF Pending
    <3>3. Waiting(s.back[k].conn, t.web[s.back[k].conn], s.back[k].req)
      BY <3>1, <3>2, <2>2, <1>3, <1>5
    <3> QED
      BY <3>1, <3>2, <3>3
  <2> QED
    BY <2>1, <2>2 DEF Pending
<1> QED
  BY <1>1, <1>2, <1>6 DEF PassOK

\* t is s after the command of c.
Pushed(s, c, type, t) ==
  /\ PassRecord(t) /\ t.list = s.list
  /\ t.back = Append(s.back, Command(type, c, Current(s.web[c])))
  /\ s.web[c].asked => t.again = s.again \cup {c}
  /\ ~s.web[c].asked => t.again = s.again
  /\ \A d \in Conns \ {c} : t.web[d] = s.web[d]
  /\ Same(s.web[c], t.web[c], {"asked"}) /\ t.web[c].asked = TRUE

\* A command becomes an event.
LEMMA PushIs ==
  ASSUME NEW s, PassShape(s), NEW c \in Conns, NEW type, NEW t, t = Push(s, c, type),
         Shape(c, s.web[c])
  PROVE  Pushed(s, c, type, t)
<1>1. PICK b, a, y : /\ b = Append(s.back, Command(type, c, Current(s.web[c])))
                     /\ a = (IF s.web[c].asked THEN s.again \cup {c} ELSE s.again)
                     /\ y = TRUE
  OBVIOUS
<1>2. PICK e : e = [s.web[c] EXCEPT !.asked = y]
  OBVIOUS
<1>3. t = [s EXCEPT !.back = b, !.again = a, !.web = [s.web EXCEPT ![c] = e]]
  BY <1>1, <1>2 DEF Push, PassShape, PassRecord, PassFields
<1>4. /\ t = [f \in PassFields |-> t[f]] /\ t.list = s.list /\ t.back = b /\ t.again = a
      /\ t.web = [s.web EXCEPT ![c] = e]
  BY <1>3 DEF PassShape, PassRecord, PassFields
<1>5. /\ t.web = [d \in Conns |-> t.web[d]] /\ t.web[c] = e
      /\ \A d \in Conns \ {c} : t.web[d] = s.web[d]
  BY <1>4 DEF PassShape, PassRecord
<1>6. Same(s.web[c], e, {"asked"}) /\ e.asked = TRUE
  BY <1>1, <1>2 DEF Same, Fields, Shape
<1> QED
  BY <1>1, <1>4, <1>5, <1>6 DEF PassRecord, Pushed

\* A sequence with one more element.
LEMMA AppendSeq ==
  \A S : \A b \in Seq(S) : \A m \in S :
    /\ Append(b, m) \in Seq(S)
    /\ \A k \in DOMAIN Append(b, m) :
         \/ k \in DOMAIN b /\ Append(b, m)[k] = b[k]
         \/ k = Len(b) + 1 /\ Append(b, m)[k] = m
    /\ \A k \in DOMAIN b : b[k] \in S /\ k # Len(b) + 1
OBVIOUS

\* The command of c becomes an event, and waits for it.
LEMMA PushOK ==
  ASSUME scene \in Scenes, NEW q, NEW s, PassOK(q, s), NEW c \in Conns,
         Heard(c, s.web[c]), c \notin s.again => HeardClean(c, s.web[c]),
         s.web[c].idle <= NetTimeout,
         Kind(Asked(c, s.web[c])) \in {"info", "add"},
         NEW type \in {"GET_INFO", "ADD"},
         type = "GET_INFO" => Kind(Asked(c, s.web[c])) = "info",
         NEW t, t = Push(s, c, type)
  PROVE  /\ PassOK(q, t) /\ Changes(c, s, t) /\ Heard(c, t.web[c]) /\ t.web[c].asked
         /\ t.web[c].idle = s.web[c].idle /\ Size(t.web[c]) = Size(s.web[c])
         /\ t.web[c].state = s.web[c].state
         /\ c \notin t.again => HeardClean(c, t.web[c])
         /\ t.web[c].buf = s.web[c].buf
<1>1. /\ Shape(c, s.web[c]) /\ PassShape(s) /\ PassSound(s)
      /\ s.web[c].asked \in BOOLEAN
  BY FieldsTyped DEF PassOK, Heard, Sound
<1>2. /\ PassRecord(t) /\ t.list = s.list
      /\ t.back = Append(s.back, Command(type, c, Current(s.web[c])))
      /\ s.web[c].asked => t.again = s.again \cup {c}
      /\ ~s.web[c].asked => t.again = s.again
      /\ \A d \in Conns \ {c} : t.web[d] = s.web[d]
      /\ Same(s.web[c], t.web[c], {"asked"}) /\ t.web[c].asked = TRUE
  <2>1. Pushed(s, c, type, t)
    BY <1>1, PushIs
  <2> QED
    BY ONLY <2>1 DEF Pushed
<1>3. /\ Heard(c, t.web[c]) /\ t.web[c].idle = s.web[c].idle /\ Size(t.web[c]) = Size(s.web[c])
      /\ t.web[c].state = s.web[c].state /\ t.web[c].buf = s.web[c].buf
      /\ t.web[c].eof = s.web[c].eof
      /\ HeardClean(c, s.web[c]) => Clean(c, t.web[c]) /\ HeardClean(c, t.web[c])
  <2>1. PICK e, f : e = s.web[c] /\ f = t.web[c]
    OBVIOUS
  <2>2. Heard(c, e) /\ Same(e, f, {"asked"}) /\ f.asked = TRUE /\ c \in Conns /\ scene \in Scenes
    BY <1>2, <2>1
  <2>3. e.idle <= NetTimeout /\ Kind(Asked(c, e)) \in {"info", "add"}
    BY <2>1
  <2>4. /\ Heard(c, f) /\ f.idle = e.idle /\ Size(f) = Size(e) /\ f.state = e.state
        /\ f.buf = e.buf /\ f.eof = e.eof
        /\ HeardClean(c, e) /\ Kind(Asked(c, e)) \in {"info", "add"} => Clean(c, f) /\ HeardClean(c, f)
    BY ONLY <2>2, AskSound
  <2> QED
    BY ONLY <2>1, <2>3, <2>4
<1>4. PICK m, b : b \in Seq(Order) /\ b = s.back /\ m = Command(type, c, Current(s.web[c]))
  BY <1>1 DEF PassShape
<1>5. m \in Order /\ m.type = type /\ m.conn = c /\ m.req = Current(s.web[c])
  <2>1. Current(s.web[c]) \in Nat /\ m = Command(type, c, Current(s.web[c]))
    BY <1>4, AskedType DEF Heard, Sound
  <2> QED
    BY <2>1 DEF Command, Order
<1>6. t.back = Append(b, m) /\ t.back \in Seq(Order)
  BY ONLY <1>2, <1>4, <1>5, AppendSeq
<1>7. s.again \subseteq t.again /\ t.again \subseteq Conns
  BY <1>1, <1>2 DEF PassShape
<1>8. PassShape(t) /\ Changes(c, s, t)
  BY <1>2, <1>6, <1>7 DEF PassShape, Changes
<1>9. PassSound(t)
  BY <1>1, <1>2, <1>3, <1>7 DEF PassSound, Heard
<1>10. Pending(q, t)
  <2>1. Pending(q, s)
    BY DEF PassOK
  <2>2. \A k \in DOMAIN t.back : \/ k \in DOMAIN b /\ t.back[k] = b[k]
                                 \/ k = Len(b) + 1 /\ t.back[k] = m
    BY ONLY <1>4, <1>5, <1>6, AppendSeq
  <2>3. \A k \in DOMAIN b : b[k] \in Order /\ k # Len(b) + 1
    BY ONLY <1>4, <1>5, AppendSeq
  <2>4. \A k \in DOMAIN b : b[k].conn \in Conns
    BY <2>3 DEF Order
  <2>5. CASE s.web[c].asked
    <3>1. c \in t.again
      BY <2>5, <1>2
    <3>2. \A d \in Conns \ t.again : t.web[d] = s.web[d]
      BY <3>1, <1>2
    <3> QED
      BY <2>1, <2>2, <2>3, <2>4, <3>1, <3>2, <1>4, <1>5, <1>7 DEF Pending
  <2>6. CASE ~s.web[c].asked
    <3>1. \A k : ~Waiting(c, s.web[c], k)
      BY <2>6 DEF Waiting, Heard, Asking
    <3>2. \A d \in Conns \ {c} : t.web[d] = s.web[d]
      BY <1>2
    <3>3. t.again = s.again
      BY <2>6, <1>2
    <3>4. type = "GET_INFO" /\ c \notin s.again => Waiting(c, t.web[c], m.req)
      <4>1. SUFFICES ASSUME type = "GET_INFO", c \notin s.again PROVE Waiting(c, t.web[c], m.req)
        OBVIOUS
      <4>2. Kind(Asked(c, s.web[c])) = "info" /\ HeardClean(c, s.web[c])
        BY <4>1
      <4>3. Expected(Asked(c, s.web[c])) = "info"
        BY <4>2, ExpectedIs DEF HeardClean, Accepted
      <4>4. Asked(c, t.web[c]) = Asked(c, s.web[c])
        BY <1>3 DEF Asked
      <4>5. m.req = t.web[c].buf[1].req /\ t.web[c].buf # <<>>
        BY <1>3, <1>5 DEF Current, Heard
      <4>6. t.web[c].state \in Asking \cup {"CLOSE"} /\ (t.web[c].state = "CLOSE" => t.web[c].eof)
        BY <1>3 DEF Heard
      <4> QED
        BY <4>3, <4>4, <4>5, <4>6, <1>2, <1>3 DEF Waiting
    <3>5. \A e \in Info(q) : e.conn \notin s.again => e.conn # c
      BY <2>1, <3>1 DEF Pending
    <3>6. \A k \in DOMAIN b : b[k].type = "GET_INFO" /\ b[k].conn \notin s.again => b[k].conn # c
      BY <2>1, <1>4, <3>1 DEF Pending
    <3> QED
      <4>1. \A e \in Info(q) : e.conn \notin t.again => Waiting(e.conn, t.web[e.conn], e.req)
        BY <2>1, <3>2, <3>3, <3>5 DEF Pending
      <4>2. ASSUME NEW k \in DOMAIN t.back, t.back[k].type = "GET_INFO", t.back[k].conn \notin t.again
            PROVE  /\ Waiting(t.back[k].conn, t.web[t.back[k].conn], t.back[k].req)
                   /\ \A e \in Info(q) : e.conn # t.back[k].conn
                   /\ \A l \in DOMAIN t.back :
                        t.back[l].type = "GET_INFO" /\ t.back[l].conn = t.back[k].conn => l = k
        <5>1. CASE k \in DOMAIN b /\ t.back[k] = b[k]
          <6>1. b[k].conn # c /\ b[k].conn \in Conns
            BY <5>1, <4>2, <3>3, <3>6, <2>4
          <6> QED
            BY <5>1, <6>1, <4>2, <2>1, <2>2, <2>3, <3>2, <3>3, <1>4, <1>5 DEF Pending
        <5>2. CASE k = Len(b) + 1 /\ t.back[k] = m
          <6>1. c \notin s.again /\ type = "GET_INFO"
            BY <5>2, <4>2, <1>5, <3>3
          <6> QED
            BY <5>2, <6>1, <2>2, <3>4, <3>5, <3>6, <1>5
        <5> QED
          BY <5>1, <5>2, <2>2
      <4>3. /\ \A e \in Info(q) : e.conn \in Conns
            /\ \A e, f \in Info(q) : e.conn = f.conn /\ e.conn \notin t.again => e = f
        BY <2>1, <3>3 DEF Pending
      <4> QED
        BY <4>1, <4>2, <4>3 DEF Pending
  <2> QED
    BY <2>5, <2>6, <1>1
<1> QED
  BY <1>2, <1>3, <1>7, <1>8, <1>9, <1>10 DEF PassOK

\* A sequence of which one element is replaced.
LEMMA OneReplaced ==
  \A S : \A b \in Seq(S) : \A n \in DOMAIN b : \A m \in S :
    /\ [b EXCEPT ![n] = m] \in Seq(S) /\ DOMAIN [b EXCEPT ![n] = m] = DOMAIN b
    /\ [b EXCEPT ![n] = m][n] = m
    /\ \A k \in DOMAIN b \ {n} : [b EXCEPT ![n] = m][k] = b[k]
OBVIOUS

\* The command o, pushed once more, for another request.
OnceMore(o, c, k) == [o EXCEPT !.conn = c, !.req = k, !.copies = @ + 1]

\* What is pushed once more is a command.
LEMMA OrderIs ==
  ASSUME NEW o \in Order, NEW k \in Nat, NEW c \in Conns, NEW m, m = OnceMore(o, c, k)
  PROVE  m \in Order /\ m.type = o.type /\ m.conn = c
<1>1. PICK n \in Nat : n = o.copies + 1
  BY DEF Order
<1>2. m = [o EXCEPT !.conn = c, !.req = k, !.copies = n]
  BY <1>1 DEF OnceMore
<1> QED
  BY <1>2 DEF Order

\* A page is sent: the event made last is given to c and made once more.
LEMMA PushAgainOK ==
  ASSUME NEW q, NEW s, PassOK(q, s), NEW c \in Conns, Current(s.web[c]) \in Nat,
         NEW t, t = PushAgain(s, c)
  PROVE  PassOK(q, t) /\ t.web = s.web /\ Changes(c, s, t)
<1>1. /\ PassShape(s) /\ PassSound(s) /\ Pending(q, s) /\ s.back \in Seq(Order)
      /\ s = [f \in PassFields |-> s[f]] /\ s.again \subseteq Conns
  BY DEF PassOK, PassShape, PassRecord
<1>2. CASE Len(s.back) = 0
  <2>1. t = s
    BY <1>2 DEF PushAgain
  <2> QED
    BY <2>1 DEF Changes
<1>3. CASE Len(s.back) # 0
  <2>1. PICK b, n, k : b \in Seq(Order) /\ b = s.back /\ n = Len(b) /\ k = Current(s.web[c])
    BY <1>1
  <2>2. n \in DOMAIN b /\ b[n] \in Order /\ k \in Nat
    BY <1>3, <2>1
  <2>3. PICK m : m = OnceMore(b[n], c, k)
    OBVIOUS
  <2>4. m \in Order /\ m.type = b[n].type /\ m.conn = c
    <3>1. PICK o : o = b[n] /\ o \in Order
      BY <2>2
    <3>2. m = OnceMore(o, c, k) /\ k \in Nat
      BY ONLY <3>1, <2>2, <2>3
    <3> QED
      BY <3>1, <3>2, OrderIs
  <2>5. PICK v, a : v = [b EXCEPT ![n] = m] /\ a = s.again \cup {b[n].conn, c}
    OBVIOUS
  <2>6. /\ v \in Seq(Order) /\ DOMAIN v = DOMAIN b /\ v[n] = m
        /\ \A j \in DOMAIN b \ {n} : v[j] = b[j]
    BY <2>1, <2>2, <2>4, <2>5, OneReplaced
  <2>7. t = [s EXCEPT !.back = v, !.again = a]
    BY <1>3, <2>1, <2>3, <2>5 DEF PushAgain, OnceMore
  <2>8. /\ t = [f \in PassFields |-> t[f]] /\ t.back = v /\ t.again = a /\ t.web = s.web
        /\ t.list = s.list
    BY <1>1, <2>7 DEF PassFields
  <2>9. b[n].conn \in Conns
    BY <2>2 DEF Order
  <2>10. PassShape(t) /\ Changes(c, s, t)
    BY <1>1, <2>5, <2>6, <2>8, <2>9 DEF PassShape, PassRecord, Changes
  <2>11. PassSound(t)
    BY <1>1, <2>5, <2>8 DEF PassSound
  <2>12. Pending(q, t)
    <3>1. /\ s.again \subseteq t.again /\ c \in t.again /\ DOMAIN t.back = DOMAIN s.back
          /\ t.back[n].conn = c
          /\ \A j \in DOMAIN s.back : j # n => t.back[j] = s.back[j]
      BY ONLY <2>1, <2>4, <2>5, <2>6, <2>8
    <3>2. ASSUME NEW j \in DOMAIN t.back, t.back[j].type = "GET_INFO", t.back[j].conn \notin t.again
          PROVE  /\ Waiting(t.back[j].conn, t.web[t.back[j].conn], t.back[j].req)
                 /\ \A e \in Info(q) : e.conn # t.back[j].conn
                 /\ \A l \in DOMAIN t.back :
                      t.back[l].type = "GET_INFO" /\ t.back[l].conn = t.back[j].conn => l = j
      <4>1. j # n /\ j \in DOMAIN s.back /\ t.back[j] = s.back[j] /\ s.back[j].conn \notin s.again
        BY ONLY <3>1, <3>2
      <4>2. \A l \in DOMAIN t.back : t.back[l].conn = t.back[j].conn => l # n
        BY ONLY <3>1, <3>2
      <4>3. t.web = s.web
        BY <2>8
      <4> QED
        BY ONLY <1>1, <3>1, <3>2, <4>1, <4>2, <4>3 DEF Pending
    <3>3. /\ \A e \in Info(q) : e.conn \in Conns
          /\ \A e \in Info(q) : e.conn \notin t.again => Waiting(e.conn, t.web[e.conn], e.req)
          /\ \A e, f \in Info(q) : e.conn = f.conn /\ e.conn \notin t.again => e = f
      BY <1>1, <3>1, <2>8 DEF Pending
    <3> QED
      BY <3>2, <3>3 DEF Pending
  <2> QED
    BY <2>8, <2>10, <2>11, <2>12 DEF PassOK
<1> QED
  BY <1>2, <1>3

\* A reply to the request that is not a command.
LEMMA ReplyOK ==
  ASSUME scene \in Scenes, NEW q, NEW s, PassOK(q, s), NEW c \in Conns, NEW e, e = s.web[c],
         Heard(c, e), c \notin s.again => HeardClean(c, e),
         Kind(Asked(c, e)) \notin {"info", "add"},
         NEW f, Same(e, f, {"state", "body", "reply", "for", "keep"}),
         f.state = "WRITE_HEADER", f.body \in {"none", "heap", "static"}, f.reply \in Replies,
         f.for = Current(e), f.keep = e.keep,
         HeardClean(c, e) => f.reply = Expected(Asked(c, e)),
         NEW t, t = WithWeb(s, c, f)
  PROVE  /\ PassOK(q, t) /\ Changes(c, s, t) /\ t.web[c] = f /\ t.again = s.again
         /\ f.idle = e.idle /\ Size(f) = Size(e) /\ Current(f) \in Nat
<1>1. /\ Sound(c, f) /\ f.rd /\ ~f.wr /\ f.idle = e.idle /\ Size(f) = Size(e)
      /\ HeardClean(c, e) /\ f.reply = Expected(Asked(c, e)) => Clean(c, f)
  BY AnswerHeard
<1>2. c \notin s.again => Clean(c, f)
  BY <1>1
<1>3. c \notin s.again => \A k : ~Waiting(c, e, k)
  <2>1. HeardClean(c, e) => ~e.asked
    BY DEF HeardClean
  <2> QED
    BY <2>1 DEF Waiting, Heard, Asking
<1>4. /\ PassOK(q, t) /\ Changes(c, s, t) /\ t.web[c] = f /\ t.again = s.again
  <2>1. Sound(c, f) /\ PassOK(q, s) /\ c \in Conns /\ t = WithWeb(s, c, f)
    BY <1>1
  <2>2. /\ c \notin s.again => Clean(c, f)
        /\ c \notin s.again => Keeps(c, s.web[c], f)
    BY <1>2, <1>3 DEF Keeps
  <2> QED
    BY ONLY <2>1, <2>2, UpdateOK
<1>5. Current(f) \in Nat
  <2>1. f.buf \in Seq(Part(c))
    BY <1>1, FieldsTyped DEF Sound
  <2> QED
    BY ONLY <2>1, CurrentNat, scene \in Scenes, c \in Conns
<1> QED
  BY <1>1, <1>4, <1>5

\* t is what the callback makes of s for c.
Called(q, c, s, t) ==
  /\ PassOK(q, t) /\ Changes(c, s, t)
  /\ t.web[c].idle = s.web[c].idle /\ Size(t.web[c]) = Size(s.web[c])
  /\ t.web[c].state \in Asking \cup {"CLOSE", "WRITE_HEADER"}
  /\ t.web[c].state = "PARSE_HEADER" => t.web[c].asked

\* The callback of a request: a page, a command or an error.
LEMMA CallbackSound ==
  ASSUME scene \in Scenes, NEW q, NEW s, PassOK(q, s), NEW c \in Conns,
         Heard(c, s.web[c]), c \notin s.again => HeardClean(c, s.web[c]),
         s.web[c].idle <= NetTimeout
  PROVE  Called(q, c, s, ProcessCmd(s, c, Kind(Asked(c, s.web[c]))))
<1>1. PICK t, e, k : /\ t = ProcessCmd(s, c, k) /\ e = s.web[c] /\ k = Kind(Asked(c, e))
  OBVIOUS
<1>2. /\ Heard(c, e) /\ (c \notin s.again => HeardClean(c, e))
      /\ e = [f \in Fields |-> e[f]] /\ Shape(c, e) /\ s.web[c] = e
  BY <1>1 DEF Heard, Sound, Shape
<1>3. k \in {"page", "info", "add", "unknown", "incomplete"}
  BY <1>1, KindIs
<1>4. Current(e) \in Nat
  BY <1>2, AskedType DEF Heard
<1>5. e.keep \in BOOLEAN
  BY <1>2, FieldsTyped
<1>6. HeardClean(c, e) =>
        /\ k = "incomplete" => Expected(Asked(c, e)) = "error"
        /\ k = "unknown" => Expected(Asked(c, e)) = "404"
        /\ k = "page" => Expected(Asked(c, e)) = "page"
  BY <1>1, ExpectedIs DEF HeardClean, Accepted
<1>7. CASE k \in {"info", "add"}
  <2>1. PICK type \in {"GET_INFO", "ADD"} : t = Push(s, c, type) /\ (type = "GET_INFO" => k = "info")
    BY <1>1, <1>7 DEF ProcessCmd
  <2>2. /\ PassOK(q, t) /\ Changes(c, s, t) /\ Heard(c, t.web[c]) /\ t.web[c].asked
        /\ t.web[c].idle = s.web[c].idle /\ Size(t.web[c]) = Size(s.web[c])
    <3>1. PICK ty : t = Push(s, c, ty) /\ ty \in {"GET_INFO", "ADD"} /\ (ty = "GET_INFO" => k = "info")
      BY <2>1
    <3>2. /\ Heard(c, s.web[c]) /\ (c \notin s.again => HeardClean(c, s.web[c]))
          /\ s.web[c].idle <= NetTimeout /\ PassOK(q, s) /\ scene \in Scenes /\ c \in Conns
      OBVIOUS
    <3>3. /\ Kind(Asked(c, s.web[c])) \in {"info", "add"}
          /\ ty = "GET_INFO" => Kind(Asked(c, s.web[c])) = "info"
      BY ONLY <3>1, <1>1, <1>2, <1>7
    <3> QED
      BY ONLY <3>1, <3>2, <3>3, PushOK
  <2> QED
    BY <2>2, <1>1 DEF Called, Heard
<1>8. CASE k \notin {"info", "add"}
  <2>1. PICK f : f = IF k = "page" THEN MkHeader(e, "page", Current(e))
                     ELSE IF k = "incomplete" THEN MkHeader(e, "error", Current(e))
                     ELSE MkError(e, "404", TRUE)
    OBVIOUS
  <2>2. PICK u : u = WithWeb(s, c, f)
    OBVIOUS
  <2>3. t = (IF k = "page" THEN PushAgain(u, c) ELSE u)
    <3>1. [s EXCEPT !.web[c] = f] = u
      BY <2>2 DEF WithWeb
    <3>2. CASE k = "page"
      <4>1. t = PushAgain([s EXCEPT !.web[c] = MkHeader(s.web[c], "page", Current(s.web[c]))], c)
        BY <3>2, <1>1 DEF ProcessCmd
      <4> QED
        BY <4>1, <3>1, <3>2, <2>1, <1>1
    <3>3. CASE k = "incomplete"
      <4>1. t = [s EXCEPT !.web[c] = MkHeader(s.web[c], "error", Current(s.web[c]))]
        BY <3>3, <1>1 DEF ProcessCmd
      <4> QED
        BY <4>1, <3>1, <3>3, <2>1, <1>1
    <3>4. CASE k = "unknown"
      <4>1. t = [s EXCEPT !.web[c] = MkError(s.web[c], "404", TRUE)]
        BY <3>4, <1>1 DEF ProcessCmd
      <4> QED
        BY <4>1, <3>1, <3>4, <2>1, <1>1
    <3> QED
      BY <3>2, <3>3, <3>4, <1>3, <1>8
  <2>4. /\ Same(e, f, {"state", "body", "reply", "for", "keep"})
        /\ f.state = "WRITE_HEADER" /\ f.body \in {"none", "heap", "static"} /\ f.reply \in Replies
        /\ f.for = Current(e) /\ f.keep = e.keep
        /\ HeardClean(c, e) => f.reply = Expected(Asked(c, e))
    <3>1. CASE k \in {"page", "incomplete"}
      <4>1. PICK rep : f = MkHeader(e, rep, Current(e)) /\ rep = IF k = "page" THEN "page" ELSE "error"
        BY <3>1, <2>1
      <4>2. /\ Same(e, f, {"state", "body", "reply", "for", "keep"})
            /\ f.state = "WRITE_HEADER" /\ f.body = "heap" /\ f.for = Current(e) /\ f.keep = e.keep
            /\ f.reply = IF e.written THEN "garbled" ELSE rep
        BY <1>2, <4>1, MkHeaderIs
      <4>3. f.reply \in Replies
        BY <4>1, <4>2 DEF Replies
      <4>4. HeardClean(c, e) => ~e.written
        BY DEF HeardClean, Fresh
      <4> QED
        BY <4>1, <4>2, <4>3, <4>4, <1>6, <3>1
    <3>2. CASE k = "unknown"
      <4>1. PICK ka : ka = TRUE
        OBVIOUS
      <4>2. f = MkError(e, "404", ka)
        BY <4>1, <3>2, <2>1
      <4>3. /\ Same(e, f, {"state", "body", "reply", "for", "keep"})
            /\ f.state = "WRITE_HEADER" /\ f.body = "static" /\ f.reply = "404"
            /\ f.for = Current(e) /\ f.keep = (e.keep /\ ka)
        BY <1>2, <4>2, MkErrorIs
      <4>4. f.keep = e.keep
        BY <4>1, <4>3, <1>5
      <4> QED
        BY <4>3, <4>4, <1>6, <3>2 DEF Replies
    <3> QED
      BY <3>1, <3>2, <1>3, <1>8
  <2>5. /\ PassOK(q, u) /\ Changes(c, s, u) /\ u.web[c] = f /\ u.again = s.again
        /\ f.idle = e.idle /\ Size(f) = Size(e) /\ Current(f) \in Nat
    <3>1. /\ PassOK(q, s) /\ e = s.web[c] /\ scene \in Scenes /\ c \in Conns
          /\ Heard(c, e) /\ (c \notin s.again => HeardClean(c, e))
          /\ Kind(Asked(c, e)) \notin {"info", "add"} /\ u = WithWeb(s, c, f)
      BY <1>1, <1>2, <1>8, <2>2
    <3> QED
      BY ONLY <3>1, <2>4, ReplyOK
  <2>6. PassOK(q, t) /\ t.web = u.web /\ Changes(c, u, t)
    BY <2>3, <2>5, PushAgainOK DEF Changes
  <2>7. Changes(c, s, t)
    BY <2>5, <2>6 DEF Changes
  <2> QED
    BY <1>1, <2>4, <2>5, <2>6, <2>7 DEF Called
<1> QED
  BY <1>1, <1>7, <1>8

\* A request that waits for its command has right answers before it.
LEMMA HeardIsClean ==
  ASSUME NEW c, NEW e, Heard(c, e), HeardClean(c, e)
  PROVE  Clean(c, e)
BY DEF Heard, HeardClean, Clean, Fresh, Asking, Writing

\* parse_request, and what the callback does.
LEMMA ParseRequestSound ==
  ASSUME scene \in Scenes, NEW q, NEW s, PassOK(q, s), NEW c \in Conns, NEW n \in 1 .. 2,
         s.web[c].state = "PARSE_HEADER", s.web[c].idle <= NetTimeout,
         NEW t, t = ParseRequest(s, c, n)
  PROVE  /\ PassOK(q, t) /\ Changes(c, s, t)
         /\ t.web[c].idle = s.web[c].idle /\ Size(t.web[c]) = Size(s.web[c])
         /\ t.web[c].state = "PARSE_HEADER" => t.web[c].asked
         /\ Open(t.web[c])
<1>1. PICK e, a, r : e = s.web[c] /\ a = Asked(c, e) /\ r = ParseHeader(e, a, n)
  OBVIOUS
<1>2. /\ Sound(c, e) /\ e.state = "PARSE_HEADER" /\ e.idle <= NetTimeout
      /\ c \notin s.again => Clean(c, e)
  BY <1>1 DEF PassOK, PassSound
<1>3. /\ Sound(c, r) /\ r.rd /\ ~r.wr /\ r.idle = e.idle /\ r.eof = e.eof
      /\ r.asked = e.asked /\ Size(r) = Size(e) /\ r.buf # <<>> /\ r.buf[1] = e.buf[1]
      /\ ReachesCallback(r, a) => Heard(c, r) /\ (Clean(c, e) => HeardClean(c, r))
      /\ ~ReachesCallback(r, a) =>
           r.state \in {"WRITE_HEADER", "READ_BODY"} /\ (Clean(c, e) => Clean(c, r) /\ ~e.asked)
  BY ONLY <1>1, <1>2, ParseHeaderSound, scene \in Scenes, c \in Conns, n \in 1 .. 2
<1>4. Request(c, e) = a /\ Request(c, r) = a /\ Asked(c, r) = a
  <2>1. Shape(c, e) /\ Shape(c, r) /\ e.buf # <<>> /\ r.buf # <<>>
    BY <1>2, <1>3 DEF Sound, Buffered, Asking
  <2>2. Asked(c, e) = Request(c, e) /\ Asked(c, r) = Request(c, r)
    BY <2>1, AskedType
  <2>3. Asked(c, r) = Asked(c, e)
    BY <1>3 DEF Asked
  <2> QED
    BY <2>2, <2>3, <1>1
<1>5. PICK u : u = WithWeb(s, c, r)
  OBVIOUS
<1>6. t = (IF ReachesCallback(r, a) THEN ProcessCmd(u, c, Kind(a)) ELSE u)
  BY <1>1, <1>4, <1>5, <1>2 DEF ParseRequest, WithWeb
<1>7. c \notin s.again => Clean(c, r)
  BY <1>2, <1>3, HeardIsClean
<1>8. c \notin s.again => Keeps(c, e, r)
  <2>1. SUFFICES ASSUME c \notin s.again, NEW k, Waiting(c, e, k) PROVE Waiting(c, r, k)
    BY DEF Keeps
  <2>2. /\ e.asked /\ e.idle <= NetTimeout /\ k = e.buf[1].req /\ Expected(a) = "info"
    BY <2>1, <1>1, <1>2 DEF Waiting
  <2>3. Heard(c, r) /\ r.asked
    BY <2>1, <2>2, <1>2, <1>3
  <2> QED
    BY <2>2, <2>3, <1>3, <1>4 DEF Waiting, Heard
<1>9. PassOK(q, u) /\ Changes(c, s, u) /\ u.web[c] = r /\ u.again = s.again
  <2>1. c \notin s.again => Keeps(c, s.web[c], r)
    BY <1>1, <1>8
  <2>2. PassOK(q, s) /\ Sound(c, r) /\ c \in Conns
    BY <1>3
  <2> QED
    BY ONLY <2>1, <2>2, <1>5, <1>7, UpdateOK
<1>10. CASE ReachesCallback(r, a)
  <2>1. /\ Heard(c, u.web[c]) /\ (c \notin u.again => HeardClean(c, u.web[c]))
        /\ u.web[c].idle <= NetTimeout /\ Asked(c, u.web[c]) = a
    BY <1>2, <1>3, <1>4, <1>9, <1>10
  <2>2. Called(q, c, u, ProcessCmd(u, c, Kind(Asked(c, u.web[c]))))
    BY ONLY <2>1, <1>9, CallbackSound, scene \in Scenes, c \in Conns
  <2>3. Called(q, c, u, t)
    BY <2>1, <2>2, <1>6, <1>10
  <2> QED
    BY <2>3, <1>1, <1>3, <1>9 DEF Called, Changes, Open, Asking
<1>11. CASE ~ReachesCallback(r, a)
  BY <1>11, <1>6, <1>1, <1>3, <1>9 DEF Open
<1> QED
  BY <1>10, <1>11

\* parse_request_body.
LEMMA ParseBodySound ==
  ASSUME scene \in Scenes, NEW q, NEW s, PassOK(q, s), NEW c \in Conns,
         s.web[c].state = "PARSE_BODY", s.web[c].idle <= NetTimeout,
         NEW t, t = ParseRequestBody(s, c)
  PROVE  Called(q, c, s, t)
<1>1. PICK e : e = s.web[c]
  OBVIOUS
<1>2. Sound(c, e) /\ e.state = "PARSE_BODY" /\ (c \notin s.again => Clean(c, e))
  BY <1>1 DEF PassOK, PassSound
<1>3. Heard(c, e)
  <2>1. e.rd \in BOOLEAN /\ e.wr \in BOOLEAN
    BY <1>2, FieldsTyped DEF Sound
  <2> QED
    BY <1>2, <2>1 DEF Heard, Sound, Watched, Buffered, Open, Asking, Writing
<1>4. Clean(c, e) => HeardClean(c, e)
  BY <1>2 DEF HeardClean, Clean, Fresh
<1>5. Asked(c, e) = Request(c, e)
  BY <1>3, AskedType DEF Heard, Sound
<1>6. t = ProcessCmd(s, c, Kind(Asked(c, s.web[c])))
  BY <1>1, <1>2, <1>5 DEF ParseRequestBody
<1>7. /\ Heard(c, s.web[c]) /\ (c \notin s.again => HeardClean(c, s.web[c]))
      /\ s.web[c].idle <= NetTimeout /\ PassOK(q, s) /\ scene \in Scenes /\ c \in Conns
  BY <1>1, <1>2, <1>3, <1>4
<1> QED
  BY ONLY <1>6, <1>7, CallbackSound

\* A round leaves an answer, or a connection that waits, and fewer parts if there
\* is another round.
Rounded(q, c, s, t) ==
  /\ PassOK(q, t) /\ Changes(c, s, t) /\ Prompt(t.web[c]) /\ t.web[c].state # "FINISHED"
  /\ Open(t.web[c])
  /\ More(t.web[c]) => Size(t.web[c]) < Size(s.web[c])

\* One round of the loop that parses what is pipelined.
LEMMA RoundSound ==
  ASSUME scene \in Scenes, NEW q, NEW s, PassOK(q, s), NEW c \in Conns, Plan(c) \in Seq(Part(c)),
         Prompt(s.web[c]), Open(s.web[c]), NEW n \in 1 .. 2, NEW room \in RoomSet
  PROVE  Rounded(q, c, s, Round(s, c, n, room))
<1>1. PICK v, p, e, f, t :
        /\ v = ParseRequest(s, c, n) /\ p = ParseRequestBody(v, c) /\ e = p.web[c]
        /\ f = Finish(SwitchToWriting(e, room)) /\ t = WithWeb(p, c, f)
  OBVIOUS
<1>2. t = Round(s, c, n, room)
  BY <1>1 DEF Round, WithWeb
<1>3. /\ PassOK(q, v) /\ Changes(c, s, v) /\ Size(v.web[c]) = Size(s.web[c])
      /\ v.web[c].state = "PARSE_HEADER" => v.web[c].asked
      /\ Prompt(v.web[c]) /\ Open(v.web[c])
  <2>1. CASE s.web[c].state = "PARSE_HEADER"
    <3>1. s.web[c].idle <= NetTimeout
      BY <2>1 DEF Prompt, Writing
    <3>2. /\ PassOK(q, v) /\ Changes(c, s, v)
          /\ v.web[c].idle = s.web[c].idle /\ Size(v.web[c]) = Size(s.web[c])
          /\ v.web[c].state = "PARSE_HEADER" => v.web[c].asked
          /\ Open(v.web[c])
      BY <2>1, <3>1, <1>1, ParseRequestSound
    <3> QED
      BY <3>1, <3>2 DEF Prompt
  <2>2. CASE s.web[c].state # "PARSE_HEADER"
    <3>1. v = s
      BY <1>1, <2>2 DEF ParseRequest
    <3> QED
      BY <2>2, <3>1 DEF Changes
  <2> QED
    BY <2>1, <2>2
<1>4. /\ PassOK(q, p) /\ Changes(c, v, p) /\ Size(e) = Size(v.web[c])
      /\ e.state = "PARSE_HEADER" => e.asked
      /\ Prompt(e) /\ Open(e)
  <2>1. CASE v.web[c].state = "PARSE_BODY"
    <3>1. v.web[c].idle <= NetTimeout
      BY <2>1, <1>3 DEF Prompt, Writing
    <3>2. Called(q, c, v, p)
      BY <2>1, <3>1, <1>1, <1>3, ParseBodySound
    <3> QED
      BY <3>1, <3>2, <1>1 DEF Called, Prompt, Open, Asking
  <2>2. CASE v.web[c].state # "PARSE_BODY"
    <3>1. p = v
      BY <1>1, <2>2 DEF ParseRequestBody
    <3> QED
      BY <3>1, <1>1, <1>3 DEF Changes
  <2> QED
    BY <2>1, <2>2
<1>5. Sound(c, e) /\ (c \notin p.again => Clean(c, e))
  BY <1>1, <1>4 DEF PassOK, PassSound
<1>6. /\ Sound(c, f) /\ Prompt(f) /\ f.state # "FINISHED"
      /\ Clean(c, e) => Clean(c, f)
      /\ More(f) => Size(f) < Size(e)
      /\ e.state \notin {"WRITE_HEADER", "FINISHED"} => f = e
      /\ Open(f)
  BY <1>1, <1>4, <1>5, AnswerSent
<1>7. Keeps(c, e, f)
  BY <1>6 DEF Keeps, Waiting, Asking
<1>8. PassOK(q, t) /\ Changes(c, p, t) /\ t.web[c] = f
  <2>1. c \notin p.again => Keeps(c, p.web[c], f)
    BY <1>1, <1>7
  <2>2. c \notin p.again => Clean(c, f)
    BY <1>5, <1>6
  <2>3. PassOK(q, p) /\ Sound(c, f) /\ c \in Conns /\ t = WithWeb(p, c, f)
    BY <1>1, <1>4, <1>6
  <2> QED
    BY ONLY <2>1, <2>2, <2>3, UpdateOK
<1>9. Changes(c, s, t)
  BY <1>3, <1>4, <1>8 DEF Changes
<1> QED
  BY <1>2, <1>3, <1>4, <1>6, <1>8, <1>9 DEF Rounded

\* Numbers that contain 0, and with a number the next, are all numbers up to the last.
LEMMA AllNumbers ==
  ASSUME NEW n \in Nat, NEW T, 0 \in T, \A i \in 0 .. n : i \in T /\ i < n => i + 1 \in T
  PROVE  0 .. n \subseteq T
<1> SUFFICES ASSUME ~(0 .. n \subseteq T) PROVE FALSE
  OBVIOUS
<1> DEFINE Others == {i \in 0 .. n : i \notin T}
<1>1. PICK i \in Others : \A j \in Others : i <= j
  <2>1. Others \in SUBSET Nat /\ Others # {}
    OBVIOUS
  <2> QED
    BY <2>1, Least
<1>2. i \in 0 .. n /\ i \notin T /\ i # 0
  BY <1>1
<1>3. i - 1 \in 0 .. n /\ i - 1 < n /\ i - 1 \notin Others
  BY <1>1, <1>2
<1>4. i - 1 \in T /\ (i - 1) + 1 = i
  BY <1>2, <1>3
<1> QED
  BY <1>2, <1>3, <1>4

\* What another round makes of t, if there is one.
NextRound(t, c, n, room) == IF More(t.web[c]) THEN Round(t, c, n, room) ELSE t

\* f is the rounds of s, of which m follow the first.
RoundsAre(s, c, n, room, m, f) ==
  f = [k \in 0 .. m |-> IF k = 0 THEN Round(s, c, n, room)
                        ELSE NextRound(f[k - 1], c, n, room)]

\* The rounds of the loop are well defined.
LEMMA RoundsExist ==
  ASSUME NEW s, NEW c, NEW n, NEW room, NEW m \in Nat
  PROVE  \E f : RoundsAre(s, c, n, room, m, f)
<1> DEFINE T == {k \in 0 .. m : \E f : RoundsAre(s, c, n, room, k, f)}
<1>1. 0 \in T
  <2> DEFINE g == [k \in 0 .. 0 |-> Round(s, c, n, room)]
  <2>1. RoundsAre(s, c, n, room, 0, g)
    BY DEF RoundsAre
  <2> QED
    BY <2>1
<1>2. ASSUME NEW k \in 0 .. m, k \in T, k < m PROVE k + 1 \in T
  <2>1. PICK f : RoundsAre(s, c, n, room, k, f)
    BY <1>2
  <2> DEFINE g == [i \in 0 .. k + 1 |-> IF i <= k THEN f[i] ELSE NextRound(f[k], c, n, room)]
  <2>2. \A i \in 0 .. k : f[i] = IF i = 0 THEN Round(s, c, n, room)
                                 ELSE NextRound(f[i - 1], c, n, room)
    BY <2>1 DEF RoundsAre
  <2>3. \A i \in 0 .. k : g[i] = f[i]
    OBVIOUS
  <2>4. g[k + 1] = NextRound(g[k], c, n, room)
    BY <2>3
  <2>5. ASSUME NEW i \in 0 .. k + 1
        PROVE  g[i] = IF i = 0 THEN Round(s, c, n, room) ELSE NextRound(g[i - 1], c, n, room)
    <3>1. CASE i = k + 1
      BY <3>1, <2>4
    <3>2. CASE i = 0
      BY <3>2, <2>2, <2>3
    <3>3. CASE i \in 1 .. k
      <4>1. i \in 0 .. k /\ i - 1 \in 0 .. k /\ i # 0
        BY <3>3
      <4>2. g[i] = f[i] /\ g[i - 1] = f[i - 1]
        BY <4>1, <2>3
      <4> QED
        BY <4>1, <4>2, <2>2
    <3> QED
      BY <3>1, <3>2, <3>3
  <2>6. RoundsAre(s, c, n, room, k + 1, g)
    <3>1. g = [i \in 0 .. k + 1 |-> g[i]]
      OBVIOUS
    <3> HIDE DEF g
    <3> QED
      BY <2>5, <3>1 DEF RoundsAre
  <2> HIDE DEF g
  <2>7. k + 1 \in 0 .. m
    BY <1>2
  <2> QED
    BY ONLY <2>6, <2>7
<1>3. 0 .. m \subseteq T
  <2> HIDE DEF T
  <2> QED
    BY <1>1, <1>2, AllNumbers
<1>4. m \in T
  BY <1>3
<1> QED
  BY <1>4

\* Serve is the last of its rounds.
LEMMA ServeIs ==
  ASSUME NEW s, NEW c, NEW n, NEW room, Size(s.web[c]) \in Nat
  PROVE  \E f : /\ RoundsAre(s, c, n, room, Size(s.web[c]), f)
                /\ Serve(s, c, n, room) = f[Size(s.web[c])]
<1> DEFINE f == CHOOSE f : RoundsAre(s, c, n, room, Size(s.web[c]), f)
<1>1. RoundsAre(s, c, n, room, Size(s.web[c]), f)
  BY RoundsExist, Zenon
<1>2. Serve(s, c, n, room) = f[Size(s.web[c])]
  BY Zenon DEF Serve, RoundsAre, NextRound, Size
<1> HIDE DEF f
<1> QED
  BY <1>1, <1>2

\* Every request in the buffer is served, up to one that waits.
Served(q, c, s, t) ==
  /\ PassOK(q, t) /\ Changes(c, s, t)
  /\ t.web[c].state # "FINISHED" /\ ~More(t.web[c]) /\ Open(t.web[c])

\* The size of what was read is a number.
LEMMA SizeNat ==
  ASSUME NEW c, NEW r, Sound(c, r)
  PROVE  Size(r) \in Nat
<1>1. r.buf \in Seq(Part(c)) /\ r.inbox \in Seq(Part(c))
  BY FieldsTyped DEF Sound
<1>2. PICK i, j : i = Len(r.buf) /\ j = Len(r.inbox) /\ i \in Nat /\ j \in Nat
  BY <1>1, LenProperties
<1>3. i + j \in Nat
  <2>1. i \in Nat /\ j \in Nat
    BY <1>2
  <2> QED
    BY ONLY <2>1
<1>4. Size(r) = i + j
  BY <1>2 DEF Size
<1> QED
  BY ONLY <1>3, <1>4

\* The loop over what is pipelined, however long.
LEMMA ServeSound ==
  ASSUME scene \in Scenes, NEW q, NEW s, PassOK(q, s), NEW c \in Conns, Plan(c) \in Seq(Part(c)),
         Prompt(s.web[c]), Open(s.web[c]), NEW n \in 1 .. 2, NEW room \in RoomSet
  PROVE  Served(q, c, s, Serve(s, c, n, room))
<1>1. PICK m : m = Size(s.web[c]) /\ m \in Nat
  BY SizeNat DEF PassOK, PassSound
<1>2. PICK f : RoundsAre(s, c, n, room, m, f) /\ Serve(s, c, n, room) = f[m]
  BY <1>1, ServeIs
<1>3. f[0] = Round(s, c, n, room) /\ \A k \in 1 .. m : f[k] = NextRound(f[k - 1], c, n, room)
  BY <1>1, <1>2 DEF RoundsAre
<1> DEFINE OK(k) == /\ PassOK(q, f[k]) /\ Changes(c, s, f[k]) /\ Prompt(f[k].web[c])
                    /\ f[k].web[c].state # "FINISHED" /\ Open(f[k].web[c])
                    /\ More(f[k].web[c]) => Size(f[k].web[c]) + k < m
           T == {k \in 0 .. m : OK(k)}
<1>4. 0 \in T
  <2>1. Rounded(q, c, s, f[0])
    BY <1>3, RoundSound
  <2>2. Size(f[0].web[c]) \in Nat
    BY <2>1, SizeNat DEF Rounded, PassOK, PassSound
  <2> QED
    BY <1>1, <2>1, <2>2 DEF Rounded
<1>5. ASSUME NEW k \in 0 .. m, k \in T, k < m PROVE k + 1 \in T
  <2>1. PICK t, u : t = f[k] /\ u = f[k + 1]
    OBVIOUS
  <2>2. /\ PassOK(q, t) /\ Changes(c, s, t) /\ Prompt(t.web[c])
        /\ t.web[c].state # "FINISHED" /\ Open(t.web[c]) /\ (More(t.web[c]) => Size(t.web[c]) + k < m)
    BY <1>5, <2>1
  <2>3. u = NextRound(t, c, n, room)
    <3>1. k + 1 \in 1 .. m /\ (k + 1) - 1 = k
      BY <1>1, <1>5
    <3> QED
      BY <3>1, <2>1, <1>3
  <2>4. OK(k + 1)
    <3>1. CASE More(t.web[c])
      <4>1. u = Round(t, c, n, room)
        BY <2>3, <3>1 DEF NextRound
      <4>2. Rounded(q, c, t, u)
        BY <4>1, <2>2, RoundSound
      <4>3. Size(t.web[c]) \in Nat /\ Size(u.web[c]) \in Nat
        BY <2>2, <4>2, SizeNat DEF Rounded, PassOK, PassSound
      <4>4. Changes(c, s, u)
        BY <2>2, <4>2 DEF Changes, Rounded
      <4>5. More(u.web[c]) => Size(u.web[c]) + (k + 1) < m
        BY <4>2, <4>3, <2>2, <3>1, <1>1 DEF Rounded
      <4> QED
        BY <4>2, <4>4, <4>5, <2>1 DEF Rounded
    <3>2. CASE ~More(t.web[c])
      <4>1. u = t
        BY <2>3, <3>2 DEF NextRound
      <4> QED
        BY <4>1, <2>1, <2>2, <3>2
    <3> QED
      BY <3>1, <3>2
  <2> HIDE DEF OK
  <2> QED
    BY <1>1, <1>5, <2>4
<1>6. OK(m)
  <2>1. 0 .. m \subseteq T
    <3> HIDE DEF T
    <3> QED
      BY <1>1, <1>4, <1>5, AllNumbers
  <2> HIDE DEF OK
  <2> QED
    BY <1>1, <2>1
<1>7. Size(f[m].web[c]) \in Nat
  BY <1>6, SizeNat DEF PassOK, PassSound
<1>8. ~More(f[m].web[c])
  BY <1>1, <1>6, <1>7
<1> QED
  BY <1>2, <1>6, <1>8 DEF Served

\* The pass with l for its list.
WithList(s, l) == [s EXCEPT !.list = l]

\* The list of a pass is replaced.
LEMMA ListOK ==
  ASSUME NEW q, NEW s, PassOK(q, s), NEW l, NEW t, t = WithList(s, l)
  PROVE  /\ PassOK(q, t) /\ t.web = s.web /\ t.again = s.again /\ t.back = s.back /\ t.list = l
<1>1. s = [f \in PassFields |-> s[f]]
  BY DEF PassOK, PassShape, PassRecord
<1>2. /\ t = [f \in PassFields |-> t[f]] /\ t.web = s.web /\ t.again = s.again
      /\ t.back = s.back /\ t.list = l
  BY <1>1 DEF WithList, PassFields
<1>3. PassRecord(t)
  BY <1>2 DEF PassOK, PassShape, PassRecord
<1> QED
  BY <1>2, <1>3 DEF PassOK, PassShape, PassSound, Pending

\* What select may say of a connection.
Reported(r, ready) ==
  /\ "rd" \in ready => r.rd
  /\ "wr" \in ready => r.wr /\ r.state \in Writing
  /\ r.state = "CLOSE" => ready = {} /\ r.idle = 0

\* Reading, writing and the timeouts of a connection, before its requests are parsed.
Moved(r, n, room, ready, crowded) ==
  LET i == IF "rd" \in ready THEN Input(r, n) ELSE r
      o == IF "wr" \in ready THEN Output(i, room) ELSE i
  IN  Timeouts(o, crowded)

\* Reading, writing and the timeouts of one connection are sound.
LEMMA MovedSound ==
  ASSUME scene \in Scenes, NEW c \in Conns, Plan(c) \in Seq(Part(c)), NEW r, Sound(c, r), Open(r),
         NEW n \in 1 .. 2, NEW room \in RoomSet, NEW ready, Reported(r, ready),
         NEW crowded \in BOOLEAN
  PROVE  LET e == Moved(r, n, room, ready, crowded)
         IN  /\ Sound(c, e) /\ Prompt(e) /\ Open(e)
             /\ Clean(c, r) => Clean(c, e)
             /\ Keeps(c, r, e)
<1>1. PICK i, o, e : /\ i = (IF "rd" \in ready THEN Input(r, n) ELSE r)
                     /\ o = (IF "wr" \in ready THEN Output(i, room) ELSE i)
                     /\ e = Timeouts(o, crowded)
  OBVIOUS
<1>2. /\ Sound(c, i) /\ Open(i)
      /\ Clean(c, r) => Clean(c, i)
      /\ "rd" \notin ready => i = r
      /\ "rd" \in ready => i.idle = 0 /\ (r.state \in Asking => Same(r, i, {"idle"}))
  <2>1. CASE "rd" \in ready
    <3>1. i = Input(r, n) /\ r.rd
      BY <2>1, <1>1 DEF Reported
    <3>2. /\ Sound(c, i) /\ i.idle = 0 /\ Open(i)
          /\ Clean(c, r) => Clean(c, i)
          /\ r.state \in Asking => Same(r, i, {"idle"})
      BY <3>1, InputSound
    <3> QED
      BY <3>2, <2>1
  <2>2. CASE "rd" \notin ready
    BY <2>2, <1>1
  <2> QED
    BY <2>1, <2>2
<1>3. ~("rd" \in ready /\ "wr" \in ready)
  BY DEF Reported, Sound, Watched
<1>4. /\ Sound(c, o) /\ Open(o)
      /\ Clean(c, r) => Clean(c, o)
      /\ "wr" \notin ready => o = i
      /\ "wr" \in ready => r.state \in Writing
  <2>1. CASE "wr" \in ready
    <3>1. i = r /\ r.wr /\ r.state \in Writing /\ o = Output(r, room)
      BY <2>1, <1>1, <1>3 DEF Reported
    <3>2. /\ Sound(c, o) /\ Open(o) /\ (Clean(c, r) => Clean(c, o))
      BY <3>1, OutputSound
    <3> QED
      BY <2>1, <3>1, <3>2
  <2>2. CASE "wr" \notin ready
    BY <2>2, <1>1, <1>2
  <2> QED
    BY <2>1, <2>2
<1>5. /\ Sound(c, e) /\ Prompt(e) /\ Open(e)
      /\ Clean(c, o) => Clean(c, e)
      /\ o.state # "KEEPALIVE" /\ o.idle <= NetTimeout => e = o
  BY <1>1, <1>4, TimeoutsSound
<1>6. ASSUME NEW k, Waiting(c, r, k) PROVE Waiting(c, e, k)
  <2>1. CASE r.state = "CLOSE" /\ r.eof /\ r.asked
    <3>1. i = r /\ o = r /\ r.idle = 0
      BY <2>1, <1>2, <1>4 DEF Reported
    <3>2. r.idle <= NetTimeout
      BY <3>1, ControlAssumption
    <3>3. e = r
      BY <3>1, <3>2, <2>1, <1>5
    <3> QED
      BY <3>3, <1>6
  <2>2. CASE /\ r.state \in Asking /\ r.asked /\ r.idle <= NetTimeout
             /\ r.buf # <<>> /\ k = r.buf[1].req /\ Expected(Asked(c, r)) = "info"
    <3>1. o = i /\ r.state # "KEEPALIVE"
      BY <2>2, <1>4 DEF Asking, Writing
    <3>2. i.state = r.state /\ i.asked = r.asked /\ i.buf = r.buf /\ i.idle <= NetTimeout
      <4>1. CASE "rd" \in ready
        <5>1. Same(r, i, {"idle"}) /\ i.idle = 0
          BY <4>1, <2>2, <1>2
        <5>2. i.state = r.state /\ i.asked = r.asked /\ i.buf = r.buf
          BY <5>1 DEF Same, Fields
        <5>3. 0 <= NetTimeout
          BY ControlAssumption
        <5> QED
          BY <5>1, <5>2, <5>3
      <4>2. CASE "rd" \notin ready
        BY <4>2, <2>2, <1>2
      <4> QED
        BY <4>1, <4>2
    <3>3. e = i
      BY <3>1, <3>2, <1>5
    <3>4. Asked(c, i) = Asked(c, r)
      BY <3>2 DEF Asked
    <3> QED
      BY <3>2, <3>3, <3>4, <2>2 DEF Waiting
  <2>3. r.state # "closed"
    BY DEF Open
  <2> QED
    BY <1>6, <2>1, <2>2, <2>3 DEF Waiting
<1>7. Keeps(c, r, e)
  BY <1>6 DEF Keeps
<1>8. e = Moved(r, n, room, ready, crowded)
  BY <1>1 DEF Moved
<1> QED
  BY <1>4, <1>5, <1>7, <1>8

\* A connection that was visited: t is s after it.
Visited(q, c, s, t) ==
  /\ PassOK(q, t) /\ s.again \subseteq t.again
  /\ \A d \in Conns \ {c} : t.web[d] = s.web[d]
  /\ Settled(t.web[c])
  /\ t.list = IF Open(t.web[c]) THEN Append(s.list, c) ELSE s.list

\* One connection of a pass, from what select reports of it to its end.
LEMMA VisitSound ==
  ASSUME scene \in Scenes, NEW q, NEW s, PassOK(q, s), NEW c \in Conns,
         Plan(c) \in Seq(Part(c)), Ordered(Plan(c)), Open(s.web[c]),
         NEW n \in 1 .. 2, NEW room \in RoomSet, NEW ready, Reported(s.web[c], ready)
  PROVE  Visited(q, c, s, HandleConnection(s, c, n, room, ready))
<1>a. PICK crowded \in BOOLEAN : crowded = (Cardinality({d \in Conns : Open(s.web[d])}) > (MaxConn * 9) \div 10)
  <2>1. (Cardinality({d \in Conns : Open(s.web[d])}) > (MaxConn * 9) \div 10) \in BOOLEAN
    OBVIOUS
  <2> QED
    BY <2>1, Zenon
<1>b. PICK e : e = Moved(s.web[c], n, room, ready, crowded)
  OBVIOUS
<1>c. PICK u : u = WithWeb(s, c, e)
  OBVIOUS
<1>d. PICK t : t = Serve(u, c, n, room)
  OBVIOUS
<1>e. PICK g : g = Close(t.web[c])
  OBVIOUS
<1>f. PICK l : l = (IF t.web[c].state = "CLOSE" THEN t.list ELSE Append(t.list, c))
  OBVIOUS
<1>g. PICK v : v = WithWeb(t, c, g)
  OBVIOUS
<1>h. PICK h : h = WithList(v, l)
  OBVIOUS
<1>2. HandleConnection(s, c, n, room, ready) = [t EXCEPT !.web[c] = g, !.list = l]
  <2>1. PICK x : x = [t EXCEPT !.web[c] = Close(@),
                               !.list = IF t.web[c].state = "CLOSE" THEN @ ELSE Append(@, c)]
    OBVIOUS
  <2>4. t = Serve([s EXCEPT !.web[c] = Moved(s.web[c], n, room, ready, crowded)], c, n, room)
    BY <1>b, <1>c, <1>d DEF WithWeb
  <2>2. HandleConnection(s, c, n, room, ready) = x
    BY ONLY <1>a, <2>1, <2>4 DEF HandleConnection, Moved
  <2>3. x = [t EXCEPT !.web[c] = g, !.list = l]
    BY <1>e, <1>f, <2>1
  <2> QED
    BY <2>2, <2>3
<1>3. h = [t EXCEPT !.web[c] = g, !.list = l]
  BY <1>g, <1>h DEF WithList, WithWeb
<1>5. Sound(c, s.web[c]) /\ (c \notin s.again => Clean(c, s.web[c]))
  BY DEF PassOK, PassSound
<1>6. /\ Sound(c, e) /\ Prompt(e) /\ Open(e)
      /\ Clean(c, s.web[c]) => Clean(c, e)
      /\ Keeps(c, s.web[c], e)
  BY <1>a, <1>b, <1>5, MovedSound
<1>7. PassOK(q, u) /\ Changes(c, s, u) /\ u.web[c] = e
  <2>1. /\ PassOK(q, s) /\ c \in Conns /\ Sound(c, e)
        /\ c \notin s.again => Clean(c, e)
        /\ c \notin s.again => Keeps(c, s.web[c], e)
    BY <1>5, <1>6
  <2> QED
    BY ONLY <1>c, <2>1, UpdateOK
<1>8. Served(q, c, u, t)
  BY <1>d, <1>6, <1>7, ServeSound
<1>9. /\ Sound(c, t.web[c]) /\ (c \notin t.again => Clean(c, t.web[c]))
      /\ PassOK(q, t) /\ Changes(c, u, t)
  BY <1>8 DEF Served, PassOK, PassSound
<1>10. /\ Sound(c, g) /\ (Clean(c, t.web[c]) => Clean(c, g))
       /\ t.web[c].state # "CLOSE" => g = t.web[c]
       /\ t.web[c].state = "CLOSE" => Settled(g) /\ g.state = "closed" /\ g.eof = t.web[c].eof /\ ~Open(g)
  <2>1. PICK r : r = t.web[c]
    OBVIOUS
  <2>2. Sound(c, r) /\ g = Close(r) /\ c \in Conns /\ Plan(c) \in Seq(Part(c)) /\ Ordered(Plan(c))
    BY <2>1, <1>9, <1>e
  <2>3. /\ Sound(c, g) /\ (Clean(c, r) => Clean(c, g))
        /\ r.state # "CLOSE" => g = r
        /\ r.state = "CLOSE" => Settled(g) /\ g.state = "closed" /\ g.eof = r.eof /\ ~Open(g)
    BY ONLY <2>2, CloseSound
  <2> QED
    BY ONLY <2>1, <2>3
<1>11. Keeps(c, t.web[c], g)
  BY <1>10 DEF Keeps, Waiting, Asking
<1>12. PassOK(q, v) /\ Changes(c, t, v) /\ v.web[c] = g
  <2>1. /\ PassOK(q, t) /\ c \in Conns /\ Sound(c, g)
        /\ c \notin t.again => Clean(c, g)
        /\ c \notin t.again => Keeps(c, t.web[c], g)
    BY <1>9, <1>10, <1>11
  <2> QED
    BY ONLY <1>g, <2>1, UpdateOK
<1>13. PassOK(q, h) /\ h.web = v.web /\ h.again = v.again /\ h.list = l
  BY ONLY <1>h, <1>12, ListOK
<1>14. Settled(g) /\ (Open(g) <=> t.web[c].state # "CLOSE")
  BY <1>8, <1>10 DEF Served, More, Settled
<1>15. t.list = s.list
  BY <1>7, <1>9 DEF Changes
<1>16. h.list = IF Open(h.web[c]) THEN Append(s.list, c) ELSE s.list
  BY <1>f, <1>12, <1>13, <1>14, <1>15
<1>17. s.again \subseteq h.again /\ \A d \in Conns \ {c} : h.web[d] = s.web[d]
  BY <1>7, <1>9, <1>12, <1>13 DEF Changes
<1> QED
  BY <1>2, <1>3, <1>12, <1>13, <1>14, <1>16, <1>17 DEF Visited

\* What a pass starts with, and what the visit of c makes of it.
FirstPass(w, a) == [web |-> w, back |-> <<>>, again |-> a, list |-> <<>>]

\* The pass s goes on to connection c.
Visit(s, c, n, room, ready) == HandleConnection(s, c, n[c], room[c], ready[c])

\* f is what a pass makes of the first m connections of cs.
PassesAre(w, cs, n, room, ready, m, f) ==
  f = [k \in 0 .. m |-> IF k = 0 THEN FirstPass(w, again)
                        ELSE Visit(f[k - 1], cs[k], n, room, ready)]

\* The steps of a pass are well defined.
LEMMA PassesExist ==
  ASSUME NEW w, NEW cs, NEW n, NEW room, NEW ready, NEW m \in Nat
  PROVE  \E f : PassesAre(w, cs, n, room, ready, m, f)
<1> DEFINE T == {k \in 0 .. m : \E f : PassesAre(w, cs, n, room, ready, k, f)}
<1>1. 0 \in T
  <2> DEFINE g == [k \in 0 .. 0 |-> FirstPass(w, again)]
  <2>1. PassesAre(w, cs, n, room, ready, 0, g)
    BY DEF PassesAre
  <2> QED
    BY <2>1
<1>2. ASSUME NEW k \in 0 .. m, k \in T, k < m PROVE k + 1 \in T
  <2>1. PICK f : PassesAre(w, cs, n, room, ready, k, f)
    BY <1>2
  <2> DEFINE g == [i \in 0 .. k + 1 |-> IF i <= k THEN f[i]
                                        ELSE Visit(f[k], cs[k + 1], n, room, ready)]
  <2>2. \A i \in 0 .. k : f[i] = IF i = 0 THEN FirstPass(w, again)
                                 ELSE Visit(f[i - 1], cs[i], n, room, ready)
    BY <2>1 DEF PassesAre
  <2>3. \A i \in 0 .. k : g[i] = f[i]
    OBVIOUS
  <2>4. g[k + 1] = Visit(g[k], cs[k + 1], n, room, ready)
    BY <2>3
  <2>5. ASSUME NEW i \in 0 .. k + 1
        PROVE  g[i] = IF i = 0 THEN FirstPass(w, again)
                      ELSE Visit(g[i - 1], cs[i], n, room, ready)
    <3>1. CASE i = k + 1
      BY <3>1, <2>4
    <3>2. CASE i = 0
      BY <3>2, <2>2, <2>3
    <3>3. CASE i \in 1 .. k
      <4>1. i \in 0 .. k /\ i - 1 \in 0 .. k /\ i # 0
        BY <3>3
      <4>2. g[i] = f[i] /\ g[i - 1] = f[i - 1]
        BY <4>1, <2>3
      <4> QED
        BY <4>1, <4>2, <2>2
    <3> QED
      BY <3>1, <3>2, <3>3
  <2>6. PassesAre(w, cs, n, room, ready, k + 1, g)
    <3>1. g = [i \in 0 .. k + 1 |-> g[i]]
      OBVIOUS
    <3> HIDE DEF g
    <3> QED
      BY <2>5, <3>1 DEF PassesAre
  <2>7. k + 1 \in 0 .. m
    BY <1>2
  <2> HIDE DEF g
  <2> QED
    BY ONLY <2>6, <2>7
<1>3. 0 .. m \subseteq T
  <2> HIDE DEF T
  <2> QED
    BY <1>1, <1>2, AllNumbers
<1>4. m \in T
  BY <1>3
<1> QED
  BY <1>4

\* httpd_handle_event is the last of its steps.
LEMMA HandleEventIs ==
  ASSUME NEW w, NEW cs, NEW n, NEW room, NEW ready, Len(cs) \in Nat
  PROVE  \E f : /\ PassesAre(w, cs, n, room, ready, Len(cs), f)
                /\ HandleEvent(w, cs, n, room, ready) = f[Len(cs)]
<1> DEFINE f == CHOOSE f : PassesAre(w, cs, n, room, ready, Len(cs), f)
<1>1. PassesAre(w, cs, n, room, ready, Len(cs), f)
  BY PassesExist, Zenon
<1>2. HandleEvent(w, cs, n, room, ready) = f[Len(cs)]
  BY Zenon DEF HandleEvent, PassesAre, Visit, FirstPass
<1> HIDE DEF f
<1> QED
  BY <1>1, <1>2

\* A sequence over a larger set.
LEMMA WiderSeq ==
  \A S, T : S \subseteq T => \A s \in Seq(S) : s \in Seq(T)
<1>1. SUFFICES ASSUME NEW S, NEW T, S \subseteq T, NEW s \in Seq(S) PROVE s \in Seq(T)
  OBVIOUS
<1>2. s = [i \in 1 .. Len(s) |-> s[i]] /\ Len(s) \in Nat /\ \A i \in 1 .. Len(s) : s[i] \in S
  OBVIOUS
<1> QED
  BY <1>1, <1>2, SeqDef

\* A connection that was not closed joins the list.
LEMMA ListLonger ==
  ASSUME NEW l, NEW V, NEW w, ListOf(l, V, w), NEW c, c \notin V,
         NEW x, \A d \in V : x[d] = w[d], NEW l2, l2 = IF Open(x[c]) THEN Append(l, c) ELSE l
  PROVE  ListOf(l2, V \cup {c}, x)
<1>1. PICK W, b : W = V \cup {c} /\ b = l /\ b \in Seq(V)
  BY DEF ListOf
<1>2. b \in Seq(W) /\ c \in W /\ V \subseteq W
  BY <1>1, WiderSeq
<1>3. \A k \in DOMAIN b : b[k] \in V /\ b[k] # c
  BY <1>1
<1>4. CASE Open(x[c])
  <2>1. l2 = Append(b, c)
    BY <1>1, <1>4
  <2>2. /\ l2 \in Seq(W)
        /\ \A k \in DOMAIN l2 : \/ k \in DOMAIN b /\ l2[k] = b[k]
                                \/ k = Len(b) + 1 /\ l2[k] = c
        /\ \A k \in DOMAIN b : k # Len(b) + 1
    BY ONLY <2>1, <1>2, AppendSeq
  <2>3. /\ Len(b) + 1 \in DOMAIN l2 /\ l2[Len(b) + 1] = c
        /\ \A k \in DOMAIN b : k \in DOMAIN l2 /\ l2[k] = b[k]
    BY ONLY <2>1, <1>1
  <2>4. \A i, j \in DOMAIN l2 : l2[i] = l2[j] => i = j
    BY <2>2, <2>3, <1>1, <1>3 DEF ListOf
  <2>5. \A d \in W : Open(x[d]) <=> \E i \in DOMAIN l2 : l2[i] = d
    <3>1. \E i \in DOMAIN l2 : l2[i] = c
      BY <2>3
    <3>2. ASSUME NEW d \in V PROVE Open(x[d]) <=> \E i \in DOMAIN l2 : l2[i] = d
      <4>1. Open(x[d]) <=> \E i \in DOMAIN b : b[i] = d
        BY <1>1 DEF ListOf
      <4>2. d # c
        BY <3>2
      <4> QED
        BY ONLY <4>1, <4>2, <2>2, <2>3
    <3> QED
      BY <3>1, <3>2, <1>1, <1>4
  <2> QED
    BY <2>2, <2>4, <2>5, <1>1 DEF ListOf
<1>5. CASE ~Open(x[c])
  <2>1. l2 = b
    BY <1>1, <1>5
  <2>2. \A d \in W : Open(x[d]) <=> \E i \in DOMAIN b : b[i] = d
    BY <1>1, <1>3, <1>5 DEF ListOf
  <2> QED
    BY <2>1, <2>2, <1>1, <1>2 DEF ListOf
<1> QED
  BY <1>4, <1>5

\* What select says of the connections of cs, each of which is open, in w.
Ready(w, cs, ready) ==
  /\ ListOf(cs, Conns, w)
  /\ \A c \in Conns : Open(w[c]) => Reported(w[c], ready[c])
  /\ \A c \in Conns : ~Open(w[c]) => Settled(w[c])

\* A pass that is at its end.
Over(q, s) ==
  /\ PassOK(q, s) /\ again \subseteq s.again
  /\ \A c \in Conns : Settled(s.web[c])
  /\ ListOf(s.list, Conns, s.web)

\* A whole pass of httpd_handle_event, over any list of connections.
LEMMA HandleEventSound ==
  ASSUME scene \in Scenes, NEW q, NEW w, PassOK(q, FirstPass(w, again)),
         \A c \in Conns : Plan(c) \in Seq(Part(c)) /\ Ordered(Plan(c)),
         NEW cs, NEW ready, Ready(w, cs, ready),
         NEW n \in [Conns -> 1 .. 2], NEW room \in [Conns -> RoomSet]
  PROVE  Over(q, HandleEvent(w, cs, n, room, ready))
<1>1. PICK m : m = Len(cs) /\ m \in Nat /\ DOMAIN cs = 1 .. m
  BY DEF Ready, ListOf
<1>2. PICK f : PassesAre(w, cs, n, room, ready, m, f) /\ HandleEvent(w, cs, n, room, ready) = f[m]
  BY <1>1, HandleEventIs
<1>3. /\ f[0] = FirstPass(w, again)
      /\ \A k \in 1 .. m : f[k] = Visit(f[k - 1], cs[k], n, room, ready)
  <2>1. f = [k \in 0 .. m |-> IF k = 0 THEN FirstPass(w, again)
                              ELSE Visit(f[k - 1], cs[k], n, room, ready)]
    BY <1>2 DEF PassesAre
  <2>2. 0 \in 0 .. m /\ \A k \in 1 .. m : k \in 0 .. m /\ k # 0
    BY <1>1
  <2>3. f[0] = FirstPass(w, again)
    BY ONLY <2>1, <2>2
  <2>4. ASSUME NEW k \in 1 .. m PROVE f[k] = Visit(f[k - 1], cs[k], n, room, ready)
    <3>1. k \in 0 .. m /\ k # 0
      BY <2>2
    <3> QED
      BY ONLY <2>1, <3>1
  <2> QED
    BY <2>3, <2>4
<1>4. \A k \in 1 .. m : cs[k] \in Conns
  BY <1>1 DEF Ready, ListOf
<1>5. \A i, j \in 1 .. m : cs[i] = cs[j] => i = j
  BY <1>1 DEF Ready, ListOf
<1> DEFINE V(k) == {cs[j] : j \in 1 .. k}
           OK(k) == /\ PassOK(q, f[k]) /\ again \subseteq f[k].again
                    /\ \A d \in Conns \ V(k) : f[k].web[d] = w[d]
                    /\ \A d \in V(k) : Settled(f[k].web[d])
                    /\ ListOf(f[k].list, V(k), f[k].web)
           T == {k \in 0 .. m : OK(k)}
<1>6. 0 \in T
  <2>1. V(0) = {}
    OBVIOUS
  <2>2. f[0].again = again /\ f[0].web = w /\ f[0].list = <<>>
    BY <1>3 DEF FirstPass
  <2>3. ListOf(<<>>, {}, w)
    BY DEF ListOf
  <2>4. OK(0)
    <3> HIDE DEF V
    <3> QED
      BY <2>1, <2>2, <2>3, <1>3
  <2> HIDE DEF OK
  <2> QED
    BY <1>1, <2>4
<1>7. ASSUME NEW k \in 0 .. m, k \in T, k < m PROVE k + 1 \in T
  <2>1. PICK t, u, c, A, B : /\ t = f[k] /\ u = f[k + 1] /\ c = cs[k + 1]
                             /\ A = V(k) /\ B = V(k + 1)
    OBVIOUS
  <2>2. k + 1 \in 1 .. m /\ (k + 1) - 1 = k /\ k + 1 \in 0 .. m
    BY <1>1, <1>7
  <2>3. B = A \cup {c}
    <3>1. 1 .. k + 1 = 1 .. k \cup {k + 1}
      BY <1>7
    <3> QED
      BY <3>1, <2>1
  <2>4. c \in Conns /\ c \notin A /\ A \subseteq Conns
    <3>1. \A j \in 1 .. k : j \in 1 .. m /\ j # k + 1
      BY <1>1, <1>7
    <3> QED
      BY <3>1, <2>1, <2>2, <1>4, <1>5
  <2>5. /\ PassOK(q, t) /\ again \subseteq t.again
        /\ \A d \in Conns \ A : t.web[d] = w[d]
        /\ \A d \in A : Settled(t.web[d])
        /\ ListOf(t.list, A, t.web)
    <3> HIDE DEF V
    <3> QED
      BY <1>7, <2>1
  <2> HIDE DEF V
  <2>6. u = HandleConnection(t, c, n[c], room[c], ready[c])
    BY <1>3, <2>1, <2>2 DEF Visit
  <2>7. /\ t.web[c] = w[c] /\ Open(t.web[c]) /\ Reported(t.web[c], ready[c])
    <3>1. Open(w[c]) /\ Reported(w[c], ready[c])
      BY <1>1, <2>1, <2>2, <2>4 DEF Ready, ListOf
    <3> QED
      BY <3>1, <2>4, <2>5
  <2>8. n[c] \in 1 .. 2 /\ room[c] \in RoomSet
    BY <2>4
  <2>9. Visited(q, c, t, u)
    BY <2>4, <2>5, <2>6, <2>7, <2>8, VisitSound
  <2>10. \A d \in A : u.web[d] = t.web[d]
    BY <2>4, <2>9 DEF Visited
  <2>11. ListOf(u.list, B, u.web)
    BY <2>3, <2>4, <2>5, <2>9, <2>10, ListLonger DEF Visited
  <2>12. /\ PassOK(q, u) /\ again \subseteq u.again
         /\ \A d \in Conns \ B : u.web[d] = w[d]
         /\ \A d \in B : Settled(u.web[d])
    BY <2>3, <2>4, <2>5, <2>9, <2>10 DEF Visited
  <2>13. OK(k + 1)
    BY <2>1, <2>11, <2>12
  <2> HIDE DEF OK
  <2> QED
    BY <2>2, <2>13
<1>8. OK(m)
  <2>1. 0 .. m \subseteq T
    <3> HIDE DEF T
    <3> QED
      BY <1>1, <1>6, <1>7, AllNumbers
  <2> HIDE DEF OK
  <2> QED
    BY <1>1, <2>1
<1>9. PICK s, A : s = f[m] /\ A = V(m)
  OBVIOUS
<1>10. A \subseteq Conns /\ \A d \in Conns \ A : ~Open(w[d])
  <2>1. \A d \in Conns \ A : \A k \in 1 .. m : cs[k] # d
    BY <1>9
  <2> QED
    BY <2>1, <1>1, <1>4, <1>9 DEF Ready, ListOf
<1>11. /\ PassOK(q, s) /\ again \subseteq s.again
       /\ \A d \in Conns \ A : s.web[d] = w[d]
       /\ \A d \in A : Settled(s.web[d])
       /\ ListOf(s.list, A, s.web)
  <2> HIDE DEF V
  <2> QED
    BY <1>8, <1>9
<1>12. \A d \in Conns \ A : Settled(s.web[d]) /\ ~Open(s.web[d])
  BY <1>10, <1>11 DEF Ready, ListOf
<1>13. s.list \in Seq(Conns)
  BY <1>10, <1>11, WiderSeq DEF ListOf
<1>14. \A i \in DOMAIN s.list : s.list[i] \in A
  <2>1. PICK b : b \in Seq(A) /\ b = s.list
    BY <1>11 DEF ListOf
  <2>2. \A i \in DOMAIN b : b[i] \in A
    BY <2>1
  <2> QED
    BY <2>1, <2>2
<1>15. ListOf(s.list, Conns, s.web)
  BY <1>10, <1>11, <1>12, <1>13, <1>14 DEF ListOf
<1> QED
  BY <1>2, <1>9, <1>11, <1>12, <1>15 DEF Over

\* The parts of the first requests, one after the other.
FlattenAre(seqs, m, f) ==
  f = [i \in 1 .. m |-> IF i = 1 THEN seqs[i] ELSE f[i - 1] \o seqs[i]]

\* They are well defined.
LEMMA FlattenExists ==
  ASSUME NEW seqs, NEW m \in Nat
  PROVE  \E f : FlattenAre(seqs, m, f)
<1> DEFINE T == {k \in 0 .. m : \E f : FlattenAre(seqs, k, f)}
<1>1. 0 \in T
  <2> DEFINE g == [i \in 1 .. 0 |-> seqs[i]]
  <2>1. FlattenAre(seqs, 0, g)
    BY DEF FlattenAre
  <2> QED
    BY <2>1
<1>2. ASSUME NEW k \in 0 .. m, k \in T, k < m PROVE k + 1 \in T
  <2>1. PICK f : FlattenAre(seqs, k, f)
    BY <1>2
  <2> DEFINE g == [i \in 1 .. k + 1 |-> IF i <= k THEN f[i]
                                        ELSE IF k = 0 THEN seqs[1] ELSE f[k] \o seqs[k + 1]]
  <2>2. \A i \in 1 .. k : f[i] = IF i = 1 THEN seqs[i] ELSE f[i - 1] \o seqs[i]
    BY <2>1 DEF FlattenAre
  <2>3. \A i \in 1 .. k : g[i] = f[i]
    OBVIOUS
  <2>4. g[k + 1] = IF k = 0 THEN seqs[1] ELSE g[k] \o seqs[k + 1]
    <3>1. g[k + 1] = IF k = 0 THEN seqs[1] ELSE f[k] \o seqs[k + 1]
      OBVIOUS
    <3>2. k # 0 => g[k] = f[k]
      OBVIOUS
    <3> HIDE DEF g
    <3> QED
      BY <3>1, <3>2
  <2>5. g = [i \in 1 .. k + 1 |-> g[i]]
    OBVIOUS
  <2> HIDE DEF g
  <2>6. ASSUME NEW i \in 1 .. k + 1
        PROVE  g[i] = IF i = 1 THEN seqs[i] ELSE g[i - 1] \o seqs[i]
    <3>1. CASE i = k + 1
      <4>1. (i = 1 <=> k = 0) /\ i - 1 = k
        BY <3>1
      <4> QED
        BY <3>1, <4>1, <2>4
    <3>2. CASE i = 1 /\ i # k + 1
      <4>1. i \in 1 .. k
        BY <3>2
      <4> QED
        BY <3>2, <4>1, <2>2, <2>3
    <3>3. CASE i \in 2 .. k
      <4>1. i \in 1 .. k /\ i - 1 \in 1 .. k /\ i # 1
        BY <3>3
      <4>2. g[i] = f[i] /\ g[i - 1] = f[i - 1]
        BY <4>1, <2>3
      <4> QED
        BY <4>1, <4>2, <2>2
    <3> QED
      BY <3>1, <3>2, <3>3
  <2>7. FlattenAre(seqs, k + 1, g)
    BY <2>5, <2>6 DEF FlattenAre
  <2>8. k + 1 \in 0 .. m
    BY <1>2
  <2> QED
    BY ONLY <2>7, <2>8
<1>3. 0 .. m \subseteq T
  <2> HIDE DEF T
  <2> QED
    BY <1>1, <1>2, AllNumbers
<1>4. m \in T
  BY <1>3
<1> QED
  BY <1>4

\* FlattenSeq is the last of them.
LEMMA FlattenIs ==
  ASSUME NEW seqs, Len(seqs) \in Nat
  PROVE  \E f : /\ FlattenAre(seqs, Len(seqs), f)
                /\ FlattenSeq(seqs) = IF Len(seqs) = 0 THEN seqs ELSE f[Len(seqs)]
<1> DEFINE f == CHOOSE f : FlattenAre(seqs, Len(seqs), f)
<1>1. FlattenAre(seqs, Len(seqs), f)
  BY FlattenExists, Zenon
<1>2. FlattenSeq(seqs) = IF Len(seqs) = 0 THEN seqs ELSE f[Len(seqs)]
  BY Zenon DEF FlattenSeq, FlattenAre
<1> HIDE DEF f
<1> QED
  BY <1>1, <1>2

\* s is the parts of the first k requests of a plan.
PartsUpto(k, s) ==
  s \in Seq([req : 1 .. k, body : BOOLEAN]) /\ Ordered(s)

\* The parts of one request.
LEMMA PartsOfAre ==
  ASSUME NEW k \in Nat, NEW q
  PROVE  /\ PartsOf(k, q) \in Seq([req : {k}, body : BOOLEAN])
         /\ \A j \in DOMAIN PartsOf(k, q) : ~PartsOf(k, q)[j].body => j = 1
<1>1. PICK n, y : n = FALSE /\ y = TRUE
  OBVIOUS
<1>2. PICK h, b : h = [req |-> k, body |-> n] /\ b = [req |-> k, body |-> y]
  OBVIOUS
<1>3. h \in [req : {k}, body : BOOLEAN] /\ b \in [req : {k}, body : BOOLEAN] /\ b.body
  BY <1>1, <1>2
<1>4. PartsOf(k, q) = IF q.post THEN <<h, b>> ELSE <<h>>
  BY <1>1, <1>2 DEF PartsOf
<1>5. CASE q.post
  <2>1. PICK s : s = <<h, b>>
    OBVIOUS
  <2>2. /\ s \in Seq([req : {k}, body : BOOLEAN]) /\ DOMAIN s = 1 .. 2 /\ s[2] = b
    BY <2>1, <1>3
  <2> QED
    BY <2>1, <2>2, <1>3, <1>4, <1>5
<1>6. CASE ~q.post
  <2>1. PICK s : s = <<h>>
    OBVIOUS
  <2>2. /\ s \in Seq([req : {k}, body : BOOLEAN]) /\ DOMAIN s = 1 .. 1
    BY <2>1, <1>3
  <2> QED
    BY <2>1, <2>2, <1>4, <1>6
<1> QED
  BY <1>5, <1>6

\* The elements of a sequence.
LEMMA ElementOf ==
  \A S : \A s \in Seq(S) : \A i \in DOMAIN s : s[i] \in S
OBVIOUS

\* The parts of one request more are in order.
LEMMA PartsOneMore ==
  ASSUME NEW k \in Nat, NEW s, PartsUpto(k, s), NEW q, NEW t, t = s \o PartsOf(k + 1, q)
  PROVE  PartsUpto(k + 1, t)
<1>1. PICK b, R, a : b = PartsOf(k + 1, q) /\ R = [req : 1 .. k + 1, body : BOOLEAN] /\ a = s
  OBVIOUS
<1>2. /\ b \in Seq([req : {k + 1}, body : BOOLEAN])
      /\ \A j \in DOMAIN b : ~b[j].body => j = 1
  <2>1. PICK n \in Nat : n = k + 1
    OBVIOUS
  <2>2. /\ b \in Seq([req : {n}, body : BOOLEAN])
        /\ \A j \in DOMAIN b : ~b[j].body => j = 1
    BY <1>1, <2>1, PartsOfAre
  <2> QED
    BY ONLY <2>1, <2>2
<1>3. \A j \in DOMAIN b : b[j].req = k + 1
  <2>1. \A j \in DOMAIN b : b[j] \in [req : {k + 1}, body : BOOLEAN]
    BY ONLY <1>2, ElementOf
  <2> QED
    BY ONLY <2>1
<1>4. a \in Seq([req : 1 .. k, body : BOOLEAN]) /\ Ordered(a) /\ \A i \in DOMAIN a : a[i].req \in 1 .. k
  <2>1. a \in Seq([req : 1 .. k, body : BOOLEAN]) /\ Ordered(a)
    BY <1>1 DEF PartsUpto
  <2>2. \A i \in DOMAIN a : a[i] \in [req : 1 .. k, body : BOOLEAN]
    BY ONLY <2>1, ElementOf
  <2>3. \A i \in DOMAIN a : a[i].req \in 1 .. k
    BY ONLY <2>2
  <2> QED
    BY <2>1, <2>3
<1>5. a \in Seq(R) /\ b \in Seq(R)
  <2>1. [req : 1 .. k, body : BOOLEAN] \subseteq R /\ [req : {k + 1}, body : BOOLEAN] \subseteq R
    BY <1>1
  <2> QED
    BY ONLY <2>1, <1>2, <1>4, WiderSeq
<1>6. /\ t \in Seq(R)
      /\ \A i \in DOMAIN t : \/ i \in DOMAIN a /\ t[i] = a[i]
                             \/ \E j \in DOMAIN b : i = Len(a) + j /\ t[i] = b[j]
  <2>1. t = a \o b
    BY <1>1
  <2> QED
    BY ONLY <2>1, <1>5, Appended
<1>7. ASSUME NEW i \in DOMAIN t, NEW j \in DOMAIN t, i < j, ~t[j].body PROVE t[i].req < t[j].req
  <2>1. DOMAIN a = 1 .. Len(a) /\ Len(a) \in Nat /\ DOMAIN b \subseteq Nat \ {0} /\ DOMAIN t \subseteq Nat
    BY <1>4, <1>2, <1>6, LenProperties
  <2>2. CASE j \in DOMAIN a /\ t[j] = a[j]
    <3>1. i \in DOMAIN a
      BY <2>1, <2>2, <1>7
    <3>2. t[i] = a[i]
      <4>1. \A m \in DOMAIN b : i # Len(a) + m
        BY <3>1, <2>1
      <4> QED
        BY <4>1, <1>6
    <3> QED
      BY <3>1, <3>2, <2>2, <1>4, <1>7 DEF Ordered
  <2>3. ASSUME NEW m \in DOMAIN b, j = Len(a) + m, t[j] = b[m] PROVE t[i].req < t[j].req
    <3>1. m = 1 /\ t[j].req = k + 1
      BY <2>3, <1>2, <1>3, <1>7
    <3>2. \A l \in DOMAIN b : i # Len(a) + l
      BY <3>1, <2>1, <2>3, <1>7
    <3>3. i \in DOMAIN a /\ t[i] = a[i]
      BY <3>2, <1>6
    <3>4. a[i].req \in 1 .. k
      BY <3>3, <1>4
    <3> QED
      BY ONLY <3>1, <3>3, <3>4, k \in Nat
  <2> QED
    BY <2>2, <2>3, <1>6
<1> QED
  BY <1>1, <1>6, <1>7 DEF PartsUpto, Ordered

\* What a client sends are parts of its requests, the headers in order.
LEMMA PlanType ==
  ASSUME scene \in Scenes, NEW c \in Conns
  PROVE  Plan(c) \in Seq(Part(c)) /\ Ordered(Plan(c))
<1>1. PICK p, ps, m : /\ p = scene.asks[c] /\ ps = [k \in DOMAIN p |-> PartsOf(k, p[k])]
                      /\ m = Len(p) /\ m \in Nat /\ DOMAIN p = 1 .. m
  <2>1. scene.asks[c] \in Seq([path : STRING, post : BOOLEAN, keep : BOOLEAN,
                               user : BOOLEAN, params : BOOLEAN])
    BY ControlAssumption
  <2> QED
    BY <2>1, LenProperties
<1>2. DOMAIN ps = 1 .. m /\ Len(ps) = m /\ \A k \in 1 .. m : ps[k] = PartsOf(k, p[k])
  <2>1. ps \in [1 .. m -> {PartsOf(k, p[k]) : k \in 1 .. m}]
    BY <1>1
  <2> QED
    BY <2>1, <1>1, FunctionIsSeq
<1>3. Plan(c) = FlattenSeq(ps)
  BY <1>1 DEF Plan, Parts
<1>4. PICK f : FlattenAre(ps, m, f) /\ FlattenSeq(ps) = IF m = 0 THEN ps ELSE f[m]
  BY <1>1, <1>2, FlattenIs
<1>5. \A i \in 1 .. m : f[i] = IF i = 1 THEN ps[i] ELSE f[i - 1] \o ps[i]
  BY <1>4 DEF FlattenAre
<1>6. CASE m = 0
  <2>1. ps = <<>>
    BY <1>1, <1>2, <1>6
  <2>2. Plan(c) = <<>>
    BY <2>1, <1>3, <1>4, <1>6
  <2> QED
    BY ONLY <2>2 DEF Ordered
<1>7. CASE m # 0
  <2> DEFINE T == {k \in 0 .. m : k # 0 => PartsUpto(k, f[k])}
  <2>1. 0 \in T
    BY <1>1
  <2>2. ASSUME NEW k \in 0 .. m, k \in T, k < m PROVE k + 1 \in T
    <3>1. k + 1 \in 1 .. m /\ k \in Nat /\ k + 1 \in 0 .. m /\ (k + 1) - 1 = k
      BY <1>1, <2>2
    <3>2. PICK u : u = f[k + 1]
      OBVIOUS
    <3>3. PartsUpto(k + 1, u)
      <4>1. CASE k = 0
        <5>1. u = PartsOf(1, p[1])
          BY <4>1, <3>1, <3>2, <1>2, <1>5
        <5>2. /\ u \in Seq([req : {1}, body : BOOLEAN])
              /\ \A j \in DOMAIN u : ~u[j].body => j = 1
          BY ONLY <5>1, PartsOfAre
        <5>3. DOMAIN u \subseteq Nat \ {0}
          BY <5>2
        <5>4. Ordered(u)
          BY <5>2, <5>3 DEF Ordered
        <5>5. [req : {1}, body : BOOLEAN] \subseteq [req : 1 .. k + 1, body : BOOLEAN]
          BY <4>1
        <5>6. u \in Seq([req : 1 .. k + 1, body : BOOLEAN])
          BY ONLY <5>2, <5>5, WiderSeq
        <5> QED
          BY <5>4, <5>6 DEF PartsUpto
      <4>2. CASE k # 0
        <5>1. PartsUpto(k, f[k])
          BY <2>2, <4>2
        <5>2. u = f[k] \o PartsOf(k + 1, p[k + 1])
          <6>1. k + 1 # 1
            BY <4>2, <3>1
          <6>2. f[k + 1] = f[(k + 1) - 1] \o ps[k + 1]
            BY <6>1, <3>1, <1>5
          <6>3. ps[k + 1] = PartsOf(k + 1, p[k + 1])
            BY <3>1, <1>2
          <6> QED
            BY <6>2, <6>3, <3>1, <3>2
        <5> QED
          BY ONLY <5>1, <5>2, <3>1, PartsOneMore
      <4> QED
        BY <4>1, <4>2
    <3> QED
      BY <3>1, <3>2, <3>3
  <2>3. PartsUpto(m, f[m])
    <3>1. 0 .. m \subseteq T
      <4> HIDE DEF T
      <4> QED
        BY <1>1, <2>1, <2>2, AllNumbers
    <3> QED
      BY <3>1, <1>1, <1>7
  <2>4. Plan(c) = f[m]
    BY <1>3, <1>4, <1>7
  <2>5. Part(c) = [req : 1 .. m, body : BOOLEAN]
    BY <1>1 DEF Part
  <2> QED
    BY <2>3, <2>4, <2>5 DEF PartsUpto
<1> QED
  BY <1>6, <1>7

-----------------------------------------------------------------------------
\* What is said of connections depends on the scene alone.
LEMMA SceneStays ==
  ASSUME scene' = scene
  PROVE  /\ \A q : Expected(q)' = Expected(q) /\ Kind(q)' = Kind(q)
         /\ \A c, r : /\ Plan(c)' = Plan(c) /\ Part(c)' = Part(c) /\ Asked(c, r)' = Asked(c, r)
                      /\ Ahead(c, r)' = Ahead(c, r) /\ FieldType(c)' = FieldType(c)
                      /\ Shape(c, r)' <=> Shape(c, r)
                      /\ Clean(c, r)' <=> Clean(c, r)
         /\ \A c, r, k : Waiting(c, r, k)' <=> Waiting(c, r, k)
<1>1. \A q : Expected(q)' = Expected(q) /\ Kind(q)' = Kind(q)
  BY DEF Kind, Expected, AgentCommand, AuctioneerCommand
<1>2. \A c : Plan(c)' = Plan(c) /\ Part(c)' = Part(c)
  BY DEF Plan, Part
<1>3. \A c, r : Asked(c, r)' = Asked(c, r)
  BY DEF Asked
<1>4. \A c, r : Ahead(c, r)' = Ahead(c, r)
  BY <1>2 DEF Ahead
<1>5. \A c : FieldType(c)' = FieldType(c)
  BY <1>2 DEF FieldType
<1>6. \A c, r : Shape(c, r)' <=> Shape(c, r)
  BY <1>4, <1>5 DEF Shape
<1>7. \A c, a : Good(c, a)' <=> Good(c, a)
  BY <1>1 DEF Good
<1>8. \A c, g : InOrder(c, g)' <=> InOrder(c, g)
  BY <1>7 DEF InOrder
<1>9. \A c, r, n : Passed(c, r, n)' <=> Passed(c, r, n)
  BY <1>4, <1>7 DEF Passed
<1>10. \A c, r : Answering(c, r)' <=> Answering(c, r)
  BY <1>1 DEF Answering
<1>11. \A c, r : Clean(c, r)' <=> Clean(c, r)
  BY <1>1, <1>3, <1>8, <1>9, <1>10 DEF Clean
<1>12. \A c, r, k : Waiting(c, r, k)' <=> Waiting(c, r, k)
  BY <1>1, <1>3 DEF Waiting
<1> QED
  BY <1>1, <1>2, <1>3, <1>4, <1>5, <1>6, <1>11, <1>12

\* The invariant of the next state, from what is known of its variables.
LEMMA PrimedCInv ==
  ASSUME scene' = scene,
         CommandsTyped(queue'), ListOf(conns', Conns, web'), ConnectionsSound(web', again'),
         pc' # "ended" => Waits(queue', web', again'), again' \subseteq Conns,
         lag' \in BOOLEAN, early' \in BOOLEAN,
         fault' \in {"none", "dangling", "double free", "bad free"}
  PROVE  CInv'
<1>1. ConnectionsSound(web, again)'
  BY SceneStays DEF ConnectionsSound
<1>2. (pc # "ended" => Waits(queue, web, again))'
  BY SceneStays DEF Waits, Info
<1>3. CommandsTyped(queue)' /\ ListOf(conns, Conns, web)'
  BY DEF CommandsTyped, ListOf
<1> QED
  BY <1>1, <1>2, <1>3 DEF CInv

\* A queue without a command that was not there.
LEMMA FewerCommands ==
  ASSUME NEW q1, NEW q2, Info(q2) \subseteq Info(q1), NEW w, NEW a, Waits(q1, w, a)
  PROVE  Waits(q2, w, a)
BY DEF Waits

\* The k-th command of b as an event of q.
NewEvent(q, b, k) ==
  [at |-> 0, rank |-> LastRank(q, 0) + k, ival |-> 0, freed |-> FALSE, type |-> b[k].type,
   conn |-> b[k].conn, req |-> b[k].req, copies |-> b[k].copies]

\* What is in the queue after a pass.
LEMMA NewMembers ==
  ASSUME NEW q, NEW b \in Seq(Order), NEW e \in Enqueue(q, Events(b))
  PROVE  e \in q \/ \E k \in DOMAIN b : e = NewEvent(q, b, k)
<1>1. CASE e \in q
  BY <1>1
<1>2. ASSUME NEW o \in Events(b), e = Ranked(o, LastRank(q, o.at) + o.rank)
      PROVE  \E k \in DOMAIN b : e = NewEvent(q, b, k)
  <2>1. PICK k \in 1 .. Len(b) :
          o = [at |-> 0, rank |-> k, ival |-> 0, freed |-> FALSE, type |-> b[k].type,
               conn |-> b[k].conn, req |-> b[k].req, copies |-> b[k].copies]
    BY <1>2 DEF Events
  <2>2. k \in DOMAIN b
    BY LenProperties
  <2>3. o.at = 0 /\ o.rank = k
    BY <2>1
  <2>4. PICK r : r = LastRank(q, 0) + k
    OBVIOUS
  <2>5. e = [o EXCEPT !.rank = r]
    BY <1>2, <2>3, <2>4 DEF Ranked
  <2>6. e = NewEvent(q, b, k)
    BY <2>1, <2>4, <2>5 DEF NewEvent
  <2> QED
    BY <2>2, <2>6
<1> QED
  BY <1>1, <1>2, EnqueueMembers

\* After a pass, the commands that wait.
LEMMA PassCommands ==
  ASSUME NEW q, CommandsTyped(q), NEW s, PassOK(q, s), NEW Q, Q = Enqueue(q, Events(s.back))
  PROVE  CommandsTyped(Q) /\ Waits(Q, s.web, s.again)
<1>1. PICK b : b \in Seq(Order) /\ b = s.back
  BY DEF PassOK, PassShape
<1>2. \A e \in Q : e \in q \/ \E k \in DOMAIN b : e = NewEvent(q, b, k)
  BY <1>1, NewMembers
<1>3. \A k \in DOMAIN b : b[k] \in Order
  BY ONLY <1>1, ElementOf
<1>4. ASSUME NEW k \in DOMAIN b
      PROVE  LET e == NewEvent(q, b, k)
             IN  /\ e.type = b[k].type /\ e.conn = b[k].conn /\ e.req = b[k].req
                 /\ e.copies = b[k].copies /\ e.at = 0 /\ e.freed = FALSE
                 /\ {"conn", "req", "copies"} \subseteq DOMAIN e
  BY DEF NewEvent
<1>5. \A k \in DOMAIN b : /\ b[k].type \in {"GET_INFO", "ADD"} /\ b[k].conn \in Conns
                          /\ b[k].req \in Nat /\ b[k].copies \in Nat
  BY <1>3 DEF Order
<1>6. CommandsTyped(Q)
  <2>1. SUFFICES ASSUME NEW e \in Q
                 PROVE  /\ e.type \in {"CTRLCOMM_TIMER", "OTHER", "GET_INFO", "ADD"}
                        /\ e.freed \in BOOLEAN
                        /\ e.type \in {"GET_INFO", "ADD"} =>
                             /\ {"conn", "req", "copies"} \subseteq DOMAIN e
                             /\ e.conn \in Conns /\ e.req \in Nat /\ e.copies \in Nat /\ e.at = 0
    BY DEF CommandsTyped
  <2>2. CASE e \in q
    BY <2>2 DEF CommandsTyped
  <2>3. ASSUME NEW k \in DOMAIN b, e = NewEvent(q, b, k)
        PROVE  /\ e.type \in {"GET_INFO", "ADD"} /\ e.freed \in BOOLEAN
               /\ {"conn", "req", "copies"} \subseteq DOMAIN e
               /\ e.conn \in Conns /\ e.req \in Nat /\ e.copies \in Nat /\ e.at = 0
    BY <2>3, <1>4, <1>5
  <2> QED
    BY <2>2, <2>3, <1>2
<1>7. \A e \in Info(Q) : \/ e \in Info(q)
                         \/ \E k \in DOMAIN b : /\ e = NewEvent(q, b, k) /\ b[k].type = "GET_INFO"
                                                /\ e.conn = b[k].conn /\ e.req = b[k].req
  <2>1. TAKE e \in Info(Q)
  <2>2. e \in Q /\ e.type = "GET_INFO" /\ ~e.freed
    BY DEF Info
  <2>3. CASE e \in q
    BY <2>2, <2>3 DEF Info
  <2>4. ASSUME NEW k \in DOMAIN b, e = NewEvent(q, b, k)
        PROVE  b[k].type = "GET_INFO" /\ e.conn = b[k].conn /\ e.req = b[k].req
    BY <1>4, <2>2, <2>4
  <2> QED
    BY <1>2, <2>2, <2>3, <2>4
<1>8. Pending(q, s)
  BY DEF PassOK
<1>9. ASSUME NEW e \in Info(Q), e.conn \notin s.again
      PROVE  Waiting(e.conn, s.web[e.conn], e.req)
  BY <1>1, <1>7, <1>8, <1>9 DEF Pending
<1>10. ASSUME NEW e \in Info(Q), NEW f \in Info(Q), e.conn = f.conn, e.conn \notin s.again
       PROVE  e = f
  <2>1. CASE e \in Info(q) /\ f \in Info(q)
    BY <2>1, <1>8, <1>10 DEF Pending
  <2>2. ASSUME NEW k \in DOMAIN b, b[k].type = "GET_INFO", b[k].conn = e.conn
        PROVE  /\ e \notin Info(q) /\ f \notin Info(q)
               /\ \A l \in DOMAIN b : b[l].type = "GET_INFO" /\ b[l].conn = e.conn => l = k
    BY <2>2, <1>1, <1>8, <1>10 DEF Pending
  <2> QED
    BY <2>1, <2>2, <1>7, <1>10
<1> QED
  BY <1>6, <1>9, <1>10 DEF Waits

-----------------------------------------------------------------------------
\* Before a pass over the connections.
LEMMA FirstOK ==
  ASSUME CInv, pc # "ended", NEW q, Info(q) \subseteq Info(queue)
  PROVE  PassOK(q, FirstPass(web, again))
<1>1. PICK s : s = FirstPass(web, again)
  OBVIOUS
<1>2. /\ s = [f \in PassFields |-> s[f]] /\ s.web = web /\ s.back = <<>> /\ s.again = again
  BY <1>1 DEF FirstPass, PassFields
<1>3. web = [d \in Conns |-> web[d]] /\ again \subseteq Conns
  BY DEF CInv, ConnectionsSound
<1>4. PassShape(s)
  <2>1. <<>> \in Seq(Order)
    OBVIOUS
  <2> QED
    BY <1>2, <1>3, <2>1 DEF PassShape, PassRecord
<1>5. PassSound(s)
  BY <1>2 DEF CInv, ConnectionsSound, PassSound, Sound
<1>6. Pending(q, s)
  <2>1. \A e \in Info(queue) : e.conn \in Conns
    BY DEF CInv, CommandsTyped, Info
  <2>2. DOMAIN s.back = {}
    BY <1>2
  <2> QED
    BY <1>2, <2>1, <2>2 DEF Pending, CInv, Waits
<1> QED
  BY <1>1, <1>4, <1>5, <1>6 DEF PassOK

\* CtrlComm::handleFDEvent.
LEMMA FDEventCInv ==
  ASSUME scene \in Scenes, scene' = scene, lag' \in BOOLEAN, early' \in BOOLEAN,
         fault' \in {"none", "dangling", "double free", "bad free"},
         NEW q, CommandsTyped(q), NEW w, PassOK(q, FirstPass(w, again)),
         NEW cs, NEW ready, Ready(w, cs, ready),
         NEW n \in [Conns -> 1 .. 2], NEW room \in [Conns -> RoomSet],
         HandleFDEvent(w, cs, n, room, ready, q)
  PROVE  CInv'
<1>1. PICK s : /\ s = HandleEvent(w, cs, n, room, ready)
               /\ web' = s.web /\ conns' = s.list /\ again' = s.again
               /\ queue' = Enqueue(q, Events(s.back))
  BY DEF HandleFDEvent
<1>2. Over(q, s)
  <2>1. \A c \in Conns : Plan(c) \in Seq(Part(c)) /\ Ordered(Plan(c))
    BY PlanType
  <2> QED
    BY <1>1, <2>1, HandleEventSound
<1>3. CommandsTyped(queue') /\ Waits(queue', s.web, s.again)
  BY <1>1, <1>2, PassCommands DEF Over
<1>4. ConnectionsSound(s.web, s.again)
  BY <1>2 DEF Over, PassOK, PassShape, PassRecord, PassSound, ConnectionsSound, Sound
<1>5. s.again \subseteq Conns /\ ListOf(s.list, Conns, s.web)
  BY <1>2 DEF Over, PassOK, PassShape
<1> QED
  BY <1>1, <1>3, <1>4, <1>5, PrimedCInv

\* What the timer is when it is due again.
LEMMA TimerQueue ==
  ASSUME IInv, CInv, NEW e \in queue, e.type = "CTRLCOMM_TIMER",
         NEW q, q = Reschedule(queue \ {e}, e, 0)
  PROVE  CommandsTyped(q) /\ Info(q) \subseteq Info(queue)
<1>1. PICK a : q = Enqueue(queue \ {e}, {[e EXCEPT !.at = a, !.rank = 1]})
  BY DEF Reschedule
<1>2. PICK o : o = [e EXCEPT !.at = a, !.rank = 1]
  OBVIOUS
<1>3. {"at", "rank", "ival", "freed", "type"} \subseteq DOMAIN e
  BY DEF IInv, QueueTimed
<1>4. o.type = "CTRLCOMM_TIMER" /\ o.freed = e.freed
  BY <1>2, <1>3
<1>5. ASSUME NEW f \in q PROVE f \in queue \/ (f.type = "CTRLCOMM_TIMER" /\ f.freed = e.freed)
  <2>1. f \in queue \/ f = Ranked(o, LastRank(queue \ {e}, o.at) + o.rank)
    <3>1. PICK S, r : S = {o} /\ r = queue \ {e}
      OBVIOUS
    <3>2. f \in Enqueue(r, S)
      BY <1>1, <1>2, <3>1
    <3>3. f \in r \/ \E g \in S : f = Ranked(g, LastRank(r, g.at) + g.rank)
      BY ONLY <3>2, EnqueueMembers
    <3> QED
      BY <3>1, <3>3
  <2>2. PICK k : k = LastRank(queue \ {e}, o.at) + o.rank
    OBVIOUS
  <2>3. ASSUME f = [o EXCEPT !.rank = k] PROVE f.type = "CTRLCOMM_TIMER" /\ f.freed = e.freed
    BY <2>3, <1>2, <1>3, <1>4
  <2> QED
    BY <2>1, <2>2, <2>3 DEF Ranked
<1>6. CommandsTyped(queue)
  BY DEF CInv
<1>7. CommandsTyped(q)
  BY <1>5, <1>6 DEF CommandsTyped
<1>8. Info(q) \subseteq Info(queue)
  BY <1>5 DEF Info
<1> QED
  BY <1>7, <1>8

\* A socket takes all, some or nothing.
LEMMA RoomsType ==
  ASSUME NEW w, NEW room \in Rooms(w)
  PROVE  room \in [Conns -> RoomSet]
BY DEF Rooms, RoomSet

\* Between passes the connections are at their end.
LEMMA ReadyNow ==
  ASSUME CInv, NEW ready,
         \A c \in Conns : "rd" \in ready[c] => web[c].rd,
         \A c \in Conns : "wr" \in ready[c] => web[c].wr
  PROVE  Ready(web, conns, ready)
<1>1. ASSUME NEW c \in Conns PROVE Reported(web[c], ready[c]) /\ Settled(web[c])
  <2>1. Watched(web[c]) /\ Settled(web[c])
    BY DEF CInv, ConnectionsSound
  <2> QED
    BY <2>1 DEF Reported, Watched, Settled
<1> QED
  BY <1>1 DEF Ready, CInv

\* CTRLCOMM_TIMER.
LEMMA TimerCInv ==
  ASSUME IInv, CInv, NEW e \in queue, HandleTimer(e)
  PROVE  CInv'
<1>1. /\ e.type = "CTRLCOMM_TIMER" /\ pc = "select" /\ UNCHANGED <<scene, lag, fault>>
      /\ early' = (early \/ e.at > 0)
  BY DEF HandleTimer, TakeHead, Read
<1>2. PICK ready : ready = [c \in Conns |-> {}]
  OBVIOUS
<1>8. PICK q : q = Reschedule(queue \ {e}, e, 0)
  OBVIOUS
<1>3. PICK n \in [Conns -> 1 .. 2], room \in Rooms(web) :
        HandleFDEvent(web, conns, n, room, ready, q)
  BY <1>2, <1>8 DEF HandleTimer, Amounts
<1>4. CommandsTyped(q) /\ PassOK(q, FirstPass(web, again))
  BY <1>1, <1>8, TimerQueue, FirstOK
<1>5. Ready(web, conns, ready)
  BY <1>2, ReadyNow
<1>6. /\ scene \in Scenes /\ scene' = scene /\ lag' \in BOOLEAN
      /\ fault' \in {"none", "dangling", "double free", "bad free"}
  BY <1>1 DEF IInv, CInv
<1>7. early' \in BOOLEAN
  BY <1>1 DEF CInv
<1> QED
  BY <1>3, <1>4, <1>5, <1>6, <1>7, RoomsType, FDEventCInv

\* A connection that was accepted is the first of the list.
LEMMA FirstInList ==
  ASSUME NEW V, NEW l, NEW w, NEW x, ListOf(l, V, w), NEW d \in V, ~Open(w[d]), Open(x[d]),
         \A c \in V \ {d} : x[c] = w[c]
  PROVE  ListOf(<<d>> \o l, V, x)
<1>1. PICK s : s = <<d>> \o l
  OBVIOUS
<1>2. l \in Seq(V) /\ \A i, j \in DOMAIN l : l[i] = l[j] => i = j
  BY DEF ListOf
<1>3. /\ s \in Seq(V) /\ DOMAIN s = 1 .. 1 + Len(l) /\ DOMAIN l = 1 .. Len(l) /\ Len(l) \in Nat
      /\ s[1] = d /\ \A i \in DOMAIN l : s[i + 1] = l[i]
  <2>1. /\ <<d>> \o l \in Seq(V) /\ DOMAIN (<<d>> \o l) = 1 .. 1 + Len(l)
        /\ DOMAIN l = 1 .. Len(l) /\ Len(l) \in Nat
    BY <1>2
  <2>2. (<<d>> \o l)[1] = d
    BY <1>2
  <2>3. \A i \in DOMAIN l : (<<d>> \o l)[i + 1] = l[i]
    BY <1>2
  <2> QED
    BY <1>1, <2>1, <2>2, <2>3
<1>4. \A i \in DOMAIN l : l[i] # d /\ l[i] \in V
  BY <1>2 DEF ListOf
<1>5. \A i \in DOMAIN s : i = 1 \/ (i - 1 \in DOMAIN l /\ s[i] = l[i - 1])
  <2>1. ASSUME NEW i \in DOMAIN s, i # 1 PROVE i - 1 \in DOMAIN l /\ s[i] = l[i - 1]
    <3>1. i \in 1 .. 1 + Len(l)
      BY <1>3
    <3>2. i - 1 \in DOMAIN l /\ (i - 1) + 1 = i
      BY <3>1, <2>1, <1>3
    <3> QED
      BY <3>2, <1>3
  <2> QED
    BY <2>1
<1>6. ASSUME NEW i \in DOMAIN s, NEW j \in DOMAIN s, s[i] = s[j] PROVE i = j
  <2>1. i \in Nat /\ j \in Nat
    BY <1>3
  <2>2. CASE i = 1 \/ j = 1
    BY <2>2, <1>3, <1>4, <1>5, <1>6
  <2>3. CASE i # 1 /\ j # 1
    <3>1. i - 1 = j - 1
      BY <2>3, <1>2, <1>5, <1>6
    <3> QED
      BY <2>1, <3>1
  <2> QED
    BY <2>2, <2>3
<1>7. ASSUME NEW c \in V PROVE Open(x[c]) <=> \E i \in DOMAIN s : s[i] = c
  <2>1. CASE c = d
    BY <2>1, <1>3
  <2>2. CASE c # d
    <3>1. Open(x[c]) <=> \E i \in DOMAIN l : l[i] = c
      BY <2>2 DEF ListOf
    <3>2. ASSUME NEW i \in DOMAIN l, l[i] = c PROVE \E j \in DOMAIN s : s[j] = c
      <4>1. i + 1 \in DOMAIN s
        BY <1>3
      <4> QED
        BY <4>1, <3>2, <1>3
    <3>3. ASSUME NEW i \in DOMAIN s, s[i] = c PROVE \E j \in DOMAIN l : l[j] = c
      BY <3>3, <2>2, <1>3, <1>5
    <3> QED
      BY <3>1, <3>2, <3>3
  <2> QED
    BY <2>1, <2>2
<1> QED
  BY <1>1, <1>3, <1>6, <1>7 DEF ListOf

\* The pass that accepts the connection d begins.
LEMMA AcceptedOK ==
  ASSUME IInv, CInv, pc # "ended", NEW d \in Conns, web[d].state = "knocking", NEW k \in 1 .. 2,
         NEW w, w = [web EXCEPT ![d] = Accept(d, @, k)],
         NEW ready, ready[d] = {},
         \A c \in Conns : "rd" \in ready[c] => web[c].rd,
         \A c \in Conns : "wr" \in ready[c] => web[c].wr
  PROVE  PassOK(queue, FirstPass(w, again)) /\ Ready(w, <<d>> \o conns, ready)
<1>1. PICK a : a = Accept(d, web[d], k)
  OBVIOUS
<1>2. web = [c \in Conns |-> web[c]] /\ again \subseteq Conns
  BY DEF CInv, ConnectionsSound
<1>3. w[d] = a /\ (\A c \in Conns \ {d} : w[c] = web[c]) /\ w = [web EXCEPT ![d] = a]
  BY <1>1, <1>2
<1>4. Sound(d, web[d]) /\ (d \notin again => Clean(d, web[d]))
  BY DEF CInv, ConnectionsSound, Sound
<1>5. /\ Sound(d, a) /\ a.state \in {"READ_HEADER", "CLOSE"} /\ a.idle = 0
      /\ Clean(d, web[d]) => Clean(d, a)
  <2>1. scene \in Scenes
    BY DEF IInv
  <2>2. Plan(d) \in Seq(Part(d))
    BY <2>1, PlanType
  <2> QED
    BY <1>1, <1>4, <2>1, <2>2, AcceptSound
<1>6. Keeps(d, web[d], a)
  BY DEF Keeps, Waiting, Asking
<1>7. PICK s, t : s = FirstPass(web, again) /\ t = WithWeb(s, d, a)
  OBVIOUS
<1>8. PassOK(queue, s)
  BY <1>7, FirstOK
<1>9. s.web = web /\ s.again = again
  BY <1>7 DEF FirstPass
<1>10. PassOK(queue, t)
  <2>1. /\ d \notin s.again => Clean(d, a)
        /\ d \notin s.again => Keeps(d, s.web[d], a)
    BY <1>4, <1>5, <1>6, <1>9
  <2> QED
    BY <1>5, <1>7, <1>8, <2>1, UpdateOK
<1>11. t = FirstPass(w, again)
  <2>1. t = [s EXCEPT !.web = [web EXCEPT ![d] = a]]
    BY <1>7, <1>9 DEF WithWeb, FirstPass
  <2> QED
    BY <2>1, <1>3, <1>7 DEF FirstPass
<1>12. Open(a) /\ ~Open(web[d]) /\ Reported(a, ready[d])
  BY <1>5 DEF Open, Reported
<1>13. \A c \in Conns : Reported(web[c], ready[c]) /\ Settled(web[c])
  <2>1. TAKE c \in Conns
  <2>2. Watched(web[c]) /\ Settled(web[c])
    BY DEF CInv, ConnectionsSound
  <2> QED
    BY <2>2 DEF Reported, Watched, Settled
<1>14. ListOf(<<d>> \o conns, Conns, w)
  <2>1. ListOf(conns, Conns, web)
    BY DEF CInv
  <2> QED
    BY <2>1, <1>3, <1>12, FirstInList
<1>15. Ready(w, <<d>> \o conns, ready)
  BY <1>3, <1>12, <1>13, <1>14 DEF Ready
<1> QED
  BY <1>10, <1>11, <1>15

\* A pass that serves the connections.
LEMMA ServeCInv ==
  ASSUME IInv, CInv, ServeConnections
  PROVE  CInv'
<1>1. pc = "select" /\ UNCHANGED <<lag, scene, fault, early>>
  BY DEF ServeConnections
<1>8. PICK n \in [Conns -> 1 .. 2], room \in Rooms(web) :
        \E ready :
          /\ ready = [c \in Conns |-> (IF Readable(web[c]) THEN {"rd"} ELSE {})
                                      \cup (IF web[c].wr /\ room[c] # "none" THEN {"wr"} ELSE {})]
          /\ \/ HandleFDEvent(web, conns, n, room, ready, queue)
             \/ \E d \in Knocking :
                  HandleFDEvent([web EXCEPT ![d] = Accept(d, @, n[d])], <<d>> \o conns, n, room,
                                ready, queue)
  BY DEF ServeConnections, Amounts
<1>2. PICK ready :
        /\ ready = [c \in Conns |-> (IF Readable(web[c]) THEN {"rd"} ELSE {})
                                    \cup (IF web[c].wr /\ room[c] # "none" THEN {"wr"} ELSE {})]
        /\ \/ HandleFDEvent(web, conns, n, room, ready, queue)
           \/ \E d \in Knocking :
                HandleFDEvent([web EXCEPT ![d] = Accept(d, @, n[d])], <<d>> \o conns, n, room,
                              ready, queue)
  BY <1>8
<1>3. /\ \A c \in Conns : "rd" \in ready[c] => web[c].rd
      /\ \A c \in Conns : "wr" \in ready[c] => web[c].wr
      /\ \A c \in Conns : ~web[c].rd /\ ~web[c].wr => ready[c] = {}
  BY <1>2 DEF Readable
<1>4. /\ scene \in Scenes /\ scene' = scene /\ lag' \in BOOLEAN /\ early' \in BOOLEAN
      /\ fault' \in {"none", "dangling", "double free", "bad free"} /\ CommandsTyped(queue)
  BY <1>1 DEF IInv, CInv
<1>5. room \in [Conns -> RoomSet]
  BY RoomsType
<1>6. CASE HandleFDEvent(web, conns, n, room, ready, queue)
  <2>1. PassOK(queue, FirstPass(web, again))
    BY <1>1, FirstOK
  <2>2. Ready(web, conns, ready)
    BY <1>3, ReadyNow
  <2> QED
    BY <1>4, <1>5, <1>6, <2>1, <2>2, FDEventCInv
<1>7. ASSUME NEW d \in Knocking, NEW w, w = [web EXCEPT ![d] = Accept(d, @, n[d])],
             HandleFDEvent(w, <<d>> \o conns, n, room, ready, queue)
      PROVE  CInv'
  <2>1. d \in Conns /\ web[d].state = "knocking" /\ n[d] \in 1 .. 2
    BY DEF Knocking
  <2>2. Watched(web[d])
    BY <2>1 DEF CInv, ConnectionsSound
  <2>3. ready[d] = {}
    BY <1>3, <2>1, <2>2 DEF Watched, Open
  <2>4. PassOK(queue, FirstPass(w, again)) /\ Ready(w, <<d>> \o conns, ready)
    BY <1>1, <1>3, <1>7, <2>1, <2>3, AcceptedOK
  <2> QED
    BY <1>4, <1>5, <1>7, <2>4, FDEventCInv
<1> QED
  BY <1>2, <1>6, <1>7

-----------------------------------------------------------------------------
\* httpd_send_response: the answer of a command.
LEMMA ResponseSound ==
  ASSUME scene \in Scenes, NEW c \in Conns, NEW r, Sound(c, r), Settled(r), Open(r),
         NEW k \in Nat, NEW e, e = SendResponse(r, "info", k)
  PROVE  /\ Sound(c, e) /\ Settled(e) /\ Open(e)
         /\ Clean(c, r) /\ Waiting(c, r, k) => Clean(c, e)
<1>1. Shape(c, r) /\ r = [f \in Fields |-> r[f]] /\ Watched(r) /\ Buffered(r)
  BY DEF Sound, Shape
<1>2. PICK n, y : n = FALSE /\ y = TRUE
  OBVIOUS
<1>3. PICK h : h = MkHeader(r, "info", k)
  OBVIOUS
<1>4. /\ Same(r, h, {"state", "body", "reply", "for", "keep"})
      /\ h.state = "WRITE_HEADER" /\ h.body = "heap" /\ h.for = k /\ h.keep = r.keep
      /\ h.reply = IF r.written THEN "garbled" ELSE "info"
  BY <1>1, <1>3, MkHeaderIs
<1>5. e = [h EXCEPT !.rd = n, !.wr = y]
  BY <1>2, <1>3 DEF SendResponse
<1>6. /\ Same(r, e, {"state", "body", "reply", "for", "keep", "rd", "wr"})
      /\ e.state = "WRITE_HEADER" /\ e.body = "heap" /\ e.for = k /\ e.keep = r.keep
      /\ e.reply = h.reply /\ e.rd = n /\ e.wr = y
  BY <1>4, <1>5 DEF Same, Fields
<1>7. /\ e.buf = r.buf /\ e.inbox = r.inbox /\ e.sent = r.sent /\ e.got = r.got
      /\ e.lbreq = r.lbreq /\ e.asked = r.asked /\ e.written = r.written
  BY <1>6 DEF Fields, Same
<1>8. Ahead(c, e) = Ahead(c, r)
  BY <1>7, AheadKept
<1>9. Shape(c, e)
  <2>1. /\ e.state \in FieldType(c).state /\ e.body \in FieldType(c).body
        /\ e.for \in FieldType(c).for
    BY <1>6 DEF FieldType, States, Writing
  <2>2. e.reply \in FieldType(c).reply
    BY <1>4, <1>6 DEF FieldType, Replies
  <2>3. e.keep \in FieldType(c).keep
    BY <1>1, <1>6, FieldsTyped DEF FieldType
  <2>4. n \in BOOLEAN /\ y \in BOOLEAN
    BY <1>2
  <2>5. e.rd \in FieldType(c).rd /\ e.wr \in FieldType(c).wr
    BY <1>6, <2>4 DEF FieldType
  <2> QED
    BY <1>1, <1>6, <1>8, <2>1, <2>2, <2>3, <2>5, ShapeKept
<1>10. Watched(e) /\ Open(e) /\ Settled(e)
  BY <1>2, <1>6 DEF Watched, Open, Writing, Settled
<1>11. Buffered(e)
  BY <1>1, <1>6, <1>7 DEF Buffered, Settled, Asking, Extra
<1>12. ASSUME Clean(c, r), Waiting(c, r, k) PROVE Clean(c, e)
  <2>1. /\ r.state \in Asking /\ r.asked /\ r.buf # <<>> /\ k = r.buf[1].req
        /\ Expected(Asked(c, r)) = "info"
    BY <1>12 DEF Waiting, Open, Settled
  <2>2. /\ InOrder(c, r.got) /\ Passed(c, r, 0) /\ ~r.written /\ ~r.buf[1].body
    BY <1>1, <1>12, <2>1 DEF Clean, Asking, Buffered
  <2>3. InOrder(c, e.got) /\ Passed(c, e, 0) /\ ~e.written
    BY <1>7, <1>8, <2>2 DEF Passed
  <2>4. e.reply = "info"
    BY <1>4, <1>6, <2>2
  <2>5. Answering(c, e)
    BY <1>6, <1>7, <2>1, <2>2, <2>4 DEF Answering, Asked
  <2> QED
    BY <1>6, <2>3, <2>5 DEF Clean
<1> QED
  BY <1>9, <1>10, <1>11, <1>12 DEF Sound

\* The event of a command is gone, or one that was freed is left.
LEMMA DeletedOK ==
  ASSUME IInv, CInv, NEW e \in queue, e.type \in {"GET_INFO", "ADD"}, Deleted(e)
  PROVE  CommandsTyped(queue') /\ Info(queue') \subseteq Info(queue) \ {e}
<1>1. CommandsTyped(queue)
  BY DEF CInv
<1>2. /\ {"at", "rank", "ival", "freed", "type"} \subseteq DOMAIN e
      /\ {"conn", "req", "copies"} \subseteq DOMAIN e
      /\ e.conn \in Conns /\ e.req \in Nat /\ e.copies \in Nat /\ e.at = 0
  BY <1>1 DEF IInv, QueueTimed, CommandsTyped
<1>3. PICK y, m : y = TRUE /\ m = e.copies - 1
  OBVIOUS
<1>4. PICK f : f = [e EXCEPT !.copies = m, !.freed = y]
  OBVIOUS
<1>5. queue' \subseteq (queue \ {e}) \cup {f} /\ (f \in queue' => m = 1 \/ f \in queue \ {e})
  BY <1>3, <1>4 DEF Deleted
<1>6. /\ f.type = e.type /\ f.conn = e.conn /\ f.req = e.req /\ f.at = 0 /\ f.copies = m
      /\ f.freed = y /\ DOMAIN f = DOMAIN e
  BY <1>2, <1>4
<1>7. CommandsTyped(queue')
  <2>1. y \in BOOLEAN /\ (m = 1 => m \in Nat)
    BY <1>3
  <2> QED
    BY <1>1, <1>2, <1>5, <1>6, <2>1 DEF CommandsTyped
<1>8. Info(queue') \subseteq Info(queue) \ {e}
  BY <1>3, <1>5, <1>6 DEF Info
<1> QED
  BY <1>7, <1>8

\* The answer to a command goes to the request that asked.
LEMMA GetInfoCInv ==
  ASSUME IInv, CInv, NEW e \in queue, HandleGetInfo(e)
  PROVE  CInv'
<1>1. /\ e.type = "GET_INFO" /\ ~e.freed /\ pc = "select" /\ Deleted(e)
      /\ UNCHANGED <<scene, lag, conns, again>> /\ early' = (early \/ e.at > 0)
      /\ Open(web[e.conn]) =>
           web' = [web EXCEPT ![e.conn] = SendResponse(@, "info", e.req)] /\ fault' = fault
      /\ ~Open(web[e.conn]) => web' = web /\ fault' = "dangling"
  BY DEF HandleGetInfo, TakeHead, Read
<1>2. CommandsTyped(queue') /\ Info(queue') \subseteq Info(queue) \ {e}
  BY <1>1, DeletedOK
<1>3. /\ scene \in Scenes /\ ListOf(conns, Conns, web) /\ ConnectionsSound(web, again)
      /\ Waits(queue, web, again) /\ again \subseteq Conns /\ lag \in BOOLEAN
      /\ fault' \in {"none", "dangling", "double free", "bad free"}
  BY <1>1 DEF IInv, CInv
<1>4. early' \in BOOLEAN
  BY <1>1 DEF CInv
<1>5. e.conn \in Conns /\ e.req \in Nat /\ e \in Info(queue)
  BY <1>1 DEF CInv, CommandsTyped, Info
<1>6. CASE ~Open(web[e.conn])
  <2>1. Waits(queue', web, again)
    BY <1>2, <1>3, FewerCommands
  <2> QED
    BY <1>1, <1>2, <1>3, <1>4, <1>6, <2>1, PrimedCInv
<1>7. CASE Open(web[e.conn])
  <2>1. PICK c, k, g : c = e.conn /\ k = e.req /\ g = SendResponse(web[c], "info", k)
    OBVIOUS
  <2>2. c \in Conns /\ k \in Nat /\ Open(web[c])
    BY <1>5, <1>7, <2>1
  <2>3. web = [d \in Conns |-> web[d]]
    BY <1>3 DEF ConnectionsSound
  <2>4. /\ web' = [d \in Conns |-> web'[d]] /\ web'[c] = g
        /\ \A d \in Conns \ {c} : web'[d] = web[d]
    BY <1>1, <1>7, <2>1, <2>2, <2>3
  <2>5. Sound(c, web[c]) /\ Settled(web[c]) /\ (c \notin again => Clean(c, web[c]))
    BY <1>3, <2>2 DEF ConnectionsSound, Sound
  <2>6. c \notin again => Waiting(c, web[c], k)
    BY <1>3, <1>5, <2>1 DEF Waits
  <2>7. /\ Sound(c, g) /\ Settled(g) /\ Open(g)
        /\ Clean(c, web[c]) /\ Waiting(c, web[c], k) => Clean(c, g)
    BY <1>3, <2>1, <2>2, <2>5, ResponseSound
  <2>8. ConnectionsSound(web', again)
    BY <1>3, <2>4, <2>5, <2>6, <2>7 DEF ConnectionsSound, Sound
  <2>9. ListOf(conns, Conns, web')
    <3>1. \A d \in Conns : Open(web'[d]) <=> Open(web[d])
      BY <2>2, <2>4, <2>7
    <3> QED
      BY <1>3, <3>1 DEF ListOf
  <2>10. Waits(queue', web', again)
    <3>1. ASSUME NEW f \in Info(queue'), f.conn \notin again
          PROVE  Waiting(f.conn, web'[f.conn], f.req)
      <4>1. f \in Info(queue) /\ f # e
        BY <1>2
      <4>2. f.conn \in Conns /\ f.conn # c
        BY <1>3, <1>5, <2>1, <3>1, <4>1 DEF Waits, CInv, CommandsTyped, Info
      <4> QED
        BY <1>3, <2>4, <3>1, <4>1, <4>2 DEF Waits
    <3>2. Waits(queue', web, again)
      BY <1>2, <1>3, FewerCommands
    <3> QED
      BY <3>1, <3>2 DEF Waits
  <2> QED
    BY <1>1, <1>2, <1>3, <1>4, <1>7, <2>8, <2>9, <2>10, PrimedCInv
<1> QED
  BY <1>6, <1>7

\* A step that leaves the connections alone and adds no command.
LEMMA AloneCInv ==
  ASSUME CInv, UNCHANGED <<scene, web, conns, again>>, pc' # "ended" => pc # "ended",
         CommandsTyped(queue'), Info(queue') \subseteq Info(queue),
         lag' \in BOOLEAN, early' \in BOOLEAN,
         fault' \in {"none", "dangling", "double free", "bad free"}
  PROVE  CInv'
<1>1. pc' # "ended" => Waits(queue', web, again)
  BY FewerCommands DEF CInv
<1>2. /\ ListOf(conns, Conns, web) /\ ConnectionsSound(web, again) /\ again \subseteq Conns
  BY DEF CInv
<1> QED
  BY <1>1, <1>2, PrimedCInv

\* The events that do not touch a connection.
LEMMA AddFreedOtherCInv ==
  ASSUME IInv, CInv, NEW e \in queue, HandleAdd(e) \/ HandleFreed(e) \/ HandleOther(e)
  PROVE  CInv'
<1>1. /\ pc = "select" /\ UNCHANGED <<scene, lag, web, conns, again>>
      /\ early' = (early \/ e.at > 0) /\ fault' \in {fault, "double free"}
  BY DEF HandleAdd, HandleFreed, HandleOther, TakeHead, Read
<1>2. CommandsTyped(queue') /\ Info(queue') \subseteq Info(queue)
  <2>1. CASE HandleAdd(e)
    BY <2>1, DeletedOK DEF HandleAdd
  <2>2. CASE HandleFreed(e) \/ HandleOther(e)
    <3>1. queue' \subseteq queue
      BY <2>2 DEF HandleFreed, HandleOther
    <3> QED
      BY <3>1 DEF CInv, CommandsTyped, Info
  <2> QED
    BY <2>1, <2>2
<1>3. lag' \in BOOLEAN /\ fault' \in {"none", "dangling", "double free", "bad free"}
  BY <1>1 DEF CInv
<1>4. early' \in BOOLEAN
  BY <1>1 DEF CInv
<1> QED
  BY <1>1, <1>2, <1>3, <1>4, AloneCInv

\* The steps of the loop, and of signals, that change no connection.
LEMMA QuietCInv ==
  ASSUME CInv, \/ Schedule \/ Dump \/ Stop \/ Idle
               \/ \E b \in {"S", "D"} : Signal(b)
               \/ Ended \/ UNCHANGED vars
  PROVE  CInv'
<1>1. /\ UNCHANGED <<queue, scene, web, conns, again, early, fault>>
      /\ pc' # "ended" => pc # "ended"
      /\ lag' \in {lag, FALSE}
  BY DEF Schedule, Dump, Stop, Idle, Signal, Ended, vars, Read
<1>2. CommandsTyped(queue') /\ Info(queue') \subseteq Info(queue)
  BY <1>1 DEF CInv, CommandsTyped, Info
<1>3. fault' \in {"none", "dangling", "double free", "bad free"}
  BY <1>1 DEF CInv
<1>4. early' \in BOOLEAN
  BY <1>1 DEF CInv
<1>5. lag' \in BOOLEAN
  BY <1>1 DEF CInv
<1> QED
  BY <1>1, <1>2, <1>3, <1>4, <1>5, AloneCInv

-----------------------------------------------------------------------------
\* Time passes.
LEMMA TickCInv ==
  ASSUME IInv, CInv, Tick
  PROVE  CInv'
<1>1. /\ UNCHANGED <<scene, conns, again, early, fault, pc>> /\ lag' \in BOOLEAN
      /\ pc = "select" /\ \A e \in queue : e.at > 0
      /\ queue' = {[e EXCEPT !.at = @ - 1] : e \in queue}
      /\ web' = [c \in Conns |-> IF Open(web[c]) /\ web[c].idle <= Longest
                                 THEN [web[c] EXCEPT !.idle = @ + 1] ELSE web[c]]
  BY DEF Tick
<1>2. \A f \in queue' : f.type \in {"CTRLCOMM_TIMER", "OTHER"} /\ f.freed \in BOOLEAN
  <2>1. ASSUME NEW e \in queue
        PROVE  LET f == [e EXCEPT !.at = @ - 1]
               IN  f.type \in {"CTRLCOMM_TIMER", "OTHER"} /\ f.freed \in BOOLEAN
    <3>1. e.at > 0 /\ {"at", "rank", "ival", "freed", "type"} \subseteq DOMAIN e
      BY <1>1 DEF IInv, QueueTimed
    <3>2. /\ e.type \in {"CTRLCOMM_TIMER", "OTHER"} \/ e.at = 0
          /\ e.freed \in BOOLEAN
      BY DEF CInv, CommandsTyped
    <3>3. e.type \in {"CTRLCOMM_TIMER", "OTHER"}
      BY <3>1, <3>2
    <3>4. PICK v : v = e.at - 1
      OBVIOUS
    <3>5. [e EXCEPT !.at = v].type = e.type /\ [e EXCEPT !.at = v].freed = e.freed
      BY <3>1
    <3> QED
      BY <3>2, <3>3, <3>4, <3>5
  <2> QED
    BY <1>1, <2>1
<1>3. CommandsTyped(queue') /\ Info(queue') = {}
  BY <1>2 DEF CommandsTyped, Info
<1>4. Waits(queue', web', again)
  BY <1>3 DEF Waits
<1>5. ASSUME NEW c \in Conns
      PROVE  /\ Sound(c, web'[c]) /\ Settled(web'[c]) /\ (Open(web'[c]) <=> Open(web[c]))
             /\ c \notin again => Clean(c, web'[c])
  <2>1. PICK r, e : r = web[c] /\ e = web'[c]
    OBVIOUS
  <2>2. Sound(c, r) /\ Settled(r) /\ (c \notin again => Clean(c, r))
    BY <2>1 DEF CInv, ConnectionsSound, Sound
  <2>3. CASE e = r
    BY <2>1, <2>2, <2>3
  <2>4. CASE r.idle <= Longest /\ e = [r EXCEPT !.idle = @ + 1]
    <3>1. PICK v : v = r.idle + 1
      OBVIOUS
    <3>2. r.idle \in 0 .. Longest + 1
      BY <2>2, FieldsTyped DEF Sound
    <3>3. v \in 0 .. Longest + 1
      BY <2>4, <3>1, <3>2, LongestNat
    <3>4. e = [r EXCEPT !.idle = v]
      BY <2>4, <3>1
    <3>5. /\ Sound(c, e) /\ Same(r, e, {"idle"}) /\ (Clean(c, r) => Clean(c, e))
      BY <2>2, <3>3, <3>4, IdleSound
    <3>6. e.state = r.state /\ e.wr = r.wr
      BY <3>5 DEF Same, Fields
    <3> QED
      BY <2>1, <2>2, <3>5, <3>6 DEF Settled, Open
  <2> QED
    BY <1>1, <2>1, <2>3, <2>4
<1>6. web' = [c \in Conns |-> web'[c]]
  BY <1>1
<1>7. ConnectionsSound(web', again) /\ ListOf(conns, Conns, web')
  BY <1>5, <1>6 DEF ConnectionsSound, Sound, ListOf, CInv
<1>8. again \subseteq Conns /\ early \in BOOLEAN
  BY DEF CInv
<1>9. fault \in {"none", "dangling", "double free", "bad free"}
  BY DEF CInv
<1> QED
  BY <1>1, <1>3, <1>4, <1>7, <1>8, <1>9, PrimedCInv

\* httpd_shutdown.
LEMMA ShutdownCInv ==
  ASSUME IInv, CInv, Shutdown
  PROVE  CInv'
<1>1. /\ UNCHANGED <<scene, again, early, queue, lag>> /\ pc' = "ended" /\ conns' = <<>>
      /\ fault' \in {"bad free", "none"}
      /\ web' = [c \in Conns |-> IF Open(web[c]) THEN Close([web[c] EXCEPT !.state = "CLOSE"])
                                 ELSE web[c]]
  BY DEF Shutdown
<1>2. ASSUME NEW c \in Conns
      PROVE  /\ Sound(c, web'[c]) /\ Settled(web'[c]) /\ ~Open(web'[c])
             /\ c \notin again => Clean(c, web'[c])
  <2>1. PICK r : r = web[c]
    OBVIOUS
  <2>2. Sound(c, r) /\ Settled(r) /\ (c \notin again => Clean(c, r))
    BY <2>1 DEF CInv, ConnectionsSound, Sound
  <2>3. CASE ~Open(r)
    BY <1>1, <2>1, <2>2, <2>3
  <2>4. CASE Open(r)
    <3>1. PICK g : g = [r EXCEPT !.state = "CLOSE"]
      OBVIOUS
    <3>2. /\ Sound(c, g) /\ g.state = "CLOSE"
          /\ InOrder(c, r.got) /\ (r.written => r.state \in Writing \cup {"CLOSE"}) => Clean(c, g)
      BY <2>2, <2>4, <3>1, GiveUpSound
    <3>3. Clean(c, r) => Clean(c, g)
      BY <3>2 DEF Clean, Writing
    <3>4. PICK e : e = Close(g)
      OBVIOUS
    <3>5. /\ Sound(c, e) /\ Settled(e) /\ ~Open(e) /\ (Clean(c, g) => Clean(c, e))
      <4>1. Plan(c) \in Seq(Part(c)) /\ Ordered(Plan(c))
        BY PlanType DEF IInv
      <4> QED
        BY <3>2, <3>4, <4>1, CloseSound
    <3>6. web'[c] = e
      BY <1>1, <2>1, <2>4, <3>1, <3>4
    <3> QED
      BY <2>2, <3>3, <3>5, <3>6
  <2> QED
    BY <2>3, <2>4
<1>3. web' = [c \in Conns |-> web'[c]]
  BY <1>1
<1>4. ConnectionsSound(web', again) /\ ListOf(<<>>, Conns, web')
  <2>1. <<>> \in Seq(Conns) /\ DOMAIN <<>> = {}
    OBVIOUS
  <2> QED
    BY <1>2, <1>3, <2>1 DEF ConnectionsSound, Sound, ListOf
<1>5. again \subseteq Conns /\ early \in BOOLEAN /\ lag \in BOOLEAN /\ CommandsTyped(queue)
  BY DEF CInv
<1> QED
  BY <1>1, <1>4, <1>5, PrimedCInv

\* One connection changes between two passes.
LEMMA OneCInv ==
  ASSUME CInv, UNCHANGED <<scene, queue, pc, lag, conns, fault, early, again>>,
         NEW c \in Conns, NEW e, web' = [web EXCEPT ![c] = e],
         Sound(c, e), Settled(e), Open(e) <=> Open(web[c]),
         Clean(c, web[c]) => Clean(c, e), Keeps(c, web[c], e)
  PROVE  CInv'
<1>1. web = [d \in Conns |-> web[d]]
  BY DEF CInv, ConnectionsSound
<1>2. /\ web' = [d \in Conns |-> web'[d]] /\ web'[c] = e
      /\ \A d \in Conns \ {c} : web'[d] = web[d]
  BY <1>1
<1>3. ConnectionsSound(web', again)
  BY <1>2 DEF CInv, ConnectionsSound, Sound
<1>4. ListOf(conns, Conns, web')
  <2>1. \A d \in Conns : Open(web'[d]) <=> Open(web[d])
    BY <1>2
  <2> QED
    BY <2>1 DEF CInv, ListOf
<1>5. ASSUME pc # "ended" PROVE Waits(queue, web', again)
  <2>1. \A f \in Info(queue) : f.conn \in Conns
    BY DEF CInv, CommandsTyped, Info
  <2>2. Waits(queue, web, again)
    BY <1>5 DEF CInv
  <2> QED
    BY <1>2, <2>1, <2>2 DEF Waits, Keeps
<1>6. /\ CommandsTyped(queue) /\ again \subseteq Conns
      /\ fault \in {"none", "dangling", "double free", "bad free"}
  BY DEF CInv
<1>7. lag \in BOOLEAN /\ early \in BOOLEAN
  BY DEF CInv
<1> QED
  BY <1>3, <1>4, <1>5, <1>6, <1>7, PrimedCInv

\* What a client sends, or that it is gone, changes nothing the daemon has.
LEMMA ClientSound ==
  ASSUME NEW c, NEW r, Sound(c, r), Settled(r), NEW e, Same(r, e, {"inbox", "sent", "eof"}),
         e.inbox \in Seq(Part(c)), e.sent \in 0 .. Len(Plan(c)), e.eof \in BOOLEAN,
         r.eof => e.eof, Ahead(c, e) = Ahead(c, r)
  PROVE  /\ Sound(c, e) /\ Settled(e) /\ (Open(e) <=> Open(r))
         /\ (Clean(c, r) => Clean(c, e)) /\ Keeps(c, r, e)
<1>1. Shape(c, r) /\ Watched(r) /\ Buffered(r)
  BY DEF Sound
<1>2. /\ e.got = r.got /\ e.state = r.state /\ e.rd = r.rd /\ e.wr = r.wr /\ e.idle = r.idle
      /\ e.buf = r.buf /\ e.lbreq = r.lbreq /\ e.asked = r.asked /\ e.keep = r.keep
  BY DEF Same, Fields
<1>3. e.reply = r.reply /\ e.for = r.for /\ e.written = r.written
  BY DEF Same, Fields
<1>4. Shape(c, e)
  <2>1. /\ e.inbox \in FieldType(c).inbox /\ e.sent \in FieldType(c).sent
        /\ e.eof \in FieldType(c).eof
    BY DEF FieldType
  <2> QED
    BY <1>1, <2>1, ShapeKept
<1>5. Watched(e) /\ Buffered(e) /\ Settled(e) /\ (Open(e) <=> Open(r))
  BY <1>1, <1>2 DEF Watched, Buffered, Settled, Open, Extra
<1>6. Asked(c, e) = Asked(c, r)
  BY <1>2 DEF Asked
<1>7. Answering(c, r) => Answering(c, e)
  BY <1>2, <1>3 DEF Answering
<1>8. Passed(c, r, 0) => Passed(c, e, 0)
  BY <1>2 DEF Passed
<1>9. Clean(c, r) => Clean(c, e)
  BY <1>2, <1>3, <1>6, <1>7, <1>8 DEF Clean, Settled
<1>10. Keeps(c, r, e)
  BY <1>2, <1>6 DEF Keeps, Waiting
<1> QED
  BY <1>4, <1>5, <1>9, <1>10 DEF Sound

\* A part that was ahead is in the socket.
SentPart(S, b, i, p, n) ==
  /\ Append(i, p[n + 1]) \in Seq(S)
  /\ (b \o Append(i, p[n + 1])) \o SubSeq(p, (n + 1) + 1, Len(p))
       = (b \o i) \o SubSeq(p, n + 1, Len(p))

\* What is ahead of a connection is the same when a part is sent.
LEMMA SentSeq ==
  \A S : \A b, i, p \in Seq(S) : \A n \in 0 .. Len(p) - 1 : SentPart(S, b, i, p, n)
<1> TAKE S
<1> TAKE b, i, p \in Seq(S)
<1> TAKE n \in 0 .. Len(p) - 1
<1>1. PICK m : m = n + 1
  OBVIOUS
<1>2. /\ Len(p) \in Nat /\ m \in 1 .. Len(p) /\ m \in 1 .. Len(p) + 1 /\ m \in m - 1 .. Len(p)
      /\ Len(p) \in m .. Len(p) /\ DOMAIN p = 1 .. Len(p)
  BY <1>1
<1>3. PICK x, u, v, w : /\ x = p[m] /\ u = SubSeq(p, m, m) /\ v = SubSeq(p, m + 1, Len(p))
                        /\ w = SubSeq(p, m, Len(p))
  OBVIOUS
<1>4. x \in S
  BY <1>2, <1>3
<1>5. u \o v = w
  BY <1>2, <1>3, ConcatAdjacentSubSeq
<1>6. u = <<x>> /\ u \in Seq(S) /\ v \in Seq(S)
  <2>1. u \in Seq(S) /\ Len(u) = 1 /\ u[1] = x
    BY <1>2, <1>3
  <2>2. u = <<x>>
    BY <2>1
  <2>3. v \in Seq(S)
    BY <1>2, <1>3
  <2> QED
    BY <2>1, <2>2, <2>3
<1>7. Append(i, x) = i \o u /\ Append(i, x) \in Seq(S)
  BY <1>4, <1>6, AppendIsConcat
<1>8. Assoc(b, i, u)
  BY <1>6, AssocSeq
<1>9. PICK g : g = b \o i
  OBVIOUS
<1>10. Assoc(g, u, v)
  <2>1. g \in Seq(S)
    BY <1>9
  <2>2. g \in Seq(S) /\ u \in Seq(S) /\ v \in Seq(S)
    BY <1>6, <2>1
  <2> QED
    BY ONLY <2>2, AssocSeq
<1>11. (b \o Append(i, x)) \o v = g \o w
  BY <1>5, <1>7, <1>8, <1>9, <1>10 DEF Assoc
<1> QED
  BY <1>1, <1>3, <1>7, <1>9, <1>11 DEF SentPart

\* A client connects.
LEMMA ConnectCInv ==
  ASSUME IInv, CInv, NEW c \in Conns, Connect(c)
  PROVE  CInv'
<1>1. PICK r, e : r = web[c] /\ e = [r EXCEPT !.state = "knocking"]
  OBVIOUS
<1>2. /\ UNCHANGED <<scene, queue, pc, lag, conns, fault, early, again>>
      /\ r.state = "free" /\ web' = [web EXCEPT ![c] = e]
  BY <1>1 DEF Connect, Client
<1>3. Sound(c, r) /\ Shape(c, r) /\ r = [f \in Fields |-> r[f]] /\ Watched(r) /\ Buffered(r)
  BY <1>1 DEF CInv, ConnectionsSound, Sound, Shape
<1>4. Same(r, e, {"state"}) /\ e.state = "knocking"
  BY <1>1, <1>3 DEF Same, Fields
<1>5. /\ e.got = r.got /\ e.rd = r.rd /\ e.wr = r.wr /\ e.sent = r.sent /\ e.inbox = r.inbox
      /\ e.buf = r.buf /\ e.lbreq = r.lbreq /\ e.asked = r.asked /\ e.keep = r.keep
      /\ e.written = r.written
  BY <1>4 DEF Same, Fields
<1>6. Ahead(c, e) = Ahead(c, r)
  BY <1>5, AheadKept
<1>7. Shape(c, e)
  <2>1. e.state \in FieldType(c).state
    BY <1>4 DEF FieldType, States
  <2> QED
    BY <1>3, <1>4, <1>6, <2>1, ShapeKept
<1>8. Watched(e) /\ Buffered(e) /\ Settled(e) /\ ~Open(e) /\ ~Open(r)
  BY <1>2, <1>3, <1>4, <1>5 DEF Watched, Buffered, Settled, Open, Writing, Asking
<1>9. ASSUME Clean(c, r) PROVE Clean(c, e)
  <2>1. InOrder(c, e.got) /\ Passed(c, e, 0) /\ ~e.written /\ ~e.asked
    BY <1>2, <1>5, <1>6, <1>9 DEF Clean, Passed
  <2> QED
    BY <1>4, <2>1 DEF Clean, Writing
<1>10. Keeps(c, r, e)
  BY <1>2 DEF Keeps, Waiting, Asking
<1> QED
  BY <1>1, <1>2, <1>7, <1>8, <1>9, <1>10, OneCInv DEF Sound

\* A client sends a part.
LEMMA SendCInv ==
  ASSUME IInv, CInv, NEW c \in Conns, Send(c)
  PROVE  CInv'
<1>1. PICK r, p, m : r = web[c] /\ p = Plan(c) /\ m = r.sent + 1
  OBVIOUS
<1>2. PICK i : i = Append(r.inbox, p[m])
  OBVIOUS
<1>3. PICK e : e = [r EXCEPT !.sent = m, !.inbox = i]
  OBVIOUS
<1>4. /\ UNCHANGED <<scene, queue, pc, lag, conns, fault, early, again>> /\ r.sent < Len(p)
      /\ web' = [web EXCEPT ![c].sent = @ + 1,
                            ![c].inbox = Append(@, p[m])]
  BY <1>1 DEF Send, Client, Plan
<1>5. /\ Sound(c, r) /\ Settled(r) /\ r = [f \in Fields |-> r[f]]
      /\ web = [d \in Conns |-> web[d]]
  BY <1>1 DEF CInv, ConnectionsSound, Sound, Shape
<1>6. web' = [web EXCEPT ![c] = e]
  BY <1>1, <1>2, <1>3, <1>4, <1>5 DEF Fields
<1>7. Same(r, e, {"inbox", "sent", "eof"}) /\ e.sent = m /\ e.inbox = i /\ e.eof = r.eof
      /\ e.buf = r.buf
  BY <1>3, <1>5 DEF Same, Fields
<1>8. /\ r.buf \in Seq(Part(c)) /\ r.inbox \in Seq(Part(c)) /\ r.eof \in BOOLEAN
      /\ r.sent \in 0 .. Len(p)
  BY <1>1, <1>5, FieldsTyped DEF Sound
<1>9. p \in Seq(Part(c)) /\ Len(p) \in Nat
  BY <1>1, PlanType DEF IInv
<1>10. r.sent \in 0 .. Len(p) - 1 /\ m \in 0 .. Len(p)
  BY <1>1, <1>4, <1>8, <1>9
<1>11. i \in Seq(Part(c)) /\ Ahead(c, e) = Ahead(c, r)
  <2>1. PICK b, x, n : b = r.buf /\ x = r.inbox /\ n = r.sent
    OBVIOUS
  <2>2. /\ b \in Seq(Part(c)) /\ x \in Seq(Part(c)) /\ p \in Seq(Part(c))
        /\ n \in 0 .. Len(p) - 1
    BY <1>8, <1>9, <1>10, <2>1
  <2>3. SentPart(Part(c), b, x, p, n)
    BY ONLY <2>2, SentSeq
  <2> QED
    BY <1>1, <1>2, <1>7, <2>1, <2>3 DEF Ahead, SentPart
<1>12. /\ Sound(c, e) /\ Settled(e) /\ (Open(e) <=> Open(r))
       /\ (Clean(c, r) => Clean(c, e)) /\ Keeps(c, r, e)
  BY <1>1, <1>5, <1>7, <1>8, <1>10, <1>11, ClientSound
<1> QED
  BY <1>1, <1>4, <1>6, <1>12, OneCInv

\* A client shuts down its side.
LEMMA QuitCInv ==
  ASSUME IInv, CInv, NEW c \in Conns, Quit(c)
  PROVE  CInv'
<1>1. PICK r, y : r = web[c] /\ y = TRUE
  OBVIOUS
<1>2. PICK e : e = [r EXCEPT !.eof = y]
  OBVIOUS
<1>3. /\ UNCHANGED <<scene, queue, pc, lag, conns, fault, early, again>>
      /\ web' = [web EXCEPT ![c] = e]
  BY <1>1, <1>2 DEF Quit, Client
<1>4. Sound(c, r) /\ Settled(r) /\ r = [f \in Fields |-> r[f]]
  BY <1>1 DEF CInv, ConnectionsSound, Sound, Shape
<1>5. /\ Same(r, e, {"inbox", "sent", "eof"}) /\ e.sent = r.sent /\ e.inbox = r.inbox /\ e.eof = y
      /\ e.buf = r.buf
  BY <1>2, <1>4 DEF Same, Fields
<1>6. /\ r.inbox \in Seq(Part(c)) /\ r.sent \in 0 .. Len(Plan(c))
  BY <1>4, FieldsTyped DEF Sound
<1>7. y \in BOOLEAN /\ (r.eof => y)
  BY <1>1
<1>8. Ahead(c, e) = Ahead(c, r)
  BY <1>5, AheadKept
<1>9. /\ Sound(c, e) /\ Settled(e) /\ (Open(e) <=> Open(r))
      /\ (Clean(c, r) => Clean(c, e)) /\ Keeps(c, r, e)
  BY <1>4, <1>5, <1>6, <1>7, <1>8, ClientSound
<1> QED
  BY <1>1, <1>3, <1>9, OneCInv

-----------------------------------------------------------------------------
\* At the start nothing is connected and no command waits.
LEMMA InitCInv == Init => CInv
<1> SUFFICES ASSUME Init
             PROVE  CInv
  OBVIOUS
<1>1. /\ scene \in Scenes /\ web = [c \in Conns |-> NewConnection] /\ conns = <<>> /\ again = {}
      /\ fault = "none"
  BY DEF Init
<1>2. lag \in BOOLEAN /\ early \in BOOLEAN
  BY DEF Init
<1>3. \A e \in queue : e.type \in {"CTRLCOMM_TIMER", "OTHER"} /\ e.freed \in BOOLEAN
  <2>1. PICK n : n = FALSE
    OBVIOUS
  <2>2. PICK S : S = {[at |-> TimerPeriod, rank |-> 1, ival |-> TimerPeriod,
                       type |-> "CTRLCOMM_TIMER", freed |-> n]}
                     \cup {[at |-> t, rank |-> 2, ival |-> 0, type |-> "OTHER",
                            freed |-> n] : t \in Works}
    OBVIOUS
  <2>3. queue = Enqueue({}, S)
    BY <2>1, <2>2 DEF Init
  <2>4. \A f \in S : /\ {"at", "rank", "ival", "freed", "type"} \subseteq DOMAIN f
                     /\ f.type \in {"CTRLCOMM_TIMER", "OTHER"} /\ f.freed = n
    BY <2>2
  <2>5. ASSUME NEW e \in queue PROVE e.type \in {"CTRLCOMM_TIMER", "OTHER"} /\ e.freed = n
    <3>1. PICK f \in S : e = Ranked(f, LastRank({}, f.at) + f.rank)
      BY <2>3, EnqueueMembers
    <3>2. PICK k : k = LastRank({}, f.at) + f.rank
      OBVIOUS
    <3>3. e = [f EXCEPT !.rank = k]
      BY <3>1, <3>2 DEF Ranked
    <3> QED
      BY <2>4, <3>3
  <2> QED
    BY <2>1, <2>5
<1>4. CommandsTyped(queue) /\ Info(queue) = {}
  BY <1>3 DEF CommandsTyped, Info
<1>5. Waits(queue, web, again)
  BY <1>4 DEF Waits
<1>6. ASSUME NEW c \in Conns
      PROVE  /\ Sound(c, web[c]) /\ Settled(web[c]) /\ ~Open(web[c]) /\ Clean(c, web[c])
  <2>1. PICK g, b, e : g = <<>> /\ b = FALSE /\ e = Unserved("free", g, b)
    OBVIOUS
  <2>2. e = NewConnection
    BY <2>1 DEF Unserved, NewConnection
  <2>3. g \in Seq(Reply) /\ b \in BOOLEAN /\ InOrder(c, g)
    <3>1. DOMAIN g = {} /\ g \in Seq(Reply)
      BY <2>1
    <3>2. b \in BOOLEAN
      BY <2>1
    <3>3. InOrder(c, g)
      BY <3>1 DEF InOrder
    <3> QED
      BY <3>1, <3>2, <3>3
  <2>4. Plan(c) \in Seq(Part(c)) /\ Ordered(Plan(c))
    BY <1>1, PlanType
  <2>5. Sound(c, e) /\ Settled(e) /\ ~Open(e) /\ Clean(c, e)
    BY <2>1, <2>3, <2>4, ClosedSound
  <2> QED
    BY <1>1, <2>2, <2>5
<1>7. ConnectionsSound(web, again)
  BY <1>1, <1>6 DEF ConnectionsSound, Sound
<1>8. ListOf(conns, Conns, web)
  <2>1. <<>> \in Seq(Conns) /\ DOMAIN <<>> = {}
    OBVIOUS
  <2> QED
    BY <1>1, <1>6, <2>1 DEF ListOf
<1> QED
  BY <1>1, <1>2, <1>4, <1>5, <1>7, <1>8 DEF CInv

\* Every step keeps the invariant.
LEMMA NextCInv == IInv /\ CInv /\ [Next]_vars => CInv'
<1> SUFFICES ASSUME IInv, CInv, [Next]_vars
             PROVE  CInv'
  OBVIOUS
<1>1. ASSUME NEW e \in queue, HandleHead(e) PROVE CInv'
  BY <1>1, TimerCInv, GetInfoCInv, AddFreedOtherCInv DEF HandleHead
<1>2. CASE ServeConnections
  BY <1>2, ServeCInv
<1>3. CASE Shutdown
  BY <1>3, ShutdownCInv
<1>4. CASE Tick
  BY <1>4, TickCInv
<1>5. CASE Clients
  BY <1>5, ConnectCInv, SendCInv, QuitCInv DEF Clients
<1>6. CASE \/ Schedule \/ Dump \/ Stop \/ Idle
           \/ \E b \in {"S", "D"} : Signal(b)
           \/ Ended \/ UNCHANGED vars
  BY <1>6, QuietCInv
<1> QED
  BY <1>1, <1>2, <1>3, <1>4, <1>5, <1>6 DEF Next, Loop

\* A connection has the type of one.
LEMMA ConnectionTyped ==
  ASSUME scene \in Scenes, NEW c \in Conns, NEW r, Shape(c, r), Settled(r)
  PROVE  r \in ConnectionType
<1>1. /\ r.inbox \in Seq(Part(c)) /\ r.buf \in Seq(Part(c)) /\ r.got \in Seq(Reply)
      /\ r.eof \in BOOLEAN /\ r.rd \in BOOLEAN /\ r.wr \in BOOLEAN /\ r.parsed \in BOOLEAN
      /\ r.asked \in BOOLEAN /\ r.keep \in BOOLEAN /\ r.written \in BOOLEAN
      /\ r.sent \in 0 .. Len(Plan(c)) /\ r.idle \in 0 .. Longest + 1
      /\ r.lbreq \in Nat /\ r.clen \in {0, 1} /\ r.for \in Nat
      /\ r.body \in {"none", "heap", "static"} /\ r.reply \in Replies
      /\ r.state \in States
  BY FieldsTyped
<1>2. PICK P, s : P = [req : Nat, body : BOOLEAN] /\ s = Seq(P)
  OBVIOUS
<1>3. Part(c) \subseteq P
  BY <1>2, AsksType DEF Part
<1>4. r.inbox \in s /\ r.buf \in s
  BY <1>1, <1>2, <1>3, WiderSeq
<1>5. PICK g : g = Seq(Reply)
  OBVIOUS
<1>6. r.sent \in Nat
  BY <1>1
<1>7. r.state \in {"free", "knocking", "KEEPALIVE", "READ_HEADER", "PARSE_HEADER", "READ_BODY",
                   "PARSE_BODY", "PROCESS", "WRITE_HEADER", "WRITE_BODY", "closed"}
  BY <1>1 DEF States, Asking, Writing, Settled
<1>8. r = [f \in Fields |-> r[f]]
  BY DEF Shape
<1>9. ConnectionType =
        [inbox : s, eof : BOOLEAN, sent : Nat, got : g,
         state : {"free", "knocking", "KEEPALIVE", "READ_HEADER", "PARSE_HEADER", "READ_BODY",
                  "PARSE_BODY", "PROCESS", "WRITE_HEADER", "WRITE_BODY", "closed"},
         rd : BOOLEAN, wr : BOOLEAN, idle : 0 .. Longest + 1,
         buf : s, lbreq : Nat, clen : {0, 1},
         parsed : BOOLEAN, asked : BOOLEAN, keep : BOOLEAN, body : {"none", "heap", "static"},
         reply : Replies, for : Nat, written : BOOLEAN]
  BY <1>2, <1>5 DEF ConnectionType, Reply
<1> QED
  BY ONLY <1>1, <1>4, <1>5, <1>6, <1>7, <1>8, <1>9 DEF Fields

\* What is proved.
LEMMA CInvProperties == IInv /\ CInv => WatchedRightly /\ EventsHaveConnections /\ AnswersInOrder
<1> SUFFICES ASSUME IInv, CInv
             PROVE  WatchedRightly /\ EventsHaveConnections /\ AnswersInOrder
  OBVIOUS
<1>1. ASSUME NEW c \in Conns
      PROVE  /\ Shape(c, web[c]) /\ Watched(web[c]) /\ Settled(web[c])
             /\ c \notin again => Clean(c, web[c])
  BY DEF CInv, ConnectionsSound
<1>2. TypeOK
  <2>1. \A e \in queue : /\ e.at \in Int /\ e.rank \in Nat /\ e.freed \in BOOLEAN
                         /\ e.type \in {"GET_INFO", "ADD"} =>
                              e.conn \in Conns /\ e.req \in Nat /\ e.copies \in Nat
    <3>1. TAKE e \in queue
    <3>2. e.at \in Int /\ e.rank \in Nat
      BY DEF IInv, QueueTimed
    <3>3. /\ e.freed \in BOOLEAN
          /\ e.type \in {"GET_INFO", "ADD"} =>
               e.conn \in Conns /\ e.req \in Nat /\ e.copies \in Nat
      BY DEF CInv, CommandsTyped
    <3> QED
      BY <3>2, <3>3
  <2>2. web \in [Conns -> ConnectionType]
    <3>1. \A c \in Conns : web[c] \in ConnectionType
      BY <1>1, ConnectionTyped DEF IInv
    <3>2. web = [c \in Conns |-> web[c]]
      BY DEF CInv, ConnectionsSound
    <3> HIDE DEF ConnectionType
    <3> QED
      BY <3>1, <3>2
  <2>3. pipe \in Seq({"A", "S", "D"}) /\ pc \in {"top", "select", "stopped", "ended"}
        /\ scene \in Scenes /\ signals \subseteq scene.signals
    BY DEF IInv, PipeMeans
  <2>4. conns \in Seq(Conns) /\ again \subseteq Conns
        /\ fault \in {"none", "dangling", "double free", "bad free"}
    BY DEF CInv, ListOf
  <2>5. lag \in BOOLEAN /\ early \in BOOLEAN
    BY DEF CInv
  <2> QED
    BY <2>1, <2>2, <2>3, <2>4, <2>5 DEF TypeOK
<1>3. WatchedRightly
  <2>1. ASSUME NEW c \in Conns
        PROVE  LET r == web[c]
               IN  /\ Open(r) => (r.wr <=> r.state \in Writing) /\ (r.rd <=> ~r.wr)
                   /\ ~Open(r) => ~r.rd /\ ~r.wr
                   /\ Open(r) <=> \E k \in DOMAIN conns : conns[k] = c
    <3>1. web[c].rd \in BOOLEAN /\ web[c].wr \in BOOLEAN
      BY <1>1, FieldsTyped
    <3>2. Open(web[c]) <=> \E k \in DOMAIN conns : conns[k] = c
      BY DEF CInv, ListOf
    <3> QED
      BY <1>1, <3>1, <3>2 DEF Watched, Settled, Writing
  <2> QED
    BY <1>2, <2>1 DEF WatchedRightly
<1>4. EventsHaveConnections
  <2>1. SUFFICES ASSUME NEW e \in queue, e.type = "GET_INFO", ~e.freed, pc # "ended",
                        e.conn \notin again
                 PROVE  Open(web[e.conn]) \/ web[e.conn].eof
    BY DEF EventsHaveConnections
  <2>2. e \in Info(queue) /\ e.conn \in Conns
    BY <2>1 DEF Info, CInv, CommandsTyped
  <2>3. Waiting(e.conn, web[e.conn], e.req)
    BY <2>1, <2>2 DEF CInv, Waits
  <2> QED
    BY <2>3 DEF Waiting, Open, Asking
<1>5. AnswersInOrder
  BY <1>1 DEF AnswersInOrder, Clean, InOrder, Good, Bad
<1> QED
  BY <1>3, <1>4, <1>5

\* The inductive invariant.
LEMMA ControlInductive == Spec => [](IInv /\ CInv)
<1>1. Init => IInv /\ CInv
  BY InitIInv, InitCInv
<1>2. IInv /\ CInv /\ [Next]_vars => (IInv /\ CInv)'
  BY NextIInv, NextCInv
<1> QED
  BY <1>1, <1>2, PTL DEF Spec

\* Whatever clients send, however it is cut in reads and writes, and whoever times
\* out: between two passes of the loop an open connection is watched for writing
\* exactly while it has an answer to write, otherwise for reading, and it is in the
\* list of httpd_handle_event.  So none is forgotten by select.
THEOREM ConnectionsWatched == Spec => []WatchedRightly
BY ControlInductive, CInvProperties, PTL

\* When the handler of a command is executed its connection is there, unless the
\* client shut down its side or the event was made twice: no timeout, no crowd and no
\* other answer closes a connection while a command of it waits in the queue.
THEOREM CommandsHaveConnections == Spec => []EventsHaveConnections
BY ControlInductive, CInvProperties, PTL

\* The answers of a connection are those to its own requests, each one the right one,
\* in the order of the requests and one for each, however many are pipelined and
\* whatever the other connections do, unless an event of it was made twice.
THEOREM AnsweredInOrder == Spec => []AnswersInOrder
BY ControlInductive, CInvProperties, PTL
=============================================================================
