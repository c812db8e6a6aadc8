--------------------------- MODULE Signalling_proofs ---------------------------
(***************************************************************************)
(* What is confirmed was received, for every number of sessions and of     *)
(* messages, whatever is lost, refused or overtaken.  Beside the messages  *)
(* on their way, the argument needs that the auctioneer meets a session    *)
(* for the first time only once: the list of stored sessions then holds    *)
(* it once, and the one that is deleted for want of room is not stored     *)
(* twice.                                                                  *)
(***************************************************************************)
EXTENDS Signalling, SequenceTheorems, TLAPS

SessionState == {"new", "asked", "early", "active", "down", "installed", "stored", "deleted"}
SessionType == [state : SessionState, next : Nat, sent : SUBSET Nat, pending : SUBSET Nat]
MessageType ==
  [to : {"agent", "server"}, type : {"check", "create", "install", "interaction", "remove"},
   s : Sessions, seq : Nat, ack : Nat]

SignallingType ==
  /\ agent \in [Sessions -> SessionType] /\ server \in [Sessions -> SessionType]
  /\ received \in [{"agent", "server"} -> [Sessions -> SUBSET Nat]]
  /\ net \subseteq MessageType
  /\ db \in Seq(Sessions \cup {Nothing}) /\ done \in Seq(Sessions)

\* A confirmation on its way is of a message that was taken up.
ConfirmationsTrue ==
  \A m \in net : m.ack > 0 =>
    /\ m.to = "agent" => m.ack - 1 \in received["server"][m.s]
    /\ m.to = "server" => m.ack - 1 \in received["agent"][m.s]

\* What is not held any more was taken up.
Settled(x, taken) == x.sent \ x.pending \subseteq taken
BooksSettled ==
  \A s \in Sessions : /\ Settled(agent[s], received["server"][s])
                      /\ Settled(server[s], received["agent"][s])

\* The state of a session says where the auctioneer has it, and it is stored once.
Registered ==
  \A s \in Sessions : /\ server[s].state = "installed" <=> Installed(s)
                      /\ server[s].state = "stored" <=> Stored(s)
StoredOnce == \A i, j \in DOMAIN done : done[i] = done[j] => i = j

\* A session is asked for once: as long as it was not handed over there is one
\* message for it at most, and the auctioneer does not know it.
Opening(m) == m.type \in {"check", "create"}
AskedOnce ==
  /\ \A m \in net : m.type = "check" => m = CheckSession(m.s)
  /\ \A m \in net : m.type = "create" => m = CreateSession(m.s)
  /\ \A m \in net : Opening(m) => server[m.s].state = "new" /\ agent[m.s].state \in {"active", "down"}
  /\ \A s \in Sessions : ~ (CheckSession(s) \in net /\ CreateSession(s) \in net)
  /\ \A s \in Sessions : agent[s].state \in {"new", "asked", "early"} => server[s].state = "new"

IInv ==
  /\ SignallingType
  /\ ConfirmationsTrue
  /\ BooksSettled
  /\ Registered
  /\ StoredOnce
  /\ AskedOnce

-----------------------------------------------------------------------------
(***************************************************************************)
(* Sessions and messages.                                                  *)
(***************************************************************************)

\* getNextMessageId changes neither what is sent nor what is held.
LEMMA NumberSession ==
  ASSUME NEW x \in SessionType
  PROVE  /\ Number(x) \in SessionType
         /\ Number(x).sent = x.sent /\ Number(x).pending = x.pending /\ Number(x).state = x.state
BY DEF Number, SessionType

\* A message that is held is not settled.
LEMMA HoldSession ==
  ASSUME NEW x \in SessionType
  PROVE  /\ Hold(x) \in SessionType /\ Hold(x).state = x.state
         /\ Hold(x).sent \ Hold(x).pending \subseteq x.sent \ x.pending
<1>1. /\ Hold(x).next = x.next + 1 /\ Hold(x).state = x.state
      /\ Hold(x).sent = x.sent \cup {x.next} /\ Hold(x).pending = x.pending \cup {x.next}
  BY DEF Hold, Number, SessionType
<1>2. x.next + 1 \in Nat /\ x.sent \cup {x.next} \in SUBSET Nat /\ x.pending \cup {x.next} \in SUBSET Nat
  BY DEF SessionType
<1>3. Hold(x) = [state |-> x.state, next |-> x.next + 1,
                 sent |-> x.sent \cup {x.next}, pending |-> x.pending \cup {x.next}]
  <2>1. x = [state |-> x.state, next |-> x.next, sent |-> x.sent, pending |-> x.pending]
    BY DEF SessionType
  <2>2. Number(x) = [state |-> x.state, next |-> x.next + 1, sent |-> x.sent, pending |-> x.pending]
    BY <2>1 DEF Number
  <2>3. Hold(x) = [[Number(x) EXCEPT !.pending = @ \cup {x.next}] EXCEPT !.sent = @ \cup {x.next}]
    BY <2>2 DEF Hold
  <2>4. [Number(x) EXCEPT !.pending = @ \cup {x.next}]
        = [state |-> x.state, next |-> x.next + 1, sent |-> x.sent, pending |-> x.pending \cup {x.next}]
    BY <2>2
  <2>5. [[state |-> x.state, next |-> x.next + 1, sent |-> x.sent, pending |-> x.pending \cup {x.next}]
           EXCEPT !.sent = @ \cup {x.next}]
        = [state |-> x.state, next |-> x.next + 1,
           sent |-> x.sent \cup {x.next}, pending |-> x.pending \cup {x.next}]
    OBVIOUS
  <2> QED
    BY <2>3, <2>4, <2>5, Zenon
<1>4. Hold(x) \in SessionType
  BY <1>2, <1>3 DEF SessionType
<1> QED
  BY <1>1, <1>4

\* confirmMessage settles one message.
LEMMA ConfirmSession ==
  ASSUME NEW x \in SessionType, NEW mid
  PROVE  /\ Confirm(x, mid) \in SessionType /\ Confirm(x, mid).state = x.state
         /\ Confirm(x, mid).sent = x.sent /\ Confirm(x, mid).pending = x.pending \ {mid}
BY DEF Confirm, SessionType

\* The first session of a list without repetitions is in the rest of it no more.
LEMMA StoredAfter ==
  ASSUME done \in Seq(Sessions), StoredOnce, DoneSize \in Nat \ {0},
         NEW s \in Sessions, ~Stored(s),
         done' = Append(IF Full THEN Tail(done) ELSE done, s)
  PROVE  /\ done' \in Seq(Sessions) /\ StoredOnce'
         /\ \A x \in Sessions : Stored(x)' <=> x = s \/ (Stored(x) /\ ~(Full /\ x = Head(done)))
<1> DEFINE rest == IF Full THEN Tail(done) ELSE done
<1>1. Full => done # <<>>
  BY DEF Full
<1>2. rest \in Seq(Sessions)
  BY <1>1
<1>3. \A i, j \in DOMAIN rest : rest[i] = rest[j] => i = j
  BY <1>1 DEF StoredOnce
<1>4. \A x \in Sessions : (\E i \in DOMAIN rest : rest[i] = x) <=> Stored(x) /\ ~(Full /\ x = Head(done))
  <2> TAKE x \in Sessions
  <2>1. CASE Full
    <3>1. Len(done) > 0 /\ Head(done) = done[1] /\ DOMAIN done = 1 .. Len(done)
      BY <1>1, <2>1
    <3>2. /\ DOMAIN Tail(done) = 1 .. Len(done) - 1
          /\ \A i \in 1 .. Len(done) - 1 : Tail(done)[i] = done[i + 1]
      BY <1>1, <2>1
    <3>3. ASSUME NEW i \in DOMAIN Tail(done), Tail(done)[i] = x
          PROVE  Stored(x) /\ x # Head(done)
      BY <3>1, <3>2, <3>3 DEF Stored, StoredOnce
    <3>4. ASSUME Stored(x), x # Head(done)
          PROVE  \E i \in DOMAIN Tail(done) : Tail(done)[i] = x
      <4>1. PICK j \in 1 .. Len(done) : done[j] = x
        BY <3>1, <3>4 DEF Stored
      <4>2. j - 1 \in 1 .. Len(done) - 1 /\ Tail(done)[j - 1] = done[j]
        BY <3>1, <3>2, <3>4, <4>1
      <4> QED
        BY <3>2, <4>1, <4>2
    <3> QED
      BY <2>1, <3>3, <3>4
  <2>2. CASE ~Full
    BY <2>2 DEF Stored
  <2> QED
    BY <2>1, <2>2
<1>5. \A i \in DOMAIN rest : rest[i] # s
  BY <1>2, <1>4
<1>6. done' = Append(rest, s)
  OBVIOUS
<1> HIDE DEF rest
<1>7. /\ done' \in Seq(Sessions) /\ DOMAIN done' = 1 .. Len(rest) + 1 /\ DOMAIN rest = 1 .. Len(rest)
      /\ \A i \in 1 .. Len(rest) : done'[i] = rest[i]
      /\ done'[Len(rest) + 1] = s /\ Len(rest) \in Nat
  <2>1. /\ Append(rest, s) \in Seq(Sessions) /\ Len(Append(rest, s)) = Len(rest) + 1
        /\ \A i \in 1 .. Len(rest) : Append(rest, s)[i] = rest[i]
        /\ Append(rest, s)[Len(rest) + 1] = s
    BY <1>2, AppendProperties
  <2>2. Len(rest) \in Nat /\ DOMAIN rest = 1 .. Len(rest)
    BY <1>2
  <2>3. DOMAIN Append(rest, s) = 1 .. Len(rest) + 1
    BY <2>1
  <2> QED
    BY <1>6, <2>1, <2>2, <2>3
<1>8. StoredOnce'
  <2>1. SUFFICES ASSUME NEW i \in DOMAIN done', NEW j \in DOMAIN done', done'[i] = done'[j]
                 PROVE  i = j
    BY DEF StoredOnce
  <2>2. CASE i \in DOMAIN rest /\ j \in DOMAIN rest
    BY <1>3, <1>7, <2>1, <2>2
  <2>3. CASE i \notin DOMAIN rest /\ j \in DOMAIN rest
    BY <1>5, <1>7, <2>1, <2>3
  <2>4. CASE i \in DOMAIN rest /\ j \notin DOMAIN rest
    BY <1>5, <1>7, <2>1, <2>4
  <2>5. CASE i \notin DOMAIN rest /\ j \notin DOMAIN rest
    BY <1>7, <2>5
  <2> QED
    BY <2>2, <2>3, <2>4, <2>5
<1>9. \A x \in Sessions : Stored(x)' <=> x = s \/ \E i \in DOMAIN rest : rest[i] = x
  BY <1>7 DEF Stored
<1> QED
  BY <1>4, <1>7, <1>8, <1>9

-----------------------------------------------------------------------------
(***************************************************************************)
(* What the steps have in common: a step changes one session of a side,    *)
(* may take up a message, and sends messages N.                            *)
(***************************************************************************)

Grows ==
  /\ received' \in [{"agent", "server"} -> [Sessions -> SUBSET Nat]]
  /\ \A side \in {"agent", "server"}, s \in Sessions : received[side][s] \subseteq received'[side][s]

SoundMessage(m) ==
  /\ m \in MessageType
  /\ m.ack > 0 /\ m.to = "agent" => m.ack - 1 \in received'["server"][m.s]
  /\ m.ack > 0 /\ m.to = "server" => m.ack - 1 \in received'["agent"][m.s]

Sends(N) == (\A m \in N : SoundMessage(m)) /\ net' \subseteq net \cup N

AgentMoves(s, x) == x \in SessionType /\ agent' = [agent EXCEPT ![s] = x]
ServerMoves(s, x) == x \in SessionType /\ server' = [server EXCEPT ![s] = x]

\* Where nothing is given back, what is known stays true.
LEMMA BooksStay ==
  ASSUME IInv, Grows, NEW N, Sends(N),
         agent' \in [Sessions -> SessionType], server' \in [Sessions -> SessionType],
         \A s \in Sessions : /\ Settled(agent'[s], received'["server"][s])
                             /\ Settled(server'[s], received'["agent"][s])
  PROVE  ConfirmationsTrue' /\ BooksSettled' /\ net' \subseteq MessageType
<1>1. BooksSettled'
  BY DEF BooksSettled, Settled
<1>2. \A m \in net : SoundMessage(m)
  BY DEF IInv, SignallingType, ConfirmationsTrue, SoundMessage, Grows, MessageType
<1>3. \A m \in net' : SoundMessage(m)
  BY <1>2 DEF Sends
<1>4. ConfirmationsTrue'
  BY <1>3 DEF ConfirmationsTrue, SoundMessage
<1> QED
  BY <1>1, <1>3, <1>4 DEF SoundMessage

\* One session of the agent moves on.
LEMMA AgentBooks ==
  ASSUME IInv, Grows, NEW N, Sends(N), NEW s \in Sessions, NEW x, AgentMoves(s, x),
         Settled(x, received'["server"][s]), server' = server
  PROVE  /\ agent' \in [Sessions -> SessionType] /\ net' \subseteq MessageType
         /\ ConfirmationsTrue' /\ BooksSettled'
<1>1. agent' \in [Sessions -> SessionType]
  BY DEF IInv, SignallingType, AgentMoves
<1>2. server' \in [Sessions -> SessionType]
  BY DEF IInv, SignallingType
<1>3. \A r \in Sessions : Settled(agent'[r], received'["server"][r])
  BY DEF IInv, SignallingType, AgentMoves, BooksSettled, Settled, Grows
<1>4. \A r \in Sessions : Settled(server'[r], received'["agent"][r])
  BY DEF IInv, BooksSettled, Settled, Grows
<1> QED
  BY <1>1, <1>2, <1>3, <1>4, BooksStay

\* One session of the auctioneer moves on.
LEMMA ServerBooks ==
  ASSUME IInv, Grows, NEW N, Sends(N), NEW s \in Sessions, NEW x, ServerMoves(s, x),
         Settled(x, received'["agent"][s]), agent' = agent
  PROVE  /\ server' \in [Sessions -> SessionType] /\ net' \subseteq MessageType
         /\ ConfirmationsTrue' /\ BooksSettled'
<1>1. server' \in [Sessions -> SessionType]
  BY DEF IInv, SignallingType, ServerMoves
<1>2. agent' \in [Sessions -> SessionType]
  BY DEF IInv, SignallingType
<1>3. \A r \in Sessions : Settled(server'[r], received'["agent"][r])
  BY DEF IInv, SignallingType, ServerMoves, BooksSettled, Settled, Grows
<1>4. \A r \in Sessions : Settled(agent'[r], received'["server"][r])
  BY DEF IInv, BooksSettled, Settled, Grows
<1> QED
  BY <1>1, <1>2, <1>3, <1>4, BooksStay

\* A step without a message that opens a session, in which no session changes its
\* state and the tables stay, leaves the rest as it is.
LEMMA RestStays ==
  ASSUME IInv, NEW N, Sends(N), \A m \in N : ~Opening(m),
         db' = db, done' = done,
         \A s \in Sessions : agent'[s].state = agent[s].state /\ server'[s].state = server[s].state
  PROVE  Registered' /\ StoredOnce' /\ AskedOnce'
<1>1. Registered' /\ StoredOnce'
  BY DEF IInv, Registered, StoredOnce, Installed, Stored
<1>2. \A m \in net' : Opening(m) => m \in net /\ m.s \in Sessions
  BY DEF Sends, IInv, SignallingType, MessageType
<1>3. \A s \in Sessions : /\ CheckSession(s) \in net' => CheckSession(s) \in net
                          /\ CreateSession(s) \in net' => CreateSession(s) \in net
  BY <1>2 DEF CheckSession, CreateSession, Message, Opening
<1>4. AskedOnce'
  BY <1>2, <1>3 DEF IInv, AskedOnce, Opening
<1> QED
  BY <1>1, <1>4

\* Nothing is taken up.
LEMMA NothingTaken ==
  ASSUME IInv, received' = received
  PROVE  Grows
BY DEF IInv, SignallingType, Grows

\* A message is taken up.
LEMMA MessageTaken ==
  ASSUME IInv, NEW side \in {"agent", "server"}, NEW s \in Sessions, NEW n \in Nat, Takes(side, s, n)
  PROVE  Grows /\ n \in received'[side][s]
BY DEF IInv, SignallingType, Grows, Takes

\* A confirmation of what was taken up settles its message.
LEMMA ConfirmSettles ==
  ASSUME NEW x \in SessionType, NEW taken, Settled(x, taken), NEW mid, mid \in taken \/ mid = -1
  PROVE  Settled(Confirm(x, mid), taken)
BY ConfirmSession DEF Settled, SessionType

Other(side) == IF side = "agent" THEN "server" ELSE "agent"

\* An interaction that confirms nothing, or a message that was taken up.
LEMMA BiddingIsSound ==
  ASSUME NEW to \in {"agent", "server"}, NEW s \in Sessions, NEW seq \in Nat, NEW ack \in Nat,
         ack > 0 => ack - 1 \in received'[Other(to)][s]
  PROVE  SoundMessage(Bidding(to, s, seq, ack)) /\ ~Opening(Bidding(to, s, seq, ack))
<1> DEFINE n == Bidding(to, s, seq, ack)
<1>1. n = [to |-> to, type |-> "interaction", s |-> s, seq |-> seq, ack |-> ack]
  BY DEF Bidding, Message
<1>2. n \in MessageType
  <2>1. [to |-> to, type |-> "interaction", s |-> s, seq |-> seq, ack |-> ack] \in MessageType
    BY DEF MessageType
  <2> QED
    BY <1>1, <2>1
<1>3. n.to = to /\ n.type = "interaction" /\ n.s = s /\ n.ack = ack
  BY <1>1
<1> HIDE DEF n
<1>4. SoundMessage(n)
  BY <1>2, <1>3 DEF SoundMessage, Other
<1>5. ~Opening(n)
  BY <1>3 DEF Opening
<1> QED
  BY <1>4, <1>5 DEF n

-----------------------------------------------------------------------------
(***************************************************************************)
(* Steps in the middle of a session.                                       *)
(***************************************************************************)

LEMMA HandleResponseIInv ==
  ASSUME IInv, NEW m \in net, HandleResponse(m)
  PROVE  IInv'
<1> DEFINE x == Number(Confirm(agent[m.s], m.ack - 1))
<1>1. m \in MessageType /\ m.s \in Sessions /\ agent[m.s] \in SessionType
  BY DEF IInv, SignallingType, MessageType
<1>2. Grows /\ m.seq \in received'["agent"][m.s]
  BY <1>1, MessageTaken DEF HandleResponse, MessageType
<1>3. SoundMessage(Reply(m)) /\ ~Opening(Reply(m))
  <2>1. agent[m.s].next \in Nat /\ m.seq + 1 \in Nat /\ (m.seq + 1) - 1 = m.seq
    BY <1>1 DEF SessionType, MessageType
  <2> QED
    BY <1>1, <1>2, <2>1, BiddingIsSound DEF Reply, Other
<1>4. Sends({Reply(m)})
  BY <1>3 DEF Sends, HandleResponse
<1>5. x \in SessionType /\ x.state = agent[m.s].state /\ Settled(x, received'["server"][m.s])
  <2>1. /\ Confirm(agent[m.s], m.ack - 1) \in SessionType
        /\ Confirm(agent[m.s], m.ack - 1).state = agent[m.s].state
    BY <1>1, ConfirmSession
  <2>2. Settled(agent[m.s], received["server"][m.s]) /\ (m.ack > 0 => m.ack - 1 \in received["server"][m.s])
    BY <1>1 DEF IInv, BooksSettled, ConfirmationsTrue, HandleResponse
  <2>3. m.ack - 1 \in received["server"][m.s] \/ m.ack - 1 = -1
    BY <1>1, <2>2 DEF MessageType
  <2>4. Settled(Confirm(agent[m.s], m.ack - 1), received["server"][m.s])
    BY <1>1, <2>2, <2>3, ConfirmSettles
  <2> QED
    BY <1>1, <1>2, <2>1, <2>4, NumberSession DEF Settled, Grows
<1>6. AgentMoves(m.s, x)
  BY <1>5 DEF AgentMoves, HandleResponse
<1>7. /\ agent' \in [Sessions -> SessionType] /\ net' \subseteq MessageType
      /\ ConfirmationsTrue' /\ BooksSettled'
  BY <1>1, <1>2, <1>4, <1>5, <1>6, AgentBooks DEF HandleResponse
<1>8. \A s \in Sessions : agent'[s].state = agent[s].state /\ server'[s].state = server[s].state
  BY <1>5, <1>6 DEF AgentMoves, HandleResponse, IInv, SignallingType
<1>9. Registered' /\ StoredOnce' /\ AskedOnce'
  BY <1>3, <1>4, <1>8, RestStays DEF HandleResponse
<1> QED
  BY <1>2, <1>7, <1>9 DEF IInv, SignallingType, HandleResponse, Grows

LEMMA RefuseResponseIInv ==
  ASSUME IInv, NEW m \in net, RefuseResponse(m) \/ AgentConfirmed(m)
  PROVE  IInv'
<1> DEFINE x == Confirm(agent[m.s], m.ack - 1)
<1> USE DEF RefuseResponse, AgentConfirmed
<1>1. m \in MessageType /\ m.s \in Sessions /\ agent[m.s] \in SessionType
  BY DEF IInv, SignallingType, MessageType
<1>2. Grows
  BY NothingTaken
<1>3. Sends({})
  BY DEF Sends
<1>4. x \in SessionType /\ x.state = agent[m.s].state /\ Settled(x, received'["server"][m.s])
  <2>1. Settled(agent[m.s], received["server"][m.s]) /\ (m.ack > 0 => m.ack - 1 \in received["server"][m.s])
    BY <1>1 DEF IInv, BooksSettled, ConfirmationsTrue
  <2>2. m.ack - 1 \in received["server"][m.s] \/ m.ack - 1 = -1
    BY <1>1, <2>1 DEF MessageType
  <2> QED
    BY <1>1, <2>1, <2>2, ConfirmSettles, ConfirmSession
<1>5. AgentMoves(m.s, x)
  BY <1>4 DEF AgentMoves
<1>6. /\ agent' \in [Sessions -> SessionType] /\ net' \subseteq MessageType
      /\ ConfirmationsTrue' /\ BooksSettled'
  BY <1>1, <1>2, <1>3, <1>4, <1>5, AgentBooks
<1>7. \A s \in Sessions : agent'[s].state = agent[s].state /\ server'[s].state = server[s].state
  BY <1>4, <1>5 DEF AgentMoves, IInv, SignallingType
<1>8. Registered' /\ StoredOnce' /\ AskedOnce'
  BY <1>3, <1>7, RestStays
<1> QED
  BY <1>2, <1>6, <1>8 DEF IInv, SignallingType, Grows

LEMMA TransmitBidIInv ==
  ASSUME IInv, NEW s \in Sessions, TransmitBid(s)
  PROVE  IInv'
<1> DEFINE n == Bidding("server", s, agent[s].next, 0)
<1> DEFINE x == Hold(agent[s])
<1> USE DEF TransmitBid
<1>1. agent[s] \in SessionType /\ Settled(agent[s], received["server"][s])
  BY DEF IInv, SignallingType, BooksSettled
<1>2. Grows
  BY NothingTaken
<1>3. SoundMessage(n) /\ ~Opening(n)
  <2>1. agent[s].next \in Nat
    BY <1>1 DEF SessionType
  <2> QED
    BY <2>1, BiddingIsSound
<1>4. Sends({n})
  BY <1>3 DEF Sends
<1>5. x \in SessionType /\ x.state = agent[s].state /\ Settled(x, received'["server"][s])
  BY <1>1, HoldSession DEF Settled
<1>6. AgentMoves(s, x)
  BY <1>5 DEF AgentMoves
<1>7. /\ agent' \in [Sessions -> SessionType] /\ net' \subseteq MessageType
      /\ ConfirmationsTrue' /\ BooksSettled'
  BY <1>2, <1>4, <1>5, <1>6, AgentBooks
<1>8. \A r \in Sessions : agent'[r].state = agent[r].state /\ server'[r].state = server[r].state
  BY <1>5, <1>6 DEF AgentMoves, IInv, SignallingType
<1>9. Registered' /\ StoredOnce' /\ AskedOnce'
  BY <1>3, <1>4, <1>8, RestStays
<1> QED
  BY <1>2, <1>7, <1>9 DEF IInv, SignallingType, Grows

LEMMA TakeAllocationIInv ==
  ASSUME IInv, NEW m \in net, TakeAllocation(m)
  PROVE  IInv'
<1> USE DEF TakeAllocation
<1>1. m \in MessageType /\ m.s \in Sessions /\ agent[m.s] \in SessionType
  BY DEF IInv, SignallingType, MessageType
<1>2. Grows /\ m.seq \in received'["agent"][m.s]
  BY <1>1, MessageTaken DEF MessageType
<1>3. SoundMessage(Reply(m)) /\ ~Opening(Reply(m))
  <2>1. agent[m.s].next \in Nat /\ m.seq + 1 \in Nat /\ (m.seq + 1) - 1 = m.seq
    BY <1>1 DEF SessionType, MessageType
  <2> QED
    BY <1>1, <1>2, <2>1, BiddingIsSound DEF Reply, Other
<1>4. Sends({Reply(m)})
  BY <1>3 DEF Sends
<1>5. PICK x \in {Number(agent[m.s]), agent[m.s]} : agent' = [agent EXCEPT ![m.s] = x]
  <2>1. agent = [agent EXCEPT ![m.s] = agent[m.s]]
    BY DEF IInv, SignallingType
  <2> QED
    BY <2>1
<1>6. x \in SessionType /\ x.state = agent[m.s].state /\ Settled(x, received'["server"][m.s])
  BY <1>1, <1>2, NumberSession DEF Settled, Grows, IInv, BooksSettled
<1>7. AgentMoves(m.s, x)
  BY <1>5, <1>6 DEF AgentMoves
<1>8. /\ agent' \in [Sessions -> SessionType] /\ net' \subseteq MessageType
      /\ ConfirmationsTrue' /\ BooksSettled'
  BY <1>1, <1>2, <1>4, <1>6, <1>7, AgentBooks
<1>9. \A s \in Sessions : agent'[s].state = agent[s].state /\ server'[s].state = server[s].state
  BY <1>6, <1>7 DEF AgentMoves, IInv, SignallingType
<1>10. Registered' /\ StoredOnce' /\ AskedOnce'
  BY <1>3, <1>4, <1>9, RestStays
<1> QED
  BY <1>2, <1>8, <1>10 DEF IInv, SignallingType, Grows

LEMMA ServerConfirmedIInv ==
  ASSUME IInv, NEW m \in net, ServerConfirmed(m)
  PROVE  IInv'
<1> DEFINE x == Confirm(server[m.s], m.ack - 1)
<1> USE DEF ServerConfirmed
<1>1. m \in MessageType /\ m.s \in Sessions /\ server[m.s] \in SessionType
  BY DEF IInv, SignallingType, MessageType
<1>2. Grows
  BY NothingTaken
<1>3. Sends({})
  BY DEF Sends
<1>4. x \in SessionType /\ x.state = server[m.s].state /\ Settled(x, received'["agent"][m.s])
  <2>1. Settled(server[m.s], received["agent"][m.s]) /\ m.ack - 1 \in received["agent"][m.s]
    BY <1>1 DEF IInv, BooksSettled, ConfirmationsTrue
  <2> QED
    BY <1>1, <2>1, ConfirmSettles, ConfirmSession
<1>5. ServerMoves(m.s, x)
  BY <1>4 DEF ServerMoves
<1>6. /\ server' \in [Sessions -> SessionType] /\ net' \subseteq MessageType
      /\ ConfirmationsTrue' /\ BooksSettled'
  BY <1>1, <1>2, <1>3, <1>4, <1>5, ServerBooks
<1>7. \A s \in Sessions : agent'[s].state = agent[s].state /\ server'[s].state = server[s].state
  BY <1>4, <1>5 DEF ServerMoves, IInv, SignallingType
<1>8. Registered' /\ StoredOnce' /\ AskedOnce'
  BY <1>3, <1>7, RestStays
<1> QED
  BY <1>2, <1>6, <1>8 DEF IInv, SignallingType, Grows

LEMMA TakeBidIInv ==
  ASSUME IInv, NEW m \in net, TakeBid(m)
  PROVE  IInv'
<1> DEFINE n == Bidding("agent", m.s, server[m.s].next, m.seq + 1)
<1> DEFINE x == Number(server[m.s])
<1> USE DEF TakeBid
<1>1. m \in MessageType /\ m.s \in Sessions /\ server[m.s] \in SessionType
  BY DEF IInv, SignallingType, MessageType
<1>2. Grows /\ m.seq \in received'["server"][m.s]
  BY <1>1, MessageTaken DEF MessageType
<1>3. SoundMessage(n) /\ ~Opening(n)
  <2>1. server[m.s].next \in Nat /\ m.seq + 1 \in Nat /\ (m.seq + 1) - 1 = m.seq
    BY <1>1 DEF SessionType, MessageType
  <2> QED
    BY <1>1, <1>2, <2>1, BiddingIsSound DEF Other
<1>4. Sends({n})
  BY <1>3 DEF Sends
<1>5. x \in SessionType /\ x.state = server[m.s].state /\ Settled(x, received'["agent"][m.s])
  BY <1>1, <1>2, NumberSession DEF Settled, Grows, IInv, BooksSettled
<1>6. ServerMoves(m.s, x)
  BY <1>5 DEF ServerMoves
<1>7. /\ server' \in [Sessions -> SessionType] /\ net' \subseteq MessageType
      /\ ConfirmationsTrue' /\ BooksSettled'
  BY <1>1, <1>2, <1>4, <1>5, <1>6, ServerBooks
<1>8. \A s \in Sessions : agent'[s].state = agent[s].state /\ server'[s].state = server[s].state
  BY <1>5, <1>6 DEF ServerMoves, IInv, SignallingType
<1>9. Registered' /\ StoredOnce' /\ AskedOnce'
  BY <1>3, <1>4, <1>8, RestStays
<1> QED
  BY <1>2, <1>7, <1>9 DEF IInv, SignallingType, Grows

LEMMA TransmitAllocationIInv ==
  ASSUME IInv, NEW s \in Sessions, TransmitAllocation(s)
  PROVE  IInv'
<1> DEFINE n == Bidding("agent", s, server[s].next, 0)
<1> DEFINE x == Hold(server[s])
<1> USE DEF TransmitAllocation
<1>1. server[s] \in SessionType /\ Settled(server[s], received["agent"][s])
  BY DEF IInv, SignallingType, BooksSettled
<1>2. Grows
  BY NothingTaken
<1>3. SoundMessage(n) /\ ~Opening(n)
  <2>1. server[s].next \in Nat
    BY <1>1 DEF SessionType
  <2> QED
    BY <2>1, BiddingIsSound
<1>4. Sends({n})
  BY <1>3 DEF Sends
<1>5. x \in SessionType /\ x.state = server[s].state /\ Settled(x, received'["agent"][s])
  BY <1>1, HoldSession DEF Settled
<1>6. ServerMoves(s, x)
  BY <1>5 DEF ServerMoves
<1>7. /\ server' \in [Sessions -> SessionType] /\ net' \subseteq MessageType
      /\ ConfirmationsTrue' /\ BooksSettled'
  BY <1>2, <1>4, <1>5, <1>6, ServerBooks
<1>8. \A r \in Sessions : agent'[r].state = agent[r].state /\ server'[r].state = server[r].state
  BY <1>5, <1>6 DEF ServerMoves, IInv, SignallingType
<1>9. Registered' /\ StoredOnce' /\ AskedOnce'
  BY <1>3, <1>4, <1>8, RestStays
<1> QED
  BY <1>2, <1>7, <1>9 DEF IInv, SignallingType, Grows

\* A message that is lost, or of which nothing is made.
LEMMA DropIInv ==
  ASSUME IInv, net' \subseteq net, UNCHANGED <<agent, server, db, done, received>>
  PROVE  IInv'
<1>1. Grows /\ Sends({})
  BY NothingTaken DEF Sends
<1>2. ConfirmationsTrue' /\ BooksSettled' /\ net' \subseteq MessageType
  BY <1>1, BooksStay DEF IInv, SignallingType, BooksSettled
<1>3. Registered' /\ StoredOnce' /\ AskedOnce'
  BY <1>1, RestStays
<1> QED
  BY <1>2, <1>3 DEF IInv, SignallingType

-----------------------------------------------------------------------------
(***************************************************************************)
(* The beginning and the end of a session.                                 *)
(***************************************************************************)

\* The messages without numbers confirm nothing.
LEMMA PlainMessages ==
  ASSUME NEW s \in Sessions
  PROVE  /\ SoundMessage(CheckSession(s)) /\ SoundMessage(CreateSession(s))
         /\ SoundMessage(TeardownSession(s)) /\ ~Opening(TeardownSession(s))
         /\ CheckSession(s).s = s /\ CreateSession(s).s = s
         /\ CheckSession(s).type = "check" /\ CreateSession(s).type = "create"
         /\ TeardownSession(s).type = "remove"
<1>1. /\ CheckSession(s) = [to |-> "server", type |-> "check", s |-> s, seq |-> 0, ack |-> 0]
      /\ CreateSession(s) = [to |-> "server", type |-> "create", s |-> s, seq |-> 0, ack |-> 0]
      /\ TeardownSession(s) = [to |-> "server", type |-> "remove", s |-> s, seq |-> 0, ack |-> 0]
  BY DEF CheckSession, CreateSession, TeardownSession, Message
<1>2. /\ [to |-> "server", type |-> "check", s |-> s, seq |-> 0, ack |-> 0] \in MessageType
      /\ [to |-> "server", type |-> "create", s |-> s, seq |-> 0, ack |-> 0] \in MessageType
      /\ [to |-> "server", type |-> "remove", s |-> s, seq |-> 0, ack |-> 0] \in MessageType
  BY DEF MessageType
<1> QED
  BY <1>1, <1>2 DEF SoundMessage, Opening

\* A new session with its first message held.
LEMMA NewSession ==
  ASSUME NEW state \in SessionState, NEW taken
  PROVE  /\ [Hold(New) EXCEPT !.state = state] \in SessionType
         /\ [Hold(New) EXCEPT !.state = state].state = state
         /\ Settled([Hold(New) EXCEPT !.state = state], taken)
<1>1. New \in SessionType /\ New.sent \ New.pending = {}
  BY DEF New, SessionType, SessionState
<1>2. Hold(New) \in SessionType /\ Hold(New).sent \ Hold(New).pending = {}
  BY <1>1, HoldSession
<1> QED
  BY <1>2 DEF SessionType, Settled

\* Another state of a session says nothing of its messages.
LEMMA StateOnly ==
  ASSUME NEW x \in SessionType, NEW state \in SessionState
  PROVE  /\ [x EXCEPT !.state = state] \in SessionType
         /\ [x EXCEPT !.state = state].state = state
         /\ [x EXCEPT !.state = state].sent = x.sent /\ [x EXCEPT !.state = state].pending = x.pending
BY DEF SessionType

LEMMA AskIInv ==
  ASSUME IInv, NEW s \in Sessions, Ask(s)
  PROVE  IInv'
<1> DEFINE x == [Hold(New) EXCEPT !.state = "asked"]
<1> USE DEF Ask
<1>1. Grows /\ Sends({})
  BY NothingTaken DEF Sends
<1>2. x \in SessionType /\ x.state = "asked" /\ Settled(x, received'["server"][s])
  BY NewSession DEF SessionState
<1>3. AgentMoves(s, x)
  BY <1>2 DEF AgentMoves
<1>4. /\ agent' \in [Sessions -> SessionType] /\ net' \subseteq MessageType
      /\ ConfirmationsTrue' /\ BooksSettled'
  BY <1>1, <1>2, <1>3, AgentBooks
<1>5. Registered' /\ StoredOnce'
  BY DEF IInv, Registered, StoredOnce, Installed, Stored
<1>6. agent'[s].state = "asked" /\ \A r \in Sessions \ {s} : agent'[r] = agent[r]
  BY <1>2, <1>3 DEF AgentMoves, IInv, SignallingType
<1>7. \A m \in net : m.s \in Sessions
  BY DEF IInv, SignallingType, MessageType
<1>8. AskedOnce'
  BY <1>6, <1>7 DEF IInv, AskedOnce, Opening
<1> QED
  BY <1>1, <1>4, <1>5, <1>8 DEF IInv, SignallingType, Grows

LEMMA ConfigureIInv ==
  ASSUME IInv, NEW s \in Sessions, Configure(s)
  PROVE  IInv'
<1> DEFINE state == IF agent[s].state = "asked" THEN "active" ELSE "down"
<1> DEFINE x == [agent[s] EXCEPT !.state = state]
<1>0. agent[s] \in SessionType /\ Settled(agent[s], received["server"][s]) /\ agent[s].state \in {"asked", "early"}
  BY DEF IInv, SignallingType, BooksSettled, Configure
<1>1. Grows
  BY NothingTaken DEF Configure
<1>2. Sends({CheckSession(s)})
  BY PlainMessages DEF Sends, Configure
<1>3. x \in SessionType /\ x.state = state /\ Settled(x, received'["server"][s])
  <2>1. state \in SessionState
    BY DEF SessionState
  <2>2. /\ x \in SessionType /\ x.state = state
        /\ x.sent = agent[s].sent /\ x.pending = agent[s].pending
    BY <1>0, <2>1, StateOnly
  <2>3. received' = received
    BY DEF Configure
  <2> QED
    BY <1>0, <2>2, <2>3 DEF Settled
<1>4. AgentMoves(s, x)
  BY <1>3 DEF AgentMoves, Configure
<1>5. /\ agent' \in [Sessions -> SessionType] /\ net' \subseteq MessageType
      /\ ConfirmationsTrue' /\ BooksSettled'
  BY <1>1, <1>2, <1>3, <1>4, AgentBooks DEF Configure
<1>6. Registered' /\ StoredOnce'
  BY DEF IInv, Registered, StoredOnce, Installed, Stored, Configure
<1>7. agent'[s].state \in {"active", "down"} /\ \A r \in Sessions \ {s} : agent'[r] = agent[r]
  BY <1>3, <1>4 DEF AgentMoves, IInv, SignallingType
<1>8. net' = net \cup {CheckSession(s)} /\ server' = server
  BY DEF Configure
<1>9. \A m \in net : Opening(m) => m.s \in Sessions \ {s}
  BY <1>0 DEF IInv, AskedOnce, SignallingType, MessageType
<1>10. CreateSession(s) \notin net /\ server[s].state = "new"
  BY <1>0, <1>9, PlainMessages DEF Opening, IInv, AskedOnce
<1>11. AskedOnce'
  <2>1. \A m \in net' : (m.type = "check" => m = CheckSession(m.s)) /\ (m.type = "create" => m = CreateSession(m.s))
    BY <1>8, PlainMessages DEF IInv, AskedOnce
  <2>2. \A m \in net' : Opening(m) => server'[m.s].state = "new" /\ agent'[m.s].state \in {"active", "down"}
    BY <1>7, <1>8, <1>9, <1>10, PlainMessages DEF IInv, AskedOnce
  <2>3. \A r \in Sessions : CreateSession(r) \in net' => CreateSession(r) \in net
    BY <1>8, PlainMessages
  <2>4. \A r \in Sessions : ~(CheckSession(r) \in net' /\ CreateSession(r) \in net')
    <3>1. SUFFICES ASSUME NEW r \in Sessions, CheckSession(r) \in net', CreateSession(r) \in net'
                   PROVE  FALSE
      OBVIOUS
    <3>2. CreateSession(r) \in net /\ r # s
      BY <2>3, <1>10, <3>1
    <3>3. CheckSession(r) # CheckSession(s)
      BY <3>2, PlainMessages
    <3> QED
      BY <1>8, <3>1, <3>2, <3>3 DEF IInv, AskedOnce
  <2>5. \A r \in Sessions : agent'[r].state \in {"new", "asked", "early"} => server'[r].state = "new"
    BY <1>7, <1>8 DEF IInv, AskedOnce
  <2> QED
    BY <2>1, <2>2, <2>4, <2>5 DEF AskedOnce
<1> QED
  BY <1>1, <1>5, <1>6, <1>11 DEF IInv, SignallingType, Grows, Configure

LEMMA TeardownIInv ==
  ASSUME IInv, NEW s \in Sessions, Teardown(s)
  PROVE  IInv'
<1>0. agent[s] \in SessionType /\ Settled(agent[s], received["server"][s])
      /\ UNCHANGED <<server, db, done, received>>
  BY DEF IInv, SignallingType, BooksSettled, Teardown
<1>1. PICK state \in {"down", "early"} :
        /\ agent' = [agent EXCEPT ![s].state = state]
        /\ net' \subseteq net \cup {TeardownSession(s)}
        /\ agent[s].state = IF state = "down" THEN "active" ELSE "asked"
  BY DEF Teardown
<1> DEFINE x == [agent[s] EXCEPT !.state = state]
<1>2. Grows
  BY <1>0, NothingTaken
<1>3. Sends({TeardownSession(s)})
  BY <1>1, PlainMessages DEF Sends
<1>4. x \in SessionType /\ x.state = state /\ Settled(x, received'["server"][s])
  <2>1. state \in SessionState
    BY DEF SessionState
  <2>2. /\ x \in SessionType /\ x.state = state
        /\ x.sent = agent[s].sent /\ x.pending = agent[s].pending
    BY <1>0, <2>1, StateOnly
  <2>3. received' = received
    BY <1>0
  <2> QED
    BY <1>0, <2>2, <2>3 DEF Settled
<1>5. AgentMoves(s, x)
  BY <1>1, <1>4 DEF AgentMoves
<1>6. /\ agent' \in [Sessions -> SessionType] /\ net' \subseteq MessageType
      /\ ConfirmationsTrue' /\ BooksSettled'
  BY <1>0, <1>2, <1>3, <1>4, <1>5, AgentBooks
<1>7. Registered' /\ StoredOnce'
  BY <1>0 DEF IInv, Registered, StoredOnce, Installed, Stored
<1>8. agent'[s].state = state /\ \A r \in Sessions \ {s} : agent'[r] = agent[r]
  BY <1>4, <1>5 DEF AgentMoves, IInv, SignallingType
<1>9. \A m \in net' : m.type \in {"check", "create"} => m \in net /\ m.s \in Sessions
  BY <1>1, PlainMessages DEF IInv, SignallingType, MessageType
<1>10. \A r \in Sessions : /\ CheckSession(r) \in net' => CheckSession(r) \in net
                           /\ CreateSession(r) \in net' => CreateSession(r) \in net
  BY <1>9, PlainMessages
<1>11. AskedOnce'
  BY <1>0, <1>1, <1>8, <1>9, <1>10 DEF IInv, AskedOnce, Opening
<1> QED
  BY <1>0, <1>2, <1>6, <1>7, <1>11 DEF IInv, SignallingType, Grows

LEMMA HandleCheckIInv ==
  ASSUME IInv, NEW m \in net, HandleCheck(m)
  PROVE  IInv'
<1>1. CASE net' = net \ {m}
  BY <1>1, DropIInv DEF HandleCheck
<1>2. CASE net' = (net \ {m}) \cup {CreateSession(m.s)}
  <2>1. m.s \in Sessions /\ m = CheckSession(m.s) /\ Opening(m)
    BY DEF IInv, SignallingType, MessageType, AskedOnce, Opening, HandleCheck
  <2>2. UNCHANGED <<agent, server, db, done, received>>
    BY DEF HandleCheck
  <2>3. Grows /\ Sends({CreateSession(m.s)})
    BY <1>2, <2>1, <2>2, NothingTaken, PlainMessages DEF Sends
  <2>4. ConfirmationsTrue' /\ BooksSettled' /\ net' \subseteq MessageType
    BY <2>2, <2>3, BooksStay DEF IInv, SignallingType, BooksSettled
  <2>5. Registered' /\ StoredOnce'
    BY <2>2 DEF IInv, Registered, StoredOnce, Installed, Stored
  <2>6. CreateSession(m.s) \notin net
    BY <2>1 DEF IInv, AskedOnce
  <2>7. \A n \in net' : n = CreateSession(m.s) \/ n \in net
    BY <1>2
  <2>8. AskedOnce'
    <3>1. \A n \in net' : (n.type = "check" => n = CheckSession(n.s)) /\ (n.type = "create" => n = CreateSession(n.s))
      BY <2>1, <2>7, PlainMessages DEF IInv, AskedOnce
    <3>2. \A n \in net' : Opening(n) => server'[n.s].state = "new" /\ agent'[n.s].state \in {"active", "down"}
      BY <2>1, <2>2, <2>7, PlainMessages DEF IInv, AskedOnce
    <3>3. \A r \in Sessions : ~(CheckSession(r) \in net' /\ CreateSession(r) \in net')
      <4>1. SUFFICES ASSUME NEW r \in Sessions, CheckSession(r) \in net', CreateSession(r) \in net'
                     PROVE  FALSE
        OBVIOUS
      <4>2. CheckSession(r) \in net /\ CheckSession(r) # m
        BY <1>2, <2>1, <4>1, PlainMessages
      <4>3. r # m.s
        BY <2>1, <4>2
      <4>4. CreateSession(r) \in net
        BY <2>1, <2>7, <4>1, <4>3, PlainMessages
      <4> QED
        BY <4>2, <4>4 DEF IInv, AskedOnce
    <3> QED
      BY <2>2, <3>1, <3>2, <3>3 DEF IInv, AskedOnce
  <2> QED
    BY <2>2, <2>3, <2>4, <2>5, <2>8 DEF IInv, SignallingType, Grows
<1> QED
  BY <1>1, <1>2 DEF HandleCheck

LEMMA HandleCreateIInv ==
  ASSUME IInv, NEW m \in net, HandleCreate(m)
  PROVE  IInv'
<1> DEFINE x == [Hold(New) EXCEPT !.state = "installed"]
<1> DEFINE n == InstallSession(m.s, 0, m.seq + 1)
<1>1. /\ m.s \in Sessions /\ m = CreateSession(m.s) /\ Opening(m) /\ m.seq = 0
      /\ server[m.s].state = "new" /\ CheckSession(m.s) \notin net
  BY DEF IInv, SignallingType, MessageType, AskedOnce, Opening, HandleCreate,
         CreateSession, Message
<1>2. /\ UNCHANGED <<agent, done>> /\ db' = Append(db, m.s)
      /\ server' = [server EXCEPT ![m.s] = x]
      /\ net' = (net \ {m}) \cup {n}
  BY DEF HandleCreate, AddSession
<1>3. Grows /\ m.seq \in received'["server"][m.s]
  <2>1. m.seq \in Nat
    BY <1>1
  <2> QED
    BY <1>1, <2>1, MessageTaken DEF HandleCreate
<1>4. n = [to |-> "agent", type |-> "install", s |-> m.s, seq |-> 0, ack |-> 1]
  BY <1>1 DEF InstallSession, Message
<1>5. SoundMessage(n) /\ n.type = "install"
  <2>1. [to |-> "agent", type |-> "install", s |-> m.s, seq |-> 0, ack |-> 1] \in MessageType
    BY <1>1 DEF MessageType
  <2>2. n \in MessageType /\ n.to = "agent" /\ n.ack = 1 /\ n.s = m.s /\ n.type = "install"
    BY <1>4, <2>1
  <2>3. n.ack - 1 = m.seq
    BY <1>1, <2>2
  <2> QED
    BY <1>3, <2>2, <2>3 DEF SoundMessage
<1>6. Sends({n})
  BY <1>2, <1>5 DEF Sends
<1>7. x \in SessionType /\ x.state = "installed" /\ Settled(x, received'["agent"][m.s])
  BY NewSession DEF SessionState
<1>8. ServerMoves(m.s, x)
  BY <1>2, <1>7 DEF ServerMoves
<1>9. /\ server' \in [Sessions -> SessionType] /\ net' \subseteq MessageType
      /\ ConfirmationsTrue' /\ BooksSettled'
  BY <1>1, <1>2, <1>3, <1>6, <1>7, <1>8, ServerBooks
<1>10. server'[m.s].state = "installed" /\ \A r \in Sessions \ {m.s} : server'[r] = server[r]
  BY <1>1, <1>2, <1>7 DEF IInv, SignallingType
<1>11. db' \in Seq(Sessions \cup {Nothing})
       /\ \A r \in Sessions : Installed(r)' <=> r = m.s \/ Installed(r)
  <2>1. db \in Seq(Sessions \cup {Nothing}) /\ m.s \in Sessions \cup {Nothing}
    BY <1>1 DEF IInv, SignallingType
  <2>2. /\ Append(db, m.s) \in Seq(Sessions \cup {Nothing}) /\ Len(Append(db, m.s)) = Len(db) + 1
        /\ \A i \in 1 .. Len(db) : Append(db, m.s)[i] = db[i]
        /\ Append(db, m.s)[Len(db) + 1] = m.s
    BY <2>1, AppendProperties
  <2>3. Len(db) \in Nat /\ DOMAIN db = 1 .. Len(db) /\ DOMAIN Append(db, m.s) = 1 .. Len(db) + 1
    BY <2>1, <2>2
  <2> QED
    BY <1>2, <2>2, <2>3 DEF Installed
<1>12. Registered' /\ StoredOnce'
  <2>1. \A r \in Sessions : Stored(r)' <=> Stored(r)
    BY <1>2 DEF Stored
  <2>2. ~Stored(m.s)
    BY <1>1 DEF IInv, Registered
  <2>3. Registered'
    BY <1>10, <1>11, <2>1, <2>2 DEF IInv, Registered
  <2> QED
    BY <1>2, <2>3 DEF IInv, StoredOnce
<1>13. \A k \in net' : Opening(k) => k \in net /\ k # m
  BY <1>2, <1>5 DEF Opening
<1>14. \A k \in net' : Opening(k) => k.s # m.s
  BY <1>1, <1>13 DEF Opening, IInv, AskedOnce
<1>15. AskedOnce'
  <2>1. \A k \in net' : (k.type = "check" => k = CheckSession(k.s)) /\ (k.type = "create" => k = CreateSession(k.s))
    BY <1>2, <1>5 DEF IInv, AskedOnce
  <2>2. \A k \in net' : Opening(k) => server'[k.s].state = "new" /\ agent'[k.s].state \in {"active", "down"}
    <3>1. SUFFICES ASSUME NEW k \in net', Opening(k)
                   PROVE  server'[k.s].state = "new" /\ agent'[k.s].state \in {"active", "down"}
      OBVIOUS
    <3>2. k \in net /\ k.s \in Sessions \ {m.s}
      BY <1>13, <1>14, <3>1 DEF IInv, SignallingType, MessageType
    <3> QED
      BY <1>2, <1>10, <3>1, <3>2 DEF IInv, AskedOnce
  <2>3. \A r \in Sessions : ~(CheckSession(r) \in net' /\ CreateSession(r) \in net')
    <3>1. \A r \in Sessions : Opening(CheckSession(r)) /\ Opening(CreateSession(r))
      BY PlainMessages DEF Opening
    <3> QED
      BY <1>13, <3>1 DEF IInv, AskedOnce
  <2>4. \A r \in Sessions : agent'[r].state \in {"new", "asked", "early"} => server'[r].state = "new"
    <3>1. agent[m.s].state \in {"active", "down"}
      BY <1>1 DEF IInv, AskedOnce
    <3> QED
      BY <1>2, <1>10, <3>1 DEF IInv, AskedOnce
  <2> QED
    BY <2>1, <2>2, <2>3, <2>4 DEF AskedOnce
<1> QED
  BY <1>2, <1>3, <1>9, <1>11, <1>12, <1>15 DEF IInv, SignallingType, Grows

LEMMA DelSessionIInv ==
  ASSUME IInv, NEW s \in Sessions, DelSession(s), net' \subseteq net, UNCHANGED <<agent, received>>
  PROVE  IInv'
<1> DEFINE to(x) == CASE x = s -> [server[x] EXCEPT !.state = "stored"]
                      [] Full /\ x = Head(done) -> [server[x] EXCEPT !.state = "deleted"]
                      [] OTHER -> server[x]
<1>1. /\ Installed(s) /\ server' = [x \in Sessions |-> to(x)]
      /\ db' = [i \in DOMAIN db |-> IF db[i] = s THEN Nothing ELSE db[i]]
      /\ done' = Append(IF Full THEN Tail(done) ELSE done, s)
  BY DEF DelSession
<1>2. server[s].state = "installed" /\ ~Stored(s)
  BY <1>1 DEF IInv, Registered
<1>3. /\ done' \in Seq(Sessions) /\ StoredOnce'
      /\ \A x \in Sessions : Stored(x)' <=> x = s \/ (Stored(x) /\ ~(Full /\ x = Head(done)))
  BY <1>1, <1>2, StoredAfter, SignallingAssumption DEF IInv, SignallingType
<1>4. Full => Stored(Head(done)) /\ Head(done) \in Sessions
  <2>1. done \in Seq(Sessions) /\ (Full => Len(done) > 0)
    BY SignallingAssumption DEF Full, IInv, SignallingType
  <2> QED
    BY <2>1 DEF Stored
<1>5. \A x \in Sessions :
        /\ to(x) \in SessionType /\ to(x).sent = server[x].sent /\ to(x).pending = server[x].pending
        /\ to(x).state = IF x = s THEN "stored"
                         ELSE IF Full /\ x = Head(done) THEN "deleted" ELSE server[x].state
  <2> TAKE x \in Sessions
  <2>1. server[x] \in SessionType /\ "stored" \in SessionState /\ "deleted" \in SessionState
    BY DEF IInv, SignallingType, SessionState
  <2>2. CASE x = s
    <3>1. ~(Full /\ x = Head(done))
      BY <1>2, <1>4, <2>2
    <3>2. to(x) = [server[x] EXCEPT !.state = "stored"]
      BY <2>2, <3>1
    <3>3. /\ [server[x] EXCEPT !.state = "stored"] \in SessionType
          /\ [server[x] EXCEPT !.state = "stored"].state = "stored"
          /\ [server[x] EXCEPT !.state = "stored"].sent = server[x].sent
          /\ [server[x] EXCEPT !.state = "stored"].pending = server[x].pending
      BY <2>1, StateOnly
    <3> HIDE DEF to
    <3> QED
      BY <2>2, <3>2, <3>3
  <2>3. CASE x # s /\ Full /\ x = Head(done)
    BY <2>1, <2>3, StateOnly, ZenonT(30)
  <2>4. CASE x # s /\ ~(Full /\ x = Head(done))
    BY <2>1, <2>4
  <2> QED
    BY <2>2, <2>3, <2>4
<1> HIDE DEF to
<1>6. server' \in [Sessions -> SessionType]
  BY <1>1, <1>5
<1>7. Grows /\ Sends({})
  BY NothingTaken DEF Sends
<1>8. ConfirmationsTrue' /\ BooksSettled' /\ net' \subseteq MessageType
  <2>1. \A x \in Sessions : Settled(agent'[x], received'["server"][x]) /\ Settled(server'[x], received'["agent"][x])
    BY <1>1, <1>5 DEF IInv, BooksSettled, Settled
  <2>2. agent' \in [Sessions -> SessionType]
    BY DEF IInv, SignallingType
  <2> QED
    BY <1>6, <1>7, <2>1, <2>2, BooksStay
<1>9. db' \in Seq(Sessions \cup {Nothing}) /\ \A x \in Sessions : Installed(x)' <=> Installed(x) /\ x # s
  <2>1. db \in Seq(Sessions \cup {Nothing})
    BY DEF IInv, SignallingType
  <2>2. db' \in Seq(Sessions \cup {Nothing})
    BY <1>1, <2>1
  <2>3. DOMAIN db' = DOMAIN db /\ \A i \in DOMAIN db : db'[i] = IF db[i] = s THEN Nothing ELSE db[i]
    BY <1>1
  <2> QED
    BY <2>2, <2>3, SignallingAssumption DEF Installed
<1>10. \A x \in Sessions :
         server'[x].state = IF x = s THEN "stored"
                            ELSE IF Full /\ x = Head(done) THEN "deleted" ELSE server[x].state
  BY <1>1, <1>5
<1>11. Registered'
  <2>1. SUFFICES ASSUME NEW x \in Sessions
                 PROVE  /\ server'[x].state = "installed" <=> Installed(x)'
                        /\ server'[x].state = "stored" <=> Stored(x)'
    BY DEF Registered
  <2>2. /\ server[x].state = "installed" <=> Installed(x)
        /\ server[x].state = "stored" <=> Stored(x)
    BY DEF IInv, Registered
  <2> QED
    BY <1>3, <1>4, <1>9, <1>10, <2>2
<1>12. \A x \in Sessions : server[x].state = "new" => server'[x].state = "new"
  <2>1. \A x \in Sessions : server[x].state = "new" => x # s /\ ~Stored(x)
    BY <1>2 DEF IInv, Registered
  <2> QED
    BY <1>4, <1>10, <2>1
<1>13. \A m \in net : m.s \in Sessions
  BY DEF IInv, SignallingType, MessageType
<1>14. AskedOnce'
  BY <1>12, <1>13 DEF IInv, AskedOnce, Opening
<1> QED
  BY <1>3, <1>6, <1>8, <1>9, <1>11, <1>14 DEF IInv, SignallingType

-----------------------------------------------------------------------------
\* Nothing was sent and no session exists.
LEMMA InitIInv == Init => IInv
<1> SUFFICES ASSUME Init PROVE IInv
  OBVIOUS
<1>1. New \in SessionType /\ New.state = "new" /\ New.sent \ New.pending = {}
  BY DEF New, SessionType, SessionState
<1>2. agent = [s \in Sessions |-> New] /\ server = [s \in Sessions |-> New]
      /\ db = <<>> /\ done = <<>> /\ net = {}
      /\ received = [side \in {"agent", "server"} |-> [s \in Sessions |-> {}]]
  BY DEF Init
<1>3. SignallingType
  BY <1>1, <1>2 DEF SignallingType
<1>4. Registered /\ StoredOnce
  BY <1>1, <1>2 DEF Registered, StoredOnce, Installed, Stored
<1>5. BooksSettled
  BY <1>1, <1>2 DEF BooksSettled, Settled
<1>6. AskedOnce /\ ConfirmationsTrue
  BY <1>1, <1>2 DEF AskedOnce, ConfirmationsTrue
<1> QED
  BY <1>3, <1>4, <1>5, <1>6 DEF IInv

LEMMA HandleIInv ==
  ASSUME IInv, NEW m \in net, Handle(m)
  PROVE  IInv'
<1>1. CASE HandleResponse(m)
  BY <1>1, HandleResponseIInv
<1>2. CASE RefuseResponse(m) \/ AgentConfirmed(m)
  BY <1>2, RefuseResponseIInv
<1>3. CASE TakeAllocation(m)
  BY <1>3, TakeAllocationIInv
<1>4. CASE HandleCheck(m)
  BY <1>4, HandleCheckIInv
<1>5. CASE HandleCreate(m)
  BY <1>5, HandleCreateIInv
<1>6. CASE HandleCreateNot(m) \/ RefuseInteraction(m)
  BY <1>6, DropIInv DEF HandleCreateNot, RefuseInteraction
<1>7. CASE HandleRemove(m)
  <2>1. m.s \in Sessions /\ net' \subseteq net /\ UNCHANGED <<agent, received>>
    BY <1>7 DEF HandleRemove, IInv, SignallingType, MessageType
  <2>2. CASE DelSession(m.s)
    BY <2>1, <2>2, DelSessionIInv
  <2>3. CASE UNCHANGED <<db, done, server>>
    BY <2>1, <2>3, DropIInv
  <2> QED
    BY <1>7, <2>2, <2>3 DEF HandleRemove
<1>8. CASE ServerConfirmed(m)
  BY <1>8, ServerConfirmedIInv
<1>9. CASE TakeBid(m)
  BY <1>9, TakeBidIInv
<1> QED
  BY <1>1, <1>2, <1>3, <1>4, <1>5, <1>6, <1>7, <1>8, <1>9 DEF Handle

LEMMA NextIInv == IInv /\ [Next]_vars => IInv'
<1> SUFFICES ASSUME IInv, [Next]_vars PROVE IInv'
  OBVIOUS
<1>1. ASSUME NEW s \in Sessions, Ask(s) PROVE IInv'
  BY <1>1, AskIInv
<1>2. ASSUME NEW s \in Sessions, Configure(s) PROVE IInv'
  BY <1>2, ConfigureIInv
<1>3. ASSUME NEW s \in Sessions, Teardown(s) PROVE IInv'
  BY <1>3, TeardownIInv
<1>4. ASSUME NEW s \in Sessions, TransmitBid(s) PROVE IInv'
  BY <1>4, TransmitBidIInv
<1>5. ASSUME NEW s \in Sessions, TransmitAllocation(s) PROVE IInv'
  BY <1>5, TransmitAllocationIInv
<1>6. ASSUME NEW m \in net, Handle(m) PROVE IInv'
  BY <1>6, HandleIInv
<1>7. ASSUME NEW m \in net, Lose(m) PROVE IInv'
  BY <1>7, DropIInv DEF Lose
<1>8. CASE UNCHANGED vars
  BY <1>8, DropIInv DEF vars
<1> QED
  BY <1>1, <1>2, <1>3, <1>4, <1>5, <1>6, <1>7, <1>8 DEF Next

\* What a side does not hold any more was taken up by the other, and the auctioneer
\* finds a session where its state says (confirmMessage, SessionManager).
THEOREM ConfirmedWasReceived == Spec => []ConfirmedReceived
<1>1. IInv => ConfirmedReceived
  BY DEF IInv, BooksSettled, Settled, Registered, ConfirmedReceived
<1> QED
  BY <1>1, InitIInv, NextIInv, PTL DEF Spec
=============================================================================
