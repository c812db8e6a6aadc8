----------------------------- MODULE Signalling -----------------------------
(***************************************************************************)
(* The messages of sessions between the agent and the auctioneer: how a    *)
(* session is set up, how bids and allocations are numbered, held as       *)
(* pending and confirmed, and how the auctioneer keeps sessions that were  *)
(* removed for the allocations that come after them.                       *)
(*                                                                         *)
(* A message has a number (seqno) that its session gives out, and one more *)
(* than the number of the message it confirms, or 0 (ackseqno).  Below the *)
(* daemons is the A-NSLP daemon, which is not in the repository: it may    *)
(* lose messages and hand them over in any order.  Nothing sends a message *)
(* again: beginMessages and endMessages are called by nobody.              *)
(***************************************************************************)
EXTENDS Naturals, Sequences, FiniteSets, Functions

CONSTANTS
  Sessions,   \* the sessions the agent asks for, one for an interval
  MaxSent,    \* a bound on the bids, and on the allocations, of a session
  DoneSize,   \* DONE_LIST_SIZE
  Nothing     \* NULL

ASSUME SignallingAssumption == Nothing \notin Sessions /\ DoneSize \in Nat \ {0} /\ MaxSent \in Nat

VARIABLES
  agent,      \* the sessions of the agent: state, mId and pendingMessages
  server,     \* those of the auctioneer
  db,         \* SessionManager::sessionDB of the auctioneer, by number
  done,       \* SessionManager::sessionsDone of the auctioneer
  net,        \* messages on their way
  received,   \* the numbers of the messages each side has taken up
  troubled,   \* sessions of which a message was lost or not taken up
  up          \* the auctioneer runs

vars == <<agent, server, db, done, net, received, troubled, up>>

New == [state |-> "new", next |-> 0, sent |-> {}, pending |-> {}]

Init ==
  /\ agent = [s \in Sessions |-> New] /\ server = [s \in Sessions |-> New]
  /\ db = <<>> /\ done = <<>> /\ net = {}
  /\ received = [side \in {"agent", "server"} |-> [s \in Sessions |-> {}]]
  /\ troubled = {} /\ up = TRUE

----------------------------------------------------------------------------
(* Session *)

\* getNextMessageId and addPendingMessage; what needs no answer is not held.
Number(x) == [x EXCEPT !.next = @ + 1]
Hold(x) == [Number(x) EXCEPT !.pending = @ \cup {x.next}, !.sent = @ \cup {x.next}]

\* Mutant: the number that is answered is not set back by one.
ConfirmNext(x, mid) == [x EXCEPT !.pending = @ \ {mid + 1}]

\* confirmMessage
Confirm(x, mid) == [x EXCEPT !.pending = @ \ {mid}]

(* AnslpClient: what is given to the A-NSLP daemon reaches the other side as an
   event of this type. *)

Message(to, type, s, seq, ack) == [to |-> to, type |-> type, s |-> s, seq |-> seq, ack |-> ack]
CheckSession(s) == Message("server", "check", s, 0, 0)
CreateSession(s) == Message("server", "create", s, 0, 0)
InstallSession(s, seq, ack) == Message("agent", "install", s, seq, ack)
Bidding(to, s, seq, ack) == Message(to, "interaction", s, seq, ack)
TeardownSession(s) == Message("server", "remove", s, 0, 0)
Takes(side, s, seq) == received' = [received EXCEPT ![side][s] = @ \cup {seq}]

(* SessionManager of the auctioneer *)

Installed(s) == \E i \in DOMAIN db : db[i] = s
Stored(s) == \E i \in DOMAIN done : done[i] = s
Full == Len(done) >= DoneSize

\* addSession; one whose name is installed is not added.
AddSession(s) ==
  /\ ~Installed(s)
  /\ db' = Append(db, s)
  /\ server' = [server EXCEPT ![s] = [Hold(New) EXCEPT !.state = "installed"]]

\* delSession, and storeSessionAsDone, which deletes the oldest of those that are
\* stored when there is no more room.
DelSession(s) ==
  /\ Installed(s)
  /\ db' = [i \in DOMAIN db |-> IF db[i] = s THEN Nothing ELSE db[i]]
  /\ done' = Append(IF Full THEN Tail(done) ELSE done, s)
  /\ server' = [x \in Sessions |->
       CASE x = s -> [server[x] EXCEPT !.state = "stored"]
         [] Full /\ x = Head(done) -> [server[x] EXCEPT !.state = "deleted"]
         [] OTHER -> server[x]]

----------------------------------------------------------------------------
(* The agent *)

\* handleActivateResourceRequestInterval: tg_create, addPendingMessage, addSession
Ask(s) ==
  /\ agent[s].state = "new"
  /\ agent' = [agent EXCEPT ![s] = [Hold(New) EXCEPT !.state = "asked"]]
  /\ UNCHANGED <<server, db, done, net, received, troubled, up>>

\* The A-NSLP daemon names the session and looks for auctioneers.  What it tells
\* the agent (ConfigureSessionEvent, handled by handleActivateSession) is in the
\* queue of the agent before any answer is.
Configure(s) ==
  /\ agent[s].state \in {"asked", "early"}
  /\ agent' = [agent EXCEPT ![s].state = IF @ = "asked" THEN "active" ELSE "down"]
  /\ net' = net \cup {CheckSession(s)}
  /\ UNCHANGED <<server, db, done, received, troubled, up>>

\* replySessionCreationMessages and tg_bidding: the answer with the next number of
\* the session.
Reply(m) == Bidding("server", m.s, agent[m.s].next, m.seq + 1)

\* handleSingleCreateSession: the auctions of the answer are installed and the
\* answer is confirmed, unless something in it throws.
HandleResponse(m) ==
  /\ m.to = "agent" /\ m.type = "install"
  /\ net' = (net \ {m}) \cup {Reply(m)}
  /\ agent' = [agent EXCEPT ![m.s] = Number(Confirm(@, m.ack - 1))]
  /\ Takes("agent", m.s, m.seq)
  /\ UNCHANGED <<server, db, done, troubled, up>>

RefuseResponse(m) ==
  /\ m.to = "agent" /\ m.type = "install"
  /\ net' = net \ {m}
  /\ agent' = [agent EXCEPT ![m.s] = Confirm(@, m.ack - 1)]
  /\ troubled' = troubled \cup {m.s}
  /\ UNCHANGED <<server, db, done, received, up>>

\* handleTransmitBiddingObjects, for one bid
TransmitBid(s) ==
  /\ received["agent"][s] # {}
  /\ Cardinality(agent[s].sent) <= MaxSent
  /\ net' = net \cup {Bidding("server", s, agent[s].next, 0)}
  /\ agent' = [agent EXCEPT ![s] = Hold(@)]
  /\ UNCHANGED <<server, db, done, received, troubled, up>>

\* handleSingleObjectAuctioningInteraction: a confirmation, or an allocation, which
\* is installed; it is confirmed if its auction is still known.
AgentConfirmed(m) ==
  /\ m.to = "agent" /\ m.type = "interaction" /\ m.ack > 0
  /\ net' = net \ {m}
  /\ agent' = [agent EXCEPT ![m.s] = Confirm(@, m.ack - 1)]
  /\ UNCHANGED <<server, db, done, received, troubled, up>>

TakeAllocation(m) ==
  /\ m.to = "agent" /\ m.type = "interaction" /\ m.ack = 0
  /\ Takes("agent", m.s, m.seq)
  /\ \/ /\ net' = (net \ {m}) \cup {Reply(m)}
        /\ agent' = [agent EXCEPT ![m.s] = Number(@)]
        /\ UNCHANGED troubled
     \/ /\ net' = net \ {m} /\ troubled' = troubled \cup {m.s}
        /\ UNCHANGED agent
  /\ UNCHANGED <<server, db, done, up>>

\* handleRemoveResourceRequestInterval: tg_teardown of the name the A-NSLP daemon
\* gave, which is empty before it has.  The session stays.
Teardown(s) ==
  /\ \/ /\ agent[s].state = "active"
        /\ agent' = [agent EXCEPT ![s].state = "down"]
        /\ net' = net \cup {TeardownSession(s)}
     \/ /\ agent[s].state = "asked"
        /\ agent' = [agent EXCEPT ![s].state = "early"]
        /\ UNCHANGED net
  /\ UNCHANGED <<server, db, done, received, troubled, up>>

----------------------------------------------------------------------------
(* The auctioneer *)

\* handleSingleCheckSession changes nothing; if there are auctions for the request
\* the A-NSLP daemon goes on and hands over the request itself.
HandleCheck(m) ==
  /\ up /\ m.type = "check"
  /\ \/ net' = (net \ {m}) \cup {CreateSession(m.s)} /\ UNCHANGED troubled
     \/ net' = net \ {m} /\ troubled' = troubled \cup {m.s}
  /\ UNCHANGED <<agent, server, db, done, received, up>>

\* handleSingleCreateSession: the session is installed with the answer as its first
\* pending message, if there are still auctions.
HandleCreate(m) ==
  /\ up /\ m.type = "create" /\ AddSession(m.s)
  /\ net' = (net \ {m}) \cup {InstallSession(m.s, 0, m.seq + 1)}
  /\ Takes("server", m.s, m.seq)
  /\ UNCHANGED <<agent, done, troubled, up>>

\* No auctions: tg_install without objects, of which the agent makes nothing.  No
\* data of the session: a string is thrown, which nothing catches before run().
HandleCreateNot(m) ==
  /\ up /\ m.type = "create"
  /\ net' = net \ {m} /\ troubled' = troubled \cup {m.s}
  /\ up' \in BOOLEAN
  /\ UNCHANGED <<agent, server, db, done, received>>

\* handleSingleObjectAuctioningInteraction
ServerConfirmed(m) ==
  /\ up /\ m.to = "server" /\ m.type = "interaction" /\ m.ack > 0 /\ Installed(m.s)
  /\ net' = net \ {m}
  /\ server' = [server EXCEPT ![m.s] = Confirm(@, m.ack - 1)]
  /\ UNCHANGED <<agent, db, done, received, troubled, up>>

TakeBid(m) ==
  /\ up /\ m.to = "server" /\ m.type = "interaction" /\ m.ack = 0 /\ Installed(m.s)
  /\ net' = (net \ {m}) \cup {Bidding("agent", m.s, server[m.s].next, m.seq + 1)}
  /\ server' = [server EXCEPT ![m.s] = Number(@)]
  /\ Takes("server", m.s, m.seq)
  /\ UNCHANGED <<agent, db, done, troubled, up>>

\* Mutant: it is confirmed when it can be parsed.
RefuseAndConfirm(m) ==
  /\ up /\ m.to = "server" /\ m.type = "interaction"
  /\ Installed(m.s) /\ m.ack = 0
  /\ net' = (net \ {m}) \cup {Bidding("agent", m.s, server[m.s].next, m.seq + 1)}
  /\ server' = [server EXCEPT ![m.s] = Number(@)]
  /\ troubled' = troubled \cup {m.s}
  /\ UNCHANGED <<agent, db, done, received, up>>

\* A message that cannot be parsed, or of which no bid is left, is not confirmed;
\* neither is one of a session that is not installed (any more).
RefuseInteraction(m) ==
  /\ up /\ m.to = "server" /\ m.type = "interaction"
  /\ Installed(m.s) => m.ack = 0
  /\ net' = net \ {m} /\ troubled' = troubled \cup {m.s}
  /\ UNCHANGED <<agent, server, db, done, received, up>>

\* handleTransmitBiddingObjects, for one allocation: over the session, installed or
\* in storage.
TransmitAllocation(s) ==
  /\ up /\ (Installed(s) \/ Stored(s))
  /\ Cardinality(server[s].sent) <= MaxSent
  /\ received["server"][s] \ {0} # {}
  /\ net' = net \cup {Bidding("agent", s, server[s].next, 0)}
  /\ server' = [server EXCEPT ![s] = Hold(@)]
  /\ UNCHANGED <<agent, db, done, received, troubled, up>>

\* handleRemoveSession, delSession, storeSessionAsDone
HandleRemove(m) ==
  /\ up /\ m.type = "remove"
  /\ net' = net \ {m}
  /\ \/ DelSession(m.s)
     \/ ~Installed(m.s) /\ UNCHANGED <<db, done, server>>
  /\ troubled' = troubled \cup {m.s}
  /\ UNCHANGED <<agent, received, up>>
----------------------------------------------------------------------------
Lose(m) ==
  /\ net' = net \ {m} /\ troubled' = troubled \cup {m.s}
  /\ UNCHANGED <<agent, server, db, done, received, up>>

Handle(m) ==
  \/ HandleResponse(m) \/ RefuseResponse(m) \/ AgentConfirmed(m) \/ TakeAllocation(m)
  \/ HandleCheck(m) \/ HandleCreate(m) \/ HandleCreateNot(m) \/ HandleRemove(m)
  \/ ServerConfirmed(m) \/ TakeBid(m) \/ RefuseInteraction(m)

Next ==
  \/ \E s \in Sessions : \/ Ask(s) \/ Configure(s) \/ Teardown(s)
                        \/ TransmitBid(s) \/ TransmitAllocation(s)
  \/ \E m \in net : Handle(m) \/ Lose(m)

\* The A-NSLP daemons answer and deliver, and the loops of the daemons take a
\* message in every pass.
Delivered(s) == \E m \in net : m.s = s /\ (Handle(m) \/ Lose(m))
Fairness == \A s \in Sessions : WF_vars(Configure(s)) /\ WF_vars(Delivered(s))

Spec == Init /\ [][Next]_vars /\ Fairness

----------------------------------------------------------------------------
(* Properties *)

\* A message that its sender does not hold any more was taken up by the other side,
\* whatever was lost or overtaken, and whoever has removed the session meanwhile;
\* and the auctioneer finds a session where it put it.
ConfirmedReceived ==
  \A s \in Sessions :
    /\ agent[s].sent \ agent[s].pending \subseteq received["server"][s]
    /\ server[s].sent \ server[s].pending \subseteq received["agent"][s]
    /\ server[s].state = "installed" <=> Installed(s)
    /\ server[s].state = "stored" <=> Stored(s)

\* What a side holds is confirmed in the end, unless a message of the session was
\* lost, refused or came after its removal.
Confirmed ==
  \A s \in Sessions :
    (agent[s].pending # {} \/ server[s].pending # {})
      ~> ((agent[s].pending = {} /\ server[s].pending = {}) \/ s \in troubled \/ ~up)
=============================================================================
