-------------------------- MODULE ControlConnection --------------------------
(***************************************************************************)
(* The event loop of a daemon and the control connection it serves         *)
(* (Auctioner::run and Agent::run, CtrlComm, lib/httpd).                    *)
(*                                                                         *)
(* One pass of the loop asks the scheduler whether the head of the queue   *)
(* is due, in which case the scheduler writes a byte 'A' to the signal     *)
(* pipe, and then waits in select.  A byte in the pipe comes first: 'A'    *)
(* executes the head of the queue, 'D' and 'S' are from signals.  Only     *)
(* when the pipe is empty are the connections of the clients served.  A    *)
(* command becomes an event of the queue that refers to its connection,    *)
(* and the handler of the event writes the answer.                         *)
(*   queue - the scheduler, with times relative to the present             *)
(*   pipe  - the bytes in the signal pipe                                  *)
(*   pc    - the place of the loop: "top" before the scheduler is asked,   *)
(*           "select", "stopped"                                           *)
(*   lag   - did time pass in this pass?                                   *)
(*   web   - the connections: the request structure of httpd, and what     *)
(*           the client did                                                *)
(*   conns - the list of the open connections, the newest first            *)
(*   scene - what the clients will do                                      *)
(*   signals - the signals still to come                                   *)
(*   fault - what went wrong in memory: "none" while the daemon lives      *)
(*   early - history: was an event executed before its time?               *)
(*   again - history: connections of which one event was made twice, or    *)
(*           given to another connection                                   *)
(* A tick is the second of time(NULL).  A header comes in one part, the    *)
(* body of a POST in another.                                              *)
(***************************************************************************)
EXTENDS EventQueue, FiniteSets, SequencesExt

CONSTANTS
  Conns,        \* the connections clients make
  Scenes,       \* what may come: to which daemon, the requests of each client,
                \* the clients that leave, those whose host is barred, the signals
  KeepAlive,    \* keepalive_time
  NetTimeout,   \* timeout
  TimerPeriod,  \* the interval of CTRLCOMM_TIMER
  MaxConn,      \* max_conn
  Works         \* the times of the other events of the daemon

ASSUME ControlAssumption ==
  /\ KeepAlive \in Nat /\ NetTimeout \in Nat /\ TimerPeriod \in Nat \ {0}
  /\ MaxConn \in Nat /\ Works \subseteq Nat
  /\ \A sc \in Scenes :
       /\ sc.leave \subseteq Conns /\ sc.barred \subseteq Conns
       /\ sc.signals \subseteq {"S", "D"}
       /\ sc.asks \in [Conns -> Seq([path : STRING, post : BOOLEAN, keep : BOOLEAN,
                                    user : BOOLEAN, params : BOOLEAN])]

VARIABLES queue, pipe, pc, lag, web, conns, scene, signals, fault, early, again

vars == <<queue, pipe, pc, lag, web, conns, scene, signals, fault, early, again>>

-----------------------------------------------------------------------------
(***************************************************************************)
(* The request structure of a connection (struct REQUEST), from the        *)
(* client's end: parts that wait in the socket, has it shut down its side,  *)
(* how many parts it sent, the answers it has; and from the daemon's.      *)
(***************************************************************************)
NewConnection ==
  [inbox |-> <<>>, eof |-> FALSE, sent |-> 0, got |-> <<>>, 
   state |-> "free", rd |-> FALSE, wr |-> FALSE, idle |-> 0,
   buf |-> <<>>, lbreq |-> 0, clen |-> 0, parsed |-> FALSE,
   asked |-> FALSE, keep |-> FALSE,
   body |-> "none", reply |-> "none", for |-> 0, written |-> FALSE]

Writing == {"WRITE_HEADER", "WRITE_BODY"}

Open(r) == r.state \notin {"free", "knocking", "closed"}

\* The parts of the k-th request of a plan, and of the plan.
PartsOf(k, q) ==
  IF q.post THEN <<[req |-> k, body |-> FALSE], [req |-> k, body |-> TRUE]>>
            ELSE <<[req |-> k, body |-> FALSE]>>

Parts(p) == FlattenSeq([k \in DOMAIN p |-> PartsOf(k, p[k])])

\* The number of the request in the buffer.
Current(r) == IF r.buf = <<>> THEN 0 ELSE r.buf[1].req

\* mkerror: the body is a static string.
MkError(r, status, ka) ==
  [r EXCEPT !.state = "WRITE_HEADER", !.body = "static", !.reply = status,
            !.for = Current(r), !.keep = @ /\ ka]

\* mkheader with status 200, for the k-th request; an answer that overtakes
\* one of which a part is written starts where that one stopped.
MkHeader(r, reply, k) ==
  [r EXCEPT !.state = "WRITE_HEADER", !.body = "heap", !.for = k,
            !.reply = IF r.written THEN "garbled" ELSE reply]

\* httpd_send_response: from the handler of an event.
SendResponse(r, reply, k) ==
  [MkHeader(r, reply, k) EXCEPT !.rd = FALSE, !.wr = TRUE]

-----------------------------------------------------------------------------
(***************************************************************************)
(* Reading.  A read takes what is there: the first n parts, when more come  *)
(* between two reads.                                                      *)
(***************************************************************************)
Take(r, n) ==
  LET m == IF n < Len(r.inbox) THEN n ELSE Len(r.inbox)
  IN  [r EXCEPT !.buf = @ \o SubSeq(r.inbox, 1, m),
                !.inbox = SubSeq(@, m + 1, Len(@))]

Extra(r) == Len(r.buf) - 1

\* The buffer starts with a header, and then what follows is the first part
\* of a body, or it does not look like a request.
LookAtHeader(r) ==
  IF r.buf[1].body THEN MkError(r, "400", FALSE)
  ELSE [r EXCEPT !.state = "PARSE_HEADER", !.lbreq = Extra(r)]

\* read_header: of a client that shut down its side, nothing; and with
\* pipelined set there is a request in the buffer.
ReadHeader(r, n, pipelined) ==
  IF r.inbox = <<>> /\ r.eof THEN [r EXCEPT !.state = "CLOSE"]
  ELSE IF r.inbox = <<>> /\ ~pipelined THEN r
  ELSE LookAtHeader(Take(r, n))

\* Mutant: a read that would block is taken for the end.
ReadBodyBlocked(r, n) ==
  [Take(r, Len(r.inbox)) EXCEPT !.state = "CLOSE", !.lbreq = Extra(Take(r, Len(r.inbox)))]

\* read_body until it would block: the body is complete when a read ends with
\* it, and not when it reads on.
ReadBody(r, n) ==
  LET first == Take(r, n)
      all == Take(r, Len(r.inbox))
  IN  IF r.inbox # <<>> /\ Extra(first) = r.clen
      THEN [first EXCEPT !.state = "PARSE_BODY", !.lbreq = r.clen]
      ELSE [all EXCEPT !.state = IF r.eof THEN "CLOSE" ELSE @]

\* parse_request up to the callback.  When a request is parsed again its
\* header lines are gone, and with them "Connection: close".
ParseHeader(r, q, n) ==
  LET h == [r EXCEPT !.keep = r.parsed \/ q.keep, !.parsed = TRUE,
                     !.clen = IF q.post THEN 1 ELSE @]
      b == ReadBody(h, n)
  IN  IF q.path = "malformed" THEN MkError(r, "400", FALSE)
      ELSE IF ~q.user THEN MkError(h, "401", TRUE)
      ELSE IF ~q.post THEN b
      ELSE IF b.lbreq < b.clen THEN [b EXCEPT !.state = "READ_BODY"]
      ELSE [b EXCEPT !.state = "PROCESS"]

\* Does parse_request reach the callback?
ReachesCallback(r, q) ==
  q.path # "malformed" /\ q.user /\ r.state # "READ_BODY"

-----------------------------------------------------------------------------
(***************************************************************************)
(* Commands.  A pass of httpd_handle_event goes on with s: the             *)
(* connections, the events it makes (retEventVec, of which the last is     *)
(* retEvent), the connections with an event made again, and the list of    *)
(* those that were visited and not closed.                                 *)
(***************************************************************************)
Command(type, c, k) ==
  [type |-> type, conn |-> c, req |-> k, copies |-> 1]

\* The last event is made for c, and pushed once more, when a page is sent in
\* the call that made it.
PushAgain(s, c) ==
  LET n == Len(s.back)
      last == [s.back[n] EXCEPT !.conn = c, !.req = Current(s.web[c]), !.copies = @ + 1]
  IN  IF n = 0 THEN s
      ELSE [s EXCEPT !.back[n] = last, !.again = @ \cup {s.back[n].conn, c}]

Push(s, c, type) ==
  LET r == s.web[c]
  IN  [s EXCEPT !.back = Append(@, Command(type, c, Current(r))),
                !.again = IF r.asked THEN @ \cup {c} ELSE @,
                !.web[c].asked = TRUE]

Pages == {"/", "/help", "/xsl/reply.xsl"}

\* What the auctioneer, and the agent, make of a path.
AuctioneerCommand(path) ==
  CASE path \in Pages -> "page"
    [] path \in {"/get_info", "/get_modinfo"} -> "info"
    [] path = "/add_auction" -> "add"
    [] OTHER -> "unknown"

AgentCommand(path) ==
  CASE path \in Pages -> "page"
    [] path = "/get_info" -> "info"
    [] path = "/add_request" -> "add"
    [] OTHER -> "unknown"

\* nagtrsh (external to the daemons) turns what its user types into a path.
ShellPath(action) ==
  CASE action = "get_info" -> "/get_info"
    [] action = "rm_req" -> "/rm_req"
    [] action \in {"add_req", "add_reqs"} -> "/add_req"

\* A command lacks the parameter it needs.
Kind(q) ==
  LET k == IF scene.daemon = "agent" THEN AgentCommand(q.path) ELSE AuctioneerCommand(q.path)
  IN  IF k \in {"info", "add"} /\ ~q.params THEN "incomplete" ELSE k

\* processCmd: a page and an error are answered now, a command is an event.
ProcessCmd(s, c, kind) ==
  CASE kind = "page" ->
         PushAgain([s EXCEPT !.web[c] = MkHeader(@, "page", Current(@))], c)
    [] kind = "info" -> Push(s, c, "GET_INFO")
    [] kind = "add" -> Push(s, c, "ADD")
    [] kind = "incomplete" -> [s EXCEPT !.web[c] = MkHeader(@, "error", Current(@))]
    [] OTHER -> [s EXCEPT !.web[c] = MkError(@, "404", TRUE)]

Request(c, r) == scene.asks[c][Current(r)]

\* The two parsing steps of a pass, each when the state asks for it.
ParseRequest(s, c, n) ==
  LET r == ParseHeader(s.web[c], Request(c, s.web[c]), n)
      q == Request(c, r)
  IN  IF s.web[c].state # "PARSE_HEADER" THEN s
      ELSE IF ReachesCallback(r, q) THEN ProcessCmd([s EXCEPT !.web[c] = r], c, Kind(q))
      ELSE [s EXCEPT !.web[c] = r]

ParseRequestBody(s, c) ==
  IF s.web[c].state # "PARSE_BODY" THEN s
  ELSE ProcessCmd(s, c, Kind(Request(c, s.web[c])))

-----------------------------------------------------------------------------
(***************************************************************************)
(* Writing, and the end of a request.                                      *)
(***************************************************************************)

\* write_request, for what the socket takes: all that is left, a part, or
\* nothing; or the client is gone.
WriteRequest(r, room) ==
  CASE room = "all" ->
         [r EXCEPT !.state = "FINISHED", !.written = FALSE,
                   !.got = Append(@, [req |-> r.for, reply |-> r.reply])]
    [] room = "part" -> [r EXCEPT !.state = "WRITE_BODY", !.written = TRUE]
    [] room = "broken" -> [r EXCEPT !.state = "CLOSE"]
    [] OTHER -> r

\* Mutant: the connection stays in the set for reading.
SwitchToWritingReading(r, room) ==
  IF r.state = "WRITE_HEADER" THEN WriteRequest([r EXCEPT !.wr = TRUE], room) ELSE r

SwitchToWriting(r, room) ==
  IF r.state = "WRITE_HEADER"
  THEN WriteRequest([r EXCEPT !.rd = FALSE, !.wr = TRUE], room)
  ELSE r

\* Mutant: the request stays in the buffer.
NextRequestBuffered(r) ==
  [r EXCEPT !.wr = FALSE, !.rd = TRUE, !.parsed = FALSE, !.asked = FALSE,
            !.state = "KEEPALIVE"]

\* A finished request of a connection that is kept: back to reading.  What was
\* read with it goes with it, up to the length taken for its body.
NextRequest(r) ==
  LET f == [r EXCEPT !.wr = FALSE, !.rd = TRUE, !.parsed = FALSE, !.asked = FALSE,
                     !.body = IF @ = "heap" THEN "none" ELSE @]
  IN  IF Extra(r) = r.lbreq \/ r.buf = <<>>
      THEN [f EXCEPT !.state = "KEEPALIVE", !.buf = <<>>, !.lbreq = 0,
                     !.reply = "none", !.for = 0]
      ELSE ReadHeader([f EXCEPT !.state = "READ_HEADER",
                                !.buf = SubSeq(@, r.lbreq + 2, Len(@))], 1, TRUE)

Finish(r) ==
  IF r.state # "FINISHED" THEN r
  ELSE IF r.keep THEN NextRequest(r)
  ELSE [r EXCEPT !.state = "CLOSE"]

\* From parsing to the end of the request.
Round(s, c, n, room) ==
  LET p == ParseRequestBody(ParseRequest(s, c, n), c)
  IN  [p EXCEPT !.web[c] = Finish(SwitchToWriting(@, room))]

\* There is another request in the buffer, or what does not look like one.
More(r) ==
  \/ r.state = "PARSE_HEADER" /\ ~r.asked
  \/ r.state = "WRITE_HEADER" /\ ~r.wr

\* A round for each request in the buffer; a finished one takes its parts along,
\* so there are no more rounds than parts.
Serve(s, c, n, room) ==
  LET most == Len(s.web[c].buf) + Len(s.web[c].inbox)
      round[k \in 0 .. most] ==
        IF k = 0 THEN Round(s, c, n, room)
        ELSE LET t == round[k - 1]
             IN  IF More(t.web[c]) THEN Round(t, c, n, room) ELSE t
  IN  round[most]

\* Mutant: a connection that is to be closed waits for the next call.
CloseLater(r) == r

Close(r) ==
  IF r.state = "CLOSE"
  THEN [NewConnection EXCEPT !.state = "closed", !.got = r.got, !.eof = r.eof]
  ELSE r

-----------------------------------------------------------------------------
(***************************************************************************)
(* One call of httpd_handle_event.                                         *)
(***************************************************************************)

\* What select reports.
Readable(r) == r.rd /\ (r.inbox # <<>> \/ r.eof)

Input(r, n) ==
  LET h == IF r.state \in {"KEEPALIVE", "READ_HEADER"}
           THEN ReadHeader([r EXCEPT !.state = "READ_HEADER"], n, FALSE) ELSE r
      b == IF h.state = "READ_BODY" THEN ReadBody(h, n) ELSE h
  IN  [b EXCEPT !.idle = 0]

Output(r, room) == [WriteRequest(r, room) EXCEPT !.idle = 0]

\* Mutant: only a connection that is read from times out.
TimeoutsReading(r, crowded) ==
  IF r.idle > NetTimeout /\ r.state \in {"KEEPALIVE", "READ_HEADER", "READ_BODY"}
  THEN [r EXCEPT !.state = "CLOSE"] ELSE r

Timeouts(r, crowded) ==
  IF r.state = "KEEPALIVE"
  THEN [r EXCEPT !.state = IF r.idle > KeepAlive \/ crowded THEN "CLOSE" ELSE @]
  ELSE IF r.idle <= NetTimeout THEN r
  ELSE IF r.state \in {"READ_HEADER", "READ_BODY"} THEN MkError(r, "408", FALSE)
  ELSE [r EXCEPT !.state = "CLOSE"]

\* accessCheck of the host and user lists; the answer is in the scene.
AccessCheck(c) == c \notin scene.barred

\* accept, and the access check of the host: who is barred gets its answer
\* and is closed.
Accept(c, r, n) ==
  LET a == [r EXCEPT !.state = "READ_HEADER", !.rd = TRUE, !.idle = 0]
  IN  IF AccessCheck(c) THEN a
      ELSE [WriteRequest(MkError(ReadHeader(a, n, FALSE), "403", FALSE), "all")
              EXCEPT !.state = "CLOSE"]

\* A connection of the list, with select's word on it in "ready".
HandleConnection(s, c, n, room, ready) ==
  LET r == s.web[c]
      i == IF "rd" \in ready THEN Input(r, n) ELSE r
      o == IF "wr" \in ready THEN Output(i, room) ELSE i
      crowded == Cardinality({d \in Conns : Open(s.web[d])}) > (MaxConn * 9) \div 10
      t == Serve([s EXCEPT !.web[c] = Timeouts(o, crowded)], c, n, room)
  IN  [t EXCEPT !.web[c] = Close(@),
                !.list = IF t.web[c].state = "CLOSE" THEN @ ELSE Append(@, c)]

\* httpd_handle_event over the list cs; ready[c] is what select reports of c.
HandleEvent(w, cs, n, room, ready) ==
  LET pass[k \in 0 .. Len(cs)] ==
        IF k = 0 THEN [web |-> w, back |-> <<>>, again |-> again, list |-> <<>>]
        ELSE LET c == cs[k]
             IN  HandleConnection(pass[k - 1], c, n[c], room[c], ready[c])
  IN  pass[Len(cs)]

Amounts == [Conns -> 1 .. 2]

Rooms(w) ==
  {f \in [Conns -> {"all", "part", "none", "broken"}] :
     \A c \in Conns : /\ f[c] = "broken" => w[c].eof
                      /\ f[c] = "part" => ~w[c].written
                      /\ ~Open(w[c]) /\ w[c].state # "knocking" => f[c] = "all"}

\* The commands of retEventVec as events of the scheduler, due at once.
Events(back) ==
  {[at |-> 0, rank |-> k, ival |-> 0, freed |-> FALSE, type |-> back[k].type,
    conn |-> back[k].conn, req |-> back[k].req, copies |-> back[k].copies] :
     k \in 1 .. Len(back)}

\* CtrlComm::handleFDEvent: the events it leaves are added to the queue q.
HandleFDEvent(w, cs, n, room, ready, q) ==
  \E s \in {HandleEvent(w, cs, n, room, ready)} :
  /\ web' = s.web
  /\ conns' = s.list
  /\ again' = s.again
  /\ queue' = Enqueue(q, Events(s.back))

-----------------------------------------------------------------------------
(***************************************************************************)
(* The loop.                                                               *)
(***************************************************************************)
Lives == fault = "none"

\* Mutant: an event is due a second before its time.
DueSoon == \E e \in queue : IsHead(queue, e) /\ e.at <= 1

\* The head of the queue is due.
Due == \E e \in queue : IsHead(queue, e) /\ e.at <= 0

\* getNextEventTime.
Schedule ==
  /\ Lives /\ pc = "top"
  /\ pipe' = IF Due THEN Append(pipe, "A") ELSE pipe
  /\ pc' = "select" /\ lag' = FALSE
  /\ UNCHANGED <<queue, web, conns, scene, signals, fault, early, again>>

\* A pass that reads byte b.
Read(b) ==
  /\ Lives /\ pc = "select"
  /\ pipe # <<>> /\ Head(pipe) = b
  /\ pipe' = Tail(pipe)
  /\ UNCHANGED <<lag, scene, signals>>

\* getNextEvent: the head of the queue, whatever its time.
TakeHead(e) ==
  /\ Read("A") /\ pc' = "top"
  /\ IsHead(queue, e)
  /\ early' = (early \/ e.at > 0)

\* CTRLCOMM_TIMER: the connections without the word of select.
HandleTimer(e) ==
  /\ e.type = "CTRLCOMM_TIMER"
  /\ TakeHead(e)
  /\ \E n \in Amounts, room \in Rooms(web) :
       HandleFDEvent(web, conns, n, room, [c \in Conns |-> {}],
                     Reschedule(queue \ {e}, e, 0))
  /\ UNCHANGED fault

\* The rest of a pass with event e: it is deleted; another entry of the queue
\* for it is left with a pointer to it.
Deleted(e) ==
  queue' = (queue \ {e}) \cup
           {[e EXCEPT !.copies = e.copies - 1, !.freed = TRUE] : k \in {1} \cap {e.copies - 1}}

\* handleGetInfo: the answer goes to the connection of the event.
HandleGetInfo(e) ==
  /\ e.type = "GET_INFO" /\ ~e.freed
  /\ TakeHead(e)
  /\ Deleted(e)
  /\ IF Open(web[e.conn])
     THEN /\ web' = [web EXCEPT ![e.conn] = SendResponse(@, "info", e.req)]
          /\ UNCHANGED fault
     ELSE /\ fault' = "dangling"
          /\ UNCHANGED web
  /\ UNCHANGED <<conns, again>>

\* "/add_auction", for which the auctioneer has no case, and
\* handleAddResourceRequestsCntrlComm of the agent: no answer is sent.
HandleAdd(e) ==
  /\ e.type = "ADD" /\ ~e.freed
  /\ TakeHead(e)
  /\ Deleted(e)
  /\ UNCHANGED <<web, conns, fault, again>>

HandleFreed(e) ==
  /\ e.freed
  /\ TakeHead(e)
  /\ fault' = "double free"
  /\ UNCHANGED <<queue, web, conns, again>>

\* Any other event of the daemon.
HandleOther(e) ==
  /\ e.type = "OTHER"
  /\ TakeHead(e)
  /\ queue' = queue \ {e}
  /\ UNCHANGED <<web, conns, fault, again>>

Dump ==
  /\ Read("D") /\ pc' = "top"
  /\ UNCHANGED <<queue, web, conns, fault, early, again>>

Stop ==
  /\ Read("S") /\ pc' = "stopped"
  /\ UNCHANGED <<queue, web, conns, fault, early, again>>

Knocking == {c \in Conns : web[c].state = "knocking"}

\* A pass that serves the connections; of those that wait one is accepted.
ServeConnections ==
  /\ Lives /\ pc = "select" /\ pipe = <<>>
  /\ \E n \in Amounts, room \in Rooms(web) :
       LET ready == [c \in Conns |->
                       (IF Readable(web[c]) THEN {"rd"} ELSE {})
                       \cup (IF web[c].wr /\ room[c] # "none" THEN {"wr"} ELSE {})]
       IN  \/ /\ Knocking = {}
              /\ \E c \in Conns : ready[c] # {}
              /\ HandleFDEvent(web, conns, n, room, ready, queue)
           \/ \E d \in Knocking :
                LET cs == <<d>> \o conns
                IN  HandleFDEvent([web EXCEPT ![d] = Accept(d, @, n[d])],
                                  cs, n, room, ready, queue)
  /\ pc' = "top"
  /\ UNCHANGED <<pipe, lag, scene, signals, fault, early>>

\* select times out.
Idle ==
  /\ Lives /\ pc = "select" /\ pipe = <<>> /\ lag
  /\ Knocking = {} /\ \A c \in Conns : ~Readable(web[c])
  /\ pc' = "top"
  /\ UNCHANGED <<queue, pipe, lag, web, conns, scene, signals, fault, early, again>>

\* httpd_shutdown frees what "body" points to.
Shutdown ==
  /\ Lives /\ pc = "stopped"
  /\ pc' = "ended"
  /\ fault' = IF \E c \in Conns : web[c].body = "static" THEN "bad free" ELSE "none"
  /\ web' = [c \in Conns |-> IF Open(web[c]) THEN Close([web[c] EXCEPT !.state = "CLOSE"])
                            ELSE web[c]]
  /\ conns' = <<>>
  /\ UNCHANGED <<queue, pipe, lag, scene, signals, early, again>>

-----------------------------------------------------------------------------
(***************************************************************************)
(* Signals, time and clients.                                              *)
(***************************************************************************)

\* sigint_handler and sigusr1_handler write to the pipe; a signal that comes in
\* select ends it, and the pass does nothing (EINTR).
Signal(b) ==
  /\ Lives /\ pc \in {"top", "select"} /\ b \in signals
  /\ signals' = signals \ {b}
  /\ pipe' = Append(pipe, b)
  /\ pc' \in {pc, "top"}
  /\ UNCHANGED <<queue, lag, web, conns, scene, fault, early, again>>

Longest == IF NetTimeout < KeepAlive THEN KeepAlive ELSE NetTimeout

\* A second passes while the loop is in select or at work on its pass, at
\* most one in a pass; the loop keeps up with what is due.
Tick ==
  /\ Lives /\ pc = "select" /\ ~lag
  /\ \A e \in queue : e.at > 0
  /\ lag' = TRUE
  /\ queue' = {[e EXCEPT !.at = @ - 1] : e \in queue}
  /\ web' = [c \in Conns |->
               IF Open(web[c]) /\ web[c].idle <= Longest
               THEN [web[c] EXCEPT !.idle = @ + 1] ELSE web[c]]
  /\ UNCHANGED <<pipe, pc, conns, scene, signals, fault, early, again>>

Client(c) ==
  /\ Lives
  /\ UNCHANGED <<queue, pipe, pc, lag, conns, scene, signals, fault, early, again>>

Connect(c) ==
  /\ Client(c) /\ web[c].state = "free"
  /\ scene.asks[c] # <<>>
  /\ web' = [web EXCEPT ![c].state = "knocking"]

Send(c) ==
  /\ Client(c) /\ web[c].state \notin {"free", "closed"} /\ ~web[c].eof
  /\ web[c].sent < Len(Parts(scene.asks[c]))
  /\ web' = [web EXCEPT ![c].sent = @ + 1,
                        ![c].inbox = Append(@, Parts(scene.asks[c])[web[c].sent + 1])]

\* The client shuts down its side of the connection, or is gone.
Quit(c) ==
  /\ Client(c) /\ c \in scene.leave
  /\ web[c].state \notin {"free", "closed"} /\ ~web[c].eof
  /\ web' = [web EXCEPT ![c].eof = TRUE]

Ended ==
  /\ ~Lives \/ pc = "ended"
  /\ UNCHANGED vars

Init ==
  /\ queue = Enqueue({}, {[at |-> TimerPeriod, rank |-> 1, ival |-> TimerPeriod,
                           type |-> "CTRLCOMM_TIMER", freed |-> FALSE]}
                         \cup {[at |-> t, rank |-> 2, ival |-> 0, type |-> "OTHER",
                                freed |-> FALSE] : t \in Works})
  /\ pipe = <<>> /\ pc = "top" /\ lag = FALSE
  /\ web = [c \in Conns |-> NewConnection] /\ conns = <<>>
  /\ scene \in Scenes
  /\ signals = scene.signals
  /\ fault = "none" /\ early = FALSE /\ again = {}

HandleHead(e) ==
  \/ HandleTimer(e)
  \/ HandleGetInfo(e)
  \/ HandleAdd(e)
  \/ HandleFreed(e)
  \/ HandleOther(e)

Loop ==
  \/ Schedule
  \/ \E e \in queue : HandleHead(e)
  \/ Dump
  \/ Stop
  \/ ServeConnections
  \/ Idle
  \/ Shutdown

Clients == \E c \in Conns : Connect(c) \/ Send(c) \/ Quit(c)

Next ==
  \/ Loop
  \/ \E b \in {"S", "D"} : Signal(b)
  \/ Tick
  \/ Clients
  \/ Ended

\* The end of a pass, whatever it did.
EndOfPass == Lives /\ pc = "select" /\ pc' \in {"top", "stopped"}

\* The loop runs: select waits 10 ms at most, so every pass ends.  Time does
\* not stop.
Spec ==
  /\ Init /\ [][Next]_vars
  /\ WF_vars(Schedule) /\ WF_pc(EndOfPass) /\ WF_vars(Shutdown) /\ SF_vars(Tick)

-----------------------------------------------------------------------------
Replies == {"page", "info", "error", "400", "401", "403", "404", "408", "garbled", "none"}

ConnectionType ==
  [inbox : Seq([req : Nat, body : BOOLEAN]), eof : BOOLEAN, sent : Nat,
   got : Seq([req : Nat, reply : Replies]),
   state : {"free", "knocking", "KEEPALIVE", "READ_HEADER", "PARSE_HEADER", "READ_BODY",
            "PARSE_BODY", "PROCESS", "WRITE_HEADER", "WRITE_BODY", "closed"},
   rd : BOOLEAN, wr : BOOLEAN, idle : 0 .. Longest + 1,
   buf : Seq([req : Nat, body : BOOLEAN]), lbreq : Nat, clen : {0, 1},
   parsed : BOOLEAN, asked : BOOLEAN, keep : BOOLEAN, body : {"none", "heap", "static"},
   reply : Replies, for : Nat, written : BOOLEAN]

\* The type invariant.
TypeOK ==
  /\ \A e \in queue : /\ e.at \in Int /\ e.rank \in Nat /\ e.freed \in BOOLEAN
                       /\ e.type \in {"GET_INFO", "ADD"} =>
                            e.conn \in Conns /\ e.req \in Nat /\ e.copies \in Nat
  /\ pipe \in Seq({"A", "S", "D"})
  /\ pc \in {"top", "select", "stopped", "ended"}
  /\ lag \in BOOLEAN /\ early \in BOOLEAN
  /\ web \in [Conns -> ConnectionType]
  /\ conns \in Seq(Conns) /\ again \subseteq Conns
  /\ scene \in Scenes /\ signals \subseteq scene.signals
  /\ fault \in {"none", "dangling", "double free", "bad free"}

\* No connection is forgotten by select, and none is written to that has
\* nothing to write (write_request would not return): between two passes an
\* open connection is watched for writing exactly while it has an answer to
\* write, and otherwise for reading.
WatchedRightly == TypeOK /\
  \A c \in Conns :
    LET r == web[c]
    IN  /\ Open(r) => (r.wr <=> r.state \in Writing) /\ (r.rd <=> ~r.wr)
        /\ ~Open(r) => ~r.rd /\ ~r.wr
        /\ Open(r) <=> \E k \in DOMAIN conns : conns[k] = c

\* A command waits in the queue with a pointer to its connection.  The
\* connection is there when the event is executed, unless the client shut
\* down its side, or the event was made twice.
EventsHaveConnections ==
  \A e \in queue :
    e.type = "GET_INFO" /\ ~e.freed => \/ Open(web[e.conn])
                                      \/ web[e.conn].eof \/ e.conn \in again
                                      \/ pc = "ended"

\* What the answer to a request must be.
Expected(q) ==
  IF q.path = "malformed" THEN "400"
  ELSE IF ~q.user THEN "401"
  ELSE CASE Kind(q) = "incomplete" -> "error"
         [] Kind(q) = "unknown" -> "404"
         [] OTHER -> Kind(q)

\* The answers a client gets are those to its own requests, in their order and
\* one for each, whoever else is served at the same time; and an answer that
\* the request took too long, or that its host may not ask.
AnswersInOrder ==
  \A c \in Conns \ again :
    LET got == web[c].got
    IN  \A k \in DOMAIN got :
          \/ got[k].reply \in {"400", "403", "408"} /\ k = Len(got)
          \/ /\ got[k].req \in DOMAIN scene.asks[c]
             /\ got[k].reply = Expected(scene.asks[c][got[k].req])
             /\ \A l \in DOMAIN got : l < k => got[l].req < got[k].req

\* An event is not executed before its time, unless SIGUSR1 has come.
EventsOnTime == early => "D" \in scene.signals \ signals

Stopping == ~Lives \/ pc \in {"stopped", "ended"} \/ "S" \in {pipe[k] : k \in DOMAIN pipe}

\* The command of c is one that has no answer.
Unanswered(c) == web[c].asked /\ Kind(Request(c, web[c])) = "add"

\* httpd_handle_event sets ping whenever select reports a connection, and reads only
\* in three states: what a client sends behind a POST without an answer, or its
\* leaving, is never read, so it is reported in every pass and keeps the
\* connection from its timeout.
Spinning(c) ==
  web[c].state \in {"PARSE_BODY", "PROCESS"} /\ Readable(web[c]) /\ Unanswered(c)

\* However long clients wait and whenever they leave, their connections end: a
\* client that left does not keep its connection, and a command is answered or its
\* connection closed.  The one way to stay is to spin for ever, behind a POST of a
\* command that has no answer.
ConnectionsEnd ==
  \A c \in Conns :
    LET Ends == web[c].state = "closed" \/ Stopping
    IN  /\ web[c].eof ~> (Ends \/ []Spinning(c))
        /\ web[c].asked ~> (~web[c].asked \/ Ends \/ []Spinning(c))

=============================================================================
