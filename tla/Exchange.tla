------------------------------ MODULE Exchange ------------------------------
(***************************************************************************)
(* What a message keeps of an object.  The auctioneer reads an auction from *)
(* a file and offers it to the agent, who reads it again from the message;  *)
(* the agent bids, and the auctioneer reads the bid.  Time passes between    *)
(* any two of these, and each reader reckons the times anew.  Beside the    *)
(* times, a message relies on templates, which are numbered by the          *)
(* auctioneer and kept by both sides.                                       *)
(***************************************************************************)
EXTENDS Intervals, FiniteSets

CONSTANTS
  Names,        \* auctions
  None,         \* NULL
  Prefs,        \* what a file may say of an auction
  Options,      \* the options a bid may have
  Requests,     \* the intervals a request may have
  Fields,       \* configured fields of an auction's templates
  Leftover,     \* what an interval_t that nobody sets may hold
  FirstId,      \* TemplateIdSource starts after 255
  MaxId,        \* bound on the number of templates
  MaxTime       \* bound on the clock

ASSUME ExchangeAssumption ==
  /\ FirstId \in Nat /\ MaxId \in Nat /\ MaxTime \in Nat
  /\ Leftover \subseteq Nat /\ Leftover # {}
  /\ Options \subseteq Seq(Said) /\ Requests \subseteq Seq(Said)

VARIABLES
  scene,        \* the exchange that is looked at: they share nothing but the clock
  now,
  lastId,       \* the number TemplateIdSource has given out last
  templates,    \* the auctioneer's template container
  auctions,     \* its auctions, as they were read from files
  offers,       \* messages with auctions
  copies,       \* the agent's auctions, as they were read from messages
  known,        \* the agent's template container for this auctioneer
  request,      \* the agent's request: what the file says, and its intervals
  asked,        \* the intervals in the messages that ask for auctions, by the interval
  bid,          \* the agent's bid: its options and its windows when it was installed
  sent,         \* the bid in a message
  taken,        \* the windows the auctioneer reads in it
  up            \* the agent runs

vars == <<scene, now, lastId, templates, auctions, offers, copies, known, request, asked, bid, sent, taken, up>>

Init ==
  /\ scene \in {"auction", "request", "bid"}
  /\ now = 1 /\ lastId = FirstId /\ templates = <<>>
  /\ auctions = [a \in Names |-> None] /\ offers = {} /\ copies = auctions
  /\ known = <<>> /\ request = None /\ asked = <<>> /\ bid = None /\ sent = None /\ taken = None /\ up = TRUE

Tick == now < MaxTime /\ now' = now + 1
        /\ UNCHANGED <<scene, lastId, templates, auctions, offers, copies, known, request, asked, bid, sent, taken, up>>

----------------------------------------------------------------------------
(* Templates *)

\* One for the data of an auction, one for its options, two for its bidding objects
\* (of three, which are alike); what a template has is its type and its fields.
Types == <<"data", "option", "object data", "object option">>
Content(type, fields) == IF type \in {"object data", "object option"} THEN <<type, fields>> ELSE <<type, "mandatory">>

\* newId: the next numbers; none is freed while the daemon runs.
NewIds == lastId + 1 .. lastId + Len(Types)

\* Auction::buildTemplates: numbers in the order of Types
Build(fields) == [i \in NewIds |-> Content(Types[i - lastId], fields)]

Union(f, g) == [i \in DOMAIN f \cup DOMAIN g |-> IF i \in DOMAIN f THEN f[i] ELSE g[i]]

\* get_ipap_message adds the fields of the action to its copy of the option template.
InOffer(ts, action) == [i \in DOMAIN ts |-> IF ts[i][1] = "option" THEN <<"option", action>> ELSE ts[i]]

----------------------------------------------------------------------------
(* The auctioneer *)

IntervalOf(p) == IF p.interval > 0 THEN {p.interval} ELSE Leftover

\* AuctionFileParser::parse, Auction::Auction with AS_BUILD_TEMPLATE
LoadAuction(a) ==
  /\ scene = "auction" /\ auctions[a] = None /\ lastId + Len(Types) <= MaxId
  /\ \E p \in Prefs, fields \in Fields : \E i \in IntervalOf(p) :
       LET w == AuctionWindow(p, now) IN
       /\ w # Refused
       /\ templates' = Union(templates, Build(fields))
       /\ lastId' = lastId + Len(Types)
       /\ auctions' = [auctions EXCEPT ![a] =
            [start |-> w.start, stop |-> w.stop, interval |-> i, align |-> p.align,
             action |-> fields, state |-> "new", templates |-> NewIds]]
  /\ UNCHANGED <<scene, now, offers, copies, known, request, asked, bid, sent, taken, up>>

Activate(a) ==
  /\ auctions[a] # None /\ auctions[a].state = "new" /\ auctions[a].start <= now
  /\ auctions' = [auctions EXCEPT ![a].state = "active"]
  /\ UNCHANGED <<scene, now, lastId, templates, offers, copies, known, request, asked, bid, sent, taken, up>>

\* The data record and the option record: the alignment has no field in them.
DataRecord(x) == [window |-> InMessage(x, Absent), interval |-> x.interval, state |-> x.state]
OptionRecord(x) == [action |-> x.action]

\* MAPIAuctionParser::get_ipap_message
SendOffer(a) ==
  /\ auctions[a] # None
  /\ LET x == auctions[a] IN
     offers' = offers \cup
       {[name |-> a, data |-> DataRecord(x), option |-> OptionRecord(x), of |-> x,
         templates |-> InOffer([i \in x.templates |-> templates[i]], x.action)]}
  /\ UNCHANGED <<scene, now, lastId, templates, auctions, copies, known, request, asked, bid, sent, taken, up>>

\* A new process: numbers and auctions begin anew, and messages that were on their
\* way are lost.
Restart ==
  /\ lastId # FirstId
  /\ lastId' = FirstId /\ templates' = <<>>
  /\ auctions' = [a \in Names |-> None] /\ offers' = {} /\ sent' = None
  /\ UNCHANGED <<scene, now, copies, known, request, asked, bid, taken, up>>

----------------------------------------------------------------------------
(* The agent *)

\* Mutant: what is known of a number is not compared.
ConflictIgnored(ts) == DOMAIN ts = {}

Conflict(ts) == \E i \in DOMAIN ts \cap DOMAIN known : ts[i] # known[i]

\* MAPIAuctionParser::parse: the templates of the message are inserted, or have to
\* be what is there: assert(*templ == *templ2).
Clash(m) ==
  /\ up /\ Conflict(m.templates)
  /\ up' = FALSE /\ offers' = offers \ {m}
  /\ UNCHANGED <<scene, now, lastId, templates, auctions, copies, known, request, asked, bid, sent, taken>>

\* What the templates of an offer are to its auction: not its own two.
ObjectTemplates(ts) == {i \in DOMAIN ts : ts[i][1] \notin {"data", "option"}}

\* readAuctionData, readMiscAuctionData: a record for each of its two templates.
ReadRecords(m) == Union(m.data, m.option)

\* parseAuctionKey and Auction::Auction with AS_COPY_TEMPLATE.  What is in the message is
\* read as a file is: a stop of 0 is no time, and the offer is refused.
ReadAuction(m, i) ==
  LET w == AuctionWindow(m.data.window, now)
      r == ReadRecords(m)
  IN IF w = Refused THEN None
     ELSE [start |-> w.start, stop |-> w.stop, interval |-> i, align |-> FALSE,
           action |-> r.action, state |-> r.state, taken |-> now, of |-> m.of,
           given |-> m.templates, templates |-> ObjectTemplates(m.templates)]

\* readAuctionList.  After a refusal it ends without a return: what its caller makes
\* of the result may end the agent.
TakeOffer(m) ==
  /\ up /\ copies[m.name] = None /\ ~Conflict(m.templates)
  /\ offers' = offers \ {m}
  /\ known' = Union(known, m.templates)
  /\ \E i \in IntervalOf(m.data) : copies' = [copies EXCEPT ![m.name] = ReadAuction(m, i)]
  /\ up' \in {TRUE, copies'[m.name] # None}
  /\ UNCHANGED <<scene, now, lastId, templates, auctions, request, asked, bid, sent, taken>>

\* ResourceRequestFileParser::parse: the last interval may be read in a later second
\* than the first.
LoadRequest ==
  /\ scene = "request" /\ up /\ request = None
  /\ \E ps \in Requests, later \in now..MaxTime :
       LET read == [i \in 1..Len(ps) + 1 |-> IF i <= Len(ps) THEN now ELSE later]
           ws   == RequestWindows(ps, read)
       IN /\ ws # <<>>
          /\ request' = [prefs |-> ps, windows |-> ws, read |-> read]
          /\ now' = later
  /\ UNCHANGED <<scene, lastId, templates, auctions, offers, copies, known, asked, bid, sent, taken, up>>

\* ResourceRequest::getIntervalByStart
IntervalByStart(ws, start) ==
  ws[CHOOSE i \in DOMAIN ws : ws[i].start = start /\ \A j \in 1..i - 1 : ws[j].start # start]

\* MAPIResourceRequestParser::get_ipap_message, when interval i begins
AskFor(i) ==
  /\ up /\ request # None /\ i \in DOMAIN request.windows \ DOMAIN asked
  /\ request.windows[i].start <= now
  /\ asked' = Union([j \in {i} |-> IntervalByStart(request.windows, request.windows[i].start)], asked)
  /\ UNCHANGED <<scene, now, lastId, templates, auctions, offers, copies, known, request, bid, sent, taken, up>>

\* The windows a bid is installed with, from a module or a file.
MakeBid ==
  /\ scene = "bid" /\ up /\ bid = None
  /\ \E o \in Options :
       /\ OptionWindows(o, now) # <<>>
       /\ bid' = [options |-> o, windows |-> OptionWindows(o, now)]
  /\ UNCHANGED <<scene, now, lastId, templates, auctions, offers, copies, known, request, asked, sent, taken, up>>

\* MAPIBiddingObjectParser::get_ipap_message reckons them anew; a duration is a field
\* of the option like any other, and goes along.
SendBid ==
  /\ up /\ bid # None /\ sent = None
  /\ LET ws == OptionWindows(bid.options, now) IN
     sent' = [i \in DOMAIN ws |-> InMessage(ws[i], bid.options[i].duration)]
  /\ UNCHANGED <<scene, now, lastId, templates, auctions, offers, copies, known, request, asked, bid, taken, up>>

\* And the auctioneer once more; <<>> when it refuses the bid.
TakeBid ==
  /\ sent # None /\ taken = None
  /\ taken' = OptionWindows(sent, now)
  /\ UNCHANGED <<scene, now, lastId, templates, auctions, offers, copies, known, request, asked, bid, sent, up>>

Next ==
  \/ Tick \/ Restart \/ LoadRequest \/ MakeBid \/ SendBid \/ TakeBid
  \/ \E a \in Names : LoadAuction(a) \/ Activate(a) \/ SendOffer(a)
  \/ \E m \in offers : TakeOffer(m) \/ Clash(m)
  \/ \E i \in 1..2 : AskFor(i)

Spec == Init /\ [][Next]_vars

----------------------------------------------------------------------------
(* Properties *)

\* What the agent holds of an auction is the auction: its stop, its interval and its
\* action are those of the auctioneer, it starts when the auctioneer says or, if that
\* is over, at once; and an auction without an end is never held, for its stop of 0
\* cannot be read from a message.  Only the alignment is lost on the way.
SameAuction ==
  \A a \in Names : copies[a] # None =>
    LET x == copies[a] IN
    /\ x.of.stop # 0 /\ x.stop = x.of.stop /\ x.action = x.of.action
    /\ x.start = IF x.of.start < x.taken THEN x.taken ELSE x.of.start
    /\ x.of.interval > 0 => x.interval = x.of.interval

\* As long as the agent runs, a number in an auction it holds means the same template
\* to it as to the auctioneer that made the offer, restarts or not.
TemplatesAgree ==
  up => \A a \in Names : copies[a] # None =>
          \A i \in copies[a].templates : i \in DOMAIN known /\ known[i] = copies[a].given[i]

Moves(o) ==
  \/ \E i \in DOMAIN o : o[i].start.kind = "rel" \/ o[i].stop.kind = "rel"
  \/ ~Given(o[1].start) /\ ~Given(o[1].stop)

\* A bid reaches the auctioneer with the stops it was sent with and never with a
\* wider window than it was installed with, unless its times are relative to the
\* moment; it is refused there only if an option has no end.
BidKept ==
  taken # None /\ sent # None =>
    \/ taken = <<>> /\ \E i \in DOMAIN sent : sent[i].stop.n = 0
    \/ \A i \in DOMAIN sent :
         /\ taken[i].stop = sent[i].stop.n /\ taken[i].start >= sent[i].start.n
         /\ ~Moves(bid.options) => /\ taken[i].stop = bid.windows[i].stop
                                   /\ taken[i].start >= bid.windows[i].start

Backwards(p) == Given(p.stop) /\ p.duration.n > 0
Forward(w) == w.stop # 0 /\ w.start < w.stop

\* The intervals of a request that is accepted follow each other - so long as each has
\* an end after its start, and none is reckoned back from its end - none of them is
\* over when it is read, and then the auctioneer is asked for each of them once.
RequestInOrder ==
  request # None =>
    LET ws == request.windows
        ps == request.prefs
    IN /\ \A i \in DOMAIN ws : ws[i].start >= request.read[i + 1]
                              /\ (ws[i].stop = 0 \/ ws[i].stop > request.read[i + 1])
       /\ (\A i \in DOMAIN ws : Forward(ws[i]) /\ ~Backwards(ps[i])) =>
            /\ \A i, j \in DOMAIN ws : i < j => ws[i].stop <= ws[j].start
            /\ \A i \in DOMAIN asked : asked[i] = ws[i]
=============================================================================
