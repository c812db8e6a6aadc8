----------------------------- MODULE Intervals -----------------------------
(***************************************************************************)
(* How the programs read the time an object runs.  Files and messages give *)
(* a start, a stop and a duration, any of which may be missing; there are  *)
(* three readers - of auctions, of the options of a bid, of the intervals  *)
(* of a resource request - and each has rules of its own.  Times are       *)
(* seconds; 0 is "no stop".                                                *)
(***************************************************************************)
EXTENDS Integers, Sequences

\* What is written for a time: nothing, seconds from now ("+5"), seconds since the
\* epoch ("17"), a date, or something else.  The number of a date is what mktime
\* makes of it, which may be an hour off what was written: strptime leaves tm_isdst
\* as it was on the stack.
Absent == [kind |-> "none", n |-> 0]
Relative(n) == [kind |-> "rel", n |-> n]
Seconds(n) == [kind |-> "secs", n |-> n]
Date(n) == [kind |-> "date", n |-> n]
Junk == [kind |-> "junk", n |-> 0]

Given(v) == v.kind # "none"

\* What an object may say of its times.
Moment == [kind : {"none", "rel", "secs", "date", "junk"}, n : Nat]
Said == [start : Moment, stop : Moment, duration : Moment]

Refused == [start |-> -1, stop |-> -1]

\* ParserFcts::parseTime; 0 for what cannot be read, and for "0".
ParseTime(v, now) ==
  CASE v.kind = "rel" -> now + v.n
    [] v.kind \in {"secs", "date"} -> v.n
    [] OTHER -> 0

\* ResourceRequestFileParser::parseTime does not know plain seconds.
ParseRequestTime(v, now) == IF v.kind = "secs" THEN 0 ELSE ParseTime(v, now)

Reads(v, t) == Given(v) => t # 0

\* Start and stop once the duration is counted in: backwards from a stop.
Window(start, stop, duration) ==
  CASE duration > 0 /\ stop # 0 -> [start |-> stop - duration, stop |-> stop]
    [] duration > 0 /\ stop = 0 -> [start |-> start, stop |-> start + duration]
    [] OTHER -> [start |-> start, stop |-> stop]

\* Mutant: a late start stays in the past.
LateKept(w, now) == w

\* Start late tasks immediately.
Late(w, now) == [w EXCEPT !.start = IF w.start < now THEN now ELSE w.start]

----------------------------------------------------------------------------
\* Auction::Auction.  An auction that is over already is only logged.
AuctionWindow(p, now) ==
  LET start == IF Given(p.start) THEN ParseTime(p.start, now) ELSE now
      stop  == ParseTime(p.stop, now)
  IN IF \/ Given(p.start) /\ Given(p.stop) /\ Given(p.duration)
        \/ ~Reads(p.start, start) \/ ~Reads(p.stop, stop)
     THEN Refused
     ELSE Late(Window(start, stop, p.duration.n), now)

\* Mutant: an option with only a duration begins at once.
OptionWindowNow(p, last, now) ==
  LET start == IF Given(p.start) THEN ParseTime(p.start, now) ELSE now
      stop  == ParseTime(p.stop, now)
  IN IF \/ ~Given(p.start) /\ ~Given(p.stop) /\ ~Given(p.duration)
        \/ ~Reads(p.start, start) \/ ~Reads(p.stop, stop)
     THEN Refused
     ELSE Late(Window(start, stop, p.duration.n), now)

\* BiddingObject::calculateIntervals, for one option; last is the stop of the option
\* before it.  What is refused with "illegal to specify: start+stop+duration time"
\* is an option that has none of them.
OptionWindow(p, last, now) ==
  LET start == ParseTime(p.start, now)
      stop  == ParseTime(p.stop, now)
      from  == IF p.duration.n > 0 /\ stop = 0 /\ start = 0 THEN last ELSE start
  IN IF \/ ~Given(p.start) /\ ~Given(p.stop) /\ ~Given(p.duration)
        \/ ~Reads(p.start, start) \/ ~Reads(p.stop, stop)
     THEN Refused
     ELSE Late(Window(from, stop, p.duration.n), now)

\* All options of a bid, or nothing when one of them is refused.
OptionWindows(options, now) ==
  LET w[i \in 0..Len(options)] ==
        IF i = 0 THEN [start |-> now, stop |-> now]
        ELSE IF w[i - 1] = Refused THEN Refused
        ELSE OptionWindow(options[i], w[i - 1].stop, now)
  IN IF w[Len(options)] = Refused THEN <<>> ELSE [i \in 1..Len(options) |-> w[i]]

\* Mutant: what is given is not held against the interval before.
RequestWindowLoose(p, bound, now) ==
  LET start == IF Given(p.start) THEN ParseRequestTime(p.start, now) ELSE bound
      stop  == ParseRequestTime(p.stop, now)
      w     == Window(start, stop, p.duration.n)
  IN IF \/ Given(p.start) /\ Given(p.stop) /\ Given(p.duration)
        \/ ~Reads(p.start, start) \/ ~Reads(p.stop, stop)
        \/ w.stop # 0 /\ w.stop <= now
     THEN Refused
     ELSE Late(w, now)

\* ResourceRequestFileParser::calculateInterval; bound is what it returned for the
\* interval before.
RequestWindow(p, bound, now) ==
  LET start == IF Given(p.start) THEN ParseRequestTime(p.start, now) ELSE bound
      stop  == ParseRequestTime(p.stop, now)
      w     == Window(start, stop, p.duration.n)
  IN IF \/ Given(p.start) /\ Given(p.stop) /\ Given(p.duration)
        \/ ~Reads(p.start, start) \/ (Given(p.start) /\ start < bound)
        \/ ~Reads(p.stop, stop) \/ (Given(p.stop) /\ stop < bound)
        \/ w.stop # 0 /\ w.stop <= now
     THEN Refused
     ELSE Late(w, now)

\* The intervals of a request: now[1] is when the request is begun, now[i + 1] when
\* its i-th interval is read.  One that is refused refuses the file.
RequestWindows(ps, now) ==
  LET w[i \in 0..Len(ps)] ==
        IF i = 0 THEN [start |-> now[1], stop |-> now[1]]
        ELSE IF w[i - 1] = Refused THEN Refused
        ELSE RequestWindow(ps[i], w[i - 1].stop, now[i + 1])
  IN IF w[Len(ps)] = Refused THEN <<>> ELSE [i \in 1..Len(ps) |-> w[i]]

\* What a message says of a window: both of its ends, in seconds.
InMessage(w, duration) == [start |-> Seconds(w.start), stop |-> Seconds(w.stop), duration |-> duration]
=============================================================================
