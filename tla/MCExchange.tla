----------------------------- MODULE MCExchange -----------------------------
(* One auction at a time, read at any second; every way to say a time occurs   *)
(* in an auction, in an option and in an interval of a request.                *)
EXTENDS Exchange

Says(start, stop, duration) == [start |-> start, stop |-> stop, duration |-> duration]

Pref(p, interval, align) == [start |-> p.start, stop |-> p.stop, duration |-> p.duration,
                             interval |-> interval, align |-> align]

MCPrefs ==
  {Pref(Says(Absent, Absent, Absent), 0, FALSE),
   Pref(Says(Date(3), Relative(4), Absent), 2, TRUE),
   Pref(Says(Absent, Seconds(6), Seconds(4)), 1, FALSE),
   Pref(Says(Relative(1), Absent, Seconds(3)), 1, TRUE),
   Pref(Says(Date(1), Date(2), Seconds(1)), 1, FALSE),
   Pref(Says(Junk, Date(2), Absent), 1, FALSE),
   Pref(Says(Date(1), Seconds(2), Absent), 1, FALSE)}

MCOptions ==
  {<<Says(Seconds(2), Seconds(5), Absent)>>,
   <<Says(Seconds(1), Absent, Seconds(3)), Says(Absent, Absent, Seconds(2))>>,
   <<Says(Absent, Absent, Seconds(3)), Says(Absent, Date(7), Seconds(2))>>,
   <<Says(Relative(1), Relative(3), Absent)>>,
   <<Says(Date(3), Date(6), Seconds(2))>>,
   <<Says(Seconds(2), Absent, Absent), Says(Absent, Absent, Seconds(1))>>,
   <<Says(Absent, Absent, Absent)>>}

Ways == {Says(Absent, Absent, Seconds(2)), Says(Date(3), Absent, Seconds(2)), Says(Relative(1), Relative(3), Absent),
         Says(Absent, Date(4), Absent), Says(Absent, Date(5), Seconds(3)), Says(Date(4), Date(3), Absent),
         Says(Seconds(3), Date(6), Absent), Says(Date(2), Absent, Absent), Says(Date(2), Date(2), Seconds(0))}
MCRequests == {<<p>> : p \in Ways} \cup {<<p, q>> : p \in Ways, q \in Ways}
=============================================================================
