--------------------------- MODULE Exchange_proofs ---------------------------
(***************************************************************************)
(* What an auction, a request and a bid are after they were read again, for *)
(* everything that files may say, for lists of any length, and for any time *)
(* between two readings.                                                    *)
(*                                                                         *)
(* The two readers of lists are recursive functions.  That such a function  *)
(* exists, and what holds of all its values, is shown by the least number   *)
(* for which it would not.                                                  *)
(***************************************************************************)
EXTENDS Exchange, FiniteSetTheorems, SequenceTheorems, WellFoundedInduction, TLAPS

Windows == [start : Int, stop : Nat] \cup {Refused}

-----------------------------------------------------------------------------
(***************************************************************************)
(* Functions that are defined by recursion over numbers.                   *)
(***************************************************************************)
\* A set of numbers that is not empty has a least one.
LEMMA LeastNumber ==
  ASSUME NEW T \in SUBSET Nat, T # {}
  PROVE  \E n \in T : \A m \in T : n <= m
<1> DEFINE R == OpToRel(<, Nat)
<1>1. \E n \in T : \A m \in T : <<m, n>> \notin R
  <2>1. IsWellFoundedOn(R, Nat)
    BY NatLessThanWellFounded
  <2> HIDE DEF R
  <2> QED
    BY <2>1, WFMin
<1>2. \A m, n \in Nat : <<m, n>> \in R <=> m < n
  BY DEF OpToRel
<1> HIDE DEF R
<1>3. PICK n \in T : \A m \in T : <<m, n>> \notin R
  BY <1>1
<1>4. ASSUME NEW m \in T PROVE n <= m
  <2>1. ~(m < n)
    BY <1>2, <1>3
  <2> QED
    BY <2>1
<1> QED
  BY <1>4

\* Numbers that contain 0, and with a number the next, are all numbers up to the last.
LEMMA AllNumbers ==
  ASSUME NEW n \in Nat, NEW T, 0 \in T, \A i \in 0 .. n : i \in T /\ i < n => i + 1 \in T
  PROVE  0 .. n \subseteq T
<1> SUFFICES ASSUME ~(0 .. n \subseteq T) PROVE FALSE
  OBVIOUS
<1> DEFINE Others == {i \in 0 .. n : i \notin T}
<1>1. PICK i \in Others : \A j \in Others : i <= j
  <2>1. Others \in SUBSET Nat /\ Others # {}
    OBVIOUS
  <2> QED
    BY <2>1, LeastNumber
<1>2. i \in 0 .. n /\ i \notin T /\ i # 0
  BY <1>1
<1>3. i - 1 \in 0 .. n /\ i - 1 < n /\ i - 1 \notin Others
  BY <1>1, <1>2
<1>4. i - 1 \in T /\ (i - 1) + 1 = i
  BY <1>2, <1>3
<1> QED
  BY <1>2, <1>3, <1>4

\* What follows a value of W at each of n numbers.
Steps(n, W) == [1 .. n -> [W -> W]]

Recursive(f, n, W, a, step) ==
  f \in [0 .. n -> W] /\ f[0] = a /\ \A i \in 1 .. n : f[i] = step[i][f[i - 1]]

\* A value for 0, and for each number a value from the one before, make a function.
LEMMA Recursion ==
  ASSUME NEW n \in Nat, NEW W, NEW a \in W, NEW step \in Steps(n, W)
  PROVE  \E f : Recursive(f, n, W, a, step)
<1> USE DEF Steps, Recursive
<1> DEFINE Upto(k, f) == f[0] = a /\ \A i \in 1 .. k : f[i] = step[i][f[i - 1]]
           T == {k \in 0 .. n : \E f \in [0 .. k -> W] : Upto(k, f)}
<1>1. 0 \in T
  <2> DEFINE g == [i \in 0 .. 0 |-> a]
  <2>1. g \in [0 .. 0 -> W] /\ Upto(0, g) /\ 0 \in 0 .. n
    OBVIOUS
  <2> HIDE DEF g, Upto
  <2> QED
    BY <2>1
<1>2. ASSUME NEW k \in 0 .. n, k \in T, k < n PROVE k + 1 \in T
  <2>1. PICK f \in [0 .. k -> W] : Upto(k, f)
    BY <1>2
  <2> DEFINE g == [i \in 0 .. k + 1 |-> IF i <= k THEN f[i] ELSE step[k + 1][f[k]]]
  <2>2. f[k] \in W /\ k + 1 \in 1 .. n
    BY <1>2
  <2>3. step[k + 1][f[k]] \in W
    BY <2>2
  <2>4. g \in [0 .. k + 1 -> W]
    BY <2>3
  <2>5. g[0] = a
    BY <2>1
  <2>6. ASSUME NEW i \in 1 .. k + 1 PROVE g[i] = step[i][g[i - 1]]
    BY <2>1
  <2>7. Upto(k + 1, g)
    BY <2>5, <2>6
  <2> HIDE DEF g
  <2> QED
    BY <2>2, <2>4, <2>7
<1>3. 0 .. n \subseteq T
  <2> HIDE DEF T
  <2> QED
    BY <1>1, <1>2, AllNumbers
<1>4. n \in T
  BY <1>3
<1> QED
  BY <1>4

-----------------------------------------------------------------------------
(***************************************************************************)
(* The readers.                                                            *)
(***************************************************************************)
\* What the readers return are windows, or a refusal.
LEMMA WindowType ==
  ASSUME NEW start \in Nat, NEW stop \in Nat, NEW d \in Nat, NEW t \in Nat
  PROVE  Late(Window(start, stop, d), t) \in Windows
<1> DEFINE w == Window(start, stop, d)
<1>1. w = [start |-> w.start, stop |-> w.stop] /\ w.start \in Int /\ w.stop \in Nat
  BY DEF Window
<1> HIDE DEF w
<1>2. Late(w, t) = [start |-> IF w.start < t THEN t ELSE w.start, stop |-> w.stop]
  BY <1>1 DEF Late
<1> QED
  BY <1>1, <1>2 DEF Windows, w

LEMMA OptionWindowType ==
  ASSUME NEW p \in Said, NEW last \in Nat, NEW t \in Nat
  PROVE  OptionWindow(p, last, t) \in Windows
<1> DEFINE start == ParseTime(p.start, t)
           stop == ParseTime(p.stop, t)
           from == IF p.duration.n > 0 /\ stop = 0 /\ start = 0 THEN last ELSE start
<1>1. from \in Nat /\ stop \in Nat /\ p.duration.n \in Nat
  BY DEF ParseTime, Said, Moment
<1>2. OptionWindow(p, last, t) \in {Refused, Late(Window(from, stop, p.duration.n), t)}
  BY DEF OptionWindow
<1> HIDE DEF from, stop
<1> QED
  BY <1>1, <1>2, WindowType DEF Windows

LEMMA RequestWindowType ==
  ASSUME NEW p \in Said, NEW bound \in Nat, NEW t \in Nat
  PROVE  RequestWindow(p, bound, t) \in Windows
<1> DEFINE start == IF Given(p.start) THEN ParseRequestTime(p.start, t) ELSE bound
           stop == ParseRequestTime(p.stop, t)
<1>1. start \in Nat /\ stop \in Nat /\ p.duration.n \in Nat
  BY DEF ParseRequestTime, ParseTime, Said, Moment
<1>2. RequestWindow(p, bound, t) \in {Refused, Late(Window(start, stop, p.duration.n), t)}
  BY DEF RequestWindow
<1> HIDE DEF start, stop
<1> QED
  BY <1>1, <1>2, WindowType DEF Windows

\* f holds what is read from the options o at t, and the moment before the first.
OptionsRead(o, t, f) ==
  f = [i \in 0 .. Len(o) |->
         IF i = 0 THEN [start |-> t, stop |-> t]
         ELSE IF f[i - 1] = Refused THEN Refused
         ELSE OptionWindow(o[i], f[i - 1].stop, t)]

LEMMA OptionsReadExists ==
  ASSUME NEW o \in Seq(Said), NEW t \in Nat
  PROVE  \E f : f \in [0 .. Len(o) -> Windows] /\ OptionsRead(o, t, f)
<1> DEFINE n == Len(o)
           first == [start |-> t, stop |-> t]
           step == [i \in 1 .. n |-> [w \in Windows |->
                      IF w = Refused THEN Refused ELSE OptionWindow(o[i], w.stop, t)]]
<1>1. n \in Nat /\ first \in Windows /\ Refused \in Windows
  BY DEF Windows, Refused
<1>2. step \in [1 .. n -> [Windows -> Windows]]
  <2> SUFFICES ASSUME NEW i \in 1 .. n, NEW w \in Windows
               PROVE  (IF w = Refused THEN Refused ELSE OptionWindow(o[i], w.stop, t)) \in Windows
    OBVIOUS
  <2>1. o[i] \in Said /\ (w # Refused => w.stop \in Nat)
    BY DEF Windows
  <2> QED
    BY <1>1, <2>1, OptionWindowType
<1>3. \A i \in 1 .. n : \A w \in Windows :
        step[i][w] = IF w = Refused THEN Refused ELSE OptionWindow(o[i], w.stop, t)
  OBVIOUS
<1> HIDE DEF step, first
<1>4. PICK f : Recursive(f, n, Windows, first, step)
  <2>1. step \in Steps(n, Windows)
    BY <1>2 DEF Steps
  <2> HIDE DEF n
  <2> QED
    BY <1>1, <2>1, Recursion
<1>5. ASSUME NEW i \in 1 .. n
      PROVE  f[i] = IF f[i - 1] = Refused THEN Refused ELSE OptionWindow(o[i], f[i - 1].stop, t)
  <2>1. f[i - 1] \in Windows
    BY <1>1, <1>4 DEF Recursive
  <2> QED
    BY <1>3, <1>4, <2>1 DEF Recursive
<1>6. OptionsRead(o, t, f)
  BY <1>1, <1>4, <1>5 DEF OptionsRead, Recursive, first
<1> QED
  BY <1>4, <1>6 DEF Recursive

LEMMA OptionWindowsRead ==
  ASSUME NEW o \in Seq(Said), NEW t \in Nat
  PROVE  \E f : /\ OptionsRead(o, t, f)
                /\ OptionWindows(o, t) = IF f[Len(o)] = Refused THEN <<>> ELSE [i \in 1 .. Len(o) |-> f[i]]
<1> DEFINE f == CHOOSE f : OptionsRead(o, t, f)
<1>1. OptionsRead(o, t, f)
  BY OptionsReadExists, Zenon
<1>2. OptionWindows(o, t) = IF f[Len(o)] = Refused THEN <<>> ELSE [i \in 1 .. Len(o) |-> f[i]]
  BY Zenon DEF OptionWindows, OptionsRead
<1> HIDE DEF f
<1> QED
  BY <1>1, <1>2

\* After a refusal everything is refused, so the last tells of all.
LEMMA RefusalStays ==
  ASSUME NEW n \in Nat, NEW f, f[0] # Refused, \A i \in 1 .. n : f[i - 1] = Refused => f[i] = Refused
  PROVE  \/ \A i \in 0 .. n : f[i] # Refused
         \/ /\ f[n] = Refused
            /\ \E i \in 1 .. n : f[i] = Refused /\ f[i - 1] # Refused
<1> SUFFICES ASSUME ~ \A i \in 0 .. n : f[i] # Refused
             PROVE  f[n] = Refused /\ \E i \in 1 .. n : f[i] = Refused /\ f[i - 1] # Refused
  OBVIOUS
<1> DEFINE R == {i \in 0 .. n : f[i] = Refused}
           T == {i \in 0 .. n : f[n] # Refused => f[n - i] # Refused}
<1>1. PICK i \in R : \A j \in R : i <= j
  <2>1. R \in SUBSET Nat /\ R # {}
    OBVIOUS
  <2> QED
    BY <2>1, LeastNumber
<1>2. i \in 1 .. n /\ f[i - 1] # Refused /\ f[i] = Refused
  BY <1>1
<1>3. 0 .. n \subseteq T
  <2>1. 0 \in T
    OBVIOUS
  <2>2. ASSUME NEW j \in 0 .. n, j \in T, j < n PROVE j + 1 \in T
    <3>1. n - j \in 1 .. n /\ (n - j) - 1 = n - (j + 1)
      BY <2>2
    <3>2. f[n - (j + 1)] = Refused => f[n - j] = Refused
      BY <3>1
    <3> QED
      BY <2>2, <3>2
  <2> HIDE DEF T
  <2> QED
    BY <2>1, <2>2, AllNumbers
<1>4. n - i \in 0 .. n /\ n - (n - i) = i
  BY <1>2
<1>5. \A j \in 0 .. n : f[n] # Refused => f[n - j] # Refused
  BY <1>3
<1> QED
  BY <1>2, <1>4, <1>5

\* ws are the windows of the options o when they are read at t, none of them refused.
WindowsOf(o, t, ws) ==
  /\ ws \in [1 .. Len(o) -> Windows]
  /\ \A i \in 1 .. Len(o) :
       /\ ws[i] # Refused
       /\ ws[i] = OptionWindow(o[i], IF i = 1 THEN t ELSE ws[i - 1].stop, t)

\* A list of options is refused when one of them is, and then it has no windows.
LEMMA OptionWindowsAre ==
  ASSUME NEW o \in Seq(Said), NEW t \in Nat
  PROVE  \/ /\ OptionWindows(o, t) = <<>>
            /\ \E i \in 1 .. Len(o) : \E last \in Nat : OptionWindow(o[i], last, t) = Refused
         \/ WindowsOf(o, t, OptionWindows(o, t))
<1>1. PICK f : /\ OptionsRead(o, t, f)
               /\ OptionWindows(o, t) = IF f[Len(o)] = Refused THEN <<>> ELSE [i \in 1 .. Len(o) |-> f[i]]
  BY OptionWindowsRead
<1> DEFINE n == Len(o)
<1>2. /\ n \in Nat
      /\ f[0] = [start |-> t, stop |-> t]
      /\ \A i \in 1 .. n : f[i] = IF f[i - 1] = Refused THEN Refused ELSE OptionWindow(o[i], f[i - 1].stop, t)
  <2>1. n \in Nat
    OBVIOUS
  <2>2. f = [i \in 0 .. n |->
               IF i = 0 THEN [start |-> t, stop |-> t]
               ELSE IF f[i - 1] = Refused THEN Refused
               ELSE OptionWindow(o[i], f[i - 1].stop, t)]
    BY <1>1, Zenon DEF OptionsRead
  <2> HIDE DEF n
  <2> QED
    BY <2>1, <2>2
<1>3. f[0] \in Windows /\ f[0] # Refused
  BY <1>2 DEF Windows, Refused
<1>4. \A i \in 0 .. n : f[i] \in Windows
  <2> DEFINE T == {i \in 0 .. n : f[i] \in Windows}
  <2>1. 0 \in T
    BY <1>2, <1>3
  <2>2. ASSUME NEW i \in 0 .. n, i \in T, i < n PROVE i + 1 \in T
    <3>1. f[i + 1] = IF f[i] = Refused THEN Refused ELSE OptionWindow(o[i + 1], f[i].stop, t)
      BY <1>2, <2>2
    <3>2. o[i + 1] \in Said /\ (f[i] # Refused => f[i].stop \in Nat) /\ Refused \in Windows
      BY <2>2 DEF Windows, Refused
    <3>3. f[i] # Refused => OptionWindow(o[i + 1], f[i].stop, t) \in Windows
      BY <3>2, OptionWindowType
    <3> QED
      BY <2>2, <3>1, <3>2, <3>3
  <2>3. 0 .. n \subseteq T
    <3> HIDE DEF T
    <3> QED
      BY <1>2, <2>1, <2>2, AllNumbers
  <2> QED
    BY <2>3
<1>5. CASE \A i \in 0 .. n : f[i] # Refused
  <2>1. OptionWindows(o, t) = [i \in 1 .. n |-> f[i]]
    BY <1>1, <1>2, <1>5
  <2> DEFINE ws == OptionWindows(o, t)
  <2>2. ws \in [1 .. n -> Windows]
    BY <1>4, <2>1
  <2>3. ASSUME NEW i \in 1 .. n
        PROVE  ws[i] # Refused /\ ws[i] = OptionWindow(o[i], IF i = 1 THEN t ELSE ws[i - 1].stop, t)
    <3>1. ws[i] = f[i] /\ f[i] # Refused /\ f[i - 1] # Refused
      BY <1>2, <1>5, <2>1
    <3>2. f[i - 1].stop = IF i = 1 THEN t ELSE ws[i - 1].stop
      BY <1>2, <2>1
    <3> QED
      BY <1>2, <3>1, <3>2
  <2> QED
    BY <2>2, <2>3 DEF WindowsOf
<1>6. CASE /\ f[n] = Refused
            /\ \E i \in 1 .. n : f[i] = Refused /\ f[i - 1] # Refused
  <2>1. PICK i \in 1 .. n : f[i] = Refused /\ f[i - 1] # Refused
    BY <1>6
  <2>2. OptionWindow(o[i], f[i - 1].stop, t) = Refused /\ f[i - 1].stop \in Nat
    BY <1>2, <1>4, <2>1 DEF Windows
  <2> QED
    BY <1>1, <1>6, <2>2
<1>7. \A i \in 1 .. n : f[i - 1] = Refused => f[i] = Refused
  BY <1>2
<1> HIDE DEF n
<1> QED
  BY <1>2, <1>3, <1>5, <1>6, <1>7, RefusalStays

\* The same for the intervals of a request, which are read at times of their own.
IntervalsRead(ps, t, f) ==
  f = [i \in 0 .. Len(ps) |->
         IF i = 0 THEN [start |-> t[1], stop |-> t[1]]
         ELSE IF f[i - 1] = Refused THEN Refused
         ELSE RequestWindow(ps[i], f[i - 1].stop, t[i + 1])]

LEMMA IntervalsReadExists ==
  ASSUME NEW ps \in Seq(Said), NEW t \in [1 .. Len(ps) + 1 -> Nat]
  PROVE  \E f : f \in [0 .. Len(ps) -> Windows] /\ IntervalsRead(ps, t, f)
<1> DEFINE n == Len(ps)
           first == [start |-> t[1], stop |-> t[1]]
           step == [i \in 1 .. n |-> [w \in Windows |->
                      IF w = Refused THEN Refused ELSE RequestWindow(ps[i], w.stop, t[i + 1])]]
<1>1. n \in Nat /\ first \in Windows /\ Refused \in Windows
  BY DEF Windows, Refused
<1>2. step \in [1 .. n -> [Windows -> Windows]]
  <2> SUFFICES ASSUME NEW i \in 1 .. n, NEW w \in Windows
               PROVE  (IF w = Refused THEN Refused ELSE RequestWindow(ps[i], w.stop, t[i + 1])) \in Windows
    OBVIOUS
  <2>1. ps[i] \in Said /\ (w # Refused => w.stop \in Nat) /\ t[i + 1] \in Nat
    BY DEF Windows
  <2> QED
    BY <1>1, <2>1, RequestWindowType
<1>3. \A i \in 1 .. n : \A w \in Windows :
        step[i][w] = IF w = Refused THEN Refused ELSE RequestWindow(ps[i], w.stop, t[i + 1])
  OBVIOUS
<1> HIDE DEF step, first
<1>4. PICK f : Recursive(f, n, Windows, first, step)
  <2>1. step \in Steps(n, Windows)
    BY <1>2 DEF Steps
  <2> HIDE DEF n
  <2> QED
    BY <1>1, <2>1, Recursion
<1>5. ASSUME NEW i \in 1 .. n
      PROVE  f[i] = IF f[i - 1] = Refused THEN Refused ELSE RequestWindow(ps[i], f[i - 1].stop, t[i + 1])
  <2>1. f[i - 1] \in Windows
    BY <1>1, <1>4 DEF Recursive
  <2> QED
    BY <1>3, <1>4, <2>1 DEF Recursive
<1>6. IntervalsRead(ps, t, f)
  BY <1>1, <1>4, <1>5 DEF IntervalsRead, Recursive, first
<1> QED
  BY <1>4, <1>6 DEF Recursive

LEMMA RequestWindowsRead ==
  ASSUME NEW ps \in Seq(Said), NEW t \in [1 .. Len(ps) + 1 -> Nat]
  PROVE  \E f : /\ IntervalsRead(ps, t, f)
                /\ RequestWindows(ps, t) = IF f[Len(ps)] = Refused THEN <<>> ELSE [i \in 1 .. Len(ps) |-> f[i]]
<1> DEFINE f == CHOOSE f : IntervalsRead(ps, t, f)
<1>1. IntervalsRead(ps, t, f)
  BY IntervalsReadExists, Zenon
<1>2. RequestWindows(ps, t) = IF f[Len(ps)] = Refused THEN <<>> ELSE [i \in 1 .. Len(ps) |-> f[i]]
  BY Zenon DEF RequestWindows, IntervalsRead
<1> HIDE DEF f
<1> QED
  BY <1>1, <1>2

\* ws are the windows of the intervals ps, none of them refused.
IntervalsOf(ps, t, ws) ==
  /\ ws \in [1 .. Len(ps) -> Windows]
  /\ \A i \in 1 .. Len(ps) :
       /\ ws[i] # Refused
       /\ ws[i] = RequestWindow(ps[i], IF i = 1 THEN t[1] ELSE ws[i - 1].stop, t[i + 1])

LEMMA RequestWindowsAre ==
  ASSUME NEW ps \in Seq(Said), NEW t \in [1 .. Len(ps) + 1 -> Nat]
  PROVE  RequestWindows(ps, t) = <<>> \/ IntervalsOf(ps, t, RequestWindows(ps, t))
<1>1. PICK f : /\ IntervalsRead(ps, t, f)
               /\ RequestWindows(ps, t) = IF f[Len(ps)] = Refused THEN <<>> ELSE [i \in 1 .. Len(ps) |-> f[i]]
  BY RequestWindowsRead
<1> DEFINE n == Len(ps)
<1>2. /\ n \in Nat
      /\ f[0] = [start |-> t[1], stop |-> t[1]]
      /\ \A i \in 1 .. n : f[i] = IF f[i - 1] = Refused THEN Refused ELSE RequestWindow(ps[i], f[i - 1].stop, t[i + 1])
  <2>1. n \in Nat
    OBVIOUS
  <2>2. f = [i \in 0 .. n |->
               IF i = 0 THEN [start |-> t[1], stop |-> t[1]]
               ELSE IF f[i - 1] = Refused THEN Refused
               ELSE RequestWindow(ps[i], f[i - 1].stop, t[i + 1])]
    BY <1>1, Zenon DEF IntervalsRead
  <2>3. f[0] = [start |-> t[1], stop |-> t[1]]
    BY <2>1, <2>2
  <2> HIDE DEF n
  <2>4. ASSUME NEW i \in 1 .. n
        PROVE  f[i] = IF f[i - 1] = Refused THEN Refused ELSE RequestWindow(ps[i], f[i - 1].stop, t[i + 1])
    <3>1. i \in 0 .. n /\ i # 0
      BY <2>1
    <3> QED
      BY <2>2, <3>1, Zenon
  <2> QED
    BY <2>1, <2>3, <2>4
<1>3. f[0] \in Windows /\ f[0] # Refused
  <2>1. t[1] \in Nat
    BY <1>2
  <2> QED
    BY <1>2, <2>1 DEF Windows, Refused
<1>4. \A i \in 0 .. n : f[i] \in Windows
  <2> DEFINE T == {i \in 0 .. n : f[i] \in Windows}
  <2>1. 0 \in T
    BY <1>2, <1>3
  <2>2. ASSUME NEW i \in 0 .. n, i \in T, i < n PROVE i + 1 \in T
    <3>1. f[i + 1] = IF f[i] = Refused THEN Refused ELSE RequestWindow(ps[i + 1], f[i].stop, t[i + 1 + 1])
      BY <1>2, <2>2
    <3>2. ps[i + 1] \in Said /\ (f[i] # Refused => f[i].stop \in Nat) /\ Refused \in Windows /\ t[i + 1 + 1] \in Nat
      BY <2>2 DEF Windows, Refused
    <3>3. f[i] # Refused => RequestWindow(ps[i + 1], f[i].stop, t[i + 1 + 1]) \in Windows
      BY <3>2, RequestWindowType
    <3> QED
      BY <2>2, <3>1, <3>2, <3>3
  <2>3. 0 .. n \subseteq T
    <3> HIDE DEF T
    <3> QED
      BY <1>2, <2>1, <2>2, AllNumbers
  <2> QED
    BY <2>3
<1>5. CASE \A i \in 0 .. n : f[i] # Refused
  <2>1. RequestWindows(ps, t) = [i \in 1 .. n |-> f[i]]
    BY <1>1, <1>2, <1>5
  <2> DEFINE ws == RequestWindows(ps, t)
  <2>2. ws \in [1 .. n -> Windows]
    BY <1>4, <2>1
  <2>3. ASSUME NEW i \in 1 .. n
        PROVE  ws[i] # Refused /\ ws[i] = RequestWindow(ps[i], IF i = 1 THEN t[1] ELSE ws[i - 1].stop, t[i + 1])
    <3>1. ws[i] = f[i] /\ f[i] # Refused /\ f[i - 1] # Refused
      BY <1>2, <1>5, <2>1
    <3>2. f[i - 1].stop = IF i = 1 THEN t[1] ELSE ws[i - 1].stop
      BY <1>2, <2>1
    <3> QED
      BY <1>2, <3>1, <3>2
  <2> QED
    BY <2>2, <2>3 DEF IntervalsOf
<1>6. CASE f[n] = Refused
  BY <1>1, <1>6
<1>7. \A i \in 1 .. n : f[i - 1] = Refused => f[i] = Refused
  BY <1>2
<1> HIDE DEF n
<1> QED
  BY <1>2, <1>3, <1>5, <1>6, <1>7, RefusalStays

-----------------------------------------------------------------------------
(***************************************************************************)
(* What is read of a bid.                                                  *)
(***************************************************************************)
\* What is not refused starts now or later.
LEMMA OptionInTime ==
  ASSUME NEW p \in Said, NEW last \in Nat, NEW t \in Nat, OptionWindow(p, last, t) # Refused
  PROVE  OptionWindow(p, last, t).stop \in Nat /\ OptionWindow(p, last, t).start >= t
BY DEF OptionWindow, Said, Moment, ParseTime, Window, Late, Refused

LEMMA OptionsInTime ==
  ASSUME NEW o \in Seq(Said), NEW t \in Nat, NEW ws, WindowsOf(o, t, ws)
  PROVE  \A i \in 1 .. Len(o) : ws[i].stop \in Nat /\ ws[i].start >= t
<1> DEFINE n == Len(o)
           T == {i \in 0 .. n : i # 0 => ws[i].stop \in Nat /\ ws[i].start >= t}
<1>1. n \in Nat /\ 0 \in T
  OBVIOUS
<1>2. ASSUME NEW i \in 0 .. n, i \in T, i < n PROVE i + 1 \in T
  <2> DEFINE last == IF i + 1 = 1 THEN t ELSE ws[i].stop
  <2>1. /\ i + 1 \in 1 .. n /\ (i + 1) - 1 = i /\ o[i + 1] \in Said
        /\ ws[i + 1] # Refused /\ ws[i + 1] = OptionWindow(o[i + 1], last, t)
    BY <1>1, <1>2, SMTT(30) DEF WindowsOf
  <2>2. last \in Nat
    BY <1>2
  <2> HIDE DEF last
  <2>3. ws[i + 1].stop \in Nat /\ ws[i + 1].start >= t
    BY <2>1, <2>2, OptionInTime
  <2> QED
    BY <2>1, <2>3
<1>3. 0 .. n \subseteq T
  <2> HIDE DEF T
  <2> QED
    BY <1>1, <1>2, AllNumbers
<1> QED
  BY <1>3

\* The two ends of an option that is not refused.
OptionFrom(start, stop, d, last) ==
  IF d > 0 /\ stop # 0 THEN stop - d ELSE IF d > 0 /\ start = 0 THEN last ELSE start
OptionTo(start, stop, d, last) ==
  IF d > 0 /\ stop = 0 THEN OptionFrom(start, stop, d, last) + d ELSE stop

LEMMA OptionEnds ==
  ASSUME NEW p \in Said, NEW last \in Nat, NEW t \in Nat,
         NEW start, start = ParseTime(p.start, t), NEW stop, stop = ParseTime(p.stop, t),
         OptionWindow(p, last, t) # Refused
  PROVE  /\ Reads(p.start, start) /\ Reads(p.stop, stop)
         /\ OptionWindow(p, last, t).stop = OptionTo(start, stop, p.duration.n, last)
         /\ OptionWindow(p, last, t).start =
              IF OptionFrom(start, stop, p.duration.n, last) < t THEN t
              ELSE OptionFrom(start, stop, p.duration.n, last)
<1> DEFINE from == IF p.duration.n > 0 /\ stop = 0 /\ start = 0 THEN last ELSE start
           v == Window(from, stop, p.duration.n)
<1>1. start \in Nat /\ stop \in Nat /\ p.duration.n \in Nat /\ from \in Nat
  BY DEF ParseTime, Said, Moment
<1>2. Reads(p.start, start) /\ Reads(p.stop, stop) /\ OptionWindow(p, last, t) = Late(v, t)
  BY Zenon DEF OptionWindow
<1>3. /\ v.start = OptionFrom(start, stop, p.duration.n, last)
      /\ v.stop = OptionTo(start, stop, p.duration.n, last)
      /\ v \in Windows
  BY <1>1 DEF Window, OptionFrom, OptionTo, Windows
<1>4. Late(v, t).stop = v.stop /\ Late(v, t).start = IF v.start < t THEN t ELSE v.start
  BY <1>3 DEF Late, Windows
<1> QED
  BY <1>2, <1>3, <1>4, Zenon

\* An option that is read again from a message is refused only if it has no end, and
\* keeps its end and does not begin earlier.
LEMMA OptionAgain ==
  ASSUME NEW p \in Said, NEW last \in Nat, NEW before \in Nat,
         NEW t \in Nat \ {0}, NEW u \in Nat, t <= u,
         NEW w, w = OptionWindow(p, last, t), w # Refused,
         NEW r, r = OptionWindow(InMessage(w, p.duration), before, u)
  PROVE  /\ InMessage(w, p.duration) \in Said
         /\ r = Refused => w.stop = 0
         /\ r # Refused => r.stop = w.stop /\ r.start >= w.start
<1> DEFINE q == InMessage(w, p.duration)
           start == ParseTime(p.start, t)
           stop == ParseTime(p.stop, t)
           d == p.duration.n
<1>1. start \in Nat /\ stop \in Nat /\ d \in Nat
  BY DEF ParseTime, Said, Moment
<1>2. w.stop \in Nat /\ w.start \in Nat /\ w.start >= t
  <2>1. w.stop \in Nat /\ w.start >= t
    BY OptionInTime
  <2>2. w.start \in Int
    BY OptionWindowType DEF Windows
  <2> QED
    BY <2>1, <2>2
<1>3. q \in Said /\ q.start = Seconds(w.start) /\ q.stop = Seconds(w.stop) /\ q.duration.n = d
  BY <1>2 DEF InMessage, Seconds, Said, Moment
<1>4. /\ ParseTime(q.start, u) = w.start /\ ParseTime(q.stop, u) = w.stop
      /\ Given(q.start) /\ Given(q.stop)
  BY <1>3 DEF ParseTime, Seconds, Given
<1>5. /\ w.stop = OptionTo(start, stop, d, last)
      /\ w.start = IF OptionFrom(start, stop, d, last) < t THEN t ELSE OptionFrom(start, stop, d, last)
  BY OptionEnds
<1>6. ASSUME r = Refused PROVE w.stop = 0
  <2> SUFFICES ASSUME w.stop # 0 PROVE FALSE
    OBVIOUS
  <2> DEFINE from == IF d > 0 /\ w.stop = 0 /\ w.start = 0 THEN before ELSE w.start
             v == Window(from, w.stop, d)
  <2>1. w.start # 0
    BY <1>2
  <2>2. Reads(q.start, w.start) /\ Reads(q.stop, w.stop)
    BY <1>4, <2>1 DEF Reads
  <2>3. r = Late(v, u)
    <3> DEFINE a == ParseTime(q.start, u)
               b == ParseTime(q.stop, u)
    <3>1. r = IF (~Given(q.start) /\ ~Given(q.stop) /\ ~Given(q.duration)) \/ ~Reads(q.start, a) \/ ~Reads(q.stop, b)
              THEN Refused
              ELSE Late(Window(IF q.duration.n > 0 /\ b = 0 /\ a = 0 THEN before ELSE a, b, q.duration.n), u)
      BY Zenon DEF OptionWindow
    <3>2. a = w.start /\ b = w.stop
      BY <1>4
    <3> HIDE DEF a, b, q
    <3> QED
      BY <1>3, <1>4, <2>2, <3>1, <3>2
  <2>4. v = [start |-> v.start, stop |-> v.stop] /\ v.start \in Int
    BY <1>1, <1>2 DEF Window
  <2> HIDE DEF v
  <2>5. Late(v, u).start >= u
    BY <2>4 DEF Late
  <2> QED
    BY <1>6, <2>3, <2>5 DEF Refused
<1>7. ASSUME r # Refused PROVE r.stop = w.stop /\ r.start >= w.start
  <2>1. /\ Reads(q.start, w.start) /\ Reads(q.stop, w.stop)
        /\ r.stop = OptionTo(w.start, w.stop, d, before)
        /\ r.start = IF OptionFrom(w.start, w.stop, d, before) < u THEN u
                     ELSE OptionFrom(w.start, w.stop, d, before)
    BY <1>3, <1>4, <1>7, OptionEnds
  <2>2. w.stop # 0 /\ w.start # 0
    BY <1>4, <2>1 DEF Reads
  <2> QED
    BY <1>1, <1>2, <1>5, <2>1, <2>2 DEF OptionTo, OptionFrom
<1> QED
  BY <1>3, <1>6, <1>7

\* An option whose times are not relative to the moment has the same end whenever it
\* is read, and begins no earlier.
LEMMA OptionLater ==
  ASSUME NEW p \in Said, NEW last \in Nat, NEW before \in Nat, NEW t \in Nat, NEW u \in Nat, t <= u,
         p.start.kind # "rel", p.stop.kind # "rel",
         last = before \/ Given(p.start) \/ Given(p.stop),
         NEW w, w = OptionWindow(p, last, t), w # Refused,
         NEW r, r = OptionWindow(p, before, u), r # Refused
  PROVE  r.stop = w.stop /\ r.start >= w.start
<1> DEFINE start == ParseTime(p.start, t)
           stop == ParseTime(p.stop, t)
           d == p.duration.n
<1>1. start \in Nat /\ stop \in Nat /\ d \in Nat
  BY DEF ParseTime, Said, Moment
<1>2. start = ParseTime(p.start, u) /\ stop = ParseTime(p.stop, u)
  BY DEF ParseTime
<1>3. /\ Reads(p.start, start) /\ Reads(p.stop, stop)
      /\ w.stop = OptionTo(start, stop, d, last)
      /\ w.start = IF OptionFrom(start, stop, d, last) < t THEN t ELSE OptionFrom(start, stop, d, last)
  BY OptionEnds
<1>4. /\ r.stop = OptionTo(start, stop, d, before)
      /\ r.start = IF OptionFrom(start, stop, d, before) < u THEN u ELSE OptionFrom(start, stop, d, before)
  BY <1>2, OptionEnds
<1>5. last = before \/ start # 0 \/ stop # 0
  BY <1>3 DEF Reads
<1> QED
  BY <1>1, <1>3, <1>4, <1>5 DEF OptionTo, OptionFrom

\* The windows of a bid as a message says them.
Message(o, ws) == [i \in 1 .. Len(o) |-> InMessage(ws[i], o[i].duration)]

LEMMA FunctionIsList ==
  ASSUME NEW n \in Nat, NEW T, NEW f \in [1 .. n -> T]
  PROVE  f \in Seq(T) /\ Len(f) = n /\ DOMAIN f = 1 .. n
<1>1. f \in Seq(T)
  BY SeqDef
<1>2. DOMAIN f = 1 .. n /\ DOMAIN f = 1 .. Len(f) /\ Len(f) \in Nat
  BY <1>1, LenProperties
<1> QED
  BY <1>1, <1>2

\* The stop of the option before one, or the moment.
LEMMA StopBefore ==
  ASSUME NEW o \in Seq(Said), NEW t \in Nat, NEW ws, WindowsOf(o, t, ws), NEW i \in 1 .. Len(o)
  PROVE  (IF i = 1 THEN t ELSE ws[i - 1].stop) \in Nat
BY OptionsInTime

\* A bid that is read again from a message is refused only if an option of it has no
\* end; if not, all its options keep their ends and none begins earlier.
LEMMA BidAgain ==
  ASSUME NEW o \in Seq(Said), NEW t \in Nat \ {0}, NEW u \in Nat, t <= u, NEW ws, WindowsOf(o, t, ws),
         NEW s, s = Message(o, ws), NEW r, r = OptionWindows(s, u)
  PROVE  \/ r = <<>> /\ \E i \in DOMAIN s : s[i].stop.n = 0
         \/ \A i \in DOMAIN s :
              r[i].stop = s[i].stop.n /\ r[i].start >= s[i].start.n /\ r[i].start \in Int
<1> DEFINE n == Len(o)
<1>1. ASSUME NEW i \in 1 .. n, NEW before \in Nat
      PROVE  /\ s[i] \in Said /\ s[i].stop.n = ws[i].stop /\ s[i].start.n = ws[i].start
             /\ OptionWindow(s[i], before, u) = Refused => ws[i].stop = 0
             /\ OptionWindow(s[i], before, u) # Refused =>
                  OptionWindow(s[i], before, u).stop = ws[i].stop /\ OptionWindow(s[i], before, u).start >= ws[i].start
  <2> DEFINE last == IF i = 1 THEN t ELSE ws[i - 1].stop
  <2>1. last \in Nat
    BY StopBefore
  <2>2. ws[i] # Refused /\ ws[i] = OptionWindow(o[i], last, t) /\ o[i] \in Said
    BY DEF WindowsOf
  <2>3. s[i] = InMessage(ws[i], o[i].duration)
    BY DEF Message
  <2> HIDE DEF last
  <2>4. /\ InMessage(ws[i], o[i].duration) \in Said
        /\ OptionWindow(s[i], before, u) = Refused => ws[i].stop = 0
        /\ OptionWindow(s[i], before, u) # Refused =>
             OptionWindow(s[i], before, u).stop = ws[i].stop /\ OptionWindow(s[i], before, u).start >= ws[i].start
    BY <2>1, <2>2, <2>3, OptionAgain
  <2>5. s[i].stop.n = ws[i].stop /\ s[i].start.n = ws[i].start
    BY <2>3 DEF InMessage, Seconds
  <2> QED
    BY <2>3, <2>4, <2>5
<1>2. s \in Seq(Said) /\ Len(s) = n /\ DOMAIN s = 1 .. n
  <2>1. s \in [1 .. n -> Said]
    <3>1. \A i \in 1 .. n : s[i] \in Said
      BY <1>1
    <3> QED
      BY <3>1 DEF Message
  <2> QED
    BY <2>1, FunctionIsList
<1>3. CASE /\ r = <<>>
           /\ \E i \in 1 .. Len(s) : \E last \in Nat : OptionWindow(s[i], last, u) = Refused
  <2>1. PICK i \in 1 .. Len(s), last \in Nat : OptionWindow(s[i], last, u) = Refused
    BY <1>3
  <2>2. i \in DOMAIN s /\ s[i].stop.n = 0
    BY <1>1, <1>2, <2>1
  <2> QED
    BY <1>3, <2>2
<1>4. CASE WindowsOf(s, u, r)
  <2> SUFFICES ASSUME NEW i \in 1 .. n
               PROVE  r[i].stop = s[i].stop.n /\ r[i].start >= s[i].start.n /\ r[i].start \in Int
    BY <1>2
  <2> DEFINE before == IF i = 1 THEN u ELSE r[i - 1].stop
  <2>1. before \in Nat
    BY <1>2, <1>4, StopBefore
  <2>2. r[i] # Refused /\ r[i] = OptionWindow(s[i], before, u) /\ r[i] \in Windows
    BY <1>2, <1>4 DEF WindowsOf
  <2>3. r[i].start \in Int
    BY <2>2 DEF Windows
  <2> HIDE DEF before
  <2> QED
    BY <1>1, <2>1, <2>2, <2>3
<1> QED
  BY <1>2, <1>3, <1>4, OptionWindowsAre

\* A bid whose times are not relative has the same ends whenever it is read.
LEMMA BidLater ==
  ASSUME NEW o \in Seq(Said), NEW t \in Nat, NEW u \in Nat, t <= u,
         NEW ws, WindowsOf(o, t, ws), NEW vs, WindowsOf(o, u, vs), ~Moves(o)
  PROVE  \A i \in 1 .. Len(o) : vs[i].stop = ws[i].stop /\ vs[i].start >= ws[i].start
<1> DEFINE n == Len(o)
           Same(i) == vs[i].stop = ws[i].stop /\ vs[i].start >= ws[i].start
           T == {i \in 0 .. n : i # 0 => Same(i)}
<1>1. n \in Nat /\ 0 \in T
  OBVIOUS
<1>2. ASSUME NEW i \in 0 .. n, i \in T, i < n PROVE i + 1 \in T
  <2> DEFINE k == i + 1
             last == IF k = 1 THEN t ELSE ws[k - 1].stop
             before == IF k = 1 THEN u ELSE vs[k - 1].stop
  <2>1. k \in 1 .. n /\ k - 1 = i /\ o[k] \in Said
    BY <1>1, <1>2
  <2>2. last \in Nat /\ before \in Nat
    BY <2>1, StopBefore
  <2>3. /\ ws[k] # Refused /\ ws[k] = OptionWindow(o[k], last, t)
        /\ vs[k] # Refused /\ vs[k] = OptionWindow(o[k], before, u)
    BY <2>1 DEF WindowsOf
  <2>4. o[k].start.kind # "rel" /\ o[k].stop.kind # "rel"
    BY <2>1 DEF Moves
  <2>5. last = before \/ Given(o[k].start) \/ Given(o[k].stop)
    <3>1. CASE k = 1
      BY <3>1 DEF Moves
    <3>2. CASE k # 1
      BY <1>2, <2>1, <3>2
    <3> QED
      BY <3>1, <3>2
  <2> HIDE DEF k, last, before
  <2>6. Same(k)
    BY <2>1, <2>2, <2>3, <2>4, <2>5, OptionLater
  <2> QED
    BY <2>1, <2>6 DEF k
<1>3. 0 .. n \subseteq T
  <2> HIDE DEF T
  <2> QED
    BY <1>1, <1>2, AllNumbers
<1> QED
  BY <1>3

-----------------------------------------------------------------------------
(***************************************************************************)
(* What is read of a request.                                              *)
(***************************************************************************)
\* An interval starts when it is read or later, is not over then, and does not start
\* before the end of the one before it unless it is reckoned back from its own end.
LEMMA IntervalRead ==
  ASSUME NEW p \in Said, NEW bound \in Nat, NEW t \in Nat,
         NEW w, w = RequestWindow(p, bound, t), w # Refused
  PROVE  /\ w.start \in Nat /\ w.stop \in Nat
         /\ w.start >= t
         /\ w.stop = 0 \/ w.stop > t
         /\ ~Backwards(p) => w.start >= bound
<1> DEFINE start == IF Given(p.start) THEN ParseRequestTime(p.start, t) ELSE bound
           stop == ParseRequestTime(p.stop, t)
           d == p.duration.n
           v == Window(start, stop, d)
<1>1. start \in Nat /\ stop \in Nat /\ d \in Nat
  BY DEF ParseRequestTime, ParseTime, Said, Moment
<1>2. /\ ~(Given(p.start) /\ start < bound)
      /\ ~(v.stop # 0 /\ v.stop <= t)
      /\ w = Late(v, t)
  BY Zenon DEF RequestWindow
<1>3. v = [start |-> v.start, stop |-> v.stop] /\ v.start \in Int /\ v.stop \in Nat
  BY <1>1 DEF Window
<1>4. ~Backwards(p) => v.start >= bound
  <2>1. start >= bound
    BY <1>1, <1>2
  <2>2. ~Given(p.stop) => stop = 0
    BY DEF Given, ParseRequestTime, ParseTime
  <2>3. ~Backwards(p) => v.start = start
    BY <1>1, <2>2 DEF Backwards, Window
  <2> HIDE DEF start, v
  <2> QED
    BY <2>1, <2>3
<1> HIDE DEF v
<1>5. w.stop = v.stop /\ w.start = IF v.start < t THEN t ELSE v.start
  BY <1>2, <1>3 DEF Late
<1> QED
  BY <1>2, <1>3, <1>4, <1>5

LEMMA IntervalsInTime ==
  ASSUME NEW ps \in Seq(Said), NEW t \in [1 .. Len(ps) + 1 -> Nat], NEW ws, IntervalsOf(ps, t, ws)
  PROVE  \A i \in 1 .. Len(ps) :
           /\ ws[i].start \in Nat /\ ws[i].stop \in Nat
           /\ ws[i].start >= t[i + 1]
           /\ ws[i].stop = 0 \/ ws[i].stop > t[i + 1]
           /\ ~Backwards(ps[i]) /\ i # 1 => ws[i].start >= ws[i - 1].stop
<1> DEFINE n == Len(ps)
           Good(i) == /\ ws[i].start \in Nat /\ ws[i].stop \in Nat
                      /\ ws[i].start >= t[i + 1]
                      /\ ws[i].stop = 0 \/ ws[i].stop > t[i + 1]
                      /\ ~Backwards(ps[i]) /\ i # 1 => ws[i].start >= ws[i - 1].stop
           T == {i \in 0 .. n : i # 0 => Good(i)}
<1>1. n \in Nat /\ 0 \in T
  OBVIOUS
<1>2. ASSUME NEW i \in 0 .. n, i \in T, i < n PROVE i + 1 \in T
  <2> DEFINE k == i + 1
             bound == IF k = 1 THEN t[1] ELSE ws[k - 1].stop
  <2>1. k \in 1 .. n /\ k - 1 = i /\ ps[k] \in Said /\ t[k + 1] \in Nat /\ t[1] \in Nat
    BY <1>1, <1>2
  <2>2. bound \in Nat
    BY <1>2, <2>1
  <2>3. ws[k] # Refused /\ ws[k] = RequestWindow(ps[k], bound, t[k + 1])
    BY <2>1 DEF IntervalsOf
  <2>4. k # 1 => bound = ws[k - 1].stop
    OBVIOUS
  <2> HIDE DEF k, bound
  <2>5. Good(k)
    BY <2>1, <2>2, <2>3, <2>4, IntervalRead
  <2> QED
    BY <2>1, <2>5 DEF k
<1>3. 0 .. n \subseteq T
  <2> HIDE DEF T
  <2> QED
    BY <1>1, <1>2, AllNumbers
<1> QED
  BY <1>3, SMTT(30)

\* Intervals that have their ends after their starts and are not reckoned back follow
\* each other.
LEMMA IntervalsFollow ==
  ASSUME NEW ps \in Seq(Said), NEW t \in [1 .. Len(ps) + 1 -> Nat], NEW ws, IntervalsOf(ps, t, ws),
         \A i \in 1 .. Len(ps) : Forward(ws[i]) /\ ~Backwards(ps[i])
  PROVE  \A i, j \in 1 .. Len(ps) : i < j => ws[i].stop <= ws[j].start
<1> DEFINE n == Len(ps)
           T == {j \in 0 .. n : \A i \in 1 .. n : i < j => ws[i].stop <= ws[j].start}
<1>1. n \in Nat /\ 0 \in T
  OBVIOUS
<1>2. ASSUME NEW j \in 0 .. n, j \in T, j < n PROVE j + 1 \in T
  <2> SUFFICES ASSUME NEW i \in 1 .. n, i < j + 1 PROVE ws[i].stop <= ws[j + 1].start
    BY <1>2
  <2>1. /\ j \in 1 .. n /\ j + 1 \in 1 .. n /\ j + 1 # 1 /\ (j + 1) - 1 = j /\ (i = j \/ i < j)
    BY <1>1, <1>2
  <2>2. /\ ws[j].start \in Nat /\ ws[j].stop \in Nat /\ ws[i].stop \in Nat
        /\ ws[j + 1].start \in Nat /\ ws[j + 1].start >= ws[j].stop
    BY <2>1, IntervalsInTime
  <2>3. ws[j].start < ws[j].stop
    BY <2>1 DEF Forward
  <2>4. i < j => ws[i].stop <= ws[j].start
    BY <1>2
  <2> QED
    BY <2>1, <2>2, <2>3, <2>4
<1>3. 0 .. n \subseteq T
  <2> HIDE DEF T
  <2> QED
    BY <1>1, <1>2, AllNumbers
<1> QED
  BY <1>3

\* Then an interval is found by its start.
LEMMA IntervalFound ==
  ASSUME NEW ps \in Seq(Said), NEW t \in [1 .. Len(ps) + 1 -> Nat], NEW ws, IntervalsOf(ps, t, ws),
         \A i \in 1 .. Len(ps) : Forward(ws[i]) /\ ~Backwards(ps[i]), NEW k \in 1 .. Len(ps)
  PROVE  IntervalByStart(ws, ws[k].start) = ws[k]
<1> DEFINE n == Len(ps)
           Found(i) == ws[i].start = ws[k].start /\ \A j \in 1 .. i - 1 : ws[j].start # ws[k].start
<1>1. DOMAIN ws = 1 .. n /\ n \in Nat
  BY DEF IntervalsOf
<1>2. \A i, j \in 1 .. n : i < j => ws[i].start # ws[j].start
  <2> SUFFICES ASSUME NEW i \in 1 .. n, NEW j \in 1 .. n, i < j PROVE ws[i].start # ws[j].start
    OBVIOUS
  <2>1. ws[i].stop <= ws[j].start
    BY IntervalsFollow
  <2>2. ws[i].start < ws[i].stop
    BY DEF Forward
  <2>3. ws[i].start \in Nat /\ ws[j].start \in Nat /\ ws[i].stop \in Nat
    BY IntervalsInTime
  <2> QED
    BY <2>1, <2>2, <2>3
<1>3. Found(k)
  BY <1>1, <1>2
<1>4. ASSUME NEW i \in 1 .. n, Found(i) PROVE i = k
  BY <1>1, <1>2, <1>4
<1>5. (CHOOSE i \in DOMAIN ws : Found(i)) = k
  <2> HIDE DEF Found
  <2> QED
    BY <1>1, <1>3, <1>4
<1>6. IntervalByStart(ws, ws[k].start) = ws[CHOOSE i \in DOMAIN ws : Found(i)]
  BY DEF IntervalByStart
<1> QED
  BY <1>5, <1>6

-----------------------------------------------------------------------------
(***************************************************************************)
(* Auctions and templates.                                                 *)
(***************************************************************************)
\* An offer says what its auction was when it was sent.
OffersTrue ==
  \A m \in offers :
    m.name \in Names /\ m.data = DataRecord(m.of) /\ m.option = OptionRecord(m.of)

CopiesOfNames == copies = [a \in Names |-> copies[a]]

AuctionInv == OffersTrue /\ CopiesOfNames /\ SameAuction /\ TemplatesAgree

LEMMA UnionAt ==
  ASSUME NEW f, NEW g
  PROVE  /\ DOMAIN Union(f, g) = DOMAIN f \cup DOMAIN g
         /\ \A i \in DOMAIN f : Union(f, g)[i] = f[i]
         /\ \A i \in DOMAIN g : i \notin DOMAIN f => Union(f, g)[i] = g[i]
BY DEF Union

\* What is read of an offer is the auction, or nothing.
LEMMA OfferRead ==
  ASSUME NEW m, m.data = DataRecord(m.of), m.option = OptionRecord(m.of), NEW i,
         NEW x, x = ReadAuction(m, i), x # None
  PROVE  /\ x.of = m.of /\ x.interval = i /\ x.given = m.templates
         /\ x.templates = ObjectTemplates(m.templates)
         /\ x.of.stop # 0 /\ x.stop = x.of.stop /\ x.action = x.of.action
         /\ x.start = IF x.of.start < x.taken THEN x.taken ELSE x.of.start
<1> DEFINE p == m.data.window
           w == AuctionWindow(p, now)
           r == ReadRecords(m)
           y == m.of
           v == [start |-> y.start, stop |-> y.stop]
<1>1. /\ w # Refused
      /\ x = [start |-> w.start, stop |-> w.stop, interval |-> i, align |-> FALSE,
              action |-> r.action, state |-> r.state, taken |-> now, of |-> m.of,
              given |-> m.templates, templates |-> ObjectTemplates(m.templates)]
  BY Zenon DEF ReadAuction
<1>2. p.start = Seconds(y.start) /\ p.stop = Seconds(y.stop) /\ p.duration = Absent
  BY DEF DataRecord, InMessage
<1>3. /\ ParseTime(p.start, now) = y.start /\ ParseTime(p.stop, now) = y.stop
      /\ Given(p.start) /\ Given(p.stop) /\ p.duration.n = 0
  BY <1>2 DEF ParseTime, Seconds, Given, Absent
<1>4. y.stop # 0 /\ w = Late(v, now)
  <2> DEFINE a == ParseTime(p.start, now)
             b == ParseTime(p.stop, now)
             start == IF Given(p.start) THEN a ELSE now
  <2>1. w = IF (Given(p.start) /\ Given(p.stop) /\ Given(p.duration)) \/ ~Reads(p.start, start) \/ ~Reads(p.stop, b)
            THEN Refused
            ELSE Late(Window(start, b, p.duration.n), now)
    BY DEF AuctionWindow
  <2>2. Reads(p.stop, b) /\ w = Late(Window(start, b, p.duration.n), now)
    <3> HIDE DEF w, start, b, p
    <3> QED
      BY <1>1, <2>1
  <2>3. y.stop # 0
    BY <1>3, <2>2 DEF Reads
  <2>4. Window(start, b, p.duration.n) = v
    <3> HIDE DEF p
    <3> QED
      BY <1>3 DEF Window
  <2> QED
    BY <2>2, <2>3, <2>4, Zenon
<1>5. w.stop = y.stop /\ w.start = IF y.start < now THEN now ELSE y.start
  BY <1>4 DEF Late
<1>6. r.action = y.action
  <2>1. DOMAIN m.data = {"window", "interval", "state"} /\ DOMAIN m.option = {"action"}
    BY DEF DataRecord, OptionRecord
  <2>2. m.option["action"] = y.action
    BY DEF OptionRecord
  <2>3. r["action"] = m.option["action"]
    <3>1. r = Union(m.data, m.option)
      BY DEF ReadRecords
    <3>2. "action" \in DOMAIN m.option /\ "action" \notin DOMAIN m.data
      BY <2>1
    <3> HIDE DEF r
    <3> QED
      BY <3>1, <3>2, UnionAt, ZenonT(30)
  <2> QED
    BY <2>2, <2>3
<1> HIDE DEF w, r, y
<1> QED
  BY <1>1, <1>4, <1>5, <1>6 DEF y

LEMMA InitAuction == Init => AuctionInv
BY DEF Init, AuctionInv, OffersTrue, CopiesOfNames, SameAuction, TemplatesAgree

LEMMA TakeOfferKeeps ==
  ASSUME AuctionInv, NEW m \in offers, TakeOffer(m)
  PROVE  AuctionInv'
<1>1. /\ ~Conflict(m.templates)
      /\ offers' = offers \ {m} /\ known' = Union(known, m.templates)
      /\ up' => up
  <2>1. up /\ ~Conflict(m.templates) /\ offers' = offers \ {m} /\ known' = Union(known, m.templates)
    BY Zenon DEF TakeOffer
  <2> QED
    BY <2>1
<1>2. PICK i \in IntervalOf(m.data) : copies' = [copies EXCEPT ![m.name] = ReadAuction(m, i)]
  BY Zenon DEF TakeOffer
<1> DEFINE x == ReadAuction(m, i)
<1>3. m.name \in Names /\ m.data = DataRecord(m.of) /\ m.option = OptionRecord(m.of)
  BY DEF AuctionInv, OffersTrue
<1>4. x # None =>
        /\ x.of = m.of /\ x.interval = i /\ x.given = m.templates
        /\ x.templates = ObjectTemplates(m.templates)
        /\ x.of.stop # 0 /\ x.stop = x.of.stop /\ x.action = x.of.action
        /\ x.start = IF x.of.start < x.taken THEN x.taken ELSE x.of.start
  BY <1>3, OfferRead
<1>5. x # None /\ m.of.interval > 0 => x.interval = m.of.interval
  <2>1. m.data.interval = m.of.interval
    BY <1>3 DEF DataRecord
  <2> QED
    BY <1>2, <1>4, <2>1 DEF IntervalOf
<1> HIDE DEF x
<1>6. /\ CopiesOfNames' /\ copies'[m.name] = x
      /\ \A a \in Names : a # m.name => copies'[a] = copies[a]
  <2>1. copies = [a \in Names |-> copies[a]] /\ copies' = [copies EXCEPT ![m.name] = x]
    BY <1>2 DEF AuctionInv, CopiesOfNames, x
  <2> QED
    BY <1>3, <2>1 DEF CopiesOfNames
<1>7. OffersTrue'
  BY <1>1 DEF AuctionInv, OffersTrue
<1>8. SameAuction'
  <2> SUFFICES ASSUME NEW a \in Names, copies'[a] # None
               PROVE  /\ copies'[a].of.stop # 0 /\ copies'[a].stop = copies'[a].of.stop
                      /\ copies'[a].action = copies'[a].of.action
                      /\ copies'[a].start = IF copies'[a].of.start < copies'[a].taken
                                            THEN copies'[a].taken ELSE copies'[a].of.start
                      /\ copies'[a].of.interval > 0 => copies'[a].interval = copies'[a].of.interval
    BY DEF SameAuction
  <2>1. CASE a = m.name
    BY <1>4, <1>5, <1>6, <2>1
  <2>2. CASE a # m.name
    BY <1>6, <2>2 DEF AuctionInv, SameAuction
  <2> QED
    BY <2>1, <2>2
<1>9. /\ \A k \in DOMAIN known : k \in DOMAIN known' /\ known'[k] = known[k]
      /\ \A k \in DOMAIN m.templates :
           k \in DOMAIN known' /\ (k \notin DOMAIN known => known'[k] = m.templates[k])
  <2> DEFINE ts == m.templates
             u == Union(known, ts)
  <2>1. /\ DOMAIN u = DOMAIN known \cup DOMAIN ts
        /\ \A k \in DOMAIN known : u[k] = known[k]
        /\ \A k \in DOMAIN ts : k \notin DOMAIN known => u[k] = ts[k]
    BY UnionAt, Zenon
  <2>2. known' = u
    BY <1>1
  <2> HIDE DEF u
  <2> QED
    BY <2>1, <2>2
<1>10. TemplatesAgree'
  <2> SUFFICES ASSUME up', NEW a \in Names, copies'[a] # None, NEW k \in copies'[a].templates
               PROVE  k \in DOMAIN known' /\ known'[k] = copies'[a].given[k]
    BY DEF TemplatesAgree
  <2>1. CASE a = m.name
    <3>1. k \in DOMAIN m.templates /\ copies'[a].given = m.templates
      BY <1>4, <1>6, <2>1 DEF ObjectTemplates
    <3>2. k \in DOMAIN known => known[k] = m.templates[k]
      BY <1>1, <3>1 DEF Conflict
    <3> QED
      BY <1>9, <3>1, <3>2
  <2>2. CASE a # m.name
    <3>1. copies'[a] = copies[a] /\ k \in DOMAIN known /\ known[k] = copies[a].given[k]
      BY <1>1, <1>6, <2>2 DEF AuctionInv, TemplatesAgree
    <3> QED
      BY <1>9, <3>1
  <2> QED
    BY <2>1, <2>2
<1> QED
  BY <1>6, <1>7, <1>8, <1>10 DEF AuctionInv

LEMMA NextAuction == AuctionInv /\ [Next]_vars => AuctionInv'
<1> SUFFICES ASSUME AuctionInv, [Next]_vars PROVE AuctionInv'
  OBVIOUS
<1> DEFINE Same == UNCHANGED <<offers, copies, known, up>>
<1>1. ASSUME NEW m \in offers, TakeOffer(m) PROVE AuctionInv'
  BY <1>1, TakeOfferKeeps
<1>2. ASSUME NEW m \in offers, Clash(m) PROVE AuctionInv'
  <2>1. up' = FALSE /\ offers' = offers \ {m} /\ UNCHANGED copies
    BY <1>2, Zenon DEF Clash
  <2> QED
    BY <2>1 DEF AuctionInv, OffersTrue, CopiesOfNames, SameAuction, TemplatesAgree
<1>3. ASSUME NEW a \in Names, SendOffer(a) PROVE AuctionInv'
  <2> DEFINE x == auctions[a]
             m == [name |-> a, data |-> DataRecord(x), option |-> OptionRecord(x), of |-> x,
                   templates |-> InOffer([i \in x.templates |-> templates[i]], x.action)]
  <2>1. offers' = offers \cup {m} /\ UNCHANGED <<copies, known, up>>
    BY <1>3 DEF SendOffer
  <2>2. m.name \in Names /\ m.data = DataRecord(m.of) /\ m.option = OptionRecord(m.of)
    OBVIOUS
  <2> HIDE DEF m
  <2>3. OffersTrue'
    BY <2>1, <2>2 DEF AuctionInv, OffersTrue
  <2> QED
    BY <2>1, <2>3 DEF AuctionInv, CopiesOfNames, SameAuction, TemplatesAgree
<1>4. ASSUME Restart PROVE AuctionInv'
  <2>1. offers' = {} /\ UNCHANGED <<copies, known, up>>
    BY <1>4 DEF Restart
  <2> QED
    BY <2>1 DEF AuctionInv, OffersTrue, CopiesOfNames, SameAuction, TemplatesAgree
<1>5. ASSUME Same PROVE AuctionInv'
  BY <1>5 DEF AuctionInv, OffersTrue, CopiesOfNames, SameAuction, TemplatesAgree
<1>6. Tick \/ LoadRequest \/ MakeBid \/ SendBid \/ TakeBid \/ UNCHANGED vars => Same
  BY DEF Tick, LoadRequest, MakeBid, SendBid, TakeBid, vars
<1>7. (\E a \in Names : LoadAuction(a) \/ Activate(a)) \/ (\E i \in 1 .. 2 : AskFor(i)) => Same
  BY DEF LoadAuction, Activate, AskFor
<1> HIDE DEF Same
<1> QED
  BY <1>1, <1>2, <1>3, <1>4, <1>5, <1>6, <1>7 DEF Next

\* What the agent holds of an auction is the auction, whatever the file said and
\* whenever it was read (MAPIAuctionParser::get_ipap_message, readAuctionData).
THEOREM AuctionsStaySame == Spec => []SameAuction
<1>1. AuctionInv => SameAuction
  BY DEF AuctionInv
<1> QED
  BY <1>1, InitAuction, NextAuction, PTL DEF Spec

\* A template has one meaning for as long as the agent runs (MAPIAuctionParser::parse).
THEOREM TemplatesKeepMeaning == Spec => []TemplatesAgree
<1>1. AuctionInv => TemplatesAgree
  BY DEF AuctionInv
<1> QED
  BY <1>1, InitAuction, NextAuction, PTL DEF Spec

-----------------------------------------------------------------------------
(***************************************************************************)
(* Bids and requests.                                                      *)
(***************************************************************************)
\* Only the scene of auctions restarts.
RestartsOnly == scene # "auction" => lastId = FirstId

\* What a bid was installed with was read at some time.
BidRead ==
  bid # None =>
    /\ scene = "bid" /\ bid.options \in Options
    /\ \E t \in Nat : t <= now /\ WindowsOf(bid.options, t, bid.windows)

\* What was sent was read later, and is not wider unless the bid moves.
Narrower(o, vs, ws) ==
  ~Moves(o) => \A i \in 1 .. Len(o) : vs[i].stop = ws[i].stop /\ vs[i].start >= ws[i].start

SentRead ==
  sent # None =>
    /\ bid # None
    /\ \/ DOMAIN sent = {}
       \/ \E t \in Nat \ {0} : t <= now /\ \E vs :
            /\ WindowsOf(bid.options, t, vs) /\ sent = Message(bid.options, vs)
            /\ Narrower(bid.options, vs, bid.windows)

TakenSent == taken # None => sent # None

RequestRead ==
  request # None =>
    /\ request.prefs \in Requests /\ request.read \in [1 .. Len(request.prefs) + 1 -> Nat]
    /\ IntervalsOf(request.prefs, request.read, request.windows)

AskedRead ==
  \A i \in DOMAIN asked :
    /\ request # None /\ i \in DOMAIN request.windows
    /\ asked[i] = IntervalByStart(request.windows, request.windows[i].start)

TimesInv ==
  /\ now \in Nat \ {0} /\ RestartsOnly
  /\ BidRead /\ SentRead /\ TakenSent /\ BidKept
  /\ RequestRead /\ AskedRead

LEMMA InitTimes == Init => TimesInv
BY DEF Init, TimesInv, RestartsOnly, BidRead, SentRead, TakenSent, BidKept, RequestRead, AskedRead

\* An ordered request: what RequestInOrder says follows from how it was read.
LEMMA OrderFromRead == TimesInv => RequestInOrder
<1> SUFFICES ASSUME TimesInv, request # None PROVE RequestInOrder
  BY DEF RequestInOrder
<1> DEFINE ps == request.prefs
           ws == request.windows
           t == request.read
<1>1. ps \in Seq(Said) /\ t \in [1 .. Len(ps) + 1 -> Nat] /\ IntervalsOf(ps, t, ws)
  BY ExchangeAssumption DEF TimesInv, RequestRead
<1>2. DOMAIN ws = 1 .. Len(ps)
  BY <1>1 DEF IntervalsOf
<1> HIDE DEF ps, ws, t
<1>3. \A i \in DOMAIN ws : ws[i].start >= t[i + 1] /\ (ws[i].stop = 0 \/ ws[i].stop > t[i + 1])
  BY <1>1, <1>2, IntervalsInTime
<1>4. ASSUME \A i \in DOMAIN ws : Forward(ws[i]) /\ ~Backwards(ps[i])
      PROVE  /\ \A i, j \in DOMAIN ws : i < j => ws[i].stop <= ws[j].start
             /\ \A i \in DOMAIN asked : asked[i] = ws[i]
  <2>1. \A i, j \in DOMAIN ws : i < j => ws[i].stop <= ws[j].start
    BY <1>1, <1>2, <1>4, IntervalsFollow
  <2>2. \A i \in DOMAIN asked : i \in DOMAIN ws /\ asked[i] = IntervalByStart(ws, ws[i].start)
    BY DEF TimesInv, AskedRead, ws
  <2>3. \A i \in DOMAIN ws : IntervalByStart(ws, ws[i].start) = ws[i]
    BY <1>1, <1>2, <1>4, IntervalFound
  <2> QED
    BY <2>1, <2>2, <2>3
<1> QED
  BY <1>3, <1>4, Zenon DEF RequestInOrder, ps, ws, t

\* The clock, or nothing that these invariants speak of.
LEMMA TimePasses ==
  ASSUME TimesInv, now' \in Nat, now <= now', (scene # "auction" => lastId' = FirstId),
         UNCHANGED <<scene, bid, sent, taken, request, asked>>
  PROVE  TimesInv'
<1>1. now' \in Nat \ {0} /\ RestartsOnly' /\ TakenSent' /\ BidKept' /\ RequestRead' /\ AskedRead'
  BY DEF TimesInv, RestartsOnly, TakenSent, BidKept, RequestRead, AskedRead
<1>2. BidRead'
  <2> SUFFICES ASSUME bid # None PROVE BidRead'
    BY DEF BidRead
  <2>1. PICK t \in Nat : t <= now /\ WindowsOf(bid.options, t, bid.windows)
    BY DEF TimesInv, BidRead
  <2>2. t <= now'
    BY <2>1 DEF TimesInv
  <2> QED
    BY <2>1, <2>2 DEF TimesInv, BidRead
<1>3. SentRead'
  <2> SUFFICES ASSUME sent # None, DOMAIN sent # {} PROVE SentRead'
    BY DEF TimesInv, SentRead
  <2>1. PICK t \in Nat \ {0} : t <= now /\ \E vs :
             /\ WindowsOf(bid.options, t, vs) /\ sent = Message(bid.options, vs)
             /\ Narrower(bid.options, vs, bid.windows)
    BY DEF TimesInv, SentRead
  <2>2. t <= now'
    BY <2>1 DEF TimesInv
  <2> QED
    BY <2>1, <2>2 DEF TimesInv, SentRead
<1> QED
  BY <1>1, <1>2, <1>3 DEF TimesInv

LEMMA SendBidKeeps ==
  ASSUME TimesInv, SendBid
  PROVE  TimesInv'
<1> DEFINE o == bid.options
           ws == OptionWindows(o, now)
<1>1. /\ bid # None /\ sent = None
      /\ sent' = [i \in DOMAIN ws |-> InMessage(ws[i], o[i].duration)]
      /\ UNCHANGED <<scene, now, lastId, request, asked, bid, taken>>
  BY Zenon DEF SendBid
<1>2. o \in Seq(Said) /\ now \in Nat \ {0}
  BY <1>1, ExchangeAssumption DEF TimesInv, BidRead
<1>3. PICK t \in Nat : t <= now /\ WindowsOf(o, t, bid.windows)
  BY <1>1 DEF TimesInv, BidRead
<1>4. taken = None
  BY <1>1 DEF TimesInv, TakenSent
<1>5. SentRead'
  <2>1. CASE ws = <<>>
    <3>1. DOMAIN sent' = {}
      BY <1>1, <2>1
    <3> QED
      BY <1>1, <3>1 DEF SentRead
  <2>2. CASE WindowsOf(o, now, ws)
    <3>1. DOMAIN ws = 1 .. Len(o)
      BY <2>2 DEF WindowsOf
    <3>2. sent' = Message(o, ws)
      BY <1>1, <3>1 DEF Message
    <3>3. Narrower(o, ws, bid.windows)
      BY <1>2, <1>3, <2>2, BidLater DEF Narrower
    <3> HIDE DEF ws
    <3>4. /\ now' = now /\ bid' = bid /\ o = bid.options
      BY <1>1
    <3> HIDE DEF o
    <3> QED
      BY <1>1, <1>2, <2>2, <3>2, <3>3, <3>4 DEF SentRead
  <2> QED
    BY <1>2, <2>1, <2>2, OptionWindowsAre
<1> HIDE DEF o, ws
<1>6. RestartsOnly' /\ TakenSent' /\ BidKept' /\ RequestRead' /\ AskedRead' /\ BidRead'
  BY <1>1, <1>4 DEF TimesInv, RestartsOnly, TakenSent, BidKept, RequestRead, AskedRead, BidRead
<1> QED
  BY <1>1, <1>5, <1>6 DEF TimesInv

LEMMA TakeBidKeeps ==
  ASSUME TimesInv, TakeBid
  PROVE  TimesInv'
<1>1. /\ sent # None /\ taken = None /\ taken' = OptionWindows(sent, now)
      /\ UNCHANGED <<scene, now, lastId, request, asked, bid, sent>>
  BY Zenon DEF TakeBid
<1>2. bid # None /\ bid.options \in Seq(Said) /\ now \in Nat \ {0}
  BY <1>1, ExchangeAssumption DEF TimesInv, SentRead, BidRead
<1>3. BidKept'
  <2>1. CASE DOMAIN sent = {}
    BY <1>1, <2>1 DEF BidKept
  <2>2. CASE DOMAIN sent # {}
    <3> DEFINE o == bid.options
    <3>0. PICK t \in Nat \ {0} : t <= now /\ \E vs :
               /\ WindowsOf(o, t, vs) /\ sent = Message(o, vs)
               /\ Narrower(o, vs, bid.windows)
      BY <1>1, <2>2 DEF TimesInv, SentRead
    <3>1. PICK vs :
               /\ WindowsOf(o, t, vs) /\ sent = Message(o, vs)
               /\ Narrower(o, vs, bid.windows)
      BY <3>0
    <3>2. \/ taken' = <<>> /\ \E i \in DOMAIN sent : sent[i].stop.n = 0
          \/ \A i \in DOMAIN sent :
               taken'[i].stop = sent[i].stop.n /\ taken'[i].start >= sent[i].start.n /\ taken'[i].start \in Int
      BY <1>1, <1>2, <3>0, <3>1, BidAgain
    <3>3. ASSUME NEW i \in DOMAIN sent, ~Moves(o),
                 taken'[i].stop = sent[i].stop.n, taken'[i].start >= sent[i].start.n, taken'[i].start \in Int
          PROVE  taken'[i].stop = bid.windows[i].stop /\ taken'[i].start >= bid.windows[i].start
      <4>1. i \in 1 .. Len(o) /\ sent[i] = InMessage(vs[i], o[i].duration)
        BY <3>1, <3>3 DEF Message
      <4>2. sent[i].stop.n = vs[i].stop /\ sent[i].start.n = vs[i].start
        BY <4>1 DEF InMessage, Seconds
      <4>3. vs[i].stop = bid.windows[i].stop /\ vs[i].start >= bid.windows[i].start
        BY <3>1, <3>3, <4>1 DEF Narrower
      <4>4. vs[i].start \in Int
        BY <3>1, <4>1 DEF WindowsOf, Windows, Refused
      <4>5. bid.windows[i].start \in Int
        <5>1. PICK u \in Nat : WindowsOf(o, u, bid.windows)
          BY <1>2 DEF TimesInv, BidRead
        <5> QED
          BY <4>1, <5>1 DEF WindowsOf, Windows, Refused
      <4> QED
        BY <3>3, <4>2, <4>3, <4>4, <4>5
    <3> QED
      BY <1>1, <3>2, <3>3 DEF BidKept
  <2> QED
    BY <2>1, <2>2
<1>4. RestartsOnly' /\ TakenSent' /\ SentRead' /\ RequestRead' /\ AskedRead' /\ BidRead'
  BY <1>1 DEF TimesInv, RestartsOnly, TakenSent, SentRead, RequestRead, AskedRead, BidRead
<1> QED
  BY <1>1, <1>3, <1>4 DEF TimesInv

LEMMA NextTimes == TimesInv /\ [Next]_vars => TimesInv'
<1> SUFFICES ASSUME TimesInv, [Next]_vars PROVE TimesInv'
  OBVIOUS
<1> DEFINE Same == UNCHANGED <<scene, bid, sent, taken, request, asked>>
<1>1. now \in Nat /\ (scene # "auction" => lastId = FirstId)
  BY DEF TimesInv, RestartsOnly
<1>2. ASSUME Tick PROVE TimesInv'
  <2>1. now' = now + 1 /\ UNCHANGED lastId /\ Same
    BY <1>2 DEF Tick
  <2> QED
    BY <1>1, <2>1, TimePasses
<1>3. ASSUME Restart PROVE TimesInv'
  <2>1. lastId # FirstId /\ lastId' = FirstId /\ UNCHANGED <<scene, now, bid, taken, request, asked>>
    BY <1>3 DEF Restart
  <2>2. bid = None /\ sent = None /\ taken = None
    BY <1>1, <2>1 DEF TimesInv, BidRead, SentRead, TakenSent
  <2>3. sent' = sent
    BY <1>3, <2>2 DEF Restart
  <2> QED
    BY <1>1, <2>1, <2>3, TimePasses
<1>4. ASSUME LoadRequest PROVE TimesInv'
  <2> DEFINE Read(ps, later) == [i \in 1 .. Len(ps) + 1 |-> IF i <= Len(ps) THEN now ELSE later]
  <2>1. PICK ps \in Requests, later \in now .. MaxTime :
             /\ RequestWindows(ps, Read(ps, later)) # <<>>
             /\ request' = [prefs |-> ps, windows |-> RequestWindows(ps, Read(ps, later)),
                            read |-> Read(ps, later)]
             /\ now' = later
    BY <1>4 DEF LoadRequest
  <2>2. scene = "request" /\ request = None /\ UNCHANGED <<scene, lastId, asked, bid, sent, taken>>
    BY <1>4, Zenon DEF LoadRequest
  <2>3. bid = None /\ sent = None /\ taken = None /\ DOMAIN asked = {}
    BY <2>2 DEF TimesInv, BidRead, SentRead, TakenSent, AskedRead
  <2>4. now' \in Nat \ {0}
    BY <1>1, <2>1 DEF TimesInv
  <2>5. ps \in Seq(Said) /\ Read(ps, later) \in [1 .. Len(ps) + 1 -> Nat]
    BY <1>1, <2>1, <2>4, ExchangeAssumption
  <2> HIDE DEF Read
  <2>6. IntervalsOf(ps, Read(ps, later), RequestWindows(ps, Read(ps, later)))
    BY <2>1, <2>5, RequestWindowsAre
  <2>7. RequestRead'
    BY <2>1, <2>5, <2>6 DEF RequestRead
  <2> QED
    BY <1>1, <2>2, <2>3, <2>4, <2>7 DEF TimesInv, RestartsOnly, BidRead, SentRead, TakenSent, BidKept, AskedRead
<1>5. ASSUME MakeBid PROVE TimesInv'
  <2>1. PICK o \in Options :
             OptionWindows(o, now) # <<>> /\ bid' = [options |-> o, windows |-> OptionWindows(o, now)]
    BY <1>5 DEF MakeBid
  <2>2. /\ scene = "bid" /\ bid = None
        /\ UNCHANGED <<scene, now, lastId, request, asked, sent, taken>>
    BY <1>5 DEF MakeBid
  <2>3. sent = None /\ taken = None
    BY <2>2 DEF TimesInv, SentRead, TakenSent
  <2>4. o \in Seq(Said)
    BY ExchangeAssumption
  <2>5. WindowsOf(o, now, OptionWindows(o, now))
    BY <1>1, <2>1, <2>4, OptionWindowsAre
  <2>6. BidRead'
    BY <1>1, <2>1, <2>2, <2>5 DEF BidRead
  <2> QED
    BY <2>2, <2>3, <2>6 DEF TimesInv, RestartsOnly, SentRead, TakenSent, BidKept, RequestRead, AskedRead
<1>6. ASSUME NEW i \in 1 .. 2, AskFor(i) PROVE TimesInv'
  <2>1. /\ request # None /\ i \in DOMAIN request.windows
        /\ asked' = Union([j \in {i} |-> IntervalByStart(request.windows, request.windows[i].start)], asked)
        /\ UNCHANGED <<scene, now, lastId, request, bid, sent, taken>>
    BY <1>6, Zenon DEF AskFor
  <2>2. AskedRead'
    <3> DEFINE one == [j \in {i} |-> IntervalByStart(request.windows, request.windows[i].start)]
               both == Union(one, asked)
    <3>1. DOMAIN one = {i} /\ one[i] = IntervalByStart(request.windows, request.windows[i].start)
      OBVIOUS
    <3>2. /\ DOMAIN both = DOMAIN one \cup DOMAIN asked
          /\ \A j \in DOMAIN one : both[j] = one[j]
          /\ \A j \in DOMAIN asked : j \notin DOMAIN one => both[j] = asked[j]
      BY UnionAt, Zenon
    <3>3. asked' = both /\ request' = request
      BY <2>1
    <3> HIDE DEF one, both
    <3> SUFFICES ASSUME NEW k \in DOMAIN asked'
                 PROVE  /\ request # None /\ k \in DOMAIN request.windows
                        /\ asked'[k] = IntervalByStart(request.windows, request.windows[k].start)
      BY <3>3 DEF AskedRead
    <3>4. CASE k = i
      BY <2>1, <3>1, <3>2, <3>3, <3>4
    <3>5. CASE k # i
      BY <2>1, <3>1, <3>2, <3>3, <3>5 DEF TimesInv, AskedRead
    <3> QED
      BY <3>4, <3>5
  <2> QED
    BY <2>1, <2>2 DEF TimesInv, RestartsOnly, SentRead, TakenSent, BidKept, RequestRead, BidRead
<1>7. ASSUME NEW a \in Names, LoadAuction(a) PROVE TimesInv'
  <2>1. scene = "auction" /\ UNCHANGED now /\ Same
    BY <1>7, Zenon DEF LoadAuction
  <2> QED
    BY <1>1, <2>1, TimePasses
<1>8. ASSUME UNCHANGED <<now, lastId>>, Same PROVE TimesInv'
  BY <1>1, <1>8, TimePasses
<1>9. (\E a \in Names : Activate(a) \/ SendOffer(a)) \/ (\E m \in offers : TakeOffer(m) \/ Clash(m)) \/ UNCHANGED vars
        => UNCHANGED <<now, lastId>> /\ Same
  BY DEF Activate, SendOffer, TakeOffer, Clash, vars
<1> HIDE DEF Same
<1> QED
  BY <1>2, <1>3, <1>4, <1>5, <1>6, <1>7, <1>8, <1>9, SendBidKeeps, TakeBidKeeps DEF Next

\* A bid reaches the auctioneer as it was sent, and not wider than it was installed
\* (MAPIBiddingObjectParser::get_ipap_message, BiddingObject::calculateIntervals).
THEOREM BidsStayKept == Spec => []BidKept
<1>1. TimesInv => BidKept
  BY DEF TimesInv
<1> QED
  BY <1>1, InitTimes, NextTimes, PTL DEF Spec

\* The intervals of a request follow each other, and each is asked for
\* (ResourceRequestFileParser::calculateInterval, ResourceRequest::getIntervalByStart).
THEOREM RequestsStayInOrder == Spec => []RequestInOrder
BY InitTimes, NextTimes, OrderFromRead, PTL DEF Spec
=============================================================================
