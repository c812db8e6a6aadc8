------------------------------- MODULE IdSource -------------------------------
(***************************************************************************)
(* IdSource: numbers of 16 bits, from a counter or from the list of those  *)
(* that were given back.  The list of reserved numbers is never filled, so *)
(* newId's search in it finds nothing.                                     *)
(***************************************************************************)
EXTENDS Integers, Sequences

CONSTANTS
  Modulus, \* the width of a number: 2^16 in the code
  Unique   \* the constructor's argument: numbers do not come back

ASSUME IdSourceAssumption == Modulus \in Nat \ {0} /\ Unique \in BOOLEAN

Numbers == 0 .. Modulus - 1

SourceType == [num : Numbers, free : Seq(Numbers)]

\* num(-1) in an unsigned short.
NewSource == [num |-> Modulus - 1, free |-> <<>>]

\* Mutant: the counter has no width.
NewIdUnbounded(s) == IF s.free = <<>> THEN s.num + 1 ELSE Head(s.free)

\* The number newId returns, and the source after it.
NewId(s) == IF s.free = <<>> THEN (s.num + 1) % Modulus ELSE Head(s.free)

\* Mutant: the number stays in the list.
AfterNewIdUntaken(s) == [s EXCEPT !.num = NewId(s)]

AfterNewId(s) ==
  IF s.free = <<>> THEN [s EXCEPT !.num = NewId(s)] ELSE [s EXCEPT !.free = Tail(@)]

\* The source after freeId of the numbers of a sequence, one after the other.
AfterFreeIds(s, ids) ==
  IF Unique THEN s
  ELSE [num |-> (s.num - Len(ids)) % Modulus, free |-> s.free \o ids]
=============================================================================
