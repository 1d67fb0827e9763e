--------------------------- MODULE UnitAllocator ---------------------------
(***************************************************************************)
(* What every allocator promises: a request is granted units that nobody   *)
(* holds, as many as it asked for, or is refused because fewer are left.   *)
(***************************************************************************)
EXTENDS Naturals, FiniteSets

CONSTANT Units

VARIABLES
  held,   \* units that were granted and not released since
  asked,  \* units that the last call asked for, 0 also when it released one
  parity  \* of the number of calls: a call that is answered wrongly, for
          \* example with a unit that is held already, is no stuttering step

UAInit == held = {} /\ asked = 0 /\ parity = 0

Call(n) == asked' = n /\ parity' = 1 - parity

Grant(n) ==
  /\ \E given \in SUBSET (Units \ held) :
       Cardinality(given) = n /\ held' = held \cup given
  /\ Call(n)

Refuse(n) ==
  /\ n > Cardinality(Units \ held)
  /\ Call(n)
  /\ UNCHANGED held

Release(u) ==
  /\ held' = held \ {u}
  /\ Call(0)

UANext ==
  \/ \E n \in 0 .. (Cardinality(Units) + 1) : Grant(n) \/ Refuse(n)
  \/ \E u \in held : Release(u)

UASpec == UAInit /\ [][UANext]_<<held, asked, parity>>

===========================================================================
