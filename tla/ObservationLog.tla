--------------------------- MODULE ObservationLog ---------------------------
(***************************************************************************)
(* What a client with a cursor relies on: each mailbox numbers the items   *)
(* it has shown 1, 2, 3, ... in the order it first showed them; a number,  *)
(* once given, is never changed, reused or skipped, and lies above every   *)
(* number given before.                                                    *)
(***************************************************************************)
EXTENDS Naturals, FiniteSets

CONSTANTS Boxes, Items, Nowhere

VARIABLES
  place,   \* place[i] is 0 until item i is observed, then its number
  box,     \* the mailbox that numbered it
  high     \* the last number each mailbox gave

vars == <<place, box, high>>

Init == /\ place = [i \in Items |-> 0]
        /\ box = [i \in Items |-> Nowhere]
        /\ high = [b \in Boxes |-> 0]

Observe(b, S) ==
  LET Given == high[b] + 1 .. high[b] + Cardinality(S)
  IN /\ S # {}
     /\ \A i \in S : place[i] = 0
     /\ {place'[i] : i \in S} = Given
     /\ box' = [i \in Items |-> IF i \in S THEN b ELSE box[i]]
     /\ high' = [high EXCEPT ![b] = @ + Cardinality(S)]
     /\ DOMAIN place' = Items
     /\ \A i \in Items \ S : place'[i] = place[i]

Next == \E b \in Boxes, S \in SUBSET Items : Observe(b, S)

Spec == Init /\ [][Next]_vars
=============================================================================
