----------------------------- MODULE GroupOrders ----------------------------
(***************************************************************************)
(* What the link between the master and a slave promises to the user who   *)
(* switches a group: orders may be missed, never obeyed backwards.         *)
(*                                                                         *)
(* Orders are numbered as they are given.  Of those given the slave obeys  *)
(* some, each perhaps several times, in the order they were given, and its *)
(* relays show the last one obeyed or, since a power failure, the initial  *)
(* position.                                                               *)
(***************************************************************************)
EXTENDS Naturals

VARIABLES
  asked,    \* number of the last order given
  obeyed,   \* number of the last order obeyed
  shown     \* number of the order the relays show, 0 after power-on

orders == <<asked, obeyed, shown>>

Init == asked = 0 /\ obeyed = 0 /\ shown = 0

Ask == asked' = asked + 1 /\ UNCHANGED <<obeyed, shown>>

Obey ==
  \E order \in obeyed .. asked :
    obeyed' = order /\ shown' = order /\ UNCHANGED asked

PowerFails == shown' = 0 /\ UNCHANGED <<asked, obeyed>>

Next == Ask \/ Obey \/ PowerFails

Spec == Init /\ [][Next]_orders
=============================================================================
