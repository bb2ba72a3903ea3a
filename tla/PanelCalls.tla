------------------------------ MODULE PanelCalls ------------------------------
(***************************************************************************)
(* What the web server's call of its master promises: Node.sendAndReceive  *)
(* of node.py with ControlPanel behind it.  Calls are made one at a time.  *)
(* The master serves a call at most once and in the order they were made;  *)
(* a call that returns an answer has been served; one that returns False   *)
(* may have been, may still be, or may never be.                           *)
(***************************************************************************)
EXTENDS Integers, Sequences

VARIABLES
  told,    \* told[r]: what call r returned, "none" while it waits
  served   \* the calls the master served, in order

Outcomes == {"none", "ok", "failed"}

Waiting == {r \in DOMAIN told : told[r] = "none"}
Served == {served[i] : i \in DOMAIN served}

Init == told = <<>> /\ served = <<>>

Call ==
  /\ Waiting = {}
  /\ told' = Append(told, "none")
  /\ UNCHANGED served

Serve(r) ==
  /\ \A q \in Served : q < r
  /\ served' = Append(served, r)
  /\ UNCHANGED told

Return(r, outcome) ==
  /\ r \in Waiting
  /\ outcome = "ok" => r \in Served
  /\ told' = [told EXCEPT ![r] = outcome]
  /\ UNCHANGED served

Next ==
  \/ Call
  \/ \E r \in DOMAIN told : Serve(r)
  \/ \E r \in DOMAIN told, outcome \in Outcomes \ {"none"} : Return(r, outcome)

Spec == Init /\ [][Next]_<<told, served>>
=============================================================================
