-------------------------------- MODULE Node --------------------------------
(***************************************************************************)
(* The master's view of one slave: class Node of libraries/Node, and the   *)
(* queue library it is built on.  A method of the class that changes the   *)
(* object is an operator from a node to a node, so that a handler of       *)
(* Master.ino that calls several of them is their composition.             *)
(*                                                                         *)
(* A node is a record:                                                     *)
(*   state          the field of the same name                             *)
(*   pending        pendingPackets, the FIFO of packets not yet answered   *)
(*   timeSinceSent  checks made since the head was first sent, saturated   *)
(*                  at GiveUpAt, beyond which the code does not look       *)
(*   hasTemp        temperatureSensorConnected, standing for the beliefs   *)
(*                  the master keeps about the slave's configuration       *)
(*   udp            the datagrams on their way to the slave                *)
(*   heard          history: the slave has handled a copy of the head      *)
(*                                                                         *)
(* A datagram is [code, arg]; the message number is left out, for neither  *)
(* side ever compares it with anything.                                    *)
(***************************************************************************)
EXTENDS Naturals, Sequences

CONSTANTS
  QueueCapacity,  \* records of pendingPackets (15 in the code)
  WireCapacity,   \* datagrams a receive buffer holds before it drops
  EagerUntil,     \* below this age the head is resent at every check (5)
  GiveUpAt        \* at this age the node is declared in error (16)

ASSUME NodeConstants ==
  /\ QueueCapacity \in Nat \ {0, 1}
  /\ WireCapacity \in Nat \ {0}
  /\ EagerUntil \in Nat \ {0}
  /\ GiveUpAt \in Nat
  /\ EagerUntil < GiveUpAt

NodeState == {"RUNNING", "PENDING_RESPONSE", "ERROR"}

datagram(code, arg) == [code |-> code, arg |-> arg]
message(code) == datagram(code, 0)

\* The network may drop a datagram: a full receive buffer is one way.
carried(wire, d) == IF Len(wire) < WireCapacity THEN Append(wire, d) ELSE wire
-----------------------------------------------------------------------------
(* cppQueue, constructed FIFO and without overwrite *)

\* Slip: the newest packet goes in front.
pushInFront(queue, p) == IF Len(queue) < QueueCapacity THEN <<p>> \o queue ELSE queue

push(queue, p) == IF Len(queue) < QueueCapacity THEN Append(queue, p) ELSE queue

pop(queue) == IF queue = <<>> THEN queue ELSE Tail(queue)
-----------------------------------------------------------------------------
(* Node *)

NewNode == [state |-> "RUNNING", pending |-> <<>>, timeSinceSent |-> 0,
            hasTemp |-> FALSE, udp |-> <<>>, heard |-> FALSE]

transmit(n, d) == [n EXCEPT !.udp = carried(@, d)]

\* Slip: the state is left as it was when nothing is outstanding any more.
sendNextKeepingState(n) ==
  IF n.pending = <<>> THEN [n EXCEPT !.timeSinceSent = 0]
  ELSE transmit(n, Head(n.pending))

sendNextPacket(n) ==
  IF n.pending = <<>>
    THEN [n EXCEPT !.state = "RUNNING", !.timeSinceSent = 0]
    ELSE transmit(n, Head(n.pending))

\* Slip: a packet is sent at once, whatever is outstanding before it.
sendAtOnce(n, p) ==
  [transmit(n, p) EXCEPT !.state = "PENDING_RESPONSE", !.pending = push(@, p)]

\* sendMessage and sendPacket differ only in the length of what they queue.
sendPacket(n, p) ==
  LET queued == [n EXCEPT !.state = "PENDING_RESPONSE", !.pending = push(@, p)]
  IN  IF Len(queued.pending) = 1 THEN sendNextPacket(queued) ELSE queued

sendAck(n) == transmit(n, message("RECEIVED"))

receiveAck(n) ==
  [sendNextPacket([n EXCEPT !.pending = pop(@), !.heard = FALSE])
     EXCEPT !.timeSinceSent = 0]

resendDue(n) ==
  /\ n.timeSinceSent > 0
  /\ \/ n.timeSinceSent < EagerUntil
     \/ n.timeSinceSent < GiveUpAt /\ n.timeSinceSent % 2 = 0

older(age) == IF age < GiveUpAt THEN age + 1 ELSE age

checkSentPackets(n) ==
  IF n.pending = <<>> THEN n
  ELSE LET checked == IF resendDue(n) THEN sendNextPacket(n)
                      ELSE IF n.timeSinceSent >= GiveUpAt
                             THEN [n EXCEPT !.state = "ERROR"]
                             ELSE n
       IN  [checked EXCEPT !.timeSinceSent = older(@)]

reconnect(n) == sendAck([n EXCEPT !.state = "RUNNING", !.timeSinceSent = 0])

connectTemperatureSensor(n) ==
  [sendPacket(n, message("CONNECT_TEMP")) EXCEPT !.hasTemp = TRUE]

disconnectTemperatureSensor(n) ==
  [sendPacket(n, message("DISCONNECT_TEMP")) EXCEPT !.hasTemp = FALSE]
=============================================================================
