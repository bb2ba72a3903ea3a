------------------------- MODULE NodeLinkOrder_proofs ------------------------
(***************************************************************************)
(* Orders are obeyed in the order they were given: the link implements     *)
(* GroupOrders, for any sizes, any loss and any number of restarts.        *)
(*                                                                         *)
(* The invariant is CommandsInOrder with applied <= version.  What the     *)
(* methods of Node do to it is stated on a pair of sequences, the          *)
(* datagrams on their way and the queue behind them.                       *)
(***************************************************************************)
EXTENDS NodeLink_proofs

InOrder(wire, queue, lo, hi) ==
  /\ Sorted(wire) /\ Sorted(queue) /\ NotAfter(wire, queue)
  /\ Within(wire, lo, hi) /\ Within(queue, lo, hi)

OrderInv ==
  /\ TypeInv
  /\ InOrder(node.udp, node.pending, applied, version)
  /\ applied <= version

-----------------------------------------------------------------------------
(* Sequences of datagrams *)

LEMMA AppendSorted ==
  ASSUME NEW wire \in Seq(NodeDatagram), NEW d \in NodeDatagram, Sorted(wire),
         isTurn(d) => \A i \in DOMAIN wire : isTurn(wire[i]) => wire[i].arg <= d.arg
  PROVE  Sorted(Append(wire, d))
<1> DEFINE longer == Append(wire, d)
<1>1. /\ DOMAIN longer = 1 .. Len(wire) + 1
      /\ \A i \in 1 .. Len(wire) : longer[i] = wire[i]
      /\ longer[Len(wire) + 1] = d
      /\ DOMAIN wire = 1 .. Len(wire) /\ Len(wire) \in Nat
  OBVIOUS
<1> HIDE DEF longer
<1>2. ASSUME NEW i \in DOMAIN longer, NEW j \in DOMAIN longer, i < j,
             isTurn(longer[i]), isTurn(longer[j])
      PROVE  longer[i].arg <= longer[j].arg
  <2>1. i \in DOMAIN wire
    BY <1>1, <1>2
  <2>2. CASE j \in DOMAIN wire
    BY <1>1, <1>2, <2>1, <2>2 DEF Sorted
  <2>3. CASE j = Len(wire) + 1
    BY <1>1, <1>2, <2>1, <2>3
  <2> QED BY <1>1, <2>2, <2>3
<1> QED BY <1>2 DEF Sorted, longer

LEMMA AppendWithin ==
  ASSUME NEW wire \in Seq(NodeDatagram), NEW d \in NodeDatagram,
         NEW lo \in Nat, NEW hi \in Nat,
         Within(wire, lo, hi), isTurn(d) => d.arg \in lo .. hi
  PROVE  Within(Append(wire, d), lo, hi)
<1>1. ASSUME NEW i \in 1 .. Len(wire) + 1 , isTurn(Append(wire, d)[i])
      PROVE  Append(wire, d)[i].arg \in lo .. hi
  <2>1. CASE i \in 1 .. Len(wire)
    BY <1>1, <2>1 DEF Within
  <2>2. CASE i = Len(wire) + 1
    BY <1>1, <2>2
  <2> QED BY <2>1, <2>2
<1> QED BY <1>1 DEF Within

LEMMA Elements ==
  ASSUME NEW wire \in Seq(NodeDatagram), NEW i \in DOMAIN wire
  PROVE  wire[i] \in NodeDatagram /\ wire[i].arg \in Nat
<1>1. wire[i] \in NodeDatagram
  OBVIOUS
<1> QED BY <1>1 DEF NodeDatagram

LEMMA TailSorted ==
  ASSUME NEW wire \in Seq(NodeDatagram), wire # <<>>, Sorted(wire)
  PROVE  Sorted(Tail(wire))
<1> DEFINE rest == Tail(wire)
<1>1. /\ DOMAIN rest = 1 .. Len(wire) - 1
      /\ \A i \in 1 .. Len(wire) - 1 : rest[i] = wire[i + 1] /\ i + 1 \in DOMAIN wire
  OBVIOUS
<1> HIDE DEF rest
<1>2. ASSUME NEW i \in DOMAIN rest, NEW j \in DOMAIN rest, i < j,
             isTurn(rest[i]), isTurn(rest[j])
      PROVE  rest[i].arg <= rest[j].arg
  <2>1. i + 1 < j + 1 /\ i + 1 \in DOMAIN wire /\ j + 1 \in DOMAIN wire
    BY <1>1, <1>2
  <2>2. rest[i] = wire[i + 1] /\ rest[j] = wire[j + 1]
    BY <1>1
  <2> QED BY <1>2, <2>1, <2>2 DEF Sorted
<1> QED BY <1>2 DEF Sorted, rest

\* Sending the head of the queue, the only packet ever sent from it.
LEMMA CarryHead ==
  ASSUME NEW wire \in Seq(NodeDatagram), NEW queue \in Seq(NodeDatagram),
         NEW lo \in Nat, NEW hi \in Nat,
         InOrder(wire, queue, lo, hi), queue # <<>>
  PROVE  InOrder(carried(wire, Head(queue)), queue, lo, hi)
<1> DEFINE d == Head(queue)
           longer == Append(wire, d)
<1>1. d \in NodeDatagram /\ 1 \in DOMAIN queue /\ d = queue[1]
  OBVIOUS
<1> HIDE DEF d
<1>2. Sorted(longer)
  BY <1>1, AppendSorted DEF InOrder, NotAfter
<1>3. Within(longer, lo, hi)
  BY <1>1, AppendWithin DEF InOrder, Within
<1>4. NotAfter(longer, queue)
  <2>1. ASSUME NEW i \in DOMAIN longer, NEW j \in DOMAIN queue,
               isTurn(longer[i]), isTurn(queue[j])
        PROVE  longer[i].arg <= queue[j].arg
    <3>1. CASE i \in DOMAIN wire
      BY <2>1, <3>1 DEF InOrder, NotAfter
    <3>2. CASE i = Len(wire) + 1
      <4>1. longer[i] = queue[1]
        BY <1>1, <3>2
      <4>2. queue[j].arg \in Nat
        BY Elements
      <4>3. CASE j = 1
        BY <4>1, <4>2, <4>3
      <4>4. CASE j # 1
        <5>1. 1 < j
          BY <4>4
        <5> QED BY <1>1, <2>1, <4>1, <5>1 DEF InOrder, Sorted
      <4> QED BY <4>3, <4>4
    <3> QED BY <3>1, <3>2
  <2> QED BY <2>1 DEF NotAfter
<1> QED BY <1>2, <1>3, <1>4 DEF InOrder, carried, d

\* A datagram that is no order disturbs nothing, lost or carried.
LEMMA CarryMessage ==
  ASSUME NEW wire \in Seq(NodeDatagram), NEW queue \in Seq(NodeDatagram),
         NEW lo \in Nat, NEW hi \in Nat, NEW d \in NodeDatagram,
         InOrder(wire, queue, lo, hi), ~isTurn(d)
  PROVE  InOrder(carried(wire, d), queue, lo, hi)
<1>1. Sorted(Append(wire, d)) /\ Within(Append(wire, d), lo, hi)
  BY AppendSorted, AppendWithin DEF InOrder
<1>2. NotAfter(Append(wire, d), queue)
  BY DEF InOrder, NotAfter
<1> QED BY <1>1, <1>2 DEF InOrder, carried

\* What is queued is no order, or the newest.
LEMMA PushNewest ==
  ASSUME NEW wire \in Seq(NodeDatagram), NEW queue \in Seq(NodeDatagram),
         NEW lo \in Nat, NEW hi \in Nat, NEW p \in NodeDatagram, lo <= hi,
         InOrder(wire, queue, lo, hi), isTurn(p) => p.arg = hi
  PROVE  InOrder(wire, push(queue, p), lo, hi)
<1>1. \A i \in DOMAIN queue : isTurn(queue[i]) => queue[i].arg <= hi
  BY DEF InOrder, Within
<1>2. Sorted(Append(queue, p))
  BY <1>1, AppendSorted DEF InOrder
<1>3. Within(Append(queue, p), lo, hi)
  BY AppendWithin DEF InOrder
<1>4. NotAfter(wire, Append(queue, p))
  <2>1. ASSUME NEW i \in DOMAIN wire, NEW j \in 1 .. Len(queue) + 1,
               isTurn(wire[i]), isTurn(Append(queue, p)[j])
        PROVE  wire[i].arg <= Append(queue, p)[j].arg
    <3>1. CASE j \in 1 .. Len(queue)
      BY <2>1, <3>1 DEF InOrder, NotAfter
    <3>2. CASE j = Len(queue) + 1
      BY <2>1, <3>2 DEF InOrder, Within
    <3> QED BY <3>1, <3>2
  <2> QED BY <2>1 DEF NotAfter
<1> QED BY <1>2, <1>3, <1>4 DEF InOrder, push

LEMMA PopOrder ==
  ASSUME NEW wire \in Seq(NodeDatagram), NEW queue \in Seq(NodeDatagram),
         NEW lo \in Nat, NEW hi \in Nat, InOrder(wire, queue, lo, hi)
  PROVE  InOrder(wire, pop(queue), lo, hi)
<1>1. CASE queue = <<>>
  BY <1>1 DEF pop
<1>2. CASE queue # <<>>
  <2>1. /\ DOMAIN Tail(queue) = 1 .. Len(queue) - 1
        /\ \A i \in 1 .. Len(queue) - 1 : Tail(queue)[i] = queue[i + 1]
        /\ \A i \in 1 .. Len(queue) - 1 : i + 1 \in DOMAIN queue
    BY <1>2
  <2>2. Sorted(Tail(queue))
    BY <1>2, TailSorted DEF InOrder
  <2>3. Within(Tail(queue), lo, hi) /\ NotAfter(wire, Tail(queue))
    BY <2>1 DEF InOrder, Within, NotAfter
  <2> QED BY <1>2, <2>2, <2>3 DEF InOrder, pop
<1> QED BY <1>1, <1>2

\* The slave takes the first datagram: once it has obeyed an order, everything
\* behind it is no older.
LEMMA TakeOrder ==
  ASSUME NEW wire \in Seq(NodeDatagram), NEW queue \in Seq(NodeDatagram),
         NEW lo \in Nat, NEW hi \in Nat, InOrder(wire, queue, lo, hi), wire # <<>>
  PROVE  /\ InOrder(Tail(wire), queue, lo, hi)
         /\ isTurn(Head(wire)) => /\ Head(wire).arg \in lo .. hi
                                  /\ InOrder(Tail(wire), queue, Head(wire).arg, hi)
<1>1. /\ DOMAIN Tail(wire) = 1 .. Len(wire) - 1
      /\ \A i \in 1 .. Len(wire) - 1 : Tail(wire)[i] = wire[i + 1]
      /\ \A i \in 1 .. Len(wire) - 1 : i + 1 \in DOMAIN wire /\ 1 < i + 1
      /\ 1 \in DOMAIN wire /\ Head(wire) = wire[1]
  OBVIOUS
<1>2. Sorted(Tail(wire)) /\ NotAfter(Tail(wire), queue) /\ Within(Tail(wire), lo, hi)
  <2>1. Sorted(Tail(wire))
    BY TailSorted DEF InOrder
  <2> QED BY <1>1, <2>1 DEF InOrder, NotAfter, Within
<1>3. ASSUME isTurn(Head(wire))
      PROVE  /\ Head(wire).arg \in lo .. hi
             /\ Within(Tail(wire), Head(wire).arg, hi)
             /\ Within(queue, Head(wire).arg, hi)
  <2>1. Head(wire).arg \in lo .. hi
    BY <1>1, <1>3 DEF InOrder, Within
  <2>2. ASSUME NEW i \in 1 .. Len(wire) - 1, isTurn(wire[i + 1])
        PROVE  wire[i + 1].arg \in Head(wire).arg .. hi
    BY <1>1, <1>3, <2>1, <2>2 DEF InOrder, Sorted, Within
  <2>3. ASSUME NEW i \in DOMAIN queue, isTurn(queue[i])
        PROVE  queue[i].arg \in Head(wire).arg .. hi
    BY <1>1, <1>3, <2>1, <2>3 DEF InOrder, NotAfter, Within
  <2> QED BY <1>1, <2>1, <2>2, <2>3 DEF Within
<1> QED BY <1>2, <1>3 DEF InOrder

\* A lost datagram leaves the others in their order.
LEMMA LossOrder ==
  ASSUME NEW wire \in Seq(NodeDatagram), NEW queue \in Seq(NodeDatagram),
         NEW lo \in Nat, NEW hi \in Nat, InOrder(wire, queue, lo, hi),
         NEW k \in DOMAIN wire
  PROVE  InOrder(without(k, wire), queue, lo, hi)
<1> DEFINE rest == without(k, wire)
           was(i) == IF i < k THEN i ELSE i + 1
<1>1. /\ DOMAIN rest = 1 .. Len(wire) - 1
      /\ \A i \in DOMAIN rest : rest[i] = wire[was(i)] /\ was(i) \in DOMAIN wire
      /\ \A i, j \in DOMAIN rest : i < j => was(i) < was(j)
  <2>1. Len(wire) \in Nat /\ DOMAIN wire = 1 .. Len(wire) /\ k \in 1 .. Len(wire)
    OBVIOUS
  <2> QED BY <2>1 DEF without
<1> HIDE DEF rest, was
<1>2. Sorted(rest)
  <2>1. ASSUME NEW i \in DOMAIN rest, NEW j \in DOMAIN rest, i < j,
               isTurn(rest[i]), isTurn(rest[j])
        PROVE  rest[i].arg <= rest[j].arg
    <3>1. was(i) < was(j) /\ was(i) \in DOMAIN wire /\ was(j) \in DOMAIN wire
      BY <1>1, <2>1
    <3>2. rest[i] = wire[was(i)] /\ rest[j] = wire[was(j)]
      BY <1>1
    <3> QED BY <2>1, <3>1, <3>2 DEF InOrder, Sorted
  <2> QED BY <2>1 DEF Sorted
<1>3. NotAfter(rest, queue) /\ Within(rest, lo, hi)
  BY <1>1 DEF InOrder, NotAfter, Within
<1> QED BY <1>2, <1>3 DEF InOrder, rest

\* A newer order has been given.
LEMMA RaiseOrder ==
  ASSUME NEW wire \in Seq(NodeDatagram), NEW queue \in Seq(NodeDatagram),
         NEW lo \in Nat, NEW hi \in Nat, InOrder(wire, queue, lo, hi)
  PROVE  InOrder(wire, queue, lo, hi + 1)
<1>1. \A w \in Seq(NodeDatagram) : Within(w, lo, hi) => Within(w, lo, hi + 1)
  <2>1. \A x \in lo .. hi : x \in lo .. hi + 1
    OBVIOUS
  <2> QED BY <2>1 DEF Within
<1> QED BY <1>1 DEF InOrder

LEMMA EmptyOrder ==
  ASSUME NEW wire \in Seq(NodeDatagram), NEW queue \in Seq(NodeDatagram),
         NEW lo \in Nat, NEW hi \in Nat, InOrder(wire, queue, lo, hi)
  PROVE  InOrder(wire, <<>>, lo, hi)
BY DEF InOrder, Sorted, NotAfter, Within
-----------------------------------------------------------------------------
(* The methods of Node *)

Ordered(n, lo, hi) == InOrder(n.udp, n.pending, lo, hi)

Bounds(lo, hi) == lo \in Nat /\ hi \in Nat /\ lo <= hi

LEMMA MessagesAreNoOrders ==
  /\ ~isTurn(message("STATE")) /\ ~isTurn(message("DATA"))
  /\ ~isTurn(message("CONNECT_TEMP")) /\ ~isTurn(message("DISCONNECT_TEMP"))
  /\ ~isTurn(message("RECEIVED"))
  /\ \A v \in Nat : turn(v).arg = v
BY DEF isTurn, message, turn, datagram

LEMMA SendNextOrder ==
  ASSUME NEW n \in NodeType, NEW lo, NEW hi, Bounds(lo, hi), Ordered(n, lo, hi)
  PROVE  Ordered(sendNextPacket(n), lo, hi)
<1>1. CASE n.pending = <<>>
  <2>1. /\ sendNextPacket(n).udp = n.udp
        /\ sendNextPacket(n).pending = n.pending
    BY <1>1 DEF sendNextPacket, NodeType
  <2> QED BY <2>1 DEF Ordered
<1>2. CASE n.pending # <<>>
  <2>1. /\ sendNextPacket(n).udp = carried(n.udp, Head(n.pending))
        /\ sendNextPacket(n).pending = n.pending
    BY <1>2 DEF sendNextPacket, transmit, NodeType
  <2>2. n.udp \in Seq(NodeDatagram) /\ n.pending \in Seq(NodeDatagram)
    BY DEF NodeType
  <2> QED BY <1>2, <2>1, <2>2, CarryHead DEF Ordered, Bounds
<1> QED BY <1>1, <1>2

LEMMA SendPacketOrder ==
  ASSUME NEW n \in NodeType, NEW lo, NEW hi, Bounds(lo, hi), Ordered(n, lo, hi),
         NEW p \in NodeDatagram, isTurn(p) => p.arg = hi
  PROVE  Ordered(sendPacket(n, p), lo, hi)
<1> DEFINE queued == [n EXCEPT !.state = "PENDING_RESPONSE", !.pending = push(@, p)]
<1>1. n.udp \in Seq(NodeDatagram) /\ n.pending \in Seq(NodeDatagram)
  BY DEF NodeType
<1>2. push(n.pending, p) \in Seq(NodeDatagram)
  BY <1>1, PushType
<1>3. queued \in NodeType
  BY <1>2, NodeStates DEF NodeType
<1>4. queued.udp = n.udp /\ queued.pending = push(n.pending, p)
  BY DEF NodeType
<1>5. Ordered(queued, lo, hi)
  <2> HIDE DEF queued
  <2> QED BY <1>1, <1>4, PushNewest DEF Ordered, Bounds
<1> QED BY <1>3, <1>5, SendNextOrder DEF sendPacket

LEMMA SendAckOrder ==
  ASSUME NEW n \in NodeType, NEW lo, NEW hi, Bounds(lo, hi), Ordered(n, lo, hi)
  PROVE  Ordered(sendAck(n), lo, hi)
<1>1. /\ sendAck(n).udp = carried(n.udp, message("RECEIVED"))
      /\ sendAck(n).pending = n.pending
  BY DEF sendAck, transmit, NodeType
<1>2. n.udp \in Seq(NodeDatagram) /\ n.pending \in Seq(NodeDatagram)
  BY DEF NodeType
<1> QED
  BY <1>1, <1>2, CarryMessage, Messages, MessagesAreNoOrders DEF Ordered, Bounds

LEMMA ReceiveAckOrder ==
  ASSUME NEW n \in NodeType, NEW lo, NEW hi, Bounds(lo, hi), Ordered(n, lo, hi)
  PROVE  Ordered(receiveAck(n), lo, hi)
<1> DEFINE popped == [n EXCEPT !.pending = pop(@), !.heard = FALSE]
<1>1. n.udp \in Seq(NodeDatagram) /\ n.pending \in Seq(NodeDatagram)
  BY DEF NodeType
<1>2. pop(n.pending) \in Seq(NodeDatagram)
  BY <1>1, PopType
<1>3. popped \in NodeType /\ popped.udp = n.udp /\ popped.pending = pop(n.pending)
  BY <1>2 DEF NodeType
<1> HIDE DEF popped
<1>4. Ordered(popped, lo, hi)
  BY <1>1, <1>3, PopOrder DEF Ordered, Bounds
<1>5. Ordered(sendNextPacket(popped), lo, hi) /\ sendNextPacket(popped) \in NodeType
  BY <1>3, <1>4, SendNextOrder, SendNextType
<1>6. /\ receiveAck(n).udp = sendNextPacket(popped).udp
      /\ receiveAck(n).pending = sendNextPacket(popped).pending
  BY <1>5 DEF receiveAck, popped, NodeType
<1> QED BY <1>5, <1>6 DEF Ordered

LEMMA CheckSentOrder ==
  ASSUME NEW n \in NodeType, NEW lo, NEW hi, Bounds(lo, hi), Ordered(n, lo, hi)
  PROVE  Ordered(checkSentPackets(n), lo, hi)
<1> DEFINE checked == IF resendDue(n) THEN sendNextPacket(n)
                      ELSE IF n.timeSinceSent >= GiveUpAt
                             THEN [n EXCEPT !.state = "ERROR"]
                             ELSE n
           gaveUp == [n EXCEPT !.state = "ERROR"]
<1>1. gaveUp \in NodeType /\ gaveUp.udp = n.udp /\ gaveUp.pending = n.pending
  BY NodeStates DEF NodeType
<1>2. checked \in NodeType /\ Ordered(checked, lo, hi)
  <2> HIDE DEF gaveUp
  <2>1. gaveUp \in NodeType /\ Ordered(gaveUp, lo, hi)
    BY <1>1 DEF Ordered
  <2> QED BY <2>1, SendNextOrder, SendNextType DEF gaveUp
<1> HIDE DEF checked
<1> DEFINE aged == [checked EXCEPT !.timeSinceSent = older(@)]
<1>3. aged.udp = checked.udp /\ aged.pending = checked.pending
  BY <1>2 DEF NodeType
<1>4. Ordered(aged, lo, hi)
  BY <1>2, <1>3 DEF Ordered
<1> QED BY <1>4 DEF checkSentPackets, checked

LEMMA ReconnectOrder ==
  ASSUME NEW n \in NodeType, NEW lo, NEW hi, Bounds(lo, hi), Ordered(n, lo, hi)
  PROVE  Ordered(reconnect(n), lo, hi)
<1> DEFINE running == [n EXCEPT !.state = "RUNNING", !.timeSinceSent = 0]
<1>1. running \in NodeType /\ running.udp = n.udp /\ running.pending = n.pending
  BY NodeStates, Ages DEF NodeType
<1> HIDE DEF running
<1>2. Ordered(running, lo, hi)
  BY <1>1 DEF Ordered
<1>3. Ordered(sendAck(running), lo, hi)
  BY <1>1, <1>2, SendAckOrder
<1> QED BY <1>3 DEF reconnect, running

LEMMA TempOrder ==
  ASSUME NEW n \in NodeType, NEW lo, NEW hi, Bounds(lo, hi), Ordered(n, lo, hi)
  PROVE  /\ Ordered(connectTemperatureSensor(n), lo, hi)
         /\ Ordered(disconnectTemperatureSensor(n), lo, hi)
<1>1. ASSUME NEW p \in NodeDatagram, ~isTurn(p), NEW b
      PROVE  Ordered([sendPacket(n, p) EXCEPT !.hasTemp = b], lo, hi)
  <2>1. sendPacket(n, p) \in NodeType /\ Ordered(sendPacket(n, p), lo, hi)
    BY <1>1, SendPacketType, SendPacketOrder
  <2> DEFINE m == sendPacket(n, p)
  <2> HIDE DEF m
  <2>2. [m EXCEPT !.hasTemp = b].udp = m.udp /\ [m EXCEPT !.hasTemp = b].pending = m.pending
    BY <2>1 DEF m, NodeType
  <2> QED BY <2>1, <2>2 DEF Ordered, m
<1> QED
  BY <1>1, Messages, MessagesAreNoOrders
     DEF connectTemperatureSensor, disconnectTemperatureSensor

LEMMA HandledByMasterOrder ==
  ASSUME NEW n \in NodeType, NEW lo, Bounds(lo, version), Ordered(n, lo, version),
         NEW d \in SlaveDatagram
  PROVE  Ordered(handledByMaster(n, d), lo, version)
<1> DEFINE told == [n EXCEPT !.hasTemp = (d.arg = 1)]
<1>1. told \in NodeType /\ told.udp = n.udp /\ told.pending = n.pending
  BY DEF NodeType
<1>2. version \in Nat /\ turn(version) \in NodeDatagram /\ turn(version).arg = version
  BY Messages, MessagesAreNoOrders DEF Bounds
<1>3. ASSUME NEW m \in NodeType, Ordered(m, lo, version)
      PROVE  /\ sendPacket(m, turn(version)) \in NodeType
             /\ Ordered(sendPacket(m, turn(version)), lo, version)
  BY <1>2, <1>3, SendPacketType, SendPacketOrder
<1>4. ASSUME NEW m \in NodeType, Ordered(m, lo, version)
      PROVE  Ordered(sendGroupStates(m), lo, version)
  <2> HIDE DEF turn
  <2> QED BY <1>3, <1>4 DEF sendGroupStates
<1>5. handleSensorInfo(n, d.arg) \in NodeType
      /\ Ordered(handleSensorInfo(n, d.arg), lo, version)
  <2>1. Ordered(told, lo, version)
    BY <1>1 DEF Ordered
  <2> HIDE DEF told
  <2>2. sendGroupStates(told) \in NodeType /\ Ordered(sendGroupStates(told), lo, version)
    BY <1>1, <1>2, <1>4, <2>1, GroupStatesType
  <2> QED BY <2>2 DEF handleSensorInfo, told
<1>6. Ordered(handleData(n, d), lo, version)
  <2>1. ASSUME NEW m \in NodeType, Ordered(m, lo, version)
        PROVE  Ordered(receiveAck(sendAck(m)), lo, version)
    BY <2>1, SendAckType, SendAckOrder, ReceiveAckOrder
  <2> QED BY <1>5, <2>1 DEF handleData
<1>7. Ordered(handleMessage(n, d.code), lo, version)
  BY ReconnectOrder, ReceiveAckOrder, SendAckOrder DEF handleMessage
<1> QED BY <1>6, <1>7 DEF handledByMaster
-----------------------------------------------------------------------------
(* The invariant *)

LEMMA OrderInit == Init => OrderInv
<1> SUFFICES ASSUME Init PROVE OrderInv
  OBVIOUS
<1>1. node.udp = <<>> /\ node.pending = <<>> /\ applied = 0 /\ version = 0
  BY DEF Init, NewNode
<1>2. InOrder(<<>>, <<>>, 0, 0)
  BY DEF InOrder, Sorted, NotAfter, Within
<1> QED BY <1>1, <1>2, TypeInit DEF OrderInv

LEMMA OrderNext ==
  ASSUME OrderInv, [Next]_vars
  PROVE  OrderInv' /\ [Orders!Next]_(Orders!orders)
<1>1. /\ node \in NodeType /\ slave \in SlaveType
      /\ Bounds(applied, version) /\ Ordered(node, applied, version)
      /\ TypeInv'
  BY TypeInvForm, TypeNext DEF OrderInv, Bounds, Ordered
<1>2. node.udp \in Seq(NodeDatagram) /\ node.pending \in Seq(NodeDatagram)
  BY <1>1 DEF NodeType
<1> DEFINE Kept == /\ UNCHANGED <<applied, version>> /\ relay' \in {0, relay}
                   /\ Ordered(node', applied, version)
<1>3. ASSUME Kept
      PROVE  OrderInv' /\ [Orders!Next]_(Orders!orders)
  BY <1>1, <1>3 DEF OrderInv, Ordered, Bounds, Orders!Next, Orders!PowerFails, Orders!orders
<1>4. CASE TurnGroup
  <2>1. turn(version + 1) \in NodeDatagram /\ turn(version + 1).arg = version + 1
    BY <1>1, Messages, MessagesAreNoOrders DEF Bounds
  <2>2. Ordered(node, applied, version + 1) /\ Bounds(applied, version + 1)
    BY <1>1, <1>2, RaiseOrder DEF Ordered, Bounds
  <2>3. Ordered(sendPacket(node, turn(version + 1)), applied, version + 1)
    BY <1>1, <2>1, <2>2, SendPacketOrder
  <2>4. /\ version' = version + 1 /\ UNCHANGED <<applied, relay>>
        /\ Ordered(node', applied, version + 1)
    BY <1>4, <2>2, <2>3 DEF TurnGroup, slaveVars
  <2> QED
    BY <1>1, <2>2, <2>4 DEF OrderInv, Ordered, Bounds, Orders!Next, Orders!Ask, Orders!orders
<1>5. CASE ConnectTemp \/ DisconnectTemp
  <2>1. Kept
    BY <1>1, <1>5, TempOrder DEF ConnectTemp, DisconnectTemp, slaveVars
  <2> QED BY <1>3, <2>1
<1>6. CASE RequestSensorData \/ CheckNodeStatus
  <2>1. Kept
    BY <1>1, <1>6, SendPacketOrder, Messages, MessagesAreNoOrders
       DEF RequestSensorData, CheckNodeStatus, slaveVars
  <2> QED BY <1>3, <2>1
<1>7. CASE CheckSentPackets
  <2>1. Kept
    BY <1>1, <1>7, CheckSentOrder DEF CheckSentPackets, slaveVars
  <2> QED BY <1>3, <2>1
<1>8. CASE MasterReceives
  <2>1. Head(slave.udp) \in SlaveDatagram
    BY <1>1, <1>8, TailType DEF MasterReceives, Receives, SlaveType
  <2>2. Kept
    BY <1>1, <1>8, <2>1, HandledByMasterOrder DEF MasterReceives, Receives
  <2> QED BY <1>3, <2>2
<1>9. [NewNode EXCEPT !.udp = node.udp] \in NodeType
      /\ Ordered([NewNode EXCEPT !.udp = node.udp], applied, version)
  <2>1. /\ [NewNode EXCEPT !.udp = node.udp] \in NodeType
        /\ [NewNode EXCEPT !.udp = node.udp].udp = node.udp
        /\ [NewNode EXCEPT !.udp = node.udp].pending = <<>>
    BY <1>2, NewNodeType DEF NewNode, NodeType
  <2>2. InOrder(node.udp, <<>>, applied, version)
    BY <1>1, <1>2, EmptyOrder DEF Ordered, Bounds
  <2> QED BY <2>1, <2>2 DEF Ordered
<1>10. CASE MasterMeets
  <2>1. Kept
    BY <1>1, <1>9, <1>10, SendAckOrder DEF MasterMeets, Receives
  <2> QED BY <1>3, <2>1
<1>11. CASE UNCHANGED <<node, version, applied>> /\ relay' \in {0, relay}
  <2>1. Kept
    BY <1>1, <1>11
  <2> QED BY <1>3, <2>1
<1>12. CASE SlaveBoots \/ ConnectRetry \/ ConnectTimeout \/ DetectMotion \/ ResendAlarmFires
            \/ CheckMasterStatus \/ WifiDropsAndReturns \/ SlaveCrashes \/ LosesToMaster
            \/ Settles \/ UNCHANGED vars
  <2>1. UNCHANGED <<node, version, applied>> /\ relay' \in {0, relay}
    BY <1>12 DEF SlaveBoots, ConnectRetry, ConnectTimeout, DetectMotion, ResendAlarmFires,
       CheckMasterStatus, WifiDropsAndReturns, SlaveCrashes, LosesToMaster, Settles,
       masterVars, slaveVars, vars
  <2> QED BY <1>11, <2>1
<1>13. ASSUME node.udp # <<>>
       PROVE  /\ InOrder(Tail(node.udp), node.pending, applied, version)
              /\ isTurn(arriving) =>
                   /\ arriving.arg \in applied .. version
                   /\ InOrder(Tail(node.udp), node.pending, arriving.arg, version)
  BY <1>1, <1>2, <1>13, TakeOrder DEF Ordered, Bounds, arriving
<1>14. CASE SlaveConnected
  <2>1. node'.udp = Tail(node.udp) /\ node'.pending = node.pending
    BY <1>1, <1>14 DEF SlaveConnected, NodeType
  <2>2. Kept
    BY <1>13, <1>14, <2>1 DEF SlaveConnected, Ordered
  <2> QED BY <1>3, <2>2
<1>15. ASSUME Takes
       PROVE  /\ node'.udp = Tail(node.udp) /\ node'.pending = node.pending
              /\ UNCHANGED version /\ node.udp # <<>>
  BY <1>1, <1>15 DEF Takes, NodeType
<1>16. CASE SlaveReceives
  <2>1. CASE arriving.code = "TURN"
    <3>1. /\ arriving.arg \in applied .. version
          /\ InOrder(Tail(node.udp), node.pending, arriving.arg, version)
      BY <1>13, <1>15, <1>16, <2>1 DEF SlaveReceives, isTurn
    <3>2. applied' = arriving.arg /\ relay' = arriving.arg
      BY <1>16, <2>1 DEF SlaveReceives
    <3> QED
      BY <1>1, <1>15, <1>16, <3>1, <3>2 DEF SlaveReceives, OrderInv, Bounds,
         Orders!Next, Orders!Obey, Orders!orders
  <2>2. CASE arriving.code # "TURN"
    <3>1. Kept
      BY <1>13, <1>15, <1>16, <2>2 DEF SlaveReceives, Ordered
    <3> QED BY <1>3, <3>1
  <2> QED BY <2>1, <2>2
<1>17. CASE PowerFailsAfterAck
  <2>1. Kept
    BY <1>13, <1>15, <1>17 DEF PowerFailsAfterAck, Ordered
  <2> QED BY <1>3, <2>1
<1>18. CASE MasterRestarts
  <2>1. /\ version' = version + 1 /\ UNCHANGED <<applied, relay>>
        /\ node' = [NewNode EXCEPT !.udp = node.udp]
    BY <1>18 DEF MasterRestarts, slaveVars
  <2>2. node'.udp \in Seq(NodeDatagram) /\ node'.pending \in Seq(NodeDatagram)
    BY <1>9, <2>1 DEF NodeType
  <2>3. Ordered(node', applied, version + 1)
    BY <1>1, <1>9, <2>1, <2>2, RaiseOrder DEF Ordered, Bounds
  <2> QED
    BY <1>1, <2>1, <2>3 DEF OrderInv, Ordered, Bounds, Orders!Next, Orders!Ask, Orders!orders
<1>19. CASE LosesToSlave
  <2>1. PICK i \in DOMAIN node.udp : node' = [node EXCEPT !.udp = without(i, @)]
    BY <1>19 DEF LosesToSlave
  <2>2. node'.udp = without(i, node.udp) /\ node'.pending = node.pending
    BY <1>1, <2>1 DEF NodeType
  <2>3. Kept
    BY <1>1, <1>2, <1>19, <2>2, LossOrder DEF LosesToSlave, slaveVars, Ordered, Bounds
  <2> QED BY <1>3, <2>3
<1> QED
  BY <1>4, <1>5, <1>6, <1>7, <1>8, <1>10, <1>12, <1>14, <1>16, <1>17, <1>18, <1>19
     DEF Next, Master, SlaveNext, Fault

\* Resending only ever repeats the oldest order the slave may not have, so no
\* order overtakes another, on the way or in the queue.
THEOREM OrdersKeepTheirOrder == Spec => []CommandsInOrder
<1>1. OrderInv => CommandsInOrder
  BY DEF OrderInv, InOrder, CommandsInOrder
<1>2. OrderInv /\ [Next]_vars => OrderInv'
  BY OrderNext
<1> QED BY <1>1, <1>2, OrderInit, PTL DEF Spec

\* The link implements GroupOrders: every initial state is one of its, every
\* step is a step of its or leaves the orders as they are.
THEOREM LinkObeysInOrder == Spec => ObeysInOrder
<1>1. Init => Orders!Init
  BY DEF Init, Orders!Init
<1>2. OrderInv /\ [Next]_vars => OrderInv' /\ [Orders!Next]_(Orders!orders)
  BY OrderNext
<1> QED BY <1>1, <1>2, OrderInit, PTL DEF Spec, ObeysInOrder, Orders!Spec
=============================================================================
