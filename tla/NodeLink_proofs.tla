--------------------------- MODULE NodeLink_proofs --------------------------
(***************************************************************************)
(* What holds of the link between master and slave for every capacity of   *)
(* queues and buffers, every setting of the timers and any number of       *)
(* requests and faults: the types, and that neither side falls silent.     *)
(* NodeLinkOrder_proofs has the order in which orders are obeyed.          *)
(***************************************************************************)
EXTENDS NodeLink, WellFoundedInduction, TLAPS

NodeType == [state : NodeState, pending : Seq(NodeDatagram),
             timeSinceSent : 0 .. GiveUpAt, hasTemp : BOOLEAN,
             udp : Seq(NodeDatagram), heard : BOOLEAN]

SlaveType == [mode : SlaveMode, retried : BOOLEAN,
              masterState : {"RUNNING", "PENDING_RESPONSE"},
              timers : SUBSET Slots, resendAlarm : Slots \cup {NotSet},
              packetSent : BOOLEAN, sentMsg : SlaveCode \cup {"STATE"},
              sentPacket : SlaveDatagram, silent : 0 .. SilenceLimit,
              temp : BOOLEAN, udp : Seq(SlaveDatagram)]
-----------------------------------------------------------------------------
(* The members of the enumerations; the proofs below keep these opaque. *)

LEMMA NodeStates ==
  "RUNNING" \in NodeState /\ "PENDING_RESPONSE" \in NodeState /\ "ERROR" \in NodeState
BY DEF NodeState

LEMMA Ages ==
  /\ 0 \in 0 .. GiveUpAt
  /\ \A age \in 0 .. GiveUpAt : older(age) \in 0 .. GiveUpAt
BY NodeConstants DEF NodeConstants, older

LEMMA MasterCodes ==
  ASSUME NEW c \in MasterCode, NEW a \in Nat
  PROVE  datagram(c, a) \in NodeDatagram
BY DEF datagram, NodeDatagram

LEMMA Messages ==
  /\ message("STATE") \in NodeDatagram /\ message("DATA") \in NodeDatagram
  /\ message("CONNECT_TEMP") \in NodeDatagram
  /\ message("DISCONNECT_TEMP") \in NodeDatagram
  /\ message("RECEIVED") \in NodeDatagram
  /\ \A v \in Nat : turn(v) \in NodeDatagram
BY MasterCodes DEF message, turn, MasterCode
-----------------------------------------------------------------------------
(* The methods of Node keep its type *)

LEMMA CarriedType ==
  ASSUME NEW wire \in Seq(NodeDatagram), NEW d \in NodeDatagram
  PROVE  carried(wire, d) \in Seq(NodeDatagram)
BY DEF carried

LEMMA PushType ==
  ASSUME NEW q \in Seq(NodeDatagram), NEW d \in NodeDatagram
  PROVE  push(q, d) \in Seq(NodeDatagram)
BY DEF push

LEMMA PopType ==
  ASSUME NEW q \in Seq(NodeDatagram)
  PROVE  pop(q) \in Seq(NodeDatagram)
BY DEF pop

LEMMA TransmitType ==
  ASSUME NEW n \in NodeType, NEW d \in NodeDatagram
  PROVE  transmit(n, d) \in NodeType
<1>1. carried(n.udp, d) \in Seq(NodeDatagram)
  BY CarriedType DEF NodeType
<1> QED BY <1>1 DEF transmit, NodeType

LEMMA SendNextType ==
  ASSUME NEW n \in NodeType
  PROVE  sendNextPacket(n) \in NodeType
<1>1. CASE n.pending = <<>>
  BY <1>1, NodeStates, Ages DEF sendNextPacket, NodeType
<1>2. CASE n.pending # <<>>
  <2>1. Head(n.pending) \in NodeDatagram
    BY <1>2 DEF NodeType
  <2> QED BY <1>2, <2>1, TransmitType DEF sendNextPacket
<1> QED BY <1>1, <1>2

LEMMA SendPacketType ==
  ASSUME NEW n \in NodeType, NEW d \in NodeDatagram
  PROVE  sendPacket(n, d) \in NodeType
<1> DEFINE queued == [n EXCEPT !.state = "PENDING_RESPONSE", !.pending = push(@, d)]
<1>1. push(n.pending, d) \in Seq(NodeDatagram)
  BY PushType DEF NodeType
<1>2. queued \in NodeType
  BY <1>1, NodeStates DEF NodeType
<1>3. sendNextPacket(queued) \in NodeType
  BY <1>2, SendNextType
<1> QED BY <1>2, <1>3 DEF sendPacket

LEMMA SendAckType ==
  ASSUME NEW n \in NodeType
  PROVE  sendAck(n) \in NodeType
BY TransmitType, Messages DEF sendAck

LEMMA ReceiveAckType ==
  ASSUME NEW n \in NodeType
  PROVE  receiveAck(n) \in NodeType
<1> DEFINE popped == [n EXCEPT !.pending = pop(@), !.heard = FALSE]
<1>1. pop(n.pending) \in Seq(NodeDatagram)
  BY PopType DEF NodeType
<1>2. popped \in NodeType
  BY <1>1 DEF NodeType
<1>3. sendNextPacket(popped) \in NodeType
  BY <1>2, SendNextType
<1>4. [sendNextPacket(popped) EXCEPT !.timeSinceSent = 0] \in NodeType
  BY <1>3, Ages DEF NodeType
<1> QED BY <1>4 DEF receiveAck

LEMMA CheckSentType ==
  ASSUME NEW n \in NodeType
  PROVE  checkSentPackets(n) \in NodeType
<1> DEFINE checked == IF resendDue(n) THEN sendNextPacket(n)
                      ELSE IF n.timeSinceSent >= GiveUpAt
                             THEN [n EXCEPT !.state = "ERROR"]
                             ELSE n
<1>1. checked \in NodeType
  <2>1. [n EXCEPT !.state = "ERROR"] \in NodeType
    BY NodeStates DEF NodeType
  <2> QED BY <2>1, SendNextType
<1> HIDE DEF checked
<1>2. [checked EXCEPT !.timeSinceSent = older(@)] \in NodeType
  BY <1>1, Ages DEF NodeType
<1> QED BY <1>2 DEF checkSentPackets, checked

LEMMA ReconnectType ==
  ASSUME NEW n \in NodeType
  PROVE  reconnect(n) \in NodeType
<1>1. [n EXCEPT !.state = "RUNNING", !.timeSinceSent = 0] \in NodeType
  BY NodeStates, Ages DEF NodeType
<1> QED BY <1>1, SendAckType DEF reconnect

LEMMA TempType ==
  ASSUME NEW n \in NodeType
  PROVE  /\ connectTemperatureSensor(n) \in NodeType
         /\ disconnectTemperatureSensor(n) \in NodeType
<1>1. /\ sendPacket(n, message("CONNECT_TEMP")) \in NodeType
      /\ sendPacket(n, message("DISCONNECT_TEMP")) \in NodeType
  BY SendPacketType, Messages
<1> QED BY <1>1 DEF connectTemperatureSensor, disconnectTemperatureSensor, NodeType

LEMMA NewNodeType == NewNode \in NodeType
BY NodeStates, Ages DEF NewNode, NodeType
-----------------------------------------------------------------------------
(* The functions of the slave keep its type *)

LEMMA SlaveEnumerations ==
  /\ "DOWN" \in SlaveMode /\ "CONNECTING" \in SlaveMode /\ "RUNNING" \in SlaveMode
  /\ SlaveCode \subseteq SlaveCode \cup {"STATE"}
  /\ {"CONNECTION", "RUNNING", "RECEIVED", "MOTION"} \subseteq SlaveCode
  /\ "STATE" \in SlaveCode \cup {"STATE"}
BY DEF SlaveMode, SlaveCode

LEMMA Silences ==
  /\ 0 \in 0 .. SilenceLimit /\ 1 \in 0 .. SilenceLimit
  /\ \A t \in 0 .. SilenceLimit : ~(t >= SilenceLimit) => t + 1 \in 0 .. SilenceLimit
BY SlaveConstants DEF SlaveConstants

LEMMA ToMasterType ==
  ASSUME NEW c \in SlaveCode, NEW a \in {0, 1}
  PROVE  toMaster(c, a) \in SlaveDatagram
BY DEF toMaster, SlaveDatagram

LEMMA ToMasterCodes ==
  /\ \A b \in BOOLEAN : toMaster("INFO", flag(b)) \in SlaveDatagram
  /\ toMaster("INFO", 0) \in SlaveDatagram
  /\ toMaster("DATA", 0) \in SlaveDatagram
  /\ toMaster("SHORT_DATA", 0) \in SlaveDatagram
  /\ toMaster("RECEIVED", 0) \in SlaveDatagram
BY ToMasterType DEF SlaveCode, flag

LEMMA PutType ==
  ASSUME NEW s \in SlaveType, NEW d \in SlaveDatagram
  PROVE  put(s, d) \in SlaveType
<1> DEFINE sent == IF Len(s.udp) < SlaveWire THEN Append(s.udp, d) ELSE s.udp
<1>1. sent \in Seq(SlaveDatagram)
  BY DEF SlaveType
<1> QED BY <1>1 DEF put, SlaveType

\* Every non-empty set of naturals has a least element.
LEMMA Smallest ==
  ASSUME NEW T, T \subseteq Nat, T # {}
  PROVE  least(T) \in T
<1> DEFINE Less == {p \in Nat \X Nat : p[1] < p[2]}
<1>1. IsWellFoundedOn(Less, Nat)
  BY NatLessThanWellFounded DEF OpToRel
<1>2. PICK i \in T : \A j \in T : ~(<<j, i>> \in Less)
  <2> HIDE DEF Less
  <2> QED BY <1>1, WFMin
<1>3. \A j \in T : ~(j < i)
  BY <1>2
<1>4. \E k \in T : \A j \in T : k <= j
  BY <1>3
<1> QED BY <1>4 DEF least

\* The pool hands out a slot that is free or, when it is exhausted, none.
LEMMA FirstFreeType ==
  ASSUME NEW timers \in SUBSET Slots
  PROVE  /\ firstFree(timers) \in Slots \cup {NotSet}
         /\ timers # Slots => firstFree(timers) \in Slots \ timers
<1>1. CASE timers = Slots
  BY <1>1 DEF firstFree
<1>2. CASE timers # Slots
  <2>1. Slots \subseteq Nat
    BY DEF Slots
  <2>2. Slots \ timers \subseteq Nat /\ Slots \ timers # {}
    BY <1>2, <2>1
  <2> QED BY <1>2, <2>2, Smallest DEF firstFree
<1> QED BY <1>1, <1>2

LEMMA SetResendAlarmType ==
  ASSUME NEW s \in SlaveType
  PROVE  setResendAlarm(s) \in SlaveType
<1> DEFINE slot == firstFree(s.timers)
<1>1. slot \in Slots \cup {NotSet}
  BY FirstFreeType DEF SlaveType
<1> HIDE DEF slot
<1>2. s.timers \cup ({slot} \ {NotSet}) \in SUBSET Slots
  BY <1>1 DEF SlaveType
<1>3. [s EXCEPT !.masterState = "PENDING_RESPONSE", !.resendAlarm = slot,
               !.timers = @ \cup ({slot} \ {NotSet})] \in SlaveType
  BY <1>1, <1>2 DEF SlaveType
<1> QED BY <1>3 DEF setResendAlarm, slot

LEMMA FreeResendAlarmType ==
  ASSUME NEW s \in SlaveType
  PROVE  freeResendAlarm(s) \in SlaveType
<1>1. s.timers \ {s.resendAlarm} \in SUBSET Slots /\ NotSet \in Slots \cup {NotSet}
  BY DEF SlaveType
<1> QED BY <1>1 DEF freeResendAlarm, SlaveType

LEMMA SendUnawaitedType ==
  ASSUME NEW s \in SlaveType, NEW c \in SlaveCode
  PROVE  sendUnawaited(s, c) \in SlaveType
<1>1. put(s, toMaster(c, 0)) \in SlaveType
  BY PutType, ToMasterType
<1> QED BY <1>1, SlaveEnumerations DEF sendUnawaited, SlaveType

LEMMA SendMessageType ==
  ASSUME NEW s \in SlaveType, NEW c \in SlaveCode
  PROVE  sendMessage(s, c) \in SlaveType
BY SendUnawaitedType, SetResendAlarmType DEF sendMessage

LEMMA SendDataType ==
  ASSUME NEW s \in SlaveType, NEW d \in SlaveDatagram
  PROVE  sendData(s, d) \in SlaveType
<1>1. put(s, d) \in SlaveType
  BY PutType
<1> QED BY <1>1 DEF sendData, SlaveType

LEMMA SendSensorInfoType ==
  ASSUME NEW s \in SlaveType
  PROVE  sendSensorInfo(s) \in SlaveType
<1>1. s.temp \in BOOLEAN
  BY DEF SlaveType
<1> QED BY <1>1, ToMasterCodes, SendDataType, SetResendAlarmType DEF sendSensorInfo

LEMMA SendSensorDataType ==
  ASSUME NEW s \in SlaveType
  PROVE  sendSensorData(s) \in SlaveType
BY ToMasterCodes, SendDataType DEF sendSensorData

LEMMA AckMasterType ==
  ASSUME NEW s \in SlaveType
  PROVE  ackMaster(s) \in SlaveType
<1>1. put(s, toMaster("RECEIVED", 0)) \in SlaveType
  BY PutType, ToMasterCodes
<1>2. "RECEIVED" \in SlaveCode \cup {"STATE"}
  BY SlaveEnumerations
<1> QED BY <1>1, <1>2 DEF ackMaster, SlaveType

LEMMA ResendLastMessageType ==
  ASSUME NEW s \in SlaveType, s.sentMsg \in SlaveCode
  PROVE  resendLastMessage(s) \in SlaveType
<1>1. s.sentPacket \in SlaveDatagram
  BY DEF SlaveType
<1> QED BY <1>1, SendDataType, SendMessageType DEF resendLastMessage

LEMMA ConnectToMasterType ==
  ASSUME NEW s \in SlaveType
  PROVE  connectToMaster(s) \in SlaveType
<1>1. sendMessage(s, "CONNECTION") \in SlaveType
  BY SendMessageType, SlaveEnumerations
<1> QED BY <1>1, SlaveEnumerations DEF connectToMaster, SlaveType

LEMMA ConnectedType ==
  ASSUME NEW s \in SlaveType, NEW c
  PROVE  connected(s, c) \in SlaveType
<1> DEFINE answered == IF c = "RECEIVED" THEN [s EXCEPT !.masterState = "RUNNING"]
                       ELSE s
<1>1. answered \in SlaveType
  BY DEF SlaveType
<1> HIDE DEF answered
<1>2. sendSensorInfo(answered) \in SlaveType
  BY <1>1, SendSensorInfoType
<1>3. [sendSensorInfo(answered) EXCEPT !.mode = "RUNNING", !.retried = FALSE]
        \in SlaveType
  BY <1>2, SlaveEnumerations DEF SlaveType
<1> QED BY <1>3 DEF connected, answered

LEMMA HeardType ==
  ASSUME NEW s \in SlaveType
  PROVE  heard(s) \in SlaveType
<1>1. [s EXCEPT !.silent = 0] \in SlaveType
  BY Silences DEF SlaveType
<1>2. [[s EXCEPT !.silent = 0] EXCEPT !.masterState = "RUNNING"] \in SlaveType
  BY <1>1 DEF SlaveType
<1> QED BY <1>1, <1>2, FreeResendAlarmType DEF heard

LEMMA HandledType ==
  ASSUME NEW s \in SlaveType, NEW c
  PROVE  handled(s, c) \in SlaveType
<1>1. /\ [s EXCEPT !.temp = TRUE] \in SlaveType
      /\ [s EXCEPT !.temp = FALSE] \in SlaveType
  BY DEF SlaveType
<1>2. sendUnawaited(s, "RUNNING") \in SlaveType
  BY SendUnawaitedType, SlaveEnumerations
<1> QED BY <1>1, <1>2, SendSensorDataType, AckMasterType DEF handled

LEMMA PoweredDownType ==
  ASSUME NEW t \in BOOLEAN, NEW wire \in Seq(SlaveDatagram)
  PROVE  PoweredDown(t, wire) \in SlaveType
<1>1. toMaster("INFO", 0) \in SlaveDatagram
  BY ToMasterCodes
<1>2. NotSet \in Slots \cup {NotSet} /\ {} \in SUBSET Slots
  OBVIOUS
<1>3. "STATE" \in SlaveCode \cup {"STATE"} /\ 0 \in 0 .. SilenceLimit
  BY Silences
<1> QED BY <1>1, <1>2, <1>3, SlaveEnumerations DEF PoweredDown, SlaveType
-----------------------------------------------------------------------------
(* After its first message the slave always has one to repeat: what           *)
(* resendLastMessage would send is never the zero the globals start with.     *)

Repeatable(s) == s.sentMsg \in SlaveCode

LEMMA SendingIsRepeatable ==
  ASSUME NEW s \in SlaveType, NEW c \in SlaveCode
  PROVE  Repeatable(sendUnawaited(s, c)) /\ Repeatable(sendMessage(s, c))
<1>1. put(s, toMaster(c, 0)) \in SlaveType
  BY PutType, ToMasterType
<1>2. Repeatable(sendUnawaited(s, c))
  BY <1>1 DEF sendUnawaited, SlaveType, Repeatable
<1>3. sendUnawaited(s, c) \in SlaveType
  BY SendUnawaitedType
<1> QED BY <1>2, <1>3 DEF sendMessage, setResendAlarm, SlaveType, Repeatable

LEMMA DataIsRepeatable ==
  ASSUME NEW s \in SlaveType, Repeatable(s), NEW d \in SlaveDatagram
  PROVE  Repeatable(sendData(s, d))
<1>1. put(s, d) \in SlaveType /\ put(s, d).sentMsg = s.sentMsg
  BY PutType DEF put, SlaveType
<1> QED BY <1>1 DEF sendData, SlaveType, Repeatable

LEMMA AlarmIsRepeatable ==
  ASSUME NEW s \in SlaveType, Repeatable(s)
  PROVE  Repeatable(setResendAlarm(s)) /\ Repeatable(freeResendAlarm(s))
BY DEF setResendAlarm, freeResendAlarm, SlaveType, Repeatable

LEMMA AckIsRepeatable ==
  ASSUME NEW s \in SlaveType
  PROVE  Repeatable(ackMaster(s))
<1>1. put(s, toMaster("RECEIVED", 0)) \in SlaveType /\ "RECEIVED" \in SlaveCode
  BY PutType, ToMasterCodes, SlaveEnumerations
<1> QED BY <1>1 DEF ackMaster, SlaveType, Repeatable

LEMMA ResendIsRepeatable ==
  ASSUME NEW s \in SlaveType, Repeatable(s)
  PROVE  Repeatable(resendLastMessage(s))
<1>1. s.sentPacket \in SlaveDatagram /\ s.sentMsg \in SlaveCode
  BY DEF SlaveType, Repeatable
<1> QED BY <1>1, DataIsRepeatable, SendingIsRepeatable DEF resendLastMessage

LEMMA ConnectToMasterIsRepeatable ==
  ASSUME NEW s \in SlaveType
  PROVE  Repeatable(connectToMaster(s))
<1>1. /\ sendMessage(s, "CONNECTION") \in SlaveType
      /\ Repeatable(sendMessage(s, "CONNECTION"))
  BY SendMessageType, SendingIsRepeatable, SlaveEnumerations
<1> QED BY <1>1 DEF connectToMaster, SlaveType, Repeatable

LEMMA ConnectedIsRepeatable ==
  ASSUME NEW s \in SlaveType, Repeatable(s), NEW c
  PROVE  Repeatable(connected(s, c))
<1> DEFINE answered == IF c = "RECEIVED" THEN [s EXCEPT !.masterState = "RUNNING"]
                       ELSE s
<1>1. answered \in SlaveType /\ Repeatable(answered)
  BY DEF SlaveType, Repeatable
<1> HIDE DEF answered
<1>2. /\ toMaster("INFO", flag(answered.temp)) \in SlaveDatagram
      /\ answered.temp \in BOOLEAN
  BY <1>1, ToMasterCodes DEF SlaveType
<1>3. sendSensorInfo(answered) \in SlaveType /\ Repeatable(sendSensorInfo(answered))
  BY <1>1, <1>2, SendSensorInfoType, SendDataType, DataIsRepeatable, AlarmIsRepeatable
     DEF sendSensorInfo
<1> QED BY <1>3 DEF connected, answered, SlaveType, Repeatable

LEMMA HeardIsRepeatable ==
  ASSUME NEW s \in SlaveType, Repeatable(s)
  PROVE  Repeatable(heard(s))
<1>1. [s EXCEPT !.silent = 0] \in SlaveType /\ Repeatable([s EXCEPT !.silent = 0])
  BY Silences DEF SlaveType, Repeatable
<1> DEFINE h == [[s EXCEPT !.silent = 0] EXCEPT !.masterState = "RUNNING"]
<1>2. h \in SlaveType /\ Repeatable(h)
  BY <1>1 DEF SlaveType, Repeatable
<1> HIDE DEF h
<1>3. Repeatable(freeResendAlarm(h))
  BY <1>2, AlarmIsRepeatable
<1> QED BY <1>1, <1>3 DEF heard, h

LEMMA HandledIsRepeatable ==
  ASSUME NEW s \in SlaveType, Repeatable(s), NEW c
  PROVE  Repeatable(handled(s, c))
<1>1. /\ [s EXCEPT !.temp = TRUE] \in SlaveType
      /\ [s EXCEPT !.temp = FALSE] \in SlaveType
  BY DEF SlaveType
<1>2. Repeatable(sendUnawaited(s, "RUNNING")) /\ Repeatable(sendSensorData(s))
  BY SendingIsRepeatable, SlaveEnumerations, ToMasterCodes, DataIsRepeatable
     DEF sendSensorData
<1> QED BY <1>1, <1>2, AckIsRepeatable DEF handled
-----------------------------------------------------------------------------
(* Type correctness *)

\* TypeOK is not inductive: a slave repeating the zero of its unset lastMessage
\* would send a code of the master's.  No running slave is in that position.
TypeInv ==
  /\ TypeOK
  /\ slave.mode # "DOWN" => Repeatable(slave)

LEMMA TypeInvForm ==
  TypeInv <=> /\ registered \in BOOLEAN
              /\ node \in NodeType /\ slave \in SlaveType
              /\ version \in Nat /\ relay \in Nat /\ applied \in Nat
              /\ faults \in Nat /\ settled \in BOOLEAN
              /\ slave.mode # "DOWN" => Repeatable(slave)
BY DEF TypeInv, TypeOK, NodeType, SlaveType

LEMMA TailType ==
  ASSUME NEW S, NEW wire \in Seq(S), wire # <<>>
  PROVE  Head(wire) \in S /\ Tail(wire) \in Seq(S)
OBVIOUS

LEMMA WithoutType ==
  ASSUME NEW S, NEW wire \in Seq(S), NEW i \in DOMAIN wire
  PROVE  /\ without(i, wire) \in Seq(S)
         /\ Len(without(i, wire)) = Len(wire) - 1
<1>1. Len(wire) - 1 \in Nat
  OBVIOUS
<1>2. \A j \in 1 .. Len(wire) - 1 : (IF j < i THEN wire[j] ELSE wire[j + 1]) \in S
  OBVIOUS
<1> QED BY <1>1, <1>2 DEF without

LEMMA GroupStatesType ==
  ASSUME NEW n \in NodeType, version \in Nat
  PROVE  sendGroupStates(n) \in NodeType
<1>1. turn(version) \in NodeDatagram
  BY Messages
<1>2. \A m \in NodeType : sendPacket(m, turn(version)) \in NodeType
  BY <1>1, SendPacketType
<1> HIDE DEF turn
<1> QED BY <1>2 DEF sendGroupStates

LEMMA HandledByMasterType ==
  ASSUME NEW n \in NodeType, NEW d \in SlaveDatagram, version \in Nat
  PROVE  handledByMaster(n, d) \in NodeType
<1>1. [n EXCEPT !.hasTemp = (d.arg = 1)] \in NodeType
  BY DEF NodeType
<1>2. handleSensorInfo(n, d.arg) \in NodeType
  BY <1>1, GroupStatesType DEF handleSensorInfo
<1>3. handleData(n, d) \in NodeType
  BY <1>2, SendAckType, ReceiveAckType DEF handleData
<1>4. handleMessage(n, d.code) \in NodeType
  BY ReconnectType, ReceiveAckType, SendAckType DEF handleMessage
<1> QED BY <1>3, <1>4 DEF handledByMaster

LEMMA TypeInit == Init => TypeInv
<1> SUFFICES ASSUME Init PROVE TypeInv
  OBVIOUS
<1>1. PoweredDown(FALSE, <<>>) \in SlaveType
  <2>1. FALSE \in BOOLEAN /\ <<>> \in Seq(SlaveDatagram)
    OBVIOUS
  <2> QED BY <2>1, PoweredDownType
<1>2. slave \in SlaveType /\ slave.mode = "DOWN"
  BY <1>1 DEF Init, PoweredDown
<1> QED BY <1>2, NewNodeType, TypeInvForm DEF Init

LEMMA AnyStep ==
  ASSUME registered' \in BOOLEAN, node' \in NodeType, slave' \in SlaveType,
         version' \in Nat, relay' \in Nat, applied' \in Nat,
         faults' \in Nat, settled' \in BOOLEAN,
         slave'.mode # "DOWN" => Repeatable(slave)'
  PROVE  TypeInv'
BY DEF TypeInv, TypeOK, NodeType, SlaveType

\* What an action that leaves the slave alone has to show, and the other way.
LEMMA MasterStep ==
  ASSUME TypeInv, UNCHANGED slaveVars, UNCHANGED world,
         registered' \in BOOLEAN, node' \in NodeType, version' \in Nat
  PROVE  TypeInv'
BY TypeInvForm DEF TypeInv, TypeOK, NodeType, SlaveType, slaveVars, world, Repeatable

LEMMA SlaveStep ==
  ASSUME TypeInv, UNCHANGED <<registered, version, settled>>,
         node' \in NodeType, slave' \in SlaveType,
         slave'.mode # "DOWN" => Repeatable(slave)',
         relay' \in Nat, applied' \in Nat, faults' \in Nat
  PROVE  TypeInv'
BY TypeInvForm DEF TypeInv, TypeOK, NodeType, SlaveType, Repeatable

LEMMA TypeNext == TypeInv /\ [Next]_vars => TypeInv'
<1> SUFFICES ASSUME TypeInv, [Next]_vars PROVE TypeInv'
  OBVIOUS
<1> USE TypeInvForm
<1>1. CASE TurnGroup
  <2>1. turn(version + 1) \in NodeDatagram /\ version + 1 \in Nat
    BY Messages
  <2>2. node' \in NodeType /\ version' \in Nat
    BY <1>1, <2>1, SendPacketType DEF TurnGroup
  <2> QED BY <1>1, <2>2, MasterStep DEF TurnGroup
<1>2. CASE ConnectTemp
  BY <1>2, TempType, MasterStep DEF ConnectTemp
<1>3. CASE DisconnectTemp
  BY <1>3, TempType, MasterStep DEF DisconnectTemp
<1>4. CASE RequestSensorData
  BY <1>4, SendPacketType, Messages, MasterStep DEF RequestSensorData
<1>5. CASE CheckNodeStatus
  BY <1>5, SendPacketType, Messages, MasterStep DEF CheckNodeStatus
<1>6. CASE CheckSentPackets
  BY <1>6, CheckSentType, MasterStep DEF CheckSentPackets
<1>7. ASSUME Receives
      PROVE  /\ Head(slave.udp) \in SlaveDatagram
             /\ slave' \in SlaveType
             /\ slave'.mode # "DOWN" => Repeatable(slave)'
  <2>1. Head(slave.udp) \in SlaveDatagram /\ Tail(slave.udp) \in Seq(SlaveDatagram)
    BY <1>7, TailType DEF Receives, SlaveType
  <2>2. slave' = [slave EXCEPT !.udp = Tail(slave.udp)]
    BY <1>7 DEF Receives
  <2> QED BY <2>1, <2>2 DEF SlaveType, Repeatable
<1>8. CASE MasterReceives
  <2>1. node' \in NodeType
    BY <1>7, <1>8, HandledByMasterType DEF MasterReceives
  <2> QED BY <1>7, <1>8, <2>1, SlaveStep DEF MasterReceives, Receives, world
<1>9. CASE MasterMeets
  <2>1. [NewNode EXCEPT !.udp = node.udp] \in NodeType
    BY NewNodeType DEF NodeType
  <2>2. node' \in NodeType /\ registered' \in BOOLEAN
    BY <1>9, <2>1, SendAckType DEF MasterMeets
  <2> QED BY <1>7, <1>9, <2>2, AnyStep DEF MasterMeets, Receives, world
<1>10. CASE SlaveBoots
  <2>1. slave' \in SlaveType /\ Repeatable(slave)'
    BY <1>10, ConnectToMasterType, ConnectToMasterIsRepeatable DEF SlaveBoots, Repeatable
  <2> QED BY <1>10, <2>1, SlaveStep DEF SlaveBoots, masterVars, world
<1>11. CASE ConnectRetry
  <2>1. /\ sendMessage(slave, "CONNECTION") \in SlaveType
        /\ Repeatable(sendMessage(slave, "CONNECTION"))
    BY SendMessageType, SendingIsRepeatable, SlaveEnumerations
  <2>2. slave' \in SlaveType /\ Repeatable(slave)'
    BY <1>11, <2>1 DEF ConnectRetry, SlaveType, Repeatable
  <2> QED BY <1>11, <2>2, SlaveStep DEF ConnectRetry, masterVars, world
<1>12. CASE ConnectTimeout
  <2>1. slave' \in SlaveType /\ slave'.mode = "DOWN"
    <3>1. slave.temp \in BOOLEAN /\ slave.udp \in Seq(SlaveDatagram)
      BY DEF SlaveType
    <3> QED BY <1>12, <3>1, PoweredDownType DEF ConnectTimeout, PoweredDown
  <2> QED BY <1>12, <2>1, SlaveStep DEF ConnectTimeout, masterVars, world
<1>13. CASE SlaveConnected
  <2>1. node' \in NodeType
    <3>1. Tail(node.udp) \in Seq(NodeDatagram)
      BY <1>13, TailType DEF SlaveConnected, NodeType
    <3>2. node' = [node EXCEPT !.udp = Tail(node.udp)]
      BY <1>13 DEF SlaveConnected
    <3> QED BY <3>1, <3>2 DEF NodeType
  <2>2. slave' \in SlaveType /\ Repeatable(slave)'
    <3>1. slave' = connected(slave, Head(node.udp).code) /\ Repeatable(slave)
      BY <1>13 DEF SlaveConnected
    <3> QED BY <3>1, ConnectedType, ConnectedIsRepeatable DEF Repeatable
  <2> QED BY <1>13, <2>1, <2>2, SlaveStep DEF SlaveConnected, world
<1>14. ASSUME Takes
       PROVE  node' \in NodeType /\ arriving \in NodeDatagram
  <2>1. arriving \in NodeDatagram /\ Tail(node.udp) \in Seq(NodeDatagram)
    BY <1>14, TailType DEF Takes, NodeType, arriving
  <2>2. node' = [node EXCEPT !.udp = Tail(node.udp),
                             !.heard = node.heard \/ isHead(arriving)]
    BY <1>14 DEF Takes
  <2>3. (node.heard \/ isHead(arriving)) \in BOOLEAN
    BY DEF NodeType
  <2> HIDE DEF isHead, arriving
  <2> QED BY <2>1, <2>2, <2>3 DEF NodeType
<1>15. CASE SlaveReceives
  <2>1. heard(slave) \in SlaveType /\ Repeatable(heard(slave))
    BY <1>15, HeardType, HeardIsRepeatable DEF SlaveReceives, Takes
  <2>2. slave' \in SlaveType /\ Repeatable(slave)'
    BY <1>15, <2>1, HandledType, HandledIsRepeatable DEF SlaveReceives, Repeatable
  <2>3. arriving.arg \in Nat /\ relay' \in Nat /\ applied' \in Nat
    BY <1>14, <1>15 DEF SlaveReceives, NodeDatagram
  <2> QED BY <1>14, <1>15, <2>2, <2>3, SlaveStep DEF SlaveReceives, Takes, world
<1>16. CASE PowerFailsAfterAck
  <2>1. ackMaster(heard(slave)) \in SlaveType
    BY HeardType, AckMasterType
  <2>2. slave.temp \in BOOLEAN /\ ackMaster(heard(slave)).udp \in Seq(SlaveDatagram)
    BY <2>1 DEF SlaveType
  <2>3. slave' \in SlaveType /\ slave'.mode = "DOWN"
    BY <1>16, <2>2, PoweredDownType DEF PowerFailsAfterAck, PoweredDown
  <2> QED BY <1>14, <1>16, <2>3, SlaveStep DEF PowerFailsAfterAck, Takes, Fails
<1>17. CASE DetectMotion
  <2>1. slave' \in SlaveType /\ Repeatable(slave)'
    BY <1>17, SendMessageType, SendingIsRepeatable, SlaveEnumerations
       DEF DetectMotion, Repeatable
  <2> QED BY <1>17, <2>1, SlaveStep DEF DetectMotion, masterVars, world
<1>18. CASE ResendAlarmFires
  <2>1. PICK slot \in slave.timers :
          slave' = resendLastMessage([slave EXCEPT !.timers = @ \ {slot}])
    BY <1>18 DEF ResendAlarmFires
  <2> DEFINE fired == [slave EXCEPT !.timers = @ \ {slot}]
  <2>2. fired \in SlaveType /\ Repeatable(fired)
    BY <1>18 DEF ResendAlarmFires, SlaveType, Repeatable
  <2> HIDE DEF fired
  <2>3. slave' = resendLastMessage(fired) /\ fired.sentMsg \in SlaveCode
    BY <2>1, <2>2 DEF fired, Repeatable
  <2>4. slave' \in SlaveType /\ Repeatable(slave)'
    BY <2>2, <2>3, ResendLastMessageType, ResendIsRepeatable DEF Repeatable
  <2> QED BY <1>18, <2>4, SlaveStep DEF ResendAlarmFires, masterVars, world
<1>19. CASE CheckMasterStatus
  <2>1. CASE slave.silent >= SilenceLimit
    <3>1. freeResendAlarm(slave) \in SlaveType
      BY FreeResendAlarmType
    <3>2. [freeResendAlarm(slave) EXCEPT !.silent = 1] \in SlaveType
      BY <3>1, Silences DEF SlaveType
    <3>3. slave' \in SlaveType /\ Repeatable(slave)'
      BY <1>19, <2>1, <3>2, ConnectToMasterType, ConnectToMasterIsRepeatable
         DEF CheckMasterStatus, Repeatable
    <3> QED BY <1>19, <3>3, SlaveStep DEF CheckMasterStatus, masterVars, world
  <2>2. CASE ~(slave.silent >= SilenceLimit)
    <3>1. slave.silent + 1 \in 0 .. SilenceLimit
      BY <2>2, Silences DEF SlaveType
    <3>2. slave' = [slave EXCEPT !.silent = slave.silent + 1]
      BY <1>19, <2>2 DEF CheckMasterStatus
    <3>3. slave' \in SlaveType /\ Repeatable(slave)'
      BY <1>19, <3>1, <3>2 DEF CheckMasterStatus, SlaveType, Repeatable
    <3> QED BY <1>19, <3>3, SlaveStep DEF CheckMasterStatus, masterVars, world
  <2> QED BY <2>1, <2>2
<1>20. CASE WifiDropsAndReturns
  <2>1. slave' \in SlaveType /\ Repeatable(slave)'
    BY <1>20, ConnectToMasterType, ConnectToMasterIsRepeatable
       DEF WifiDropsAndReturns, Repeatable
  <2> QED BY <1>20, <2>1, SlaveStep DEF WifiDropsAndReturns, masterVars, Fails
<1>21. CASE SlaveCrashes
  <2>1. slave.temp \in BOOLEAN /\ slave.udp \in Seq(SlaveDatagram)
    BY DEF SlaveType
  <2>2. slave' \in SlaveType /\ slave'.mode = "DOWN"
    BY <1>21, <2>1, PoweredDownType DEF SlaveCrashes, PoweredDown
  <2> QED BY <1>21, <2>2, SlaveStep DEF SlaveCrashes, masterVars, Fails
<1>22. CASE MasterRestarts
  <2>1. [NewNode EXCEPT !.udp = node.udp] \in NodeType
    BY NewNodeType DEF NodeType
  <2>2. UNCHANGED slave
    BY <1>22 DEF MasterRestarts, slaveVars
  <2>3. registered' \in BOOLEAN /\ node' \in NodeType
    BY <1>22, <2>1 DEF MasterRestarts
  <2>4. /\ version' \in Nat /\ faults' \in Nat /\ settled' \in BOOLEAN
        /\ UNCHANGED <<relay, applied>>
    BY <1>22 DEF MasterRestarts, slaveVars, Fails
  <2> QED BY <2>2, <2>3, <2>4, AnyStep DEF Repeatable
<1>23. CASE LosesToSlave
  <2>1. PICK i \in DOMAIN node.udp : node' = [node EXCEPT !.udp = without(i, @)]
    BY <1>23 DEF LosesToSlave
  <2>2. without(i, node.udp) \in Seq(NodeDatagram)
    BY WithoutType DEF NodeType
  <2>3. node' \in NodeType
    BY <2>1, <2>2 DEF NodeType
  <2> QED BY <1>23, <2>3, MasterStep DEF LosesToSlave
<1>24. CASE LosesToMaster
  <2>1. PICK i \in DOMAIN slave.udp : slave' = [slave EXCEPT !.udp = without(i, @)]
    BY <1>24 DEF LosesToMaster
  <2>2. without(i, slave.udp) \in Seq(SlaveDatagram)
    BY WithoutType DEF SlaveType
  <2>3. slave' \in SlaveType /\ (slave'.mode # "DOWN" => Repeatable(slave)')
    BY <2>1, <2>2 DEF SlaveType, Repeatable
  <2> QED BY <1>24, <2>3, SlaveStep DEF LosesToMaster, masterVars, world
<1>25. CASE Settles
  <2>1. UNCHANGED slave
    BY <1>25 DEF Settles, slaveVars
  <2> QED BY <1>25, <2>1, AnyStep DEF Settles, masterVars, slaveVars, Repeatable
<1>26. CASE UNCHANGED vars
  BY <1>26, AnyStep DEF vars, Repeatable
<1> QED
  BY <1>1, <1>2, <1>3, <1>4, <1>5, <1>6, <1>8, <1>9, <1>10, <1>11, <1>12, <1>13,
     <1>15, <1>16, <1>17, <1>18, <1>19, <1>20, <1>21, <1>22, <1>23, <1>24, <1>25,
     <1>26 DEF Next, Master, SlaveNext, Fault

\* Every variable keeps its type, whatever the sizes and bounds: in particular
\* no counter passes its limit and no id outside the pool is ever armed.
THEOREM TypeCorrect == Spec => []TypeOK
<1>1. TypeInv => TypeOK
  BY DEF TypeInv
<1> QED BY <1>1, TypeInit, TypeNext, PTL DEF Spec
-----------------------------------------------------------------------------
(* Neither side of the link falls silent: a node with nothing outstanding  *)
(* is one checkNodeStatus polls, and a slave waiting for the answer to a   *)
(* message has an alarm to repeat it.                                      *)

Polled(n) == n.pending = <<>> => n.state = "RUNNING"

LEMMA SendNextPolled ==
  ASSUME NEW n \in NodeType
  PROVE  Polled(sendNextPacket(n)) /\ sendNextPacket(n).pending = n.pending
BY DEF sendNextPacket, transmit, NodeType, Polled

\* Even a packet that finds the queue full leaves something outstanding.
LEMMA SendPacketPolled ==
  ASSUME NEW n \in NodeType, NEW p \in NodeDatagram
  PROVE  Polled(sendPacket(n, p))
<1> DEFINE queued == [n EXCEPT !.state = "PENDING_RESPONSE", !.pending = push(@, p)]
<1>1. n.pending \in Seq(NodeDatagram)
  BY DEF NodeType
<1>2. push(n.pending, p) \in Seq(NodeDatagram) /\ push(n.pending, p) # <<>>
  <2>1. CASE Len(n.pending) < QueueCapacity
    BY <1>1, <2>1, PushType DEF push
  <2>2. CASE ~(Len(n.pending) < QueueCapacity)
    <3>1. n.pending # <<>>
      BY <1>1, <2>2, NodeConstants DEF NodeConstants
    <3> QED BY <1>1, <2>2, <3>1 DEF push
  <2> QED BY <2>1, <2>2
<1>3. queued \in NodeType /\ queued.pending # <<>>
  BY <1>2, NodeStates DEF NodeType
<1> HIDE DEF queued
<1>4. sendNextPacket(queued).pending # <<>>
  BY <1>3, SendNextPolled
<1>5. sendPacket(n, p) = IF Len(queued.pending) = 1 THEN sendNextPacket(queued) ELSE queued
  BY DEF sendPacket, queued
<1> QED BY <1>3, <1>4, <1>5 DEF Polled

LEMMA SendAckPolled ==
  ASSUME NEW n \in NodeType, Polled(n)
  PROVE  Polled(sendAck(n))
BY DEF sendAck, transmit, NodeType, Polled

LEMMA ReceiveAckPolled ==
  ASSUME NEW n \in NodeType
  PROVE  Polled(receiveAck(n))
<1> DEFINE popped == [n EXCEPT !.pending = pop(@), !.heard = FALSE]
<1>1. n.pending \in Seq(NodeDatagram)
  BY DEF NodeType
<1>2. pop(n.pending) \in Seq(NodeDatagram)
  BY <1>1, PopType
<1>3. popped \in NodeType
  BY <1>2 DEF NodeType
<1> HIDE DEF popped
<1>4. Polled(sendNextPacket(popped)) /\ sendNextPacket(popped) \in NodeType
  BY <1>3, SendNextPolled, SendNextType
<1>5. receiveAck(n) = [sendNextPacket(popped) EXCEPT !.timeSinceSent = 0]
  BY DEF receiveAck, popped
<1> QED BY <1>4, <1>5 DEF NodeType, Polled

LEMMA CheckSentPolled ==
  ASSUME NEW n \in NodeType, Polled(n)
  PROVE  Polled(checkSentPackets(n))
<1>1. CASE n.pending = <<>>
  BY <1>1 DEF checkSentPackets
<1>2. CASE n.pending # <<>>
  <2> DEFINE gaveUp == [n EXCEPT !.state = "ERROR"]
             checked == IF resendDue(n) THEN sendNextPacket(n)
                        ELSE IF n.timeSinceSent >= GiveUpAt THEN gaveUp ELSE n
  <2>1. gaveUp \in NodeType /\ gaveUp.pending = n.pending
    BY NodeStates DEF NodeType
  <2>2. checked \in NodeType /\ checked.pending # <<>>
    <3> HIDE DEF gaveUp
    <3> QED BY <1>2, <2>1, SendNextPolled, SendNextType
  <2>3. checkSentPackets(n) = [checked EXCEPT !.timeSinceSent = older(@)]
    BY <1>2 DEF checkSentPackets
  <2> HIDE DEF checked
  <2> QED BY <2>2, <2>3 DEF NodeType, Polled
<1> QED BY <1>1, <1>2

LEMMA ReconnectPolled ==
  ASSUME NEW n \in NodeType
  PROVE  Polled(reconnect(n))
<1>1. [n EXCEPT !.state = "RUNNING", !.timeSinceSent = 0] \in NodeType
  BY NodeStates, Ages DEF NodeType
<1>2. Polled([n EXCEPT !.state = "RUNNING", !.timeSinceSent = 0])
  BY DEF NodeType, Polled
<1> QED BY <1>1, <1>2, SendAckPolled DEF reconnect

LEMMA TempPolled ==
  ASSUME NEW n \in NodeType
  PROVE  /\ Polled(connectTemperatureSensor(n))
         /\ Polled(disconnectTemperatureSensor(n))
<1>1. ASSUME NEW p \in NodeDatagram, NEW b
      PROVE  Polled([sendPacket(n, p) EXCEPT !.hasTemp = b])
  <2> DEFINE m == sendPacket(n, p)
  <2>1. m \in NodeType /\ Polled(m)
    BY SendPacketType, SendPacketPolled
  <2> HIDE DEF m
  <2>2. Polled([m EXCEPT !.hasTemp = b])
    BY <2>1 DEF NodeType, Polled
  <2> QED BY <2>2 DEF m
<1> QED
  BY <1>1, Messages DEF connectTemperatureSensor, disconnectTemperatureSensor

LEMMA HandledByMasterPolled ==
  ASSUME NEW n \in NodeType, Polled(n), NEW d \in SlaveDatagram, version \in Nat
  PROVE  Polled(handledByMaster(n, d))
<1>1. [n EXCEPT !.hasTemp = (d.arg = 1)] \in NodeType
  BY DEF NodeType
<1>2. handleSensorInfo(n, d.arg) \in NodeType
  BY <1>1, GroupStatesType DEF handleSensorInfo
<1>3. Polled(handleData(n, d))
  BY <1>2, SendAckType, ReceiveAckPolled DEF handleData
<1>4. Polled(handleMessage(n, d.code))
  BY ReconnectPolled, ReceiveAckPolled, SendAckPolled DEF handleMessage
<1> QED BY <1>3, <1>4 DEF handledByMaster

\* A node that has nothing outstanding is RUNNING, so checkNodeStatus asks it
\* again: no path through a full queue, a lost answer, an error or a
\* reconnection leaves the master waiting for nothing.
THEOREM IdleNodesArePolled == Spec => []IdleIsPolled
<1> DEFINE Inv == TypeInv /\ Polled(node)
<1>1. Init => Inv
  BY TypeInit DEF Init, NewNode, Polled
<1>2. Inv /\ [Next]_vars => Inv'
  <2> SUFFICES ASSUME Inv, [Next]_vars PROVE Polled(node')
    BY TypeNext DEF Polled
  <2>1. node \in NodeType /\ slave \in SlaveType /\ version \in Nat
    BY TypeInvForm
  <2>2. CASE TurnGroup
    <3>1. turn(version + 1) \in NodeDatagram
      BY <2>1, Messages
    <3> QED BY <2>1, <2>2, <3>1, SendPacketPolled DEF TurnGroup
  <2>3. CASE ConnectTemp \/ DisconnectTemp
    BY <2>1, <2>3, TempPolled DEF ConnectTemp, DisconnectTemp
  <2>4. CASE RequestSensorData \/ CheckNodeStatus
    BY <2>1, <2>4, SendPacketPolled, Messages DEF RequestSensorData, CheckNodeStatus
  <2>5. CASE CheckSentPackets
    BY <2>1, <2>5, CheckSentPolled DEF CheckSentPackets
  <2>6. CASE MasterReceives
    <3>1. Head(slave.udp) \in SlaveDatagram
      BY <2>1, <2>6, TailType DEF MasterReceives, Receives, SlaveType
    <3> QED BY <2>1, <2>6, <3>1, HandledByMasterPolled DEF MasterReceives
  <2>7. [NewNode EXCEPT !.udp = node.udp] \in NodeType
        /\ Polled([NewNode EXCEPT !.udp = node.udp])
    BY <2>1, NewNodeType DEF NewNode, NodeType, Polled
  <2>8. CASE MasterMeets
    BY <2>7, <2>8, SendAckPolled DEF MasterMeets
  <2>9. CASE MasterRestarts
    BY <2>7, <2>9 DEF MasterRestarts
  <2>10. CASE SlaveConnected \/ SlaveReceives \/ PowerFailsAfterAck
    <3>1. node'.pending = node.pending /\ node'.state = node.state
      BY <2>1, <2>10 DEF SlaveConnected, SlaveReceives, PowerFailsAfterAck, Takes, NodeType
    <3> QED BY <3>1 DEF Polled
  <2>11. CASE LosesToSlave
    <3>1. node'.pending = node.pending /\ node'.state = node.state
      BY <2>1, <2>11 DEF LosesToSlave, NodeType
    <3> QED BY <3>1 DEF Polled
  <2>12. CASE UNCHANGED node
    BY <2>12
  <2>13. CASE SlaveBoots \/ ConnectRetry \/ ConnectTimeout \/ DetectMotion
              \/ ResendAlarmFires \/ CheckMasterStatus \/ WifiDropsAndReturns
              \/ SlaveCrashes \/ LosesToMaster \/ Settles \/ UNCHANGED vars
    BY <2>12, <2>13 DEF SlaveBoots, ConnectRetry, ConnectTimeout, DetectMotion,
       ResendAlarmFires, CheckMasterStatus, WifiDropsAndReturns, SlaveCrashes,
       LosesToMaster, Settles, masterVars, vars
  <2> QED
    BY <2>2, <2>3, <2>4, <2>5, <2>6, <2>8, <2>9, <2>10, <2>11, <2>13
       DEF Next, Master, SlaveNext, Fault
<1>3. Inv => IdleIsPolled
  BY DEF Polled, IdleIsPolled
<1> QED BY <1>1, <1>2, <1>3, PTL DEF Spec
-----------------------------------------------------------------------------
(* The slave's resend alarms *)

Retried(s) == s.masterState = "PENDING_RESPONSE" /\ ~s.packetSent => s.timers # {}

\* Arming takes a free slot, and an exhausted pool is full of such alarms.
LEMMA ArmedAfterSetting ==
  ASSUME NEW s \in SlaveType
  PROVE  setResendAlarm(s).timers # {}
<1> DEFINE slot == firstFree(s.timers)
<1>1. s.timers \in SUBSET Slots /\ NotSet \notin Slots
  BY DEF SlaveType, Slots, NotSet
<1>2. s.timers \cup ({slot} \ {NotSet}) # {}
  <2>1. CASE s.timers = Slots
    <3>1. 1 \in Slots
      BY SlaveConstants DEF SlaveConstants, Slots
    <3> QED BY <2>1, <3>1
  <2>2. CASE s.timers # Slots
    <3>1. slot \in Slots
      BY <1>1, <2>2, FirstFreeType
    <3> HIDE DEF slot
    <3> QED BY <1>1, <3>1
  <2> QED BY <2>1, <2>2
<1>3. setResendAlarm(s).timers = s.timers \cup ({slot} \ {NotSet})
  BY DEF setResendAlarm, SlaveType
<1> QED BY <1>2, <1>3

LEMMA SendMessageRetried ==
  ASSUME NEW s \in SlaveType, NEW c \in SlaveCode
  PROVE  sendMessage(s, c).timers # {}
BY SendUnawaitedType, ArmedAfterSetting DEF sendMessage

LEMMA SendDataRetried ==
  ASSUME NEW s \in SlaveType, NEW d \in SlaveDatagram
  PROVE  /\ sendData(s, d) \in SlaveType
         /\ Retried(sendData(s, d)) /\ Retried(setResendAlarm(sendData(s, d)))
<1>1. put(s, d) \in SlaveType /\ sendData(s, d) \in SlaveType
  BY PutType, SendDataType
<1>2. sendData(s, d).packetSent = TRUE
  BY <1>1 DEF sendData, SlaveType
<1> QED BY <1>1, <1>2, ArmedAfterSetting DEF Retried

LEMMA ConnectToMasterRetried ==
  ASSUME NEW s \in SlaveType
  PROVE  Retried(connectToMaster(s))
<1>1. "CONNECTION" \in SlaveCode
  BY SlaveEnumerations
<1>2. /\ sendMessage(s, "CONNECTION") \in SlaveType
      /\ sendMessage(s, "CONNECTION").timers # {}
  BY <1>1, SendMessageType, SendMessageRetried
<1> QED BY <1>2 DEF connectToMaster, SlaveType, Retried

LEMMA ConnectedRetried ==
  ASSUME NEW s \in SlaveType, NEW c
  PROVE  Retried(connected(s, c))
<1> DEFINE answered == IF c = "RECEIVED" THEN [s EXCEPT !.masterState = "RUNNING"]
                       ELSE s
<1>1. answered \in SlaveType
  BY DEF SlaveType
<1> HIDE DEF answered
<1>2. toMaster("INFO", flag(answered.temp)) \in SlaveDatagram
  BY <1>1, ToMasterCodes DEF SlaveType
<1>3. sendSensorInfo(answered) \in SlaveType /\ Retried(sendSensorInfo(answered))
  BY <1>1, <1>2, SendSensorInfoType, SendDataRetried DEF sendSensorInfo
<1>4. connected(s, c) = [sendSensorInfo(answered) EXCEPT !.mode = "RUNNING", !.retried = FALSE]
  BY DEF connected, answered
<1> QED BY <1>3, <1>4 DEF SlaveType, Retried

Answered(s) == s.masterState = "RUNNING"

\* Once a datagram is looked at, the slave is no longer waiting.
LEMMA HeardAnswers ==
  ASSUME NEW s \in SlaveType
  PROVE  Answered(heard(s))
<1> DEFINE h == [s EXCEPT !.silent = 0]
<1>1. h \in SlaveType /\ h.masterState = s.masterState
  BY Silences DEF SlaveType
<1>2. [h EXCEPT !.masterState = "RUNNING"] \in SlaveType
  BY <1>1 DEF SlaveType
<1>3. Answered(freeResendAlarm([h EXCEPT !.masterState = "RUNNING"]))
  BY <1>1, <1>2 DEF freeResendAlarm, SlaveType, Answered
<1>4. s.masterState \in {"RUNNING", "PENDING_RESPONSE"}
  BY DEF SlaveType
<1> QED BY <1>1, <1>3, <1>4 DEF heard, Answered

LEMMA HandledAnswers ==
  ASSUME NEW s \in SlaveType, Answered(s), NEW c
  PROVE  Answered(handled(s, c))
<1>1. ASSUME NEW t \in SlaveType, Answered(t), NEW d \in SlaveDatagram
      PROVE  put(t, d) \in SlaveType /\ Answered(put(t, d))
  BY <1>1, PutType DEF put, SlaveType, Answered
<1>2. Answered(sendUnawaited(s, "RUNNING"))
  <2>1. toMaster("RUNNING", 0) \in SlaveDatagram
    BY ToMasterType, SlaveEnumerations
  <2>2. put(s, toMaster("RUNNING", 0)) \in SlaveType
        /\ Answered(put(s, toMaster("RUNNING", 0)))
    BY <1>1, <2>1
  <2> QED BY <2>2 DEF sendUnawaited, SlaveType, Answered
<1>3. ASSUME NEW t \in SlaveType, Answered(t)
      PROVE  Answered(ackMaster(t))
  <2>1. /\ put(t, toMaster("RECEIVED", 0)) \in SlaveType
        /\ Answered(put(t, toMaster("RECEIVED", 0)))
    BY <1>1, <1>3, ToMasterCodes
  <2> QED BY <2>1 DEF ackMaster, SlaveType, Answered
<1>4. ASSUME NEW d \in SlaveDatagram
      PROVE  Answered(sendData(s, d))
  <2>1. put(s, d) \in SlaveType /\ Answered(put(s, d))
    BY <1>1, <1>4
  <2> QED BY <2>1 DEF sendData, SlaveType, Answered
<1>5. Answered(sendSensorData(s))
  BY <1>4, ToMasterCodes DEF sendSensorData
<1>6. /\ [s EXCEPT !.temp = TRUE] \in SlaveType /\ Answered([s EXCEPT !.temp = TRUE])
      /\ [s EXCEPT !.temp = FALSE] \in SlaveType /\ Answered([s EXCEPT !.temp = FALSE])
  BY DEF SlaveType, Answered
<1> QED BY <1>2, <1>3, <1>5, <1>6 DEF handled

LEMMA PoweredDownRetried ==
  ASSUME NEW t, NEW wire
  PROVE  Retried(PoweredDown(t, wire))
BY DEF PoweredDown, Retried

\* A slave waiting for the answer to a message will send the message again,
\* even if its alarm pool ran out and the id it kept is another alarm's.
THEOREM MessagesAreRetried == Spec => []MessageIsRetried
<1> DEFINE Inv == TypeInv /\ Retried(slave)
<1>1. Init => Inv
  BY TypeInit, PoweredDownRetried DEF Init
<1>2. Inv /\ [Next]_vars => Inv'
  <2> SUFFICES ASSUME Inv, [Next]_vars PROVE Retried(slave')
    BY TypeNext DEF Retried
  <2>1. node \in NodeType /\ slave \in SlaveType
        /\ (slave.mode # "DOWN" => Repeatable(slave))
    BY TypeInvForm
  <2>2. CASE UNCHANGED slave
    BY <2>2
  <2>3. CASE TurnGroup \/ ConnectTemp \/ DisconnectTemp \/ RequestSensorData
             \/ CheckNodeStatus \/ CheckSentPackets \/ MasterRestarts
             \/ LosesToSlave \/ Settles \/ UNCHANGED vars
    BY <2>2, <2>3 DEF TurnGroup, ConnectTemp, DisconnectTemp, RequestSensorData,
       CheckNodeStatus, CheckSentPackets, MasterRestarts, LosesToSlave, Settles,
       slaveVars, vars
  <2>4. CASE MasterReceives \/ MasterMeets \/ LosesToMaster
    <3>1. /\ slave'.masterState = slave.masterState
          /\ slave'.packetSent = slave.packetSent /\ slave'.timers = slave.timers
      BY <2>1, <2>4 DEF MasterReceives, MasterMeets, LosesToMaster, Receives, SlaveType
    <3> QED BY <3>1 DEF Retried
  <2>5. CASE SlaveBoots \/ WifiDropsAndReturns
    BY <2>1, <2>5, ConnectToMasterRetried DEF SlaveBoots, WifiDropsAndReturns
  <2>6. CASE ConnectRetry
    <3>1. /\ sendMessage(slave, "CONNECTION") \in SlaveType
          /\ sendMessage(slave, "CONNECTION").timers # {}
      BY <2>1, SendMessageType, SendMessageRetried, SlaveEnumerations
    <3> QED BY <2>6, <3>1 DEF ConnectRetry, SlaveType, Retried
  <2>7. CASE ConnectTimeout \/ SlaveCrashes \/ PowerFailsAfterAck
    BY <2>7, PoweredDownRetried DEF ConnectTimeout, SlaveCrashes, PowerFailsAfterAck
  <2>8. CASE SlaveConnected
    BY <2>1, <2>8, ConnectedRetried DEF SlaveConnected
  <2>9. CASE SlaveReceives
    <3>1. Answered(slave')
      BY <2>1, <2>9, HeardType, HeardAnswers, HandledAnswers DEF SlaveReceives
    <3> QED BY <3>1 DEF Answered, Retried
  <2>10. CASE DetectMotion
    BY <2>1, <2>10, SendMessageRetried, SlaveEnumerations DEF DetectMotion, Retried
  <2>11. CASE ResendAlarmFires
    <3>1. PICK slot \in slave.timers :
            slave' = resendLastMessage([slave EXCEPT !.timers = @ \ {slot}])
      BY <2>11 DEF ResendAlarmFires
    <3> DEFINE fired == [slave EXCEPT !.timers = @ \ {slot}]
    <3>2. /\ fired \in SlaveType /\ fired.sentMsg \in SlaveCode
          /\ fired.sentPacket \in SlaveDatagram
      BY <2>1, <2>11 DEF ResendAlarmFires, SlaveType, Repeatable
    <3> HIDE DEF fired
    <3>3. slave' = resendLastMessage(fired)
      BY <3>1 DEF fired
    <3>4. Retried(sendData(fired, fired.sentPacket))
          /\ sendMessage(fired, fired.sentMsg).timers # {}
      BY <3>2, SendDataRetried, SendMessageRetried
    <3> QED BY <3>3, <3>4 DEF resendLastMessage, Retried
  <2>12. CASE CheckMasterStatus
    <3>1. CASE slave.silent >= SilenceLimit
      <4>1. [freeResendAlarm(slave) EXCEPT !.silent = 1] \in SlaveType
        <5>1. freeResendAlarm(slave) \in SlaveType
          BY <2>1, FreeResendAlarmType
        <5> QED BY <5>1, Silences DEF SlaveType
      <4> QED BY <2>12, <3>1, <4>1, ConnectToMasterRetried DEF CheckMasterStatus
    <3>2. CASE ~(slave.silent >= SilenceLimit)
      <4>1. /\ slave'.masterState = slave.masterState
            /\ slave'.packetSent = slave.packetSent /\ slave'.timers = slave.timers
        BY <2>1, <2>12, <3>2 DEF CheckMasterStatus, SlaveType
      <4> QED BY <4>1 DEF Retried
    <3> QED BY <3>1, <3>2
  <2> QED
    BY <2>3, <2>4, <2>5, <2>6, <2>7, <2>8, <2>9, <2>10, <2>11, <2>12
       DEF Next, Master, SlaveNext, Fault
<1>3. Inv => MessageIsRetried
  BY DEF Retried, MessageIsRetried
<1> QED BY <1>1, <1>2, <1>3, PTL DEF Spec
=============================================================================
