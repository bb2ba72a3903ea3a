------------------------------ MODULE NodeLink ------------------------------
(***************************************************************************)
(* The master (Master/Master.ino, class Node) and one slave                *)
(* (Slave/Slave.ino) keeping a link over UDP.  Each datagram handler, each *)
(* timer and each user request is one action; loop() and the alarm service *)
(* run them one at a time on either side.                                  *)
(*                                                                         *)
(* The slave is a station of the master's own access point, one radio hop  *)
(* away: datagrams may be lost, by the radio or by a full buffer, but are  *)
(* neither reordered nor duplicated.  All duplicates come from the resend  *)
(* timers of the two programs.                                             *)
(*                                                                         *)
(* version numbers the states the user has asked the slave's group to be   *)
(* in; a TURN command (TURN_ON_GROUP_MSG, TURN_OFF_GROUP_MSG) carries the  *)
(* version it brings about.                                                *)
(***************************************************************************)
EXTENDS Node, Slave

CONSTANTS
  Asks,         \* what users and sensors may ask for, of TURN, TEMP, MOTION
  MaxVersion,   \* bound on the states the user asks for
  MaxFaults,    \* bound on crashes of either side and losses of the WiFi
  Prompt,       \* whether a datagram in flight arrives before any timer expires
  InfoGroups    \* groups a slave's relays and IR control belong to (0 to 3)

ASSUME LinkConstants ==
  /\ Asks \subseteq {"TURN", "TEMP", "MOTION"}
  /\ MaxVersion \in Nat
  /\ MaxFaults \in Nat
  /\ Prompt \in BOOLEAN
  /\ InfoGroups \in 0 .. 3

VARIABLES
  registered,  \* the master has a Node object for the slave
  node,        \* that object
  slave,       \* the slave's globals
  version,     \* last version of the group's state the user asked for
  relay,       \* version the slave's relays show, 0 after a power-on
  applied,     \* history: version of the last TURN command the slave obeyed
  faults,      \* crashes and losses of the WiFi so far
  settled      \* nothing fails any more (liveness only)

vars == <<registered, node, slave, version, relay, applied, faults, settled>>
world == <<faults, settled>>
masterVars == <<registered, node, version>>
slaveVars == <<slave, relay, applied>>

turn(v) == datagram("TURN", v)

SlaveCode == {"CONNECTION", "RUNNING", "RECEIVED", "MOTION", "INFO", "DATA",
              "SHORT_DATA"}
MasterCode == {"STATE", "DATA", "CONNECT_TEMP", "DISCONNECT_TEMP", "TURN",
               "RECEIVED"}

Init ==
  /\ registered = FALSE
  /\ node = NewNode
  /\ slave = PoweredDown(FALSE, <<>>)
  /\ version = 0 /\ relay = 0 /\ applied = 0
  /\ faults = 0 /\ settled = FALSE

\* The timers run in seconds and a datagram takes milliseconds.  Safety is
\* checked for any timing (Prompt = FALSE), liveness for this one.
Due ==
  Prompt => /\ slave.udp = <<>>
            /\ node.udp = <<>> \/ slave.mode = "DOWN"
-----------------------------------------------------------------------------
(* Requests and timers of the master *)

\* turnOnGroup and turnOffGroup, from the panel, the calendar, the menu or a
\* PIR: the packet is broadcast to every registered node.
TurnGroup ==
  /\ "TURN" \in Asks
  /\ version < MaxVersion
  /\ version' = version + 1
  /\ node' = IF registered THEN sendPacket(node, turn(version + 1)) ELSE node
  /\ UNCHANGED <<registered, slaveVars, world>>

ConnectTemp ==
  /\ "TEMP" \in Asks
  /\ registered /\ ~node.hasTemp
  /\ node' = connectTemperatureSensor(node)
  /\ UNCHANGED <<registered, version, slaveVars, world>>

DisconnectTemp ==
  /\ "TEMP" \in Asks
  /\ registered /\ node.hasTemp
  /\ node' = disconnectTemperatureSensor(node)
  /\ UNCHANGED <<registered, version, slaveVars, world>>

RequestSensorData ==
  /\ "TEMP" \in Asks
  /\ registered /\ node.hasTemp
  /\ node' = sendPacket(node, message("DATA"))
  /\ UNCHANGED <<registered, version, slaveVars, world>>

CheckNodeStatus ==
  /\ Due
  /\ registered /\ node.state = "RUNNING"
  /\ node' = sendPacket(node, message("STATE"))
  /\ UNCHANGED <<registered, version, slaveVars, world>>

CheckSentPackets ==
  /\ Due
  /\ registered
  /\ node' = checkSentPackets(node)
  /\ UNCHANGED <<registered, version, slaveVars, world>>
-----------------------------------------------------------------------------
(* Datagrams the master receives *)

\* The master hands the slave the state of each of its groups, as the group
\* is now, on every packet of sensor information.
sendGroupStates(n) ==
  LET t  == turn(version)
      n1 == IF InfoGroups >= 1 THEN sendPacket(n, t) ELSE n
      n2 == IF InfoGroups >= 2 THEN sendPacket(n1, t) ELSE n1
  IN  IF InfoGroups >= 3 THEN sendPacket(n2, t) ELSE n2

handleSensorInfo(n, arg) == sendGroupStates([n EXCEPT !.hasTemp = (arg = 1)])

\* Whatever the packet was, and whether or not anything is outstanding, it is
\* acknowledged and counts as the answer to the head of the queue.
handleData(n, d) ==
  receiveAck(sendAck(IF d.code = "INFO" THEN handleSensorInfo(n, d.arg) ELSE n))

handleMessage(n, code) ==
  CASE code = "CONNECTION" -> reconnect(n)
    [] code # "CONNECTION" /\ n.state = "PENDING_RESPONSE" ->
         IF code \in {"RECEIVED", "RUNNING"} THEN receiveAck(n) ELSE n
    [] code # "CONNECTION" /\ n.state = "RUNNING" -> sendAck(n)
    [] OTHER -> n

handledByMaster(n, d) ==
  IF d.code \in {"INFO", "DATA"} THEN handleData(n, d)
  ELSE handleMessage(n, d.code)

Receives ==
  /\ slave.udp # <<>>
  /\ slave' = [slave EXCEPT !.udp = Tail(@)]
  /\ UNCHANGED <<version, relay, applied, world>>

MasterReceives ==
  /\ registered
  /\ Receives
  /\ node' = handledByMaster(node, Head(slave.udp))
  /\ UNCHANGED registered

\* Of an unknown node, only the request to connect is looked at.
MasterMeets ==
  /\ ~registered
  /\ Receives
  /\ registered' = (Head(slave.udp).code = "CONNECTION")
  /\ node' = IF registered' THEN sendAck([NewNode EXCEPT !.udp = node.udp])
            ELSE node
-----------------------------------------------------------------------------
(* The slave *)

\* setup: the slave is on the WiFi and asks for its master.
SlaveBoots ==
  /\ slave.mode = "DOWN"
  /\ slave' = connectToMaster(slave)
  /\ UNCHANGED <<masterVars, relay, applied, world>>

ConnectRetry ==
  /\ Due
  /\ slave.mode = "CONNECTING" /\ ~slave.retried
  /\ slave' = [sendMessage(slave, "CONNECTION") EXCEPT !.retried = TRUE]
  /\ UNCHANGED <<masterVars, relay, applied, world>>

\* The tenth turn of the wait resets the slave: its relays come up again.
ConnectTimeout ==
  /\ Due
  /\ slave.mode = "CONNECTING" /\ slave.retried
  /\ slave' = PoweredDown(slave.temp, slave.udp)
  /\ relay' = 0
  /\ UNCHANGED <<masterVars, applied, world>>

SlaveConnected ==
  /\ slave.mode = "CONNECTING" /\ node.udp # <<>>
  /\ slave' = connected(slave, Head(node.udp).code)
  /\ node' = [node EXCEPT !.udp = Tail(@)]
  /\ UNCHANGED <<registered, version, relay, applied, world>>

isHead(d) == node.pending # <<>> /\ d = Head(node.pending)

\* handlePacket on either side of the split by length; arriving is its input.
arriving == Head(node.udp)

Fails ==
  /\ ~settled /\ faults < MaxFaults
  /\ faults' = faults + 1
  /\ UNCHANGED settled

Takes ==
  /\ slave.mode = "RUNNING" /\ node.udp # <<>>
  /\ node' = [node EXCEPT !.udp = Tail(@), !.heard = @ \/ isHead(arriving)]
  /\ UNCHANGED <<registered, version>>

SlaveReceives ==
  /\ Takes
  /\ slave' = handled(heard(slave), arriving.code)
  /\ IF arriving.code = "TURN" THEN relay' = arriving.arg /\ applied' = arriving.arg
     ELSE UNCHANGED <<relay, applied>>
  /\ UNCHANGED world

\* A group command is acknowledged first: the power may fail in between.
PowerFailsAfterAck ==
  /\ Fails
  /\ Takes
  /\ arriving.code = "TURN"
  /\ slave' = PoweredDown(slave.temp, ackMaster(heard(slave)).udp)
  /\ relay' = 0
  /\ UNCHANGED applied

DetectMotion ==
  /\ "MOTION" \in Asks
  /\ slave.mode = "RUNNING"
  /\ slave' = sendMessage(slave, "MOTION")
  /\ UNCHANGED <<masterVars, relay, applied, world>>

\* A one-shot alarm is freed before its handler runs.
ResendAlarmFires ==
  /\ Due
  /\ slave.mode = "RUNNING"
  /\ \E slot \in slave.timers :
       slave' = resendLastMessage([slave EXCEPT !.timers = @ \ {slot}])
  /\ UNCHANGED <<masterVars, relay, applied, world>>

\* Slip: the silence is counted, nothing is done about it.
CheckMasterStatusIdly ==
  /\ Due
  /\ slave.mode = "RUNNING"
  /\ slave' = [slave EXCEPT !.silent = IF @ < SilenceLimit THEN @ + 1 ELSE @]
  /\ UNCHANGED <<masterVars, relay, applied, world>>

\* Too long without a word from the master: join the WiFi and ask again.  The
\* count restarts at one period, when the reconnection is over.
CheckMasterStatus ==
  /\ Due
  /\ slave.mode = "RUNNING"
  /\ slave' = IF slave.silent >= SilenceLimit
                THEN connectToMaster([freeResendAlarm(slave) EXCEPT !.silent = 1])
                ELSE [slave EXCEPT !.silent = @ + 1]
  /\ UNCHANGED <<masterVars, relay, applied, world>>
-----------------------------------------------------------------------------
(* Faults *)

WifiDropsAndReturns ==
  /\ Fails
  /\ slave.mode = "RUNNING"
  /\ slave' = connectToMaster(slave)
  /\ UNCHANGED <<masterVars, relay, applied>>

SlaveCrashes ==
  /\ Fails
  /\ slave.mode # "DOWN"
  /\ slave' = PoweredDown(slave.temp, slave.udp)
  /\ relay' = 0
  /\ UNCHANGED <<masterVars, applied>>

\* The master forgets its nodes, and every group is off again.
MasterRestarts ==
  /\ Fails /\ version < MaxVersion
  /\ registered' = FALSE
  /\ node' = [NewNode EXCEPT !.udp = node.udp]
  /\ version' = version + 1
  /\ UNCHANGED slaveVars

without(i, wire) ==
  [j \in 1 .. Len(wire) - 1 |-> IF j < i THEN wire[j] ELSE wire[j + 1]]

LosesToSlave ==
  /\ ~settled
  /\ \E i \in DOMAIN node.udp : node' = [node EXCEPT !.udp = without(i, @)]
  /\ UNCHANGED <<registered, version, slaveVars, world>>

LosesToMaster ==
  /\ ~settled
  /\ \E i \in DOMAIN slave.udp : slave' = [slave EXCEPT !.udp = without(i, @)]
  /\ UNCHANGED <<masterVars, relay, applied, world>>

\* From some time on nothing fails: what liveness may assume and safety not.
Settles ==
  /\ Prompt /\ ~settled
  /\ settled' = TRUE
  /\ UNCHANGED <<masterVars, slaveVars, faults>>
-----------------------------------------------------------------------------
Master ==
  \/ TurnGroup \/ ConnectTemp \/ DisconnectTemp \/ RequestSensorData
  \/ CheckNodeStatus \/ CheckSentPackets \/ MasterReceives \/ MasterMeets

SlaveNext ==
  \/ SlaveBoots \/ ConnectRetry \/ ConnectTimeout \/ SlaveConnected
  \/ SlaveReceives \/ DetectMotion \/ ResendAlarmFires \/ CheckMasterStatus

Fault ==
  \/ PowerFailsAfterAck \/ WifiDropsAndReturns \/ SlaveCrashes \/ MasterRestarts
  \/ LosesToSlave \/ LosesToMaster \/ Settles

Next == Master \/ SlaveNext \/ Fault

Spec == Init /\ [][Next]_vars

\* The alarms and loop() of either side never stop; nobody is bound to ask for
\* anything.  A timer needs strong fairness because Due only postpones it:
\* traffic does not stop a clock.
Fairness ==
  /\ WF_vars(MasterReceives) /\ WF_vars(MasterMeets)
  /\ WF_vars(SlaveReceives) /\ WF_vars(SlaveConnected) /\ WF_vars(SlaveBoots)
  /\ SF_vars(CheckNodeStatus) /\ SF_vars(CheckSentPackets)
  /\ SF_vars(ConnectRetry \/ ConnectTimeout)
  /\ SF_vars(ResendAlarmFires) /\ SF_vars(CheckMasterStatus)
  /\ WF_vars(Settles)

FairSpec == Spec /\ Fairness
-----------------------------------------------------------------------------
(* Properties *)

NodeDatagram == [code : MasterCode, arg : Nat]
SlaveDatagram == [code : SlaveCode, arg : {0, 1}]

\* Types of the two programs' globals and of the datagrams in flight.
TypeOK ==
  /\ registered \in BOOLEAN
  /\ node \in [state : NodeState, pending : Seq(NodeDatagram),
               timeSinceSent : 0 .. GiveUpAt, hasTemp : BOOLEAN,
               udp : Seq(NodeDatagram), heard : BOOLEAN]
  /\ slave \in [mode : SlaveMode, retried : BOOLEAN,
                masterState : {"RUNNING", "PENDING_RESPONSE"},
                timers : SUBSET Slots, resendAlarm : Slots \cup {NotSet},
                packetSent : BOOLEAN, sentMsg : SlaveCode \cup {"STATE"},
                sentPacket : SlaveDatagram, silent : 0 .. SilenceLimit,
                temp : BOOLEAN, udp : Seq(SlaveDatagram)]
  /\ version \in Nat /\ relay \in Nat /\ applied \in Nat
  /\ faults \in Nat /\ settled \in BOOLEAN

\* checkNodeStatus asks only nodes in the RUNNING state, so a node with nothing
\* outstanding in another state would never be asked anything again.
IdleIsPolled == node.pending = <<>> => node.state = "RUNNING"

isTurn(d) == d.code = "TURN"

Sorted(wire) ==
  \A i, j \in DOMAIN wire :
    i < j /\ isTurn(wire[i]) /\ isTurn(wire[j]) => wire[i].arg <= wire[j].arg

NotAfter(wire, queue) ==
  \A i \in DOMAIN wire, j \in DOMAIN queue :
    isTurn(wire[i]) /\ isTurn(queue[j]) => wire[i].arg <= queue[j].arg

Within(wire, lo, hi) ==
  \A i \in DOMAIN wire : isTurn(wire[i]) => wire[i].arg \in lo .. hi

\* The orders on their way are no newer than those still queued, neither is
\* out of order, and none is older than what the slave has already obeyed:
\* resending the head never lets an order overtake another.
CommandsInOrder ==
  /\ Sorted(node.udp) /\ Sorted(node.pending) /\ NotAfter(node.udp, node.pending)
  /\ Within(node.udp, applied, version) /\ Within(node.pending, applied, version)

\* Whatever is lost, resent, acknowledged twice or restarted, the slave obeys
\* orders only in the order they were given, and its relays show the last one
\* obeyed since the power came: the link implements GroupOrders.
Orders == INSTANCE GroupOrders WITH asked <- version, obeyed <- applied,
                                    shown <- relay
ObeysInOrder == Orders!Spec

\* A slave that waits for an answer to a message has an alarm armed to repeat
\* it, even when the alarm pool is exhausted and ids are stale.
MessageIsRetried ==
  /\ slave.masterState = "PENDING_RESPONSE" /\ ~slave.packetSent
  => slave.timers # {}

\* The master gives up on no node forever: one declared in error is running
\* again later, once the slave notices the silence.
ErrorRecovers == registered /\ node.state = "ERROR" ~> node.state = "RUNNING"

\* A slave unknown to the master (after either restarts) is registered again.
Registers == <>[]registered

\* Node.cpp says receiveAck runs when the answer of the queue's last message
\* came: a packet leaves the queue only after the slave has handled it.
AnsweredWasHeard ==
  [][Len(node'.pending) < Len(node.pending) /\ registered' => node.heard]_node

Quiet == node.pending = <<>> /\ node.udp = <<>> /\ slave.udp = <<>>

\* Node.h says these fields tell which sensors the node has: so they should
\* when the two sides have nothing left to say to each other.
BeliefIsTrue ==
  registered /\ Quiet /\ slave.mode = "RUNNING" /\ slave.timers = {}
  => node.hasTemp = slave.temp
=============================================================================
