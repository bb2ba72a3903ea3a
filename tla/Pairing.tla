------------------------------- MODULE Pairing --------------------------------
(***************************************************************************)
(* How slaves join a master: startPairing and sendNewIP of Master.ino, and *)
(* the WiFi, CONNECTION, WIFI_SETTINGS and IP steps of Slave.ino.          *)
(*                                                                         *)
(* While it pairs, the master's access point has the default name and a    *)
(* new slave finds it: it connects with an address of the access point's   *)
(* DHCP, asks for the name of the master's own network, then for an        *)
(* address of its own, and leaves to join that network with that address.  *)
(* The master knows a slave by its address alone.                          *)
(*                                                                         *)
(* The node and the slave are those of Node and Slave.  A datagram arrives *)
(* or is lost before any timer, which counts in seconds, expires.          *)
(***************************************************************************)
EXTENDS Node, Slave, Integers

CONSTANTS
  Slaves,      \* the slaves
  MaxNodes,    \* MAX_NODES (8)
  FirstIp,     \* baseIp at a start (210)
  ByteWidth,   \* values of the last byte of an address (256)
  MaxIps,      \* bound on the addresses the master gives out
  MaxEvents    \* bound on pairings started, restarts and datagrams lost

ASSUME PairingConstants ==
  /\ MaxNodes \in Nat \ {0} /\ ByteWidth \in Nat \ {0} /\ FirstIp \in 1 .. ByteWidth - 1
  /\ MaxIps \in Nat /\ MaxEvents \in Nat
  /\ Slaves \subseteq Nat \ {0}

VARIABLES
  pairing,   \* the master is in startPairing
  nodes,     \* nodes[0 .. connectedNodes-1]: the ip of each Node, and the Node
  baseIp,    \* baseIp, an int
  slave,     \* slave[s]: the globals of Slave.ino
  ident,     \* ident[s]: the stored ip and network, the network it is on, and
             \* whether it is new, in initConnection without an ip
  inbox,     \* inbox[s]: datagrams on their way to s
  outbox,    \* outbox[s]: datagrams on their way to the master, with the
             \* address they come from
  restarted, \* history: the master has restarted
  events     \* pairings started, restarts and losses so far

world == <<restarted, events>>
vars == <<pairing, nodes, baseIp, slave, ident, inbox, outbox, world>>
masterVars == <<pairing, nodes, baseIp>>
slaveVars == <<slave, ident>>

Networks == {"default", "own"}
NoIp == ByteWidth

\* IPAddress(192, 168, 0, baseIp) keeps the last byte of the counter.
lastByte(n) == n % ByteWidth
Ips == {lastByte(n) : n \in FirstIp + 1 .. FirstIp + MaxIps}

\* The address the access point gives s, unless it has one of its own.
Dhcp(s) == -s
address(s) == IF ident[s].ip = NoIp THEN Dhcp(s) ELSE ident[s].ip

network == IF pairing THEN "default" ELSE "own"
joined(s) == slave[s].mode # "DOWN"

Init ==
  /\ pairing = TRUE          \* startPairingMode is TRUE at a start
  /\ nodes = <<>>
  /\ baseIp = FirstIp
  /\ slave = [s \in Slaves |-> PoweredDown(FALSE, <<>>)]
  /\ ident = [s \in Slaves |-> [ip |-> NoIp, ssid |-> "default", new |-> TRUE]]
  /\ inbox = [s \in Slaves |-> <<>>]
  /\ outbox = [s \in Slaves |-> <<>>]
  /\ restarted = FALSE /\ events = 0

quiet == \A s \in Slaves : inbox[s] = <<>> /\ outbox[s] = <<>>
\* One of the events that are bounded.
event == events < MaxEvents /\ events' = events + 1

-----------------------------------------------------------------------------
(* Sending *)

\* What node i has just sent goes to the slave with that address, if it is on
\* the network; what a slave has just sent goes with the address it has now.
emptied(n) == [n EXCEPT !.udp = <<>>]

delivered(n, ip) ==
  [s \in Slaves |-> IF joined(s) /\ address(s) = ip THEN inbox[s] \o n.udp
                    ELSE inbox[s]]

masterSends(i, n, ip) ==
  /\ inbox' = delivered(n, nodes[i].ip)
  /\ nodes' = [nodes EXCEPT ![i] = [ip |-> ip, node |-> emptied(n)]]

slaveSends(s, new) ==
  /\ outbox' = [outbox EXCEPT
       ![s] = @ \o [k \in DOMAIN new.udp |->
                      [code |-> new.udp[k].code, from |-> address(s)]]]
  /\ slave' = [slave EXCEPT ![s] = [new EXCEPT !.udp = <<>>]]

\* A slave leaves the network, with what was on its way to it.
leaves(s, new) == [new EXCEPT !.mode = "DOWN", !.retried = FALSE]
-----------------------------------------------------------------------------
(* The master *)

\* Slip: the count of addresses starts again at each pairing.
StartPairingSlip ==
  /\ ~pairing /\ quiet
  /\ event /\ UNCHANGED restarted
  /\ pairing' = TRUE
  /\ nodes' = <<>> /\ baseIp' = FirstIp
  /\ slave' = [s \in Slaves |-> leaves(s, slave[s])]
  /\ UNCHANGED <<ident, inbox, outbox>>

StartPairing ==
  /\ ~pairing /\ quiet
  /\ event /\ UNCHANGED restarted
  /\ pairing' = TRUE
  /\ nodes' = <<>>
  /\ slave' = [s \in Slaves |-> leaves(s, slave[s])]
  /\ UNCHANGED <<baseIp, ident, inbox, outbox>>

\* clearMessages empties the queue and leaves the state.
EndPairing ==
  /\ pairing /\ quiet
  /\ pairing' = FALSE
  /\ nodes' = [i \in DOMAIN nodes |-> [nodes[i] EXCEPT !.node.pending = <<>>]]
  /\ slave' = [s \in Slaves |-> leaves(s, slave[s])]
  /\ UNCHANGED <<baseIp, ident, inbox, outbox, world>>

Restart ==
  /\ quiet
  /\ event /\ restarted' = TRUE
  /\ pairing' = TRUE /\ nodes' = <<>> /\ baseIp' = FirstIp
  /\ slave' = [s \in Slaves |-> leaves(s, slave[s])]
  /\ UNCHANGED <<ident, inbox, outbox>>

known(ip) == {i \in DOMAIN nodes : nodes[i].ip = ip}
getNode(ip) == CHOOSE i \in known(ip) : \A j \in known(ip) : i <= j

received(s) == outbox' = [outbox EXCEPT ![s] = Tail(@)]

\* Slip: a node is made for every request, known or not.
RegisterAgainSlip(s) ==
  LET ip == Head(outbox[s]).from IN
  /\ outbox[s] # <<>> /\ Head(outbox[s]).code = "CONNECTION"
  /\ received(s)
  /\ IF Len(nodes) < MaxNodes
     THEN /\ nodes' = Append(nodes, [ip |-> ip, node |-> NewNode])
          /\ inbox' = delivered(sendAck(NewNode), ip)
     ELSE UNCHANGED <<nodes, inbox>>
  /\ UNCHANGED <<pairing, baseIp, slaveVars, world>>

\* Slip: only a slave that is being paired is registered.
RegisterPairingSlip(s) ==
  LET ip == Head(outbox[s]).from IN
  /\ outbox[s] # <<>> /\ known(ip) = {} /\ Head(outbox[s]).code = "CONNECTION"
  /\ received(s)
  /\ IF pairing /\ Len(nodes) < MaxNodes
     THEN /\ nodes' = Append(nodes, [ip |-> ip, node |-> NewNode])
          /\ inbox' = delivered(sendAck(NewNode), ip)
     ELSE UNCHANGED <<nodes, inbox>>
  /\ UNCHANGED <<pairing, baseIp, slaveVars, world>>

\* A new node on CONNECTION_MSG, and its acknowledgement.
Register(s) ==
  LET ip == Head(outbox[s]).from IN
  /\ outbox[s] # <<>> /\ known(ip) = {} /\ Head(outbox[s]).code = "CONNECTION"
  /\ received(s)
  /\ IF Len(nodes) < MaxNodes
     THEN /\ nodes' = Append(nodes, [ip |-> ip, node |-> NewNode])
          /\ inbox' = delivered(sendAck(NewNode), ip)
     ELSE UNCHANGED <<nodes, inbox>>
  /\ UNCHANGED <<pairing, baseIp, slaveVars, world>>

\* Anything else from an address no node has is not looked at.
Ignore(s) ==
  /\ outbox[s] # <<>> /\ known(Head(outbox[s]).from) = {}
  /\ Head(outbox[s]).code # "CONNECTION"
  /\ received(s)
  /\ UNCHANGED <<masterVars, slaveVars, inbox, world>>

\* Slip: the last address given is given, and then counted.
SendNewIpSlip(s) ==
  LET i == getNode(Head(outbox[s]).from)
      ip == lastByte(baseIp)
  IN
  /\ outbox[s] # <<>> /\ known(Head(outbox[s]).from) # {}
  /\ Head(outbox[s]).code = "IP"
  /\ baseIp < FirstIp + MaxIps
  /\ received(s)
  /\ baseIp' = baseIp + 1
  /\ masterSends(i, sendPacket(nodes[i].node, datagram("IP", ip)), ip)
  /\ UNCHANGED <<pairing, slaveVars, world>>

\* sendNewIP: the packet goes to the old address, what follows to the new one.
SendNewIp(s) ==
  LET i == getNode(Head(outbox[s]).from)
      ip == lastByte(baseIp + 1)
  IN
  /\ outbox[s] # <<>> /\ known(Head(outbox[s]).from) # {}
  /\ Head(outbox[s]).code = "IP"
  /\ baseIp < FirstIp + MaxIps
  /\ received(s)
  /\ baseIp' = baseIp + 1
  /\ masterSends(i, sendPacket(nodes[i].node, datagram("IP", ip)), ip)
  /\ UNCHANGED <<pairing, slaveVars, world>>

\* The other datagrams of a node, in startPairing and in handlePacket.
paired(n, code) ==
  CASE code = "WIFI"       -> sendPacket(n, message("WIFI"))
    [] code = "CONNECTION" -> reconnect(n)
    [] code = "RECEIVED"   -> receiveAck(n)
    [] OTHER               -> sendAck(n)

handledNormally(n, code) ==
  CASE code = "CONNECTION" -> reconnect(n)
    [] code = "INFO"       -> receiveAck(sendAck(n))
    [] code \notin {"CONNECTION", "INFO"} /\ n.state = "PENDING_RESPONSE" ->
         IF code \in {"RECEIVED", "RUNNING"} THEN receiveAck(n) ELSE n
    [] code \notin {"CONNECTION", "INFO"} /\ n.state = "RUNNING" -> sendAck(n)
    [] OTHER -> n

Receive(s) ==
  LET d == Head(outbox[s])
      i == getNode(d.from)
  IN
  /\ outbox[s] # <<>> /\ known(d.from) # {} /\ d.code # "IP"
  /\ received(s)
  /\ masterSends(i, IF pairing THEN paired(nodes[i].node, d.code)
                    ELSE handledNormally(nodes[i].node, d.code), nodes[i].ip)
  /\ UNCHANGED <<pairing, baseIp, slaveVars, world>>

\* checkSentPackets and checkNodeStatus, which wait for the end of the pairing.
CheckSentPackets(i) ==
  /\ ~pairing /\ quiet
  /\ masterSends(i, checkSentPackets(nodes[i].node), nodes[i].ip)
  /\ UNCHANGED <<pairing, baseIp, slaveVars, outbox, world>>

CheckNodeStatus(i) ==
  /\ ~pairing /\ quiet
  /\ nodes[i].node.state = "RUNNING"
  /\ masterSends(i, sendPacket(nodes[i].node, message("STATE")), nodes[i].ip)
  /\ UNCHANGED <<pairing, baseIp, slaveVars, outbox, world>>
-----------------------------------------------------------------------------
(* The slaves *)

\* connectWifi finds the network of the stored name; connectToMaster.
Join(s) ==
  /\ slave[s].mode = "DOWN" /\ ident[s].ssid = network
  /\ slaveSends(s, connectToMaster(freeResendAlarm(slave[s])))
  /\ UNCHANGED <<masterVars, ident, inbox, world>>

\* The fifth turn of the wait asks again, the tenth resets.
AskAgain(s) ==
  /\ quiet
  /\ slave[s].mode = "CONNECTING" /\ ~slave[s].retried
  /\ slaveSends(s, [sendMessage(slave[s], "CONNECTION") EXCEPT !.retried = TRUE])
  /\ UNCHANGED <<masterVars, ident, inbox, world>>

reset(s) ==
  /\ slave' = [slave EXCEPT ![s] = PoweredDown(FALSE, <<>>)]
  /\ ident' = [ident EXCEPT ![s].new = (ident[s].ip = NoIp)]

GiveUp(s) ==
  /\ quiet
  /\ slave[s].mode = "CONNECTING" /\ slave[s].retried
  /\ reset(s)
  /\ UNCHANGED <<masterVars, inbox, outbox, world>>

taken(s) == inbox' = [inbox EXCEPT ![s] = Tail(@)]

\* Any datagram ends the wait.  A new slave asks for the network's name, any
\* other sends its sensor information.
Connected(s) ==
  LET code == Head(inbox[s]).code
      answered == IF code = "RECEIVED"
                  THEN [slave[s] EXCEPT !.masterState = "RUNNING"] ELSE slave[s]
  IN
  /\ inbox[s] # <<>> /\ slave[s].mode = "CONNECTING"
  /\ taken(s)
  /\ slaveSends(s, IF ident[s].new
                   THEN [sendMessage(answered, "WIFI") EXCEPT
                           !.mode = "RUNNING", !.retried = FALSE]
                   ELSE connected(slave[s], code))
  /\ ident' = [ident EXCEPT ![s].new = FALSE]
  /\ UNCHANGED <<masterVars, world>>

\* Slip: the name is kept for this connection, not stored.
StoreNetworkSlip(s) ==
  /\ inbox[s] # <<>> /\ slave[s].mode = "RUNNING" /\ Head(inbox[s]).code = "WIFI"
  /\ taken(s)
  /\ slaveSends(s, sendMessage(ackMaster(heard(slave[s])), "IP"))
  /\ UNCHANGED <<masterVars, ident, world>>

\* The new name is stored, and the address asked for.
StoreNetwork(s) ==
  /\ inbox[s] # <<>> /\ slave[s].mode = "RUNNING" /\ Head(inbox[s]).code = "WIFI"
  /\ taken(s)
  /\ ident' = [ident EXCEPT ![s].ssid = "own"]
  /\ slaveSends(s, sendMessage(ackMaster(heard(slave[s])), "IP"))
  /\ UNCHANGED <<masterVars, world>>

\* The address is acknowledged, stored, and the network left for the new one.
StoreIp(s) ==
  LET ip == Head(inbox[s]).arg IN
  /\ inbox[s] # <<>> /\ slave[s].mode = "RUNNING" /\ Head(inbox[s]).code = "IP"
  /\ inbox' = [inbox EXCEPT ![s] = <<>>]
  /\ ident' = [ident EXCEPT ![s].ip = ip, ![s].new = (ip = NoIp)]
  /\ slaveSends(s, leaves(s, freeResendAlarm(
       [ackMaster(heard(slave[s])) EXCEPT !.masterState = "RUNNING"])))
  /\ UNCHANGED <<masterVars, world>>

Hear(s) ==
  LET code == Head(inbox[s]).code IN
  /\ inbox[s] # <<>> /\ slave[s].mode = "RUNNING" /\ code \notin {"WIFI", "IP"}
  /\ taken(s)
  /\ slaveSends(s, IF code = "STATE" THEN sendUnawaited(heard(slave[s]), "RUNNING")
                   ELSE heard(slave[s]))
  /\ UNCHANGED <<masterVars, ident, world>>

\* An alarm rings: resendLastMessage.
Resend(s) ==
  /\ quiet
  /\ slave[s].mode = "RUNNING"
  /\ \E t \in slave[s].timers :
       slaveSends(s, resendLastMessage([slave[s] EXCEPT !.timers = @ \ {t}]))
  /\ UNCHANGED <<masterVars, ident, inbox, world>>

\* checkMasterStatus counts, and joins the network again after the limit.
CheckMasterStatus(s) ==
  /\ quiet
  /\ slave[s].mode = "RUNNING"
  /\ slave' = [slave EXCEPT ![s] =
       IF slave[s].silent >= SilenceLimit
       THEN [leaves(s, slave[s]) EXCEPT !.silent = 1]
       ELSE [slave[s] EXCEPT !.silent = slave[s].silent + 1]]
  /\ UNCHANGED <<masterVars, ident, inbox, outbox, world>>

\* Its network is not there for twenty or thirty seconds: reset.
NoNetwork(s) ==
  /\ quiet
  /\ slave[s].mode = "DOWN" /\ ident[s].ssid # network
  /\ reset(s)
  /\ UNCHANGED <<masterVars, inbox, outbox, world>>

\* A loss may last: it takes the second request of a connection as well.
Lose(s) ==
  /\ IF slave[s].retried THEN UNCHANGED world ELSE event /\ UNCHANGED restarted
  /\ \/ inbox[s] # <<>> /\ taken(s) /\ UNCHANGED outbox
     \/ outbox[s] # <<>> /\ received(s) /\ UNCHANGED inbox
  /\ UNCHANGED <<masterVars, slaveVars>>
-----------------------------------------------------------------------------
Arrival(s) ==
  \/ Register(s) \/ Ignore(s) \/ SendNewIp(s) \/ Receive(s)
  \/ Connected(s) \/ StoreNetwork(s) \/ StoreIp(s) \/ Hear(s)

Timer(s) ==
  \/ Join(s) \/ AskAgain(s) \/ GiveUp(s) \/ Resend(s) \/ CheckMasterStatus(s)
  \/ NoNetwork(s)

Next ==
  \/ StartPairing \/ EndPairing \/ Restart
  \/ \E s \in Slaves : Arrival(s) \/ Timer(s) \/ Lose(s)
  \/ \E i \in DOMAIN nodes : CheckSentPackets(i) \/ CheckNodeStatus(i)

Spec == Init /\ [][Next]_vars

\* Pairing ends after a minute and datagrams arrive.  A timer of one slave runs
\* on while the others talk, so it expires if it is due again and again.
FairSpec ==
  /\ Spec
  /\ WF_vars(EndPairing)
  /\ \A s \in Slaves : WF_vars(Arrival(s)) /\ SF_vars(Timer(s))
-----------------------------------------------------------------------------
TypeOK ==
  /\ pairing \in BOOLEAN
  /\ Len(nodes) <= MaxNodes
  /\ \A i \in DOMAIN nodes : nodes[i].ip \in Ips \cup {Dhcp(s) : s \in Slaves}
  /\ \A i \in DOMAIN nodes : nodes[i].node.state \in NodeState
  /\ baseIp \in FirstIp .. FirstIp + MaxIps
  /\ ident \in [Slaves -> [ip : Ips \cup {NoIp}, ssid : Networks, new : BOOLEAN]]
  /\ \A s \in Slaves : slave[s].mode \in SlaveMode /\ slave[s].udp = <<>>

\* No two slaves have one address: what the master gave out is reserved.
NoSharedIp ==
  \A s, t \in Slaves : s # t /\ ident[s].ip # NoIp => ident[s].ip # ident[t].ip

\* The master has counted on since its first start, and not past the last byte.
fresh == ~restarted /\ baseIp < ByteWidth

\* It is as long as the master runs and its counter fits the byte of an address,
\* whatever is lost and asked for again: 45 addresses with the constants of the
\* code.  From the 46th on they start again at 0.
SharedAfterRestartOrWrap == fresh => NoSharedIp

\* A slave that has an address also has the name of the network it is for.
KnowsItsNetwork == \A s \in Slaves : ident[s].ip # NoIp => ident[s].ssid = "own"

\* The table holds one node per address: getNode finds the only one there is,
\* again until a restart or an address past the last byte.
NodesAreDistinct ==
  fresh =>
    \A i, j \in DOMAIN nodes : i # j => nodes[i].ip # nodes[j].ip

\* What the code does not give: addresses reserved for as long as the master runs.
AlwaysReserved == ~restarted => NoSharedIp

\* A slave that knows the master's network ends up connected to it, under the
\* address it has.
registered(s) ==
  slave[s].mode = "RUNNING" /\ known(address(s)) # {}
Joins ==
  \A s \in Slaves :
    <>[](~pairing /\ ident[s].ssid = "own") => []<>registered(s)
=============================================================================
