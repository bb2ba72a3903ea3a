---------------------------- MODULE Pairing_proofs ----------------------------
(***************************************************************************)
(* What holds of pairing for any number of slaves and nodes, whatever is   *)
(* lost, repeated or cut short: as long as the master runs and its counter *)
(* fits the last byte of an address, no address is given to two slaves and *)
(* no node is there twice.  For any number of addresses, a slave with an   *)
(* address knows its network.                                              *)
(*                                                                         *)
(* The argument follows an address: from the counter to the packet, the    *)
(* node, the slave and what it sends.  Ad[s] is the set of addresses that  *)
(* may be on that way for slave s, and what is in one place on it comes    *)
(* from the place before.  The invariant uses this twice: with the sets of *)
(* addresses given to each slave, which are disjoint, and with all of them *)
(* for a slave that knows the network and none for one that does not.      *)
(***************************************************************************)
EXTENDS Pairing, SequenceTheorems, WellFoundedInduction, TLAPS

\* Datagrams to a slave that may be given the addresses A.
AllCodes == {"RECEIVED", "WIFI", "STATE", "IP"}
Addressed(A) == {d \in [code : AllCodes, arg : Int] : d.code = "IP" => d.arg \in A}

NodeOf(A) ==
  [state : NodeState, pending : Seq(Addressed(A)), timeSinceSent : 0 .. GiveUpAt,
   hasTemp : BOOLEAN, udp : Seq(Addressed(A)), heard : BOOLEAN]

\* What a slave may say: it asks for an address once it knows the network.
Said(C) == [code : C, arg : Int]
SlaveFields ==
  {"mode", "retried", "masterState", "timers", "resendAlarm", "packetSent",
   "sentMsg", "sentPacket", "silent", "temp", "udp"}
Talks(r, C) ==
  /\ DOMAIN r = SlaveFields
  /\ r.mode \in SlaveMode
  /\ r.sentMsg \in C /\ r.sentPacket \in Said(C) /\ r.udp \in Seq(Said(C))
AllSaid == {"CONNECTION", "WIFI", "INFO", "RECEIVED", "RUNNING", "STATE", "IP"}
Talk == {AllSaid, AllSaid \ {"IP"}}
Codes(s) == IF ident[s].ssid = "own" THEN AllSaid ELSE AllSaid \ {"IP"}
-----------------------------------------------------------------------------
LEMMA Wider ==
  ASSUME NEW S, NEW T, S \subseteq T
  PROVE  Seq(S) \subseteq Seq(T)
BY SeqMonotonic

LEMMA Words ==
  /\ \A C \in Talk : /\ "CONNECTION" \in C /\ "WIFI" \in C /\ "INFO" \in C
                     /\ "RECEIVED" \in C /\ "RUNNING" \in C /\ "STATE" \in C
  /\ \A s \in Slaves : Codes(s) \in Talk
  /\ "DOWN" \in SlaveMode /\ "CONNECTING" \in SlaveMode /\ "RUNNING" \in SlaveMode
  /\ "RUNNING" \in NodeState /\ "PENDING_RESPONSE" \in NodeState
  /\ "ERROR" \in NodeState
BY DEF AllSaid, Talk, Codes, SlaveMode, NodeState

LEMMA Ages ==
  /\ 0 \in 0 .. GiveUpAt
  /\ \A age \in 0 .. GiveUpAt : older(age) \in 0 .. GiveUpAt
BY NodeConstants DEF NodeConstants, older
-----------------------------------------------------------------------------
(* A node only sends what was put in its queue. *)

LEMMA MessageIsAddressed ==
  ASSUME NEW A
  PROVE  /\ message("RECEIVED") \in Addressed(A) /\ message("WIFI") \in Addressed(A)
         /\ message("STATE") \in Addressed(A)
BY DEF message, datagram, Addressed, AllCodes

LEMMA NodeTransmits ==
  ASSUME NEW A, NEW n \in NodeOf(A), NEW d \in Addressed(A)
  PROVE  transmit(n, d) \in NodeOf(A)
<1>1. carried(n.udp, d) \in Seq(Addressed(A))
  BY DEF carried, NodeOf
<1> QED BY <1>1 DEF transmit, NodeOf

LEMMA NodeSendsNext ==
  ASSUME NEW A, NEW n \in NodeOf(A)
  PROVE  sendNextPacket(n) \in NodeOf(A)
<1>1. CASE n.pending = <<>>
  BY <1>1, Words, Ages DEF sendNextPacket, NodeOf
<1>2. CASE n.pending # <<>>
  <2>1. Head(n.pending) \in Addressed(A)
    BY <1>2 DEF NodeOf
  <2> QED BY <1>2, <2>1, NodeTransmits DEF sendNextPacket
<1> QED BY <1>1, <1>2

LEMMA NodeSends ==
  ASSUME NEW A, NEW n \in NodeOf(A), NEW d \in Addressed(A)
  PROVE  sendPacket(n, d) \in NodeOf(A)
<1> DEFINE queued == [n EXCEPT !.state = "PENDING_RESPONSE", !.pending = push(@, d)]
<1>1. push(n.pending, d) \in Seq(Addressed(A))
  BY DEF push, NodeOf
<1>2. queued \in NodeOf(A)
  BY <1>1, Words DEF NodeOf
<1>3. sendNextPacket(queued) \in NodeOf(A)
  BY <1>2, NodeSendsNext
<1> QED BY <1>2, <1>3 DEF sendPacket

LEMMA NodeAcknowledges ==
  ASSUME NEW A, NEW n \in NodeOf(A)
  PROVE  sendAck(n) \in NodeOf(A)
<1>1. message("RECEIVED") \in Addressed(A)
  BY MessageIsAddressed
<1> QED BY <1>1, NodeTransmits DEF sendAck

LEMMA NodeIsAnswered ==
  ASSUME NEW A, NEW n \in NodeOf(A)
  PROVE  receiveAck(n) \in NodeOf(A)
<1> DEFINE popped == [n EXCEPT !.pending = pop(@), !.heard = FALSE]
<1>1. pop(n.pending) \in Seq(Addressed(A))
  BY DEF pop, NodeOf
<1>2. popped \in NodeOf(A)
  BY <1>1 DEF NodeOf
<1>3. sendNextPacket(popped) \in NodeOf(A)
  BY <1>2, NodeSendsNext
<1>4. [sendNextPacket(popped) EXCEPT !.timeSinceSent = 0] \in NodeOf(A)
  BY <1>3, Ages DEF NodeOf
<1> QED BY <1>4 DEF receiveAck

LEMMA NodeReconnects ==
  ASSUME NEW A, NEW n \in NodeOf(A)
  PROVE  reconnect(n) \in NodeOf(A)
<1>1. [n EXCEPT !.state = "RUNNING", !.timeSinceSent = 0] \in NodeOf(A)
  BY Words, Ages DEF NodeOf
<1> QED BY <1>1, NodeAcknowledges DEF reconnect

LEMMA NodeResends ==
  ASSUME NEW A, NEW n \in NodeOf(A)
  PROVE  checkSentPackets(n) \in NodeOf(A)
<1> DEFINE checked == IF resendDue(n) THEN sendNextPacket(n)
                      ELSE IF n.timeSinceSent >= GiveUpAt
                             THEN [n EXCEPT !.state = "ERROR"]
                             ELSE n
<1>1. checked \in NodeOf(A)
  <2>1. [n EXCEPT !.state = "ERROR"] \in NodeOf(A)
    BY Words DEF NodeOf
  <2> QED BY <2>1, NodeSendsNext
<1> HIDE DEF checked
<1>2. [checked EXCEPT !.timeSinceSent = older(@)] \in NodeOf(A)
  BY <1>1, Ages DEF NodeOf
<1> QED BY <1>2 DEF checkSentPackets, checked

LEMMA NodeIsPaired ==
  ASSUME NEW A, NEW n \in NodeOf(A), NEW c
  PROVE  paired(n, c) \in NodeOf(A) /\ handledNormally(n, c) \in NodeOf(A)
<1>1. sendPacket(n, message("WIFI")) \in NodeOf(A)
  BY MessageIsAddressed, NodeSends
<1>2. /\ reconnect(n) \in NodeOf(A) /\ receiveAck(n) \in NodeOf(A)
      /\ sendAck(n) \in NodeOf(A) /\ receiveAck(sendAck(n)) \in NodeOf(A)
  BY NodeReconnects, NodeIsAnswered, NodeAcknowledges
<1>3. paired(n, c) \in NodeOf(A)
  BY <1>1, <1>2 DEF paired
<1>4. handledNormally(n, c) \in NodeOf(A)
  BY <1>2, Zenon DEF handledNormally
<1> QED BY <1>3, <1>4

LEMMA NodeIsNew ==
  ASSUME NEW A
  PROVE  NewNode \in NodeOf(A)
BY Words, Ages DEF NewNode, NodeOf

LEMMA NodeIsCleared ==
  ASSUME NEW A, NEW n \in NodeOf(A)
  PROVE  /\ [n EXCEPT !.pending = <<>>] \in NodeOf(A)
         /\ emptied(n) \in NodeOf(A)
<1>1. <<>> \in Seq(Addressed(A))
  OBVIOUS
<1> QED BY <1>1 DEF NodeOf, emptied

LEMMA NodeWider ==
  ASSUME NEW A, NEW B, A \subseteq B
  PROVE  NodeOf(A) \subseteq NodeOf(B) /\ Seq(Addressed(A)) \subseteq Seq(Addressed(B))
<1>1. Addressed(A) \subseteq Addressed(B)
  BY DEF Addressed
<1>2. Seq(Addressed(A)) \subseteq Seq(Addressed(B))
  BY <1>1, Wider
<1> QED BY <1>2 DEF NodeOf
-----------------------------------------------------------------------------
(* A slave only says what it may say. *)

LEMMA SlavePuts ==
  ASSUME NEW C \in Talk, NEW r, Talks(r, C), NEW c \in C, NEW a \in Int
  PROVE  Talks(put(r, toMaster(c, a)), C)
<1>1. toMaster(c, a) \in Said(C)
  BY DEF toMaster, Said
<1>2. (IF Len(r.udp) < SlaveWire THEN Append(r.udp, toMaster(c, a)) ELSE r.udp)
        \in Seq(Said(C))
  BY <1>1 DEF Talks
<1> QED BY <1>2 DEF put, Talks, SlaveFields

LEMMA SlaveKeepsTalking ==
  ASSUME NEW C \in Talk, NEW r, Talks(r, C)
  PROVE  /\ Talks(setResendAlarm(r), C) /\ Talks(freeResendAlarm(r), C)
         /\ \A t : Talks([r EXCEPT !.timers = t], C)
         /\ \A t : Talks([r EXCEPT !.silent = t], C)
         /\ \A t : Talks([r EXCEPT !.masterState = t], C)
         /\ \A m \in SlaveMode : Talks([r EXCEPT !.mode = m, !.retried = FALSE], C)
         /\ Talks([r EXCEPT !.retried = TRUE], C)
         /\ Talks([r EXCEPT !.udp = <<>>], C)
BY DEF setResendAlarm, freeResendAlarm, Talks, SlaveFields

LEMMA SlaveSendsMessage ==
  ASSUME NEW C \in Talk, NEW r, Talks(r, C), NEW c \in C
  PROVE  Talks(sendUnawaited(r, c), C) /\ Talks(sendMessage(r, c), C)
<1>1. Talks(put(r, toMaster(c, 0)), C)
  BY SlavePuts
<1>2. Talks(sendUnawaited(r, c), C)
  BY <1>1 DEF sendUnawaited, Talks, SlaveFields
<1> QED BY <1>2, SlaveKeepsTalking DEF sendMessage

LEMMA SlaveSendsData ==
  ASSUME NEW C \in Talk, NEW r, Talks(r, C), NEW d \in Said(C)
  PROVE  Talks(sendData(r, d), C)
<1>1. d = toMaster(d.code, d.arg) /\ d.code \in C /\ d.arg \in Int
  BY DEF Said, toMaster
<1>2. Talks(put(r, d), C)
  BY <1>1, SlavePuts
<1> QED BY <1>2 DEF sendData, Talks, SlaveFields

LEMMA SlaveAcknowledges ==
  ASSUME NEW C \in Talk, NEW r, Talks(r, C)
  PROVE  Talks(ackMaster(r), C)
<1>1. "RECEIVED" \in C
  BY Words
<1>2. Talks(put(r, toMaster("RECEIVED", 0)), C)
  BY <1>1, SlavePuts
<1> QED BY <1>1, <1>2 DEF ackMaster, Talks, SlaveFields

LEMMA SlaveRepeats ==
  ASSUME NEW C \in Talk, NEW r, Talks(r, C)
  PROVE  Talks(resendLastMessage(r), C)
<1>1. r.sentPacket \in Said(C) /\ r.sentMsg \in C
  BY DEF Talks
<1> QED BY <1>1, SlaveSendsData, SlaveSendsMessage DEF resendLastMessage

LEMMA SlaveHears ==
  ASSUME NEW C \in Talk, NEW r, Talks(r, C)
  PROVE  Talks(heard(r), C)
<1> DEFINE h == [r EXCEPT !.silent = 0]
<1>1. Talks(h, C)
  BY SlaveKeepsTalking
<1> HIDE DEF h
<1>2. Talks(freeResendAlarm([h EXCEPT !.masterState = "RUNNING"]), C)
  BY <1>1, SlaveKeepsTalking
<1> QED BY <1>1, <1>2 DEF heard, h

LEMMA SlaveConnects ==
  ASSUME NEW C \in Talk, NEW r, Talks(r, C), NEW c
  PROVE  Talks(connectToMaster(r), C) /\ Talks(connected(r, c), C)
<1>1. "CONNECTION" \in C /\ "INFO" \in C
  BY Words
<1>2. Talks(sendMessage(r, "CONNECTION"), C)
  BY <1>1, SlaveSendsMessage
<1>3. Talks(connectToMaster(r), C)
  BY <1>2, Words, SlaveKeepsTalking DEF connectToMaster
<1> DEFINE a == IF c = "RECEIVED" THEN [r EXCEPT !.masterState = "RUNNING"] ELSE r
<1>4. Talks(a, C)
  BY SlaveKeepsTalking
<1> HIDE DEF a
<1>5. toMaster("INFO", flag(a.temp)) \in Said(C)
  BY <1>1 DEF toMaster, Said, flag
<1>6. Talks(sendSensorInfo(a), C)
  BY <1>4, <1>5, SlaveSendsData, SlaveKeepsTalking DEF sendSensorInfo
<1>7. Talks([sendSensorInfo(a) EXCEPT !.mode = "RUNNING", !.retried = FALSE], C)
  BY <1>6, Words, SlaveKeepsTalking
<1> QED BY <1>3, <1>7 DEF connected, a

LEMMA SlaveLeaves ==
  ASSUME NEW C \in Talk, NEW r, Talks(r, C), NEW s
  PROVE  Talks(leaves(s, r), C)
BY Words, SlaveKeepsTalking DEF leaves

LEMMA SlaveStarts ==
  ASSUME NEW C \in Talk
  PROVE  Talks(PoweredDown(FALSE, <<>>), C)
<1>1. "INFO" \in C /\ "STATE" \in C /\ "DOWN" \in SlaveMode
  BY Words
<1> QED BY <1>1 DEF PoweredDown, Talks, SlaveFields, Said, toMaster

LEMMA SlaveMaySayAll ==
  ASSUME NEW C \in Talk, NEW r, Talks(r, C)
  PROVE  Talks(r, AllSaid) /\ AllSaid \in Talk
<1>1. C \subseteq AllSaid
  BY DEF Talk
<1>2. Said(C) \subseteq Said(AllSaid)
  BY <1>1 DEF Said
<1>3. Seq(Said(C)) \subseteq Seq(Said(AllSaid))
  BY <1>2, Wider
<1> QED BY <1>1, <1>2, <1>3 DEF Talks, Talk
-----------------------------------------------------------------------------
(* The way of an address *)

Ads == [Slaves -> SUBSET Ips]
addressesOf(Ad, s) == Ad[s] \cup {Dhcp(s)}
Disjoint(Ad) == \A s, t \in Slaves : Ad[s] \cap Ad[t] # {} => Ad[s] = Ad[t]

NodesFor(Ad) ==
  UNION {[ip : addressesOf(Ad, s), node : NodeOf(Ad[s])] : s \in Slaves}
SentBy(Ad, s) == [code : Codes(s), from : addressesOf(Ad, s)]

Safe(Ad) ==
  /\ \A s \in Slaves : ident[s].ip \in Ad[s] \cup {NoIp}
  /\ \A s \in Slaves : inbox[s] \in Seq(Addressed(Ad[s]))
  /\ \A s \in Slaves : outbox[s] \in Seq(SentBy(Ad, s))
  /\ nodes \in Seq(NodesFor(Ad))

Kinds ==
  /\ pairing \in BOOLEAN
  /\ baseIp \in FirstIp .. FirstIp + MaxIps
  /\ Len(nodes) <= MaxNodes
  /\ ident \in [Slaves -> [ip : Ips \cup {NoIp}, ssid : Networks, new : BOOLEAN]]
  /\ DOMAIN slave = Slaves /\ DOMAIN inbox = Slaves /\ DOMAIN outbox = Slaves
  /\ \A s \in Slaves : Talks(slave[s], Codes(s)) /\ slave[s].udp = <<>>

\* A slave that knows the network may get any address, another slave none.
Named ==
  \E Ad \in Ads :
    /\ \A s \in Slaves : Ad[s] = IF ident[s].ssid = "own" THEN Ips ELSE {}
    /\ Safe(Ad)

\* The addresses given to each slave are its own.
Given ==
  \E Ad \in Ads :
    /\ \A s, t \in Slaves : s # t => Ad[s] \cap Ad[t] = {}
    /\ \A s \in Slaves : \A a \in Ad[s] : a <= baseIp
    /\ Safe(Ad)
Distinct == \A i, j \in DOMAIN nodes : i # j => nodes[i].ip # nodes[j].ip

IInv == Kinds /\ Named /\ (fresh => Given /\ Distinct)
-----------------------------------------------------------------------------
\* The last byte of a count is a byte, and the count itself while that fits.
LEMMA LastByte ==
  ASSUME NEW n \in Nat
  PROVE  /\ lastByte(n) \in 0 .. ByteWidth - 1
         /\ n < ByteWidth => lastByte(n) = n
<1>1. ByteWidth \in Nat /\ ByteWidth > 0
  BY PairingConstants DEF PairingConstants
<1> QED BY <1>1 DEF lastByte

LEMMA Numbers ==
  /\ Slaves \subseteq Nat \ {0} /\ Ips \subseteq Nat /\ NoIp \in Nat
  /\ FirstIp \in Nat /\ MaxIps \in Nat /\ NoIp \notin Ips
  /\ \A s \in Slaves : Dhcp(s) \in Int /\ Dhcp(s) \notin Ips /\ Dhcp(s) # NoIp
  /\ \A s, t \in Slaves : Dhcp(s) = Dhcp(t) => s = t
  /\ Ips \subseteq Int /\ ByteWidth \in Nat
<1>1. /\ Slaves \subseteq Nat \ {0} /\ ByteWidth \in Nat /\ FirstIp \in Nat
      /\ MaxIps \in Nat
  BY PairingConstants DEF PairingConstants
<1>2. \A n \in FirstIp + 1 .. FirstIp + MaxIps : lastByte(n) \in 0 .. ByteWidth - 1
  BY <1>1, LastByte
<1>3. Ips \subseteq 0 .. ByteWidth - 1
  BY <1>2 DEF Ips
<1> QED BY <1>1, <1>3 DEF NoIp, Dhcp

\* Two slaves that may have the same address may have all the same.
LEMMA SameAddress ==
  ASSUME NEW Ad \in Ads, Disjoint(Ad), NEW s \in Slaves, NEW t \in Slaves,
         NEW ip \in addressesOf(Ad, s), ip \in addressesOf(Ad, t)
  PROVE  Ad[s] = Ad[t]
<1>1. Ad[s] \subseteq Ips /\ Ad[t] \subseteq Ips
  BY DEF Ads
<1>2. CASE ip \in Ips
  BY <1>2, Numbers DEF addressesOf, Disjoint
<1>3. CASE ip \notin Ips
  BY <1>1, <1>3, Numbers DEF addressesOf
<1> QED BY <1>2, <1>3

LEMMA AddressIsOwn ==
  ASSUME NEW Ad \in Ads, Safe(Ad), NEW s \in Slaves
  PROVE  address(s) \in addressesOf(Ad, s) /\ address(s) # NoIp
BY Numbers DEF Safe, address, addressesOf

\* What is safe with some addresses is safe with more.
LEMMA SafeWithMore ==
  ASSUME NEW Ad \in Ads, NEW Bd \in Ads, \A s \in Slaves : Ad[s] \subseteq Bd[s],
         Safe(Ad)
  PROVE  Safe(Bd)
<1>1. \A s \in Slaves : ident[s].ip \in Bd[s] \cup {NoIp}
  BY DEF Safe
<1>2. \A s \in Slaves : inbox[s] \in Seq(Addressed(Bd[s]))
  BY NodeWider DEF Safe
<1>3. ASSUME NEW s \in Slaves PROVE outbox[s] \in Seq(SentBy(Bd, s))
  <2>1. SentBy(Ad, s) \subseteq SentBy(Bd, s)
    BY DEF SentBy, addressesOf
  <2> QED BY <2>1, Wider DEF Safe
<1>4. nodes \in Seq(NodesFor(Bd))
  <2>1. ASSUME NEW s \in Slaves
        PROVE  [ip : addressesOf(Ad, s), node : NodeOf(Ad[s])]
                 \subseteq [ip : addressesOf(Bd, s), node : NodeOf(Bd[s])]
    BY NodeWider DEF addressesOf
  <2>2. NodesFor(Ad) \subseteq NodesFor(Bd)
    BY <2>1 DEF NodesFor
  <2> QED BY <2>2, Wider DEF Safe
<1> QED BY <1>1, <1>2, <1>3, <1>4 DEF Safe

\* What a node sends is for the slave that has its address.
LEMMA DeliveredIsSafe ==
  ASSUME NEW Ad \in Ads, Disjoint(Ad), Safe(Ad), Kinds,
         NEW s \in Slaves, NEW ip \in addressesOf(Ad, s), NEW n \in NodeOf(Ad[s])
  PROVE  /\ DOMAIN delivered(n, ip) = Slaves
         /\ \A t \in Slaves : delivered(n, ip)[t] \in Seq(Addressed(Ad[t]))
<1> SUFFICES ASSUME NEW t \in Slaves
             PROVE  delivered(n, ip)[t] \in Seq(Addressed(Ad[t]))
  BY DEF delivered
<1>1. inbox[t] \in Seq(Addressed(Ad[t]))
  BY DEF Safe
<1>2. CASE address(t) = ip
  <2>1. Ad[s] = Ad[t]
    BY <1>2, AddressIsOwn, SameAddress
  <2>2. n.udp \in Seq(Addressed(Ad[t]))
    BY <2>1 DEF NodeOf
  <2>3. inbox[t] \o n.udp \in Seq(Addressed(Ad[t]))
    BY <1>1, <2>2, ConcatProperties
  <2> QED BY <1>1, <2>3 DEF delivered
<1>3. CASE address(t) # ip
  BY <1>1, <1>3 DEF delivered
<1> QED BY <1>2, <1>3

\* A datagram that arrived is gone.
LEMMA ReceivedIsSafe ==
  ASSUME NEW Ad \in Ads, Safe(Ad), Kinds, NEW s \in Slaves, outbox[s] # <<>>,
         received(s), UNCHANGED ident
  PROVE  /\ DOMAIN outbox' = Slaves
         /\ \A t \in Slaves : outbox'[t] \in Seq(SentBy(Ad, t)')
<1>1. \A t \in Slaves : SentBy(Ad, t)' = SentBy(Ad, t) /\ outbox[t] \in Seq(SentBy(Ad, t))
  BY DEF SentBy, Codes, Safe
<1>2. Tail(outbox[s]) \in Seq(SentBy(Ad, s))
  BY <1>1
<1> QED BY <1>1, <1>2 DEF received, Kinds

LEMMA HeadOfOutbox ==
  ASSUME NEW Ad \in Ads, Safe(Ad), NEW s \in Slaves, outbox[s] # <<>>
  PROVE  /\ Head(outbox[s]).code \in Codes(s)
         /\ Head(outbox[s]).from \in addressesOf(Ad, s)
<1>1. Head(outbox[s]) \in SentBy(Ad, s)
  BY DEF Safe
<1> QED BY <1>1 DEF SentBy, Codes

\* A node that getNode finds is there and has the address.
LEMMA NodeIsFound ==
  ASSUME NEW Ad \in Ads, Safe(Ad), NEW ip, known(ip) # {}
  PROVE  getNode(ip) \in DOMAIN nodes /\ nodes[getNode(ip)].ip = ip
<1>1. \E i \in known(ip) : \A j \in known(ip) : i <= j
  <2>1. known(ip) \subseteq 1 .. Len(nodes) /\ Len(nodes) \in Nat
    BY DEF known, Safe
  <2> DEFINE Less == {p \in Nat \X Nat : p[1] < p[2]}
  <2>2. IsWellFoundedOn(Less, Nat)
    BY NatLessThanWellFounded DEF OpToRel
  <2>3. known(ip) \subseteq Nat
    BY <2>1
  <2>4. PICK i \in known(ip) : \A j \in known(ip) : ~(<<j, i>> \in Less)
    <3> HIDE DEF Less
    <3> QED BY <2>2, <2>3, WFMin
  <2>5. \A j \in known(ip) : ~(j < i)
    BY <2>3, <2>4
  <2> QED BY <2>3, <2>5
<1> QED BY <1>1 DEF getNode, known

LEMMA NodeHasOwner ==
  ASSUME NEW Ad \in Ads, Safe(Ad), NEW i \in DOMAIN nodes
  PROVE  \E s \in Slaves : nodes[i].ip \in addressesOf(Ad, s)
                           /\ nodes[i].node \in NodeOf(Ad[s])
<1>1. nodes[i] \in NodesFor(Ad)
  BY DEF Safe
<1> QED BY <1>1 DEF NodesFor
-----------------------------------------------------------------------------
(* The steps keep Safe(Ad) *)

LEMMA NodeIsReplaced ==
  ASSUME NEW Ad \in Ads, Safe(Ad), NEW i \in DOMAIN nodes,
         NEW s \in Slaves, NEW ip \in addressesOf(Ad, s), NEW n \in NodeOf(Ad[s]),
         nodes' = [nodes EXCEPT ![i] = [ip |-> ip, node |-> n]]
  PROVE  nodes' \in Seq(NodesFor(Ad)) /\ Len(nodes') = Len(nodes)
<1>1. [ip |-> ip, node |-> n] \in NodesFor(Ad)
  BY DEF NodesFor
<1>2. nodes \in Seq(NodesFor(Ad)) /\ i \in 1 .. Len(nodes)
  BY DEF Safe
<1> QED BY <1>1, <1>2, ExceptSeq

LEMMA MasterSendsSafely ==
  ASSUME NEW Ad \in Ads, Disjoint(Ad), Safe(Ad), Kinds, NEW i \in DOMAIN nodes,
         NEW s \in Slaves, nodes[i].ip \in addressesOf(Ad, s),
         NEW ip \in addressesOf(Ad, s), NEW n \in NodeOf(Ad[s]),
         masterSends(i, n, ip)
  PROVE  /\ DOMAIN inbox' = Slaves
         /\ \A t \in Slaves : inbox'[t] \in Seq(Addressed(Ad[t]))
         /\ nodes' \in Seq(NodesFor(Ad)) /\ Len(nodes') = Len(nodes)
<1>1. inbox' = delivered(n, nodes[i].ip)
  BY DEF masterSends
<1>2. /\ DOMAIN inbox' = Slaves
      /\ \A t \in Slaves : inbox'[t] \in Seq(Addressed(Ad[t]))
  BY <1>1, DeliveredIsSafe
<1>3. emptied(n) \in NodeOf(Ad[s])
  BY NodeIsCleared
<1>4. nodes' = [nodes EXCEPT ![i] = [ip |-> ip, node |-> emptied(n)]]
  BY DEF masterSends
<1> QED BY <1>2, <1>3, <1>4, NodeIsReplaced

\* A node answers or asks, and keeps its address.
LEMMA NodeStepIsSafe ==
  ASSUME NEW Ad \in Ads, Disjoint(Ad), Safe(Ad), Kinds, NEW i \in DOMAIN nodes,
         NEW n, \A A : nodes[i].node \in NodeOf(A) => n \in NodeOf(A),
         masterSends(i, n, nodes[i].ip), UNCHANGED ident,
         DOMAIN outbox' = Slaves,
         \A t \in Slaves : outbox'[t] \in Seq(SentBy(Ad, t)')
  PROVE  Safe(Ad)' /\ DOMAIN inbox' = Slaves /\ Len(nodes') = Len(nodes)
<1>1. PICK s \in Slaves : /\ nodes[i].ip \in addressesOf(Ad, s)
                          /\ nodes[i].node \in NodeOf(Ad[s])
  BY NodeHasOwner
<1>2. n \in NodeOf(Ad[s])
  BY <1>1
<1>3. /\ DOMAIN inbox' = Slaves
      /\ \A t \in Slaves : inbox'[t] \in Seq(Addressed(Ad[t]))
      /\ nodes' \in Seq(NodesFor(Ad)) /\ Len(nodes') = Len(nodes)
  BY <1>1, <1>2, MasterSendsSafely
<1>4. \A t \in Slaves : ident'[t].ip \in Ad[t] \cup {NoIp}
  BY DEF Safe
<1> QED BY <1>3, <1>4 DEF Safe

LEMMA OutboxStays ==
  ASSUME NEW Ad \in Ads, Safe(Ad), Kinds, UNCHANGED <<outbox, ident>>
  PROVE  /\ DOMAIN outbox' = Slaves
         /\ \A t \in Slaves : outbox'[t] \in Seq(SentBy(Ad, t)')
BY DEF Safe, Kinds, SentBy, Codes

LEMMA ReceiveIsSafe ==
  ASSUME NEW Ad \in Ads, Disjoint(Ad), Safe(Ad), Kinds, NEW s \in Slaves, Receive(s)
  PROVE  /\ Safe(Ad)' /\ DOMAIN inbox' = Slaves /\ DOMAIN outbox' = Slaves
         /\ Len(nodes') = Len(nodes)
<1> DEFINE d == Head(outbox[s])
           i == getNode(d.from)
           n == IF pairing THEN paired(nodes[i].node, d.code)
                ELSE handledNormally(nodes[i].node, d.code)
<1>1. outbox[s] # <<>> /\ known(d.from) # {} /\ received(s) /\ UNCHANGED ident
  BY DEF Receive, slaveVars
<1>2. masterSends(i, n, nodes[i].ip)
  BY DEF Receive
<1>3. i \in DOMAIN nodes
  BY <1>1, NodeIsFound
<1>4. \A A : nodes[i].node \in NodeOf(A) => n \in NodeOf(A)
  BY NodeIsPaired
<1>5. /\ DOMAIN outbox' = Slaves
      /\ \A t \in Slaves : outbox'[t] \in Seq(SentBy(Ad, t)')
  BY <1>1, ReceivedIsSafe
<1> HIDE DEF n, i, d
<1> QED BY <1>1, <1>2, <1>3, <1>4, <1>5, NodeStepIsSafe

LEMMA CheckIsSafe ==
  ASSUME NEW Ad \in Ads, Disjoint(Ad), Safe(Ad), Kinds, NEW i \in DOMAIN nodes,
         CheckSentPackets(i) \/ CheckNodeStatus(i)
  PROVE  Safe(Ad)' /\ DOMAIN inbox' = Slaves /\ Len(nodes') = Len(nodes)
<1>1. UNCHANGED <<outbox, ident>>
  BY DEF CheckSentPackets, CheckNodeStatus, slaveVars
<1>2. CASE CheckSentPackets(i)
  <2>1. masterSends(i, checkSentPackets(nodes[i].node), nodes[i].ip)
    BY <1>2 DEF CheckSentPackets
  <2> QED BY <1>1, <2>1, OutboxStays, NodeResends, NodeStepIsSafe
<1>3. CASE CheckNodeStatus(i)
  <2>1. masterSends(i, sendPacket(nodes[i].node, message("STATE")), nodes[i].ip)
    BY <1>3 DEF CheckNodeStatus
  <2>2. \A A : nodes[i].node \in NodeOf(A) =>
                 sendPacket(nodes[i].node, message("STATE")) \in NodeOf(A)
    BY MessageIsAddressed, NodeSends
  <2> QED BY <1>1, <2>1, <2>2, OutboxStays, NodeStepIsSafe
<1> QED BY <1>2, <1>3

LEMMA SendNewIpIsSafe ==
  ASSUME NEW Ad \in Ads, Disjoint(Ad), Safe(Ad), Kinds, NEW s \in Slaves,
         SendNewIp(s), lastByte(baseIp + 1) \in Ad[s]
  PROVE  /\ Safe(Ad)' /\ DOMAIN inbox' = Slaves /\ DOMAIN outbox' = Slaves
         /\ Len(nodes') = Len(nodes)
<1> DEFINE ip == Head(outbox[s]).from
           i == getNode(ip)
           n == sendPacket(nodes[i].node, datagram("IP", lastByte(baseIp + 1)))
<1>1. outbox[s] # <<>> /\ known(ip) # {} /\ received(s) /\ UNCHANGED ident
  BY DEF SendNewIp, slaveVars
<1>2. masterSends(i, n, lastByte(baseIp + 1))
  BY DEF SendNewIp
<1>3. i \in DOMAIN nodes /\ nodes[i].ip = ip
  BY <1>1, NodeIsFound
<1>4. ip \in addressesOf(Ad, s)
  BY <1>1, HeadOfOutbox
<1> HIDE DEF ip, i
<1>5. nodes[i].node \in NodeOf(Ad[s])
  <2>1. PICK t \in Slaves : /\ nodes[i].ip \in addressesOf(Ad, t)
                            /\ nodes[i].node \in NodeOf(Ad[t])
    BY <1>3, NodeHasOwner
  <2>2. Ad[t] = Ad[s]
    BY <2>1, <1>3, <1>4, SameAddress
  <2> QED BY <2>1, <2>2
<1>6. datagram("IP", lastByte(baseIp + 1)) \in Addressed(Ad[s])
  <2>1. lastByte(baseIp + 1) \in Int
    BY Numbers DEF Ads
  <2> QED BY <2>1 DEF datagram, Addressed, AllCodes
<1>7. n \in NodeOf(Ad[s])
  BY <1>5, <1>6, NodeSends
<1>8. lastByte(baseIp + 1) \in addressesOf(Ad, s)
  BY DEF addressesOf
<1> HIDE DEF n
<1>9. /\ DOMAIN inbox' = Slaves
      /\ \A t \in Slaves : inbox'[t] \in Seq(Addressed(Ad[t]))
      /\ nodes' \in Seq(NodesFor(Ad)) /\ Len(nodes') = Len(nodes)
  BY <1>2, <1>3, <1>4, <1>7, <1>8, MasterSendsSafely
<1>10. /\ DOMAIN outbox' = Slaves
       /\ \A t \in Slaves : outbox'[t] \in Seq(SentBy(Ad, t)')
  BY <1>1, ReceivedIsSafe
<1>11. \A t \in Slaves : ident'[t].ip \in Ad[t] \cup {NoIp}
  BY <1>1 DEF Safe
<1> QED BY <1>9, <1>10, <1>11 DEF Safe

LEMMA RegisterIsSafe ==
  ASSUME NEW Ad \in Ads, Disjoint(Ad), Safe(Ad), Kinds, NEW s \in Slaves, Register(s)
  PROVE  /\ Safe(Ad)' /\ DOMAIN inbox' = Slaves /\ DOMAIN outbox' = Slaves
         /\ Len(nodes') <= MaxNodes
<1> DEFINE ip == Head(outbox[s]).from
<1>1. outbox[s] # <<>> /\ received(s) /\ UNCHANGED ident
  BY DEF Register, slaveVars
<1>2. ip \in addressesOf(Ad, s)
  BY <1>1, HeadOfOutbox
<1>3. \/ UNCHANGED <<nodes, inbox>>
      \/ /\ Len(nodes) < MaxNodes
         /\ nodes' = Append(nodes, [ip |-> ip, node |-> NewNode])
         /\ inbox' = delivered(sendAck(NewNode), ip)
  BY DEF Register
<1> HIDE DEF ip
<1>4. /\ DOMAIN outbox' = Slaves
      /\ \A t \in Slaves : outbox'[t] \in Seq(SentBy(Ad, t)')
      /\ \A t \in Slaves : ident'[t].ip \in Ad[t] \cup {NoIp}
  BY <1>1, ReceivedIsSafe DEF Safe
<1>5. CASE UNCHANGED <<nodes, inbox>>
  BY <1>4, <1>5 DEF Safe, Kinds
<1>6. CASE /\ Len(nodes) < MaxNodes
           /\ nodes' = Append(nodes, [ip |-> ip, node |-> NewNode])
           /\ inbox' = delivered(sendAck(NewNode), ip)
  <2>1. NewNode \in NodeOf(Ad[s]) /\ sendAck(NewNode) \in NodeOf(Ad[s])
    BY NodeIsNew, NodeAcknowledges
  <2>2. [ip |-> ip, node |-> NewNode] \in NodesFor(Ad)
    BY <1>2, <2>1 DEF NodesFor
  <2>3. nodes \in Seq(NodesFor(Ad)) /\ MaxNodes \in Nat
    BY PairingConstants DEF Safe, PairingConstants
  <2>4. nodes' \in Seq(NodesFor(Ad)) /\ Len(nodes') <= MaxNodes
    BY <1>6, <2>2, <2>3
  <2>5. /\ DOMAIN inbox' = Slaves
        /\ \A t \in Slaves : inbox'[t] \in Seq(Addressed(Ad[t]))
    BY <1>2, <1>6, <2>1, DeliveredIsSafe
  <2> QED BY <1>4, <2>4, <2>5 DEF Safe
<1> QED BY <1>3, <1>5, <1>6

LEMMA IgnoreIsSafe ==
  ASSUME NEW Ad \in Ads, Safe(Ad), Kinds, NEW s \in Slaves, Ignore(s)
  PROVE  Safe(Ad)' /\ DOMAIN outbox' = Slaves
<1>1. outbox[s] # <<>> /\ received(s) /\ UNCHANGED <<ident, nodes, inbox>>
  BY DEF Ignore, masterVars, slaveVars
<1>2. /\ DOMAIN outbox' = Slaves
      /\ \A t \in Slaves : outbox'[t] \in Seq(SentBy(Ad, t)')
  BY <1>1, ReceivedIsSafe
<1> QED BY <1>1, <1>2 DEF Safe

LEMMA MasterStartsSafely ==
  ASSUME NEW Ad \in Ads, Safe(Ad), Kinds, StartPairing \/ EndPairing \/ Restart
  PROVE  Safe(Ad)' /\ Len(nodes') <= MaxNodes
<1>1. UNCHANGED <<ident, inbox, outbox>>
  BY DEF StartPairing, EndPairing, Restart
<1>2. /\ \A t \in Slaves : outbox'[t] \in Seq(SentBy(Ad, t)')
      /\ \A t \in Slaves : ident'[t].ip \in Ad[t] \cup {NoIp}
      /\ \A t \in Slaves : inbox'[t] \in Seq(Addressed(Ad[t]))
  BY <1>1, OutboxStays DEF Safe
<1>3. nodes' \in Seq(NodesFor(Ad)) /\ Len(nodes') <= MaxNodes
  <2>1. CASE nodes' = <<>>
    <3>1. MaxNodes \in Nat /\ Len(<<>>) = 0
      BY PairingConstants DEF PairingConstants
    <3> QED BY <2>1, <3>1
  <2>2. CASE EndPairing
    <3>1. nodes' = [i \in DOMAIN nodes |-> [nodes[i] EXCEPT !.node.pending = <<>>]]
      BY <2>2 DEF EndPairing
    <3>2. nodes \in Seq(NodesFor(Ad)) /\ DOMAIN nodes = 1 .. Len(nodes)
          /\ Len(nodes) \in Nat /\ Len(nodes) <= MaxNodes
      BY DEF Safe, Kinds
    <3>3. ASSUME NEW i \in DOMAIN nodes
          PROVE  [nodes[i] EXCEPT !.node.pending = <<>>] \in NodesFor(Ad)
      <4>1. PICK s \in Slaves :
              nodes[i] \in [ip : addressesOf(Ad, s), node : NodeOf(Ad[s])]
        BY <3>2 DEF NodesFor
      <4>2. [nodes[i].node EXCEPT !.pending = <<>>] \in NodeOf(Ad[s])
        BY <4>1, NodeIsCleared
      <4>3. [nodes[i] EXCEPT !.node.pending = <<>>]
              \in [ip : addressesOf(Ad, s), node : NodeOf(Ad[s])]
        BY <4>1, <4>2
      <4> QED BY <4>3 DEF NodesFor
    <3>4. nodes' \in [1 .. Len(nodes) -> NodesFor(Ad)]
      BY <3>1, <3>2, <3>3
    <3> QED BY <3>2, <3>4, SeqDef
  <2> QED BY <2>1, <2>2 DEF StartPairing, Restart
<1> QED BY <1>2, <1>3 DEF Safe
-----------------------------------------------------------------------------
(* The steps of the slaves *)

\* What a slave says goes out with its address.
LEMMA SlaveSendsSafely ==
  ASSUME NEW Ad \in Ads, Safe(Ad), Kinds, NEW s \in Slaves, NEW new,
         Talks(new, Codes(s)'), slaveSends(s, new),
         \A t \in Slaves : Codes(t) \subseteq Codes(t)'
  PROVE  /\ DOMAIN outbox' = Slaves
         /\ \A t \in Slaves : outbox'[t] \in Seq(SentBy(Ad, t)')
         /\ DOMAIN slave' = Slaves
         /\ \A t \in Slaves : Talks(slave'[t], Codes(t)') /\ slave'[t].udp = <<>>
<1> DEFINE out == [k \in DOMAIN new.udp |->
                     [code |-> new.udp[k].code, from |-> address(s)]]
<1>1. /\ outbox' = [outbox EXCEPT ![s] = @ \o out]
      /\ slave' = [slave EXCEPT ![s] = [new EXCEPT !.udp = <<>>]]
  BY DEF slaveSends
<1>2. \A t \in Slaves : SentBy(Ad, t)' = [code : Codes(t)', from : addressesOf(Ad, t)]
  BY DEF SentBy
<1>3. ASSUME NEW t \in Slaves PROVE outbox[t] \in Seq(SentBy(Ad, t)')
  <2>1. SentBy(Ad, t) \subseteq SentBy(Ad, t)'
    BY <1>2 DEF SentBy
  <2> QED BY <2>1, Wider DEF Safe
<1>4. out \in Seq(SentBy(Ad, s)')
  <2>1. new.udp \in Seq(Said(Codes(s)'))
    BY DEF Talks
  <2>2. ASSUME NEW k \in DOMAIN new.udp
        PROVE  [code |-> new.udp[k].code, from |-> address(s)] \in SentBy(Ad, s)'
    <3>1. new.udp[k] \in Said(Codes(s)')
      BY <2>1
    <3> QED BY <3>1, <1>2, AddressIsOwn DEF Said
  <2>3. DOMAIN new.udp = 1 .. Len(new.udp) /\ Len(new.udp) \in Nat
    BY <2>1
  <2>4. out \in [DOMAIN new.udp -> SentBy(Ad, s)']
    BY <2>2
  <2> HIDE DEF out
  <2>5. \A S, n : n \in Nat => [1 .. n -> S] \subseteq Seq(S)
    BY SeqDef
  <2> QED BY <2>3, <2>4, <2>5
<1> HIDE DEF out
<1>5. outbox[s] \o out \in Seq(SentBy(Ad, s)')
  BY <1>3, <1>4, ConcatProperties
<1>6. /\ DOMAIN outbox' = Slaves
      /\ \A t \in Slaves : outbox'[t] \in Seq(SentBy(Ad, t)')
  BY <1>1, <1>3, <1>5 DEF Kinds
<1>7. Codes(s)' \in Talk /\ \A t \in Slaves : Codes(t)' \in Talk
  BY DEF Codes, Talk
<1>8. Talks([new EXCEPT !.udp = <<>>], Codes(s)') /\ [new EXCEPT !.udp = <<>>].udp = <<>>
  <2>1. Talks([new EXCEPT !.udp = <<>>], Codes(s)')
    BY <1>7, SlaveKeepsTalking
  <2> QED BY <2>1 DEF Talks, SlaveFields
<1>9. ASSUME NEW t \in Slaves, t # s
      PROVE  Talks(slave[t], Codes(t)') /\ slave[t].udp = <<>>
  <2>1. Talks(slave[t], Codes(t)) /\ slave[t].udp = <<>>
    BY DEF Kinds
  <2>2. Codes(t)' = Codes(t) \/ Codes(t)' = AllSaid
    BY DEF Codes
  <2> QED BY <2>1, <2>2, Words, SlaveMaySayAll
<1>10. DOMAIN slave' = Slaves
       /\ \A t \in Slaves : Talks(slave'[t], Codes(t)') /\ slave'[t].udp = <<>>
  BY <1>1, <1>8, <1>9 DEF Kinds
<1> QED BY <1>6, <1>10

\* Together with what the step does to the stored address and the datagrams.
LEMMA SlaveStepIsSafe ==
  ASSUME NEW Ad \in Ads, Safe(Ad), Kinds, NEW s \in Slaves, NEW new,
         Talks(new, Codes(s)'), slaveSends(s, new), UNCHANGED masterVars,
         \A t \in Slaves : Codes(t) \subseteq Codes(t)',
         ident' \in [Slaves -> [ip : Ips \cup {NoIp}, ssid : Networks, new : BOOLEAN]],
         \A t \in Slaves : ident'[t].ip \in Ad[t] \cup {NoIp},
         DOMAIN inbox' = Slaves,
         \A t \in Slaves : inbox'[t] \in Seq(Addressed(Ad[t]))
  PROVE  Safe(Ad)' /\ Kinds'
<1>1. UNCHANGED <<pairing, nodes, baseIp>>
  BY DEF masterVars
<1>2. /\ DOMAIN outbox' = Slaves
      /\ \A t \in Slaves : outbox'[t] \in Seq(SentBy(Ad, t)')
      /\ DOMAIN slave' = Slaves
      /\ \A t \in Slaves : Talks(slave'[t], Codes(t)') /\ slave'[t].udp = <<>>
  BY SlaveSendsSafely
<1> QED BY <1>1, <1>2 DEF Safe, Kinds

\* A datagram to a slave is taken.
LEMMA TakenIsSafe ==
  ASSUME NEW Ad \in Ads, Safe(Ad), Kinds, NEW s \in Slaves, inbox[s] # <<>>, taken(s)
  PROVE  /\ DOMAIN inbox' = Slaves
         /\ \A t \in Slaves : inbox'[t] \in Seq(Addressed(Ad[t]))
<1>1. inbox[s] \in Seq(Addressed(Ad[s]))
  BY DEF Safe
<1>2. Tail(inbox[s]) \in Seq(Addressed(Ad[s]))
  <2>1. \A S : \A q \in Seq(S) : q # <<>> => Tail(q) \in Seq(S)
    OBVIOUS
  <2> QED BY <1>1, <2>1
<1> QED BY <1>2 DEF taken, Safe, Kinds

LEMMA IdentStays ==
  ASSUME NEW Ad \in Ads, Safe(Ad), Kinds, UNCHANGED ident
  PROVE  /\ ident' \in [Slaves -> [ip : Ips \cup {NoIp}, ssid : Networks, new : BOOLEAN]]
         /\ \A t \in Slaves : ident'[t].ip \in Ad[t] \cup {NoIp}
         /\ \A t \in Slaves : Codes(t)' = Codes(t)
BY DEF Safe, Kinds, Codes

LEMMA InboxStays ==
  ASSUME NEW Ad \in Ads, Safe(Ad), Kinds, UNCHANGED inbox
  PROVE  /\ DOMAIN inbox' = Slaves
         /\ \A t \in Slaves : inbox'[t] \in Seq(Addressed(Ad[t]))
BY DEF Safe, Kinds

LEMMA SlaveTalks ==
  ASSUME Kinds, NEW s \in Slaves
  PROVE  Talks(slave[s], Codes(s)) /\ Codes(s) \in Talk
BY Words DEF Kinds

\* The steps that send, from a timer.
LEMMA TimedIsSafe ==
  ASSUME NEW Ad \in Ads, Safe(Ad), Kinds, NEW s \in Slaves,
         Join(s) \/ AskAgain(s) \/ Resend(s)
  PROVE  Safe(Ad)' /\ Kinds'
<1>1. UNCHANGED masterVars /\ UNCHANGED ident /\ UNCHANGED inbox
  BY DEF Join, AskAgain, Resend
<1>2. PICK new : slaveSends(s, new) /\ Talks(new, Codes(s))
  <2>1. CASE Join(s)
    <3>1. Talks(connectToMaster(freeResendAlarm(slave[s])), Codes(s))
      BY SlaveTalks, SlaveKeepsTalking, SlaveConnects
    <3> QED BY <2>1, <3>1 DEF Join
  <2>2. CASE AskAgain(s)
    <3>1. Talks(sendMessage(slave[s], "CONNECTION"), Codes(s))
      BY SlaveTalks, Words, SlaveSendsMessage
    <3>2. Talks([sendMessage(slave[s], "CONNECTION") EXCEPT !.retried = TRUE], Codes(s))
      BY <3>1, SlaveTalks, SlaveKeepsTalking
    <3> QED BY <2>2, <3>2 DEF AskAgain
  <2>3. CASE Resend(s)
    <3>1. PICK t \in slave[s].timers :
            slaveSends(s, resendLastMessage([slave[s] EXCEPT !.timers = @ \ {t}]))
      BY <2>3 DEF Resend
    <3>2. Talks([slave[s] EXCEPT !.timers = @ \ {t}], Codes(s))
      BY SlaveTalks, SlaveKeepsTalking
    <3>3. Talks(resendLastMessage([slave[s] EXCEPT !.timers = @ \ {t}]), Codes(s))
      BY <3>2, SlaveTalks, SlaveRepeats
    <3> QED BY <3>1, <3>3
  <2> QED BY <2>1, <2>2, <2>3
<1>3. /\ ident' \in [Slaves -> [ip : Ips \cup {NoIp}, ssid : Networks, new : BOOLEAN]]
      /\ \A t \in Slaves : ident'[t].ip \in Ad[t] \cup {NoIp}
      /\ \A t \in Slaves : Codes(t)' = Codes(t)
  BY <1>1, IdentStays
<1>4. /\ DOMAIN inbox' = Slaves
      /\ \A t \in Slaves : inbox'[t] \in Seq(Addressed(Ad[t]))
  BY <1>1, InboxStays
<1>5. Talks(new, Codes(s)')
  BY <1>2, <1>3
<1> QED BY <1>1, <1>2, <1>3, <1>4, <1>5, SlaveStepIsSafe

\* The first datagram of a connection, and the ones that are just handled.
LEMMA HeardIsSafe ==
  ASSUME NEW Ad \in Ads, Safe(Ad), Kinds, NEW s \in Slaves, Connected(s) \/ Hear(s)
  PROVE  Safe(Ad)' /\ Kinds'
<1>1. UNCHANGED masterVars /\ inbox[s] # <<>> /\ taken(s)
  BY DEF Connected, Hear
<1>2. ident' = ident \/ ident' = [ident EXCEPT ![s].new = FALSE]
  BY DEF Connected, Hear
<1>3. PICK new : slaveSends(s, new) /\ Talks(new, Codes(s))
  <2> DEFINE code == Head(inbox[s]).code
             answered == IF code = "RECEIVED"
                         THEN [slave[s] EXCEPT !.masterState = "RUNNING"] ELSE slave[s]
             asked == [sendMessage(answered, "WIFI") EXCEPT
                         !.mode = "RUNNING", !.retried = FALSE]
  <2>1. CASE Connected(s)
    <3>1. slaveSends(s, asked) \/ slaveSends(s, connected(slave[s], code))
      BY <2>1 DEF Connected
    <3>2. Talks(answered, Codes(s))
      BY SlaveTalks, SlaveKeepsTalking
    <3> HIDE DEF answered
    <3>3. Talks(sendMessage(answered, "WIFI"), Codes(s))
      BY <3>2, SlaveTalks, Words, SlaveSendsMessage
    <3>4. Talks(asked, Codes(s))
      BY <3>3, SlaveTalks, Words, SlaveKeepsTalking
    <3> HIDE DEF asked
    <3>5. Talks(connected(slave[s], code), Codes(s))
      BY SlaveTalks, SlaveConnects
    <3> QED BY <3>1, <3>4, <3>5
  <2>2. CASE Hear(s)
    <3>1. \/ slaveSends(s, sendUnawaited(heard(slave[s]), "RUNNING"))
          \/ slaveSends(s, heard(slave[s]))
      BY <2>2 DEF Hear
    <3>2. Talks(heard(slave[s]), Codes(s))
      BY SlaveTalks, SlaveHears
    <3>3. Talks(sendUnawaited(heard(slave[s]), "RUNNING"), Codes(s))
      BY <3>2, SlaveTalks, Words, SlaveSendsMessage
    <3> QED BY <3>1, <3>2, <3>3
  <2> QED BY <2>1, <2>2
<1>4. /\ ident' \in [Slaves -> [ip : Ips \cup {NoIp}, ssid : Networks, new : BOOLEAN]]
      /\ \A t \in Slaves : ident'[t].ip = ident[t].ip /\ ident'[t].ssid = ident[t].ssid
  <2>1. ident \in [Slaves -> [ip : Ips \cup {NoIp}, ssid : Networks, new : BOOLEAN]]
    BY DEF Kinds
  <2>2. CASE ident' = [ident EXCEPT ![s].new = FALSE]
    BY <2>1, <2>2 DEF Networks
  <2> QED BY <1>2, <2>1, <2>2
<1>5. \A t \in Slaves : /\ ident'[t].ip \in Ad[t] \cup {NoIp}
                        /\ Codes(t)' = Codes(t)
  BY <1>4 DEF Safe, Codes
<1>6. /\ DOMAIN inbox' = Slaves
      /\ \A t \in Slaves : inbox'[t] \in Seq(Addressed(Ad[t]))
  BY <1>1, TakenIsSafe
<1>7. Talks(new, Codes(s)')
  BY <1>3, <1>5
<1> QED BY <1>1, <1>3, <1>4, <1>5, <1>6, <1>7, SlaveStepIsSafe

\* With the name of the network it may ask for an address.
LEMMA StoreNetworkIsSafe ==
  ASSUME NEW Ad \in Ads, Safe(Ad), Kinds, NEW s \in Slaves, StoreNetwork(s)
  PROVE  /\ Safe(Ad)' /\ Kinds'
         /\ \A t \in Slaves : ident'[t].ssid = IF t = s THEN "own" ELSE ident[t].ssid
<1> DEFINE new == sendMessage(ackMaster(heard(slave[s])), "IP")
<1>1. UNCHANGED masterVars /\ inbox[s] # <<>> /\ taken(s) /\ slaveSends(s, new)
      /\ ident' = [ident EXCEPT ![s].ssid = "own"]
  BY DEF StoreNetwork
<1>2. /\ ident' \in [Slaves -> [ip : Ips \cup {NoIp}, ssid : Networks, new : BOOLEAN]]
      /\ \A t \in Slaves : ident'[t].ip = ident[t].ip
      /\ \A t \in Slaves : ident'[t].ssid = IF t = s THEN "own" ELSE ident[t].ssid
  BY <1>1 DEF Kinds, Networks
<1>3. Codes(s)' = AllSaid /\ \A t \in Slaves : Codes(t) \subseteq Codes(t)'
  BY <1>2 DEF Codes
<1>4. Talks(new, AllSaid)
  <2>1. Talks(slave[s], AllSaid) /\ AllSaid \in Talk /\ "IP" \in AllSaid
    BY SlaveTalks, SlaveMaySayAll DEF AllSaid
  <2>2. Talks(ackMaster(heard(slave[s])), AllSaid)
    BY <2>1, SlaveHears, SlaveAcknowledges
  <2> QED BY <2>1, <2>2, SlaveSendsMessage
<1> HIDE DEF new
<1>5. /\ DOMAIN inbox' = Slaves
      /\ \A t \in Slaves : inbox'[t] \in Seq(Addressed(Ad[t]))
  BY <1>1, TakenIsSafe
<1>6. \A t \in Slaves : ident'[t].ip \in Ad[t] \cup {NoIp}
  BY <1>2 DEF Safe
<1>7. Talks(new, Codes(s)')
  BY <1>3, <1>4
<1>8. Safe(Ad)' /\ Kinds'
  BY <1>1, <1>2, <1>3, <1>5, <1>6, <1>7, SlaveStepIsSafe
<1> QED BY <1>2, <1>8

\* The address a slave stores is one that may be on its way to it.
LEMMA StoreIpIsSafe ==
  ASSUME NEW Ad \in Ads, Safe(Ad), Kinds, NEW s \in Slaves, StoreIp(s)
  PROVE  Safe(Ad)' /\ Kinds'
<1> DEFINE ip == Head(inbox[s]).arg
           answered == [ackMaster(heard(slave[s])) EXCEPT !.masterState = "RUNNING"]
           new == leaves(s, freeResendAlarm(answered))
<1>1. UNCHANGED masterVars /\ inbox[s] # <<>> /\ slaveSends(s, new)
      /\ Head(inbox[s]).code = "IP" /\ inbox' = [inbox EXCEPT ![s] = <<>>]
      /\ ident' = [ident EXCEPT ![s].ip = ip, ![s].new = (ip = NoIp)]
  BY DEF StoreIp
<1>2. ip \in Ad[s] /\ Ad[s] \subseteq Ips
  <2>1. Head(inbox[s]) \in Addressed(Ad[s])
    BY <1>1 DEF Safe
  <2> QED BY <1>1, <2>1 DEF Addressed, Ads
<1>3. Talks(new, Codes(s))
  <2>1. Talks(ackMaster(heard(slave[s])), Codes(s))
    BY SlaveTalks, SlaveHears, SlaveAcknowledges
  <2>2. Talks(answered, Codes(s))
    BY <2>1, SlaveTalks, SlaveKeepsTalking
  <2> HIDE DEF answered
  <2> QED BY <2>2, SlaveTalks, SlaveKeepsTalking, SlaveLeaves
<1> HIDE DEF new, ip
<1>4. /\ ident' \in [Slaves -> [ip : Ips \cup {NoIp}, ssid : Networks, new : BOOLEAN]]
      /\ \A t \in Slaves : ident'[t].ip = IF t = s THEN ip ELSE ident[t].ip
      /\ \A t \in Slaves : ident'[t].ssid = ident[t].ssid
  BY <1>1, <1>2 DEF Kinds
<1>5. \A t \in Slaves : /\ ident'[t].ip \in Ad[t] \cup {NoIp}
                        /\ Codes(t)' = Codes(t)
  BY <1>2, <1>4 DEF Safe, Codes
<1>6. /\ DOMAIN inbox' = Slaves
      /\ \A t \in Slaves : inbox'[t] \in Seq(Addressed(Ad[t]))
  <2>1. /\ DOMAIN inbox = Slaves /\ <<>> \in Seq(Addressed(Ad[s]))
        /\ \A t \in Slaves : inbox[t] \in Seq(Addressed(Ad[t]))
    BY DEF Kinds, Safe
  <2> QED BY <1>1, <2>1
<1>7. Talks(new, Codes(s)')
  BY <1>3, <1>5
<1> QED BY <1>1, <1>4, <1>5, <1>6, <1>7, SlaveStepIsSafe

\* The steps that send nothing.
LEMMA SilentIsSafe ==
  ASSUME NEW Ad \in Ads, Safe(Ad), Kinds, NEW s \in Slaves,
         GiveUp(s) \/ CheckMasterStatus(s) \/ NoNetwork(s)
  PROVE  Safe(Ad)' /\ Kinds'
<1>1. UNCHANGED <<pairing, nodes, baseIp, inbox, outbox>>
  BY DEF GiveUp, CheckMasterStatus, NoNetwork, masterVars
<1>2. ident' = ident \/ ident' = [ident EXCEPT ![s].new = (ident[s].ip = NoIp)]
  BY DEF GiveUp, CheckMasterStatus, NoNetwork, reset
<1>3. /\ ident' \in [Slaves -> [ip : Ips \cup {NoIp}, ssid : Networks, new : BOOLEAN]]
      /\ \A t \in Slaves : ident'[t].ip = ident[t].ip /\ ident'[t].ssid = ident[t].ssid
  <2>1. ident \in [Slaves -> [ip : Ips \cup {NoIp}, ssid : Networks, new : BOOLEAN]]
    BY DEF Kinds
  <2> DEFINE b == ident[s].ip = NoIp
  <2>2. b \in BOOLEAN
    OBVIOUS
  <2>3. ident' = ident \/ ident' = [ident EXCEPT ![s].new = b]
    BY <1>2
  <2> HIDE DEF b
  <2>4. CASE ident' = [ident EXCEPT ![s].new = b]
    BY <2>1, <2>2, <2>4 DEF Networks
  <2> QED BY <2>1, <2>3, <2>4
<1>4. \A t \in Slaves : Codes(t)' = Codes(t) /\ SentBy(Ad, t)' = SentBy(Ad, t)
  BY <1>3 DEF Codes, SentBy
<1>5. PICK new : /\ slave' = [slave EXCEPT ![s] = new]
                 /\ Talks(new, Codes(s)) /\ new.udp = <<>>
  <2>1. CASE GiveUp(s) \/ NoNetwork(s)
    <3>1. Talks(PoweredDown(FALSE, <<>>), Codes(s))
      BY SlaveTalks, SlaveStarts
    <3>2. PoweredDown(FALSE, <<>>).udp = <<>>
      BY DEF PoweredDown
    <3> QED BY <2>1, <3>1, <3>2 DEF GiveUp, NoNetwork, reset
  <2>2. CASE CheckMasterStatus(s)
    <3> DEFINE r == slave[s]
               left == [leaves(s, r) EXCEPT !.silent = 1]
               counted == [r EXCEPT !.silent = @ + 1]
    <3>1. \/ slave' = [slave EXCEPT ![s] = left]
          \/ slave' = [slave EXCEPT ![s] = counted]
      <4>1. DOMAIN slave = Slaves
        BY DEF Kinds
      <4>2. CASE r.silent >= SilenceLimit
        BY <2>2, <4>1, <4>2 DEF CheckMasterStatus
      <4>3. CASE ~(r.silent >= SilenceLimit)
        <5>1. slave' = [slave EXCEPT ![s] = [slave[s] EXCEPT !.silent = slave[s].silent + 1]]
          BY <2>2, <4>1, <4>3 DEF CheckMasterStatus
        <5> QED BY <4>1, <5>1
      <4> QED BY <4>2, <4>3
    <3>2. Talks(r, Codes(s)) /\ r.udp = <<>>
      BY SlaveTalks DEF Kinds
    <3> HIDE DEF r
    <3>3. Talks(left, Codes(s)) /\ Talks(counted, Codes(s))
      BY <3>2, SlaveTalks, SlaveLeaves, SlaveKeepsTalking
    <3>4. left.udp = <<>> /\ counted.udp = <<>>
      BY <3>2 DEF leaves, Talks, SlaveFields
    <3> HIDE DEF left, counted
    <3> QED BY <3>1, <3>3, <3>4
  <2> QED BY <2>1, <2>2
<1>6. /\ DOMAIN slave' = Slaves
      /\ \A t \in Slaves : Talks(slave'[t], Codes(t)') /\ slave'[t].udp = <<>>
  BY <1>4, <1>5 DEF Kinds
<1>7. Kinds'
  BY <1>1, <1>3, <1>6 DEF Kinds
<1>8. Safe(Ad)'
  BY <1>1, <1>3, <1>4 DEF Safe
<1> QED BY <1>7, <1>8

LEMMA LoseIsSafe ==
  ASSUME NEW Ad \in Ads, Safe(Ad), Kinds, NEW s \in Slaves, Lose(s)
  PROVE  Safe(Ad)' /\ Kinds'
<1>1. UNCHANGED <<pairing, nodes, baseIp, slave, ident>>
  BY DEF Lose, masterVars, slaveVars
<1>2. /\ DOMAIN inbox' = Slaves /\ DOMAIN outbox' = Slaves
      /\ \A t \in Slaves : inbox'[t] \in Seq(Addressed(Ad[t]))
      /\ \A t \in Slaves : outbox'[t] \in Seq(SentBy(Ad, t)')
  <2>1. CASE inbox[s] # <<>> /\ taken(s) /\ UNCHANGED outbox
    BY <1>1, <2>1, TakenIsSafe, OutboxStays
  <2>2. CASE outbox[s] # <<>> /\ received(s) /\ UNCHANGED inbox
    BY <1>1, <2>2, InboxStays, ReceivedIsSafe
  <2> QED BY <2>1, <2>2 DEF Lose
<1> QED BY <1>1, <1>2, IdentStays DEF Safe, Kinds
-----------------------------------------------------------------------------
(* The kinds of the master's steps *)

LEMMA KindsStay ==
  ASSUME Kinds, UNCHANGED <<slave, ident>>, pairing' \in BOOLEAN,
         baseIp' \in FirstIp .. FirstIp + MaxIps, Len(nodes') <= MaxNodes,
         DOMAIN inbox' = Slaves, DOMAIN outbox' = Slaves
  PROVE  Kinds'
<1>1. \A t \in Slaves : Codes(t)' = Codes(t)
  BY DEF Codes
<1> QED BY <1>1 DEF Kinds

LEMMA StartedKinds ==
  ASSUME NEW Ad \in Ads, Safe(Ad), Kinds, StartPairing \/ EndPairing \/ Restart
  PROVE  Kinds'
<1>1. UNCHANGED <<ident, inbox, outbox>> /\ pairing' \in BOOLEAN
      /\ slave' = [s \in Slaves |-> leaves(s, slave[s])]
  BY DEF StartPairing, EndPairing, Restart
<1>2. baseIp' \in FirstIp .. FirstIp + MaxIps
  <2>1. baseIp' = baseIp \/ baseIp' = FirstIp
    BY DEF StartPairing, EndPairing, Restart
  <2> QED BY <2>1, Numbers DEF Kinds
<1>3. Len(nodes') <= MaxNodes
  BY MasterStartsSafely
<1>4. ASSUME NEW s \in Slaves
      PROVE  Talks(leaves(s, slave[s]), Codes(s)') /\ leaves(s, slave[s]).udp = <<>>
  <2>1. Codes(s)' = Codes(s)
    BY <1>1 DEF Codes
  <2>2. Talks(leaves(s, slave[s]), Codes(s))
    BY SlaveTalks, SlaveLeaves
  <2>3. leaves(s, slave[s]).udp = slave[s].udp
    BY SlaveTalks DEF leaves, Talks, SlaveFields
  <2> QED BY <2>1, <2>2, <2>3 DEF Kinds
<1> QED BY <1>1, <1>2, <1>3, <1>4 DEF Kinds

SlaveStep(s) == Connected(s) \/ StoreIp(s) \/ Hear(s) \/ Timer(s) \/ Lose(s)
MasterStep ==
  \/ StartPairing \/ EndPairing \/ Restart
  \/ \E s \in Slaves : Register(s) \/ Ignore(s) \/ Receive(s)
  \/ \E i \in DOMAIN nodes : CheckSentPackets(i) \/ CheckNodeStatus(i)

\* Every step but the two that add an address to a way.
LEMMA SlaveStepKeepsSafe ==
  ASSUME NEW Ad \in Ads, Safe(Ad), Kinds, NEW s \in Slaves, SlaveStep(s)
  PROVE  Safe(Ad)' /\ Kinds'
BY TimedIsSafe, HeardIsSafe, StoreIpIsSafe, SilentIsSafe, LoseIsSafe
   DEF SlaveStep, Timer

LEMMA MasterStepKeepsSafe ==
  ASSUME NEW Ad \in Ads, Disjoint(Ad), Safe(Ad), Kinds, MasterStep
  PROVE  Safe(Ad)' /\ Kinds'
<1>1. CASE StartPairing \/ EndPairing \/ Restart
  BY <1>1, MasterStartsSafely, StartedKinds
<1>2. ASSUME NEW s \in Slaves, Register(s) \/ Ignore(s) \/ Receive(s)
      PROVE  Safe(Ad)' /\ Kinds'
  <2>1. UNCHANGED <<pairing, baseIp, slave, ident>>
    BY <1>2 DEF Register, Ignore, Receive, masterVars, slaveVars
  <2>2. Safe(Ad)' /\ DOMAIN outbox' = Slaves
    BY <1>2, RegisterIsSafe, IgnoreIsSafe, ReceiveIsSafe
  <2>3. DOMAIN inbox' = Slaves /\ Len(nodes') <= MaxNodes
    <3>1. CASE Ignore(s)
      BY <3>1 DEF Ignore, masterVars, Kinds
    <3>2. Len(nodes) <= MaxNodes
      BY DEF Kinds
    <3> QED BY <1>2, <3>1, <3>2, RegisterIsSafe, ReceiveIsSafe
  <2>4. pairing' \in BOOLEAN /\ baseIp' \in FirstIp .. FirstIp + MaxIps
    BY <2>1 DEF Kinds
  <2> QED BY <2>1, <2>2, <2>3, <2>4, KindsStay
<1>3. ASSUME NEW i \in DOMAIN nodes, CheckSentPackets(i) \/ CheckNodeStatus(i)
      PROVE  Safe(Ad)' /\ Kinds'
  <2>1. UNCHANGED <<pairing, baseIp, slave, ident, outbox>>
    BY <1>3 DEF CheckSentPackets, CheckNodeStatus, slaveVars
  <2>2. Safe(Ad)' /\ DOMAIN inbox' = Slaves /\ Len(nodes') = Len(nodes)
    BY <1>3, CheckIsSafe
  <2>3. /\ pairing' \in BOOLEAN /\ baseIp' \in FirstIp .. FirstIp + MaxIps
        /\ Len(nodes') <= MaxNodes /\ DOMAIN outbox' = Slaves
    BY <2>1, <2>2 DEF Kinds
  <2> QED BY <2>1, <2>2, <2>3, KindsStay
<1> QED BY <1>1, <1>2, <1>3 DEF MasterStep

LEMMA NewIpKinds ==
  ASSUME NEW Ad \in Ads, Disjoint(Ad), Safe(Ad), Kinds, NEW s \in Slaves,
         SendNewIp(s), lastByte(baseIp + 1) \in Ad[s]
  PROVE  Safe(Ad)' /\ Kinds'
<1>1. /\ Safe(Ad)' /\ DOMAIN inbox' = Slaves /\ DOMAIN outbox' = Slaves
      /\ Len(nodes') = Len(nodes)
  BY SendNewIpIsSafe
<1>2. /\ UNCHANGED <<pairing, slave, ident>>
      /\ baseIp' = baseIp + 1 /\ baseIp < FirstIp + MaxIps
  BY DEF SendNewIp, slaveVars
<1>3. /\ pairing' \in BOOLEAN /\ baseIp' \in FirstIp .. FirstIp + MaxIps
      /\ Len(nodes') <= MaxNodes
  BY <1>1, <1>2, Numbers DEF Kinds
<1> QED BY <1>1, <1>2, <1>3, KindsStay

\* The steps are of these four kinds.
LEMMA Steps ==
  ASSUME Next
  PROVE  \/ MasterStep
         \/ \E s \in Slaves : SlaveStep(s) \/ StoreNetwork(s) \/ SendNewIp(s)
BY DEF Next, Arrival, MasterStep, SlaveStep

\* The next address is one the invariant speaks of.
LEMMA NextAddress ==
  ASSUME Kinds, NEW s \in Slaves, SendNewIp(s)
  PROVE  /\ lastByte(baseIp + 1) \in Ips /\ lastByte(baseIp + 1) \in Int
         /\ baseIp \in Nat /\ baseIp' = baseIp + 1
         /\ baseIp' < ByteWidth => lastByte(baseIp + 1) = baseIp + 1
<1>1. /\ baseIp \in FirstIp .. FirstIp + MaxIps /\ baseIp < FirstIp + MaxIps
      /\ baseIp' = baseIp + 1
  BY DEF SendNewIp, Kinds
<1>2. baseIp \in Nat /\ baseIp + 1 \in FirstIp + 1 .. FirstIp + MaxIps
  BY <1>1, Numbers
<1>3. lastByte(baseIp + 1) \in Ips
  BY <1>2 DEF Ips
<1>4. baseIp + 1 < ByteWidth => lastByte(baseIp + 1) = baseIp + 1
  BY <1>2, LastByte
<1> QED BY <1>1, <1>2, <1>3, <1>4, Numbers
-----------------------------------------------------------------------------
(* By the network a slave knows *)

NamedBy(Ad) == \A s \in Slaves : Ad[s] = IF ident[s].ssid = "own" THEN Ips ELSE {}

LEMMA SsidStays ==
  ASSUME Kinds, NEW s \in Slaves, SlaveStep(s)
  PROVE  \A t \in Slaves : ident'[t].ssid = ident[t].ssid
<1>1. \/ ident' = ident
      \/ \E x : ident' = [ident EXCEPT ![s].new = x]
      \/ \E x, y : ident' = [ident EXCEPT ![s].ip = y, ![s].new = x]
  <2>1. CASE StoreIp(s)
    BY <2>1 DEF StoreIp
  <2>2. CASE Connected(s)
    BY <2>2 DEF Connected
  <2>3. CASE GiveUp(s) \/ NoNetwork(s)
    BY <2>3 DEF GiveUp, NoNetwork, reset
  <2>4. CASE \/ Hear(s) \/ Join(s) \/ AskAgain(s) \/ Resend(s) \/ CheckMasterStatus(s)
             \/ Lose(s)
    BY <2>4 DEF Hear, Join, AskAgain, Resend, CheckMasterStatus, Lose, slaveVars
  <2> QED BY <2>1, <2>2, <2>3, <2>4 DEF SlaveStep, Timer
<1>2. ident \in [Slaves -> [ip : Ips \cup {NoIp}, ssid : Networks, new : BOOLEAN]]
  BY DEF Kinds
<1>3. ASSUME NEW x, NEW y, ident' = [ident EXCEPT ![s].ip = y, ![s].new = x],
             NEW t \in Slaves
      PROVE  ident'[t].ssid = ident[t].ssid
  <2>1. ident[s] \in [ip : Ips \cup {NoIp}, ssid : Networks, new : BOOLEAN]
    BY <1>2
  <2> QED BY <1>2, <1>3, <2>1
<1>4. ASSUME NEW x, ident' = [ident EXCEPT ![s].new = x], NEW t \in Slaves
      PROVE  ident'[t].ssid = ident[t].ssid
  <2>1. ident[s] \in [ip : Ips \cup {NoIp}, ssid : Networks, new : BOOLEAN]
    BY <1>2
  <2> QED BY <1>2, <1>4, <2>1
<1> QED BY <1>1, <1>3, <1>4

LEMMA MasterKeepsIdent ==
  ASSUME MasterStep
  PROVE  UNCHANGED ident
BY DEF MasterStep, StartPairing, EndPairing, Restart, Register, Ignore, Receive,
       CheckSentPackets, CheckNodeStatus, slaveVars

LEMMA KnowingIsKept ==
  ASSUME Kinds, Named, Next
  PROVE  Kinds' /\ Named'
<1>1. PICK Ad \in Ads : NamedBy(Ad) /\ Safe(Ad)
  BY DEF Named, NamedBy
<1>2. Disjoint(Ad)
  BY <1>1 DEF NamedBy, Disjoint
<1>3. CASE MasterStep
  <2>1. Safe(Ad)' /\ Kinds'
    BY <1>1, <1>2, <1>3, MasterStepKeepsSafe
  <2>2. UNCHANGED ident
    BY <1>3, MasterKeepsIdent
  <2>3. NamedBy(Ad)'
    BY <1>1, <2>2 DEF NamedBy
  <2> QED BY <2>1, <2>3 DEF Named, NamedBy
<1>4. ASSUME NEW s \in Slaves, SlaveStep(s) PROVE Kinds' /\ Named'
  <2>1. Safe(Ad)' /\ Kinds'
    BY <1>1, <1>4, SlaveStepKeepsSafe
  <2>2. \A t \in Slaves : ident'[t].ssid = ident[t].ssid
    BY <1>4, SsidStays
  <2>3. NamedBy(Ad)'
    BY <1>1, <2>2 DEF NamedBy
  <2> QED BY <2>1, <2>3 DEF Named, NamedBy
<1>5. ASSUME NEW s \in Slaves, StoreNetwork(s) PROVE Kinds' /\ Named'
  <2> DEFINE Bd == [Ad EXCEPT ![s] = Ips]
  <2>1. Bd \in Ads /\ \A t \in Slaves : Ad[t] \subseteq Bd[t]
    BY DEF Ads
  <2>2. \A t \in Slaves : Bd[t] = IF t = s THEN Ips ELSE Ad[t]
    BY DEF Ads
  <2> HIDE DEF Bd
  <2>3. Safe(Bd)
    BY <1>1, <2>1, SafeWithMore
  <2>4. /\ Safe(Bd)' /\ Kinds'
        /\ \A t \in Slaves : ident'[t].ssid = IF t = s THEN "own" ELSE ident[t].ssid
    BY <1>5, <2>1, <2>3, StoreNetworkIsSafe
  <2>5. NamedBy(Bd)'
    BY <1>1, <2>2, <2>4 DEF NamedBy
  <2> QED BY <2>1, <2>4, <2>5 DEF Named, NamedBy
<1>6. ASSUME NEW s \in Slaves, SendNewIp(s) PROVE Kinds' /\ Named'
  <2>1. Head(outbox[s]).code = "IP" /\ outbox[s] # <<>> /\ UNCHANGED ident
    BY <1>6 DEF SendNewIp, slaveVars
  <2>2. ident[s].ssid = "own"
    <3>1. "IP" \in Codes(s)
      BY <1>1, <2>1, HeadOfOutbox
    <3> QED BY <3>1 DEF Codes, AllSaid
  <2>3. lastByte(baseIp + 1) \in Ad[s]
    BY <1>1, <1>6, <2>2, NextAddress DEF NamedBy
  <2>4. Safe(Ad)' /\ Kinds'
    BY <1>1, <1>2, <1>6, <2>3, NewIpKinds
  <2>5. NamedBy(Ad)'
    BY <1>1, <2>1 DEF NamedBy
  <2> QED BY <2>4, <2>5 DEF Named, NamedBy
<1> QED BY <1>3, <1>4, <1>5, <1>6, Steps
-----------------------------------------------------------------------------
(* By the addresses given *)

GivenBy(Ad, top) ==
  /\ \A s, t \in Slaves : s # t => Ad[s] \cap Ad[t] = {}
  /\ \A s \in Slaves : \A a \in Ad[s] : a <= top

\* All but the restart, which counts the addresses from the start again.
LEMMA BaseIpStays ==
  ASSUME Next, ~restarted'
  PROVE  /\ ~restarted
         /\ \/ UNCHANGED baseIp
            \/ \E s \in Slaves : SendNewIp(s)
<1>1. CASE MasterStep
  <2>1. CASE StartPairing \/ EndPairing \/ Restart
    BY <2>1 DEF StartPairing, EndPairing, Restart, world
  <2>2. ASSUME NEW s \in Slaves, Register(s) \/ Ignore(s) \/ Receive(s)
        PROVE  UNCHANGED baseIp /\ UNCHANGED restarted
    BY <2>2 DEF Register, Ignore, Receive, masterVars, world
  <2>3. ASSUME NEW i \in DOMAIN nodes, CheckSentPackets(i) \/ CheckNodeStatus(i)
        PROVE  UNCHANGED baseIp /\ UNCHANGED restarted
    BY <2>3 DEF CheckSentPackets, CheckNodeStatus, world
  <2> QED BY <1>1, <2>1, <2>2, <2>3 DEF MasterStep
<1>2. ASSUME NEW s \in Slaves, SlaveStep(s) \/ StoreNetwork(s)
      PROVE  UNCHANGED baseIp /\ UNCHANGED restarted
  <2>1. CASE StoreNetwork(s) \/ Connected(s) \/ StoreIp(s) \/ Hear(s)
    BY <2>1 DEF StoreNetwork, Connected, StoreIp, Hear, masterVars, world
  <2>2. CASE Timer(s)
    BY <2>2 DEF Timer, Join, AskAgain, GiveUp, Resend, CheckMasterStatus, NoNetwork,
       masterVars, world
  <2>3. CASE Lose(s)
    BY <2>3 DEF Lose, masterVars, world
  <2> QED BY <1>2, <2>1, <2>2, <2>3 DEF SlaveStep
<1>3. ASSUME NEW s \in Slaves, SendNewIp(s) PROVE UNCHANGED restarted
  BY <1>3 DEF SendNewIp, world
<1> QED BY <1>1, <1>2, <1>3, Steps

LEMMA FreshBefore ==
  ASSUME Kinds, Next, fresh'
  PROVE  fresh
<1>1. ~restarted /\ baseIp' < ByteWidth /\ baseIp \in Nat
  BY BaseIpStays, Numbers DEF fresh, Kinds
<1>2. CASE UNCHANGED baseIp
  BY <1>1, <1>2 DEF fresh
<1>3. ASSUME NEW s \in Slaves, SendNewIp(s) PROVE fresh
  <2>1. baseIp' = baseIp + 1
    BY <1>3, NextAddress
  <2> QED BY <1>1, <2>1, Numbers DEF fresh
<1> QED BY <1>2, <1>3, BaseIpStays DEF fresh

LEMMA GivenIsKept ==
  ASSUME Kinds, Given, Next, fresh'
  PROVE  Given'
<1>1. PICK Ad \in Ads : GivenBy(Ad, baseIp) /\ Safe(Ad)
  BY DEF Given, GivenBy
<1>2. Disjoint(Ad)
  BY <1>1 DEF GivenBy, Disjoint
<1>3. ASSUME NEW s \in Slaves, SendNewIp(s) PROVE Given'
  <2>1. /\ baseIp + 1 \in Ips /\ baseIp \in Nat /\ baseIp' = baseIp + 1
        /\ lastByte(baseIp + 1) = baseIp + 1
    BY <1>3, NextAddress DEF fresh
  <2>2. PICK Bd \in Ads :
          \A t \in Slaves : Bd[t] = IF t = s THEN Ad[s] \cup {baseIp + 1} ELSE Ad[t]
    <3>1. [Ad EXCEPT ![s] = @ \cup {baseIp + 1}] \in Ads
      BY <2>1 DEF Ads
    <3> QED BY <3>1 DEF Ads
  <2>3. baseIp + 1 \in Bd[s] /\ \A t \in Slaves : Ad[t] \subseteq Bd[t]
    BY <2>2
  <2>4. \A t \in Slaves : Ad[t] \subseteq Ips
    BY DEF Ads
  <2>5. GivenBy(Bd, baseIp')
    <3>1. ASSUME NEW t \in Slaves, NEW a \in Bd[t] PROVE a <= baseIp'
      <4>1. baseIp \in Int /\ baseIp <= baseIp'
        BY <2>1
      <4>2. a = baseIp + 1 \/ (a \in Ad[t] /\ a \in Int /\ a <= baseIp)
        BY <1>1, <2>2, <2>4, Numbers DEF GivenBy
      <4> QED BY <2>1, <4>1, <4>2
    <3>2. \A t \in Slaves : baseIp + 1 \notin Ad[t]
      BY <1>1, <2>1 DEF GivenBy
    <3>3. ASSUME NEW t \in Slaves, NEW u \in Slaves, t # u PROVE Bd[t] \cap Bd[u] = {}
      <4>1. Ad[t] \cap Ad[u] = {}
        BY <1>1, <3>3 DEF GivenBy
      <4>2. /\ Bd[t] = IF t = s THEN Ad[s] \cup {baseIp + 1} ELSE Ad[t]
            /\ Bd[u] = IF u = s THEN Ad[s] \cup {baseIp + 1} ELSE Ad[u]
            /\ baseIp + 1 \notin Ad[t] /\ baseIp + 1 \notin Ad[u]
        BY <2>2, <3>2
      <4>3. t # u
        BY <3>3
      <4> QED BY <4>1, <4>2, <4>3, Zenon
    <3> QED BY <3>1, <3>3 DEF GivenBy
  <2>6. Disjoint(Bd)
    BY <2>5 DEF GivenBy, Disjoint
  <2>7. Safe(Bd)
    BY <1>1, <2>3, SafeWithMore
  <2>8. Safe(Bd)'
    BY <1>3, <2>1, <2>3, <2>6, <2>7, NewIpKinds
  <2> QED BY <2>5, <2>8 DEF Given, GivenBy
<1>4. CASE UNCHANGED baseIp /\ ~ \E s \in Slaves : SendNewIp(s)
  <2>1. Safe(Ad)'
    BY <1>1, <1>2, <1>4, Steps, MasterStepKeepsSafe, SlaveStepKeepsSafe,
       StoreNetworkIsSafe
  <2>2. GivenBy(Ad, baseIp')
    BY <1>1, <1>4
  <2> QED BY <2>1, <2>2 DEF Given, GivenBy
<1> QED BY <1>3, <1>4, BaseIpStays DEF fresh
-----------------------------------------------------------------------------
(* One node per address *)

LEMMA NodesBelow ==
  ASSUME Kinds, Given, NEW i \in DOMAIN nodes
  PROVE  nodes[i].ip < baseIp + 1 /\ nodes[i].ip \in Int
<1>1. PICK Ad \in Ads : GivenBy(Ad, baseIp) /\ Safe(Ad)
  BY DEF Given, GivenBy
<1>2. PICK s \in Slaves : nodes[i].ip \in addressesOf(Ad, s)
  BY <1>1, NodeHasOwner
<1>3. baseIp \in Nat /\ Ad[s] \subseteq Int
  <2>1. baseIp \in Nat
    BY Numbers DEF Kinds
  <2>2. Ad[s] \subseteq Ips
    BY DEF Ads
  <2> QED BY <2>1, <2>2, Numbers
<1>4. CASE nodes[i].ip \in Ad[s]
  BY <1>1, <1>3, <1>4 DEF GivenBy
<1>5. CASE nodes[i].ip = Dhcp(s)
  <2>1. s \in Nat
    BY Numbers
  <2> QED BY <1>3, <1>5, <2>1 DEF Dhcp
<1> QED BY <1>2, <1>4, <1>5 DEF addressesOf

LEMMA NodesStay ==
  ASSUME NEW Ad \in Ads, Safe(Ad), NEW i \in DOMAIN nodes, NEW n, Distinct,
         masterSends(i, n, nodes[i].ip)
  PROVE  Distinct'
<1>1. nodes' = [nodes EXCEPT ![i] = [ip |-> nodes[i].ip, node |-> emptied(n)]]
  BY DEF masterSends
<1>2. DOMAIN nodes' = DOMAIN nodes /\ \A j \in DOMAIN nodes : nodes'[j].ip = nodes[j].ip
  BY <1>1
<1> QED BY <1>2 DEF Distinct

LEMMA DistinctIsKept ==
  ASSUME Kinds, Given, Distinct, Next, fresh'
  PROVE  Distinct'
<1>1. PICK Ad \in Ads : GivenBy(Ad, baseIp) /\ Safe(Ad)
  BY DEF Given, GivenBy
<1>2. nodes \in Seq(NodesFor(Ad)) /\ DOMAIN nodes = 1 .. Len(nodes) /\ Len(nodes) \in Nat
  BY <1>1 DEF Safe
<1>3. CASE StartPairing \/ EndPairing \/ Restart
  <2>1. CASE EndPairing
    <3>1. nodes' = [i \in DOMAIN nodes |-> [nodes[i] EXCEPT !.node.pending = <<>>]]
      BY <2>1 DEF EndPairing
    <3>2. \A i \in DOMAIN nodes : nodes[i] \in NodesFor(Ad)
      BY <1>2
    <3>3. \A i \in DOMAIN nodes : [nodes[i] EXCEPT !.node.pending = <<>>].ip = nodes[i].ip
      BY <3>2 DEF NodesFor
    <3>4. DOMAIN nodes' = DOMAIN nodes
          /\ \A i \in DOMAIN nodes : nodes'[i].ip = nodes[i].ip
      BY <3>1, <3>3
    <3> QED BY <3>4 DEF Distinct
  <2>2. CASE nodes' = <<>>
    BY <2>2 DEF Distinct
  <2> QED BY <1>3, <2>1, <2>2 DEF StartPairing, Restart
<1>4. ASSUME NEW s \in Slaves, Register(s) PROVE Distinct'
  <2> DEFINE ip == Head(outbox[s]).from
  <2>1. known(ip) = {}
    BY <1>4 DEF Register
  <2>2. UNCHANGED nodes \/ nodes' = Append(nodes, [ip |-> ip, node |-> NewNode])
    BY <1>4 DEF Register
  <2> HIDE DEF ip
  <2>3. \A i \in DOMAIN nodes : nodes[i].ip # ip
    BY <2>1 DEF known
  <2>4. CASE UNCHANGED nodes
    BY <2>4 DEF Distinct
  <2>5. CASE nodes' = Append(nodes, [ip |-> ip, node |-> NewNode])
    <3>1. /\ DOMAIN nodes' = 1 .. Len(nodes) + 1
          /\ \A j \in 1 .. Len(nodes) : nodes'[j] = nodes[j]
          /\ nodes'[Len(nodes) + 1].ip = ip
      BY <1>2, <2>5
    <3> QED BY <1>2, <2>3, <3>1 DEF Distinct
  <2> QED BY <2>2, <2>4, <2>5
<1>5. ASSUME NEW s \in Slaves, Receive(s) PROVE Distinct'
  <2>1. known(Head(outbox[s]).from) # {}
    BY <1>5 DEF Receive
  <2> DEFINE i == getNode(Head(outbox[s]).from)
  <2>2. i \in DOMAIN nodes
    BY <1>1, <2>1, NodeIsFound
  <2>3. \E n : masterSends(i, n, nodes[i].ip)
    BY <1>5 DEF Receive
  <2> HIDE DEF i
  <2> QED BY <1>1, <2>2, <2>3, NodesStay
<1>6. ASSUME NEW s \in Slaves, SendNewIp(s) PROVE Distinct'
  <2>1. known(Head(outbox[s]).from) # {}
    BY <1>6 DEF SendNewIp
  <2> DEFINE i == getNode(Head(outbox[s]).from)
  <2>2. i \in DOMAIN nodes
    BY <1>1, <2>1, NodeIsFound
  <2>3. \E n : nodes' = [nodes EXCEPT ![i] = [ip |-> baseIp + 1, node |-> n]]
    <3>1. lastByte(baseIp + 1) = baseIp + 1
      BY <1>6, NextAddress DEF fresh
    <3> QED BY <1>6, <3>1 DEF SendNewIp, masterSends
  <2> HIDE DEF i
  <2>4. /\ DOMAIN nodes' = DOMAIN nodes
        /\ \A j \in DOMAIN nodes : nodes'[j].ip = IF j = i THEN baseIp + 1 ELSE nodes[j].ip
    BY <2>2, <2>3
  <2>5. \A j \in DOMAIN nodes : nodes[j].ip # baseIp + 1
    <3>1. ASSUME NEW j \in DOMAIN nodes PROVE nodes[j].ip # baseIp + 1
      <4>1. nodes[j].ip < baseIp + 1 /\ nodes[j].ip \in Int /\ baseIp \in Nat
        BY NodesBelow, Numbers DEF Kinds
      <4> QED BY <4>1
    <3> QED BY <3>1
  <2> QED BY <2>4, <2>5 DEF Distinct
<1>7. ASSUME NEW i \in DOMAIN nodes, CheckSentPackets(i) \/ CheckNodeStatus(i)
      PROVE  Distinct'
  <2>1. \E n : masterSends(i, n, nodes[i].ip)
    BY <1>7 DEF CheckSentPackets, CheckNodeStatus
  <2> QED BY <1>1, <2>1, NodesStay
<1>8. ASSUME NEW s \in Slaves, SlaveStep(s) \/ StoreNetwork(s) \/ Ignore(s)
      PROVE  Distinct'
  <2>1. CASE StoreNetwork(s) \/ Connected(s) \/ StoreIp(s) \/ Hear(s) \/ Ignore(s)
    BY <2>1 DEF StoreNetwork, Connected, StoreIp, Hear, Ignore, masterVars, Distinct
  <2>2. CASE Timer(s)
    BY <2>2 DEF Timer, Join, AskAgain, GiveUp, Resend, CheckMasterStatus, NoNetwork,
       masterVars, Distinct
  <2>3. CASE Lose(s)
    BY <2>3 DEF Lose, masterVars, Distinct
  <2> QED BY <1>8, <2>1, <2>2, <2>3 DEF SlaveStep
<1> QED BY <1>3, <1>4, <1>5, <1>6, <1>7, <1>8, Steps DEF MasterStep
-----------------------------------------------------------------------------
(* The theorems *)

LEMMA IInvInit == Init => IInv
<1> SUFFICES ASSUME Init PROVE IInv
  OBVIOUS
<1> DEFINE Ad == [s \in Slaves |-> {}]
<1>1. Ad \in Ads /\ \A s \in Slaves : Ad[s] = {}
  BY DEF Ads
<1> HIDE DEF Ad
<1>2. /\ ident = [s \in Slaves |-> [ip |-> NoIp, ssid |-> "default", new |-> TRUE]]
      /\ \A s \in Slaves : ident[s].ip = NoIp /\ ident[s].ssid = "default"
  BY DEF Init
<1>3. ident \in [Slaves -> [ip : Ips \cup {NoIp}, ssid : Networks, new : BOOLEAN]]
  BY <1>2 DEF Networks
<1>4. Kinds
  <2>1. \A s \in Slaves : Talks(PoweredDown(FALSE, <<>>), Codes(s))
    BY Words, SlaveStarts
  <2>2. PoweredDown(FALSE, <<>>).udp = <<>>
    BY DEF PoweredDown
  <2>3. baseIp \in FirstIp .. FirstIp + MaxIps /\ Len(nodes) <= MaxNodes
        /\ pairing \in BOOLEAN
    <3>1. Len(<<>>) = 0 /\ MaxNodes \in Nat
      BY PairingConstants DEF PairingConstants
    <3> QED BY <3>1, Numbers DEF Init
  <2>4. DOMAIN slave = Slaves /\ DOMAIN inbox = Slaves /\ DOMAIN outbox = Slaves
        /\ \A s \in Slaves : slave[s] = PoweredDown(FALSE, <<>>)
    BY DEF Init
  <2> QED BY <1>3, <2>1, <2>2, <2>3, <2>4 DEF Kinds
<1>5. Safe(Ad)
  <2>1. \A S : <<>> \in Seq(S)
    OBVIOUS
  <2>2. nodes = <<>> /\ \A s \in Slaves : inbox[s] = <<>> /\ outbox[s] = <<>>
    BY DEF Init
  <2> QED BY <1>2, <2>1, <2>2 DEF Safe
<1>6. Named
  BY <1>1, <1>2, <1>5 DEF Named
<1>7. Given
  BY <1>1, <1>5 DEF Given
<1>8. Distinct
  BY DEF Init, Distinct
<1> QED BY <1>4, <1>6, <1>7, <1>8 DEF IInv

LEMMA IInvNext == IInv /\ [Next]_vars => IInv'
<1> SUFFICES ASSUME IInv, [Next]_vars PROVE IInv'
  OBVIOUS
<1>1. CASE Next
  <2>1. Kinds' /\ Named'
    BY <1>1, KnowingIsKept DEF IInv
  <2>2. ASSUME fresh' PROVE Given' /\ Distinct'
    <3>1. fresh
      BY <1>1, <2>2, FreshBefore DEF IInv
    <3> QED BY <1>1, <2>2, <3>1, GivenIsKept, DistinctIsKept DEF IInv
  <2> QED BY <2>1, <2>2 DEF IInv
<1>2. CASE UNCHANGED vars
  <2>1. UNCHANGED <<pairing, nodes, baseIp, slave, ident, inbox, outbox, restarted>>
    BY <1>2 DEF vars, world
  <2>2. \A s \in Slaves : Codes(s)' = Codes(s)
    BY <2>1 DEF Codes
  <2>3. Kinds'
    BY <2>1, <2>2 DEF IInv, Kinds
  <2>4. ASSUME NEW Ad \in Ads, Safe(Ad) PROVE Safe(Ad)'
    <3>1. \A s \in Slaves : SentBy(Ad, s)' = SentBy(Ad, s)
      BY <2>2 DEF SentBy
    <3> QED BY <2>1, <2>4, <3>1 DEF Safe
  <2>5. Named'
    BY <2>1, <2>4 DEF IInv, Named
  <2>6. ASSUME Given PROVE Given'
    BY <2>1, <2>4, <2>6 DEF Given
  <2>7. ASSUME Distinct PROVE Distinct'
    BY <2>1, <2>7 DEF Distinct
  <2> QED BY <2>1, <2>3, <2>5, <2>6, <2>7 DEF IInv, fresh
<1> QED BY <1>1, <1>2

THEOREM Invariance == Spec => []IInv
<1>1. Init => IInv
  BY IInvInit
<1>2. IInv /\ [Next]_vars => IInv'
  BY IInvNext
<1> QED BY <1>1, <1>2, PTL DEF Spec

\* The table, the counter, the stored addresses and the slaves keep their types.
THEOREM TypeCorrect == Spec => []TypeOK
<1>1. IInv => TypeOK
  <2> SUFFICES ASSUME IInv PROVE TypeOK
    OBVIOUS
  <2>1. Kinds /\ Named
    BY DEF IInv
  <2>2. PICK Ad \in Ads : Safe(Ad)
    BY <2>1 DEF Named
  <2>3. ASSUME NEW i \in DOMAIN nodes
        PROVE  /\ nodes[i].ip \in Ips \cup {Dhcp(s) : s \in Slaves}
               /\ nodes[i].node.state \in NodeState
    <3>1. PICK s \in Slaves : nodes[i].ip \in addressesOf(Ad, s)
                              /\ nodes[i].node \in NodeOf(Ad[s])
      BY <2>2, NodeHasOwner
    <3>2. Ad[s] \subseteq Ips
      BY DEF Ads
    <3> QED BY <3>1, <3>2 DEF addressesOf, NodeOf
  <2>4. \A s \in Slaves : slave[s].mode \in SlaveMode /\ slave[s].udp = <<>>
    BY <2>1 DEF Kinds, Talks
  <2> QED BY <2>1, <2>3, <2>4 DEF TypeOK, Kinds
<1> QED BY <1>1, Invariance, PTL

\* However often slaves are paired, and whatever is lost or asked for twice, two
\* slaves share an address only if the master has restarted or has given out more
\* addresses than the byte of an address has values left after FirstIp.
THEOREM NoSharing == Spec => []SharedAfterRestartOrWrap
<1>1. IInv => SharedAfterRestartOrWrap
  <2> SUFFICES ASSUME IInv, fresh, NEW s \in Slaves, NEW t \in Slaves,
                      s # t, ident[s].ip # NoIp
               PROVE  ident[s].ip # ident[t].ip
    BY DEF SharedAfterRestartOrWrap, NoSharedIp
  <2>1. PICK Ad \in Ads : GivenBy(Ad, baseIp) /\ Safe(Ad)
    BY DEF IInv, Given, GivenBy
  <2>2. ident[s].ip \in Ad[s] /\ ident[t].ip \in Ad[t] \cup {NoIp}
    BY <2>1 DEF Safe
  <2> QED BY <2>1, <2>2 DEF GivenBy
<1> QED BY <1>1, Invariance, PTL

\* A slave never stores an address before the name of the network it is for.
THEOREM NetworkBeforeAddress == Spec => []KnowsItsNetwork
<1>1. IInv => KnowsItsNetwork
  <2> SUFFICES ASSUME IInv, NEW s \in Slaves, ident[s].ip # NoIp
               PROVE  ident[s].ssid = "own"
    BY DEF KnowsItsNetwork
  <2>1. PICK Ad \in Ads : NamedBy(Ad) /\ Safe(Ad)
    BY DEF IInv, Named, NamedBy
  <2>2. ident[s].ip \in Ad[s]
    BY <2>1 DEF Safe
  <2> QED BY <2>1, <2>2 DEF NamedBy
<1> QED BY <1>1, Invariance, PTL

\* Until the master restarts, or its counter outgrows the byte of an address, no
\* address has two nodes.
THEOREM OneNodePerAddress == Spec => []NodesAreDistinct
<1>1. IInv => NodesAreDistinct
  BY DEF IInv, Distinct, NodesAreDistinct
<1> QED BY <1>1, Invariance, PTL
=============================================================================
