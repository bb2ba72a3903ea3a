-------------------------------- MODULE Slave -------------------------------
(***************************************************************************)
(* One slave, Slave/Slave.ino: the globals of its protocol with the master *)
(* as a record, each C++ function that changes them as an operator.        *)
(*                                                                         *)
(*   mode         DOWN (restarting or joining the WiFi), CONNECTING (the   *)
(*                busy wait of connectToMaster) or RUNNING (loop)          *)
(*   retried      the wait has reached its fifth turn and asked again      *)
(*   masterState  the global of the same name                              *)
(*   timers       slots of the alarm pool armed with resendLastMessage     *)
(*   resendAlarm  the slot last stored in the global, NotSet when none     *)
(*   packetSent, sentMsg, sentPacket   what resendLastMessage would repeat *)
(*   silent       timeSinceConnection, in periods of STATE_CHECK_TIME      *)
(*   temp         the configuration kept in EEPROM: is the sensor in use   *)
(*   udp          the datagrams on their way to the master                 *)
(***************************************************************************)
EXTENDS Naturals, Sequences

CONSTANTS
  AlarmSlots,     \* slots of the pool left for resend timers (9 in the code)
  SilenceLimit,   \* periods of STATE_CHECK_TIME without a word (2)
  SlaveWire       \* datagrams the master's receive buffer holds

ASSUME SlaveConstants ==
  /\ AlarmSlots \in Nat \ {0}
  /\ SilenceLimit \in Nat \ {0}
  /\ SlaveWire \in Nat \ {0}

SlaveMode == {"DOWN", "CONNECTING", "RUNNING"}
Slots == 1 .. AlarmSlots
NotSet == 0        \* ALARM_NOT_SET, and the invalid id of an exhausted pool

toMaster(code, arg) == [code |-> code, arg |-> arg]

flag(b) == IF b THEN 1 ELSE 0

\* The record after a reset: RAM starts anew, EEPROM and the network do not.
PoweredDown(temp, udp) ==
  [mode |-> "DOWN", retried |-> FALSE, masterState |-> "RUNNING",
   timers |-> {}, resendAlarm |-> NotSet, packetSent |-> FALSE,
   sentMsg |-> "STATE", sentPacket |-> toMaster("INFO", 0), silent |-> 0,
   temp |-> temp, udp |-> udp]
-----------------------------------------------------------------------------
(* Sending *)

put(s, d) ==
  [s EXCEPT !.udp = IF Len(@) < SlaveWire THEN Append(@, d) ELSE @]

\* TimeAlarms hands out its first free slot, and an invalid id if none is.
least(T) == CHOOSE i \in T : \A j \in T : i <= j

firstFree(timers) == IF timers = Slots THEN NotSet ELSE least(Slots \ timers)

\* Slip: an exhausted pool is not told from a slot.
setAnyAlarm(s) ==
  [s EXCEPT !.masterState = "PENDING_RESPONSE",
            !.resendAlarm = firstFree(s.timers),
            !.timers = @ \cup {firstFree(s.timers)}]

\* Slip: no alarm is armed while an id is kept, though that alarm has fired.
setAlarmOnce(s) ==
  IF s.resendAlarm # NotSet THEN [s EXCEPT !.masterState = "PENDING_RESPONSE"]
  ELSE [s EXCEPT !.masterState = "PENDING_RESPONSE",
                 !.resendAlarm = firstFree(s.timers),
                 !.timers = @ \cup ({firstFree(s.timers)} \ {NotSet})]

\* The slot of an alarm still armed is overwritten without being freed.
setResendAlarm(s) ==
  LET slot == firstFree(s.timers)
  IN  [s EXCEPT !.masterState = "PENDING_RESPONSE",
                !.resendAlarm = slot,
                !.timers = @ \cup ({slot} \ {NotSet})]

freeResendAlarm(s) ==
  [s EXCEPT !.timers = @ \ {s.resendAlarm}, !.resendAlarm = NotSet]

sendUnawaited(s, code) ==
  [put(s, toMaster(code, 0)) EXCEPT !.sentMsg = code, !.packetSent = FALSE]

sendMessage(s, code) == setResendAlarm(sendUnawaited(s, code))

sendData(s, d) == [put(s, d) EXCEPT !.packetSent = TRUE, !.sentPacket = d]

sendSensorInfo(s) == setResendAlarm(sendData(s, toMaster("INFO", flag(s.temp))))

\* With no sensor the data packet is two bytes long: a message to the master.
sendSensorData(s) ==
  sendData(s, toMaster(IF s.temp THEN "DATA" ELSE "SHORT_DATA", 0))

ackMaster(s) == [put(s, toMaster("RECEIVED", 0)) EXCEPT !.sentMsg = "RECEIVED"]

resendLastMessage(s) ==
  IF s.packetSent THEN sendData(s, s.sentPacket) ELSE sendMessage(s, s.sentMsg)
-----------------------------------------------------------------------------
(* Connecting *)

connectToMaster(s) ==
  [sendMessage(s, "CONNECTION") EXCEPT !.mode = "CONNECTING", !.retried = FALSE]

\* Any datagram ends the wait; what it asked for is not done.  The alarm of
\* the request stays armed even when the datagram is the acknowledgement.
connected(s, code) ==
  LET answered == IF code = "RECEIVED" THEN [s EXCEPT !.masterState = "RUNNING"]
                  ELSE s
  IN  [sendSensorInfo(answered) EXCEPT !.mode = "RUNNING", !.retried = FALSE]

\* What handleMessage and handleData do before they look at the code.
heard(s) ==
  LET h == [s EXCEPT !.silent = 0]
  IN  IF s.masterState = "PENDING_RESPONSE"
        THEN freeResendAlarm([h EXCEPT !.masterState = "RUNNING"])
        ELSE h
-----------------------------------------------------------------------------
(* The handlers, after heard: the slave that results from each code *)

handled(s, code) ==
  CASE code = "STATE"           -> sendUnawaited(s, "RUNNING")
    [] code = "DATA"            -> sendSensorData(s)
    [] code = "CONNECT_TEMP"    -> ackMaster([s EXCEPT !.temp = TRUE])
    [] code = "DISCONNECT_TEMP" -> ackMaster([s EXCEPT !.temp = FALSE])
    [] code = "TURN"            -> ackMaster(s)
    [] OTHER                    -> s
=============================================================================
