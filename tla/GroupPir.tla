------------------------------ MODULE GroupPir ------------------------------
(***************************************************************************)
(* The master's light groups and the presence sensors (PIRs) that put them *)
(* to sleep and wake them: relayGroups, sensors.pir and the alarms of      *)
(* Master/Master.ino.                                                      *)
(*                                                                         *)
(* Every function that changes these globals is an operator from the state *)
(* of the master to the next, every panel command, menu entry, calendar    *)
(* event, timer and the PIR part of loop() one action.  Alarms fire in any *)
(* order: their durations decide which groups they put to sleep, not when  *)
(* they ring.                                                              *)
(*                                                                         *)
(* The master is one record:                                               *)
(*   groups          relayGroups: connected, on, sleeping, ignore and time *)
(*                   as in the code; named, its name is not empty;         *)
(*                   scheduled, the calendar may hold alarms of it; and    *)
(*                   two history fields, lit (the last order broadcast for *)
(*                   it was to turn on) and wanted (so was the last order  *)
(*                   of a user)                                            *)
(*   pir             sensors.pir                                           *)
(*   slavePir        some registered slave is believed to have a PIR       *)
(*   dht             the master has a DHT sensor, on the pin of its PIR     *)
(*   pool            what each slot of the TimeAlarms pool is armed with   *)
(*   motionAlarm, enablePirAlarm, current   the globals of those names     *)
(***************************************************************************)
EXTENDS Integers

CONSTANTS
  GroupCount,   \* GROUP_AMOUNT (10)
  Durations,    \* detection times a user may configure, in seconds
  Inactivities, \* inactivity times a user may configure, in seconds
  TimeWidth,    \* what a stored detection time is truncated to (65536)
  DefaultTime,  \* detection time of the default group (10)
  IgnoredTime,  \* DEFAULT_MOTION_DET_TIME, of groups that ignore the PIRs (20)
  FirstMenuGroup,  \* first group the menu lets create and delete (2)
  PoolSlots,    \* alarm slots not taken by the three repeating timers (9)
  Uses          \* configuration changes allowed, of the set below

ASSUME GroupConstants ==
  /\ GroupCount \in Nat \ {0}
  /\ Durations \subseteq Nat /\ Inactivities \subseteq Nat
  /\ TimeWidth \in Nat \ {0}
  /\ DefaultTime \in Nat /\ IgnoredTime \in Nat /\ FirstMenuGroup \in Nat
  /\ PoolSlots \in 2 .. 254   \* no slot has the invalid id
  /\ Uses \subseteq {"MODIFY", "CREATE", "DELETE", "MASTER_PIR", "SLAVE_PIR",
                     "SETTINGS", "CLOCK", "DHT", "RESTART"}

VARIABLE m

Groups == 0 .. GroupCount - 1
NoGroup == -1
Slots == 1 .. PoolSlots
NotSet == -1        \* ALARM_NOT_SET
InvalidId == 255    \* dtINVALID_ALARM_ID, which is not ALARM_NOT_SET

NewGroup == [connected |-> FALSE, on |-> FALSE, sleeping |-> FALSE,
             ignore |-> FALSE, time |-> 0, named |-> FALSE, scheduled |-> FALSE,
             lit |-> FALSE, wanted |-> FALSE]

DefaultGroup == [NewGroup EXCEPT !.connected = TRUE, !.time = DefaultTime,
                                 !.named = TRUE, !.scheduled = TRUE]

NewPir(connected, inactivity) ==
  [connected |-> connected, on |-> FALSE, motion |-> FALSE,
   slaveMotion |-> FALSE, sleeping |-> FALSE, disabled |-> FALSE,
   inactivity |-> inactivity, next |-> 0]
-----------------------------------------------------------------------------
(* TimeAlarms *)

free(pool) == {s \in Slots : pool[s] = "free"}

\* The id timerOnce returns: an invalid one for no time or no slot.
allotted(pool, seconds) ==
  IF seconds <= 0 \/ free(pool) = {} THEN InvalidId
  ELSE CHOOSE s \in free(pool) : \A t \in free(pool) : s <= t

armed(pool, id, use) == IF id \in Slots THEN [pool EXCEPT ![id] = use] ELSE pool

freed(pool, id) == armed(pool, id, "free")

setMotionAlarm(s, seconds) ==
  LET id == allotted(s.pool, seconds)
  IN  [s EXCEPT !.motionAlarm = id, !.pool = armed(@, id, "motion"),
                !.current = seconds]

setEnablePirAlarm(s) ==
  LET id == allotted(s.pool, s.pir.inactivity)
  IN  [s EXCEPT !.enablePirAlarm = id, !.pool = armed(@, id, "enable")]

freeMotionAlarm(s) ==
  [s EXCEPT !.pool = freed(@, s.motionAlarm), !.motionAlarm = NotSet]
-----------------------------------------------------------------------------
(* Groups *)

changed(s, new) ==
  [s EXCEPT !.groups = [g \in Groups |-> IF g \in DOMAIN new THEN new[g] ELSE @[g]]]

litUp(r) == [r EXCEPT !.on = TRUE, !.sleeping = FALSE, !.lit = TRUE]
putOut(r) == [r EXCEPT !.on = FALSE, !.lit = FALSE]
asleep(r) == [r EXCEPT !.on = TRUE, !.sleeping = TRUE, !.lit = FALSE]

turnOnGroups(s, G) == changed(s, [g \in G |-> litUp(s.groups[g])])

\* Turned on or off by order of a user or of the user's calendar.
orderOn(s, G) ==
  changed(s, [g \in G |-> [litUp(s.groups[g]) EXCEPT !.wanted = TRUE]])
orderOff(s, G) ==
  changed(s, [g \in G |-> [putOut(s.groups[g]) EXCEPT !.wanted = FALSE]])

sleepGroup(s, G) == changed(s, [g \in G |-> asleep(s.groups[g])])

connectedGroups(s) == {g \in Groups : s.groups[g].connected}

\* groupNumber finds a group by its name, which a deleted group keeps until the
\* master restarts.
named(s) == {g \in Groups : s.groups[g].named}

\* The calendar turns on and off by number.  Alarms are set of a group that has a
\* name, a deleted one included, and a restart leaves them.
scheduled(s) == {g \in Groups : s.groups[g].scheduled}

listening(s) ==
  {g \in connectedGroups(s) : s.groups[g].on /\ ~s.groups[g].ignore}

awake(s) == {g \in listening(s) : ~s.groups[g].sleeping}

\* The search for the shortest time begins with 65535: a longer one, which the
\* code keeps until a restart, is never chosen.
LongestTime == TimeWidth - 1
choosable(s) == {g \in awake(s) : s.groups[g].time <= LongestTime}

\* Of the groups with the shortest time, the last.
soonest(s) ==
  CHOOSE g \in choosable(s) : \A h \in choosable(s) :
    \/ s.groups[g].time < s.groups[h].time
    \/ s.groups[g].time = s.groups[h].time /\ h <= g

getNextSleepingGroup(s) == IF choosable(s) = {} THEN NoGroup ELSE soonest(s)

\* relayGroups[-1] is read where nextSleepingGroup is -1: whatever lies there.
NoJunk == [on |-> FALSE, time |-> 0]
Junk(next) == IF next = NoGroup THEN [on : BOOLEAN, time : Durations] ELSE {NoJunk}

groupAt(s, g, junk) ==
  IF g \in Groups THEN [on |-> s.groups[g].on, time |-> s.groups[g].time] ELSE junk
-----------------------------------------------------------------------------
(* PIRs *)

connectedPir(s) == s.pir.connected \/ s.slavePir

turnOnPir(s, high) ==
  IF s.pir.on THEN s
  ELSE [s EXCEPT !.pir.on = TRUE,
                 !.pir.motion = IF s.pir.connected THEN high ELSE @]

\* Slip: the alarm is forgotten, not freed.
turnOffPirUnfreed(s) ==
  IF listening(s) # {} THEN s
  ELSE [s EXCEPT !.pir.on = FALSE, !.pir.sleeping = FALSE, !.motionAlarm = NotSet]

\* Slip: the PIRs are turned off, the sleep is not over.
turnOffPirAsleep(s) ==
  IF listening(s) # {} THEN s ELSE [freeMotionAlarm(s) EXCEPT !.pir.on = FALSE]

turnOffPir(s) ==
  IF listening(s) # {} THEN s
  ELSE [freeMotionAlarm(s) EXCEPT !.pir.on = FALSE, !.pir.sleeping = FALSE]

detectMotion(s, high) ==
  IF ~s.pir.disabled /\ s.pir.connected /\ s.pir.on
    THEN [s EXCEPT !.pir.motion = high] ELSE s

\* Every sleeper is awakened, and relit if it is still on.
awakened(r) == IF r.on THEN litUp(r) ELSE [r EXCEPT !.sleeping = FALSE]

wakeGroups(s) ==
  LET sleepers == {g \in connectedGroups(s) : s.groups[g].sleeping}
  IN  IF s.pir.sleeping
        THEN [changed(s, [g \in sleepers |-> awakened(s.groups[g])])
                EXCEPT !.pir.sleeping = FALSE]
        ELSE s

motionSeen(s) ==
  /\ s.pir.on /\ connectedPir(s)
  /\ s.pir.motion \/ s.pir.slaveMotion

checkPir(s, junk) ==
  LET heeded == [s EXCEPT !.pir.motion = FALSE,
                          !.pir.slaveMotion = @ /\ s.pir.motion]
      woken  == wakeGroups(freeMotionAlarm(heeded))
      next   == getNextSleepingGroup(woken)
  IN  IF motionSeen(s)
        THEN setMotionAlarm([woken EXCEPT !.pir.next = next],
                            groupAt(woken, next, junk).time)
        ELSE s

\* Slip: the alarm's group is put to sleep though it is off by now.
sleepDueUnasked(s, old, oldGroup) ==
  LET first == IF old \in Groups THEN sleepGroup(s, {old}) ELSE s
  IN  sleepGroup(first,
                 {g \in choosable(first) : first.groups[g].time <= oldGroup.time})

\* Slip: groups with the same time or less are left awake.
sleepDueAlone(s, old, oldGroup) ==
  IF oldGroup.on /\ old \in Groups THEN sleepGroup(s, {old}) ELSE s

\* The groups due with the alarm's own; what lies at index -1 is not modelled.
sleepDue(s, old, oldGroup) ==
  LET first == IF oldGroup.on /\ old \in Groups THEN sleepGroup(s, {old}) ELSE s
  IN  sleepGroup(first,
                 {g \in choosable(first) : first.groups[g].time <= oldGroup.time})

disabledForAWhile(s) ==
  IF s.pir.inactivity # 0
    THEN [setEnablePirAlarm(s) EXCEPT !.pir.disabled = TRUE] ELSE s

sleepGroups(s, junk) ==
  LET old      == s.pir.next
      oldGroup == groupAt(s, old, junk)
      slept    == sleepDue([s EXCEPT !.motionAlarm = NotSet, !.pir.sleeping = TRUE],
                           old, oldGroup)
      next     == getNextSleepingGroup(slept)
  IN  disabledForAWhile(
        IF next = NoGroup THEN slept
        ELSE setMotionAlarm([slept EXCEPT !.pir.next = next],
                            slept.groups[next].time - oldGroup.time))

\* Slip: the alarm is forgotten, the PIR stays disabled.
enablePirStillDeaf(s) == [s EXCEPT !.enablePirAlarm = NotSet]

enablePir(s) == [s EXCEPT !.pir.disabled = FALSE, !.enablePirAlarm = NotSet]
-----------------------------------------------------------------------------
(* Panel commands, menu entries and calendar events on groups *)

\* The state after a boot; groups and pir are what EEPROM tells.
Booted(groups, pir, dht) ==
  [groups |-> groups, pir |-> pir, slavePir |-> FALSE,
   pool |-> [s \in Slots |-> IF dht /\ s = 1 THEN "ambient" ELSE "free"],
   motionAlarm |-> NotSet, enablePirAlarm |-> NotSet, current |-> 0,
   dht |-> dht]

Init ==
  \E pir \in BOOLEAN, inactivity \in Inactivities :
    m = Booted([g \in Groups |-> IF g = 0 THEN DefaultGroup ELSE NewGroup],
               NewPir(pir, inactivity), FALSE)

turnOnEverything(s, high) == turnOnPir(orderOn(s, connectedGroups(s)), high)

armedFor(s, g) ==
  IF s.motionAlarm = NotSet THEN setMotionAlarm(s, s.groups[g].time) ELSE s

TurnOnEverything ==
  \E high \in BOOLEAN : m' = turnOnEverything(m, high)

TurnOffEverything ==
  m' = turnOffPir(orderOff(m, connectedGroups(m)))

\* The alarm puts to sleep the group asked for, if there was none before.
PanelTurnOnGroup ==
  \E g \in connectedGroups(m), high \in BOOLEAN :
    LET on == orderOn(m, {g})
        heard == turnOnPir(on, high)
    IN  m' = IF m.groups[g].ignore THEN on
             ELSE IF heard.motionAlarm = NotSet
               THEN armedFor([heard EXCEPT !.pir.next = g], g)
               ELSE heard

\* The calendar turns on a group even after it was deleted, and leaves
\* nextSleepingGroup as it was.
TurnOnGroupEvent ==
  \E g \in scheduled(m), high \in BOOLEAN :
    LET on == orderOn(m, {g})
    IN  m' = IF m.groups[g].ignore THEN on ELSE armedFor(turnOnPir(on, high), g)

\* Also the panel's command, of a connected group.
TurnOffGroupEvent ==
  \E g \in scheduled(m) :
    LET off == orderOff(m, {g})
    IN  m' = IF m.groups[g].ignore THEN off ELSE turnOffPir(off)

ManualTurnOnGroup ==
  \E g \in connectedGroups(m), high \in BOOLEAN :
    m' = turnOnPir(orderOn(m, {g}), high)

ManualTurnOffGroup ==
  \E g \in connectedGroups(m) : m' = turnOffPir(orderOff(m, {g}))
-----------------------------------------------------------------------------
(* Configuration of groups *)

firstUnused(s, from) ==
  LET unused == {g \in Groups : g >= from /\ ~s.groups[g].connected}
  IN  IF unused = {} THEN NoGroup ELSE CHOOSE g \in unused : \A h \in unused : g <= h

\* A group's new relays are off, and nobody has asked for it yet.
created(r) == [r EXCEPT !.connected = TRUE, !.named = TRUE, !.scheduled = TRUE,
                        !.lit = FALSE, !.wanted = FALSE]

PanelCreateGroup ==
  /\ "CREATE" \in Uses
  /\ firstUnused(m, 0) # NoGroup
  /\ \E ignore \in BOOLEAN, time \in Durations :
       LET g == firstUnused(m, 0)
       IN  m' = [m EXCEPT !.groups[g] =
                    [created(@) EXCEPT !.ignore = ignore,
                                       !.time = IF ignore THEN IgnoredTime ELSE time]]

NewGroupForm ==
  /\ "CREATE" \in Uses
  /\ firstUnused(m, FirstMenuGroup) # NoGroup
  /\ LET g == firstUnused(m, FirstMenuGroup)
     IN  m' = [m EXCEPT !.groups[g] = [created(@) EXCEPT !.on = FALSE]]

\* Nobody asks whether the group is still there.
PanelModifyGroup ==
  /\ "MODIFY" \in Uses
  /\ \E g \in named(m), ignore \in BOOLEAN, time \in Durations :
       LET modified == [m EXCEPT !.groups[g].ignore = ignore,
                                 !.groups[g].time = IF ignore THEN @ ELSE time]
       IN  m' = IF ignore /\ m.groups[g].on /\ m.groups[g].sleeping
                  THEN turnOnGroups(modified, {g}) ELSE modified

\* The group's alarms go with it, and new ones may be set by its name.
PanelDeleteGroup ==
  /\ "DELETE" \in Uses
  /\ \E g \in named(m) : m' = [m EXCEPT !.groups[g].connected = FALSE]

DeleteRelayGroup ==
  /\ "DELETE" \in Uses
  /\ \E g \in connectedGroups(m) :
       g >= FirstMenuGroup /\ m' = [m EXCEPT !.groups[g].connected = FALSE]
-----------------------------------------------------------------------------
(* Sensors, their configuration and their timers *)

\* One turn of loop() with the input pin high or low.
Loop ==
  \E high \in BOOLEAN :
    LET seen == detectMotion(m, high)
    IN  \E junk \in Junk(getNextSleepingGroup(wakeGroups(seen))) :
          m' = checkPir(seen, junk)

DetectSlaveMotion ==
  /\ m.slavePir
  /\ m' = IF m.pir.disabled THEN m ELSE [m EXCEPT !.pir.slaveMotion = TRUE]

SleepGroups ==
  \E slot \in Slots, junk \in Junk(m.pir.next) :
    /\ m.pool[slot] = "motion"
    /\ m' = sleepGroups([m EXCEPT !.pool = freed(@, slot)], junk)

EnablePir ==
  \E slot \in Slots :
    /\ m.pool[slot] = "enable"
    /\ m' = enablePir([m EXCEPT !.pool = freed(@, slot)])

\* The panel sets the clock: every alarm starts again.
ResetAlarms ==
  /\ "CLOCK" \in Uses
  /\ LET motion == IF m.motionAlarm = NotSet THEN m
                   ELSE setMotionAlarm(freeMotionAlarm(m), m.current)
         enable == [motion EXCEPT !.pool = freed(@, motion.enablePirAlarm)]
     IN  m' = IF m.enablePirAlarm = NotSet THEN motion ELSE setEnablePirAlarm(enable)

\* The panel disconnects the DHT, which has the same pin; the menu does not.
ConnectMasterPir ==
  /\ "MASTER_PIR" \in Uses
  /\ \E high \in BOOLEAN, dht \in {m.dht, FALSE} :
       LET connected == [m EXCEPT !.pir.connected = TRUE, !.dht = dht]
           lights == \E g \in connectedGroups(m) : m.groups[g].on
       IN  m' = IF lights THEN turnOnPir(connected, high) ELSE connected

disconnectMasterPir(s) ==
  LET off == [turnOffPir(s) EXCEPT !.pir.connected = FALSE]
      sleepers == {g \in connectedGroups(off) : off.groups[g].on /\ off.groups[g].sleeping}
  IN  IF connectedPir(off) THEN off ELSE turnOnGroups(off, sleepers)

DisconnectMasterPir ==
  /\ "MASTER_PIR" \in Uses
  /\ m' = disconnectMasterPir(m)

\* So the panel disconnects the PIR.  The alarm of an earlier time stays.
ConnectMasterDht ==
  /\ "DHT" \in Uses
  /\ \E off \in {m, disconnectMasterPir(m)} :
       m' = [off EXCEPT !.dht = TRUE,
                        !.pool = armed(@, allotted(@, 10), "ambient")]

DisconnectMasterDht ==
  /\ "DHT" \in Uses
  /\ m' = [m EXCEPT !.dht = FALSE]

\* panelConnect, panelDisconnect, a slave's sensor information, pairing.
SlavePirChanges ==
  /\ "SLAVE_PIR" \in Uses
  /\ \E b \in BOOLEAN : m' = [m EXCEPT !.slavePir = b]

PanelPirSettings ==
  /\ "SETTINGS" \in Uses
  /\ \E inactivity \in Inactivities : m' = [m EXCEPT !.pir.inactivity = inactivity]

\* What EEPROM keeps of a group; the first group is always there.
rebooted(g, r) ==
  LET fresh == IF g = 0 THEN DefaultGroup ELSE NewGroup
  IN  [fresh EXCEPT !.connected = @ \/ r.connected,
                    !.named = @ \/ r.connected,
                    !.scheduled = @ \/ r.scheduled,
                    !.ignore = r.connected /\ r.ignore,
                    !.time = IF r.connected /\ ~r.ignore THEN r.time % TimeWidth ELSE @]

Restart ==
  /\ "RESTART" \in Uses
  /\ m' = Booted([g \in Groups |-> rebooted(g, m.groups[g])],
                 NewPir(m.pir.connected, m.pir.inactivity), m.dht)
-----------------------------------------------------------------------------
Next ==
  \/ TurnOnEverything \/ TurnOffEverything
  \/ PanelTurnOnGroup \/ TurnOnGroupEvent \/ TurnOffGroupEvent
  \/ ManualTurnOnGroup \/ ManualTurnOffGroup
  \/ PanelCreateGroup \/ NewGroupForm \/ PanelModifyGroup
  \/ PanelDeleteGroup \/ DeleteRelayGroup
  \/ Loop \/ DetectSlaveMotion \/ SleepGroups \/ EnablePir \/ ResetAlarms
  \/ ConnectMasterPir \/ DisconnectMasterPir
  \/ ConnectMasterDht \/ DisconnectMasterDht
  \/ SlavePirChanges \/ PanelPirSettings \/ Restart

Spec == Init /\ [][Next]_m
-----------------------------------------------------------------------------
(* Properties *)

AlarmId == Slots \cup {NotSet, InvalidId}

Group == [connected : BOOLEAN, on : BOOLEAN, sleeping : BOOLEAN, ignore : BOOLEAN,
          time : Nat, named : BOOLEAN, scheduled : BOOLEAN, lit : BOOLEAN, wanted : BOOLEAN]

Pir == [connected : BOOLEAN, on : BOOLEAN, motion : BOOLEAN, slaveMotion : BOOLEAN,
        sleeping : BOOLEAN, disabled : BOOLEAN, inactivity : Nat,
        next : Groups \cup {NoGroup}]

State == [groups : [Groups -> Group], pir : Pir, slavePir : BOOLEAN,
          pool : [Slots -> {"free", "motion", "enable", "ambient"}],
          motionAlarm : AlarmId, enablePirAlarm : AlarmId, current : Nat,
          dht : BOOLEAN]

\* Types of the globals.  That current is natural means that no alarm is armed
\* for a group due before the one that has just been put to sleep.
TypeOK == m \in State

\* No alarm that puts groups to sleep is ever lost, and no id is kept of an
\* alarm that has rung: freeing motionAlarm or enablePirAlarm never disarms
\* anything else, though four places arm the one and two the other.
AlarmsAreOurs ==
  /\ {s \in Slots : m.pool[s] = "motion"} = {m.motionAlarm} \cap Slots
  /\ m.enablePirAlarm \in Slots => m.pool[m.enablePirAlarm] = "enable"

\* While the PIRs are off no group is about to be put to sleep or awakened.
OffIsQuiet == ~m.pir.on => m.motionAlarm = NotSet /\ ~m.pir.sleeping

\* However often the groups slept, woke or were modified: a group is on
\* exactly if its user wants it on, and its lights burn unless it sleeps.
LightsFollowOrders ==
  \A g \in connectedGroups(m) :
    LET r == m.groups[g]
    IN  r.on = r.wanted /\ r.lit = (r.on /\ ~r.sleeping)

\* Master.ino says the PIR is disabled temporarily: something will enable it.
DeafIsTemporary == m.pir.disabled => \E s \in Slots : m.pool[s] = "enable"

\* SPU.h says ALARM_NOT_SET identifies an alarm that is not set: any other id
\* is that of an armed one.
SetMeansArmed == m.motionAlarm # NotSet => m.motionAlarm \in Slots

\* Master.ino says a sleeping group is on, to be lit again when presence is
\* detected: so there is a PIR to detect it.
SleepersCanBeWoken ==
  \A g \in connectedGroups(m) :
    m.groups[g].on /\ m.groups[g].sleeping
    => m.pir.on /\ m.pir.sleeping /\ connectedPir(m)

\* checkPir says it renews the alarm to put the groups to sleep: there is one.
AlarmHasAGroup == m.motionAlarm # NotSet => m.pir.next # NoGroup
=============================================================================
