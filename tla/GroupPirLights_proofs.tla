------------------------ MODULE GroupPirLights_proofs -----------------------
(***************************************************************************)
(* As long as no group is deleted the lights follow the orders of the      *)
(* users, for every number of groups, alarms and times.  The argument is   *)
(* about the groups alone: which alarms ring, and when, does not matter.   *)
(***************************************************************************)
EXTENDS GroupPir_proofs

\* What LightsFollowOrders says of a group; and that a group which is not there
\* is off and unknown to the panel and the calendar, so that no order reaches it.
Lawful(r) ==
  /\ r.connected => r.on = r.wanted /\ r.lit = (r.on /\ ~r.sleeping)
  /\ ~r.connected => ~r.on /\ ~r.named /\ ~r.scheduled

LawfulGroups == {r \in Group : Lawful(r)}

\* Nothing else of the state matters here, not even its type.
Follows(s) == "groups" \in DOMAIN s /\ s.groups \in [Groups -> LawfulGroups]

SameGroups(s, t) == DOMAIN t = DOMAIN s /\ t.groups = s.groups
-----------------------------------------------------------------------------
(* Records of groups *)

LEMMA LawfulOrders ==
  ASSUME NEW r \in LawfulGroups, r.connected
  PROVE  /\ [litUp(r) EXCEPT !.wanted = TRUE] \in LawfulGroups
         /\ [putOut(r) EXCEPT !.wanted = FALSE] \in LawfulGroups
         /\ awakened(r) \in LawfulGroups
         /\ r.on => litUp(r) \in LawfulGroups /\ asleep(r) \in LawfulGroups
<1>1. r \in Group /\ r.on = r.wanted /\ r.lit = (r.on /\ ~r.sleeping)
  BY DEF LawfulGroups, Lawful
<1>2. [litUp(r) EXCEPT !.wanted = TRUE] \in LawfulGroups
  BY <1>1, GroupRecords DEF LawfulGroups, Lawful, litUp, Group
<1>3. [putOut(r) EXCEPT !.wanted = FALSE] \in LawfulGroups
  <2> DEFINE q == [putOut(r) EXCEPT !.wanted = FALSE]
  <2>1. q \in Group
    BY <1>1, GroupRecords
  <2>2. q.connected /\ q.on = FALSE /\ q.wanted = FALSE /\ q.lit = FALSE
    BY <1>1 DEF putOut, Group
  <2> HIDE DEF q
  <2>3. Lawful(q)
    BY <2>2 DEF Lawful
  <2>4. q \in LawfulGroups
    BY <2>1, <2>3 DEF LawfulGroups
  <2> QED BY <2>4 DEF q
<1>4. ASSUME r.on PROVE litUp(r) \in LawfulGroups
  BY <1>1, <1>4, GroupRecords DEF LawfulGroups, Lawful, litUp, Group
<1>5. ASSUME r.on PROVE asleep(r) \in LawfulGroups
  BY <1>1, <1>5, GroupRecords DEF LawfulGroups, Lawful, asleep, Group
<1>6. ASSUME ~r.on PROVE awakened(r) \in LawfulGroups
  BY <1>1, <1>6, GroupRecords DEF LawfulGroups, Lawful, awakened, Group
<1>7. awakened(r) \in LawfulGroups
  BY <1>4, <1>6 DEF awakened
<1> QED BY <1>2, <1>3, <1>4, <1>5, <1>7

LEMMA LawfulNew == NewGroup \in LawfulGroups /\ DefaultGroup \in LawfulGroups
BY FreshGroups DEF LawfulGroups, Lawful, NewGroup, DefaultGroup

LEMMA LawfulCreated ==
  ASSUME NEW r \in LawfulGroups, ~r.connected,
         NEW ignore \in BOOLEAN, NEW time \in Nat
  PROVE  /\ [created(r) EXCEPT !.ignore = ignore, !.time = time] \in LawfulGroups
         /\ [created(r) EXCEPT !.on = FALSE] \in LawfulGroups
<1>1. r \in Group /\ ~r.on
  BY DEF LawfulGroups, Lawful
<1>2. [created(r) EXCEPT !.ignore = ignore, !.time = time] \in LawfulGroups
  BY <1>1 DEF LawfulGroups, Lawful, created, Group
<1>3. [created(r) EXCEPT !.on = FALSE] \in LawfulGroups
  BY <1>1 DEF LawfulGroups, Lawful, created, Group
<1> QED BY <1>2, <1>3

LEMMA LawfulModified ==
  ASSUME NEW r \in LawfulGroups, NEW ignore \in BOOLEAN, NEW time \in Nat
  PROVE  [r EXCEPT !.ignore = ignore, !.time = time] \in LawfulGroups
BY DEF LawfulGroups, Lawful, Group

LEMMA LawfulRebooted ==
  ASSUME NEW g \in Groups, NEW r \in LawfulGroups
  PROVE  rebooted(g, r) \in LawfulGroups
<1> DEFINE fresh == IF g = 0 THEN DefaultGroup ELSE NewGroup
<1>1. r \in Group /\ Lawful(r) /\ fresh \in LawfulGroups
  BY LawfulNew DEF LawfulGroups
<1>2. fresh \in Group /\ Lawful(fresh)
  BY <1>1 DEF LawfulGroups
<1>3. ~fresh.on /\ ~fresh.wanted /\ ~fresh.lit
  BY DEF NewGroup, DefaultGroup
<1>4. rebooted(g, r) \in Group
  BY <1>1, RebootedType
<1> DEFINE b == rebooted(g, r)
<1>5. /\ b.connected = (fresh.connected \/ r.connected)
      /\ b.named = (fresh.named \/ r.connected)
      /\ b.scheduled = (fresh.scheduled \/ r.scheduled)
      /\ b.on = fresh.on /\ b.wanted = fresh.wanted /\ b.lit = fresh.lit
      /\ b.sleeping = fresh.sleeping
  BY <1>2 DEF rebooted, fresh, Group
<1> HIDE DEF b, fresh
<1>6. Lawful(b)
  BY <1>1, <1>2, <1>3, <1>5 DEF Lawful, Group
<1> QED BY <1>4, <1>6 DEF LawfulGroups, b
-----------------------------------------------------------------------------
(* What leaves the groups alone *)

LEMMA FollowsKept ==
  ASSUME NEW s, Follows(s), NEW t, SameGroups(s, t)
  PROVE  Follows(t)
BY DEF Follows, SameGroups

LEMMA AlarmsKeepGroups ==
  ASSUME NEW s, Follows(s), NEW seconds
  PROVE  /\ Follows(setMotionAlarm(s, seconds))
         /\ Follows(setEnablePirAlarm(s))
         /\ Follows(freeMotionAlarm(s))
<1>1. SameGroups(s, setMotionAlarm(s, seconds))
  BY DEF setMotionAlarm, SameGroups, Follows
<1>2. SameGroups(s, setEnablePirAlarm(s))
  BY DEF setEnablePirAlarm, SameGroups, Follows
<1>3. SameGroups(s, freeMotionAlarm(s))
  BY DEF freeMotionAlarm, SameGroups, Follows
<1> QED BY <1>1, <1>2, <1>3, FollowsKept

LEMMA PirsKeepGroups ==
  ASSUME NEW s, Follows(s), NEW x
  PROVE  /\ Follows(turnOnPir(s, x)) /\ Follows(turnOffPir(s))
         /\ Follows(detectMotion(s, x)) /\ Follows(enablePir(s))
         /\ Follows(disabledForAWhile(s))
         /\ Follows([s EXCEPT !.pir.next = x])
         /\ Follows([s EXCEPT !.pool = x])
<1>1. SameGroups(s, turnOnPir(s, x))
  BY DEF turnOnPir, SameGroups, Follows
<1>2. SameGroups(s, detectMotion(s, x))
  BY DEF detectMotion, SameGroups, Follows
<1>3. SameGroups(s, enablePir(s))
  BY DEF enablePir, SameGroups, Follows
<1>4. SameGroups(s, [s EXCEPT !.pir.next = x])
  BY DEF SameGroups, Follows
<1>5. SameGroups(s, [s EXCEPT !.pool = x])
  BY DEF SameGroups, Follows
<1>6. Follows(turnOffPir(s))
  <2> DEFINE f == freeMotionAlarm(s)
             t == [f EXCEPT !.pir.on = FALSE, !.pir.sleeping = FALSE]
  <2>1. Follows(f)
    BY AlarmsKeepGroups
  <2> HIDE DEF f
  <2>2. SameGroups(f, t)
    BY <2>1 DEF SameGroups, Follows
  <2>3. turnOffPir(s) = s \/ turnOffPir(s) = t
    BY DEF turnOffPir, f
  <2> QED BY <2>1, <2>2, <2>3, FollowsKept
<1>7. Follows(disabledForAWhile(s))
  <2> DEFINE e == setEnablePirAlarm(s)
             t == [e EXCEPT !.pir.disabled = TRUE]
  <2>1. Follows(e)
    BY AlarmsKeepGroups
  <2> HIDE DEF e
  <2>2. SameGroups(e, t)
    BY <2>1 DEF SameGroups, Follows
  <2>3. disabledForAWhile(s) = s \/ disabledForAWhile(s) = t
    BY DEF disabledForAWhile, e
  <2> QED BY <2>1, <2>2, <2>3, FollowsKept
<1> QED BY <1>1, <1>2, <1>3, <1>4, <1>5, <1>6, <1>7, FollowsKept
-----------------------------------------------------------------------------
(* What changes them *)

LEMMA ChangedFollows ==
  ASSUME NEW s, Follows(s), NEW new, \A g \in DOMAIN new : new[g] \in LawfulGroups
  PROVE  Follows(changed(s, new))
<1> DEFINE groups == [g \in Groups |-> IF g \in DOMAIN new THEN new[g] ELSE s.groups[g]]
<1>1. groups \in [Groups -> LawfulGroups]
  BY DEF Follows
<1>2. changed(s, new) = [s EXCEPT !.groups = groups]
  BY DEF changed
<1> HIDE DEF groups
<1> QED BY <1>1, <1>2 DEF Follows

LEMMA KnownAreConnected ==
  ASSUME NEW s, Follows(s)
  PROVE  /\ named(s) \subseteq connectedGroups(s)
         /\ scheduled(s) \subseteq connectedGroups(s)
         /\ connectedGroups(s) \subseteq Groups
         /\ \A g \in Groups : s.groups[g] \in LawfulGroups
BY DEF named, scheduled, connectedGroups, Follows, LawfulGroups, Lawful

LEMMA OrdersFollow ==
  ASSUME NEW s, Follows(s), NEW G, G \subseteq connectedGroups(s)
  PROVE  Follows(orderOn(s, G)) /\ Follows(orderOff(s, G))
<1>1. \A g \in G : s.groups[g] \in LawfulGroups /\ s.groups[g].connected
  BY KnownAreConnected DEF connectedGroups
<1>2. \A g \in G : /\ [litUp(s.groups[g]) EXCEPT !.wanted = TRUE] \in LawfulGroups
                   /\ [putOut(s.groups[g]) EXCEPT !.wanted = FALSE] \in LawfulGroups
  BY <1>1, LawfulOrders
<1> QED BY <1>2, ChangedFollows DEF orderOn, orderOff

\* The PIRs light and put out only groups that are on.
LEMMA PirOrdersFollow ==
  ASSUME NEW s, Follows(s), NEW G, G \subseteq Groups,
         \A g \in G : s.groups[g].on
  PROVE  Follows(turnOnGroups(s, G)) /\ Follows(sleepGroup(s, G))
<1>1. \A g \in G : s.groups[g] \in LawfulGroups /\ s.groups[g].connected
  BY KnownAreConnected DEF LawfulGroups, Lawful
<1>2. \A g \in G : /\ litUp(s.groups[g]) \in LawfulGroups
                   /\ asleep(s.groups[g]) \in LawfulGroups
  BY <1>1, LawfulOrders
<1> QED BY <1>2, ChangedFollows DEF turnOnGroups, sleepGroup

LEMMA WakeFollows ==
  ASSUME NEW s, Follows(s)
  PROVE  Follows(wakeGroups(s))
<1> DEFINE sleepers == {g \in connectedGroups(s) : s.groups[g].sleeping}
           c == changed(s, [g \in sleepers |-> awakened(s.groups[g])])
           w == [c EXCEPT !.pir.sleeping = FALSE]
<1>1. \A g \in sleepers : awakened(s.groups[g]) \in LawfulGroups
  BY KnownAreConnected, LawfulOrders DEF connectedGroups
<1> HIDE DEF sleepers
<1>2. Follows(c)
  BY <1>1, ChangedFollows
<1>3. wakeGroups(s) = s \/ wakeGroups(s) = w
  BY DEF wakeGroups, sleepers
<1> HIDE DEF c
<1>4. SameGroups(c, w)
  BY <1>2 DEF SameGroups, Follows
<1> QED BY <1>2, <1>3, <1>4, FollowsKept

LEMMA CheckPirFollows ==
  ASSUME NEW s, Follows(s), NEW junk
  PROVE  Follows(checkPir(s, junk))
<1> DEFINE heeded == [s EXCEPT !.pir.motion = FALSE,
                               !.pir.slaveMotion = @ /\ s.pir.motion]
           woken  == wakeGroups(freeMotionAlarm(heeded))
           next   == getNextSleepingGroup(woken)
           chosen == [woken EXCEPT !.pir.next = next]
<1>1. SameGroups(s, heeded)
  BY DEF SameGroups, Follows
<1> HIDE DEF heeded
<1>2. Follows(woken)
  BY <1>1, FollowsKept, AlarmsKeepGroups, WakeFollows
<1> HIDE DEF woken, next
<1>3. Follows(chosen)
  BY <1>2, PirsKeepGroups
<1> HIDE DEF chosen
<1>4. Follows(setMotionAlarm(chosen, groupAt(woken, next, junk).time))
  BY <1>3, AlarmsKeepGroups
<1> QED BY <1>4 DEF checkPir, heeded, woken, next, chosen

\* The alarm's own group is put to sleep only if it is still on.
LEMMA SleepDueFollows ==
  ASSUME NEW s, Follows(s), NEW old, NEW oldGroup,
         old \in Groups /\ oldGroup.on => s.groups[old].on
  PROVE  Follows(sleepDue(s, old, oldGroup))
<1> DEFINE first == IF oldGroup.on /\ old \in Groups THEN sleepGroup(s, {old}) ELSE s
           due == {g \in choosable(first) : first.groups[g].time <= oldGroup.time}
<1>1. Follows(first)
  BY PirOrdersFollow
<1> HIDE DEF first
<1>2. due \subseteq Groups /\ \A g \in due : first.groups[g].on
  BY DEF choosable, awake, listening, connectedGroups
<1> HIDE DEF due
<1>3. Follows(sleepGroup(first, due))
  BY <1>1, <1>2, PirOrdersFollow
<1> QED BY <1>3 DEF sleepDue, first, due

LEMMA SleepGroupsFollow ==
  ASSUME NEW s, Follows(s), NEW junk
  PROVE  Follows(sleepGroups(s, junk))
<1> DEFINE start == [s EXCEPT !.motionAlarm = NotSet, !.pir.sleeping = TRUE]
           old   == s.pir.next
           oldGroup == groupAt(s, old, junk)
           slept == sleepDue(start, old, oldGroup)
           next  == getNextSleepingGroup(slept)
           chosen == [slept EXCEPT !.pir.next = next]
           left  == slept.groups[next].time - oldGroup.time
           armed1 == IF next = NoGroup THEN slept ELSE setMotionAlarm(chosen, left)
<1>1. SameGroups(s, start)
  BY DEF SameGroups, Follows
<1>2. Follows(start) /\ start.groups = s.groups
  BY <1>1, FollowsKept DEF SameGroups
<1>3. old \in Groups => oldGroup.on = s.groups[old].on
  BY DEF groupAt
<1> HIDE DEF start, old, oldGroup
<1>4. Follows(slept)
  BY <1>2, <1>3, SleepDueFollows
<1> HIDE DEF slept, next
<1>5. Follows(chosen)
  BY <1>4, PirsKeepGroups
<1> HIDE DEF chosen, left
<1>6. Follows(armed1)
  BY <1>4, <1>5, AlarmsKeepGroups
<1>7. sleepGroups(s, junk) = disabledForAWhile(armed1)
  BY DEF sleepGroups, armed1, left, chosen, next, slept, oldGroup, old, start
<1> HIDE DEF armed1
<1> QED BY <1>6, <1>7, PirsKeepGroups
-----------------------------------------------------------------------------
(* Steps *)

LEMMA ArmedForFollows ==
  ASSUME NEW s, Follows(s), NEW g
  PROVE  Follows(armedFor(s, g))
BY AlarmsKeepGroups DEF armedFor

LEMMA OrderStep ==
  ASSUME Follows(m),
         \/ TurnOnEverything \/ TurnOffEverything
         \/ PanelTurnOnGroup \/ TurnOnGroupEvent \/ TurnOffGroupEvent
         \/ ManualTurnOnGroup \/ ManualTurnOffGroup
  PROVE  Follows(m')
<1>1. /\ named(m) \subseteq connectedGroups(m)
      /\ scheduled(m) \subseteq connectedGroups(m)
  BY KnownAreConnected
<1>2. CASE TurnOnEverything
  <2>1. PICK high \in BOOLEAN :
          m' = turnOnPir(orderOn(m, connectedGroups(m)), high)
    BY <1>2 DEF TurnOnEverything, turnOnEverything
  <2> QED BY <2>1, OrdersFollow, PirsKeepGroups
<1>3. CASE TurnOffEverything
  BY <1>3, OrdersFollow, PirsKeepGroups DEF TurnOffEverything
<1>4. CASE PanelTurnOnGroup
  <2>1. PICK g \in connectedGroups(m), high \in BOOLEAN :
          \/ m' = orderOn(m, {g})
          \/ m' = turnOnPir(orderOn(m, {g}), high)
          \/ m' = armedFor([turnOnPir(orderOn(m, {g}), high) EXCEPT !.pir.next = g], g)
    BY <1>4 DEF PanelTurnOnGroup
  <2>2. Follows(turnOnPir(orderOn(m, {g}), high)) /\ Follows(orderOn(m, {g}))
    BY OrdersFollow, PirsKeepGroups
  <2> QED BY <2>1, <2>2, PirsKeepGroups, ArmedForFollows
<1>5. CASE TurnOnGroupEvent
  <2>1. PICK g \in scheduled(m), high \in BOOLEAN :
          \/ m' = orderOn(m, {g})
          \/ m' = armedFor(turnOnPir(orderOn(m, {g}), high), g)
    BY <1>5 DEF TurnOnGroupEvent
  <2>2. Follows(turnOnPir(orderOn(m, {g}), high)) /\ Follows(orderOn(m, {g}))
    BY <1>1, OrdersFollow, PirsKeepGroups
  <2> QED BY <2>1, <2>2, ArmedForFollows
<1>6. CASE TurnOffGroupEvent
  <2>1. PICK g \in scheduled(m) : \/ m' = orderOff(m, {g})
                              \/ m' = turnOffPir(orderOff(m, {g}))
    BY <1>6 DEF TurnOffGroupEvent
  <2> QED BY <1>1, <2>1, OrdersFollow, PirsKeepGroups
<1>7. CASE ManualTurnOnGroup
  <2>1. PICK g \in connectedGroups(m), high \in BOOLEAN :
          m' = turnOnPir(orderOn(m, {g}), high)
    BY <1>7 DEF ManualTurnOnGroup
  <2> QED BY <2>1, OrdersFollow, PirsKeepGroups
<1>8. CASE ManualTurnOffGroup
  <2>1. PICK g \in connectedGroups(m) : m' = turnOffPir(orderOff(m, {g}))
    BY <1>8 DEF ManualTurnOffGroup
  <2> QED BY <2>1, OrdersFollow, PirsKeepGroups
<1> QED BY <1>2, <1>3, <1>4, <1>5, <1>6, <1>7, <1>8

LEMMA OneGroupFollows ==
  ASSUME NEW s, Follows(s), NEW g \in Groups, NEW r \in LawfulGroups
  PROVE  /\ Follows([s EXCEPT !.groups[g] = r])
         /\ [s EXCEPT !.groups[g] = r].groups[g] = r
BY DEF Follows

LEMMA CreateStep ==
  ASSUME Follows(m), PanelCreateGroup \/ NewGroupForm
  PROVE  Follows(m')
<1>1. CASE PanelCreateGroup
  <2>1. PICK ignore \in BOOLEAN, time \in Durations, g \in Groups :
          /\ ~m.groups[g].connected
          /\ m' = [m EXCEPT !.groups[g] =
                     [created(@) EXCEPT !.ignore = ignore,
                                        !.time = IF ignore THEN IgnoredTime ELSE time]]
    BY <1>1, FirstUnusedType DEF PanelCreateGroup
  <2> DEFINE kept == IF ignore THEN IgnoredTime ELSE time
             r == [created(m.groups[g]) EXCEPT !.ignore = ignore, !.time = kept]
  <2>2. m.groups[g] \in LawfulGroups /\ kept \in Nat
    BY KnownAreConnected, ConstantTimes
  <2>3. m' = [m EXCEPT !.groups[g] = r]
    BY <2>1 DEF Follows
  <2> HIDE DEF kept
  <2>4. r \in LawfulGroups
    BY <2>1, <2>2, LawfulCreated
  <2> HIDE DEF r
  <2> QED BY <2>3, <2>4, OneGroupFollows
<1>2. CASE NewGroupForm
  <2>1. PICK g \in Groups :
          /\ ~m.groups[g].connected
          /\ m' = [m EXCEPT !.groups[g] = [created(@) EXCEPT !.on = FALSE]]
    BY <1>2, FirstUnusedType DEF NewGroupForm
  <2> DEFINE r == [created(m.groups[g]) EXCEPT !.on = FALSE]
  <2>2. r \in LawfulGroups
    <3>1. m.groups[g] \in LawfulGroups /\ FALSE \in BOOLEAN /\ 0 \in Nat
      BY KnownAreConnected
    <3> QED BY <2>1, <3>1, LawfulCreated
  <2>3. m' = [m EXCEPT !.groups[g] = r]
    BY <2>1 DEF Follows
  <2> HIDE DEF r
  <2> QED BY <2>2, <2>3, OneGroupFollows
<1> QED BY <1>1, <1>2

\* A group that sleeps and is told to ignore the PIRs is lit again.
LEMMA ModifyStep ==
  ASSUME Follows(m), PanelModifyGroup
  PROVE  Follows(m')
<1>1. PICK g \in named(m), ignore \in BOOLEAN, time \in Durations :
        LET modified == [m EXCEPT !.groups[g].ignore = ignore,
                                  !.groups[g].time = IF ignore THEN @ ELSE time]
        IN  m' = IF ignore /\ m.groups[g].on /\ m.groups[g].sleeping
                   THEN turnOnGroups(modified, {g}) ELSE modified
  BY DEF PanelModifyGroup
<1> DEFINE modified == [m EXCEPT !.groups[g].ignore = ignore,
                                 !.groups[g].time = IF ignore THEN @ ELSE time]
           kept == IF ignore THEN m.groups[g].time ELSE time
           r == [m.groups[g] EXCEPT !.ignore = ignore, !.time = kept]
<1>2. /\ g \in Groups /\ m.groups[g] \in LawfulGroups
      /\ m.groups[g] \in Group
  BY KnownAreConnected DEF LawfulGroups
<1>3. kept \in Nat
  BY <1>2, ConstantTimes DEF Group
<1>4. modified = [m EXCEPT !.groups[g] = r]
  BY <1>2 DEF Follows, Group
<1> HIDE DEF kept
<1>5. r \in LawfulGroups /\ r.on = m.groups[g].on
  BY <1>2, <1>3, LawfulModified DEF Group
<1>6. Follows(modified) /\ modified.groups[g].on = m.groups[g].on
  <2> HIDE DEF r, modified
  <2> QED BY <1>2, <1>4, <1>5, OneGroupFollows
<1>7. \/ m' = modified
      \/ m.groups[g].on /\ m' = turnOnGroups(modified, {g})
  BY <1>1
<1> HIDE DEF modified
<1> QED BY <1>2, <1>6, <1>7, PirOrdersFollow

LEMMA DisconnectFollows ==
  ASSUME NEW s, Follows(s)
  PROVE  Follows(disconnectMasterPir(s))
<1> DEFINE t == turnOffPir(s)
           off == [t EXCEPT !.pir.connected = FALSE]
           sleepers == {g \in connectedGroups(off) :
                          off.groups[g].on /\ off.groups[g].sleeping}
<1>1. Follows(t)
  BY PirsKeepGroups
<1> HIDE DEF t
<1>2. SameGroups(t, off)
  BY <1>1 DEF SameGroups, Follows
<1>3. Follows(off)
  BY <1>1, <1>2, FollowsKept
<1> HIDE DEF off
<1>4. sleepers \subseteq Groups /\ \A g \in sleepers : off.groups[g].on
  BY DEF connectedGroups
<1> HIDE DEF sleepers
<1>5. Follows(turnOnGroups(off, sleepers))
  BY <1>3, <1>4, PirOrdersFollow
<1> QED BY <1>3, <1>5 DEF disconnectMasterPir, t, off, sleepers

LEMMA SensorStep ==
  ASSUME Follows(m),
         \/ ConnectMasterPir \/ DisconnectMasterPir \/ ConnectMasterDht
         \/ DisconnectMasterDht \/ SlavePirChanges \/ PanelPirSettings
         \/ DetectSlaveMotion
  PROVE  Follows(m')
<1>1. CASE ConnectMasterPir
  <2>1. PICK high \in BOOLEAN, dht \in {m.dht, FALSE} :
          \/ m' = turnOnPir([m EXCEPT !.pir.connected = TRUE, !.dht = dht], high)
          \/ m' = [m EXCEPT !.pir.connected = TRUE, !.dht = dht]
    BY <1>1 DEF ConnectMasterPir
  <2>2. SameGroups(m, [m EXCEPT !.pir.connected = TRUE, !.dht = dht])
    BY DEF SameGroups, Follows
  <2> QED BY <2>1, <2>2, FollowsKept, PirsKeepGroups
<1>2. CASE DisconnectMasterPir
  BY <1>2, DisconnectFollows DEF DisconnectMasterPir
<1>3. CASE ConnectMasterDht
  <2>1. PICK off \in {m, disconnectMasterPir(m)} :
          m' = [off EXCEPT !.dht = TRUE,
                           !.pool = armed(@, allotted(@, 10), "ambient")]
    BY <1>3 DEF ConnectMasterDht
  <2>2. Follows(off)
    BY DisconnectFollows
  <2>3. SameGroups(off, m')
    BY <2>1, <2>2 DEF SameGroups, Follows
  <2> QED BY <2>2, <2>3, FollowsKept
<1>4. CASE DisconnectMasterDht \/ SlavePirChanges \/ PanelPirSettings
           \/ DetectSlaveMotion
  <2>1. SameGroups(m, m')
    BY <1>4 DEF DisconnectMasterDht, SlavePirChanges, PanelPirSettings,
                DetectSlaveMotion, SameGroups, Follows
  <2> QED BY <2>1, FollowsKept
<1> QED BY <1>1, <1>2, <1>3, <1>4

LEMMA TimerStep ==
  ASSUME Follows(m), Loop \/ SleepGroups \/ EnablePir \/ ResetAlarms
  PROVE  Follows(m')
<1>1. CASE Loop
  BY <1>1, PirsKeepGroups, CheckPirFollows DEF Loop
<1>2. CASE SleepGroups
  <2>1. PICK slot, junk :
          m' = sleepGroups([m EXCEPT !.pool = freed(m.pool, slot)], junk)
    BY <1>2 DEF SleepGroups, Follows
  <2> QED BY <2>1, PirsKeepGroups, SleepGroupsFollow
<1>3. CASE EnablePir
  <2>1. PICK slot \in Slots :
          m' = enablePir([m EXCEPT !.pool = freed(m.pool, slot)])
    BY <1>3 DEF EnablePir, Follows
  <2> QED BY <2>1, PirsKeepGroups
<1>4. CASE ResetAlarms
  <2> DEFINE motion == IF m.motionAlarm = NotSet THEN m
                       ELSE setMotionAlarm(freeMotionAlarm(m), m.current)
             pool == freed(motion.pool, motion.enablePirAlarm)
             enable == [motion EXCEPT !.pool = freed(@, motion.enablePirAlarm)]
  <2>1. m' = motion \/ m' = setEnablePirAlarm(enable)
    BY <1>4 DEF ResetAlarms
  <2>2. Follows(motion)
    BY AlarmsKeepGroups
  <2> HIDE DEF motion
  <2>3. SameGroups(motion, enable)
    BY <2>2 DEF SameGroups, Follows
  <2>4. Follows(enable)
    BY <2>2, <2>3, FollowsKept
  <2> HIDE DEF enable
  <2> QED BY <2>1, <2>2, <2>4, AlarmsKeepGroups
<1> QED BY <1>1, <1>2, <1>3, <1>4

LEMMA BootedFollows ==
  ASSUME NEW groups \in [Groups -> LawfulGroups], NEW pir, NEW dht
  PROVE  Follows(Booted(groups, pir, dht))
BY DEF Booted, Follows

LEMMA RestartStep ==
  ASSUME Follows(m), Restart
  PROVE  Follows(m')
<1> DEFINE groups == [g \in Groups |-> rebooted(g, m.groups[g])]
<1>1. groups \in [Groups -> LawfulGroups]
  BY KnownAreConnected, LawfulRebooted
<1>2. m' = Booted(groups, NewPir(m.pir.connected, m.pir.inactivity), m.dht)
  BY DEF Restart
<1> HIDE DEF groups
<1> QED BY <1>1, <1>2, BootedFollows

LEMMA InitFollows == Init => Follows(m)
<1> SUFFICES ASSUME Init PROVE Follows(m)
  OBVIOUS
<1> DEFINE groups == [g \in Groups |-> IF g = 0 THEN DefaultGroup ELSE NewGroup]
<1>1. groups \in [Groups -> LawfulGroups]
  BY LawfulNew
<1>2. PICK pir, inactivity : m = Booted(groups, NewPir(pir, inactivity), FALSE)
  BY DEF Init
<1> HIDE DEF groups
<1> QED BY <1>1, <1>2, BootedFollows

LEMMA NextFollows ==
  ASSUME "DELETE" \notin Uses
  PROVE  Follows(m) /\ [Next]_m => Follows(m)'
<1> SUFFICES ASSUME Follows(m), [Next]_m
             PROVE  Follows(m')
  OBVIOUS
<1>1. ~(PanelDeleteGroup \/ DeleteRelayGroup)
  BY DEF PanelDeleteGroup, DeleteRelayGroup
<1>2. CASE Next
  BY <1>1, <1>2, OrderStep, CreateStep, ModifyStep, SensorStep, TimerStep, RestartStep
     DEF Next
<1>3. CASE UNCHANGED m
  BY <1>3
<1> QED BY <1>2, <1>3

\* However the groups sleep and wake, and whatever is connected, created,
\* modified or restarted, a group is on exactly if its user wants it on and its
\* lights burn unless it sleeps; deleting groups is excluded, for the slot of a
\* deleted group keeps what the code leaves in it.
THEOREM LightsAlwaysFollow ==
  ASSUME "DELETE" \notin Uses
  PROVE  Spec => []LightsFollowOrders
<1>1. Follows(m) => LightsFollowOrders
  BY KnownAreConnected DEF LightsFollowOrders, LawfulGroups, Lawful, connectedGroups
<1> QED BY <1>1, InitFollows, NextFollows, PTL DEF Spec
=============================================================================
