--------------------------- MODULE GroupPir_proofs --------------------------
(***************************************************************************)
(* What holds of the groups, PIRs and alarms for every number of groups,   *)
(* every size of the alarm pool, all detection and inactivity times and    *)
(* every choice of the configuration changes allowed.                      *)
(***************************************************************************)
EXTENDS GroupPir, WellFoundedInduction, TLAPS

\* The two invariants as predicates of a state, and what lies between them:
\* no alarm is armed that puts groups to sleep.
MotionIn(s) == \A t \in Slots : s.pool[t] = "motion" <=> t = s.motionAlarm

OursIn(s) ==
  /\ MotionIn(s)
  /\ s.enablePirAlarm \in Slots => s.pool[s.enablePirAlarm] = "enable"

QuietIn(s) == ~s.pir.on => s.motionAlarm = NotSet /\ ~s.pir.sleeping

Sound(s) == s \in State /\ OursIn(s) /\ QuietIn(s)

NoMotion(s) == \A t \in Slots : s.pool[t] # "motion"

\* s and t have the same alarms, and t is not less quiet than s.
SameAlarms(s, t) ==
  /\ t.pool = s.pool /\ t.motionAlarm = s.motionAlarm
  /\ t.enablePirAlarm = s.enablePirAlarm
  /\ s.pir.on => t.pir.on
  /\ t.pir.sleeping => s.pir.sleeping
-----------------------------------------------------------------------------
(* Ids and sets; the proofs below keep these opaque. *)

Use == {"free", "motion", "enable", "ambient"}

LEMMA Ids ==
  /\ Slots \subseteq Nat /\ NotSet \notin Slots /\ InvalidId \notin Slots
  /\ NotSet \in AlarmId /\ InvalidId \in AlarmId /\ Slots \subseteq AlarmId
  /\ Groups \subseteq Nat /\ NoGroup \notin Groups
BY GroupConstants DEF GroupConstants, Slots, NotSet, InvalidId, AlarmId, Groups,
   NoGroup

\* A set of naturals that is not empty has a least element.
LEMMA LeastExists ==
  ASSUME NEW T, T \subseteq Nat, T # {}
  PROVE  \E k \in T : \A j \in T : k <= j
<1> DEFINE Less == {p \in Nat \X Nat : p[1] < p[2]}
<1>1. IsWellFoundedOn(Less, Nat)
  BY NatLessThanWellFounded DEF OpToRel
<1>2. PICK i \in T : \A j \in T : ~(<<j, i>> \in Less)
  <2> HIDE DEF Less
  <2> QED BY <1>1, WFMin
<1>3. \A j \in T : ~(j < i)
  BY <1>2
<1> QED BY <1>3

\* getNextSleepingGroup finds a group whenever there is one to choose.
LEMMA SoonestIsAwake ==
  ASSUME NEW s \in State, choosable(s) # {}
  PROVE  soonest(s) \in choosable(s)
<1> DEFINE A == choosable(s)
           times == {s.groups[g].time : g \in A}
           rank(g) == GroupCount - g
<1>1. A \subseteq Groups /\ \A g \in A : s.groups[g].time \in Nat
  BY DEF choosable, awake, listening, connectedGroups, State, Group
<1>2. times \subseteq Nat /\ times # {}
  BY <1>1
<1>3. PICK t \in times : \A u \in times : t <= u
  <2> HIDE DEF times
  <2> QED BY <1>2, LeastExists
<1> DEFINE first == {g \in A : s.groups[g].time = t}
           ranks == {rank(g) : g \in first}
<1>4. first # {} /\ first \subseteq Groups
  BY <1>1, <1>3
<1>5. \A g \in Groups : rank(g) \in Nat
  BY GroupConstants DEF GroupConstants, Groups
<1>6. ranks \subseteq Nat /\ ranks # {}
  <2> HIDE DEF first
  <2> QED BY <1>4, <1>5
<1>7. PICK r \in ranks : \A q \in ranks : r <= q
  <2> HIDE DEF ranks
  <2> QED BY <1>6, LeastExists
<1>8. PICK g \in first : r = rank(g)
  BY <1>7
<1>9. \A h \in first : h <= g
  <2> TAKE h \in first
  <2>1. rank(g) <= rank(h)
    BY <1>7, <1>8
  <2>2. g \in Nat /\ h \in Nat /\ GroupCount \in Nat
    BY <1>4, Ids, GroupConstants DEF GroupConstants
  <2> QED BY <2>1, <2>2
<1>10. \A h \in A : \/ s.groups[g].time < s.groups[h].time
                    \/ s.groups[g].time = s.groups[h].time /\ h <= g
  <2> TAKE h \in A
  <2>1. t = s.groups[g].time /\ t <= s.groups[h].time
    BY <1>3, <1>8
  <2>2. s.groups[h].time \in Nat /\ s.groups[g].time \in Nat
    BY <1>1, <1>8
  <2> QED BY <1>9, <2>1, <2>2
<1>11. g \in A
  BY <1>8
<1> HIDE DEF A
<1>12. \E k \in A : \A h \in A : \/ s.groups[k].time < s.groups[h].time
                                 \/ s.groups[k].time = s.groups[h].time /\ h <= k
  BY <1>10, <1>11
<1> QED BY <1>12 DEF soonest, A

LEMMA NextType ==
  ASSUME NEW s \in State
  PROVE  /\ getNextSleepingGroup(s) \in Groups \cup {NoGroup}
         /\ getNextSleepingGroup(s) # NoGroup => getNextSleepingGroup(s) \in choosable(s)
<1>1. choosable(s) \subseteq Groups
  BY DEF choosable, awake, listening, connectedGroups
<1> QED BY <1>1, SoonestIsAwake DEF getNextSleepingGroup
-----------------------------------------------------------------------------
(* Alarms *)

LEMMA AllottedIsFree ==
  ASSUME NEW pool \in [Slots -> Use], NEW seconds
  PROVE  /\ allotted(pool, seconds) \in Slots \cup {InvalidId}
         /\ allotted(pool, seconds) \in Slots
            => pool[allotted(pool, seconds)] = "free"
<1>1. CASE seconds <= 0 \/ free(pool) = {}
  BY <1>1, Ids DEF allotted
<1>2. CASE ~(seconds <= 0 \/ free(pool) = {})
  <2>1. free(pool) \subseteq Nat /\ free(pool) # {}
    BY <1>2, Ids DEF free
  <2>2. \E k \in free(pool) : \A j \in free(pool) : k <= j
    BY <2>1, LeastExists
  <2>3. allotted(pool, seconds) \in free(pool)
    BY <1>2, <2>2 DEF allotted
  <2> QED BY <2>3 DEF free
<1> QED BY <1>1, <1>2

LEMMA ArmedType ==
  ASSUME NEW pool \in [Slots -> Use], NEW id, NEW use \in Use
  PROVE  /\ armed(pool, id, use) \in [Slots -> Use]
         /\ \A t \in Slots :
              armed(pool, id, use)[t] = IF t = id THEN use ELSE pool[t]
BY DEF armed

LEMMA FreedType ==
  ASSUME NEW pool \in [Slots -> Use], NEW id
  PROVE  /\ freed(pool, id) \in [Slots -> Use]
         /\ \A t \in Slots : freed(pool, id)[t] = IF t = id THEN "free" ELSE pool[t]
BY ArmedType DEF freed, Use

LEMMA StatePool ==
  ASSUME NEW s \in State
  PROVE  /\ s.pool \in [Slots -> Use] /\ s.motionAlarm \in AlarmId
         /\ s.enablePirAlarm \in AlarmId /\ s.pir \in Pir /\ s.groups \in [Groups -> Group]
BY DEF State, Use

\* Arming the alarm that puts groups to sleep, where none is armed.
LEMMA SetMotionAlarm ==
  ASSUME NEW s \in State, OursIn(s), NoMotion(s), NEW seconds \in Nat
  PROVE  /\ setMotionAlarm(s, seconds) \in State
         /\ OursIn(setMotionAlarm(s, seconds))
         /\ setMotionAlarm(s, seconds).pir = s.pir
         /\ setMotionAlarm(s, seconds).groups = s.groups
<1> DEFINE id == allotted(s.pool, seconds)
           pool == armed(s.pool, id, "motion")
           t == [s EXCEPT !.motionAlarm = id, !.pool = pool, !.current = seconds]
<1>1. s.pool \in [Slots -> Use]
  BY StatePool
<1>2. /\ id \in Slots \cup {InvalidId}
      /\ id \in Slots => s.pool[id] = "free"
  BY <1>1, AllottedIsFree
<1> HIDE DEF id
<1>3. /\ pool \in [Slots -> Use]
      /\ \A u \in Slots : pool[u] = IF u = id THEN "motion" ELSE s.pool[u]
  BY <1>1, ArmedType DEF Use
<1> HIDE DEF pool
<1>4. t \in State
  BY <1>2, <1>3, Ids DEF State, Use
<1>5. t.pool = pool /\ t.motionAlarm = id /\ t.enablePirAlarm = s.enablePirAlarm
  BY DEF State
<1>6. OursIn(t)
  BY <1>2, <1>3, <1>5 DEF OursIn, MotionIn, NoMotion
<1>7. t.pir = s.pir /\ t.groups = s.groups
  BY DEF State
<1> QED BY <1>4, <1>6, <1>7 DEF setMotionAlarm, id, pool

LEMMA SetEnablePirAlarm ==
  ASSUME NEW s \in State, MotionIn(s)
  PROVE  /\ setEnablePirAlarm(s) \in State
         /\ OursIn(setEnablePirAlarm(s))
         /\ setEnablePirAlarm(s).pir = s.pir
         /\ setEnablePirAlarm(s).motionAlarm = s.motionAlarm
         /\ setEnablePirAlarm(s).groups = s.groups
<1> DEFINE id == allotted(s.pool, s.pir.inactivity)
           pool == armed(s.pool, id, "enable")
           t == [s EXCEPT !.enablePirAlarm = id, !.pool = pool]
<1>1. s.pool \in [Slots -> Use]
  BY StatePool
<1>2. /\ id \in Slots \cup {InvalidId}
      /\ id \in Slots => s.pool[id] = "free"
  BY <1>1, AllottedIsFree
<1> HIDE DEF id
<1>3. /\ pool \in [Slots -> Use]
      /\ \A u \in Slots : pool[u] = IF u = id THEN "enable" ELSE s.pool[u]
  BY <1>1, ArmedType DEF Use
<1> HIDE DEF pool
<1>4. t \in State
  BY <1>2, <1>3, Ids DEF State, Use
<1>5. t.pool = pool /\ t.motionAlarm = s.motionAlarm /\ t.enablePirAlarm = id
  BY DEF State
<1>6. OursIn(t)
  BY <1>2, <1>3, <1>5, Ids DEF OursIn, MotionIn
<1>7. t.pir = s.pir /\ t.groups = s.groups
  BY DEF State
<1> QED BY <1>4, <1>5, <1>6, <1>7 DEF setEnablePirAlarm, id, pool

LEMMA FreeMotionAlarm ==
  ASSUME NEW s \in State, OursIn(s)
  PROVE  /\ freeMotionAlarm(s) \in State
         /\ OursIn(freeMotionAlarm(s)) /\ NoMotion(freeMotionAlarm(s))
         /\ freeMotionAlarm(s).motionAlarm = NotSet
         /\ freeMotionAlarm(s).pir = s.pir
         /\ freeMotionAlarm(s).groups = s.groups
<1> DEFINE pool == freed(s.pool, s.motionAlarm)
           t == [s EXCEPT !.pool = pool, !.motionAlarm = NotSet]
<1>1. /\ pool \in [Slots -> Use]
      /\ \A u \in Slots : pool[u] = IF u = s.motionAlarm THEN "free" ELSE s.pool[u]
  BY StatePool, FreedType
<1> HIDE DEF pool
<1>2. t \in State
  BY <1>1, Ids DEF State, Use
<1>3. t.pool = pool /\ t.motionAlarm = NotSet /\ t.enablePirAlarm = s.enablePirAlarm
  BY DEF State
<1>4. OursIn(t) /\ NoMotion(t)
  BY <1>1, <1>3, Ids DEF OursIn, MotionIn, NoMotion
<1>5. t.pir = s.pir /\ t.groups = s.groups
  BY DEF State
<1> QED BY <1>2, <1>3, <1>4, <1>5 DEF freeMotionAlarm, pool
-----------------------------------------------------------------------------
(* Changes that leave the alarms alone *)

LEMMA SoundKept ==
  ASSUME NEW s, Sound(s), NEW t \in State, SameAlarms(s, t)
  PROVE  Sound(t)
BY DEF Sound, OursIn, MotionIn, QuietIn, SameAlarms

LEMMA ChangedGroups ==
  ASSUME NEW s \in State, NEW new, \A g \in DOMAIN new : new[g] \in Group
  PROVE  /\ changed(s, new) \in State
         /\ SameAlarms(s, changed(s, new))
         /\ changed(s, new).pir = s.pir
         /\ changed(s, new).groups =
              [g \in Groups |-> IF g \in DOMAIN new THEN new[g] ELSE s.groups[g]]
<1> DEFINE groups == [g \in Groups |-> IF g \in DOMAIN new THEN new[g] ELSE s.groups[g]]
<1>1. groups \in [Groups -> Group]
  BY StatePool
<1> HIDE DEF groups
<1>2. [s EXCEPT !.groups = groups] \in State
  BY <1>1 DEF State
<1>3. changed(s, new) = [s EXCEPT !.groups = groups]
  BY DEF changed, groups
<1>4. /\ changed(s, new).pool = s.pool
      /\ changed(s, new).motionAlarm = s.motionAlarm
      /\ changed(s, new).enablePirAlarm = s.enablePirAlarm
      /\ changed(s, new).pir = s.pir /\ changed(s, new).groups = groups
  BY <1>3 DEF State
<1> QED BY <1>2, <1>3, <1>4 DEF SameAlarms, groups

LEMMA GroupRecords ==
  ASSUME NEW r \in Group
  PROVE  /\ litUp(r) \in Group /\ putOut(r) \in Group /\ asleep(r) \in Group
         /\ [litUp(r) EXCEPT !.wanted = TRUE] \in Group
         /\ [putOut(r) EXCEPT !.wanted = FALSE] \in Group
         /\ awakened(r) \in Group /\ created(r) \in Group
<1>1. litUp(r) \in Group /\ putOut(r) \in Group /\ asleep(r) \in Group
  BY DEF litUp, putOut, asleep, Group
<1>2. awakened(r) \in Group
  BY <1>1 DEF awakened, Group
<1>3. created(r) \in Group
  <2> DEFINE named1 == [r EXCEPT !.connected = TRUE, !.named = TRUE, !.scheduled = TRUE]
             wanted1 == [named1 EXCEPT !.lit = FALSE, !.wanted = FALSE]
  <2>1. named1 \in Group
    BY DEF Group
  <2>2. created(r) = wanted1
    BY DEF created, Group
  <2> HIDE DEF named1
  <2>3. wanted1 \in Group
    BY <2>1 DEF Group
  <2> QED BY <2>2, <2>3
<1> QED BY <1>1, <1>2, <1>3 DEF Group

\* The orders to groups, of users or of the PIRs.
LEMMA OrdersKeepAlarms ==
  ASSUME NEW s \in State, NEW G, G \subseteq Groups
  PROVE  /\ turnOnGroups(s, G) \in State /\ SameAlarms(s, turnOnGroups(s, G))
         /\ orderOn(s, G) \in State /\ SameAlarms(s, orderOn(s, G))
         /\ orderOff(s, G) \in State /\ SameAlarms(s, orderOff(s, G))
         /\ sleepGroup(s, G) \in State /\ SameAlarms(s, sleepGroup(s, G))
         /\ turnOnGroups(s, G).pir = s.pir /\ orderOn(s, G).pir = s.pir
         /\ orderOff(s, G).pir = s.pir /\ sleepGroup(s, G).pir = s.pir
<1>1. \A g \in G : s.groups[g] \in Group
  BY StatePool
<1>2. /\ \A g \in G : litUp(s.groups[g]) \in Group
      /\ \A g \in G : [litUp(s.groups[g]) EXCEPT !.wanted = TRUE] \in Group
      /\ \A g \in G : [putOut(s.groups[g]) EXCEPT !.wanted = FALSE] \in Group
      /\ \A g \in G : asleep(s.groups[g]) \in Group
  BY <1>1, GroupRecords
<1>3. turnOnGroups(s, G) \in State /\ SameAlarms(s, turnOnGroups(s, G))
      /\ turnOnGroups(s, G).pir = s.pir
  BY <1>2, ChangedGroups DEF turnOnGroups
<1>4. orderOn(s, G) \in State /\ SameAlarms(s, orderOn(s, G))
      /\ orderOn(s, G).pir = s.pir
  BY <1>2, ChangedGroups DEF orderOn
<1>5. orderOff(s, G) \in State /\ SameAlarms(s, orderOff(s, G))
      /\ orderOff(s, G).pir = s.pir
  BY <1>2, ChangedGroups DEF orderOff
<1>6. sleepGroup(s, G) \in State /\ SameAlarms(s, sleepGroup(s, G))
      /\ sleepGroup(s, G).pir = s.pir
  BY <1>2, ChangedGroups DEF sleepGroup
<1> QED BY <1>3, <1>4, <1>5, <1>6

LEMMA TurnOnPir ==
  ASSUME NEW s \in State, NEW high \in BOOLEAN
  PROVE  /\ turnOnPir(s, high) \in State /\ SameAlarms(s, turnOnPir(s, high))
         /\ turnOnPir(s, high).pir.on
         /\ turnOnPir(s, high).groups = s.groups
<1>1. CASE s.pir.on
  BY <1>1 DEF turnOnPir, SameAlarms
<1>2. CASE ~s.pir.on
  <2> DEFINE motion == IF s.pir.connected THEN high ELSE s.pir.motion
             pir == [s.pir EXCEPT !.on = TRUE, !.motion = motion]
  <2>1. pir \in Pir /\ pir.on /\ pir.sleeping = s.pir.sleeping
    BY StatePool DEF Pir
  <2>2. turnOnPir(s, high) = [s EXCEPT !.pir = pir]
    BY <1>2, StatePool DEF turnOnPir, State, Pir
  <2> HIDE DEF pir
  <2> QED BY <2>1, <2>2 DEF State, SameAlarms
<1> QED BY <1>1, <1>2

LEMMA DetectMotionKeeps ==
  ASSUME NEW s \in State, NEW high \in BOOLEAN
  PROVE  /\ detectMotion(s, high) \in State /\ SameAlarms(s, detectMotion(s, high))
         /\ detectMotion(s, high).groups = s.groups
<1> DEFINE pir == [s.pir EXCEPT !.motion = high]
<1>1. pir \in Pir /\ pir.on = s.pir.on /\ pir.sleeping = s.pir.sleeping
  BY StatePool DEF Pir
<1>2. \/ detectMotion(s, high) = [s EXCEPT !.pir = pir]
      \/ detectMotion(s, high) = s
  BY StatePool DEF detectMotion, State
<1> HIDE DEF pir
<1> QED BY <1>1, <1>2 DEF State, SameAlarms

\* Motion ends the sleep: the PIRs' and that of the groups.
LEMMA WakeGroups ==
  ASSUME NEW s \in State
  PROVE  /\ wakeGroups(s) \in State /\ SameAlarms(s, wakeGroups(s))
         /\ wakeGroups(s).pir.on = s.pir.on
<1> DEFINE sleepers == {g \in connectedGroups(s) : s.groups[g].sleeping}
           c == changed(s, [g \in sleepers |-> awakened(s.groups[g])])
<1>1. CASE s.pir.sleeping
  <2>1. \A g \in sleepers : awakened(s.groups[g]) \in Group
    BY GroupRecords, StatePool DEF connectedGroups
  <2> HIDE DEF sleepers
  <2>2. c \in State /\ SameAlarms(s, c) /\ c.pir = s.pir
    BY <2>1, ChangedGroups
  <2> DEFINE w == [c EXCEPT !.pir.sleeping = FALSE]
  <2>3. wakeGroups(s) = w
    BY <1>1 DEF wakeGroups, sleepers
  <2> HIDE DEF c
  <2>4. /\ w \in State /\ w.pool = c.pool /\ w.motionAlarm = c.motionAlarm
        /\ w.enablePirAlarm = c.enablePirAlarm /\ ~w.pir.sleeping
        /\ w.pir.on = c.pir.on
    BY <2>2 DEF State, Pir
  <2> HIDE DEF w
  <2> QED BY <2>2, <2>3, <2>4 DEF SameAlarms
<1>2. CASE ~s.pir.sleeping
  BY <1>2 DEF wakeGroups, SameAlarms
<1> QED BY <1>1, <1>2

LEMMA TurnOffPir ==
  ASSUME NEW s, Sound(s)
  PROVE  /\ Sound(turnOffPir(s))
         /\ turnOffPir(s).groups = s.groups
<1> DEFINE f == freeMotionAlarm(s)
           t == [f EXCEPT !.pir.on = FALSE, !.pir.sleeping = FALSE]
<1>1. CASE listening(s) # {}
  BY <1>1 DEF turnOffPir
<1>2. CASE listening(s) = {}
  <2>1. /\ f \in State /\ OursIn(f) /\ f.motionAlarm = NotSet
        /\ f.groups = s.groups
    BY FreeMotionAlarm DEF Sound
  <2>2. turnOffPir(s) = t
    BY <1>2 DEF turnOffPir
  <2> HIDE DEF f
  <2>3. /\ t \in State /\ t.pool = f.pool /\ t.motionAlarm = f.motionAlarm
        /\ t.enablePirAlarm = f.enablePirAlarm /\ ~t.pir.sleeping
        /\ t.groups = f.groups
    BY <2>1 DEF State, Pir
  <2> QED BY <2>1, <2>2, <2>3 DEF Sound, OursIn, MotionIn, QuietIn
<1> QED BY <1>1, <1>2
-----------------------------------------------------------------------------
(* What the PIRs and the timers do *)

JunkGroup == [on : BOOLEAN, time : Nat]

LEMMA JunkType ==
  ASSUME NEW next, NEW junk \in Junk(next)
  PROVE  junk \in JunkGroup
<1>1. Durations \subseteq Nat
  BY GroupConstants DEF GroupConstants
<1>2. NoJunk \in JunkGroup
  BY DEF NoJunk, JunkGroup
<1>3. [on : BOOLEAN, time : Durations] \subseteq JunkGroup
  BY <1>1 DEF JunkGroup
<1> QED BY <1>2, <1>3 DEF Junk

LEMMA GroupAtType ==
  ASSUME NEW s \in State, NEW g, NEW junk \in JunkGroup
  PROVE  groupAt(s, g, junk) \in JunkGroup
BY StatePool DEF groupAt, JunkGroup, Group

LEMMA SetNext ==
  ASSUME NEW s \in State, NEW next \in Groups \cup {NoGroup}
  PROVE  /\ [s EXCEPT !.pir.next = next] \in State
         /\ SameAlarms(s, [s EXCEPT !.pir.next = next])
         /\ [s EXCEPT !.pir.next = next].pir.on = s.pir.on
         /\ [s EXCEPT !.pir.next = next].groups = s.groups
BY DEF State, Pir, SameAlarms

\* OursIn and NoMotion are about the alarms only.
LEMMA AlarmsKept ==
  ASSUME NEW s, NEW t, SameAlarms(s, t)
  PROVE  (OursIn(s) => OursIn(t)) /\ (NoMotion(s) => NoMotion(t))
BY DEF SameAlarms, OursIn, MotionIn, NoMotion

LEMMA CheckPir ==
  ASSUME NEW s, Sound(s), NEW junk \in JunkGroup
  PROVE  Sound(checkPir(s, junk))
<1>1. CASE ~motionSeen(s)
  BY <1>1 DEF checkPir
<1>2. CASE motionSeen(s)
  <2> DEFINE heeded == [s EXCEPT !.pir.motion = FALSE,
                                 !.pir.slaveMotion = @ /\ s.pir.motion]
             freed1 == freeMotionAlarm(heeded)
             woken  == wakeGroups(freed1)
             next   == getNextSleepingGroup(woken)
             chosen == [woken EXCEPT !.pir.next = next]
             time   == groupAt(woken, next, junk).time
  <2>1. s \in State /\ OursIn(s) /\ s.pir.on
    BY <1>2 DEF Sound, motionSeen
  <2>2. /\ heeded \in State /\ heeded.pool = s.pool
        /\ heeded.motionAlarm = s.motionAlarm
        /\ heeded.enablePirAlarm = s.enablePirAlarm /\ heeded.pir.on
    BY <2>1 DEF State, Pir
  <2> HIDE DEF heeded
  <2>3. OursIn(heeded)
    BY <2>1, <2>2 DEF OursIn, MotionIn
  <2>4. freed1 \in State /\ OursIn(freed1) /\ NoMotion(freed1) /\ freed1.pir.on
    BY <2>2, <2>3, FreeMotionAlarm
  <2> HIDE DEF freed1
  <2>5. woken \in State /\ OursIn(woken) /\ NoMotion(woken) /\ woken.pir.on
    BY <2>4, WakeGroups, AlarmsKept
  <2> HIDE DEF woken
  <2>6. next \in Groups \cup {NoGroup} /\ time \in Nat
    BY <2>5, NextType, GroupAtType DEF JunkGroup
  <2> HIDE DEF next, time
  <2>7. chosen \in State /\ OursIn(chosen) /\ NoMotion(chosen) /\ chosen.pir.on
    BY <2>5, <2>6, SetNext, AlarmsKept
  <2> HIDE DEF chosen
  <2>8. Sound(setMotionAlarm(chosen, time))
    BY <2>6, <2>7, SetMotionAlarm DEF Sound, QuietIn
  <2>9. checkPir(s, junk) = setMotionAlarm(chosen, time)
    BY <1>2 DEF checkPir, heeded, freed1, woken, next, chosen, time
  <2> QED BY <2>8, <2>9
<1> QED BY <1>1, <1>2

\* Every group due is put to sleep: those that may be chosen next have a longer
\* time.
LEMMA SleepDue ==
  ASSUME NEW s \in State, NEW old \in Groups \cup {NoGroup},
         NEW oldGroup \in JunkGroup
  PROVE  /\ sleepDue(s, old, oldGroup) \in State
         /\ SameAlarms(s, sleepDue(s, old, oldGroup))
         /\ sleepDue(s, old, oldGroup).pir = s.pir
         /\ \A g \in choosable(sleepDue(s, old, oldGroup)) :
              sleepDue(s, old, oldGroup).groups[g].time > oldGroup.time
<1> DEFINE first == IF oldGroup.on /\ old \in Groups THEN sleepGroup(s, {old}) ELSE s
           due == {g \in choosable(first) : first.groups[g].time <= oldGroup.time}
           last == sleepGroup(first, due)
<1>1. first \in State /\ SameAlarms(s, first) /\ first.pir = s.pir
  <2>1. CASE oldGroup.on /\ old \in Groups
    BY <2>1, OrdersKeepAlarms
  <2>2. CASE ~(oldGroup.on /\ old \in Groups)
    BY <2>2 DEF SameAlarms
  <2> QED BY <2>1, <2>2
<1> HIDE DEF first
<1>2. due \subseteq Groups /\ \A g \in due : asleep(first.groups[g]) \in Group
  BY <1>1, StatePool, GroupRecords DEF choosable, awake, listening, connectedGroups
<1>3. \A g \in choosable(first) \ due : first.groups[g].time > oldGroup.time
  <2> TAKE g \in choosable(first) \ due
  <2>1. first.groups[g].time \in Nat /\ oldGroup.time \in Nat
    BY <1>1, StatePool DEF choosable, awake, listening, connectedGroups, Group, JunkGroup
  <2> QED BY <2>1
<1> HIDE DEF due
<1>4. last \in State /\ SameAlarms(first, last) /\ last.pir = first.pir
  BY <1>1, <1>2, OrdersKeepAlarms
<1>5. last.groups = [g \in Groups |-> IF g \in due THEN asleep(first.groups[g])
                                      ELSE first.groups[g]]
  BY <1>1, <1>2, ChangedGroups DEF sleepGroup
<1>6. \A g \in due : asleep(first.groups[g]).sleeping
  BY <1>1, <1>2, StatePool DEF asleep, Group
<1> HIDE DEF last
<1>7. \A g \in choosable(last) : g \in choosable(first) \ due /\ last.groups[g] = first.groups[g]
  BY <1>5, <1>6 DEF choosable, awake, listening, connectedGroups
<1>8. sleepDue(s, old, oldGroup) = last
  BY DEF sleepDue, first, due, last
<1> QED BY <1>1, <1>3, <1>4, <1>7, <1>8 DEF SameAlarms

LEMMA DisabledForAWhile ==
  ASSUME NEW s, Sound(s)
  PROVE  Sound(disabledForAWhile(s))
<1>1. CASE s.pir.inactivity = 0
  BY <1>1 DEF disabledForAWhile
<1>2. CASE s.pir.inactivity # 0
  <2> DEFINE e == setEnablePirAlarm(s)
             t == [e EXCEPT !.pir.disabled = TRUE]
  <2>1. /\ e \in State /\ OursIn(e) /\ e.pir = s.pir
        /\ e.motionAlarm = s.motionAlarm
    BY SetEnablePirAlarm DEF Sound, OursIn
  <2> HIDE DEF e
  <2>2. /\ t \in State /\ t.pool = e.pool /\ t.motionAlarm = e.motionAlarm
        /\ t.enablePirAlarm = e.enablePirAlarm
        /\ t.pir.on = e.pir.on /\ t.pir.sleeping = e.pir.sleeping
    BY <2>1 DEF State, Pir
  <2> HIDE DEF t
  <2>3. Sound(t)
    BY <2>1, <2>2 DEF Sound, OursIn, MotionIn, QuietIn
  <2> QED BY <1>2, <2>3 DEF disabledForAWhile, e, t
<1> QED BY <1>1, <1>2

\* The alarm rings: its slot is free and motionAlarm still holds its id.
LEMMA SleepGroupsSound ==
  ASSUME NEW s, Sound(s), NEW slot \in Slots, s.pool[slot] = "motion",
         NEW junk \in JunkGroup
  PROVE  Sound(sleepGroups([s EXCEPT !.pool = freed(@, slot)], junk))
<1> DEFINE rung  == [s EXCEPT !.pool = freed(@, slot)]
           pool  == freed(s.pool, slot)
           start == [rung EXCEPT !.motionAlarm = NotSet, !.pir.sleeping = TRUE]
           old   == rung.pir.next
           oldGroup == groupAt(rung, old, junk)
           slept == sleepDue(start, old, oldGroup)
           next  == getNextSleepingGroup(slept)
           chosen == [slept EXCEPT !.pir.next = next]
           left  == slept.groups[next].time - oldGroup.time
           armed1 == IF next = NoGroup THEN slept ELSE setMotionAlarm(chosen, left)
<1>1. s \in State /\ OursIn(s) /\ QuietIn(s) /\ slot = s.motionAlarm
  BY DEF Sound, OursIn, MotionIn
<1>2. s.pir.on
  BY <1>1, Ids DEF QuietIn
<1>3. /\ pool \in [Slots -> Use]
      /\ \A t \in Slots : pool[t] = IF t = slot THEN "free" ELSE s.pool[t]
  BY <1>1, StatePool, FreedType
<1>4. rung = [s EXCEPT !.pool = pool]
  OBVIOUS
<1> HIDE DEF pool
<1>5. rung \in State /\ rung.pir = s.pir /\ rung.pool = pool
      /\ rung.enablePirAlarm = s.enablePirAlarm
  BY <1>1, <1>3, <1>4 DEF State, Use
<1> HIDE DEF rung
<1>6. start \in State /\ start.pool = pool /\ start.motionAlarm = NotSet
      /\ start.enablePirAlarm = s.enablePirAlarm /\ start.pir.on
  BY <1>2, <1>5, Ids DEF State, Pir
<1> HIDE DEF start
<1>7. OursIn(start) /\ NoMotion(start)
  BY <1>1, <1>3, <1>6, Ids DEF OursIn, MotionIn, NoMotion
<1>8. old \in Groups \cup {NoGroup} /\ oldGroup \in JunkGroup
  BY <1>5, GroupAtType DEF State, Pir
<1> HIDE DEF old, oldGroup
<1>9. /\ slept \in State /\ SameAlarms(start, slept) /\ slept.pir.on
      /\ \A g \in choosable(slept) : slept.groups[g].time > oldGroup.time
  BY <1>6, <1>8, SleepDue
<1> HIDE DEF slept
<1>10. OursIn(slept) /\ NoMotion(slept)
  BY <1>7, <1>9, AlarmsKept
<1>11. /\ next \in Groups \cup {NoGroup}
       /\ next # NoGroup => next \in choosable(slept)
  BY <1>9, NextType
<1> HIDE DEF next
<1>12. Sound(armed1)
  <2>1. CASE next = NoGroup
    BY <1>9, <1>10, <2>1 DEF Sound, QuietIn
  <2>2. CASE next # NoGroup
    <3>1. left \in Nat
      <4>1. slept.groups[next].time \in Nat /\ oldGroup.time \in Nat
        BY <1>8, <1>9, <1>11, <2>2, StatePool DEF JunkGroup, Group
      <4>2. slept.groups[next].time > oldGroup.time
        BY <1>9, <1>11, <2>2
      <4> QED BY <4>1, <4>2
    <3> HIDE DEF left
    <3>2. chosen \in State /\ OursIn(chosen) /\ NoMotion(chosen) /\ chosen.pir.on
      BY <1>9, <1>10, <1>11, SetNext, AlarmsKept
    <3> HIDE DEF chosen
    <3>3. Sound(setMotionAlarm(chosen, left))
      BY <3>1, <3>2, SetMotionAlarm DEF Sound, QuietIn
    <3> QED BY <2>2, <3>3
  <2> QED BY <2>1, <2>2
<1> HIDE DEF armed1
<1>13. sleepGroups(rung, junk) = disabledForAWhile(armed1)
  BY DEF sleepGroups, armed1, left, chosen, next, slept, oldGroup, old, start
<1> QED BY <1>12, <1>13, DisabledForAWhile DEF rung
-----------------------------------------------------------------------------
(* Requests *)

LEMMA NamedGroups ==
  ASSUME NEW s \in State
  PROVE  /\ connectedGroups(s) \subseteq Groups 
         /\ named(s) \subseteq Groups /\ scheduled(s) \subseteq Groups
         /\ \A g \in Groups : s.groups[g] \in Group /\ s.groups[g].time \in Nat
BY StatePool DEF connectedGroups, named, scheduled, Group

LEMMA OrderSound ==
  ASSUME NEW s, Sound(s), NEW G, G \subseteq Groups
  PROVE  Sound(orderOn(s, G)) /\ Sound(orderOff(s, G)) /\ Sound(turnOnGroups(s, G))
BY OrdersKeepAlarms, SoundKept DEF Sound

LEMMA TurnOnPirSound ==
  ASSUME NEW s, Sound(s), NEW high \in BOOLEAN
  PROVE  Sound(turnOnPir(s, high)) /\ turnOnPir(s, high).pir.on
BY TurnOnPir, SoundKept DEF Sound

\* Only the PIRs that are on arm the alarm for a group turned on.
LEMMA ArmedForSound ==
  ASSUME NEW s, Sound(s), s.pir.on, NEW g \in Groups
  PROVE  Sound(armedFor(s, g))
<1>1. CASE s.motionAlarm # NotSet
  BY <1>1 DEF armedFor
<1>2. CASE s.motionAlarm = NotSet
  <2>1. s \in State /\ OursIn(s) /\ NoMotion(s)
    BY <1>2, Ids DEF Sound, OursIn, MotionIn, NoMotion
  <2>2. s.groups[g].time \in Nat
    BY <2>1, NamedGroups
  <2>3. Sound(setMotionAlarm(s, s.groups[g].time))
    BY <2>1, <2>2, SetMotionAlarm DEF Sound, QuietIn
  <2> QED BY <1>2, <2>3 DEF armedFor
<1> QED BY <1>1, <1>2

LEMMA OnePirSound ==
  ASSUME NEW s, Sound(s), NEW pir \in Pir,
         s.pir.on => pir.on, pir.sleeping => s.pir.sleeping
  PROVE  Sound([s EXCEPT !.pir = pir])
<1> DEFINE t == [s EXCEPT !.pir = pir]
<1>1. /\ t \in State /\ t.pool = s.pool /\ t.motionAlarm = s.motionAlarm
      /\ t.enablePirAlarm = s.enablePirAlarm /\ t.pir = pir
  BY DEF Sound, State
<1> HIDE DEF t
<1>2. Sound(t)
  BY <1>1, SoundKept DEF SameAlarms
<1> QED BY <1>2 DEF t

LEMMA OneGroupSound ==
  ASSUME NEW s, Sound(s), NEW g \in Groups, NEW r \in Group
  PROVE  Sound([s EXCEPT !.groups[g] = r])
<1> DEFINE t == [s EXCEPT !.groups[g] = r]
           groups == [s.groups EXCEPT ![g] = r]
<1>1. s \in State
  BY DEF Sound
<1>2. groups \in [Groups -> Group]
  BY <1>1, StatePool
<1>3. t = [s EXCEPT !.groups = groups]
  BY <1>1 DEF State
<1> HIDE DEF groups
<1>4. /\ t \in State /\ t.pool = s.pool /\ t.motionAlarm = s.motionAlarm
      /\ t.enablePirAlarm = s.enablePirAlarm /\ t.pir = s.pir
  BY <1>1, <1>2, <1>3 DEF State
<1> HIDE DEF t
<1>5. Sound(t)
  BY <1>4, SoundKept DEF SameAlarms
<1> QED BY <1>5 DEF t

LEMMA EverythingSound ==
  ASSUME Sound(m), TurnOnEverything \/ TurnOffEverything
  PROVE  Sound(m')
<1>1. connectedGroups(m) \subseteq Groups
  BY NamedGroups DEF Sound
<1>2. CASE TurnOnEverything
  <2>1. PICK high \in BOOLEAN : m' = turnOnEverything(m, high)
    BY <1>2 DEF TurnOnEverything
  <2> QED BY <1>1, <2>1, OrderSound, TurnOnPirSound DEF turnOnEverything
<1>3. CASE TurnOffEverything
  BY <1>1, <1>3, OrderSound, TurnOffPir DEF TurnOffEverything
<1> QED BY <1>2, <1>3

LEMMA TurnOnSound ==
  ASSUME Sound(m), PanelTurnOnGroup \/ TurnOnGroupEvent \/ ManualTurnOnGroup
  PROVE  Sound(m')
<1>1. connectedGroups(m) \subseteq Groups /\ named(m) \subseteq Groups
      /\ scheduled(m) \subseteq Groups
  BY NamedGroups DEF Sound
<1>2. CASE PanelTurnOnGroup
  <2>1. PICK g \in connectedGroups(m), high \in BOOLEAN :
          m' = LET on == orderOn(m, {g})
                   heard == turnOnPir(on, high)
               IN  IF m.groups[g].ignore THEN on
                   ELSE IF heard.motionAlarm = NotSet
                     THEN armedFor([heard EXCEPT !.pir.next = g], g)
                     ELSE heard
    BY <1>2 DEF PanelTurnOnGroup
  <2> DEFINE on == orderOn(m, {g})
             heard == turnOnPir(on, high)
             chosen == [heard EXCEPT !.pir.next = g]
  <2>2. g \in Groups /\ Sound(on)
    BY <1>1, OrderSound
  <2> HIDE DEF on
  <2>3. Sound(heard) /\ heard.pir.on
    BY <2>2, TurnOnPirSound
  <2> HIDE DEF heard
  <2>4. Sound(chosen) /\ chosen.pir.on
    BY <2>2, <2>3, SetNext, SoundKept DEF Sound
  <2> HIDE DEF chosen
  <2>5. Sound(armedFor(chosen, g))
    BY <2>2, <2>4, ArmedForSound
  <2> QED BY <2>1, <2>2, <2>3, <2>5 DEF on, heard, chosen
<1>3. CASE TurnOnGroupEvent
  <2>1. PICK g \in scheduled(m), high \in BOOLEAN :
          m' = LET on == orderOn(m, {g})
               IN  IF m.groups[g].ignore THEN on ELSE armedFor(turnOnPir(on, high), g)
    BY <1>3 DEF TurnOnGroupEvent
  <2>2. g \in Groups /\ Sound(orderOn(m, {g}))
    BY <1>1, OrderSound
  <2>3. Sound(armedFor(turnOnPir(orderOn(m, {g}), high), g))
    BY <2>2, TurnOnPirSound, ArmedForSound
  <2> QED BY <2>1, <2>2, <2>3
<1>4. CASE ManualTurnOnGroup
  <2>1. PICK g \in connectedGroups(m), high \in BOOLEAN :
          m' = turnOnPir(orderOn(m, {g}), high)
    BY <1>4 DEF ManualTurnOnGroup
  <2>2. Sound(orderOn(m, {g}))
    BY <1>1, OrderSound
  <2> QED BY <2>1, <2>2, TurnOnPirSound
<1> QED BY <1>2, <1>3, <1>4

LEMMA TurnOffSound ==
  ASSUME Sound(m), TurnOffGroupEvent \/ ManualTurnOffGroup
  PROVE  Sound(m')
<1>1. connectedGroups(m) \subseteq Groups /\ named(m) \subseteq Groups
      /\ scheduled(m) \subseteq Groups
  BY NamedGroups DEF Sound
<1>2. PICK g \in Groups : \/ m' = orderOff(m, {g})
                          \/ m' = turnOffPir(orderOff(m, {g}))
  BY <1>1 DEF TurnOffGroupEvent, ManualTurnOffGroup
<1>3. Sound(orderOff(m, {g}))
  BY OrderSound
<1> QED BY <1>2, <1>3, TurnOffPir
-----------------------------------------------------------------------------
(* Configuration *)

LEMMA FirstUnusedType ==
  ASSUME NEW s, NEW from, firstUnused(s, from) # NoGroup
  PROVE  /\ firstUnused(s, from) \in Groups
         /\ ~s.groups[firstUnused(s, from)].connected
<1> DEFINE unused == {g \in Groups : g >= from /\ ~s.groups[g].connected}
<1>1. unused # {} /\ unused \subseteq Groups
  BY DEF firstUnused
<1>2. \E k \in unused : \A j \in unused : k <= j
  <2>1. unused \subseteq Nat
    BY <1>1, Ids
  <2> HIDE DEF unused
  <2> QED BY <1>1, <2>1, LeastExists
<1>3. (CHOOSE g \in unused : \A h \in unused : g <= h) \in unused
  <2> HIDE DEF unused
  <2> QED BY <1>2
<1>4. firstUnused(s, from) \in unused
  BY <1>1, <1>3 DEF firstUnused
<1> QED BY <1>4

LEMMA ConstantTimes ==
  DefaultTime \in Nat /\ IgnoredTime \in Nat /\ Durations \subseteq Nat
  /\ Inactivities \subseteq Nat /\ FirstMenuGroup \in Nat /\ 0 \in Groups
BY GroupConstants DEF GroupConstants, Groups

LEMMA CreateSound ==
  ASSUME Sound(m), PanelCreateGroup \/ NewGroupForm
  PROVE  Sound(m')
<1>1. PICK g \in Groups, r \in Group : m' = [m EXCEPT !.groups[g] = r]
  <2>1. CASE PanelCreateGroup
    <3>1. PICK ignore \in BOOLEAN, time \in Durations, g \in Groups :
            m' = [m EXCEPT !.groups[g] =
                   [created(@) EXCEPT !.ignore = ignore,
                                      !.time = IF ignore THEN IgnoredTime ELSE time]]
      BY <2>1, FirstUnusedType DEF PanelCreateGroup, Sound
    <3> DEFINE r == [created(m.groups[g]) EXCEPT !.ignore = ignore,
                       !.time = IF ignore THEN IgnoredTime ELSE time]
    <3>2. created(m.groups[g]) \in Group
      BY NamedGroups, GroupRecords DEF Sound
    <3>3. r \in Group
      BY <3>2, ConstantTimes DEF Group
    <3>4. m' = [m EXCEPT !.groups[g] = r]
      BY <3>1 DEF Sound, State
    <3> HIDE DEF r
    <3> QED BY <3>3, <3>4
  <2>2. CASE NewGroupForm
    <3>1. PICK g \in Groups : m' = [m EXCEPT !.groups[g] = [created(@) EXCEPT !.on = FALSE]]
      BY <2>2, FirstUnusedType DEF NewGroupForm, Sound
    <3> DEFINE r == [created(m.groups[g]) EXCEPT !.on = FALSE]
    <3>2. created(m.groups[g]) \in Group
      BY NamedGroups, GroupRecords DEF Sound
    <3>3. r \in Group
      BY <3>2 DEF Group
    <3>4. m' = [m EXCEPT !.groups[g] = r]
      BY <3>1 DEF Sound, State
    <3> HIDE DEF r
    <3> QED BY <3>3, <3>4
  <2> QED BY <2>1, <2>2
<1> QED BY <1>1, OneGroupSound

LEMMA ModifySound ==
  ASSUME Sound(m), PanelModifyGroup
  PROVE  Sound(m')
<1>1. PICK g \in named(m), ignore \in BOOLEAN, time \in Durations :
        LET modified == [m EXCEPT !.groups[g].ignore = ignore,
                                  !.groups[g].time = IF ignore THEN @ ELSE time]
        IN  m' = IF ignore /\ m.groups[g].on /\ m.groups[g].sleeping
                   THEN turnOnGroups(modified, {g}) ELSE modified
  BY DEF PanelModifyGroup
<1> DEFINE modified == [m EXCEPT !.groups[g].ignore = ignore,
                                 !.groups[g].time = IF ignore THEN @ ELSE time]
           r == [m.groups[g] EXCEPT !.ignore = ignore,
                                    !.time = IF ignore THEN @ ELSE time]
<1>2. g \in Groups /\ m \in State /\ m.groups[g] \in Group
  BY NamedGroups DEF Sound
<1>3. r \in Group
  BY <1>2, ConstantTimes DEF Group
<1>4. modified = [m EXCEPT !.groups[g] = r]
  BY <1>2 DEF State, Group
<1> HIDE DEF r
<1>5. Sound(modified)
  BY <1>2, <1>3, <1>4, OneGroupSound
<1>6. m' = modified \/ m' = turnOnGroups(modified, {g})
  BY <1>1
<1> HIDE DEF modified
<1> QED BY <1>2, <1>5, <1>6, OrderSound

LEMMA DeleteSound ==
  ASSUME Sound(m), PanelDeleteGroup \/ DeleteRelayGroup
  PROVE  Sound(m')
<1>1. PICK g \in Groups : m' = [m EXCEPT !.groups[g].connected = FALSE]
  BY NamedGroups DEF PanelDeleteGroup, DeleteRelayGroup, Sound
<1> DEFINE r == [m.groups[g] EXCEPT !.connected = FALSE]
<1>2. r \in Group
  BY NamedGroups DEF Sound, Group
<1>3. m' = [m EXCEPT !.groups[g] = r]
  BY <1>1 DEF Sound, State
<1> HIDE DEF r
<1> QED BY <1>2, <1>3, OneGroupSound

LEMMA SettingsSound ==
  ASSUME Sound(m), SlavePirChanges \/ PanelPirSettings \/ DisconnectMasterDht
  PROVE  Sound(m')
<1>1. CASE SlavePirChanges
  <2>1. PICK b \in BOOLEAN : m' = [m EXCEPT !.slavePir = b]
    BY <1>1 DEF SlavePirChanges
  <2>2. m' \in State /\ SameAlarms(m, m')
    BY <2>1 DEF Sound, State, SameAlarms
  <2> QED BY <2>2, SoundKept
<1>2. CASE PanelPirSettings
  <2>1. PICK i \in Nat : m' = [m EXCEPT !.pir.inactivity = i]
    BY <1>2, ConstantTimes DEF PanelPirSettings
  <2>2. m' \in State /\ SameAlarms(m, m')
    BY <2>1 DEF Sound, State, Pir, SameAlarms
  <2> QED BY <2>2, SoundKept
<1>3. CASE DisconnectMasterDht
  <2>1. m' \in State /\ SameAlarms(m, m')
    BY <1>3 DEF DisconnectMasterDht, Sound, State, SameAlarms
  <2> QED BY <2>1, SoundKept
<1> QED BY <1>1, <1>2, <1>3

LEMMA DisconnectSound ==
  ASSUME NEW s, Sound(s)
  PROVE  Sound(disconnectMasterPir(s))
<1> DEFINE t == turnOffPir(s)
           off == [t EXCEPT !.pir.connected = FALSE]
           sleepers == {g \in connectedGroups(off) :
                          off.groups[g].on /\ off.groups[g].sleeping}
<1>1. Sound(t)
  BY TurnOffPir
<1> HIDE DEF t
<1>2. off \in State /\ SameAlarms(t, off)
  BY <1>1 DEF Sound, State, Pir, SameAlarms
<1>3. Sound(off)
  BY <1>1, <1>2, SoundKept
<1> HIDE DEF off
<1>4. sleepers \subseteq Groups
  BY DEF connectedGroups
<1> HIDE DEF sleepers
<1>5. Sound(turnOnGroups(off, sleepers))
  BY <1>3, <1>4, OrderSound
<1> QED BY <1>3, <1>5 DEF disconnectMasterPir, t, off, sleepers

LEMMA ConnectSound ==
  ASSUME Sound(m), ConnectMasterPir
  PROVE  Sound(m')
<1>1. PICK high \in BOOLEAN, dht \in BOOLEAN :
        LET c == [m EXCEPT !.pir.connected = TRUE, !.dht = dht]
        IN  m' = turnOnPir(c, high) \/ m' = c
  BY DEF ConnectMasterPir, Sound, State
<1> DEFINE c == [m EXCEPT !.pir.connected = TRUE, !.dht = dht]
<1>2. c \in State /\ SameAlarms(m, c)
  BY DEF Sound, State, Pir, SameAlarms
<1>3. m' = turnOnPir(c, high) \/ m' = c
  BY <1>1
<1> HIDE DEF c
<1> QED BY <1>2, <1>3, SoundKept, TurnOnPirSound

\* A slot the DHT takes was free, so no other alarm is disturbed.
LEMMA DhtSound ==
  ASSUME Sound(m), ConnectMasterDht
  PROVE  Sound(m')
<1>1. PICK off \in {m, disconnectMasterPir(m)} :
        m' = [off EXCEPT !.dht = TRUE,
                         !.pool = armed(@, allotted(@, 10), "ambient")]
  BY DEF ConnectMasterDht
<1>2. Sound(off)
  BY DisconnectSound
<1> DEFINE id == allotted(off.pool, 10)
           pool == armed(off.pool, id, "ambient")
<1>3. off \in State /\ OursIn(off) /\ QuietIn(off) /\ off.pool \in [Slots -> Use]
  BY <1>2, StatePool DEF Sound
<1>4. /\ id \in Slots \cup {InvalidId}
      /\ id \in Slots => off.pool[id] = "free"
  BY <1>3, AllottedIsFree
<1> HIDE DEF id
<1>5. /\ pool \in [Slots -> Use]
      /\ \A u \in Slots : pool[u] = IF u = id THEN "ambient" ELSE off.pool[u]
  BY <1>3, ArmedType DEF Use
<1>6. m' = [off EXCEPT !.dht = TRUE, !.pool = pool]
  BY <1>1 DEF id
<1> HIDE DEF pool
<1>7. /\ m' \in State /\ m'.pool = pool /\ m'.motionAlarm = off.motionAlarm
      /\ m'.enablePirAlarm = off.enablePirAlarm /\ m'.pir = off.pir
  BY <1>3, <1>5, <1>6 DEF State, Use
<1>8. OursIn(m')
  BY <1>3, <1>4, <1>5, <1>7 DEF OursIn, MotionIn
<1> QED BY <1>3, <1>7, <1>8 DEF Sound, QuietIn
-----------------------------------------------------------------------------
(* loop() and the timers *)

LEMMA LoopSound ==
  ASSUME Sound(m), Loop
  PROVE  Sound(m')
<1>1. PICK high \in BOOLEAN : \E junk \in JunkGroup :
        m' = checkPir(detectMotion(m, high), junk)
  BY JunkType DEF Loop
<1>2. Sound(detectMotion(m, high))
  BY DetectMotionKeeps, SoundKept DEF Sound
<1> QED BY <1>1, <1>2, CheckPir

LEMMA SlaveMotionSound ==
  ASSUME Sound(m), DetectSlaveMotion
  PROVE  Sound(m')
<1>1. CASE m.pir.disabled
  BY <1>1 DEF DetectSlaveMotion
<1>2. CASE ~m.pir.disabled
  <2>1. m' = [m EXCEPT !.pir.slaveMotion = TRUE]
    BY <1>2 DEF DetectSlaveMotion
  <2>2. m' \in State /\ SameAlarms(m, m')
    BY <2>1 DEF Sound, State, Pir, SameAlarms
  <2> QED BY <2>2, SoundKept
<1> QED BY <1>1, <1>2

LEMMA SleepSound ==
  ASSUME Sound(m), SleepGroups
  PROVE  Sound(m')
<1>1. PICK slot \in Slots, junk \in JunkGroup :
        /\ m.pool[slot] = "motion"
        /\ m' = sleepGroups([m EXCEPT !.pool = freed(@, slot)], junk)
  BY JunkType DEF SleepGroups
<1> QED BY <1>1, SleepGroupsSound

LEMMA EnableSound ==
  ASSUME Sound(m), EnablePir
  PROVE  Sound(m')
<1>1. PICK slot \in Slots :
        /\ m.pool[slot] = "enable"
        /\ m' = enablePir([m EXCEPT !.pool = freed(@, slot)])
  BY DEF EnablePir
<1> DEFINE pool == freed(m.pool, slot)
<1>2. m \in State /\ OursIn(m) /\ QuietIn(m)
  BY DEF Sound
<1>3. /\ pool \in [Slots -> Use]
      /\ \A t \in Slots : pool[t] = IF t = slot THEN "free" ELSE m.pool[t]
  BY <1>2, StatePool, FreedType
<1>4. m' = [[m EXCEPT !.pool = pool]
              EXCEPT !.pir.disabled = FALSE, !.enablePirAlarm = NotSet]
  BY <1>1 DEF enablePir
<1> HIDE DEF pool
<1>5. /\ m' \in State /\ m'.pool = pool /\ m'.motionAlarm = m.motionAlarm
      /\ m'.enablePirAlarm = NotSet /\ m'.pir.on = m.pir.on
      /\ m'.pir.sleeping = m.pir.sleeping
  BY <1>2, <1>3, <1>4, Ids DEF State, Use, Pir
<1>6. OursIn(m')
  BY <1>1, <1>2, <1>3, <1>5, Ids DEF OursIn, MotionIn
<1> QED BY <1>2, <1>5, <1>6 DEF Sound, QuietIn

\* Setting the clock frees only what the ids name, and arms it again.
LEMMA ResetSound ==
  ASSUME Sound(m), ResetAlarms
  PROVE  Sound(m')
<1> DEFINE f == freeMotionAlarm(m)
           motion == IF m.motionAlarm = NotSet THEN m ELSE setMotionAlarm(f, m.current)
           pool == freed(motion.pool, motion.enablePirAlarm)
           enable == [motion EXCEPT !.pool = pool]
<1>1. m \in State /\ OursIn(m) /\ QuietIn(m) /\ m.current \in Nat
  BY DEF Sound, State
<1>2. Sound(motion)
  <2>1. CASE m.motionAlarm = NotSet
    BY <2>1
  <2>2. CASE m.motionAlarm # NotSet
    <3>1. f \in State /\ OursIn(f) /\ NoMotion(f) /\ f.pir.on
      BY <1>1, <2>2, FreeMotionAlarm DEF QuietIn
    <3> HIDE DEF f
    <3>2. Sound(setMotionAlarm(f, m.current))
      BY <1>1, <3>1, SetMotionAlarm DEF Sound, QuietIn
    <3> QED BY <2>2, <3>2
  <2> QED BY <2>1, <2>2
<1>3. m' = motion \/ m' = setEnablePirAlarm(enable)
  BY DEF ResetAlarms
<1> HIDE DEF motion
<1>4. motion \in State /\ OursIn(motion) /\ QuietIn(motion)
  BY <1>2 DEF Sound
<1>5. /\ pool \in [Slots -> Use]
      /\ \A t \in Slots : pool[t] = IF t = motion.enablePirAlarm THEN "free"
                                    ELSE motion.pool[t]
  BY <1>4, StatePool, FreedType
<1> HIDE DEF pool
<1>6. /\ enable \in State /\ enable.pool = pool
      /\ enable.motionAlarm = motion.motionAlarm
      /\ enable.enablePirAlarm = motion.enablePirAlarm /\ enable.pir = motion.pir
  BY <1>4, <1>5 DEF State, Use
<1> HIDE DEF enable
<1>7. MotionIn(enable)
  BY <1>4, <1>5, <1>6 DEF OursIn, MotionIn
<1>8. Sound(setEnablePirAlarm(enable))
  BY <1>4, <1>6, <1>7, SetEnablePirAlarm DEF Sound, QuietIn
<1> QED BY <1>2, <1>3, <1>8
-----------------------------------------------------------------------------
(* Starting *)

LEMMA FreshGroups == NewGroup \in Group /\ DefaultGroup \in Group
BY ConstantTimes DEF NewGroup, DefaultGroup, Group

LEMMA NewPirType ==
  ASSUME NEW c \in BOOLEAN, NEW i \in Nat
  PROVE  NewPir(c, i) \in Pir /\ ~NewPir(c, i).on /\ ~NewPir(c, i).sleeping
BY ConstantTimes DEF NewPir, Pir

LEMMA BootedSound ==
  ASSUME NEW groups \in [Groups -> Group], NEW pir \in Pir, NEW dht \in BOOLEAN,
         ~pir.sleeping
  PROVE  Sound(Booted(groups, pir, dht))
<1> DEFINE pool == [s \in Slots |-> IF dht /\ s = 1 THEN "ambient" ELSE "free"]
           b == Booted(groups, pir, dht)
<1>1. pool \in [Slots -> Use] /\ \A s \in Slots : pool[s] # "motion"
  BY DEF Use
<1>2. /\ b.pool = pool /\ b.motionAlarm = NotSet /\ b.enablePirAlarm = NotSet
      /\ b.pir = pir
  BY DEF Booted
<1>3. b \in State
  BY <1>1, Ids DEF Booted, State, Use
<1> HIDE DEF b, pool
<1>4. MotionIn(b)
  BY <1>1, <1>2, Ids DEF MotionIn
<1>5. Sound(b)
  BY <1>2, <1>3, <1>4, Ids DEF Sound, OursIn, QuietIn
<1> QED BY <1>5 DEF b

LEMMA InitSound == Init => Sound(m)
<1> SUFFICES ASSUME Init PROVE Sound(m)
  OBVIOUS
<1> DEFINE groups == [g \in Groups |-> IF g = 0 THEN DefaultGroup ELSE NewGroup]
<1>1. groups \in [Groups -> Group]
  BY FreshGroups
<1>2. PICK pir \in BOOLEAN, inactivity \in Nat :
        m = Booted(groups, NewPir(pir, inactivity), FALSE)
  BY ConstantTimes DEF Init
<1> HIDE DEF groups
<1> QED BY <1>1, <1>2, NewPirType, BootedSound

LEMMA RebootedType ==
  ASSUME NEW g \in Groups, NEW r \in Group
  PROVE  rebooted(g, r) \in Group
<1> DEFINE fresh == IF g = 0 THEN DefaultGroup ELSE NewGroup
           time == IF r.connected /\ ~r.ignore THEN r.time % TimeWidth ELSE fresh.time
<1>1. fresh \in Group
  BY FreshGroups
<1> HIDE DEF fresh
<1>2. r.time % TimeWidth \in Nat
  BY GroupConstants DEF GroupConstants, Group
<1>3. time \in Nat
  BY <1>1, <1>2 DEF Group
<1>4. rebooted(g, r) =
        [fresh EXCEPT !.connected = fresh.connected \/ r.connected,
                      !.named = fresh.named \/ r.connected,
                      !.scheduled = fresh.scheduled \/ r.scheduled,
                      !.ignore = r.connected /\ r.ignore, !.time = time]
  BY <1>1 DEF rebooted, fresh, Group
<1> HIDE DEF time
<1>5. /\ (fresh.connected \/ r.connected) \in BOOLEAN
      /\ (fresh.named \/ r.connected) \in BOOLEAN
      /\ (fresh.scheduled \/ r.scheduled) \in BOOLEAN
      /\ (r.connected /\ r.ignore) \in BOOLEAN
  BY <1>1 DEF Group
<1> QED BY <1>1, <1>3, <1>4, <1>5 DEF Group

LEMMA RestartSound ==
  ASSUME Sound(m), Restart
  PROVE  Sound(m')
<1> DEFINE groups == [g \in Groups |-> rebooted(g, m.groups[g])]
<1>1. m \in State /\ m.dht \in BOOLEAN
      /\ m.pir.connected \in BOOLEAN /\ m.pir.inactivity \in Nat
  BY DEF Sound, State, Pir
<1>2. groups \in [Groups -> Group]
  BY <1>1, NamedGroups, RebootedType
<1>3. m' = Booted(groups, NewPir(m.pir.connected, m.pir.inactivity), m.dht)
  BY DEF Restart
<1> HIDE DEF groups
<1> QED BY <1>1, <1>2, <1>3, NewPirType, BootedSound
-----------------------------------------------------------------------------
(* The invariant *)

LEMMA NextSound == Sound(m) /\ [Next]_m => Sound(m)'
<1> SUFFICES ASSUME Sound(m), [Next]_m
             PROVE  Sound(m')
  OBVIOUS
<1>1. CASE TurnOnEverything \/ TurnOffEverything
  BY <1>1, EverythingSound
<1>2. CASE PanelTurnOnGroup \/ TurnOnGroupEvent \/ ManualTurnOnGroup
  BY <1>2, TurnOnSound
<1>3. CASE TurnOffGroupEvent \/ ManualTurnOffGroup
  BY <1>3, TurnOffSound
<1>4. CASE PanelCreateGroup \/ NewGroupForm
  BY <1>4, CreateSound
<1>5. CASE PanelModifyGroup
  BY <1>5, ModifySound
<1>6. CASE PanelDeleteGroup \/ DeleteRelayGroup
  BY <1>6, DeleteSound
<1>7. CASE Loop
  BY <1>7, LoopSound
<1>8. CASE DetectSlaveMotion
  BY <1>8, SlaveMotionSound
<1>9. CASE SleepGroups
  BY <1>9, SleepSound
<1>10. CASE EnablePir
  BY <1>10, EnableSound
<1>11. CASE ResetAlarms
  BY <1>11, ResetSound
<1>12. CASE ConnectMasterPir
  BY <1>12, ConnectSound
<1>13. CASE DisconnectMasterPir
  BY <1>13, DisconnectSound DEF DisconnectMasterPir
<1>14. CASE ConnectMasterDht
  BY <1>14, DhtSound
<1>15. CASE SlavePirChanges \/ PanelPirSettings \/ DisconnectMasterDht
  BY <1>15, SettingsSound
<1>16. CASE Restart
  BY <1>16, RestartSound
<1>17. CASE UNCHANGED m
  BY <1>17
<1> QED BY <1>1, <1>2, <1>3, <1>4, <1>5, <1>6, <1>7, <1>8, <1>9, <1>10, <1>11, <1>12,
           <1>13, <1>14, <1>15, <1>16, <1>17 DEF Next

LEMMA AlwaysSound == Spec => []Sound(m)
BY InitSound, NextSound, PTL DEF Spec

\* The master's globals keep their types: in particular sleepGroups never arms
\* an alarm for a time that has passed, whatever groups it puts to sleep.
THEOREM GroupTypes == Spec => []TypeOK
<1>1. Sound(m) => TypeOK
  BY DEF Sound, TypeOK
<1> QED BY <1>1, AlwaysSound, PTL

\* Whoever arms, frees or rearms the alarms, motionAlarm is the only alarm that
\* puts groups to sleep and enablePirAlarm names no alarm of somebody else.
THEOREM AlarmsStayOurs == Spec => []AlarmsAreOurs
<1>1. Sound(m) => AlarmsAreOurs
  <2> SUFFICES ASSUME Sound(m) PROVE AlarmsAreOurs
    OBVIOUS
  <2>1. {s \in Slots : m.pool[s] = "motion"} = {m.motionAlarm} \cap Slots
    BY DEF Sound, OursIn, MotionIn
  <2> QED BY <2>1 DEF Sound, OursIn, AlarmsAreOurs
<1> QED BY <1>1, AlwaysSound, PTL

\* PIRs that are turned off leave no alarm and no sleep behind.
THEOREM OffStaysQuiet == Spec => []OffIsQuiet
<1>1. Sound(m) => OffIsQuiet
  BY DEF Sound, QuietIn, OffIsQuiet
<1> QED BY <1>1, AlwaysSound, PTL
-----------------------------------------------------------------------------
(* Why the PIR does not stay disabled *)

\* The alarms that put groups to sleep take one slot at most.  While no DHT takes
\* others, the timer that enables the PIR finds one of the two or more slots free,
\* or all but one hold timers that enable it already.

\* No timer of a DHT is in the pool, nor will be.
Unshared(s) ==
  /\ {"pool", "pir", "dht", "motionAlarm"} \subseteq DOMAIN s
  /\ {"disabled", "inactivity"} \subseteq DOMAIN s.pir
  /\ s.pool \in [Slots -> {"free", "motion", "enable"}]
  /\ s.pir.inactivity \in Nat
  /\ ~s.dht

WillHear(s) == \E t \in Slots : s.pool[t] = "enable"

\* An inactivity time of 0 arms no timer when the clock is set.
Hears(s) ==
  /\ Unshared(s)
  /\ s.pir.disabled => WillHear(s)
  /\ "CLOCK" \in Uses /\ s.pir.inactivity = 0 => ~s.pir.disabled

KeepsHearing(s, t) ==
  /\ Unshared(s) => Unshared(t)
  /\ Hears(s) => Hears(t)

\* Whatever leaves the pool, the PIR's disabled and its inactivity alone.
LEMMA HearingKept ==
  ASSUME NEW s, NEW t,
         Unshared(s) => /\ DOMAIN s \subseteq DOMAIN t
                        /\ DOMAIN s.pir \subseteq DOMAIN t.pir
                        /\ t.pool = s.pool /\ t.dht = s.dht
                        /\ t.pir.disabled = s.pir.disabled
                        /\ t.pir.inactivity = s.pir.inactivity
  PROVE  KeepsHearing(s, t)
<1>1. ASSUME Unshared(s) PROVE Unshared(t)
  BY <1>1 DEF Unshared
<1>2. ASSUME Hears(s) PROVE Hears(t)
  BY <1>2, <1>1 DEF Hears, Unshared, WillHear
<1> QED BY <1>1, <1>2 DEF KeepsHearing

LEMMA ChangedKeepsHearing ==
  ASSUME NEW s, NEW new
  PROVE  KeepsHearing(s, changed(s, new))
<1> DEFINE groups == [g \in Groups |-> IF g \in DOMAIN new THEN new[g] ELSE s.groups[g]]
           t == [s EXCEPT !.groups = groups]
<1>1. changed(s, new) = t
  BY DEF changed
<1> HIDE DEF groups
<1>2. Unshared(s) => /\ DOMAIN s \subseteq DOMAIN t
                     /\ t.pool = s.pool /\ t.dht = s.dht /\ t.pir = s.pir
  BY DEF Unshared
<1> HIDE DEF t
<1> QED BY <1>1, <1>2, HearingKept

LEMMA OrdersKeepHearing ==
  ASSUME NEW s, NEW G
  PROVE  /\ KeepsHearing(s, turnOnGroups(s, G)) /\ KeepsHearing(s, sleepGroup(s, G))
         /\ KeepsHearing(s, orderOn(s, G)) /\ KeepsHearing(s, orderOff(s, G))
BY ChangedKeepsHearing DEF turnOnGroups, sleepGroup, orderOn, orderOff

LEMMA PirKeepsHearing ==
  ASSUME NEW s, NEW pir,
         Unshared(s) => /\ DOMAIN s.pir \subseteq DOMAIN pir
                        /\ pir.disabled = s.pir.disabled
                        /\ pir.inactivity = s.pir.inactivity
  PROVE  KeepsHearing(s, [s EXCEPT !.pir = pir])
<1> DEFINE t == [s EXCEPT !.pir = pir]
<1>1. Unshared(s) => /\ DOMAIN s \subseteq DOMAIN t
                     /\ t.pool = s.pool /\ t.dht = s.dht /\ t.pir = pir
  BY DEF Unshared
<1> HIDE DEF t
<1>2. KeepsHearing(s, t)
  BY <1>1, HearingKept
<1> QED BY <1>2 DEF t

LEMMA TurnOnPirKeepsHearing ==
  ASSUME NEW s, NEW high
  PROVE  KeepsHearing(s, turnOnPir(s, high))
<1> DEFINE pir == [s.pir EXCEPT !.on = TRUE,
                                !.motion = IF s.pir.connected THEN high ELSE @]
           t == turnOnPir(s, high)
<1>1. Unshared(s) => t = s \/ t = [s EXCEPT !.pir = pir]
  BY DEF turnOnPir, Unshared
<1>2. Unshared(s) => /\ DOMAIN s.pir \subseteq DOMAIN pir
                     /\ pir.disabled = s.pir.disabled
                     /\ pir.inactivity = s.pir.inactivity
  BY DEF Unshared
<1> HIDE DEF pir, t
<1>3. KeepsHearing(s, [s EXCEPT !.pir = pir])
  BY <1>2, PirKeepsHearing
<1>4. KeepsHearing(s, t)
  BY <1>1, <1>3 DEF KeepsHearing, Hears
<1> QED BY <1>4 DEF t

LEMMA DetectMotionKeepsHearing ==
  ASSUME NEW s, NEW high
  PROVE  KeepsHearing(s, detectMotion(s, high))
<1> DEFINE pir == [s.pir EXCEPT !.motion = high]
           t == detectMotion(s, high)
<1>1. Unshared(s) => t = s \/ t = [s EXCEPT !.pir = pir]
  BY DEF detectMotion, Unshared
<1>2. Unshared(s) => /\ DOMAIN s.pir \subseteq DOMAIN pir
                     /\ pir.disabled = s.pir.disabled
                     /\ pir.inactivity = s.pir.inactivity
  BY DEF Unshared
<1> HIDE DEF pir, t
<1>3. KeepsHearing(s, [s EXCEPT !.pir = pir])
  BY <1>2, PirKeepsHearing
<1>4. KeepsHearing(s, t)
  BY <1>1, <1>3 DEF KeepsHearing, Hears
<1> QED BY <1>4 DEF t

LEMMA WakeKeepsHearing ==
  ASSUME NEW s
  PROVE  KeepsHearing(s, wakeGroups(s))
<1> DEFINE sleepers == {g \in connectedGroups(s) : s.groups[g].sleeping}
           c == changed(s, [g \in sleepers |-> awakened(s.groups[g])])
           pir == [c.pir EXCEPT !.sleeping = FALSE]
           t == wakeGroups(s)
<1>1. KeepsHearing(s, c)
  BY ChangedKeepsHearing
<1>2. t = s \/ t = [c EXCEPT !.pir.sleeping = FALSE]
  BY DEF wakeGroups
<1> HIDE DEF c, t
<1>3. Unshared(c) => t = s \/ t = [c EXCEPT !.pir = pir]
  BY <1>2 DEF Unshared
<1>4. Unshared(c) => /\ DOMAIN c.pir \subseteq DOMAIN pir
                     /\ pir.disabled = c.pir.disabled
                     /\ pir.inactivity = c.pir.inactivity
  BY DEF Unshared
<1> HIDE DEF pir
<1>5. KeepsHearing(c, [c EXCEPT !.pir = pir])
  BY <1>4, PirKeepsHearing
<1>6. KeepsHearing(s, t)
  BY <1>1, <1>3, <1>5 DEF KeepsHearing, Hears
<1> QED BY <1>6 DEF t

LEMMA NextKeepsHearing ==
  ASSUME NEW s, NEW next
  PROVE  KeepsHearing(s, [s EXCEPT !.pir.next = next])
<1> DEFINE pir == [s.pir EXCEPT !.next = next]
           t == [s EXCEPT !.pir.next = next]
<1>1. Unshared(s) => t = [s EXCEPT !.pir = pir]
  BY DEF Unshared
<1>2. Unshared(s) => /\ DOMAIN s.pir \subseteq DOMAIN pir
                     /\ pir.disabled = s.pir.disabled
                     /\ pir.inactivity = s.pir.inactivity
  BY DEF Unshared
<1> HIDE DEF pir, t
<1>3. KeepsHearing(s, [s EXCEPT !.pir = pir])
  BY <1>2, PirKeepsHearing
<1>4. KeepsHearing(s, t)
  BY <1>1, <1>3 DEF KeepsHearing, Hears
<1> QED BY <1>4 DEF t

\* The alarm that puts groups to sleep takes a slot that is free, ...
LEMMA MotionAlarmKeepsHearing ==
  ASSUME NEW s, NEW seconds
  PROVE  KeepsHearing(s, setMotionAlarm(s, seconds))
<1> SUFFICES ASSUME Unshared(s)
             PROVE  KeepsHearing(s, setMotionAlarm(s, seconds))
  BY DEF KeepsHearing, Hears
<1> DEFINE id == allotted(s.pool, seconds)
           pool == armed(s.pool, id, "motion")
           t == [s EXCEPT !.motionAlarm = id, !.pool = pool, !.current = seconds]
<1>1. s.pool \in [Slots -> Use]
  BY DEF Unshared, Use
<1>2. id \in Slots => s.pool[id] = "free"
  BY <1>1, AllottedIsFree
<1> HIDE DEF id
<1>3. /\ pool \in [Slots -> {"free", "motion", "enable"}]
      /\ \A u \in Slots : pool[u] = IF u = id THEN "motion" ELSE s.pool[u]
  BY DEF Unshared, armed
<1> HIDE DEF pool
<1>4. /\ DOMAIN t = DOMAIN s /\ t.pool = pool /\ t.dht = s.dht /\ t.pir = s.pir
  BY DEF Unshared
<1>5. setMotionAlarm(s, seconds) = t
  BY DEF setMotionAlarm, id, pool
<1> HIDE DEF t
<1>6. Unshared(t)
  BY <1>3, <1>4 DEF Unshared
<1>7. WillHear(s) => WillHear(t)
  BY <1>2, <1>3, <1>4 DEF WillHear
<1> QED BY <1>4, <1>5, <1>6, <1>7 DEF KeepsHearing, Hears

\* ... and leaves its own.
LEMMA FreedMotionKeepsHearing ==
  ASSUME NEW s, MotionIn(s)
  PROVE  KeepsHearing(s, freeMotionAlarm(s))
<1> SUFFICES ASSUME Unshared(s)
             PROVE  KeepsHearing(s, freeMotionAlarm(s))
  BY DEF KeepsHearing, Hears
<1> DEFINE pool == freed(s.pool, s.motionAlarm)
           t == [s EXCEPT !.pool = pool, !.motionAlarm = NotSet]
<1>1. /\ pool \in [Slots -> {"free", "motion", "enable"}]
      /\ \A u \in Slots : pool[u] = IF u = s.motionAlarm THEN "free" ELSE s.pool[u]
  BY DEF Unshared, freed, armed
<1> HIDE DEF pool
<1>2. /\ DOMAIN t = DOMAIN s /\ t.pool = pool /\ t.dht = s.dht /\ t.pir = s.pir
  BY DEF Unshared
<1>3. freeMotionAlarm(s) = t
  BY DEF freeMotionAlarm, pool
<1> HIDE DEF t
<1>4. Unshared(t)
  BY <1>1, <1>2 DEF Unshared
<1>5. WillHear(s) => WillHear(t)
  BY <1>1, <1>2 DEF WillHear, MotionIn
<1> QED BY <1>2, <1>3, <1>4, <1>5 DEF KeepsHearing, Hears

LEMMA TurnOffKeepsHearing ==
  ASSUME NEW s, MotionIn(s)
  PROVE  KeepsHearing(s, turnOffPir(s))
<1> DEFINE f == freeMotionAlarm(s)
           pir == [f.pir EXCEPT !.on = FALSE, !.sleeping = FALSE]
           t == turnOffPir(s)
<1>1. KeepsHearing(s, f)
  BY FreedMotionKeepsHearing
<1>2. t = s \/ t = [f EXCEPT !.pir.on = FALSE, !.pir.sleeping = FALSE]
  BY DEF turnOffPir
<1> HIDE DEF f, t
<1>3. Unshared(f) => t = s \/ t = [f EXCEPT !.pir = pir]
  BY <1>2 DEF Unshared
<1>4. Unshared(f) => /\ DOMAIN f.pir \subseteq DOMAIN pir
                     /\ pir.disabled = f.pir.disabled
                     /\ pir.inactivity = f.pir.inactivity
  BY DEF Unshared
<1> HIDE DEF pir
<1>5. KeepsHearing(f, [f EXCEPT !.pir = pir])
  BY <1>4, PirKeepsHearing
<1>6. KeepsHearing(s, t)
  BY <1>1, <1>3, <1>5 DEF KeepsHearing, Hears
<1> QED BY <1>6 DEF t

\* For whatever reason the PIR is to be enabled in a while, it will be.
LEMMA EnableAlarmHears ==
  ASSUME NEW s, Unshared(s), MotionIn(setEnablePirAlarm(s))
  PROVE  /\ Unshared(setEnablePirAlarm(s))
         /\ s.pir.inactivity # 0 => WillHear(setEnablePirAlarm(s))
         /\ setEnablePirAlarm(s).pir = s.pir
<1> DEFINE id == allotted(s.pool, s.pir.inactivity)
           pool == armed(s.pool, id, "enable")
           t == [s EXCEPT !.enablePirAlarm = id, !.pool = pool]
<1>1. /\ pool \in [Slots -> {"free", "motion", "enable"}]
      /\ \A u \in Slots : pool[u] = IF u = id THEN "enable" ELSE s.pool[u]
  BY DEF Unshared, armed
<1>2. setEnablePirAlarm(s) = t
  BY DEF setEnablePirAlarm
<1>3. ASSUME s.pir.inactivity # 0, id \notin Slots
      PROVE  \A u \in Slots : s.pool[u] # "free"
  <2>1. ~(s.pir.inactivity <= 0)
    BY <1>3 DEF Unshared
  <2>2. CASE free(s.pool) = {}
    BY <2>2 DEF free
  <2>3. CASE free(s.pool) # {}
    <3>1. free(s.pool) \subseteq Slots /\ free(s.pool) \subseteq Nat
      BY Ids DEF free
    <3>2. \E k \in free(s.pool) : \A j \in free(s.pool) : k <= j
      BY <2>3, <3>1, LeastExists
    <3>3. id \in free(s.pool)
      BY <2>1, <2>3, <3>2 DEF allotted
    <3> QED BY <1>3, <3>1, <3>3
  <2> QED BY <2>2, <2>3
<1> HIDE DEF id
<1> HIDE DEF pool
<1>4. DOMAIN t = DOMAIN s /\ t.pool = pool /\ t.dht = s.dht /\ t.pir = s.pir
  BY DEF Unshared
<1>5. \A u, v \in Slots : t.pool[u] = "motion" /\ t.pool[v] = "motion" => u = v
  BY <1>2 DEF MotionIn
<1> HIDE DEF t
<1>6. ASSUME s.pir.inactivity # 0 PROVE WillHear(t)
  <2>1. CASE id \in Slots
    BY <1>1, <1>4, <2>1 DEF WillHear
  <2>2. CASE id \notin Slots
    <3>1. 1 \in Slots /\ 2 \in Slots
      BY GroupConstants DEF GroupConstants, Slots
    <3>2. \A u \in Slots : t.pool[u] \in {"motion", "enable"}
      BY <1>1, <1>3, <1>4, <1>6, <2>2
    <3>3. t.pool[1] = "enable" \/ t.pool[2] = "enable"
      BY <1>5, <3>1, <3>2
    <3> QED BY <3>1, <3>3 DEF WillHear
  <2> QED BY <2>1, <2>2
<1>7. Unshared(t)
  BY <1>1, <1>4 DEF Unshared
<1> QED BY <1>2, <1>4, <1>6, <1>7

\* Neither does loop() lose what enables the PIR, ...
LEMMA CheckPirKeepsHearing ==
  ASSUME NEW s, MotionIn(s), NEW junk
  PROVE  KeepsHearing(s, checkPir(s, junk))
<1>1. CASE ~motionSeen(s)
  BY <1>1 DEF checkPir, KeepsHearing
<1>2. CASE motionSeen(s)
  <2> SUFFICES ASSUME Unshared(s)
               PROVE  KeepsHearing(s, checkPir(s, junk))
    BY DEF KeepsHearing, Hears
  <2> DEFINE pir == [s.pir EXCEPT !.motion = FALSE,
                                  !.slaveMotion = s.pir.slaveMotion /\ s.pir.motion]
             heeded == [s EXCEPT !.pir.motion = FALSE,
                                 !.pir.slaveMotion = @ /\ s.pir.motion]
             freed1 == freeMotionAlarm(heeded)
             woken  == wakeGroups(freed1)
             next   == getNextSleepingGroup(woken)
             chosen == [woken EXCEPT !.pir.next = next]
             time   == groupAt(woken, next, junk).time
  <2>1. heeded = [s EXCEPT !.pir = pir]
    BY DEF Unshared
  <2>2. /\ DOMAIN s.pir \subseteq DOMAIN pir
        /\ pir.disabled = s.pir.disabled /\ pir.inactivity = s.pir.inactivity
    BY DEF Unshared
  <2> HIDE DEF pir
  <2>3. KeepsHearing(s, heeded)
    BY <2>1, <2>2, PirKeepsHearing
  <2>4. heeded.pool = s.pool /\ heeded.motionAlarm = s.motionAlarm
    BY <2>1 DEF Unshared
  <2>5. MotionIn(heeded)
    BY <2>4 DEF MotionIn
  <2> HIDE DEF heeded
  <2>6. KeepsHearing(heeded, freed1)
    BY <2>5, FreedMotionKeepsHearing
  <2> HIDE DEF freed1
  <2>7. KeepsHearing(freed1, woken)
    BY WakeKeepsHearing
  <2> HIDE DEF woken, next, time
  <2>8. KeepsHearing(woken, chosen)
    BY NextKeepsHearing
  <2> HIDE DEF chosen
  <2>9. KeepsHearing(chosen, setMotionAlarm(chosen, time))
    BY MotionAlarmKeepsHearing
  <2>10. checkPir(s, junk) = setMotionAlarm(chosen, time)
    BY <1>2 DEF checkPir, heeded, freed1, woken, next, chosen, time
  <2> QED BY <2>3, <2>6, <2>7, <2>8, <2>9, <2>10 DEF KeepsHearing
<1> QED BY <1>1, <1>2

\* ... nor putting groups to sleep, which disables it.
LEMMA SleepDueKeepsHearing ==
  ASSUME NEW s, NEW old, NEW oldGroup
  PROVE  KeepsHearing(s, sleepDue(s, old, oldGroup))
<1> DEFINE first == IF oldGroup.on /\ old \in Groups THEN sleepGroup(s, {old}) ELSE s
           due == {g \in choosable(first) : first.groups[g].time <= oldGroup.time}
<1>1. KeepsHearing(s, first)
  BY OrdersKeepHearing DEF KeepsHearing
<1>2. sleepDue(s, old, oldGroup) = sleepGroup(first, due)
  BY DEF sleepDue
<1> HIDE DEF first, due
<1>3. KeepsHearing(first, sleepGroup(first, due))
  BY OrdersKeepHearing
<1> QED BY <1>1, <1>2, <1>3 DEF KeepsHearing

LEMMA DisabledHears ==
  ASSUME NEW s, MotionIn(disabledForAWhile(s))
  PROVE  KeepsHearing(s, disabledForAWhile(s))
<1>1. CASE s.pir.inactivity = 0
  BY <1>1 DEF disabledForAWhile, KeepsHearing
<1>2. CASE s.pir.inactivity # 0
  <2> SUFFICES ASSUME Unshared(s)
               PROVE  KeepsHearing(s, disabledForAWhile(s))
    BY DEF KeepsHearing, Hears
  <2> DEFINE e == setEnablePirAlarm(s)
             pir == [e.pir EXCEPT !.disabled = TRUE]
             t == [e EXCEPT !.pir.disabled = TRUE]
  <2>1. disabledForAWhile(s) = t
    BY <1>2 DEF disabledForAWhile
  <2>2. {"pool", "pir", "dht", "motionAlarm"} \subseteq DOMAIN e /\ e.pir = s.pir
    BY DEF setEnablePirAlarm, Unshared
  <2> HIDE DEF e
  <2>3. t = [e EXCEPT !.pir = pir]
    BY <2>2
  <2>4. DOMAIN pir = DOMAIN s.pir /\ pir.inactivity = s.pir.inactivity
    BY <2>2 DEF Unshared
  <2> HIDE DEF pir
  <2>5. /\ DOMAIN t = DOMAIN e /\ t.pool = e.pool /\ t.dht = e.dht
        /\ t.motionAlarm = e.motionAlarm /\ t.pir = pir
    BY <2>2, <2>3
  <2> HIDE DEF t
  <2>6. MotionIn(e)
    BY <2>1, <2>5 DEF MotionIn
  <2>7. Unshared(e) /\ WillHear(e)
    BY <1>2, <2>6, EnableAlarmHears DEF e
  <2>8. Unshared(t)
    BY <2>2, <2>4, <2>5, <2>7 DEF Unshared
  <2>9. WillHear(t) /\ t.pir.inactivity # 0
    BY <1>2, <2>4, <2>5, <2>7 DEF WillHear
  <2> QED BY <2>1, <2>8, <2>9 DEF KeepsHearing, Hears
<1> QED BY <1>1, <1>2

LEMMA SleepKeepsHearing ==
  ASSUME NEW s, Sound(s), NEW slot \in Slots, s.pool[slot] = "motion",
         NEW junk \in JunkGroup, NEW t,
         t = sleepGroups([s EXCEPT !.pool = freed(@, slot)], junk)
  PROVE  KeepsHearing(s, t)
<1> SUFFICES ASSUME Unshared(s)
             PROVE  KeepsHearing(s, t)
  BY DEF KeepsHearing, Hears
<1> DEFINE rung  == [s EXCEPT !.pool = freed(@, slot)]
           pool  == freed(s.pool, slot)
           start == [rung EXCEPT !.motionAlarm = NotSet, !.pir.sleeping = TRUE]
           pir   == [rung.pir EXCEPT !.sleeping = TRUE]
           old   == rung.pir.next
           oldGroup == groupAt(rung, old, junk)
           slept == sleepDue(start, old, oldGroup)
           next  == getNextSleepingGroup(slept)
           chosen == [slept EXCEPT !.pir.next = next]
           left  == slept.groups[next].time - oldGroup.time
           armed1 == IF next = NoGroup THEN slept ELSE setMotionAlarm(chosen, left)
<1>1. t = disabledForAWhile(armed1)
  BY DEF sleepGroups
<1>2. KeepsHearing(s, rung)
  <2>1. /\ pool \in [Slots -> {"free", "motion", "enable"}]
        /\ \A u \in Slots : pool[u] = IF u = slot THEN "free" ELSE s.pool[u]
    BY DEF Unshared, freed, armed
  <2>2. rung = [s EXCEPT !.pool = pool]
    OBVIOUS
  <2> HIDE DEF pool
  <2>3. /\ DOMAIN rung = DOMAIN s /\ rung.pool = pool /\ rung.dht = s.dht
        /\ rung.pir = s.pir
    BY <2>2 DEF Unshared
  <2> HIDE DEF rung
  <2>4. Unshared(rung)
    BY <2>1, <2>3 DEF Unshared
  <2>5. WillHear(s) => WillHear(rung)
    BY <2>1, <2>3 DEF WillHear
  <2> QED BY <2>3, <2>4, <2>5 DEF KeepsHearing, Hears
<1> HIDE DEF rung
<1>3. KeepsHearing(rung, start)
  <2>1. Unshared(rung) => /\ DOMAIN start = DOMAIN rung /\ start.pool = rung.pool
                          /\ start.dht = rung.dht /\ start.pir = pir
    BY DEF Unshared
  <2>2. Unshared(rung) => /\ DOMAIN pir = DOMAIN rung.pir
                          /\ pir.disabled = rung.pir.disabled
                          /\ pir.inactivity = rung.pir.inactivity
    BY DEF Unshared
  <2> HIDE DEF pir, start
  <2> QED BY <2>1, <2>2, HearingKept
<1> HIDE DEF start, old, oldGroup
<1>4. KeepsHearing(start, slept)
  BY SleepDueKeepsHearing
<1> HIDE DEF slept, next, left
<1>5. KeepsHearing(slept, chosen)
  BY NextKeepsHearing
<1> HIDE DEF chosen
<1>6. KeepsHearing(slept, armed1)
  BY <1>5, MotionAlarmKeepsHearing DEF KeepsHearing
<1> HIDE DEF armed1
<1>7. MotionIn(t)
  <2>1. Sound(sleepGroups([s EXCEPT !.pool = freed(@, slot)], junk))
    BY SleepGroupsSound
  <2> QED BY <2>1 DEF Sound, OursIn
<1>8. KeepsHearing(armed1, t)
  BY <1>1, <1>7, DisabledHears
<1> QED BY <1>2, <1>3, <1>4, <1>6, <1>8 DEF KeepsHearing

\* Requests, and creating, modifying and deleting groups.
LEMMA RequestsKeepHearing ==
  ASSUME Sound(m), \/ TurnOnEverything \/ TurnOffEverything
                   \/ PanelTurnOnGroup \/ TurnOnGroupEvent \/ TurnOffGroupEvent
                   \/ ManualTurnOnGroup \/ ManualTurnOffGroup
  PROVE  KeepsHearing(m, m')
<1>1. \A G : KeepsHearing(m, orderOn(m, G)) /\ KeepsHearing(m, orderOff(m, G))
  BY OrdersKeepHearing
<1>2. \A G, high : KeepsHearing(m, turnOnPir(orderOn(m, G), high))
  BY <1>1, TurnOnPirKeepsHearing DEF KeepsHearing
<1>3. \A G \in SUBSET Groups : KeepsHearing(m, turnOffPir(orderOff(m, G)))
  <2> TAKE G \in SUBSET Groups
  <2>1. MotionIn(orderOff(m, G))
    BY OrderSound DEF Sound, OursIn
  <2> QED BY <1>1, <2>1, TurnOffKeepsHearing DEF KeepsHearing
<1>4. \A s, g : KeepsHearing(m, s) => KeepsHearing(m, armedFor(s, g))
  BY MotionAlarmKeepsHearing DEF armedFor, KeepsHearing
<1>5. connectedGroups(m) \subseteq Groups /\ named(m) \subseteq Groups
      /\ scheduled(m) \subseteq Groups
  BY NamedGroups DEF Sound
<1>6. CASE TurnOnEverything
  BY <1>2, <1>6 DEF TurnOnEverything, turnOnEverything
<1>7. CASE TurnOffEverything
  BY <1>3, <1>5, <1>7 DEF TurnOffEverything
<1>8. CASE PanelTurnOnGroup
  <2>1. PICK g \in Groups, high \in BOOLEAN :
          \/ m' = orderOn(m, {g})
          \/ m' = turnOnPir(orderOn(m, {g}), high)
          \/ m' = armedFor([turnOnPir(orderOn(m, {g}), high) EXCEPT !.pir.next = g], g)
    BY <1>5, <1>8 DEF PanelTurnOnGroup
  <2>2. KeepsHearing(m, [turnOnPir(orderOn(m, {g}), high) EXCEPT !.pir.next = g])
    BY <1>2, NextKeepsHearing DEF KeepsHearing
  <2> QED BY <1>1, <1>2, <1>4, <2>1, <2>2
<1>9. CASE TurnOnGroupEvent
  BY <1>1, <1>2, <1>4, <1>9 DEF TurnOnGroupEvent
<1>10. CASE TurnOffGroupEvent
  BY <1>1, <1>3, <1>5, <1>10 DEF TurnOffGroupEvent
<1>11. CASE ManualTurnOnGroup
  BY <1>2, <1>11 DEF ManualTurnOnGroup
<1>12. CASE ManualTurnOffGroup
  BY <1>3, <1>5, <1>12 DEF ManualTurnOffGroup
<1> QED BY <1>6, <1>7, <1>8, <1>9, <1>10, <1>11, <1>12

LEMMA OneGroupKeepsHearing ==
  ASSUME NEW s, NEW g, NEW r
  PROVE  KeepsHearing(s, [s EXCEPT !.groups[g] = r])
BY HearingKept DEF Unshared

LEMMA GroupChangesKeepHearing ==
  ASSUME Sound(m), \/ PanelCreateGroup \/ NewGroupForm \/ PanelModifyGroup
                   \/ PanelDeleteGroup \/ DeleteRelayGroup \/ SlavePirChanges
  PROVE  KeepsHearing(m, m')
<1>1. m \in State
  BY DEF Sound
<1>2. CASE PanelCreateGroup \/ NewGroupForm
  <2>1. PICK g, r : m' = [m EXCEPT !.groups[g] = r]
    <3>1. CASE PanelCreateGroup
      BY <3>1, <1>1 DEF PanelCreateGroup, State
    <3>2. CASE NewGroupForm
      BY <3>2, <1>1 DEF NewGroupForm, State
    <3> QED BY <1>2, <3>1, <3>2
  <2> QED BY <2>1, OneGroupKeepsHearing
<1>3. CASE PanelModifyGroup
  <2>1. PICK g \in named(m), ignore \in BOOLEAN, time \in Durations :
          LET modified == [m EXCEPT !.groups[g].ignore = ignore,
                                    !.groups[g].time = IF ignore THEN @ ELSE time]
          IN  m' = IF ignore /\ m.groups[g].on /\ m.groups[g].sleeping
                     THEN turnOnGroups(modified, {g}) ELSE modified
    BY <1>3 DEF PanelModifyGroup
  <2> DEFINE modified == [m EXCEPT !.groups[g].ignore = ignore,
                                   !.groups[g].time = IF ignore THEN @ ELSE time]
  <2>2. m' = modified \/ m' = turnOnGroups(modified, {g})
    BY <2>1
  <2>3. PICK r : modified = [m EXCEPT !.groups[g] = r]
    <3> DEFINE r == [m.groups[g] EXCEPT !.ignore = ignore,
                                        !.time = IF ignore THEN @ ELSE time]
    <3>1. g \in Groups /\ m.groups[g] \in Group
      BY <1>1, NamedGroups
    <3>2. modified = [m EXCEPT !.groups[g] = r]
      BY <1>1, <3>1 DEF State, Group
    <3> HIDE DEF r
    <3> QED BY <3>2
  <2>4. KeepsHearing(m, modified)
    BY <2>3, OneGroupKeepsHearing
  <2> HIDE DEF modified
  <2> QED BY <2>2, <2>4, OrdersKeepHearing DEF KeepsHearing
<1>4. CASE PanelDeleteGroup \/ DeleteRelayGroup
  <2>1. PICK g : m' = [m EXCEPT !.groups[g].connected = FALSE]
    BY <1>4 DEF PanelDeleteGroup, DeleteRelayGroup
  <2> QED BY <2>1, HearingKept DEF Unshared
<1>5. CASE SlavePirChanges
  BY <1>5, HearingKept DEF SlavePirChanges, Unshared
<1> QED BY <1>2, <1>3, <1>4, <1>5

LEMMA ConnectionsKeepHearing ==
  ASSUME Sound(m), ConnectMasterPir \/ DisconnectMasterPir
  PROVE  KeepsHearing(m, m')
<1> SUFFICES ASSUME Unshared(m)
             PROVE  KeepsHearing(m, m')
  BY DEF KeepsHearing, Hears
<1>1. CASE ConnectMasterPir
  <2>1. PICK high \in BOOLEAN :
          LET c == [m EXCEPT !.pir.connected = TRUE, !.dht = FALSE]
          IN  m' = turnOnPir(c, high) \/ m' = c
    BY <1>1 DEF ConnectMasterPir, Unshared, Sound, State
  <2> DEFINE c == [m EXCEPT !.pir.connected = TRUE, !.dht = FALSE]
  <2>2. KeepsHearing(m, c)
    <3>1. m.dht = FALSE
      BY DEF Unshared, Sound, State
    <3>2. /\ DOMAIN c = DOMAIN m /\ DOMAIN c.pir = DOMAIN m.pir
          /\ c.pool = m.pool /\ c.dht = FALSE
          /\ c.pir.disabled = m.pir.disabled /\ c.pir.inactivity = m.pir.inactivity
      BY DEF Unshared
    <3> HIDE DEF c
    <3> QED BY <3>1, <3>2, HearingKept
  <2>3. m' = turnOnPir(c, high) \/ m' = c
    BY <2>1
  <2> HIDE DEF c
  <2> QED BY <2>2, <2>3, TurnOnPirKeepsHearing DEF KeepsHearing
<1>2. CASE DisconnectMasterPir
  <2> DEFINE t == turnOffPir(m)
             off == [t EXCEPT !.pir.connected = FALSE]
             pir == [t.pir EXCEPT !.connected = FALSE]
  <2>1. PICK G : m' = off \/ m' = turnOnGroups(off, G)
    BY <1>2 DEF DisconnectMasterPir, disconnectMasterPir
  <2>2. KeepsHearing(m, t)
    BY TurnOffKeepsHearing DEF Sound, OursIn
  <2> HIDE DEF t
  <2>3. Unshared(t) => off = [t EXCEPT !.pir = pir]
    BY DEF Unshared
  <2>4. Unshared(t) => /\ DOMAIN pir = DOMAIN t.pir
                       /\ pir.disabled = t.pir.disabled
                       /\ pir.inactivity = t.pir.inactivity
    BY DEF Unshared
  <2> HIDE DEF pir, off
  <2>5. KeepsHearing(t, [t EXCEPT !.pir = pir])
    BY <2>4, PirKeepsHearing
  <2>6. Unshared(t) \/ KeepsHearing(t, off)
    BY DEF KeepsHearing, Hears
  <2>7. KeepsHearing(t, off)
    BY <2>3, <2>5, <2>6
  <2> QED BY <2>1, <2>2, <2>7, OrdersKeepHearing DEF KeepsHearing
<1> QED BY <1>1, <1>2

LEMMA LoopKeepsHearing ==
  ASSUME Sound(m), Loop \/ DetectSlaveMotion \/ SleepGroups
  PROVE  KeepsHearing(m, m')
<1>1. CASE Loop
  <2>1. PICK high \in BOOLEAN, junk \in JunkGroup :
          m' = checkPir(detectMotion(m, high), junk)
    BY <1>1, JunkType DEF Loop
  <2>2. MotionIn(detectMotion(m, high))
    BY DetectMotionKeeps, SoundKept DEF Sound, OursIn
  <2> QED BY <2>1, <2>2, DetectMotionKeepsHearing, CheckPirKeepsHearing DEF KeepsHearing
<1>2. CASE DetectSlaveMotion
  <2>1. m' = m \/ m' = [m EXCEPT !.pir.slaveMotion = TRUE]
    BY <1>2 DEF DetectSlaveMotion
  <2> QED BY <2>1, HearingKept DEF Unshared
<1>3. CASE SleepGroups
  <2>1. PICK slot \in Slots, junk \in JunkGroup :
          /\ m.pool[slot] = "motion"
          /\ m' = sleepGroups([m EXCEPT !.pool = freed(@, slot)], junk)
    BY <1>3, JunkType DEF SleepGroups
  <2> QED BY <2>1, SleepKeepsHearing
<1> QED BY <1>1, <1>2, <1>3

LEMMA EnableHears ==
  ASSUME Hears(m), EnablePir
  PROVE  Hears(m')
<1>1. PICK slot \in Slots : m' = enablePir([m EXCEPT !.pool = freed(@, slot)])
  BY DEF EnablePir
<1> DEFINE pool == freed(m.pool, slot)
           pir == [m.pir EXCEPT !.disabled = FALSE]
<1>2. pool \in [Slots -> {"free", "motion", "enable"}]
  BY DEF Hears, Unshared, freed, armed
<1>3. /\ DOMAIN m' = DOMAIN m /\ m'.pool = pool /\ m'.dht = m.dht /\ m'.pir = pir
  BY <1>1 DEF enablePir, Hears, Unshared
<1> HIDE DEF pool
<1>4. DOMAIN pir = DOMAIN m.pir /\ ~pir.disabled /\ pir.inactivity = m.pir.inactivity
  BY DEF Hears, Unshared
<1> HIDE DEF pir
<1> QED BY <1>2, <1>3, <1>4 DEF Hears, Unshared

\* Setting the clock arms the timer again, in the slot it had or another.
LEMMA ResetHears ==
  ASSUME Sound(m), Hears(m), ResetAlarms
  PROVE  Hears(m')
<1> DEFINE f == freeMotionAlarm(m)
           motion == IF m.motionAlarm = NotSet THEN m ELSE setMotionAlarm(f, m.current)
           pool == freed(motion.pool, motion.enablePirAlarm)
           enable == [motion EXCEPT !.pool = pool]
<1>1. KeepsHearing(m, motion)
  <2>1. KeepsHearing(m, f)
    BY FreedMotionKeepsHearing DEF Sound, OursIn
  <2> HIDE DEF f
  <2> QED BY <2>1, MotionAlarmKeepsHearing DEF KeepsHearing
<1>2. "CLOCK" \in Uses /\ (m' = motion \/ m' = setEnablePirAlarm(enable))
  BY DEF ResetAlarms
<1> HIDE DEF motion
<1>3. Hears(motion)
  BY <1>1 DEF KeepsHearing
<1>4. pool \in [Slots -> {"free", "motion", "enable"}]
  BY <1>3 DEF Hears, Unshared, freed, armed
<1> HIDE DEF pool
<1>5. /\ DOMAIN enable = DOMAIN motion /\ enable.pool = pool
      /\ enable.dht = motion.dht /\ enable.pir = motion.pir
  BY <1>3 DEF Hears, Unshared
<1> HIDE DEF enable
<1>6. Unshared(enable)
  BY <1>3, <1>4, <1>5 DEF Hears, Unshared
<1>7. CASE m' = setEnablePirAlarm(enable)
  <2>1. MotionIn(setEnablePirAlarm(enable))
    BY <1>7, ResetSound DEF Sound, OursIn
  <2>2. /\ Unshared(m') /\ m'.pir = motion.pir
        /\ motion.pir.inactivity # 0 => WillHear(m')
    BY <1>5, <1>6, <1>7, <2>1, EnableAlarmHears
  <2> QED BY <1>2, <1>3, <2>2 DEF Hears
<1> QED BY <1>2, <1>3, <1>7

LEMMA BootedHears ==
  ASSUME NEW groups, NEW c, NEW i \in Nat
  PROVE  Hears(Booted(groups, NewPir(c, i), FALSE))
<1> DEFINE pool == [s \in Slots |-> "free"]
           pir == NewPir(c, i)
           b == Booted(groups, pir, FALSE)
<1>1. /\ {"pool", "pir", "dht", "motionAlarm"} \subseteq DOMAIN b
      /\ b.pool = pool /\ b.pir = pir /\ ~b.dht
  BY DEF Booted
<1>2. {"disabled", "inactivity"} \subseteq DOMAIN pir /\ ~pir.disabled /\ pir.inactivity = i
  BY DEF NewPir
<1>3. pool \in [Slots -> {"free", "motion", "enable"}]
  OBVIOUS
<1> HIDE DEF pool, pir
<1>4. Hears(b)
  BY <1>1, <1>2, <1>3 DEF Hears, Unshared
<1> QED BY <1>4 DEF b, pir

LEMMA InitHears == Init => Hears(m)
BY BootedHears, ConstantTimes DEF Init

LEMMA NextHears ==
  ASSUME "DHT" \notin Uses, {"SETTINGS", "CLOCK"} \subseteq Uses => 0 \notin Inactivities
  PROVE  Sound(m) /\ Hears(m) /\ [Next]_m => Hears(m)'
<1> SUFFICES ASSUME Sound(m), Hears(m), [Next]_m
             PROVE  Hears(m')
  OBVIOUS
<1>1. ASSUME KeepsHearing(m, m') PROVE Hears(m')
  BY <1>1 DEF KeepsHearing
<1>2. CASE \/ TurnOnEverything \/ TurnOffEverything
           \/ PanelTurnOnGroup \/ TurnOnGroupEvent \/ TurnOffGroupEvent
           \/ ManualTurnOnGroup \/ ManualTurnOffGroup
  BY <1>1, <1>2, RequestsKeepHearing
<1>3. CASE \/ PanelCreateGroup \/ NewGroupForm \/ PanelModifyGroup
           \/ PanelDeleteGroup \/ DeleteRelayGroup \/ SlavePirChanges
  BY <1>1, <1>3, GroupChangesKeepHearing
<1>4. CASE ConnectMasterPir \/ DisconnectMasterPir
  BY <1>1, <1>4, ConnectionsKeepHearing
<1>5. CASE Loop \/ DetectSlaveMotion \/ SleepGroups
  BY <1>1, <1>5, LoopKeepsHearing
<1>6. CASE EnablePir
  BY <1>6, EnableHears
<1>7. CASE ResetAlarms
  BY <1>7, ResetHears
<1>8. CASE ConnectMasterDht \/ DisconnectMasterDht
  BY <1>8 DEF ConnectMasterDht, DisconnectMasterDht
<1>9. CASE PanelPirSettings
  <2>1. PICK i \in Inactivities : m' = [m EXCEPT !.pir.inactivity = i]
    BY <1>9 DEF PanelPirSettings
  <2>2. i \in Nat /\ ("CLOCK" \in Uses => i # 0)
    BY <1>9, ConstantTimes DEF PanelPirSettings
  <2>3. /\ DOMAIN m' = DOMAIN m /\ m'.pool = m.pool /\ m'.dht = m.dht
        /\ DOMAIN m'.pir = DOMAIN m.pir /\ m'.pir.disabled = m.pir.disabled
        /\ m'.pir.inactivity = i
    BY <2>1 DEF Hears, Unshared
  <2> QED BY <2>2, <2>3 DEF Hears, Unshared, WillHear
<1>10. CASE Restart
  <2>1. PICK groups : m' = Booted(groups, NewPir(m.pir.connected, m.pir.inactivity), m.dht)
    BY <1>10 DEF Restart
  <2>2. m.pir.inactivity \in Nat /\ m.dht = FALSE
    BY DEF Hears, Unshared, Sound, State
  <2> QED BY <2>1, <2>2, BootedHears
<1>11. CASE UNCHANGED m
  BY <1>11
<1> QED BY <1>2, <1>3, <1>4, <1>5, <1>6, <1>7, <1>8, <1>9, <1>10, <1>11 DEF Next

\* A disabled PIR is enabled by a timer that is armed, however the groups sleep
\* and wake, users and clock interfere and the master restarts.  Excluded is what
\* the code does not survive: a DHT, whose timers fill the pool, and setting the
\* clock once the inactivity time has become 0.
THEOREM DeafnessEnds ==
  ASSUME "DHT" \notin Uses, {"SETTINGS", "CLOCK"} \subseteq Uses => 0 \notin Inactivities
  PROVE  Spec => []DeafIsTemporary
<1>1. Hears(m) => DeafIsTemporary
  BY DEF Hears, WillHear, DeafIsTemporary
<1>2. Init => Sound(m) /\ Hears(m)
  BY InitSound, InitHears
<1>3. Sound(m) /\ Hears(m) /\ [Next]_m => (Sound(m) /\ Hears(m))'
  BY NextSound, NextHears
<1> QED BY <1>1, <1>2, <1>3, PTL DEF Spec
=============================================================================
