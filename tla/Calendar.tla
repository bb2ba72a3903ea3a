------------------------------- MODULE Calendar -------------------------------
(***************************************************************************)
(* The alarms that turn the light groups on and off by the clock: the      *)
(* AlarmCalendar of libraries/Calendar, the events and panel commands of   *)
(* Master/Master.ino that use it, its image in the EEPROM, and the rows    *)
(* with which the web server (index.py) lists and deletes the alarms.      *)
(*                                                                         *)
(* An alarm's times and group are one plan, written once and never         *)
(* changed.  The slots are visited together by one action: a visit changes *)
(* its own slot and, when it removes the alarm, the first slot with that   *)
(* id, which is never a later one.  Of the lights the calendar knows only  *)
(* that it turned one on; what else turns them on and off is GroupPir.     *)
(***************************************************************************)
EXTENDS Integers, FiniteSets

CONSTANTS
  MaxAlarms,   \* MAX_ALARMS (30)
  GroupCount,  \* GROUP_AMOUNT (10)
  WeekDays,    \* days of a week (7)
  YearDays,    \* days after which day and month repeat (365)
  DayMinutes,  \* minutes of a day (1440)
  ByteWidth,   \* what an id is truncated to in the EEPROM (256)
  TextLimit,   \* first id that does not fit the answer's two characters (100)
  MaxId,       \* bound on the ids given
  Junk,        \* ids an uninitialised slot may hold
  MaxUndercount,  \* bound on how far alarmAmount falls below zero
  Plans,       \* plans a user may give an alarm
  Uses         \* what may happen besides adding alarms, of the set below

Groups == 0 .. GroupCount - 1
Everything == -1   \* the plan's group of an alarm of event 1
Minutes == 0 .. DayMinutes - 1

ASSUME CalendarConstants ==
  /\ MaxAlarms \in Nat \ {0} /\ GroupCount \in Nat \ {0}
  /\ WeekDays \in Nat \ {0} /\ YearDays \in Nat \ {0}
  /\ DayMinutes \in Nat \ {0}
  /\ ByteWidth \in Nat \ {0} /\ TextLimit \in Nat /\ MaxId \in Nat
  /\ MaxUndercount \in Nat /\ Junk \subseteq Int
  /\ Plans # {}
  /\ Plans \subseteq [type : {"ONCE", "WEEKLY"}, day : Nat, start : Minutes,
                      finish : Minutes, group : Groups \cup {Everything}]
  /\ Uses \subseteq {"REMOVE", "REMOVE_RUNNING", "DELETE_GROUP", "RESTART",
                     "MISS", "SET_CLOCK", "LOST"}

Slots == 1 .. MaxAlarms
Ids == 0 .. MaxId

VARIABLES
  now,          \* the clock of the RTC
  checked,      \* the calendar was checked in this minute
  alarms,       \* alarms[MAX_ALARMS]
  alarmAmount,  \* alarmAmount
  nextId,       \* nextId
  stored,       \* the image in the EEPROM
  lit,          \* lit[g]: the last to switch group g was the calendar, on
  rows          \* the server's rows: the plan shown and its ALARM_ID

vars == <<now, checked, alarms, alarmAmount, nextId, stored, lit, rows>>

Times == [day : 0 .. YearDays - 1, minute : Minutes]

TypeOK ==
  /\ now \in Times
  /\ checked \in BOOLEAN
  /\ alarms \in [Slots -> [used : BOOLEAN, started : BOOLEAN,
                           id : Ids \cup Junk, plan : Plans]]
  /\ alarmAmount \in Int
  /\ nextId \in 0 .. MaxId + 1
  /\ stored \in [Slots -> [used : BOOLEAN, id : Ids, plan : Plans]]
  /\ lit \in [Groups -> BOOLEAN]
  /\ rows \subseteq [id : Ids \cup {-1}, plan : Plans]

AnyPlan == CHOOSE p \in Plans : TRUE
Blank == [used |-> FALSE, id |-> 0, plan |-> AnyPlan]

\* Slip: the last slot is not stored.
imageSlip(a) ==
  [s \in Slots |->
     IF a[s].used /\ s < MaxAlarms
     THEN [used |-> TRUE, id |-> a[s].id % ByteWidth, plan |-> a[s].plan]
     ELSE Blank]

\* storeAlarms: the used slots, their ids cut to a byte.
image(a) ==
  [s \in Slots |->
     IF a[s].used
     THEN [used |-> TRUE, id |-> a[s].id % ByteWidth, plan |-> a[s].plan]
     ELSE Blank]

used(a) == {s \in Slots : a[s].used}
running(s) == alarms[s].used /\ alarms[s].started

covers(p, g) == p.group \in {g, Everything}

\* checkAlarm: the day the alarm compares with the clock's.
sameDay(p, t) ==
  p.day = (IF p.type = "ONCE" THEN t.day ELSE t.day % WeekDays)
-----------------------------------------------------------------------------
Init ==
  /\ now \in Times
  /\ checked = FALSE
  /\ \E junk \in [Slots -> Junk] :
       alarms = [s \in Slots |-> [used |-> FALSE, started |-> FALSE,
                                id |-> junk[s], plan |-> AnyPlan]]
  /\ alarmAmount = 0
  /\ nextId = 0
  /\ stored = [s \in Slots |-> Blank]
  /\ lit = [g \in Groups |-> FALSE]
  /\ rows = {}

\* What the server learns of a call the master executed.
Answers == {TRUE} \cup {FALSE : u \in Uses \cap {"LOST"}}

\* The id as the panel answers it: two characters of its digits.
answer(id) == IF id < TextLimit THEN id ELSE id \div 10

\* Slips: the number is the next one; the number is the slot's position.
inSlotNextSlip(a, s, p) ==
  [a EXCEPT ![s].used = TRUE, ![s].id = nextId + 1, ![s].plan = p]

inSlotPositionSlip(a, s, p) ==
  [a EXCEPT ![s].used = TRUE, ![s].id = s - 1, ![s].plan = p]

\* The alarm a plan makes of a free slot; its started flag is not reset.
inSlot(a, s, p) ==
  [a EXCEPT ![s].used = TRUE, ![s].id = nextId, ![s].plan = p]

\* panelAddWeeklyAlarm and panelAddAlarmOnce; the server adds a row unless the
\* answer is lost, and does not look at the -1 of a full calendar.
AddAlarm(p, answered) ==
  /\ nextId <= MaxId
  /\ IF used(alarms) = Slots
     THEN /\ rows' = rows \cup (IF answered THEN {[id |-> -1, plan |-> p]}
                                ELSE {})
          /\ UNCHANGED <<alarms, alarmAmount, nextId, stored>>
     ELSE \E s \in Slots \ used(alarms) :
          /\ \A t \in Slots \ used(alarms) : s <= t
          /\ alarms' = inSlot(alarms, s, p)
          /\ alarmAmount' = alarmAmount + 1
          /\ nextId' = nextId + 1
          /\ stored' = image(alarms')
          /\ rows' = rows \cup (IF answered
                                THEN {[id |-> answer(nextId), plan |-> p]}
                                ELSE {})
  /\ UNCHANGED <<now, checked, lit>>

\* removeAlarm looks for the id in every slot, used or not.
first(a, id) ==
  {s \in Slots : a[s].id = id /\ \A t \in Slots : a[t].id = id => s <= t}

without(a, gone) == [s \in Slots |-> [a[s] EXCEPT !.used = @ /\ s \notin gone]]

\* A row deleted in the web: panelDeleteAlarm, then the row if the answer came.
RemoveAlarm(row, answered) ==
  LET found == first(alarms, row.id) IN
  /\ \/ "REMOVE_RUNNING" \in Uses
     \/ "REMOVE" \in Uses /\ \A s \in found : ~running(s)
  /\ alarms' = without(alarms, found)
  /\ alarmAmount > -MaxUndercount
  /\ alarmAmount' = alarmAmount - (IF found = {} THEN 0 ELSE 1)
  /\ stored' = image(alarms')
  /\ rows' = IF answered THEN rows \ {row} ELSE rows
  /\ UNCHANGED <<now, checked, nextId, lit>>

\* Slip: the amount is left alone.
DeleteGroupSlip(g) ==
  /\ "DELETE_GROUP" \in Uses
  /\ alarms' = without(alarms, {s \in used(alarms) : alarms[s].plan.group = g})
  /\ stored' = image(alarms')
  /\ rows' = {r \in rows : r.plan.group # g}
  /\ UNCHANGED <<now, checked, alarmAmount, nextId, lit>>

\* panelDeleteGroup: removeAlarmsWithEventAndId; nothing turns the group off.
DeleteGroup(g) ==
  LET gone == {s \in used(alarms) : alarms[s].plan.group = g} IN
  /\ "DELETE_GROUP" \in Uses
  /\ alarms' = without(alarms, gone)
  /\ alarmAmount' = alarmAmount - Cardinality(gone)
  /\ stored' = image(alarms')
  /\ rows' = {r \in rows : r.plan.group # g}
  /\ UNCHANGED <<now, checked, nextId, lit>>
-----------------------------------------------------------------------------
begins(s) ==
  /\ alarms[s].used /\ ~alarms[s].started
  /\ sameDay(alarms[s].plan, now) /\ now.minute = alarms[s].plan.start

\* Slips: an alarm ends the minute after; one that crosses midnight does not.
endsLateSlip(s) ==
  /\ running(s)
  /\ sameDay(alarms[s].plan, now) /\ now.minute > alarms[s].plan.finish

endsSameDaySlip(s) ==
  /\ running(s)
  /\ sameDay(alarms[s].plan, now) /\ now.minute = alarms[s].plan.finish
  /\ alarms[s].plan.start <= alarms[s].plan.finish

ends(s) ==
  /\ running(s)
  /\ sameDay(alarms[s].plan, now) /\ now.minute = alarms[s].plan.finish

endsForGood(s) == ends(s) /\ alarms[s].plan.type = "ONCE"

\* The slots whose event touches group g in this check; the last one decides.
touching(g) ==
  {s \in Slots : (begins(s) \/ ends(s)) /\ covers(alarms[s].plan, g)}

\* Slip: nothing turns the group off.
litAfterSlip(g) == lit[g] \/ \E s \in touching(g) : begins(s)

litAfter(g) ==
  IF touching(g) = {} THEN lit[g]
  ELSE begins(CHOOSE s \in touching(g) : \A t \in touching(g) : t <= s)

\* checkCalendarAlarms, every five seconds.
CheckAlarms ==
  LET gone == UNION {first(alarms, alarms[s].id) : s \in {t \in Slots : endsForGood(t)}}
      switched == [s \in Slots |->
                     [alarms[s] EXCEPT !.started = (@ \/ begins(s)) /\ ~ends(s)]]
  IN
  /\ alarms' = without(switched, gone)
  /\ alarmAmount' = alarmAmount - Cardinality({s \in Slots : endsForGood(s)})
  /\ stored' = IF gone = {} THEN stored ELSE image(alarms')
  /\ lit' = [g \in Groups |-> litAfter(g)]
  /\ checked' = TRUE
  /\ UNCHANGED <<now, nextId, rows>>

\* A minute passes, with a check in it: they come every five seconds, except
\* while startPairing keeps loop() busy ("MISS").
Tick ==
  /\ checked \/ "MISS" \in Uses
  /\ checked' = FALSE
  /\ now' = IF now.minute + 1 < DayMinutes
            THEN [now EXCEPT !.minute = @ + 1]
            ELSE [day |-> (now.day + 1) % YearDays, minute |-> 0]
  /\ UNCHANGED <<alarms, alarmAmount, nextId, stored, lit, rows>>

\* panelTime sets the clock, and resetAlarms rearms the timer of the checks.
SetClock(t) ==
  /\ "SET_CLOCK" \in Uses
  /\ now' = t
  /\ checked' = FALSE
  /\ UNCHANGED <<alarms, alarmAmount, nextId, stored, lit, rows>>

\* A user turns group g on or off.
UserTurns(g) ==
  /\ lit' = [lit EXCEPT ![g] = FALSE]
  /\ UNCHANGED <<now, checked, alarms, alarmAmount, nextId, stored, rows>>

\* The slots the used ones of the image are read into, in order.
packings ==
  LET U == {s \in Slots : stored[s].used} IN
  {f \in [U -> Slots] :
     /\ \A s, t \in U : s < t => f[s] < f[t]
     /\ \A s \in U : \A k \in 1 .. f[s] : \E t \in U : f[t] = k}

\* The master restarts: readAlarms.  A slot it does not read holds whatever id
\* the constructor's stack had.
Restart ==
  /\ "RESTART" \in Uses
  /\ \E f \in packings, junk \in [Slots -> Junk] :
       LET U == DOMAIN f
           into(k) == CHOOSE s \in U : f[s] = k IN
       /\ alarms' = [k \in Slots |->
            IF k \in {f[s] : s \in U}
            THEN [used |-> TRUE, started |-> FALSE, id |-> stored[into(k)].id,
                  plan |-> stored[into(k)].plan]
            ELSE [used |-> FALSE, started |-> FALSE, id |-> junk[k],
                  plan |-> AnyPlan]]
       /\ alarmAmount' = Cardinality(U)
       /\ nextId' = IF U = {} THEN 0
                    ELSE 1 + stored[CHOOSE s \in U :
                               \A t \in U : stored[t].id <= stored[s].id].id
  /\ checked' = FALSE
  /\ lit' = [g \in Groups |-> FALSE]
  /\ UNCHANGED <<now, stored, rows>>
-----------------------------------------------------------------------------
Next ==
  \/ \E p \in Plans, answered \in Answers : AddAlarm(p, answered)
  \/ \E row \in rows, answered \in Answers : RemoveAlarm(row, answered)
  \/ \E g \in Groups : DeleteGroup(g)
  \/ CheckAlarms
  \/ Tick
  \/ \E t \in Times : SetClock(t)
  \/ \E g \in Groups : UserTurns(g)
  \/ Restart

Spec == Init /\ [][Next]_vars

\* The timer of the checks is a repeating one that a new clock rearms.
FairSpec == Spec /\ WF_vars(CheckAlarms) /\ WF_vars(Tick)
-----------------------------------------------------------------------------
\* No slot before a used one has its id, so deleting an alarm by its id deletes
\* that alarm: the slots of removed alarms and those a restart leaves with
\* whatever the stack held never shadow it.
NoShadow ==
  \A s, t \in Slots :
    s < t /\ alarms[t].used => alarms[s].id # alarms[t].id

\* The LCD lists alarmNumber() entries of an array that getAlarms filled for the
\* used slots only: it never lists more than were filled.
ListedAlarmsExist == alarmAmount <= Cardinality(used(alarms))

\* A restart changes neither the alarms nor their ids: what was last stored is
\* the calendar, and it reads back as it was written.
kept(a) == {[id |-> a[s].id, plan |-> a[s].plan] : s \in used(a)}
RestartKeepsAlarms == [][Restart => kept(alarms') = kept(alarms)]_vars

\* Deleting a row of the web's list deletes no alarm but the one it shows, even
\* a row whose alarm is gone and whose number was never given again.
RowsNameTheirAlarms ==
  \A r \in rows, s \in Slots :
    alarms[s].used /\ alarms[s].id = r.id => alarms[s].plan = r.plan

\* An alarm that starts and ends on one day runs between its two times only: no
\* check misses its end, and no slot takes over a started flag.
OnSchedule ==
  \A s \in Slots :
    LET p == alarms[s].plan IN
    running(s) /\ p.start < p.finish =>
      /\ sameDay(p, now)
      /\ p.start <= now.minute /\ now.minute <= p.finish
      /\ checked => now.minute < p.finish

\* What the calendar turned on it will turn off: a running alarm covers it.
LitForAReason ==
  \A g \in Groups :
    lit[g] =>
      \E s \in Slots : running(s) /\ covers(alarms[s].plan, g)

\* Every alarm that runs ends.
RunningEnds == \A s \in Slots : running(s) ~> ~running(s)
=============================================================================
