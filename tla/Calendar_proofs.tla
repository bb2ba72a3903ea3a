---------------------------- MODULE Calendar_proofs ----------------------------
(***************************************************************************)
(* What holds of the calendar for any number of alarms, groups, days and   *)
(* plans, as long as no alarm's number exceeds a byte of the EEPROM.       *)
(*                                                                         *)
(* The numbers carry the argument.  The numbers of the alarms in use are   *)
(* below the next one, and no slot before a used one has its number: a new *)
(* alarm takes the first free slot and a new number, and a slot that is    *)
(* freed keeps its number.  So the slots an ending alarm removes by its    *)
(* number are its own, the list is never counted below what it holds, and  *)
(* the image in the EEPROM reads back as the same alarms.  What a running  *)
(* alarm promises holds besides, as long as none is taken away while it    *)
(* runs.                                                                   *)
(***************************************************************************)
EXTENDS Calendar, FiniteSetTheorems, FunctionTheorems, WellFoundedInduction, TLAPS

AlarmKind == [Slots -> [used : BOOLEAN, started : BOOLEAN, id : Ids \cup Junk, plan : Plans]]
ImageKind == [Slots -> [used : BOOLEAN, id : Ids, plan : Plans]]

SmallNumbers == MaxId < ByteWidth

\* The numbers of the alarms in use have been given.
Numbered ==
  \A s \in Slots : alarms[s].used => alarms[s].id \in Ids /\ alarms[s].id < nextId

\* The EEPROM holds the alarms, under numbers of their own.
Mirrored ==
  /\ \A s \in Slots : stored[s].used => stored[s].id < nextId
  /\ \A s, t \in Slots :
       stored[s].used /\ stored[t].used /\ s # t => stored[s].id # stored[t].id
  /\ kept(stored) = kept(alarms)

IInv == TypeOK /\ Numbered /\ NoShadow /\ Mirrored /\ ListedAlarmsExist
-----------------------------------------------------------------------------
LEMMA Constants ==
  /\ MaxAlarms \in Nat /\ MaxAlarms > 0 /\ MaxId \in Nat /\ ByteWidth \in Nat \ {0}
  /\ Junk \subseteq Int /\ Ids \subseteq Nat /\ Slots \subseteq Nat
  /\ IsFiniteSet(Slots) /\ Cardinality(Slots) = MaxAlarms
  /\ AnyPlan \in Plans
<1>1. IsFiniteSet(Slots) /\ Cardinality(Slots) = MaxAlarms
  BY CalendarConstants, FS_Interval DEF CalendarConstants, Slots
<1>2. AnyPlan \in Plans
  BY CalendarConstants DEF CalendarConstants, AnyPlan
<1> QED BY <1>1, <1>2, CalendarConstants DEF CalendarConstants, Ids, Slots

LEMMA UsedIsFinite ==
  ASSUME NEW a
  PROVE  /\ used(a) \subseteq Slots /\ IsFiniteSet(used(a))
         /\ Cardinality(used(a)) \in Nat
BY Constants, FS_Subset, FS_CardinalityType DEF used

\* The numbers of different alarms in use differ.
LEMMA NumbersDiffer ==
  ASSUME NoShadow, NEW s \in Slots, NEW t \in Slots, alarms[s].used, alarms[t].used,
         alarms[s].id = alarms[t].id
  PROVE  s = t
BY Constants DEF NoShadow

\* A number in use is that of its slot alone.
LEMMA FirstIsOwn ==
  ASSUME NoShadow, NEW s \in Slots, alarms[s].used
  PROVE  first(alarms, alarms[s].id) = {s}
<1>1. \A t \in Slots : t < s => alarms[t].id # alarms[s].id
  BY DEF NoShadow
<1>2. s \in first(alarms, alarms[s].id)
  BY <1>1, Constants DEF first
<1>3. ASSUME NEW t \in first(alarms, alarms[s].id) PROVE t = s
  <2>1. t \in Slots /\ t <= s /\ alarms[t].id = alarms[s].id
    BY <1>3, Constants DEF first
  <2> QED BY <1>1, <2>1, Constants
<1> QED BY <1>2, <1>3
-----------------------------------------------------------------------------
(* The slots after a step *)

LEMMA Removing ==
  ASSUME TypeOK, NEW gone, alarms' = without(alarms, gone)
  PROVE  /\ alarms' \in AlarmKind
         /\ \A s \in Slots : /\ alarms'[s].used <=> alarms[s].used /\ s \notin gone
                             /\ alarms'[s].started <=> alarms[s].started
                             /\ alarms'[s].id = alarms[s].id
                             /\ alarms'[s].plan = alarms[s].plan
BY DEF TypeOK, without, AlarmKind

Expired == {s \in Slots : endsForGood(s)}

LEMMA Checking ==
  ASSUME TypeOK, NoShadow, CheckAlarms
  PROVE  /\ alarms' \in AlarmKind
         /\ \A s \in Slots : /\ alarms'[s].used <=> alarms[s].used /\ s \notin Expired
                             /\ alarms'[s].started <=>
                                  (alarms[s].started \/ begins(s)) /\ ~ends(s)
                             /\ alarms'[s].id = alarms[s].id
                             /\ alarms'[s].plan = alarms[s].plan
         /\ alarmAmount' = alarmAmount - Cardinality(Expired)
         /\ stored' = IF Expired = {} THEN stored ELSE image(alarms')
<1> DEFINE gone == UNION {first(alarms, alarms[s].id) : s \in Expired}
           switched == [s \in Slots |->
                     [alarms[s] EXCEPT !.started = (@ \/ begins(s)) /\ ~ends(s)]]
<1>1. /\ alarms' = without(switched, gone)
      /\ alarmAmount' = alarmAmount - Cardinality(Expired)
      /\ stored' = IF gone = {} THEN stored ELSE image(alarms')
  BY DEF CheckAlarms, Expired
<1>2. gone = Expired
  <2>1. \A s \in Expired : s \in Slots /\ alarms[s].used
    BY DEF Expired, endsForGood, ends, running
  <2>2. \A s \in Expired : first(alarms, alarms[s].id) = {s}
    BY <2>1, FirstIsOwn
  <2> QED BY <2>2
<1> HIDE DEF gone
<1>3. /\ switched \in AlarmKind
      /\ \A s \in Slots : /\ switched[s].used <=> alarms[s].used
                          /\ switched[s].started <=>
                               (alarms[s].started \/ begins(s)) /\ ~ends(s)
                          /\ switched[s].id = alarms[s].id
                          /\ switched[s].plan = alarms[s].plan
  <2>1. \A s \in Slots : ((alarms[s].started \/ begins(s)) /\ ~ends(s)) \in BOOLEAN
    OBVIOUS
  <2> QED BY <2>1 DEF TypeOK, AlarmKind
<1> HIDE DEF switched
<1>4. /\ alarms' \in AlarmKind
      /\ \A s \in Slots : /\ alarms'[s].used <=> switched[s].used /\ s \notin gone
                          /\ alarms'[s].started <=> switched[s].started
                          /\ alarms'[s].id = switched[s].id
                          /\ alarms'[s].plan = switched[s].plan
  BY <1>1, <1>3 DEF without, AlarmKind
<1> QED BY <1>1, <1>2, <1>3, <1>4

LEMMA Adding ==
  ASSUME TypeOK, NEW s \in Slots, NEW p \in Plans, nextId <= MaxId,
         alarms' = inSlot(alarms, s, p)
  PROVE  /\ alarms' \in AlarmKind /\ nextId \in Ids
         /\ \A t \in Slots : t # s => alarms'[t] = alarms[t]
         /\ alarms'[s].used /\ alarms'[s].id = nextId /\ alarms'[s].plan = p
         /\ alarms'[s].started <=> alarms[s].started
<1>1. nextId \in Ids
  BY Constants DEF TypeOK, Ids
<1> QED BY <1>1 DEF TypeOK, inSlot, AlarmKind
-----------------------------------------------------------------------------
(* The image in the EEPROM *)

\* Numbers below the byte's width are stored as they are.
LEMMA ImageIsKept ==
  ASSUME SmallNumbers, NEW a \in AlarmKind, \A s \in Slots : a[s].used => a[s].id \in Ids
  PROVE  /\ image(a) \in ImageKind
         /\ \A s \in Slots : image(a)[s].used <=> a[s].used
         /\ \A s \in Slots : a[s].used => image(a)[s].id = a[s].id
         /\ kept(image(a)) = kept(a)
<1>1. ASSUME NEW s \in Slots, a[s].used PROVE a[s].id % ByteWidth = a[s].id
  <2>1. a[s].id \in Nat /\ a[s].id <= MaxId
    BY <1>1, Constants DEF Ids
  <2> QED BY <2>1, Constants DEF SmallNumbers
<1>2. \A s \in Slots : image(a)[s] = IF a[s].used
        THEN [used |-> TRUE, id |-> a[s].id, plan |-> a[s].plan] ELSE Blank
  BY <1>1 DEF image
<1>3. Blank \in [used : BOOLEAN, id : Ids, plan : Plans] /\ ~Blank.used
  BY Constants DEF Blank, Ids
<1>4. ASSUME NEW s \in Slots
      PROVE  /\ image(a)[s] \in [used : BOOLEAN, id : Ids, plan : Plans]
             /\ image(a)[s].used <=> a[s].used
             /\ a[s].used => image(a)[s].id = a[s].id /\ image(a)[s].plan = a[s].plan
  <2>1. a[s] \in [used : BOOLEAN, started : BOOLEAN, id : Ids \cup Junk, plan : Plans]
    BY DEF AlarmKind
  <2>2. CASE a[s].used
    <3>1. image(a)[s] = [used |-> TRUE, id |-> a[s].id, plan |-> a[s].plan]
      BY <1>2, <2>2
    <3> QED BY <2>1, <2>2, <3>1
  <2>3. CASE ~a[s].used
    <3>1. image(a)[s] = Blank
      BY <1>2, <2>3
    <3> QED BY <1>3, <2>1, <2>3, <3>1
  <2> QED BY <2>2, <2>3
<1>5. image(a) = [s \in Slots |-> image(a)[s]]
  BY DEF image
<1>6. image(a) \in ImageKind
  BY <1>4, <1>5 DEF ImageKind
<1>7. used(image(a)) = used(a)
  BY <1>4 DEF used
<1>8. kept(image(a)) = kept(a)
  <2>1. \A s \in used(a) :
          [id |-> image(a)[s].id, plan |-> image(a)[s].plan]
            = [id |-> a[s].id, plan |-> a[s].plan]
    BY <1>4 DEF used
  <2> QED BY <1>7, <2>1 DEF kept
<1> QED BY <1>4, <1>6, <1>8

\* Alarms that are the same in all that is kept.
LEMMA KeptIsSame ==
  ASSUME NEW a, NEW b,
         \A s \in Slots : (a[s].used <=> b[s].used) /\ a[s].id = b[s].id
                          /\ a[s].plan = b[s].plan
  PROVE  kept(a) = kept(b)
<1>1. used(a) = used(b)
  BY DEF used
<1>2. \A s \in used(a) : [id |-> a[s].id, plan |-> a[s].plan]
                           = [id |-> b[s].id, plan |-> b[s].plan]
  BY DEF used
<1> QED BY <1>1, <1>2 DEF kept

\* What is stored after a step is the image of good alarms.
LEMMA StoredIsMirror ==
  ASSUME SmallNumbers, alarms' \in AlarmKind, Numbered', NoShadow',
         stored' = image(alarms')
  PROVE  stored' \in ImageKind /\ Mirrored'
<1>1. \A s \in Slots : alarms'[s].used => alarms'[s].id \in Ids /\ alarms'[s].id < nextId'
  BY DEF Numbered
<1>2. /\ stored' \in ImageKind
      /\ \A s \in Slots : stored'[s].used <=> alarms'[s].used
      /\ \A s \in Slots : alarms'[s].used => stored'[s].id = alarms'[s].id
      /\ kept(stored') = kept(alarms')
  BY <1>1, ImageIsKept
<1>3. \A s, t \in Slots : alarms'[s].used /\ alarms'[t].used /\ s # t
                            => alarms'[s].id # alarms'[t].id
  BY Constants DEF NoShadow
<1> QED BY <1>1, <1>2, <1>3 DEF Mirrored
-----------------------------------------------------------------------------
(* Alarms are taken away *)

Fewer(gone) ==
  /\ alarms' \in AlarmKind /\ nextId' = nextId
  /\ \A s \in Slots : /\ alarms'[s].used <=> alarms[s].used /\ s \notin gone
                      /\ alarms'[s].id = alarms[s].id
                      /\ alarms'[s].plan = alarms[s].plan

LEMMA FewerKeepNumbers ==
  ASSUME NEW gone, Numbered, NoShadow, Fewer(gone)
  PROVE  Numbered' /\ NoShadow'
BY DEF Numbered, NoShadow, Fewer

LEMMA FewerAreCounted ==
  ASSUME NEW gone, gone \subseteq used(alarms), Fewer(gone)
  PROVE  /\ IsFiniteSet(gone) /\ Cardinality(gone) \in Nat
         /\ Cardinality(used(alarms')) = Cardinality(used(alarms)) - Cardinality(gone)
<1>1. used(alarms') = used(alarms) \ gone
  BY DEF used, Fewer
<1>2. IsFiniteSet(used(alarms)) /\ IsFiniteSet(gone) /\ Cardinality(gone) \in Nat
  BY UsedIsFinite, FS_Subset, FS_CardinalityType
<1>3. used(alarms) \cap gone = gone
  OBVIOUS
<1>4. Cardinality(used(alarms) \ gone)
        = Cardinality(used(alarms)) - Cardinality(used(alarms) \cap gone)
  BY <1>2, FS_Difference
<1> QED BY <1>1, <1>2, <1>3, <1>4

\* The part of the invariant about the alarms.
Alarms ==
  /\ alarms \in AlarmKind /\ stored \in ImageKind /\ alarmAmount \in Int
  /\ nextId \in 0 .. MaxId + 1
  /\ Numbered /\ NoShadow /\ Mirrored /\ ListedAlarmsExist

LEMMA FewerIsSound ==
  ASSUME SmallNumbers, Alarms, NEW gone, gone \subseteq used(alarms), Fewer(gone),
         alarmAmount' = alarmAmount - Cardinality(gone),
         \/ stored' = image(alarms')
         \/ gone = {} /\ stored' = stored
  PROVE  Alarms'
<1>1. Numbered' /\ NoShadow'
  BY FewerKeepNumbers DEF Alarms
<1>2. alarms' \in AlarmKind /\ nextId' \in 0 .. MaxId + 1
  BY DEF Alarms, Fewer
<1>3. alarmAmount' \in Int /\ ListedAlarmsExist'
  <2>1. /\ Cardinality(gone) \in Nat
        /\ Cardinality(used(alarms')) = Cardinality(used(alarms)) - Cardinality(gone)
    BY FewerAreCounted
  <2> QED BY <2>1, UsedIsFinite DEF Alarms, ListedAlarmsExist
<1>4. CASE stored' = image(alarms')
  BY <1>1, <1>2, <1>3, <1>4, StoredIsMirror DEF Alarms
<1>5. CASE gone = {} /\ stored' = stored
  <2>1. kept(alarms') = kept(alarms)
    BY <1>5, KeptIsSame DEF Fewer
  <2>2. stored' \in ImageKind /\ Mirrored'
    BY <1>5, <2>1 DEF Alarms, Mirrored, Fewer
  <2> QED BY <1>1, <1>2, <1>3, <2>2 DEF Alarms
<1> QED BY <1>4, <1>5

LEMMA RemoveIsSound ==
  ASSUME SmallNumbers, TypeOK, Alarms, NEW row \in rows, NEW answered,
         RemoveAlarm(row, answered)
  PROVE  Alarms'
<1> DEFINE found == first(alarms, row.id)
           gone == found \cap used(alarms)
<1>1. /\ alarms' = without(alarms, found) /\ stored' = image(alarms')
      /\ alarmAmount' = alarmAmount - (IF found = {} THEN 0 ELSE 1)
      /\ nextId' = nextId
  BY DEF RemoveAlarm
<1>2. /\ alarms' \in AlarmKind
      /\ \A s \in Slots : /\ alarms'[s].used <=> alarms[s].used /\ s \notin found
                          /\ alarms'[s].id = alarms[s].id
                          /\ alarms'[s].plan = alarms[s].plan
  BY <1>1, Removing
<1>3. \A s, t \in found : s = t
  BY Constants DEF first
<1> HIDE DEF found
<1>4. Fewer(gone)
  BY <1>1, <1>2 DEF Fewer, used
<1>5. Numbered' /\ NoShadow'
  BY <1>4, FewerKeepNumbers DEF Alarms
<1>6. stored' \in ImageKind /\ Mirrored'
  BY <1>1, <1>2, <1>5, StoredIsMirror
<1>7. alarmAmount' \in Int /\ ListedAlarmsExist'
  <2>1. /\ Cardinality(gone) \in Nat
        /\ Cardinality(used(alarms')) = Cardinality(used(alarms)) - Cardinality(gone)
    BY <1>4, FewerAreCounted
  <2>2. CASE found = {}
    <3>1. gone = {}
      BY <2>2
    <3> QED BY <1>1, <2>1, <2>2, <3>1, FS_EmptySet, UsedIsFinite
            DEF Alarms, ListedAlarmsExist
  <2>3. CASE found # {}
    <3>1. PICK s : s \in found
      BY <2>3
    <3>2. gone \subseteq {s}
      BY <1>3, <3>1
    <3>3. Cardinality(gone) <= 1
      <4>1. IsFiniteSet({s}) /\ Cardinality({s}) = 1
        BY FS_Singleton
      <4> HIDE DEF gone
      <4> QED BY <3>2, <4>1, FS_Subset
    <3> QED BY <1>1, <2>1, <2>3, <3>3, UsedIsFinite DEF Alarms, ListedAlarmsExist
  <2> QED BY <2>2, <2>3
<1> QED BY <1>1, <1>2, <1>5, <1>6, <1>7 DEF Alarms

LEMMA DeleteGroupIsSound ==
  ASSUME SmallNumbers, TypeOK, Alarms, NEW g, DeleteGroup(g)
  PROVE  Alarms'
<1> DEFINE gone == {s \in used(alarms) : alarms[s].plan.group = g}
<1>1. /\ alarms' = without(alarms, gone) /\ stored' = image(alarms')
      /\ alarmAmount' = alarmAmount - Cardinality(gone) /\ nextId' = nextId
  BY DEF DeleteGroup
<1>2. gone \subseteq used(alarms)
  OBVIOUS
<1> HIDE DEF gone
<1>3. Fewer(gone)
  BY <1>1, Removing DEF Fewer
<1> QED BY <1>1, <1>2, <1>3, FewerIsSound

LEMMA CheckIsSound ==
  ASSUME SmallNumbers, TypeOK, Alarms, CheckAlarms
  PROVE  Alarms'
<1>1. nextId' = nextId /\ NoShadow
  BY DEF CheckAlarms, Alarms
<1>2. Fewer(Expired)
  BY <1>1, Checking DEF Fewer
<1>3. Expired \subseteq used(alarms)
  BY DEF Expired, endsForGood, ends, running, used
<1>4. /\ alarmAmount' = alarmAmount - Cardinality(Expired)
      /\ stored' = IF Expired = {} THEN stored ELSE image(alarms')
  BY <1>1, Checking
<1> HIDE DEF Expired
<1> QED BY <1>2, <1>3, <1>4, FewerIsSound

LEMMA AddIsSound ==
  ASSUME SmallNumbers, TypeOK, Alarms, NEW p \in Plans, NEW answered, AddAlarm(p, answered)
  PROVE  Alarms'
<1>1. CASE UNCHANGED <<alarms, alarmAmount, nextId, stored>>
  BY <1>1 DEF Alarms, Numbered, NoShadow, Mirrored, ListedAlarmsExist
<1>2. CASE ~ UNCHANGED <<alarms, alarmAmount, nextId, stored>>
  <2>1. PICK s \in Slots \ used(alarms) :
          /\ \A t \in Slots \ used(alarms) : s <= t
          /\ alarms' = inSlot(alarms, s, p) /\ alarmAmount' = alarmAmount + 1
          /\ nextId' = nextId + 1 /\ stored' = image(alarms')
    BY <1>2 DEF AddAlarm
  <2>2. nextId <= MaxId
    BY DEF AddAlarm
  <2>3. /\ alarms' \in AlarmKind /\ nextId \in Ids
        /\ \A t \in Slots : t # s => alarms'[t] = alarms[t]
        /\ alarms'[s].used /\ alarms'[s].id = nextId /\ alarms'[s].plan = p
    BY <2>1, <2>2, Adding
  <2>4. Numbered'
    BY <2>1, <2>3, Constants DEF Alarms, Numbered, Ids
  <2>5. NoShadow'
    <3> SUFFICES ASSUME NEW t \in Slots, NEW u \in Slots, t < u, alarms'[u].used
                 PROVE  alarms'[t].id # alarms'[u].id
      BY DEF NoShadow
    <3>1. CASE u = s
      <4>1. t \in used(alarms) /\ t # s
        BY <2>1, <3>1, Constants
      <4>2. alarms[t].id < nextId /\ alarms[t].id \in Ids /\ nextId \in Nat
        BY <2>3, <4>1, Constants DEF Alarms, Numbered, used
      <4> QED BY <2>3, <3>1, <4>1, <4>2, Constants
    <3>2. CASE u # s
      <4>1. alarms[u].used /\ alarms'[u].id = alarms[u].id
        BY <2>3, <3>2
      <4>2. alarms[u].id < nextId /\ alarms[u].id \in Ids
        BY <4>1 DEF Alarms, Numbered
      <4>3. CASE t = s
        BY <2>3, <4>1, <4>2, <4>3, Constants
      <4>4. CASE t # s
        BY <2>3, <4>1, <4>4 DEF Alarms, NoShadow
      <4> QED BY <4>3, <4>4
    <3> QED BY <3>1, <3>2
  <2>6. stored' \in ImageKind /\ Mirrored'
    BY <2>1, <2>3, <2>4, <2>5, StoredIsMirror
  <2>7. alarmAmount' \in Int /\ ListedAlarmsExist'
    <3>1. used(alarms') = used(alarms) \cup {s}
      BY <2>1, <2>3 DEF used
    <3>2. Cardinality(used(alarms')) = Cardinality(used(alarms)) + 1
      <4>1. IsFiniteSet(used(alarms)) /\ s \notin used(alarms)
        BY <2>1, UsedIsFinite
      <4>2. Cardinality(used(alarms) \cup {s}) = Cardinality(used(alarms)) + 1
        BY <4>1, FS_AddElement
      <4> QED BY <3>1, <4>2
    <3> QED BY <2>1, <3>2, UsedIsFinite DEF Alarms, ListedAlarmsExist
  <2>8. nextId' \in 0 .. MaxId + 1
    BY <2>1, <2>2, Constants DEF Alarms
  <2> QED BY <2>3, <2>4, <2>5, <2>6, <2>7, <2>8 DEF Alarms
<1> QED BY <1>1, <1>2
-----------------------------------------------------------------------------
(* A restart *)

\* The slots are filled in order, so the used ones come first, each with the
\* number of the place it was read from.
LEMMA RestartPacks ==
  ASSUME TypeOK, Mirrored, Restart
  PROVE  \E f \in packings :
    /\ DOMAIN f = used(stored) /\ \A s \in used(stored) : f[s] \in Slots
    /\ \A s, t \in used(stored) : s # t => f[s] # f[t]
    /\ \A k \in Slots : alarms'[k].used <=> \E s \in used(stored) : f[s] = k
    /\ \A s \in used(stored) : /\ alarms'[f[s]].used /\ ~alarms'[f[s]].started
                               /\ alarms'[f[s]].id = stored[s].id
                               /\ alarms'[f[s]].plan = stored[s].plan
    /\ \A k \in Slots : ~alarms'[k].started
    /\ alarms' \in AlarmKind
    /\ alarmAmount' = Cardinality(used(stored))
    /\ nextId' = IF used(stored) = {} THEN 0
                 ELSE 1 + stored[CHOOSE s \in used(stored) :
                            \A t \in used(stored) : stored[t].id <= stored[s].id].id
<1> DEFINE U == used(stored)
<1>1. PICK f \in packings, junk \in [Slots -> Junk] :
        LET V == DOMAIN f
            into(k) == CHOOSE s \in V : f[s] = k IN
        /\ alarms' = [k \in Slots |->
             IF k \in {f[s] : s \in V}
             THEN [used |-> TRUE, started |-> FALSE, id |-> stored[into(k)].id,
                   plan |-> stored[into(k)].plan]
             ELSE [used |-> FALSE, started |-> FALSE, id |-> junk[k],
                   plan |-> AnyPlan]]
        /\ alarmAmount' = Cardinality(V)
        /\ nextId' = IF V = {} THEN 0
                     ELSE 1 + stored[CHOOSE s \in V :
                                \A t \in V : stored[t].id <= stored[s].id].id
  BY DEF Restart
<1>2. /\ f \in [U -> Slots] /\ DOMAIN f = U
      /\ \A s, t \in U : s < t => f[s] < f[t]
  BY DEF packings, used
<1>3. U \subseteq Slots
  BY DEF used
<1>4. \A s, t \in U : s # t => f[s] # f[t]
  <2> SUFFICES ASSUME NEW s \in U, NEW t \in U, s # t PROVE f[s] # f[t]
    OBVIOUS
  <2>1. s \in Nat /\ t \in Nat /\ f[s] \in Nat /\ f[t] \in Nat
    BY <1>2, <1>3, Constants
  <2>2. s < t \/ t < s
    BY <2>1
  <2>3. f[s] < f[t] \/ f[t] < f[s]
    BY <1>2, <2>2
  <2> QED BY <2>1, <2>3
<1> DEFINE into(k) == CHOOSE s \in U : f[s] = k
<1>5. \A s \in U : into(f[s]) = s
  <2> SUFFICES ASSUME NEW s \in U PROVE into(f[s]) = s
    OBVIOUS
  <2>1. into(f[s]) \in U /\ f[into(f[s])] = f[s]
    OBVIOUS
  <2> HIDE DEF into
  <2> QED BY <1>4, <2>1
<1>6. \A k \in Slots : alarms'[k] =
        IF k \in {f[s] : s \in U}
        THEN [used |-> TRUE, started |-> FALSE, id |-> stored[into(k)].id,
              plan |-> stored[into(k)].plan]
        ELSE [used |-> FALSE, started |-> FALSE, id |-> junk[k], plan |-> AnyPlan]
  BY <1>1, <1>2
<1>7. DOMAIN alarms' = Slots /\ alarms' = [k \in Slots |-> alarms'[k]]
  BY <1>1
<1>8. /\ alarmAmount' = Cardinality(U)
      /\ nextId' = IF U = {} THEN 0
                   ELSE 1 + stored[CHOOSE s \in U :
                              \A t \in U : stored[t].id <= stored[s].id].id
  BY <1>1, <1>2
<1> HIDE DEF into
<1>9. \A s \in U : /\ alarms'[f[s]].used /\ ~alarms'[f[s]].started
                   /\ alarms'[f[s]].id = stored[s].id
                   /\ alarms'[f[s]].plan = stored[s].plan
  <2> SUFFICES ASSUME NEW s \in U
               PROVE  /\ alarms'[f[s]].used /\ ~alarms'[f[s]].started
                      /\ alarms'[f[s]].id = stored[s].id
                      /\ alarms'[f[s]].plan = stored[s].plan
    OBVIOUS
  <2>1. f[s] \in Slots /\ f[s] \in {f[t] : t \in U} /\ into(f[s]) = s
    BY <1>2, <1>5
  <2>2. alarms'[f[s]] = [used |-> TRUE, started |-> FALSE, id |-> stored[s].id,
                         plan |-> stored[s].plan]
    BY <1>6, <2>1
  <2> QED BY <2>2
<1>10. \A k \in Slots : (\A s \in U : f[s] # k) =>
         alarms'[k] = [used |-> FALSE, started |-> FALSE, id |-> junk[k], plan |-> AnyPlan]
  BY <1>6
<1>11. \A k \in Slots : /\ alarms'[k].used <=> \E s \in U : f[s] = k
                        /\ ~alarms'[k].started
  <2> SUFFICES ASSUME NEW k \in Slots
               PROVE  /\ alarms'[k].used <=> \E s \in U : f[s] = k
                      /\ ~alarms'[k].started
    OBVIOUS
  <2>1. CASE \E s \in U : f[s] = k
    BY <1>9, <2>1
  <2>2. CASE \A s \in U : f[s] # k
    <3>1. alarms'[k] = [used |-> FALSE, started |-> FALSE, id |-> junk[k],
                        plan |-> AnyPlan]
      BY <1>10, <2>2
    <3> QED BY <2>2, <3>1
  <2> QED BY <2>1, <2>2
<1>12. alarms' \in AlarmKind
  <2>1. ASSUME NEW k \in Slots
        PROVE  alarms'[k] \in [used : BOOLEAN, started : BOOLEAN, id : Ids \cup Junk,
                               plan : Plans]
    <3>1. CASE \E s \in U : f[s] = k
      <4>1. PICK s \in U : f[s] = k
        BY <3>1
      <4>2. stored[s].id \in Ids /\ stored[s].plan \in Plans
        BY <1>3 DEF TypeOK
      <4>3. alarms'[k] = [used |-> TRUE, started |-> FALSE, id |-> stored[s].id,
                          plan |-> stored[s].plan]
        BY <1>5, <1>6, <4>1
      <4> QED BY <4>2, <4>3
    <3>2. CASE ~ \E s \in U : f[s] = k
      <4>1. alarms'[k] = [used |-> FALSE, started |-> FALSE, id |-> junk[k],
                          plan |-> AnyPlan]
        BY <1>10, <3>2
      <4>2. junk[k] \in Ids \cup Junk /\ AnyPlan \in Plans
        BY Constants
      <4> QED BY <4>1, <4>2
    <3> QED BY <3>1, <3>2
  <2> QED BY <1>7, <2>1 DEF AlarmKind
<1> HIDE DEF U
<1> QED BY <1>2, <1>4, <1>8, <1>9, <1>11, <1>12 DEF U

\* The largest number stored.
LEMMA LastNumber ==
  ASSUME TypeOK, used(stored) # {}
  PROVE  \E s \in used(stored) : \A t \in used(stored) : stored[t].id <= stored[s].id
<1> DEFINE Gaps == {MaxId - stored[s].id : s \in used(stored)}
           Less == {p \in Nat \X Nat : p[1] < p[2]}
<1>1. \A s \in used(stored) : stored[s].id \in 0 .. MaxId
  BY DEF TypeOK, used, Ids
<1>2. Gaps \subseteq Nat /\ Gaps # {}
  BY <1>1, Constants
<1>3. IsWellFoundedOn(Less, Nat)
  BY NatLessThanWellFounded DEF OpToRel
<1>4. PICK g \in Gaps : \A h \in Gaps : ~(<<h, g>> \in Less)
  <2> HIDE DEF Less, Gaps
  <2> QED BY <1>2, <1>3, WFMin
<1>5. \A h \in Gaps : g <= h
  <2> SUFFICES ASSUME NEW h \in Gaps PROVE g <= h
    OBVIOUS
  <2>1. g \in Nat /\ h \in Nat /\ ~(<<h, g>> \in Less)
    BY <1>2, <1>4
  <2> HIDE DEF Gaps
  <2> QED BY <2>1
<1>6. PICK s \in used(stored) : g = MaxId - stored[s].id
  BY <1>4
<1>7. \A t \in used(stored) : MaxId - stored[s].id <= MaxId - stored[t].id
  BY <1>5, <1>6
<1> QED BY <1>1, <1>7, Constants

LEMMA RestartIsSound ==
  ASSUME SmallNumbers, TypeOK, Alarms, Restart
  PROVE  Alarms'
<1>1. stored' = stored /\ Mirrored /\ stored \in ImageKind
  BY DEF Restart, Alarms
<1>2. PICK f \in packings :
    /\ DOMAIN f = used(stored) /\ \A s \in used(stored) : f[s] \in Slots
    /\ \A s, t \in used(stored) : s # t => f[s] # f[t]
    /\ \A k \in Slots : alarms'[k].used <=> \E s \in used(stored) : f[s] = k
    /\ \A s \in used(stored) : /\ alarms'[f[s]].used /\ ~alarms'[f[s]].started
                               /\ alarms'[f[s]].id = stored[s].id
                               /\ alarms'[f[s]].plan = stored[s].plan
    /\ \A k \in Slots : ~alarms'[k].started
    /\ alarms' \in AlarmKind
    /\ alarmAmount' = Cardinality(used(stored))
    /\ nextId' = IF used(stored) = {} THEN 0
                 ELSE 1 + stored[CHOOSE s \in used(stored) :
                            \A t \in used(stored) : stored[t].id <= stored[s].id].id
  BY <1>1, RestartPacks
<1> DEFINE U == used(stored)
<1>3. U \subseteq Slots /\ \A s \in U : stored[s].used /\ stored[s].id \in 0 .. MaxId
  BY DEF used, TypeOK, Ids
<1>4. nextId' \in 0 .. MaxId + 1 /\ \A s \in U : stored[s].id < nextId'
  <2>1. CASE U = {}
    BY <1>2, <2>1, Constants
  <2>2. CASE U # {}
    <3> DEFINE last == CHOOSE s \in U : \A t \in U : stored[t].id <= stored[s].id
    <3>1. last \in U /\ \A t \in U : stored[t].id <= stored[last].id
      BY <2>2, LastNumber
    <3>2. nextId' = 1 + stored[last].id
      BY <1>2, <2>2
    <3> HIDE DEF last, U
    <3> QED BY <1>3, <3>1, <3>2, Constants
  <2> QED BY <2>1, <2>2
<1>5. kept(alarms') = kept(stored)
  <2>1. \A k \in used(alarms') : \E s \in U :
          /\ alarms'[k].id = stored[s].id /\ alarms'[k].plan = stored[s].plan
    BY <1>2 DEF used
  <2>2. \A s \in U : \E k \in used(alarms') :
          /\ alarms'[k].id = stored[s].id /\ alarms'[k].plan = stored[s].plan
    BY <1>2 DEF used
  <2> QED BY <2>1, <2>2 DEF kept
<1>6. Mirrored'
  BY <1>1, <1>3, <1>4, <1>5 DEF Mirrored, used
<1>7. Numbered'
  <2> SUFFICES ASSUME NEW k \in Slots, alarms'[k].used
               PROVE  alarms'[k].id \in Ids /\ alarms'[k].id < nextId'
    BY DEF Numbered
  <2>1. PICK s \in U : f[s] = k
    BY <1>2
  <2> QED BY <1>2, <1>3, <1>4, <2>1 DEF Ids
<1>8. NoShadow'
  <2> SUFFICES ASSUME NEW j \in Slots, NEW k \in Slots, j < k, alarms'[k].used
               PROVE  alarms'[j].id # alarms'[k].id
    BY DEF NoShadow
  <2>1. PICK t \in U : f[t] = k
    BY <1>2
  <2>2. PICK s \in U : f[s] = j
    <3>1. DOMAIN f = U /\ \A v \in DOMAIN f : \A i \in 1 .. f[v] :
            \E u \in DOMAIN f : f[u] = i
      BY <1>2 DEF packings
    <3>2. j \in 1 .. f[t] /\ t \in DOMAIN f
      BY <2>1, <3>1, Constants DEF Slots
    <3> QED BY <3>1, <3>2
  <2>3. s # t /\ s \in Slots /\ t \in Slots /\ stored[s].used /\ stored[t].used
    BY <1>3, <2>1, <2>2, Constants
  <2>4. stored[s].id # stored[t].id
    BY <1>1, <2>3 DEF Mirrored
  <2> QED BY <1>2, <2>1, <2>2, <2>4
<1>9. alarmAmount' \in Int /\ ListedAlarmsExist'
  <2> DEFINE g == [s \in U |-> f[s]]
  <2>1. g \in Bijection(U, used(alarms'))
    <3>1. g \in [U -> used(alarms')]
      BY <1>2 DEF used
    <3>2. \A s, t \in U : g[s] = g[t] => s = t
      BY <1>2
    <3>3. \A k \in used(alarms') : \E s \in U : g[s] = k
      BY <1>2 DEF used
    <3> HIDE DEF g, U
    <3> QED BY <3>1, <3>2, <3>3 DEF Bijection, Injection, Surjection, IsInjective
  <2>2. Cardinality(used(alarms')) = Cardinality(U)
    <3>1. ExistsBijection(U, used(alarms')) /\ IsFiniteSet(U)
      BY <2>1, UsedIsFinite DEF ExistsBijection
    <3> HIDE DEF U
    <3> QED BY <3>1, FS_Bijection
  <2> QED BY <1>2, <2>2, UsedIsFinite DEF ListedAlarmsExist
<1> QED BY <1>1, <1>2, <1>4, <1>6, <1>7, <1>8, <1>9 DEF Alarms
-----------------------------------------------------------------------------
(* The types, and the invariant *)

LEMMA AlarmsAreTyped ==
  ASSUME SmallNumbers, Alarms, TypeOK, Next
  PROVE  Alarms'
<1>1. CASE Tick \/ (\E t \in Times : SetClock(t)) \/ (\E g \in Groups : UserTurns(g))
  BY <1>1 DEF Tick, SetClock, UserTurns, Alarms, Numbered, NoShadow, Mirrored,
     ListedAlarmsExist
<1> QED BY <1>1, AddIsSound, RemoveIsSound, DeleteGroupIsSound, CheckIsSound,
        RestartIsSound DEF Next

\* The number of a new row is the answered one, or none.
LEMMA RowsAfterAdd ==
  ASSUME TypeOK, NEW p \in Plans, NEW answered, AddAlarm(p, answered)
  PROVE  /\ nextId \in 0 .. MaxId
         /\ \/ nextId' = nextId
               /\ rows' \subseteq rows \cup {[id |-> -1, plan |-> p]}
            \/ nextId' = nextId + 1
               /\ rows' \subseteq rows \cup {[id |-> answer(nextId), plan |-> p]}
BY DEF AddAlarm, TypeOK

LEMMA AnswerIsNumber ==
  ASSUME NEW n \in 0 .. MaxId
  PROVE  answer(n) \in Ids
<1>1. n \div 10 \in 0 .. n
  OBVIOUS
<1> QED BY <1>1, Constants DEF answer, Ids

LEMMA RestOfTypes ==
  ASSUME TypeOK, Next
  PROVE  /\ now' \in Times /\ checked' \in BOOLEAN /\ lit' \in [Groups -> BOOLEAN]
         /\ rows' \subseteq [id : Ids \cup {-1}, plan : Plans]
<1>1. /\ now \in Times /\ checked \in BOOLEAN /\ lit \in [Groups -> BOOLEAN]
      /\ rows \subseteq [id : Ids \cup {-1}, plan : Plans]
  BY DEF TypeOK
<1>2. ASSUME NEW p \in Plans, NEW answered, AddAlarm(p, answered)
      PROVE  rows' \subseteq [id : Ids \cup {-1}, plan : Plans]
  <2>1. answer(nextId) \in Ids
    BY <1>2, RowsAfterAdd, AnswerIsNumber
  <2>2. /\ [id |-> -1, plan |-> p] \in [id : Ids \cup {-1}, plan : Plans]
        /\ [id |-> answer(nextId), plan |-> p] \in [id : Ids \cup {-1}, plan : Plans]
    BY <2>1
  <2>3. \/ rows' \subseteq rows \cup {[id |-> -1, plan |-> p]}
        \/ rows' \subseteq rows \cup {[id |-> answer(nextId), plan |-> p]}
    BY <1>2, RowsAfterAdd
  <2> QED BY <1>1, <2>2, <2>3
<1>3. CASE \/ \E p \in Plans, answered \in Answers : AddAlarm(p, answered)
           \/ \E row \in rows, answered \in Answers : RemoveAlarm(row, answered)
           \/ \E g \in Groups : DeleteGroup(g)
  BY <1>1, <1>2, <1>3 DEF AddAlarm, RemoveAlarm, DeleteGroup
<1>4. CASE CheckAlarms
  <2>1. lit' = [g \in Groups |-> litAfter(g)]
    BY <1>4 DEF CheckAlarms
  <2>2. \A g \in Groups : litAfter(g) \in BOOLEAN
    BY <1>1 DEF litAfter, begins
  <2> QED BY <1>1, <1>4, <2>1, <2>2 DEF CheckAlarms
<1>5. CASE Tick
  <2>1. /\ YearDays \in Nat \ {0} /\ DayMinutes \in Nat \ {0}
    BY CalendarConstants DEF CalendarConstants
  <2>2. now.day \in Nat /\ now.minute \in Nat /\ now.day \in 0 .. YearDays - 1
        /\ now.minute \in 0 .. DayMinutes - 1
    BY <1>1, <2>1 DEF Times, Minutes
  <2>3. (now.day + 1) % YearDays \in 0 .. YearDays - 1
    BY <2>1, <2>2
  <2>4. now' \in Times
    <3>1. CASE now.minute + 1 < DayMinutes
      <4>1. now.minute + 1 \in 0 .. DayMinutes - 1
        BY <2>1, <2>2, <3>1
      <4>2. now' = [now EXCEPT !.minute = @ + 1]
        BY <1>5, <3>1 DEF Tick
      <4> QED BY <1>1, <4>1, <4>2 DEF Times, Minutes
    <3>2. CASE ~(now.minute + 1 < DayMinutes)
      <4>1. 0 \in 0 .. DayMinutes - 1
        BY <2>1
      <4>2. now' = [day |-> (now.day + 1) % YearDays, minute |-> 0]
        BY <1>5, <3>2 DEF Tick
      <4> QED BY <2>3, <4>1, <4>2 DEF Times, Minutes
    <3> QED BY <3>1, <3>2
  <2> QED BY <1>1, <1>5, <2>4 DEF Tick
<1>6. CASE (\E t \in Times : SetClock(t)) \/ (\E g \in Groups : UserTurns(g)) \/ Restart
  BY <1>1, <1>6 DEF SetClock, UserTurns, Restart
<1> QED BY <1>1, <1>3, <1>4, <1>5, <1>6 DEF Next

LEMMA IInvIs == IInv <=> TypeOK /\ Alarms
BY DEF IInv, Alarms, TypeOK, AlarmKind, ImageKind

LEMMA IInvInit == SmallNumbers /\ Init => IInv
<1> SUFFICES ASSUME Init PROVE IInv
  OBVIOUS
<1>1. TypeOK
  <2>1. Blank \in [used : BOOLEAN, id : Ids, plan : Plans]
    BY Constants DEF Blank, Ids
  <2>2. PICK junk \in [Slots -> Junk] :
          alarms = [s \in Slots |-> [used |-> FALSE, started |-> FALSE,
                                     id |-> junk[s], plan |-> AnyPlan]]
    BY DEF Init
  <2>3. alarms \in AlarmKind
    BY <2>2, Constants DEF AlarmKind
  <2>4. stored \in ImageKind
    BY <2>1 DEF Init, ImageKind
  <2>5. nextId \in 0 .. MaxId + 1
    BY Constants DEF Init
  <2>6. now \in Times /\ checked \in BOOLEAN /\ alarmAmount \in Int
    <3>1. checked = FALSE /\ alarmAmount = 0 /\ now \in Times
      BY Zenon DEF Init
    <3>2. alarmAmount \in Int
      BY <3>1
    <3>3. checked \in BOOLEAN
      BY <3>1, Zenon
    <3> QED BY <3>1, <3>2, <3>3
  <2>7. lit \in [Groups -> BOOLEAN]
    BY DEF Init
  <2>8. rows \subseteq [id : Ids \cup {-1}, plan : Plans]
    BY DEF Init
  <2> QED BY <2>3, <2>4, <2>5, <2>6, <2>7, <2>8 DEF TypeOK, AlarmKind, ImageKind
<1>2. \A s \in Slots : ~alarms[s].used /\ ~stored[s].used
  BY DEF Init, Blank
<1>3. used(alarms) = {} /\ used(stored) = {}
  BY <1>2 DEF used
<1>4. ListedAlarmsExist
  <2>1. alarmAmount = 0
    BY DEF Init
  <2>2. Cardinality({}) = 0
    BY FS_EmptySet
  <2> QED BY <1>3, <2>1, <2>2 DEF ListedAlarmsExist
<1>5. Mirrored
  BY <1>2, <1>3 DEF Mirrored, kept
<1> QED BY <1>1, <1>2, <1>4, <1>5 DEF IInv, Numbered, NoShadow

LEMMA IInvNext == SmallNumbers /\ IInv /\ [Next]_vars => IInv'
<1> SUFFICES ASSUME SmallNumbers, IInv, [Next]_vars PROVE IInv'
  OBVIOUS
<1>1. TypeOK /\ Alarms
  BY IInvIs
<1>2. CASE Next
  <2>1. Alarms'
    BY <1>1, <1>2, AlarmsAreTyped
  <2>2. /\ now' \in Times /\ checked' \in BOOLEAN /\ lit' \in [Groups -> BOOLEAN]
        /\ rows' \subseteq [id : Ids \cup {-1}, plan : Plans]
    BY <1>1, <1>2, RestOfTypes
  <2> QED BY <2>1, <2>2 DEF Alarms, IInv, TypeOK, AlarmKind, ImageKind
<1>3. CASE UNCHANGED vars
  BY <1>3 DEF vars, IInv, TypeOK, Numbered, NoShadow, Mirrored, ListedAlarmsExist
<1> QED BY <1>2, <1>3

THEOREM Invariance == ASSUME SmallNumbers PROVE Spec => []IInv
<1>1. Init => IInv
  BY IInvInit
<1>2. IInv /\ [Next]_vars => IInv'
  BY IInvNext
<1> QED BY <1>1, <1>2, PTL DEF Spec

\* The clock, the slots, the image and the rows keep their types.
THEOREM TypeCorrect == ASSUME SmallNumbers PROVE Spec => []TypeOK
<1>1. IInv => TypeOK
  BY DEF IInv
<1> QED BY <1>1, Invariance, PTL

\* An alarm is found by its number, whatever was removed, restarted or left in
\* the slots.
THEOREM NumbersFindAlarms == ASSUME SmallNumbers PROVE Spec => []NoShadow
<1>1. IInv => NoShadow
  BY DEF IInv
<1> QED BY <1>1, Invariance, PTL

\* The list never runs past the alarms there are.
THEOREM ListIsNotTooLong == ASSUME SmallNumbers PROVE Spec => []ListedAlarmsExist
<1>1. IInv => ListedAlarmsExist
  BY DEF IInv
<1> QED BY <1>1, Invariance, PTL

\* A restart reads back the alarms there were.
THEOREM RestartReadsBack == ASSUME SmallNumbers PROVE Spec => RestartKeepsAlarms
<1>1. IInv /\ IInv' /\ [Next]_vars => [Restart => kept(alarms') = kept(alarms)]_vars
  <2> SUFFICES ASSUME IInv, IInv', Restart PROVE kept(alarms') = kept(alarms)
    OBVIOUS
  <2>1. stored' = stored
    BY DEF Restart
  <2>2. kept(stored) = kept(alarms) /\ kept(stored') = kept(alarms')
    BY DEF IInv, Mirrored
  <2> QED BY <2>1, <2>2
<1> QED BY <1>1, Invariance, PTL DEF Spec, RestartKeepsAlarms
-----------------------------------------------------------------------------
(* The server's rows, while the master runs *)

\* The rows name numbers that were given; -1 names none.
RowsGiven == \A r \in rows : r.id \in Int /\ r.id < nextId

LEMMA RowsAfterNext ==
  ASSUME IInv, RowsGiven, RowsNameTheirAlarms, MaxId < TextLimit, ~Restart, Next
  PROVE  RowsGiven' /\ RowsNameTheirAlarms'
<1>1. TypeOK /\ nextId \in Nat
  BY Constants DEF IInv, TypeOK
<1>2. ASSUME NEW p \in Plans, NEW answered, AddAlarm(p, answered)
      PROVE  RowsGiven' /\ RowsNameTheirAlarms'
  <2>1. nextId <= MaxId /\ answer(nextId) = nextId
    <3>1. nextId <= MaxId
      BY <1>2 DEF AddAlarm
    <3>2. TextLimit \in Nat /\ MaxId \in Nat
      BY CalendarConstants DEF CalendarConstants
    <3> QED BY <1>1, <3>1, <3>2 DEF answer
  <2>2. CASE used(alarms) = Slots
    <3>1. /\ alarms' = alarms /\ nextId' = nextId
          /\ rows' \subseteq rows \cup {[id |-> -1, plan |-> p]}
      BY <1>2, <2>2 DEF AddAlarm
    <3>2. \A s \in Slots : alarms[s].used => alarms[s].id \in Ids
      BY DEF IInv, Numbered
    <3>3. -1 \notin Ids
      BY Constants
    <3> QED BY <1>1, <3>1, <3>2, <3>3 DEF RowsGiven, RowsNameTheirAlarms
  <2>3. CASE used(alarms) # Slots
    <3>1. PICK s \in Slots :
            /\ alarms' = inSlot(alarms, s, p) /\ nextId' = nextId + 1
            /\ rows' \subseteq rows \cup {[id |-> nextId, plan |-> p]}
      BY <1>2, <2>1, <2>3 DEF AddAlarm
    <3>2. /\ \A t \in Slots : t # s => alarms'[t] = alarms[t]
          /\ alarms'[s].used /\ alarms'[s].id = nextId /\ alarms'[s].plan = p
      BY <1>1, <2>1, <3>1, Adding
    <3>3. \A t \in Slots : alarms[t].used => alarms[t].id # nextId
      <4>1. \A t \in Slots : alarms[t].used => alarms[t].id < nextId
        BY DEF IInv, Numbered
      <4> QED BY <1>1, <4>1
    <3>4. RowsGiven'
      BY <1>1, <3>1 DEF RowsGiven
    <3>5. ASSUME NEW r \in rows', NEW t \in Slots, alarms'[t].used, alarms'[t].id = r.id
          PROVE  alarms'[t].plan = r.plan
      <4>1. CASE r \in rows
        BY <1>1, <3>2, <3>5, <4>1 DEF RowsGiven, RowsNameTheirAlarms
      <4>2. CASE r = [id |-> nextId, plan |-> p]
        BY <3>2, <3>3, <3>5, <4>2
      <4> QED BY <3>1, <4>1, <4>2
    <3> QED BY <3>4, <3>5 DEF RowsNameTheirAlarms
  <2> QED BY <2>2, <2>3
<1>3. CASE \/ \E row \in rows, answered \in Answers : RemoveAlarm(row, answered)
           \/ \E g \in Groups : DeleteGroup(g)
  <2>1. PICK gone : alarms' = without(alarms, gone)
    BY <1>3 DEF RemoveAlarm, DeleteGroup
  <2>2. rows' \subseteq rows /\ nextId' = nextId
    BY <1>3 DEF RemoveAlarm, DeleteGroup
  <2> QED BY <1>1, <2>1, <2>2, Removing DEF RowsGiven, RowsNameTheirAlarms
<1>4. CASE CheckAlarms
  <2>1. rows' = rows /\ nextId' = nextId
    BY <1>4 DEF CheckAlarms
  <2> QED BY <1>1, <1>4, <2>1, Checking DEF IInv, RowsGiven, RowsNameTheirAlarms
<1>5. CASE Tick \/ (\E t \in Times : SetClock(t)) \/ (\E g \in Groups : UserTurns(g))
  BY <1>5 DEF Tick, SetClock, UserTurns, RowsGiven, RowsNameTheirAlarms
<1> QED BY <1>2, <1>3, <1>4, <1>5 DEF Next

\* While the master runs and its answers have room for the number, a row that
\* the web deletes deletes no other alarm.
THEOREM RowsNameAlarms ==
  ASSUME SmallNumbers, MaxId < TextLimit, "RESTART" \notin Uses
  PROVE  Spec => []RowsNameTheirAlarms
<1> DEFINE Rows == RowsGiven /\ RowsNameTheirAlarms
<1>1. Init => Rows
  BY DEF Init, RowsGiven, RowsNameTheirAlarms
<1>2. IInv /\ Rows /\ [Next]_vars => Rows'
  <2> SUFFICES ASSUME IInv, Rows, [Next]_vars PROVE Rows'
    OBVIOUS
  <2>1. ~Restart
    BY DEF Restart
  <2>2. CASE UNCHANGED vars
    BY <2>2 DEF vars, RowsGiven, RowsNameTheirAlarms
  <2> QED BY <2>1, <2>2, RowsAfterNext
<1>3. Rows => RowsNameTheirAlarms
  OBVIOUS
<1> QED BY <1>1, <1>2, <1>3, Invariance, PTL DEF Spec
-----------------------------------------------------------------------------
(* What a running alarm promises, as long as none is taken away *)

\* Only a used slot holds a started flag.
Still == \A s \in Slots : alarms[s].started => alarms[s].used

NoneTaken == "REMOVE_RUNNING" \notin Uses /\ "DELETE_GROUP" \notin Uses

\* Nothing but a check and a restart starts or ends an alarm.
LEMMA RunsGoOn ==
  ASSUME NoneTaken, TypeOK, Still, ~CheckAlarms, ~Restart, Next
  PROVE  /\ Still'
         /\ \A s \in Slots :
              /\ alarms'[s].started <=> alarms[s].started
              /\ running(s) => alarms'[s].used /\ alarms'[s].plan = alarms[s].plan
<1>1. ASSUME NEW p \in Plans, NEW answered, AddAlarm(p, answered), alarms' # alarms
      PROVE  \A s \in Slots :
               /\ alarms'[s].started <=> alarms[s].started
               /\ alarms[s].used => alarms'[s].used /\ alarms'[s].plan = alarms[s].plan
  <2>1. PICK s \in Slots \ used(alarms) : alarms' = inSlot(alarms, s, p)
    BY <1>1 DEF AddAlarm
  <2>2. nextId <= MaxId
    BY <1>1 DEF AddAlarm
  <2>3. ~alarms[s].used
    BY <2>1 DEF used
  <2> QED BY <2>1, <2>2, <2>3, Adding
<1>2. ASSUME NEW row, NEW answered, RemoveAlarm(row, answered)
      PROVE  \A s \in Slots :
               /\ alarms'[s].started <=> alarms[s].started
               /\ running(s) => alarms'[s].used /\ alarms'[s].plan = alarms[s].plan
  <2>1. PICK found : /\ alarms' = without(alarms, found)
                     /\ \A s \in found : ~running(s)
    BY <1>2 DEF RemoveAlarm, NoneTaken
  <2> QED BY <2>1, Removing DEF running
<1>3. CASE alarms' = alarms
  BY <1>3 DEF Still, running
<1>4. CASE alarms' # alarms
  <2>1. \A g \in Groups : ~DeleteGroup(g)
    BY DEF DeleteGroup, NoneTaken
  <2>2. \/ \E p \in Plans, answered \in Answers : AddAlarm(p, answered)
        \/ \E row \in rows, answered \in Answers : RemoveAlarm(row, answered)
    BY <1>4, <2>1 DEF Next, Tick, SetClock, UserTurns
  <2>3. \A s \in Slots :
          /\ alarms'[s].started <=> alarms[s].started
          /\ running(s) => alarms'[s].used /\ alarms'[s].plan = alarms[s].plan
    BY <1>1, <1>2, <1>4, <2>2 DEF running
  <2> QED BY <2>3 DEF Still, running
<1> QED BY <1>3, <1>4

LEMMA StillAfterCheck ==
  ASSUME TypeOK, NoShadow, Still, CheckAlarms
  PROVE  Still'
BY Checking DEF Still, Expired, endsForGood, begins

\* No slot of the readAlarms is started.
LEMMA NothingRunsAfterRestart ==
  ASSUME Restart
  PROVE  \A s \in Slots : ~alarms'[s].started
<1>1. PICK f \in packings, junk \in [Slots -> Junk] :
        LET U == DOMAIN f
            into(k) == CHOOSE s \in U : f[s] = k IN
        alarms' = [k \in Slots |->
            IF k \in {f[s] : s \in U}
            THEN [used |-> TRUE, started |-> FALSE, id |-> stored[into(k)].id,
                  plan |-> stored[into(k)].plan]
            ELSE [used |-> FALSE, started |-> FALSE, id |-> junk[k],
                  plan |-> AnyPlan]]
  BY DEF Restart
<1> QED BY <1>1

LEMMA StillNext ==
  ASSUME NoneTaken, IInv, Still, [Next]_vars
  PROVE  Still'
<1>1. CASE UNCHANGED vars
  BY <1>1 DEF vars, Still
<1>2. CASE Next
  BY <1>2, RunsGoOn, StillAfterCheck, NothingRunsAfterRestart DEF IInv, Still
<1> QED BY <1>1, <1>2
-----------------------------------------------------------------------------
(* Within its two times *)

LEMMA ScheduleAfterCheck ==
  ASSUME IInv, OnSchedule, CheckAlarms
  PROVE  OnSchedule'
<1> SUFFICES ASSUME NEW s \in Slots, alarms'[s].used, alarms'[s].started,
                    alarms'[s].plan.start < alarms'[s].plan.finish
             PROVE  /\ sameDay(alarms'[s].plan, now')
                    /\ alarms'[s].plan.start <= now'.minute
                    /\ now'.minute <= alarms'[s].plan.finish
                    /\ now'.minute < alarms'[s].plan.finish
  BY DEF OnSchedule, running, sameDay
<1>1. now' = now
  BY DEF CheckAlarms
<1>2. /\ alarms'[s].plan = alarms[s].plan /\ alarms[s].used /\ ~ends(s)
      /\ alarms[s].started \/ begins(s)
  BY Checking DEF IInv
<1>3. /\ alarms[s].plan.start \in Int /\ alarms[s].plan.finish \in Int
      /\ now.minute \in Int
  BY CalendarConstants DEF IInv, TypeOK, CalendarConstants, Times, Minutes
<1>4. CASE alarms[s].started
  BY <1>1, <1>2, <1>3, <1>4 DEF OnSchedule, running, ends
<1>5. CASE begins(s)
  BY <1>1, <1>2, <1>3, <1>5 DEF begins
<1> QED BY <1>2, <1>4, <1>5

LEMMA ScheduleAfterTick ==
  ASSUME "MISS" \notin Uses, TypeOK, OnSchedule, Tick
  PROVE  OnSchedule'
<1> SUFFICES ASSUME NEW s \in Slots, alarms'[s].used, alarms'[s].started,
                    alarms'[s].plan.start < alarms'[s].plan.finish
             PROVE  /\ sameDay(alarms'[s].plan, now')
                    /\ alarms'[s].plan.start <= now'.minute
                    /\ now'.minute <= alarms'[s].plan.finish
                    /\ ~checked'
  BY DEF OnSchedule, running, sameDay
<1>1. alarms' = alarms /\ checked /\ ~checked'
  BY DEF Tick
<1>2. /\ alarms[s].plan.start \in Int /\ alarms[s].plan.finish \in Minutes
      /\ now \in Times
  BY CalendarConstants DEF TypeOK, CalendarConstants, Minutes
<1>3. /\ sameDay(alarms[s].plan, now) /\ alarms[s].plan.start <= now.minute
      /\ now.minute < alarms[s].plan.finish
  BY <1>1 DEF OnSchedule, running
<1>4. now.minute \in Nat /\ DayMinutes \in Nat /\ now.minute + 1 < DayMinutes
  BY <1>2, <1>3, CalendarConstants DEF CalendarConstants, Times, Minutes
<1>5. now'.day = now.day /\ now'.minute = now.minute + 1
  BY <1>2, <1>4 DEF Tick, Times
<1> QED BY <1>1, <1>2, <1>3, <1>4, <1>5 DEF sameDay, Minutes

\* As long as no minute passes unchecked and the clock is not set, a running
\* alarm is between its two times.
THEOREM RunsOnSchedule ==
  ASSUME SmallNumbers, NoneTaken, "MISS" \notin Uses, "SET_CLOCK" \notin Uses
  PROVE  Spec => []OnSchedule
<1>1. Init => Still /\ OnSchedule
  BY DEF Init, Still, OnSchedule, running
<1>2. IInv /\ Still /\ OnSchedule /\ [Next]_vars => Still' /\ OnSchedule'
  <2> SUFFICES ASSUME IInv, Still, OnSchedule, [Next]_vars PROVE OnSchedule'
    BY StillNext
  <2>1. CASE UNCHANGED vars
    BY <2>1 DEF vars, OnSchedule, running, sameDay
  <2>2. CASE Next /\ ~CheckAlarms /\ ~Restart /\ ~Tick
    <3>1. now' = now /\ checked' = checked
      BY <2>2 DEF Next, AddAlarm, RemoveAlarm, DeleteGroup, UserTurns, SetClock
    <3>2. \A s \in Slots :
            alarms'[s].used /\ alarms'[s].started =>
              running(s) /\ alarms'[s].plan = alarms[s].plan
      BY <2>2, RunsGoOn DEF IInv, Still, running
    <3> QED BY <3>1, <3>2 DEF OnSchedule, running, sameDay
  <2>3. CASE Restart
    BY <2>3, NothingRunsAfterRestart DEF OnSchedule, running
  <2> QED BY <2>1, <2>2, <2>3, ScheduleAfterCheck, ScheduleAfterTick DEF IInv
<1> QED BY <1>1, <1>2, Invariance, PTL DEF Spec
-----------------------------------------------------------------------------
(* What is lit *)

\* The last slot that touches a group decides.
LEMMA LastTouch ==
  ASSUME NEW g \in Groups, touching(g) # {}
  PROVE  \E s \in touching(g) : \A t \in touching(g) : t <= s
<1> DEFINE Gaps == {MaxAlarms - s : s \in touching(g)}
           Less == {p \in Nat \X Nat : p[1] < p[2]}
<1>1. \A s \in touching(g) : s \in 1 .. MaxAlarms
  BY DEF touching, Slots
<1>2. Gaps \subseteq Nat /\ Gaps # {}
  BY <1>1, Constants
<1>3. IsWellFoundedOn(Less, Nat)
  BY NatLessThanWellFounded DEF OpToRel
<1>4. PICK least \in Gaps : \A h \in Gaps : ~(<<h, least>> \in Less)
  <2> HIDE DEF Less, Gaps
  <2> QED BY <1>2, <1>3, WFMin
<1>5. \A h \in Gaps : least <= h
  <2> SUFFICES ASSUME NEW h \in Gaps PROVE least <= h
    OBVIOUS
  <2>1. least \in Nat /\ h \in Nat /\ ~(<<h, least>> \in Less)
    BY <1>2, <1>4
  <2> HIDE DEF Gaps
  <2> QED BY <2>1
<1>6. PICK s \in touching(g) : least = MaxAlarms - s
  BY <1>4
<1>7. \A t \in touching(g) : MaxAlarms - s <= MaxAlarms - t
  BY <1>5, <1>6
<1> QED BY <1>1, <1>7, Constants

LEMMA LitAfterCheck ==
  ASSUME IInv, LitForAReason, CheckAlarms
  PROVE  LitForAReason'
<1>1. lit' = [g \in Groups |-> litAfter(g)]
  BY DEF CheckAlarms
<1>2. \A s \in Slots : /\ alarms'[s].used <=> alarms[s].used /\ ~endsForGood(s)
                       /\ alarms'[s].started <=> (alarms[s].started \/ begins(s)) /\ ~ends(s)
                       /\ alarms'[s].plan = alarms[s].plan
  BY Checking DEF IInv, Expired
<1> SUFFICES ASSUME NEW g \in Groups, litAfter(g)
             PROVE  \E s \in Slots : /\ alarms'[s].used /\ alarms'[s].started
                                     /\ covers(alarms'[s].plan, g)
  BY <1>1 DEF LitForAReason, running, covers
<1>3. CASE touching(g) = {}
  <2>1. PICK s \in Slots : running(s) /\ covers(alarms[s].plan, g)
    BY <1>3 DEF litAfter, LitForAReason
  <2>2. ~ends(s)
    BY <1>3, <2>1 DEF touching
  <2> QED BY <1>2, <2>1, <2>2 DEF running, endsForGood
<1>4. CASE touching(g) # {}
  <2>1. PICK s \in touching(g) : begins(s)
    BY <1>4, LastTouch DEF litAfter
  <2>2. /\ s \in Slots /\ covers(alarms[s].plan, g)
        /\ alarms[s].used /\ ~alarms[s].started
    BY <2>1 DEF touching, begins
  <2> QED BY <1>2, <2>1, <2>2 DEF endsForGood, ends, running
<1> QED BY <1>3, <1>4

\* As long as no running alarm is taken away, a group that the calendar turned
\* on has a running alarm that will turn it off.
THEOREM LitIsCovered ==
  ASSUME SmallNumbers, NoneTaken
  PROVE  Spec => []LitForAReason
<1>1. Init => Still /\ LitForAReason
  BY DEF Init, Still, LitForAReason
<1>2. IInv /\ Still /\ LitForAReason /\ [Next]_vars => Still' /\ LitForAReason'
  <2> SUFFICES ASSUME IInv, Still, LitForAReason, [Next]_vars PROVE LitForAReason'
    BY StillNext
  <2>1. CASE UNCHANGED vars
    BY <2>1 DEF vars, LitForAReason, running, covers
  <2>2. CASE Next /\ ~CheckAlarms /\ ~Restart
    <3>1. \A g \in Groups : lit'[g] => lit[g]
      BY <2>2 DEF Next, AddAlarm, RemoveAlarm, DeleteGroup, UserTurns, SetClock, Tick,
         IInv, TypeOK
    <3>2. \A s \in Slots :
            running(s) => /\ alarms'[s].used /\ alarms'[s].started
                          /\ alarms'[s].plan = alarms[s].plan
      BY <2>2, RunsGoOn DEF IInv, running
    <3> QED BY <3>1, <3>2 DEF LitForAReason, running, covers
  <2>3. CASE Restart
    BY <2>3 DEF Restart, LitForAReason
  <2> QED BY <2>1, <2>2, <2>3, LitAfterCheck
<1> QED BY <1>1, <1>2, Invariance, PTL DEF Spec
=============================================================================
