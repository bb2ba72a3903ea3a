-------------------------------- MODULE Server --------------------------------
(***************************************************************************)
(* The groups of one room, kept twice: as rows of the server's database    *)
(* (database.py, changed by the routes of index.py) and as relayGroups of  *)
(* the master (Master.ino, changed by its panel handlers).                 *)
(*                                                                         *)
(* A route reads the rows it needs, asks the master, and writes the rows   *)
(* only if the answer was "ok".  Flask runs every request in a thread, so  *)
(* two requests interleave at those three points; the mutex of node.py     *)
(* keeps the calls themselves apart (PanelLink), so a handler is one step. *)
(* An answer may not be heard of a command that was carried out, the       *)
(* master's own menu changes groups the server knows nothing of, and the   *)
(* master may restart with what its EEPROM holds.                          *)
(***************************************************************************)
EXTENDS Naturals, Sequences, FiniteSets

CONSTANTS
  Names,       \* group names a user may type
  KeptName,    \* what the EEPROM keeps of each: its first GROUP_NAME_LENGTH bytes
  Entry,       \* what the server hears of a group of each name, on or off
  Default,     \* "g1", the name createDefaultRelayGroups gives the first group
  GroupAmount, \* GROUP_AMOUNT (10)
  Relays,      \* relays of the master
  Threads,     \* threads of the web server
  WithPage,    \* bound on the threads at work while a page asks for the state;
               \* no page is opened if it is 0
  MaxId,       \* bound on ID_GROUP
  MaxEvents    \* bound on answers unheard, changes from the menu, restarts

NoName == ""         \* of a group that has had none
Prefixed == "g1..."  \* Default with another name behind it; no user types it

\* An entry whose state was cut off.
NoState == [name |-> NoName, on |-> FALSE]

\* The form for a new group wants a name, of any length.
ASSUME ServerConstants ==
  /\ KeptName \in [Names -> Names]
  /\ Default \in Names /\ GroupAmount \in Nat \ {0}
  /\ WithPage \in Nat /\ MaxId \in Nat /\ MaxEvents \in Nat
  /\ Names \cap Relays = {} /\ {NoName, Prefixed} \cap (Names \cup Relays) = {}
  /\ IsFiniteSet(Threads)

ASSUME EntryOfName ==
  \A n \in Names, on \in BOOLEAN :
    \/ Entry[n][on] = NoState
    \/ \E m \in Names, state \in BOOLEAN : Entry[n][on] = [name |-> m, on |-> state]

VARIABLES
  groups,   \* relayGroups: the name, isConnected and isOn of each
  relays,   \* the slot a relay is connected to, NoSlot for an unknown group,
            \* and Free when it is not connected
  rows,     \* GROUPS: a function from the ids in use to the name and ON_OFF
  wired,    \* RELAY_GROUP: pairs of a relay and an id
  nextId,   \* the next value of AUTOINCREMENT
  thread,   \* thread[t]: the request it serves, and how far it has come
  page,     \* the room page still asks for the state (updateGroupState)
  doubtful, \* history: names and relays of requests that overlapped, that were
            \* done without the server knowing, of a name used twice, or of a
            \* group to which a restart gave another name, and that name
  events    \* answers unheard, changes from the menu and restarts so far

vars == <<groups, relays, rows, wired, nextId, thread, page, doubtful, events>>
master == <<groups, relays>>
tables == <<rows, wired, nextId>>

Slots == 1 .. GroupAmount
NoSlot == 0
Free == GroupAmount + 1
Ids == 1 .. MaxId

\* about: the names and relays the request is about; seen: the names of the rows
\* read, by id, of a request for the state; info: the entries heard in answer to it, by slot.
Idle == [step |-> "idle", route |-> "state", id |-> 0, name |-> Default,
         relay |-> Default, about |-> {}, seen |-> <<>>, info |-> <<>>]

Init ==
  /\ groups = [i \in Slots |-> [name |-> IF i = 1 THEN Default ELSE NoName,
                               inUse |-> i = 1, on |-> FALSE]]
  /\ relays = [r \in Relays |-> Free]
  /\ rows = <<>> /\ wired = {} /\ nextId = 1
  /\ thread = [t \in Threads |-> Idle]
  /\ page = FALSE
  /\ doubtful = {Default, Prefixed}
  /\ events = 0
-----------------------------------------------------------------------------
(* A request arrives: its rows are read *)

busy == {t \in Threads : thread[t].step # "idle"}
inRows(n) == \E id \in DOMAIN rows : rows[id].name = n
usesName(n) == \E i \in Slots : groups[i].inUse /\ groups[i].name = n

overlaps(about) == \E t \in busy : thread[t].about \cap about # {}
tangled(about) ==
  UNION {thread[t].about : t \in {u \in busy : thread[u].about \cap about # {}}}

\* What is used twice: the name of a new group that there is, and a relay that
\* is connected already.
again(request) ==
  IF request.route = "new" /\ (inRows(request.name) \/ usesName(request.name))
    THEN {request.name}
  ELSE IF request.route = "connect" /\ relays[request.relay] # Free
    THEN {request.relay}
  ELSE {}

\* Doubt about a request is doubt about all it is about, and about a group it
\* is about the relays connected to it as well.
spread(S) ==
  S \cup {r \in Relays : \/ relays[r] \in Slots /\ groups[relays[r]].name \in S
                         \/ \E w \in wired : /\ w[1] = r /\ w[2] \in DOMAIN rows
                                              /\ rows[w[2]].name \in S}

begin(t, request, about) ==
  /\ thread[t].step = "idle" /\ (page => Cardinality(busy) < WithPage)
  /\ thread' = [thread EXCEPT ![t] =
       [request EXCEPT !.step = "ask", !.about = about]]
  /\ doubtful' = doubtful \cup spread(tangled(about) \cup
       IF overlaps(about) \/ again(request) # {} \/ about \cap doubtful # {}
       THEN about ELSE {})
  /\ UNCHANGED <<master, tables, events>>

\* new_group
AskNew(t) ==
  /\ nextId + Cardinality({u \in busy : thread[u].route = "new"}) <= MaxId
  /\ \E n \in Names : begin(t, [Idle EXCEPT !.route = "new", !.name = n], {n})
  /\ UNCHANGED page

\* delete_group, turn_on_group and turn_off_group
AskOfGroup(t) ==
  /\ \E id \in DOMAIN rows, route \in {"delete", "on", "off"} :
       begin(t, [Idle EXCEPT !.route = route, !.id = id, !.name = rows[id].name],
             {rows[id].name})
  /\ UNCHANGED page

\* connect_relay, group_connect
AskConnect(t) ==
  /\ \E r \in Relays, id \in DOMAIN rows :
       begin(t, [Idle EXCEPT !.route = "connect", !.id = id, !.relay = r,
                             !.name = rows[id].name], {r, rows[id].name})
  /\ UNCHANGED page

\* disconnect_relay
AskDisconnect(t) ==
  /\ \E r \in Relays :
       begin(t, [Idle EXCEPT !.route = "disconnect", !.relay = r], {r})
  /\ UNCHANGED page

\* A page is loaded and asks for the state, again and again (group_state); it
\* is not asked of the master while there are no rows.
OpenPage == ~page /\ Cardinality(busy) < WithPage /\ page' = TRUE
            /\ UNCHANGED <<master, tables, thread, doubtful, events>>

AskState(t) ==
  /\ page /\ \A u \in busy : thread[u].route # "state"
  /\ rows # <<>>
  /\ begin(t, [Idle EXCEPT !.seen = [id \in DOMAIN rows |-> rows[id].name]], {})
  /\ UNCHANGED page
-----------------------------------------------------------------------------
(* The master carries it out: the panel handlers *)

slotsNamed(n) == {i \in Slots : groups[i].name = n}
least(S) == CHOOSE i \in S : \A j \in S : i <= j
\* groupNumber does not ask whether the group is in use.
groupNumber(n) == IF slotsNamed(n) = {} THEN NoSlot ELSE least(slotsNamed(n))

unused == {i \in Slots : ~groups[i].inUse}

event == events < MaxEvents /\ events' = events + 1

\* The page waits five seconds, as the socket does, and stops asking after an
\* error; a link that is down at once is none.
pageMayStop(t) == page' \in {page, page /\ thread[t].route # "state"}

\* The answer reaches the thread, or is lost.
answered(t, info) ==
  \/ /\ thread' = [thread EXCEPT ![t].step = "store", ![t].info = info]
     /\ UNCHANGED <<page, events, doubtful>>
  \/ /\ event
     /\ thread' = [thread EXCEPT ![t] = Idle]
     /\ pageMayStop(t)
     /\ doubtful' = doubtful \cup spread(thread[t].about)

asks(t, route) == thread[t].step = "ask" /\ thread[t].route = route

\* With no group unused the loop ends beyond the array: whatever is there, the
\* groups stay as they are and the answer is "ok".
panelCreateGroup(t) ==
  /\ asks(t, "new")
  /\ \/ /\ unused # {}
        /\ groups' = [groups EXCEPT ![least(unused)].name = thread[t].name,
                                    ![least(unused)].inUse = TRUE]
        /\ answered(t, <<>>)
     \/ /\ unused = {}
        /\ thread' = [thread EXCEPT ![t].step = "store"]
        /\ doubtful' = doubtful \cup spread(thread[t].about)
        /\ UNCHANGED <<groups, page, events>>
  /\ UNCHANGED <<relays, tables>>

\* Slip: the group goes, and its relays stay with it.
panelDeleteGroupSlip(t) ==
  LET g == groupNumber(thread[t].name) IN
  /\ asks(t, "delete")
  /\ groups' = IF g = NoSlot THEN groups ELSE [groups EXCEPT ![g].inUse = FALSE]
  /\ answered(t, <<>>)
  /\ UNCHANGED <<relays, tables>>

panelDeleteGroup(t) ==
  LET g == groupNumber(thread[t].name) IN
  /\ asks(t, "delete")
  /\ IF g = NoSlot THEN UNCHANGED master
     ELSE /\ groups' = [groups EXCEPT ![g].inUse = FALSE]
          /\ relays' = [r \in Relays |-> IF relays[r] = g THEN Free ELSE relays[r]]
  /\ answered(t, <<>>)
  /\ UNCHANGED tables

\* The route has nothing to store.
panelTurnGroup(t) ==
  LET g == groupNumber(thread[t].name) IN
  /\ asks(t, "on") \/ asks(t, "off")
  /\ groups' = IF g # NoSlot /\ groups[g].inUse
               THEN [groups EXCEPT ![g].on = thread[t].route = "on"] ELSE groups
  /\ thread' = [thread EXCEPT ![t] = Idle]
  /\ UNCHANGED <<relays, tables, page, doubtful, events>>

panelConnect(t) ==
  /\ asks(t, "connect")
  /\ relays' = [relays EXCEPT ![thread[t].relay] = groupNumber(thread[t].name)]
  /\ answered(t, <<>>)
  /\ UNCHANGED <<groups, tables>>

panelDisconnect(t) ==
  /\ asks(t, "disconnect")
  /\ relays' = [relays EXCEPT ![thread[t].relay] = Free]
  /\ answered(t, <<>>)
  /\ UNCHANGED <<groups, tables>>

\* An entry is the name, a space and the state, of which the master sends the
\* first 19 bytes; the server takes the first two words of what it gets, and all
\* but the word "on" for off.
entry(g) == IF g.name \in Names THEN Entry[g.name][g.on]
            ELSE [name |-> g.name, on |-> g.on]

entries == [i \in {j \in Slots : groups[j].inUse} |-> entry(groups[i])]

panelGroups(t) ==
  /\ asks(t, "state")
  /\ answered(t, entries)
  /\ UNCHANGED <<master, tables>>

\* Slip: a link that is down is taken for an "ok".
NotSentSlip(t) ==
  /\ thread[t].step = "ask" /\ event
  /\ thread' = [thread EXCEPT ![t].step = "store", ![t].info = entries]
  /\ UNCHANGED <<master, tables, page, doubtful>>

\* The link is down: the command is not carried out.
NotSent(t) ==
  /\ thread[t].step = "ask" /\ event
  /\ thread' = [thread EXCEPT ![t] = Idle]
  /\ pageMayStop(t)
  /\ UNCHANGED <<master, tables, doubtful>>

\* Lights change by hand, by motion and by the calendar; of interest while
\* somebody looks.
TurnGroup(i) ==
  /\ groups[i].inUse /\ page
  /\ groups' = [groups EXCEPT ![i].on = ~@]
  /\ UNCHANGED <<relays, tables, thread, page, doubtful, events>>

\* newGroupForm and deleteRelayGroup of the master's menu, which leave the
\* first two groups alone.
MenuNew(n) ==
  LET S == unused \ {1, 2} IN
  /\ event /\ S # {}
  /\ groups' = [groups EXCEPT ![least(S)] = [name |-> n, inUse |-> TRUE, on |-> FALSE]]
  /\ doubtful' = doubtful \cup spread({n})
  /\ UNCHANGED <<relays, tables, thread, page>>

MenuDelete(i) ==
  /\ event /\ groups[i].inUse /\ i > 2
  /\ groups' = [groups EXCEPT ![i].inUse = FALSE]
  /\ doubtful' = doubtful \cup spread({groups[i].name})
  /\ UNCHANGED <<relays, tables, thread, page>>

\* storeRelayGroupSettings and initRelayGroups: groups in use have what was kept
\* of their names and the others none.  What was kept of the first is appended
\* to the default name, unless nothing was stored of it yet; and it is in use,
\* even if it was deleted.
kept(n) == IF n \in Names THEN KeptName[n] ELSE n

groupsRead(first) ==
  [i \in Slots |-> [name |-> IF i = 1 THEN first
                             ELSE IF groups[i].inUse THEN kept(groups[i].name)
                             ELSE NoName,
                    inUse |-> i = 1 \/ groups[i].inUse, on |-> FALSE]]

\* The names lost by a restart, and the ones that come in their place.
renamed ==
  {groups[1].name : i \in {j \in {1} : groups[j].inUse}} \cup
  UNION {{groups[i].name, kept(groups[i].name)} :
           i \in {j \in Slots \ {1} : /\ groups[j].inUse
                                       /\ kept(groups[j].name) # groups[j].name}}

\* initMasterSensors: -1 was stored as the 255 of a relay that is not connected.
relaysRead == [r \in Relays |-> IF relays[r] = NoSlot THEN Free ELSE relays[r]]

\* The master restarts: whoever used its first group, or one of a name too long
\* to be kept, does not find it again.
Restart ==
  /\ event
  /\ \/ groups[1].inUse /\ groups' = groupsRead(Prefixed)
     \/ /\ ~groups[1].inUse \/ groups[1].name = Default
        /\ groups' = groupsRead(Default)
  /\ relays' = relaysRead
  /\ doubtful' = doubtful \cup spread(renamed)
  /\ UNCHANGED <<tables, thread, page>>
-----------------------------------------------------------------------------
(* The route goes on with the answer *)

stores(t, route) ==
  /\ thread[t].step = "store" /\ thread[t].route = route
  /\ thread' = [thread EXCEPT ![t] = Idle]
  /\ UNCHANGED <<master, doubtful, events>>

without(id) == [k \in DOMAIN rows \ {id} |-> rows[k]]

\* Slip: the id of the last group deleted is given again.
create_groupSlip(t) ==
  /\ stores(t, "new")
  /\ rows' = [k \in DOMAIN rows \cup {nextId} |->
                IF k = nextId THEN [name |-> thread[t].name, on |-> FALSE]
                ELSE rows[k]]
  /\ UNCHANGED <<wired, nextId, page>>

create_group(t) ==
  /\ stores(t, "new")
  /\ rows' = [k \in DOMAIN rows \cup {nextId} |->
                IF k = nextId THEN [name |-> thread[t].name, on |-> FALSE]
                ELSE rows[k]]
  /\ nextId' = nextId + 1
  /\ UNCHANGED <<wired, page>>

\* The rows of RELAY_GROUP go with it (ON DELETE CASCADE).
delete_group(t) ==
  /\ stores(t, "delete")
  /\ rows' = without(thread[t].id)
  /\ wired' = {w \in wired : w[2] # thread[t].id}
  /\ UNCHANGED <<nextId, page>>

connect_relay_to_group(t) ==
  /\ stores(t, "connect")
  /\ wired' = wired \cup {<<thread[t].relay, thread[t].id>>}
  /\ UNCHANGED <<rows, nextId, page>>

disconnect_relay(t) ==
  /\ stores(t, "disconnect")
  /\ wired' = {w \in wired : w[1] # thread[t].relay}
  /\ UNCHANGED <<rows, nextId, page>>

\* The entries are split into words before any is used, and one without a
\* state is an error, as is an answer without entries.  The names heard are then
\* looked up one after the other among the rows read before the call, and the
\* first without a row is an error that ends it; of two entries of a name the
\* later one counts.
named(t, n) == {id \in DOMAIN thread[t].seen : thread[t].seen[id] = n}
reported(t) == DOMAIN thread[t].info
incomplete(t) == reported(t) = {} \/ \E i \in reported(t) : thread[t].info[i] = NoState
unknown(t) == {i \in reported(t) : named(t, thread[t].info[i].name) = {}}
lookedUp(t) == {i \in reported(t) : ~incomplete(t) /\ \A j \in unknown(t) : i < j}

\* Slip: the state is written to the first row only.
shownFirstSlip(t, id) ==
  IF id = least(DOMAIN rows) /\ lookedUp(t) # {}
  THEN thread[t].info[least(lookedUp(t))].on ELSE rows[id].on

shown(t, id) ==
  LET S == {i \in lookedUp(t) : id = least(named(t, thread[t].info[i].name))}
  IN  IF S = {} THEN rows[id].on
      ELSE thread[t].info[CHOOSE i \in S : \A j \in S : j <= i].on

\* After an error the page asks no more.
group_state(t) ==
  /\ stores(t, "state")
  /\ rows' = [id \in DOMAIN rows |-> [rows[id] EXCEPT !.on = shown(t, id)]]
  /\ page' = (page /\ ~incomplete(t) /\ unknown(t) = {})
  /\ UNCHANGED <<wired, nextId>>
-----------------------------------------------------------------------------
Ask(t) == \/ AskNew(t) \/ AskOfGroup(t) \/ AskConnect(t) \/ AskDisconnect(t)
          \/ AskState(t)

Handle(t) ==
  \/ panelCreateGroup(t) \/ panelDeleteGroup(t) \/ panelTurnGroup(t)
  \/ panelConnect(t) \/ panelDisconnect(t) \/ panelGroups(t)

Store(t) ==
  \/ create_group(t) \/ delete_group(t) \/ connect_relay_to_group(t)
  \/ disconnect_relay(t) \/ group_state(t)

Next ==
  \/ OpenPage
  \/ \E t \in Threads : Ask(t) \/ Handle(t) \/ NotSent(t) \/ Store(t)
  \/ \E i \in Slots : TurnGroup(i) \/ MenuDelete(i)
  \/ \E n \in Names : MenuNew(n)
  \/ Restart

Spec == Init /\ [][Next]_vars

\* A page that asks goes on asking, for there is a thread for every request, and
\* a request that was begun is finished.
FairSpec ==
  /\ Spec
  /\ SF_vars(\E t \in Threads : AskState(t))
  /\ \A t \in Threads : WF_vars(Handle(t)) /\ WF_vars(Store(t))
-----------------------------------------------------------------------------
TypeOK ==
  /\ \A i \in Slots : groups[i].name \in Names \cup {NoName, Prefixed}
  /\ relays \in [Relays -> Slots \cup {NoSlot, Free}]
  /\ nextId \in 1 .. MaxId + 1
  /\ DOMAIN rows \subseteq 1 .. nextId - 1
  /\ \A t \in Threads : thread[t].step \in {"idle", "ask", "store"}

\* What a thread has had done and not yet stored.
underWay(n) == \E t \in Threads : thread[t].step = "store" /\ n \in thread[t].about

settled(n) == n \notin doubtful /\ ~underWay(n)

\* The rows are the groups, but for names whose requests overlapped, whose
\* answers were lost, that were used twice or in the master's menu, or that a
\* restart took away or gave: those of the first group and of groups whose names
\* are longer than the 15 bytes that storeRelayGroupSettings keeps.  Each other
\* group the master has is a row, so that the room page can look it up, and each
\* other row is a group.
RowsAreGroups ==
  \A n \in Names : settled(n) => (inRows(n) <=> usesName(n))

\* A relay is wired in the tables to the group the master switches it with, with
\* the same exceptions.
wiredTo(r) == {rows[w[2]].name : w \in {v \in wired : v[1] = r /\ v[2] \in DOMAIN rows}}
switchedWith(r) ==
  IF relays[r] \in Slots THEN {groups[relays[r]].name} ELSE {}

RelaysAgree ==
  \A r \in Relays :
    LET about == {r} \cup wiredTo(r) \cup switchedWith(r) IN
    (\A a \in about : settled(a)) => wiredTo(r) = switchedWith(r)

\* The state of a group that stays as it is comes to be shown, while the page
\* goes on asking, if the group is heard of under its own name and with its state,
\* which one of a long name or with a space is not, and no other group is heard
\* of under that name.
stays(n, id, on) ==
  /\ page /\ n \notin doubtful
  /\ id \in DOMAIN rows /\ rows[id].name = n
  /\ \E i \in Slots : groups[i].inUse /\ groups[i].name = n /\ groups[i].on = on
heardAs(n, on) ==
  \A i \in Slots : groups[i].inUse =>
    IF groups[i].name = n THEN entry(groups[i]) = [name |-> n, on |-> on]
                          ELSE entry(groups[i]).name # n
shows(id, on) == id \in DOMAIN rows /\ rows[id].on = on
StateIsShown ==
  \A n \in Names, id \in Ids, on \in BOOLEAN :
    <>[](stays(n, id, on) /\ heardAs(n, on)) => <>[]shows(id, on)

\* Of a group of any name it is not so: one of 17 bytes is heard as off, and
\* "sala 1" as an off "sala" (checked in Server_heard.cfg).
AnyStateIsShown ==
  \A n \in Names, id \in Ids, on \in BOOLEAN :
    <>[]stays(n, id, on) => <>[]shows(id, on)

=============================================================================
