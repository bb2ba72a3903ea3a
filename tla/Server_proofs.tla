---------------------------- MODULE Server_proofs ----------------------------
(***************************************************************************)
(* The server's rows are the master's groups, for any number of names,     *)
(* groups, relays, threads and events: but for what the history variable   *)
(* doubtful holds, the two sides differ by the requests under way only.    *)
(*                                                                         *)
(* What a request under way will do to the rows is counted as done: a row  *)
(* will be there if a thread is about to store it or nobody is about to    *)
(* delete it.  So the rows that will be there are the groups in use, and   *)
(* what will be wired is what the master switches.  For a name or relay    *)
(* that is not in doubt there is one request at most, so neither changes   *)
(* behind its back; and what two requests do to one name puts the name in  *)
(* doubt, together with the relays connected to it.                        *)
(***************************************************************************)
EXTENDS Server, FiniteSetTheorems, WellFoundedInduction, TLAPS

AllNames == Names \cup {NoName, Prefixed}
Fields == {"step", "route", "id", "name", "relay", "about", "seen", "info"}

\* What a request is about, as its route says.
Shape(q) ==
  /\ DOMAIN q = Fields /\ q.name \in Names
  /\ \/ q.step = "idle" /\ q.about = {}
     \/ /\ q.step \in {"ask", "store"}
        /\ \/ q.route = "state" /\ q.about = {}
           \/ q.route \in {"new", "delete", "on", "off"} /\ q.about = {q.name}
           \/ /\ q.route = "connect" /\ q.relay \in Relays
              /\ q.about = {q.relay, q.name}
           \/ /\ q.route = "disconnect" /\ q.relay \in Relays
              /\ q.about = {q.relay}

ofRow == {"delete", "on", "off", "connect"}

\* The row a request is about is the one it read, or it went in between.
HasRow(q) ==
  /\ q.id \in 1 .. nextId - 1
  /\ IF q.id \in DOMAIN rows THEN rows[q.id].name = q.name
                             ELSE q.about \subseteq doubtful

GroupFields == {"name", "inUse", "on"}

Newcomers == {t \in busy : thread[t].route = "new"}

GroupInv ==
  /\ DOMAIN groups = Slots
  /\ \A i \in Slots : DOMAIN groups[i] = GroupFields /\ groups[i].name \in AllNames

TableInv ==
  /\ nextId \in Nat \ {0}
  /\ DOMAIN rows \subseteq 1 .. nextId - 1
  /\ \A id \in DOMAIN rows : "name" \in DOMAIN rows[id] /\ rows[id].name \in Names
  /\ wired \subseteq Relays \X (1 .. nextId - 1)

TypeInv ==
  /\ GroupInv
  /\ relays \in [Relays -> Slots \cup {NoSlot, Free}]
  /\ TableInv
  /\ DOMAIN thread = Threads
  /\ \A t \in Threads : Shape(thread[t])

\* Every thread that is to store a row still has a number for it.
RoomInv == nextId + Cardinality(Newcomers) <= MaxId + 1

\* Requests that share what they are about are in doubt.
ThreadInv ==
  /\ {Default, Prefixed} \subseteq doubtful
  /\ \A t \in busy : thread[t].route \in ofRow => HasRow(thread[t])
  /\ \A t, u \in busy : t # u /\ thread[t].about \cap thread[u].about # {}
       => thread[t].about \subseteq doubtful
-----------------------------------------------------------------------------
(* The steps of a request *)

LEMMA Least ==
  ASSUME NEW S, S \subseteq Slots, S # {}
  PROVE  least(S) \in S /\ \A j \in S : least(S) <= j
<1> DEFINE Less == {p \in Nat \X Nat : p[1] < p[2]}
<1>1. S \subseteq Nat
  BY ServerConstants DEF Slots, ServerConstants
<1>2. IsWellFoundedOn(Less, Nat)
  BY NatLessThanWellFounded DEF OpToRel
<1>3. PICK i \in S : \A j \in S : ~(<<j, i>> \in Less)
  <2> HIDE DEF Less
  <2> QED BY <1>1, <1>2, WFMin
<1>4. \A j \in S : ~(j < i)
  BY <1>1, <1>3
<1>5. \E k \in S : \A j \in S : k <= j
  BY <1>1, <1>4
<1> QED BY <1>5 DEF least

LEMMA IdleShape == Shape(Idle) /\ Idle.step = "idle" /\ Idle.about = {}
BY ServerConstants DEF Idle, Shape, Fields, ServerConstants

\* t goes from ask to q.
Becomes(t, q) == thread' = [thread EXCEPT ![t] = q]

Asked(t, q, X) ==
  /\ thread[t].step = "idle" /\ q.step = "ask" /\ Shape(q) /\ Becomes(t, q)
  /\ q.route \in ofRow => q.id \in DOMAIN rows /\ q.name = rows[q.id].name
  /\ doubtful' = doubtful \cup spread(X)
  /\ X \subseteq tangled(q.about) \cup q.about /\ tangled(q.about) \subseteq X
  /\ overlaps(q.about) \/ q.about \cap doubtful # {} => q.about \subseteq X
  /\ q.route = "new" /\ (inRows(q.name) \/ usesName(q.name)) => q.name \in X
  /\ q.route = "connect" /\ relays[q.relay] # Free => q.relay \in X
  /\ q.route = "new" => nextId + Cardinality(Newcomers) <= MaxId
  /\ UNCHANGED <<master, tables>>

LEMMA AskStep ==
  ASSUME TypeInv, NEW t \in Threads, Ask(t)
  PROVE  \E q, X : Asked(t, q, X)
<1> DEFINE doubt(q, about) ==
      tangled(about) \cup IF overlaps(about) \/ again(q) # {} \/ about \cap doubtful # {}
                          THEN about ELSE {}
<1>1. CASE AskNew(t)
  <2>1. PICK n \in Names : begin(t, [Idle EXCEPT !.route = "new", !.name = n], {n})
    BY <1>1 DEF AskNew
  <2> DEFINE p == [Idle EXCEPT !.route = "new", !.name = n]
             q == [p EXCEPT !.step = "ask", !.about = {n}]
  <2>2. /\ q.step = "ask" /\ q.route = "new" /\ q.name = n /\ q.about = {n} /\ Shape(q)
        /\ p.route = "new" /\ p.name = n
    BY DEF Idle, Shape, Fields
  <2>3. Asked(t, q, doubt(p, {n}))
    <3>1. inRows(n) \/ usesName(n) => again(p) # {}
      BY <2>2 DEF again
    <3> QED BY <1>1, <2>1, <2>2, <3>1 DEF Asked, begin, Becomes, AskNew, Newcomers, ofRow
  <2> QED BY <2>3
<1>2. CASE AskOfGroup(t)
  <2>1. PICK id \in DOMAIN rows, route \in {"delete", "on", "off"} :
          begin(t, [Idle EXCEPT !.route = route, !.id = id, !.name = rows[id].name],
                {rows[id].name})
    BY <1>2 DEF AskOfGroup
  <2> DEFINE n == rows[id].name
             p == [Idle EXCEPT !.route = route, !.id = id, !.name = n]
             q == [p EXCEPT !.step = "ask", !.about = {n}]
  <2>2. /\ q.step = "ask" /\ q.route = route /\ q.name = n /\ q.about = {n} /\ Shape(q)
        /\ q.id = id
    BY DEF Idle, Shape, Fields, TypeInv, TableInv
  <2>3. Asked(t, q, doubt(p, {n}))
    BY <1>2, <2>1, <2>2 DEF Asked, begin, Becomes, AskOfGroup
  <2> QED BY <2>3
<1>3. CASE AskConnect(t)
  <2>1. PICK r \in Relays, id \in DOMAIN rows :
          begin(t, [Idle EXCEPT !.route = "connect", !.id = id, !.relay = r,
                             !.name = rows[id].name], {r, rows[id].name})
    BY <1>3 DEF AskConnect
  <2> DEFINE n == rows[id].name
             p == [Idle EXCEPT !.route = "connect", !.id = id, !.relay = r, !.name = n]
             q == [p EXCEPT !.step = "ask", !.about = {r, n}]
  <2>2. /\ q.step = "ask" /\ q.route = "connect" /\ q.name = n /\ q.about = {r, n}
        /\ Shape(q) /\ q.id = id /\ q.relay = r /\ p.route = "connect" /\ p.relay = r
    BY DEF Idle, Shape, Fields, TypeInv, TableInv
  <2>3. Asked(t, q, doubt(p, {r, n}))
    <3>1. relays[r] # Free => again(p) # {}
      BY <2>2 DEF again
    <3>2. tangled(q.about) = tangled({r, n}) /\ overlaps(q.about) = overlaps({r, n})
      BY <2>2
    <3>3. /\ thread[t].step = "idle" /\ Becomes(t, q)
          /\ doubtful' = doubtful \cup spread(doubt(p, {r, n}))
          /\ UNCHANGED <<master, tables>>
      BY <1>3, <2>1 DEF begin, Becomes, AskConnect
    <3>4. relays[r] # Free => r \in doubt(p, {r, n})
      BY <3>1
    <3> QED BY <2>2, <3>2, <3>3, <3>4 DEF Asked
  <2> QED BY <2>3
<1>4. CASE AskDisconnect(t)
  <2>1. PICK r \in Relays :
          begin(t, [Idle EXCEPT !.route = "disconnect", !.relay = r], {r})
    BY <1>4 DEF AskDisconnect
  <2> DEFINE p == [Idle EXCEPT !.route = "disconnect", !.relay = r]
             q == [p EXCEPT !.step = "ask", !.about = {r}]
  <2>2. /\ q.step = "ask" /\ q.route = "disconnect" /\ q.about = {r} /\ Shape(q)
    BY ServerConstants DEF Idle, Shape, Fields, ServerConstants
  <2>3. Asked(t, q, doubt(p, {r}))
    BY <1>4, <2>1, <2>2 DEF Asked, begin, Becomes, AskDisconnect, ofRow
  <2> QED BY <2>3
<1>5. CASE AskState(t)
  <2> DEFINE p == [Idle EXCEPT !.seen = [id \in DOMAIN rows |-> rows[id].name]]
             q == [p EXCEPT !.step = "ask", !.about = {}]
  <2>1. begin(t, p, {})
    BY <1>5 DEF AskState
  <2>2. /\ q.step = "ask" /\ q.route = "state" /\ q.about = {} /\ Shape(q)
    BY ServerConstants DEF Idle, Shape, Fields, ServerConstants
  <2>3. Asked(t, q, doubt(p, {}))
    BY <1>5, <2>1, <2>2 DEF Asked, begin, Becomes, AskState, ofRow
  <2> QED BY <2>3
<1> QED BY <1>1, <1>2, <1>3, <1>4, <1>5 DEF Ask

\* t comes to the point where it stores, as q, or ends without.
Stored(t, q) ==
  /\ thread[t].step = "ask" /\ q.step = "store" /\ Shape(q) /\ Becomes(t, q)
  /\ q.route = thread[t].route /\ q.id = thread[t].id /\ q.name = thread[t].name
  /\ q.relay = thread[t].relay /\ q.about = thread[t].about

Lost(t) ==
  /\ thread[t].step = "ask" /\ Becomes(t, Idle)
  /\ doubtful' = doubtful \cup spread(thread[t].about)

LEMMA StoreShape ==
  ASSUME TypeInv, NEW t \in Threads, thread[t].step = "ask", NEW info,
         thread' = [thread EXCEPT ![t].step = "store", ![t].info = info]
  PROVE  \E q : Stored(t, q)
<1> DEFINE q == [thread[t] EXCEPT !.step = "store", !.info = info]
<1>1. Shape(thread[t]) /\ DOMAIN thread = Threads
  BY DEF TypeInv
<1>2. /\ q.step = "store" /\ q.route = thread[t].route /\ q.id = thread[t].id
      /\ q.name = thread[t].name /\ q.relay = thread[t].relay
      /\ q.about = thread[t].about /\ DOMAIN q = Fields
  BY <1>1 DEF Shape, Fields
<1>3. Shape(q)
  BY <1>1, <1>2 DEF Shape
<1>4. Becomes(t, q)
  BY <1>1 DEF Becomes
<1> QED BY <1>2, <1>3, <1>4 DEF Stored

LEMMA AnswerStep ==
  ASSUME TypeInv, NEW t \in Threads, thread[t].step = "ask", NEW info, answered(t, info)
  PROVE  (\E q : Stored(t, q) /\ doubtful' = doubtful) \/ Lost(t)
<1>1. CASE /\ thread' = [thread EXCEPT ![t].step = "store", ![t].info = info]
           /\ doubtful' = doubtful
  BY <1>1, StoreShape
<1>2. CASE /\ thread' = [thread EXCEPT ![t] = Idle]
           /\ doubtful' = doubtful \cup spread(thread[t].about)
  BY <1>2 DEF Lost, Becomes
<1> QED BY <1>1, <1>2 DEF answered

LEMMA NewStep ==
  ASSUME TypeInv, NEW t \in Threads, panelCreateGroup(t)
  PROVE  /\ thread[t].step = "ask" /\ thread[t].route = "new"
         /\ \/ /\ unused # {}
               /\ (\E q : Stored(t, q) /\ doubtful' = doubtful) \/ Lost(t)
               /\ groups' = [groups EXCEPT ![least(unused)].name = thread[t].name,
                                           ![least(unused)].inUse = TRUE]
            \/ /\ unused = {} /\ groups' = groups
               /\ \E q : Stored(t, q) /\ doubtful' = doubtful \cup spread(thread[t].about)
         /\ UNCHANGED <<relays, tables>>
<1>1. thread[t].step = "ask" /\ thread[t].route = "new" /\ UNCHANGED <<relays, tables>>
  BY DEF panelCreateGroup, asks
<1>2. CASE unused # {}
  BY <1>1, <1>2, AnswerStep DEF panelCreateGroup
<1>3. CASE unused = {}
  <2>1. /\ thread' = [thread EXCEPT ![t].step = "store"]
        /\ doubtful' = doubtful \cup spread(thread[t].about) /\ groups' = groups
    BY <1>3 DEF panelCreateGroup
  <2> DEFINE q == [thread[t] EXCEPT !.step = "store"]
  <2>2. Shape(thread[t]) /\ DOMAIN thread = Threads
    BY DEF TypeInv
  <2>3. /\ q.step = "store" /\ q.route = thread[t].route /\ q.id = thread[t].id
        /\ q.name = thread[t].name /\ q.relay = thread[t].relay
        /\ q.about = thread[t].about /\ DOMAIN q = Fields
    BY <2>2 DEF Shape, Fields
  <2>4. Shape(q)
    BY <1>1, <2>2, <2>3 DEF Shape
  <2>5. Becomes(t, q)
    BY <2>1, <2>2 DEF Becomes
  <2>6. Stored(t, q)
    BY <1>1, <2>3, <2>4, <2>5 DEF Stored
  <2> QED BY <1>1, <1>3, <2>1, <2>6
<1> QED BY <1>1, <1>2, <1>3
-----------------------------------------------------------------------------
(* Types *)

LEMMA KeptNames == \A n \in AllNames : kept(n) \in AllNames
BY ServerConstants DEF kept, AllNames, ServerConstants

LEMMA GroupsNext == TypeInv /\ [Next]_vars => GroupInv'
<1> SUFFICES ASSUME TypeInv, [Next]_vars
             PROVE  GroupInv'
  OBVIOUS
<1>1. GroupInv /\ \A t \in Threads : thread[t].name \in Names
  BY DEF TypeInv, Shape
<1>2. CASE groups' = groups
  BY <1>1, <1>2 DEF GroupInv
<1>3. ASSUME NEW t \in Threads, panelCreateGroup(t)
      PROVE  GroupInv'
  <2>1. CASE unused = {}
    <3>1. groups' = groups
      BY <1>3, <2>1 DEF panelCreateGroup
    <3> QED BY <1>1, <3>1 DEF GroupInv
  <2>2. CASE unused # {}
    <3>1. least(unused) \in Slots
      BY <2>2, Least DEF unused
    <3>2. groups' = [groups EXCEPT ![least(unused)].name = thread[t].name,
                                   ![least(unused)].inUse = TRUE]
      BY <1>3, <2>2, NewStep
    <3> QED BY <1>1, <3>1, <3>2 DEF GroupInv, GroupFields, AllNames
  <2> QED BY <2>1, <2>2
<1>4. ASSUME NEW t \in Threads, panelDeleteGroup(t)
      PROVE  GroupInv'
  BY <1>1, <1>4 DEF panelDeleteGroup, GroupInv, GroupFields, master
<1>5. ASSUME NEW t \in Threads, panelTurnGroup(t)
      PROVE  GroupInv'
  BY <1>1, <1>5 DEF panelTurnGroup, GroupInv, GroupFields
<1>6. ASSUME NEW i \in Slots, TurnGroup(i)
      PROVE  GroupInv'
  BY <1>1, <1>6 DEF TurnGroup, GroupInv, GroupFields
<1>7. ASSUME NEW i \in Slots, MenuDelete(i)
      PROVE  GroupInv'
  BY <1>1, <1>7 DEF MenuDelete, GroupInv, GroupFields
<1>8. ASSUME NEW n \in Names, MenuNew(n)
      PROVE  GroupInv'
  <2>1. least(unused \ {1, 2}) \in Slots
    BY <1>8, Least DEF unused, MenuNew
  <2> QED BY <1>1, <1>8, <2>1 DEF MenuNew, GroupInv, GroupFields, AllNames
<1>9. CASE Restart
  BY <1>1, <1>9, KeptNames, ServerConstants
  DEF Restart, groupsRead, GroupInv, GroupFields, AllNames, ServerConstants
<1> QED
  BY <1>2, <1>3, <1>4, <1>5, <1>6, <1>7, <1>8, <1>9
  DEF vars, Next, Handle, Ask, Store, OpenPage, NotSent, AskNew, AskOfGroup, AskConnect,
      AskDisconnect, AskState, begin, panelConnect, panelDisconnect, panelGroups, stores,
      create_group, delete_group, connect_relay_to_group, disconnect_relay, group_state,
      master

\* A request goes on in the same place, or is over.
LEMMA ThreadStep ==
  ASSUME TypeInv, NEW t \in Threads, NEW q, Becomes(t, q)
  PROVE  /\ thread'[t] = q /\ \A u \in Threads : u # t => thread'[u] = thread[u]
         /\ Shape(q) => DOMAIN thread' = Threads /\ \A u \in Threads : Shape(thread'[u])
BY DEF TypeInv, Becomes

\* What any step does to the threads: none, or one of them begins, comes to
\* the point where it stores, or is over.
LEMMA AnyThread ==
  ASSUME TypeInv, [Next]_vars
  PROVE  \/ thread' = thread
         \/ \E t \in Threads :
              \/ \E q, X : Asked(t, q, X)
              \/ Handle(t) /\ \E q : Stored(t, q)
              \/ thread[t].step = "ask" /\ Becomes(t, Idle)
              \/ Store(t) /\ thread[t].step = "store" /\ Becomes(t, Idle)
<1>1. CASE thread' = thread
  BY <1>1
<1>2. ASSUME NEW t \in Threads, Ask(t)
      PROVE  \E q, X : Asked(t, q, X)
  BY <1>2, AskStep
<1>3. ASSUME NEW t \in Threads, panelCreateGroup(t)
      PROVE  (\E q : Stored(t, q)) \/ (thread[t].step = "ask" /\ Becomes(t, Idle))
  BY <1>3, NewStep DEF Lost
<1>4. ASSUME NEW t \in Threads, NEW info, thread[t].step = "ask", answered(t, info)
      PROVE  (\E q : Stored(t, q)) \/ (thread[t].step = "ask" /\ Becomes(t, Idle))
  BY <1>4, AnswerStep DEF Lost
<1>5. ASSUME NEW t \in Threads,
             panelDeleteGroup(t) \/ panelConnect(t) \/ panelDisconnect(t) \/ panelGroups(t)
      PROVE  (\E q : Stored(t, q)) \/ (thread[t].step = "ask" /\ Becomes(t, Idle))
  BY <1>4, <1>5
  DEF panelDeleteGroup, panelConnect, panelDisconnect, panelGroups, asks
<1>6. ASSUME NEW t \in Threads, panelTurnGroup(t) \/ NotSent(t)
      PROVE  thread[t].step = "ask" /\ Becomes(t, Idle)
  BY <1>6 DEF panelTurnGroup, asks, NotSent, Becomes
<1>7. ASSUME NEW t \in Threads, Store(t)
      PROVE  thread[t].step = "store" /\ Becomes(t, Idle)
  BY <1>7
  DEF Store, stores, create_group, delete_group, connect_relay_to_group,
      disconnect_relay, group_state, Becomes
<1> QED
  BY <1>1, <1>2, <1>3, <1>5, <1>6, <1>7
  DEF vars, Next, Handle, OpenPage, TurnGroup, MenuDelete, MenuNew, Restart

LEMMA ThreadsNext ==
  TypeInv /\ [Next]_vars => DOMAIN thread' = Threads /\ \A t \in Threads : Shape(thread'[t])
<1> SUFFICES ASSUME TypeInv, [Next]_vars
             PROVE  DOMAIN thread' = Threads /\ \A t \in Threads : Shape(thread'[t])
  OBVIOUS
<1>1. CASE thread' = thread
  BY <1>1 DEF TypeInv
<1>2. ASSUME NEW t \in Threads, NEW q, Shape(q), Becomes(t, q)
      PROVE  DOMAIN thread' = Threads /\ \A u \in Threads : Shape(thread'[u])
  BY <1>2, ThreadStep
<1>3. ASSUME NEW t \in Threads, NEW q, NEW X, Asked(t, q, X)
      PROVE  Shape(q) /\ Becomes(t, q)
  BY <1>3 DEF Asked
<1>4. ASSUME NEW t \in Threads, NEW q, Stored(t, q)
      PROVE  Shape(q) /\ Becomes(t, q)
  BY <1>4 DEF Stored
<1> QED BY <1>1, <1>2, <1>3, <1>4, IdleShape, AnyThread

LEMMA TablesNext == TypeInv /\ ThreadInv /\ [Next]_vars => TableInv'
<1> SUFFICES ASSUME TypeInv, ThreadInv, [Next]_vars
             PROVE  TableInv'
  OBVIOUS
<1>1. TableInv /\ \A t \in Threads : thread[t].name \in Names
  BY DEF TypeInv, Shape
<1>2. CASE UNCHANGED tables
  BY <1>1, <1>2 DEF TableInv, tables
<1>3. ASSUME NEW t \in Threads, create_group(t)
      PROVE  TableInv'
  <2>1. /\ nextId' = nextId + 1 /\ nextId \in Nat /\ wired' = wired
        /\ DOMAIN rows' = DOMAIN rows \cup {nextId}
    BY <1>1, <1>3 DEF create_group, TableInv
  <2>2. \A id \in DOMAIN rows' : "name" \in DOMAIN rows'[id] /\ rows'[id].name \in Names
    BY <1>1, <1>3 DEF create_group, TableInv
  <2>3. 1 .. nextId - 1 \subseteq 1 .. nextId' - 1 /\ nextId \in 1 .. nextId' - 1
    BY <1>1, <2>1 DEF TableInv
  <2> QED BY <1>1, <2>1, <2>2, <2>3 DEF TableInv
<1>4. ASSUME NEW t \in Threads, delete_group(t)
      PROVE  TableInv'
  BY <1>1, <1>4 DEF delete_group, without, TableInv
<1>5. ASSUME NEW t \in Threads, connect_relay_to_group(t)
      PROVE  TableInv'
  <2>1. /\ thread[t].step = "store" /\ thread[t].route = "connect"
        /\ wired' = wired \cup {<<thread[t].relay, thread[t].id>>}
        /\ rows' = rows /\ nextId' = nextId
    BY <1>5 DEF connect_relay_to_group, stores
  <2>2. thread[t].relay \in Relays
    BY <2>1 DEF TypeInv, Shape
  <2>3. thread[t].id \in 1 .. nextId - 1
    BY <2>1 DEF ThreadInv, busy, ofRow, HasRow
  <2> QED BY <1>1, <2>1, <2>2, <2>3 DEF TableInv
<1>6. ASSUME NEW t \in Threads, disconnect_relay(t)
      PROVE  TableInv'
  BY <1>1, <1>6 DEF disconnect_relay, TableInv
<1>7. ASSUME NEW t \in Threads, group_state(t)
      PROVE  TableInv'
  <2>1. /\ rows' = [id \in DOMAIN rows |-> [rows[id] EXCEPT !.on = shown(t, id)]]
        /\ wired' = wired /\ nextId' = nextId
    BY <1>7 DEF group_state
  <2>2. \A id \in DOMAIN rows : /\ DOMAIN rows'[id] = DOMAIN rows[id]
                                /\ rows'[id].name = rows[id].name
    BY <1>1, <2>1 DEF TableInv
  <2>3. DOMAIN rows' = DOMAIN rows
    BY <2>1
  <2> QED BY <1>1, <2>1, <2>2, <2>3 DEF TableInv
<1> QED
  BY <1>2, <1>3, <1>4, <1>5, <1>6, <1>7
  DEF vars, tables, Next, Handle, Ask, Store, OpenPage, NotSent, AskNew, AskOfGroup,
      AskConnect, AskDisconnect, AskState, begin, panelCreateGroup, panelDeleteGroup,
      panelTurnGroup, panelConnect, panelDisconnect, panelGroups, TurnGroup, MenuNew,
      MenuDelete, Restart

LEMMA RelaysNext ==
  TypeInv /\ [Next]_vars => relays' \in [Relays -> Slots \cup {NoSlot, Free}]
<1> SUFFICES ASSUME TypeInv, [Next]_vars
             PROVE  relays' \in [Relays -> Slots \cup {NoSlot, Free}]
  OBVIOUS
<1>1. relays \in [Relays -> Slots \cup {NoSlot, Free}]
  BY DEF TypeInv
<1>2. CASE relays' = relays
  BY <1>1, <1>2
<1>3. ASSUME NEW t \in Threads, panelDeleteGroup(t)
      PROVE  relays' \in [Relays -> Slots \cup {NoSlot, Free}]
  BY <1>1, <1>3 DEF panelDeleteGroup, master
<1>4. ASSUME NEW t \in Threads, panelConnect(t)
      PROVE  relays' \in [Relays -> Slots \cup {NoSlot, Free}]
  <2>1. groupNumber(thread[t].name) \in Slots \cup {NoSlot, Free}
    BY Least DEF groupNumber, slotsNamed
  <2> QED BY <1>1, <1>4, <2>1 DEF panelConnect
<1>5. ASSUME NEW t \in Threads, panelDisconnect(t)
      PROVE  relays' \in [Relays -> Slots \cup {NoSlot, Free}]
  BY <1>1, <1>5 DEF panelDisconnect
<1>6. CASE Restart
  BY <1>1, <1>6 DEF Restart, relaysRead
<1> QED
  BY <1>2, <1>3, <1>4, <1>5, <1>6
  DEF vars, master, Next, Handle, Ask, Store, OpenPage, NotSent, AskNew, AskOfGroup,
      AskConnect, AskDisconnect, AskState, begin, panelCreateGroup, panelTurnGroup,
      panelGroups, TurnGroup, MenuNew, MenuDelete, stores, create_group, delete_group,
      connect_relay_to_group, disconnect_relay, group_state

LEMMA TypeNext == TypeInv /\ ThreadInv /\ [Next]_vars => TypeInv'
BY GroupsNext, RelaysNext, TablesNext, ThreadsNext DEF TypeInv
-----------------------------------------------------------------------------
(* Doubt and overlapping requests *)

LEMMA SpreadHas ==
  /\ spread({}) = {}
  /\ \A X : X \subseteq spread(X) /\ \A x \in spread(X) : x \in X \/ x \in Relays
BY DEF spread

\* Doubt only grows, and it spreads to the relays connected.
LEMMA Doubted ==
  ASSUME TypeInv, [Next]_vars
  PROVE  \E X : doubtful' = doubtful \cup spread(X)
<1>1. CASE doubtful' = doubtful
  BY <1>1, SpreadHas
<1>2. ASSUME NEW t \in Threads, Ask(t)
      PROVE  \E X : doubtful' = doubtful \cup spread(X)
  BY <1>2, AskStep DEF Asked
<1>3. ASSUME NEW t \in Threads, NEW info, answered(t, info)
      PROVE  \E X : doubtful' = doubtful \cup spread(X)
  BY <1>1, <1>3 DEF answered
<1>4. ASSUME NEW t \in Threads, Handle(t)
      PROVE  \E X : doubtful' = doubtful \cup spread(X)
  BY <1>1, <1>3, <1>4
  DEF Handle, panelCreateGroup, panelDeleteGroup, panelTurnGroup, panelConnect,
      panelDisconnect, panelGroups
<1>5. ASSUME NEW t \in Threads, NotSent(t) \/ Store(t)
      PROVE  doubtful' = doubtful
  BY <1>5
  DEF NotSent, Store, stores, create_group, delete_group, connect_relay_to_group,
      disconnect_relay, group_state
<1>6. CASE Restart
  BY <1>1, <1>6 DEF Restart
<1> QED
  BY <1>1, <1>2, <1>4, <1>5, <1>6
  DEF vars, Next, OpenPage, TurnGroup, MenuNew, MenuDelete

\* Rows keep their names and their numbers; one goes by a delete only.
LEMMA RowsLater ==
  ASSUME TypeInv, [Next]_vars
  PROVE  /\ nextId' \in Nat /\ nextId <= nextId'
         /\ \A id \in 1 .. nextId - 1 :
              /\ id \in DOMAIN rows' => id \in DOMAIN rows /\ rows'[id].name = rows[id].name
              /\ id \in DOMAIN rows /\ id \notin DOMAIN rows' =>
                   \E t \in Threads : stores(t, "delete") /\ thread[t].id = id
<1>1. TableInv
  BY DEF TypeInv
<1>2. CASE UNCHANGED tables
  BY <1>1, <1>2 DEF TableInv, tables
<1>3. ASSUME NEW t \in Threads, create_group(t)
      PROVE  /\ nextId' \in Nat /\ nextId <= nextId'
             /\ \A id \in 1 .. nextId - 1 :
                  /\ id \in DOMAIN rows <=> id \in DOMAIN rows'
                  /\ id \in DOMAIN rows => rows'[id].name = rows[id].name
  BY <1>1, <1>3 DEF create_group, TableInv
<1>4. ASSUME NEW t \in Threads, delete_group(t)
      PROVE  /\ stores(t, "delete") /\ nextId' = nextId
             /\ \A id : (id \in DOMAIN rows' <=> id \in DOMAIN rows /\ id # thread[t].id)
             /\ \A id \in DOMAIN rows' : rows'[id] = rows[id]
  BY <1>4 DEF delete_group, without
<1>5. ASSUME NEW t \in Threads, connect_relay_to_group(t) \/ disconnect_relay(t)
      PROVE  rows' = rows /\ nextId' = nextId
  BY <1>5 DEF connect_relay_to_group, disconnect_relay
<1>6. ASSUME NEW t \in Threads, group_state(t)
      PROVE  /\ nextId' = nextId /\ DOMAIN rows' = DOMAIN rows
             /\ \A id \in DOMAIN rows : rows'[id].name = rows[id].name
  BY <1>1, <1>6 DEF group_state, TableInv
<1>7. nextId \in Nat
  BY <1>1 DEF TableInv
<1>8. UNCHANGED tables \/ \E t \in Threads : Store(t)
  BY DEF vars, tables, Next, Handle, Ask, OpenPage, NotSent, AskNew, AskOfGroup,
      AskConnect, AskDisconnect, AskState, begin, panelCreateGroup, panelDeleteGroup,
      panelTurnGroup, panelConnect, panelDisconnect, panelGroups, TurnGroup, MenuNew,
      MenuDelete, Restart
<1> QED BY <1>2, <1>3, <1>4, <1>5, <1>6, <1>7, <1>8 DEF Store

LEMMA Alone ==
  ASSUME ThreadInv, NEW t \in Threads, NEW u \in Threads, t # u,
         thread[t].step # "idle", thread[u].step # "idle",
         NEW x, x \in thread[t].about, x \in thread[u].about
  PROVE  thread[t].about \subseteq doubtful
<1>1. t \in busy /\ u \in busy /\ thread[t].about \cap thread[u].about # {}
  BY DEF busy
<1> QED BY <1>1 DEF ThreadInv

LEMMA OverlapsNext ==
  ASSUME TypeInv, ThreadInv, [Next]_vars
  PROVE  \A t, u \in busy' : t # u /\ thread'[t].about \cap thread'[u].about # {}
           => thread'[t].about \subseteq doubtful'
<1>1. doubtful \subseteq doubtful'
  BY Doubted
<1>2. CASE thread' = thread
  BY <1>1, <1>2 DEF ThreadInv, busy
<1>3. ASSUME NEW t \in Threads, NEW q, Becomes(t, q), q.step = "idle" \/ thread[t].step # "idle",
             q.about = thread[t].about \/ q.about = {}
      PROVE  \A v, u \in busy' : v # u /\ thread'[v].about \cap thread'[u].about # {}
               => thread'[v].about \subseteq doubtful'
  <2>1. \A u \in busy' : u \in busy /\ thread'[u].about \subseteq thread[u].about
    BY <1>3, ThreadStep DEF busy
  <2> QED BY <1>1, <2>1 DEF ThreadInv
<1>4. ASSUME NEW t \in Threads, NEW q, NEW X, Asked(t, q, X)
      PROVE  \A v, u \in busy' : v # u /\ thread'[v].about \cap thread'[u].about # {}
               => thread'[v].about \subseteq doubtful'
  <2>1. /\ thread'[t] = q /\ \A u \in Threads : u # t => thread'[u] = thread[u]
        /\ X \subseteq doubtful'
    BY <1>4, ThreadStep, SpreadHas DEF Asked
  <2>2. ASSUME NEW u \in busy', u # t, q.about \cap thread[u].about # {}
        PROVE  q.about \subseteq X /\ thread[u].about \subseteq X
    <3>1. u \in busy
      BY <2>1, <2>2 DEF busy
    <3>2. overlaps(q.about) /\ thread[u].about \subseteq tangled(q.about)
      BY <2>2, <3>1 DEF overlaps, tangled
    <3> QED BY <1>4, <3>2 DEF Asked
  <2>3. SUFFICES ASSUME NEW v \in busy', NEW u \in busy', v # u,
                        thread'[v].about \cap thread'[u].about # {}
                 PROVE  thread'[v].about \subseteq doubtful'
    OBVIOUS
  <2>4. CASE v = t
    BY <2>1, <2>2, <2>3, <2>4 DEF busy
  <2>5. CASE u = t
    BY <2>1, <2>2, <2>3, <2>5 DEF busy
  <2>6. CASE v # t /\ u # t
    <3>1. /\ v \in Threads /\ u \in Threads /\ thread'[v] = thread[v]
          /\ thread'[u] = thread[u] /\ v \in busy /\ u \in busy
      BY <2>1, <2>6 DEF busy
    <3> QED BY <1>1, <2>3, <3>1 DEF ThreadInv
  <2> QED BY <2>4, <2>5, <2>6
<1>5. ASSUME NEW t \in Threads, NEW q, Stored(t, q)
      PROVE  Becomes(t, q) /\ thread[t].step # "idle" /\ q.about = thread[t].about
  BY <1>5 DEF Stored
<1> QED BY <1>2, <1>3, <1>4, <1>5, IdleShape, AnyThread

\* The row of a request under way stays there, or the request is in doubt.
LEMMA HasRowNext ==
  ASSUME TypeInv, ThreadInv, [Next]_vars
  PROVE  \A t \in busy' : thread'[t].route \in ofRow => HasRow(thread[t])'
<1>1. doubtful \subseteq doubtful' /\ TableInv
  BY Doubted DEF TypeInv
<1>2. nextId \in Nat /\ nextId' \in Nat /\ nextId <= nextId'
  BY RowsLater, <1>1 DEF TableInv
<1>3. ASSUME NEW u \in Threads, u \in busy, thread[u].route \in ofRow, u \in busy',
             thread'[u].id = thread[u].id, thread'[u].name = thread[u].name,
             thread'[u].about = thread[u].about
      PROVE  HasRow(thread[u])'
  <2>1. HasRow(thread[u])
    BY <1>3 DEF ThreadInv
  <2> DEFINE id == thread[u].id
  <2>2. id \in 1 .. nextId - 1 /\ id \in 1 .. nextId' - 1
    BY <1>2, <2>1 DEF HasRow
  <2>3. CASE id \in DOMAIN rows'
    <3>1. id \in DOMAIN rows /\ rows'[id].name = rows[id].name
      BY <2>2, <2>3, RowsLater
    <3> QED BY <1>3, <2>1, <2>2, <2>3, <3>1 DEF HasRow
  <2>4. CASE id \notin DOMAIN rows
    <3>1. id \notin DOMAIN rows'
      BY <2>2, <2>4, RowsLater
    <3> QED BY <1>1, <1>3, <2>1, <2>2, <2>4, <3>1 DEF HasRow
  <2>5. CASE id \in DOMAIN rows /\ id \notin DOMAIN rows'
    <3>1. PICK t \in Threads : stores(t, "delete") /\ thread[t].id = id
      BY <2>2, <2>5, RowsLater
    <3>2. t \in busy /\ thread[t].route = "delete" /\ thread[t].step = "store"
      BY <3>1 DEF stores, busy
    <3>3. HasRow(thread[t])
      BY <3>2 DEF ThreadInv, ofRow
    <3>4. thread[t].name = rows[id].name /\ thread[u].name = rows[id].name
      BY <2>1, <2>5, <3>1, <3>3 DEF HasRow
    <3>5. thread[t].name \in thread[t].about /\ thread[u].name \in thread[u].about
      BY <1>3, <3>2 DEF TypeInv, Shape, busy, ofRow
    <3>6. u # t
      <4>1. thread' = [thread EXCEPT ![t] = Idle]
        BY <3>1 DEF stores
      <4>2. thread'[t].step = "idle"
        BY <4>1, IdleShape DEF TypeInv
      <4> QED BY <1>3, <4>2 DEF busy
    <3>7. thread[u].about \subseteq doubtful
      BY <1>3, <3>2, <3>4, <3>5, <3>6, Alone DEF busy
    <3> QED BY <1>1, <1>3, <2>2, <2>5, <3>7 DEF HasRow
  <2> QED BY <2>3, <2>4, <2>5
<1>4. ASSUME NEW u \in busy', thread'[u].route \in ofRow
      PROVE  HasRow(thread[u])'
  <2>1. CASE thread' = thread
    BY <1>3, <1>4, <2>1 DEF busy
  <2>2. ASSUME NEW t \in Threads, NEW q, NEW X, Asked(t, q, X)
        PROVE  HasRow(thread[u])'
    <3>1. /\ thread'[t] = q /\ \A v \in Threads : v # t => thread'[v] = thread[v]
          /\ rows' = rows /\ nextId' = nextId
      BY <2>2, ThreadStep DEF Asked, tables
    <3>2. CASE u = t
      <4>1. q.id \in DOMAIN rows /\ q.name = rows[q.id].name
        BY <1>4, <2>2, <3>1, <3>2 DEF Asked
      <4> QED BY <1>1, <3>1, <3>2, <4>1 DEF HasRow, TableInv
    <3>3. CASE u # t
      BY <1>3, <1>4, <3>1, <3>3 DEF busy
    <3> QED BY <3>2, <3>3
  <2>3. ASSUME NEW t \in Threads, NEW q, Stored(t, q)
        PROVE  HasRow(thread[u])'
    <3>1. thread'[t] = q /\ \A v \in Threads : v # t => thread'[v] = thread[v]
      BY <2>3, ThreadStep DEF Stored
    <3>2. CASE u = t
      <4>1. /\ u \in busy /\ q.route = thread[u].route /\ q.id = thread[u].id
            /\ q.name = thread[u].name /\ q.about = thread[u].about
        BY <2>3, <3>2 DEF Stored, busy
      <4> QED BY <1>3, <1>4, <3>1, <3>2, <4>1 DEF busy
    <3>3. CASE u # t
      BY <1>3, <1>4, <3>1, <3>3 DEF busy
    <3> QED BY <3>2, <3>3
  <2>4. ASSUME NEW t \in Threads, Becomes(t, Idle)
        PROVE  HasRow(thread[u])'
    <3>1. thread'[t] = Idle /\ \A v \in Threads : v # t => thread'[v] = thread[v]
      BY <2>4, ThreadStep
    <3> QED BY <1>3, <1>4, <3>1, IdleShape DEF busy
  <2> QED BY <2>1, <2>2, <2>3, <2>4, AnyThread
<1> QED BY <1>4

LEMMA ThreadNext == TypeInv /\ ThreadInv /\ [Next]_vars => ThreadInv'
<1> SUFFICES ASSUME TypeInv, ThreadInv, [Next]_vars
             PROVE  ThreadInv'
  OBVIOUS
<1>1. {Default, Prefixed} \subseteq doubtful'
  BY Doubted DEF ThreadInv
<1> QED BY <1>1, HasRowNext, OverlapsNext DEF ThreadInv

\* A new request is begun only if there is a number left for its row.
LEMMA RoomNext == TypeInv /\ RoomInv /\ [Next]_vars => RoomInv'
<1> SUFFICES ASSUME TypeInv, RoomInv, [Next]_vars
             PROVE  RoomInv'
  OBVIOUS
<1>1. nextId \in Nat /\ nextId' \in Nat /\ MaxId \in Nat
  BY RowsLater, ServerConstants DEF TypeInv, TableInv, ServerConstants
<1>2. /\ IsFiniteSet(Newcomers) /\ Cardinality(Newcomers) \in Nat
      /\ IsFiniteSet(Newcomers') /\ Cardinality(Newcomers') \in Nat
  <2>1. Newcomers \subseteq Threads /\ Newcomers' \subseteq Threads
    BY DEF Newcomers, busy
  <2> QED BY <2>1, ServerConstants, FS_Subset, FS_CardinalityType DEF ServerConstants
<1>3. ASSUME nextId' = nextId, Newcomers' \subseteq Newcomers
      PROVE  RoomInv'
  <2>1. Cardinality(Newcomers') <= Cardinality(Newcomers)
    BY <1>2, <1>3, FS_Subset
  <2> QED BY <1>1, <1>2, <1>3, <2>1 DEF RoomInv
<1>4. ASSUME NEW t \in Threads, NEW q, NEW X, Asked(t, q, X)
      PROVE  RoomInv'
  <2>1. /\ thread'[t] = q /\ \A v \in Threads : v # t => thread'[v] = thread[v]
        /\ nextId' = nextId
    BY <1>4, ThreadStep DEF Asked, tables
  <2>2. CASE q.route = "new"
    <3>1. Newcomers' = Newcomers \cup {t} /\ t \notin Newcomers
      BY <1>4, <2>1, <2>2 DEF Newcomers, busy, Asked
    <3>2. Cardinality(Newcomers') = Cardinality(Newcomers) + 1
      BY <1>2, <3>1, FS_AddElement
    <3>3. nextId + Cardinality(Newcomers) <= MaxId
      BY <1>4, <2>2 DEF Asked
    <3> QED BY <1>1, <1>2, <2>1, <3>2, <3>3 DEF RoomInv
  <2>3. CASE q.route # "new"
    <3>1. Newcomers' \subseteq Newcomers
      BY <2>1, <2>3 DEF Newcomers, busy
    <3> QED BY <1>3, <2>1, <3>1
  <2> QED BY <2>2, <2>3
<1>5. ASSUME NEW t \in Threads, create_group(t)
      PROVE  RoomInv'
  <2>1. /\ thread[t].step = "store" /\ thread[t].route = "new" /\ Becomes(t, Idle)
        /\ nextId' = nextId + 1
    BY <1>5 DEF create_group, stores, Becomes
  <2>2. thread'[t] = Idle /\ \A v \in Threads : v # t => thread'[v] = thread[v]
    BY <2>1, ThreadStep
  <2>3. t \in Newcomers /\ Newcomers' = Newcomers \ {t}
    BY <2>1, <2>2, IdleShape DEF Newcomers, busy
  <2>4. Cardinality(Newcomers') = Cardinality(Newcomers) - 1
    BY <1>2, <2>3, FS_RemoveElement
  <2> QED BY <1>1, <1>2, <2>1, <2>4 DEF RoomInv
<1>6. CASE nextId' = nextId
  <2>1. CASE thread' = thread
    BY <1>3, <1>6, <2>1 DEF Newcomers, busy
  <2>2. ASSUME NEW t \in Threads, NEW q, Stored(t, q) \/ (q = Idle /\ Becomes(t, q))
        PROVE  RoomInv'
    <3>1. /\ thread'[t] = q /\ \A v \in Threads : v # t => thread'[v] = thread[v]
      BY <2>2, ThreadStep DEF Stored
    <3>2. Newcomers' \subseteq Newcomers
      BY <2>2, <3>1, IdleShape DEF Newcomers, busy, Stored
    <3> QED BY <1>3, <1>6, <3>2
  <2> QED BY <1>4, <2>1, <2>2, AnyThread
<1>7. nextId' = nextId \/ \E t \in Threads : create_group(t)
  BY DEF vars, tables, Next, Handle, Ask, Store, OpenPage, NotSent, AskNew, AskOfGroup,
      AskConnect, AskDisconnect, AskState, begin, panelCreateGroup, panelDeleteGroup,
      panelTurnGroup, panelConnect, panelDisconnect, panelGroups, TurnGroup, MenuNew,
      MenuDelete, Restart, delete_group, connect_relay_to_group, disconnect_relay,
      group_state
<1> QED BY <1>5, <1>6, <1>7

LEMMA BasicsInit == Init => TypeInv /\ ThreadInv /\ RoomInv
<1> SUFFICES ASSUME Init
             PROVE  TypeInv /\ ThreadInv /\ RoomInv
  OBVIOUS
<1>1. busy = {} /\ DOMAIN thread = Threads /\ \A t \in Threads : Shape(thread[t])
  BY IdleShape DEF Init, busy
<1>2. GroupInv
  BY ServerConstants DEF Init, GroupInv, GroupFields, AllNames, ServerConstants
<1>3. TableInv /\ relays \in [Relays -> Slots \cup {NoSlot, Free}]
  BY DEF Init, TableInv
<1>4. ThreadInv
  BY <1>1 DEF Init, ThreadInv
<1>5. RoomInv
  <2>1. Cardinality(Newcomers) = 0
    BY <1>1, FS_EmptySet DEF Newcomers
  <2> QED BY <2>1, ServerConstants DEF Init, RoomInv, ServerConstants
<1> QED BY <1>1, <1>2, <1>3, <1>4, <1>5 DEF TypeInv

\* The tables and the master's arrays keep their types, and no number is given
\* beyond MaxId however many threads are about to store a row.
THEOREM TypeCorrect == Spec => []TypeOK
<1>1. TypeInv /\ ThreadInv /\ RoomInv => TypeOK
  <2> SUFFICES ASSUME TypeInv, RoomInv
               PROVE  TypeOK
    OBVIOUS
  <2>1. Cardinality(Newcomers) \in Nat
    <3>1. Newcomers \subseteq Threads
      BY DEF Newcomers, busy
    <3> QED BY <3>1, ServerConstants, FS_Subset, FS_CardinalityType DEF ServerConstants
  <2>2. nextId \in 1 .. MaxId + 1
    BY <2>1, ServerConstants DEF TypeInv, TableInv, RoomInv, ServerConstants
  <2>3. \A t \in Threads : thread[t].step \in {"idle", "ask", "store"}
    BY DEF TypeInv, Shape
  <2> QED BY <2>2, <2>3 DEF TypeInv, GroupInv, TableInv, TypeOK, AllNames
<1> QED BY <1>1, BasicsInit, TypeNext, ThreadNext, RoomNext, PTL DEF Spec
-----------------------------------------------------------------------------
(* What the threads are about to store *)

stored(t, route) == thread[t].step = "store" /\ thread[t].route = route
made(n) == \E t \in Threads : stored(t, "new") /\ thread[t].name = n
going(id) == \E t \in Threads : stored(t, "delete") /\ thread[t].id = id
coming(r, id) == \E t \in Threads : /\ stored(t, "connect") /\ thread[t].relay = r
                                    /\ thread[t].id = id
leaving(r) == \E t \in Threads : stored(t, "disconnect") /\ thread[t].relay = r

LEMMA NothingStored ==
  ASSUME TypeInv, NEW t \in Threads, NEW q, Becomes(t, q),
         thread[t].step # "store", q.step # "store"
  PROVE  /\ \A n : made(n)' <=> made(n)
         /\ \A id : going(id)' <=> going(id)
         /\ \A r, id : coming(r, id)' <=> coming(r, id)
         /\ \A r : leaving(r)' <=> leaving(r)
<1>1. thread'[t] = q /\ \A u \in Threads : u # t => thread'[u] = thread[u]
  BY ThreadStep
<1> QED BY <1>1 DEF made, going, coming, leaving, stored

LEMMA ToStore ==
  ASSUME TypeInv, NEW t \in Threads, NEW q, Stored(t, q)
  PROVE  /\ \A n : made(n)' <=> \/ made(n)
                                \/ thread[t].route = "new" /\ thread[t].name = n
         /\ \A id : going(id)' <=> \/ going(id)
                                   \/ thread[t].route = "delete" /\ thread[t].id = id
         /\ \A r, id : coming(r, id)' <=> \/ coming(r, id)
                                          \/ /\ thread[t].route = "connect"
                                             /\ thread[t].relay = r /\ thread[t].id = id
         /\ \A r : leaving(r)' <=> \/ leaving(r)
                                   \/ thread[t].route = "disconnect" /\ thread[t].relay = r
<1>1. /\ thread'[t] = q /\ thread[t].step = "ask" /\ q.step = "store"
      /\ \A u \in Threads : u # t => thread'[u] = thread[u]
  BY ThreadStep DEF Stored
<1>2. /\ q.route = thread[t].route /\ q.id = thread[t].id /\ q.name = thread[t].name
      /\ q.relay = thread[t].relay
  BY DEF Stored
<1> QED BY <1>1, <1>2 DEF made, going, coming, leaving, stored

LEMMA HasStored ==
  ASSUME TypeInv, NEW t \in Threads, thread[t].step = "store", Becomes(t, Idle)
  PROVE  /\ \A n : made(n) <=> \/ made(n)'
                               \/ thread[t].route = "new" /\ thread[t].name = n
         /\ \A id : going(id) <=> \/ going(id)'
                                  \/ thread[t].route = "delete" /\ thread[t].id = id
         /\ \A r, id : coming(r, id) <=> \/ coming(r, id)'
                                         \/ /\ thread[t].route = "connect"
                                            /\ thread[t].relay = r /\ thread[t].id = id
         /\ \A r : leaving(r) <=> \/ leaving(r)'
                                  \/ thread[t].route = "disconnect" /\ thread[t].relay = r
<1>1. /\ thread'[t] = Idle /\ Idle.step = "idle"
      /\ \A u \in Threads : u # t => thread'[u] = thread[u]
  BY ThreadStep, IdleShape
<1> QED BY <1>1 DEF made, going, coming, leaving, stored

\* Who is to delete a row is about its name.
LEMMA GoingIsNamed ==
  ASSUME TypeInv, ThreadInv, NEW u \in Threads, stored(u, "delete"),
         thread[u].id \in DOMAIN rows
  PROVE  /\ rows[thread[u].id].name = thread[u].name /\ u \in busy
         /\ thread[u].name \in thread[u].about
<1>1. u \in busy /\ thread[u].route = "delete" /\ thread[u].step = "store"
  BY DEF stored, busy
<1>2. HasRow(thread[u])
  BY <1>1 DEF ThreadInv, ofRow
<1>3. thread[u].name \in thread[u].about
  BY <1>1 DEF TypeInv, Shape
<1> QED BY <1>1, <1>2, <1>3 DEF HasRow

\* A request about one name is the only one, or the name is in doubt.
LEMMA OnlyOne ==
  ASSUME ThreadInv, NEW t \in Threads, NEW u \in Threads, thread[t].step # "idle",
         thread[u].step # "idle",
         NEW x, x \in thread[t].about, x \in thread[u].about, x \notin doubtful
  PROVE  t = u
BY Alone
-----------------------------------------------------------------------------
(* Names *)

willBeRow(n) ==
  made(n) \/ \E id \in DOMAIN rows : rows[id].name = n /\ ~going(id)

fresh(n, step) == ~inRows(n) /\ (step = "ask" => ~usesName(n))

\* One row and one group in use at most have the name, which groupNumber finds,
\* and if there is the one there is the other.
NameInv(n) ==
  /\ \A id, jd \in DOMAIN rows : rows[id].name = n /\ rows[jd].name = n => id = jd
  /\ \A i, j \in slotsNamed(n) : groups[i].inUse => i <= j
  /\ willBeRow(n) <=> usesName(n)
  /\ \A t \in busy : thread[t].route = "new" /\ thread[t].name = n
                       => fresh(n, thread[t].step)

NamesInv == \A n \in Names \ doubtful : NameInv(n)

RowsAlike ==
  DOMAIN rows' = DOMAIN rows /\ \A id \in DOMAIN rows : rows'[id].name = rows[id].name

GroupsAlike(n) ==
  \A i \in Slots :
    /\ groups'[i].name = n => groups[i].name = n
    /\ groups'[i].inUse /\ groups'[i].name = n <=> groups[i].inUse /\ groups[i].name = n

LEMMA UsesAlike ==
  ASSUME NEW n, GroupsAlike(n)
  PROVE  usesName(n)' <=> usesName(n)
BY DEF usesName, GroupsAlike

LEMMA NameKept ==
  ASSUME NEW n, NameInv(n), RowsAlike, GroupsAlike(n), made(n)' <=> made(n),
         \A id \in DOMAIN rows : rows[id].name = n => (going(id)' <=> going(id)),
         \A u \in busy' : thread'[u].route = "new" /\ thread'[u].name = n
                            => fresh(n, thread'[u].step)
  PROVE  NameInv(n)'
<1>1. \A id, jd \in DOMAIN rows' : rows'[id].name = n /\ rows'[jd].name = n => id = jd
  BY DEF NameInv, RowsAlike
<1>2. \A i, j \in slotsNamed(n)' : groups'[i].inUse => i <= j
  <2>1. \A i \in slotsNamed(n)' : /\ i \in slotsNamed(n)
                                  /\ groups'[i].inUse => groups[i].inUse
    BY DEF slotsNamed, GroupsAlike
  <2> QED BY <2>1 DEF NameInv
<1>3. willBeRow(n)' <=> willBeRow(n)
  BY DEF willBeRow, RowsAlike
<1>4. inRows(n)' <=> inRows(n)
  BY DEF inRows, RowsAlike
<1>5. \A u \in busy' : thread'[u].route = "new" /\ thread'[u].name = n
                         => fresh(n, thread[u].step)'
  BY <1>4, UsesAlike DEF fresh
<1> QED BY <1>1, <1>2, <1>3, <1>5, UsesAlike DEF NameInv

LEMMA StillFresh ==
  ASSUME TypeInv, NEW n, NameInv(n), NEW t \in Threads, NEW q, Becomes(t, q),
         q.step = "idle" \/ Stored(t, q)
  PROVE  \A u \in busy' : thread'[u].route = "new" /\ thread'[u].name = n
                            => fresh(n, thread'[u].step)
<1>1. thread'[t] = q /\ \A u \in Threads : u # t => thread'[u] = thread[u]
  BY ThreadStep
<1>2. ASSUME NEW u \in busy', thread'[u].route = "new", thread'[u].name = n, u # t
      PROVE  fresh(n, thread'[u].step)
  BY <1>1, <1>2 DEF busy, NameInv
<1>3. ASSUME t \in busy', thread'[t].route = "new", thread'[t].name = n
      PROVE  fresh(n, thread'[t].step)
  <2>1. Stored(t, q)
    BY <1>1, <1>3 DEF busy
  <2>2. /\ t \in busy /\ thread[t].route = "new" /\ thread[t].name = n
        /\ q.step = "store"
    BY <1>1, <1>3, <2>1 DEF Stored, busy
  <2>3. ~inRows(n)
    BY <2>2 DEF NameInv, fresh
  <2> QED BY <1>1, <2>2, <2>3 DEF fresh
<1> QED BY <1>2, <1>3

\* But for the group of its own request, the groups of a name that is not in
\* doubt stay.
LEMMA GroupsStay ==
  ASSUME TypeInv, ThreadInv, [Next]_vars, NEW n \in Names \ doubtful',
         \A t \in Threads : panelCreateGroup(t) \/ panelDeleteGroup(t) => thread[t].name # n
  PROVE  GroupsAlike(n)
<1>1. GroupInv /\ doubtful \subseteq doubtful'
  BY Doubted DEF TypeInv
<1>2. CASE groups' = groups
  BY <1>2 DEF GroupsAlike
<1>3. ASSUME NEW k \in Slots, ~groups[k].inUse, groups'[k].name # n,
             \A i \in Slots : i # k => groups'[i] = groups[i]
      PROVE  GroupsAlike(n)
  BY <1>3 DEF GroupsAlike
<1>4. ASSUME NEW t \in Threads, panelCreateGroup(t)
      PROVE  GroupsAlike(n)
  <2>1. CASE unused = {}
    BY <1>2, <1>4, <2>1 DEF panelCreateGroup
  <2>2. CASE unused # {}
    <3>1. least(unused) \in Slots /\ ~groups[least(unused)].inUse
      BY <2>2, Least DEF unused
    <3>2. groups' = [groups EXCEPT ![least(unused)].name = thread[t].name,
                                   ![least(unused)].inUse = TRUE]
      BY <1>4, <2>2 DEF panelCreateGroup
    <3>3. /\ groups'[least(unused)].name = thread[t].name
          /\ \A i \in Slots : i # least(unused) => groups'[i] = groups[i]
      BY <1>1, <3>1, <3>2 DEF GroupInv, GroupFields
    <3> QED BY <1>3, <1>4, <3>1, <3>3
  <2> QED BY <2>1, <2>2
<1>5. ASSUME NEW t \in Threads, panelDeleteGroup(t)
      PROVE  GroupsAlike(n)
  <2> DEFINE g == groupNumber(thread[t].name)
  <2>1. CASE slotsNamed(thread[t].name) = {}
    BY <1>2, <1>5, <2>1 DEF panelDeleteGroup, groupNumber, master
  <2>2. CASE slotsNamed(thread[t].name) # {}
    <3>1. g \in Slots /\ groups[g].name = thread[t].name
      BY <2>2, Least DEF groupNumber, slotsNamed
    <3>2. g # NoSlot
      BY <3>1, ServerConstants DEF Slots, NoSlot, ServerConstants
    <3>3. groups' = [groups EXCEPT ![g].inUse = FALSE]
      BY <1>5, <3>2 DEF panelDeleteGroup
    <3>4. /\ groups'[g].name = thread[t].name
          /\ \A i \in Slots : i # g => groups'[i] = groups[i]
      BY <1>1, <3>1, <3>3 DEF GroupInv, GroupFields
    <3> QED BY <1>5, <3>1, <3>4 DEF GroupsAlike
  <2> QED BY <2>1, <2>2
<1>6. ASSUME NEW t \in Threads, panelTurnGroup(t)
      PROVE  GroupsAlike(n)
  BY <1>1, <1>6 DEF panelTurnGroup, GroupInv, GroupFields, GroupsAlike
<1>7. ASSUME NEW i \in Slots, TurnGroup(i)
      PROVE  GroupsAlike(n)
  BY <1>1, <1>7 DEF TurnGroup, GroupInv, GroupFields, GroupsAlike
<1>8. ASSUME NEW i \in Slots, MenuDelete(i)
      PROVE  GroupsAlike(n)
  <2>1. groups[i].name # n
    BY <1>8, SpreadHas DEF MenuDelete
  <2> QED BY <1>1, <1>8, <2>1 DEF MenuDelete, GroupInv, GroupFields, GroupsAlike
<1>9. ASSUME NEW m \in Names, MenuNew(m)
      PROVE  GroupsAlike(n)
  <2>1. least(unused \ {1, 2}) \in Slots /\ ~groups[least(unused \ {1, 2})].inUse
    <3>1. unused \ {1, 2} \subseteq Slots /\ unused \ {1, 2} # {}
      BY <1>9 DEF unused, MenuNew
    <3>2. least(unused \ {1, 2}) \in unused \ {1, 2}
      BY <3>1, Least
    <3> QED BY <3>2 DEF unused
  <2>2. m # n
    BY <1>9, SpreadHas DEF MenuNew
  <2>3. /\ groups'[least(unused \ {1, 2})].name = m
        /\ \A i \in Slots : i # least(unused \ {1, 2}) => groups'[i] = groups[i]
    BY <1>1, <1>9, <2>1 DEF MenuNew, GroupInv
  <2> QED BY <1>3, <2>1, <2>2, <2>3
<1>10. CASE Restart
  <2>1. n # Prefixed /\ n # Default /\ n # NoName
    BY <1>1, ServerConstants DEF ThreadInv, ServerConstants
  <2>2. n \notin renamed
    BY <1>10, SpreadHas DEF Restart
  <2>3. groups[1].inUse => groups[1].name # n
    BY <2>2 DEF renamed
  <2>4. \A i \in Slots \ {1} :
          groups[i].inUse => (kept(groups[i].name) = n <=> groups[i].name = n)
    BY <2>2 DEF renamed
  <2>5. PICK first \in {Prefixed, Default} : groups' = groupsRead(first)
    BY <1>10 DEF Restart
  <2> QED BY <2>1, <2>3, <2>4, <2>5 DEF groupsRead, GroupsAlike
<1> QED
  BY <1>2, <1>4, <1>5, <1>6, <1>7, <1>8, <1>9, <1>10
  DEF vars, Next, Handle, Ask, Store, OpenPage, NotSent, AskNew, AskOfGroup, AskConnect,
      AskDisconnect, AskState, begin, panelConnect, panelDisconnect, panelGroups, stores,
      create_group, delete_group, connect_relay_to_group, disconnect_relay, group_state,
      master

\* The group a new name gets comes before all others of the name.
LEMMA NameCreated ==
  ASSUME TypeInv, ThreadInv, [Next]_vars, NEW n \in Names \ doubtful', NameInv(n),
         NEW t \in Threads, panelCreateGroup(t), thread[t].name = n
  PROVE  NameInv(n)'
<1>1. /\ GroupInv /\ doubtful \subseteq doubtful' /\ thread[t].step = "ask"
      /\ thread[t].route = "new" /\ thread[t].about = {n} /\ t \in busy
  BY NewStep, Doubted DEF TypeInv, Shape, busy
<1>2. /\ unused # {} /\ \E q : Stored(t, q)
      /\ groups' = [groups EXCEPT ![least(unused)].name = n, ![least(unused)].inUse = TRUE]
      /\ rows' = rows
  <2>1. ~Lost(t) /\ doubtful' # doubtful \cup spread(thread[t].about)
    BY <1>1, SpreadHas DEF Lost
  <2> QED BY <2>1, NewStep DEF tables
<1>3. PICK q : Stored(t, q)
  BY <1>2
<1> DEFINE k == least(unused)
<1>4. k \in unused /\ \A j \in unused : k <= j
  BY <1>2, Least DEF unused
<1>5. /\ groups'[k].name = n /\ groups'[k].inUse
      /\ \A i \in Slots : i # k => groups'[i] = groups[i]
  BY <1>1, <1>2, <1>4 DEF GroupInv, GroupFields, unused
<1>6. ~inRows(n) /\ ~usesName(n)
  BY <1>1 DEF NameInv, fresh
<1> HIDE DEF k
<1>7. \A i, j \in slotsNamed(n)' : groups'[i].inUse => i <= j
  <2> SUFFICES ASSUME NEW i \in slotsNamed(n)', NEW j \in slotsNamed(n)', groups'[i].inUse
               PROVE  i <= j
    OBVIOUS
  <2>1. i = k
    BY <1>5, <1>6 DEF slotsNamed, usesName
  <2>2. j \in unused \/ j = k
    BY <1>5, <1>6 DEF slotsNamed, usesName, unused
  <2> QED BY <1>4, <2>1, <2>2
<1>8. usesName(n)' /\ willBeRow(n)'
  <2>1. k \in Slots
    BY <1>4 DEF unused
  <2>2. usesName(n)'
    BY <1>5, <2>1 DEF usesName
  <2>3. made(n)'
    BY <1>1, <1>3, ToStore
  <2> QED BY <2>2, <2>3 DEF willBeRow
<1>9. \A u \in busy' : thread'[u].route = "new" /\ thread'[u].name = n
                         => u = t /\ thread'[u].step = "store"
  <2> SUFFICES ASSUME NEW u \in busy', thread'[u].route = "new", thread'[u].name = n
               PROVE  u = t /\ thread'[u].step = "store"
    OBVIOUS
  <2>1. /\ thread'[t] = q /\ q.step = "store"
        /\ \A v \in Threads : v # t => thread'[v] = thread[v]
    BY <1>3, ThreadStep DEF Stored
  <2>2. CASE u # t
    <3>1. thread[u].step # "idle" /\ n \in thread[u].about
      BY <2>1, <2>2 DEF busy, TypeInv, Shape
    <3> QED BY <1>1, <2>2, <3>1, OnlyOne DEF busy
  <2> QED BY <2>1, <2>2
<1>10. ~inRows(n)'
  BY <1>2, <1>6 DEF inRows
<1> QED BY <1>2, <1>7, <1>8, <1>9, <1>10 DEF NameInv, fresh

\* The group that goes is the one in use, and its row is the one to be deleted.
LEMMA NameDeleted ==
  ASSUME TypeInv, ThreadInv, [Next]_vars, NEW n \in Names \ doubtful', NameInv(n),
         NEW t \in Threads, panelDeleteGroup(t), thread[t].name = n
  PROVE  NameInv(n)'
<1>1. /\ GroupInv /\ doubtful \subseteq doubtful' /\ thread[t].step = "ask"
      /\ thread[t].route = "delete" /\ thread[t].about = {n} /\ t \in busy
      /\ UNCHANGED tables
  BY Doubted DEF panelDeleteGroup, asks, TypeInv, Shape, busy
<1>0. PICK id : id = thread[t].id
  OBVIOUS
<1>2. id \in DOMAIN rows /\ rows[id].name = n
  <2>1. HasRow(thread[t]) /\ ~(thread[t].about \subseteq doubtful)
    BY <1>1 DEF ThreadInv, ofRow
  <2> QED BY <1>0, <1>1, <2>1 DEF HasRow
<1>3. PICK q : Stored(t, q)
  <2>1. answered(t, <<>>)
    BY DEF panelDeleteGroup
  <2>2. ~Lost(t)
    BY <1>1, SpreadHas DEF Lost
  <2> QED BY <1>1, <2>1, <2>2, AnswerStep
<1>4. \A u \in Threads : thread[u].step # "idle" /\ n \in thread[u].about => u = t
  BY <1>1, OnlyOne DEF busy
<1>5. ~made(n)
  <2>1. ASSUME NEW u \in Threads, stored(u, "new"), thread[u].name = n
        PROVE  FALSE
    BY <1>1, <1>4, <2>1 DEF stored, TypeInv, Shape
  <2> QED BY <2>1 DEF made
<1>6. ~going(id)
  <2>1. ASSUME NEW u \in Threads, stored(u, "delete"), thread[u].id = id
        PROVE  FALSE
    <3>1. thread[u].name = n /\ n \in thread[u].about
      BY <1>2, <2>1, GoingIsNamed
    <3> QED BY <1>1, <1>4, <2>1, <3>1 DEF stored
  <2> QED BY <2>1 DEF going
<1>7. usesName(n)
  BY <1>2, <1>6 DEF NameInv, willBeRow
<1> DEFINE g == groupNumber(n)
<1>8. /\ g \in Slots /\ groups[g].name = n /\ g # NoSlot
      /\ \A i \in Slots : groups[i].name = n /\ groups[i].inUse => i = g
  <2>1. g \in slotsNamed(n) /\ \A j \in slotsNamed(n) : g <= j
    <3>1. slotsNamed(n) # {}
      BY <1>7 DEF usesName, slotsNamed
    <3> QED BY <3>1, Least DEF groupNumber, slotsNamed
  <2>2. \A i \in slotsNamed(n) : groups[i].inUse => i <= g
    BY <2>1 DEF NameInv
  <2>3. \A i \in slotsNamed(n) : i \in Nat
    BY ServerConstants DEF slotsNamed, Slots, ServerConstants
  <2>4. \A i \in slotsNamed(n) : groups[i].inUse => i = g
    BY <2>1, <2>2, <2>3
  <2>5. g \in Slots /\ groups[g].name = n
    BY <2>1 DEF slotsNamed
  <2>6. g # NoSlot
    BY <2>5, ServerConstants DEF Slots, NoSlot, ServerConstants
  <2> QED BY <2>4, <2>5, <2>6 DEF slotsNamed
<1>9. /\ groups'[g].name = n /\ ~groups'[g].inUse
      /\ \A i \in Slots : i # g => groups'[i] = groups[i]
  <2>1. groups' = [groups EXCEPT ![g].inUse = FALSE]
    BY <1>8 DEF panelDeleteGroup
  <2> HIDE DEF g
  <2> QED BY <1>1, <1>8, <2>1 DEF GroupInv, GroupFields
<1>10. ~usesName(n)'
  BY <1>8, <1>9 DEF usesName
<1>11. ~willBeRow(n)'
  <2>1. ~made(n)'
    BY <1>1, <1>3, <1>5, ToStore
  <2>2. going(id)'
    BY <1>0, <1>1, <1>3, ToStore
  <2>3. \A jd \in DOMAIN rows' : rows'[jd].name = n => jd = id
    BY <1>1, <1>2 DEF tables, NameInv
  <2> QED BY <2>1, <2>2, <2>3 DEF willBeRow
<1>12. \A u \in busy' : thread'[u].route # "new" \/ thread'[u].name # n
  <2>1. /\ thread'[t] = q /\ q.route = "delete"
        /\ \A v \in Threads : v # t => thread'[v] = thread[v]
    BY <1>1, <1>3, ThreadStep DEF Stored
  <2>2. ASSUME NEW u \in busy', thread'[u].route = "new", thread'[u].name = n
        PROVE  FALSE
    <3>1. u # t
      BY <2>1, <2>2
    <3>2. u \in Threads /\ thread[u].step # "idle" /\ n \in thread[u].about
      BY <2>1, <2>2, <3>1 DEF busy, TypeInv, Shape
    <3> QED BY <1>4, <3>1, <3>2
  <2> QED BY <2>2
<1>13. \A i, j \in slotsNamed(n)' : groups'[i].inUse => i <= j
  BY <1>10 DEF usesName, slotsNamed
<1>14. \A kd, jd \in DOMAIN rows' : rows'[kd].name = n /\ rows'[jd].name = n => kd = jd
  BY <1>1 DEF NameInv, tables
<1> QED BY <1>10, <1>11, <1>12, <1>13, <1>14 DEF NameInv

\* The row that was to be there is there.
LEMMA NameStored ==
  ASSUME TypeInv, ThreadInv, [Next]_vars, NEW n \in Names \ doubtful', NameInv(n),
         NEW t \in Threads, create_group(t)
  PROVE  NameInv(n)'
<1>1. /\ TableInv /\ thread[t].step = "store" /\ thread[t].route = "new"
      /\ Becomes(t, Idle) /\ groups' = groups /\ doubtful' = doubtful /\ t \in busy
      /\ thread[t].name \in thread[t].about
  BY DEF create_group, stores, Becomes, master, TypeInv, busy, Shape
<1> DEFINE id == nextId
<1>2. /\ id \notin DOMAIN rows /\ DOMAIN rows' = DOMAIN rows \cup {id}
      /\ rows'[id].name = thread[t].name
      /\ \A jd \in DOMAIN rows : rows'[jd] = rows[jd]
  BY <1>1 DEF create_group, TableInv
<1>3. ~going(id)
  <2>1. ASSUME NEW u \in Threads, stored(u, "delete")
        PROVE  thread[u].id # id
    <3>1. HasRow(thread[u])
      BY <2>1 DEF ThreadInv, ofRow, stored, busy
    <3> QED BY <1>1, <3>1 DEF HasRow, TableInv
  <2> QED BY <2>1 DEF going
<1> HIDE DEF id
<1>4. /\ \A jd : going(jd)' <=> going(jd)
      /\ \A m : made(m) <=> made(m)' \/ m = thread[t].name
  BY <1>1, HasStored
<1>5. usesName(n)' <=> usesName(n)
  BY <1>1 DEF usesName
<1>6. \A u \in busy' : u \in busy /\ u # t /\ thread'[u] = thread[u]
  BY <1>1, ThreadStep, IdleShape DEF busy
<1>7. \A i, j \in slotsNamed(n)' : groups'[i].inUse => i <= j
  BY <1>1 DEF NameInv, slotsNamed
<1>8. CASE thread[t].name = n
  <2>1. \A jd \in DOMAIN rows : rows[jd].name # n
    BY <1>1, <1>8 DEF NameInv, fresh, inRows
  <2>2. \A kd, jd \in DOMAIN rows' : rows'[kd].name = n /\ rows'[jd].name = n => kd = jd
    BY <1>2, <2>1
  <2>3. willBeRow(n) /\ willBeRow(n)'
    BY <1>2, <1>3, <1>4, <1>8 DEF willBeRow
  <2>4. \A u \in busy' : thread'[u].route # "new" \/ thread'[u].name # n
    <3>1. ASSUME NEW u \in busy', thread'[u].route = "new", thread'[u].name = n
          PROVE  FALSE
      <4>1. u \in Threads /\ thread[u].step # "idle" /\ n \in thread[u].about
        BY <1>6, <3>1 DEF busy, TypeInv, Shape
      <4> QED BY <1>1, <1>6, <1>8, <3>1, <4>1, OnlyOne DEF busy
    <3> QED BY <3>1
  <2> QED BY <1>5, <1>7, <2>2, <2>3, <2>4 DEF NameInv
<1>9. CASE thread[t].name # n
  <2>1. \A jd \in DOMAIN rows' : rows'[jd].name = n =>
          jd \in DOMAIN rows /\ rows[jd].name = n
    BY <1>2, <1>9
  <2>2. \A kd, jd \in DOMAIN rows' : rows'[kd].name = n /\ rows'[jd].name = n => kd = jd
    BY <2>1 DEF NameInv
  <2>3. willBeRow(n)' <=> willBeRow(n)
    <3>1. made(n)' <=> made(n)
      BY <1>4, <1>9
    <3> QED BY <1>2, <1>4, <2>1, <3>1 DEF willBeRow
  <2>4. inRows(n)' => inRows(n)
    BY <2>1 DEF inRows
  <2>5. \A u \in busy' : thread'[u].route = "new" /\ thread'[u].name = n
                           => fresh(n, thread[u].step)'
    BY <1>5, <1>6, <2>4 DEF NameInv, fresh
  <2>6. willBeRow(n)' <=> usesName(n)'
    BY <1>5, <2>3 DEF NameInv
  <2> QED BY <1>7, <2>2, <2>5, <2>6 DEF NameInv
<1> QED BY <1>8, <1>9

\* The row that was to go goes.
LEMMA NameRemoved ==
  ASSUME TypeInv, ThreadInv, [Next]_vars, NEW n \in Names \ doubtful', NameInv(n),
         NEW t \in Threads, delete_group(t)
  PROVE  NameInv(n)'
<1>1. /\ thread[t].step = "store" /\ thread[t].route = "delete"
      /\ Becomes(t, Idle) /\ groups' = groups /\ doubtful' = doubtful
  BY DEF delete_group, stores, Becomes, master
<1> DEFINE id == thread[t].id
<1>2. DOMAIN rows' = DOMAIN rows \ {id} /\ \A jd \in DOMAIN rows' : rows'[jd] = rows[jd]
  BY DEF delete_group, without
<1>3. /\ \A jd : going(jd) <=> going(jd)' \/ jd = id
      /\ \A m : made(m)' <=> made(m)
  BY <1>1, HasStored
<1> HIDE DEF id
<1>4. usesName(n)' <=> usesName(n)
  BY <1>1 DEF usesName
<1>5. \A u \in busy' : u \in busy /\ thread'[u] = thread[u]
  BY <1>1, ThreadStep, IdleShape DEF busy
<1>6. \A i, j \in slotsNamed(n)' : groups'[i].inUse => i <= j
  BY <1>1 DEF NameInv, slotsNamed
<1>7. \A kd, jd \in DOMAIN rows' : rows'[kd].name = n /\ rows'[jd].name = n => kd = jd
  BY <1>2 DEF NameInv
<1>8. willBeRow(n)' <=> willBeRow(n)
  BY <1>2, <1>3 DEF willBeRow
<1>9. inRows(n)' => inRows(n)
  BY <1>2 DEF inRows
<1>10. \A u \in busy' : thread'[u].route = "new" /\ thread'[u].name = n
                          => fresh(n, thread[u].step)'
  BY <1>4, <1>5, <1>9 DEF NameInv, fresh
<1>11. willBeRow(n)' <=> usesName(n)'
  BY <1>4, <1>8 DEF NameInv
<1> QED BY <1>6, <1>7, <1>10, <1>11 DEF NameInv

LEMMA NamesNext == TypeInv /\ ThreadInv /\ NamesInv /\ [Next]_vars => NamesInv'
<1> SUFFICES ASSUME TypeInv, ThreadInv, NamesInv, [Next]_vars,
                    NEW n \in Names \ doubtful'
             PROVE  NameInv(n)'
  BY DEF NamesInv
<1>1. NameInv(n) /\ n \notin doubtful
  BY Doubted DEF NamesInv
<1>2. ASSUME NEW t \in Threads, panelCreateGroup(t) \/ panelDeleteGroup(t), thread[t].name = n
      PROVE  NameInv(n)'
  BY <1>1, <1>2, NameCreated, NameDeleted
<1>3. ASSUME NEW t \in Threads, create_group(t) \/ delete_group(t)
      PROVE  NameInv(n)'
  BY <1>1, <1>3, NameStored, NameRemoved
<1>4. CASE /\ \A t \in Threads : panelCreateGroup(t) \/ panelDeleteGroup(t) => thread[t].name # n
           /\ \A t \in Threads : ~create_group(t) /\ ~delete_group(t)
  <2>1. GroupsAlike(n)
    BY <1>4, GroupsStay
  <2>2. RowsAlike
    <3>1. ASSUME NEW t \in Threads, group_state(t)
          PROVE  RowsAlike
      BY <3>1 DEF group_state, RowsAlike, TypeInv, TableInv
    <3>2. CASE rows' = rows
      BY <3>2 DEF RowsAlike
    <3> QED
      BY <1>4, <3>1, <3>2
      DEF vars, tables, Next, Handle, Ask, Store, OpenPage, NotSent, AskNew, AskOfGroup,
          AskConnect, AskDisconnect, AskState, begin, panelCreateGroup, panelDeleteGroup,
          panelTurnGroup, panelConnect, panelDisconnect, panelGroups, TurnGroup, MenuNew,
          MenuDelete, Restart, connect_relay_to_group, disconnect_relay
  <2>3. CASE thread' = thread
    <3>1. made(n)' <=> made(n)
      BY <2>3 DEF made, stored
    <3>2. \A id : going(id)' <=> going(id)
      BY <2>3 DEF going, stored
    <3>3. \A u \in busy' : thread'[u].route = "new" /\ thread'[u].name = n
                             => fresh(n, thread'[u].step)
      BY <1>1, <2>3 DEF NameInv, busy
    <3> QED BY <1>1, <2>1, <2>2, <3>1, <3>2, <3>3, NameKept
  <2>4. ASSUME NEW t \in Threads, NEW q, NEW X, Asked(t, q, X)
        PROVE  NameInv(n)'
    <3>1. Becomes(t, q) /\ thread[t].step # "store" /\ q.step # "store"
      BY <2>4 DEF Asked
    <3>2. /\ made(n)' <=> made(n)
          /\ \A id : going(id)' <=> going(id)
      BY <3>1, NothingStored
    <3>3. thread'[t] = q /\ \A u \in Threads : u # t => thread'[u] = thread[u]
      BY <3>1, ThreadStep
    <3>4. q.route = "new" /\ q.name = n => fresh(n, "ask")
      BY <2>4, SpreadHas DEF Asked, fresh
    <3>5. \A u \in busy' : thread'[u].route = "new" /\ thread'[u].name = n
                             => fresh(n, thread'[u].step)
      BY <1>1, <2>4, <3>3, <3>4 DEF NameInv, busy, Asked
    <3> QED BY <1>1, <2>1, <2>2, <3>2, <3>5, NameKept
  <2>5. ASSUME NEW t \in Threads, NEW q, Stored(t, q), Handle(t)
        PROVE  NameInv(n)'
    <3>1. made(n)' <=> made(n)
      <4>1. ~(thread[t].route = "new" /\ thread[t].name = n)
        BY <1>4, <2>5
        DEF Handle, asks, panelTurnGroup, panelDeleteGroup, panelConnect, panelDisconnect,
            panelGroups
      <4> QED BY <2>5, <4>1, ToStore
    <3>2. \A id \in DOMAIN rows : rows[id].name = n => (going(id)' <=> going(id))
      <4>1. ASSUME thread[t].route = "delete", thread[t].id \in DOMAIN rows,
                   rows[thread[t].id].name = n
            PROVE  FALSE
        <5>1. HasRow(thread[t])
          BY <2>5, <4>1 DEF ThreadInv, ofRow, busy, Stored
        <5>2. thread[t].name = n
          BY <4>1, <5>1 DEF HasRow
        <5> QED
          BY <1>4, <2>5, <4>1, <5>2
          DEF Handle, asks, panelTurnGroup, panelCreateGroup, panelConnect,
              panelDisconnect, panelGroups
      <4> QED BY <2>5, <4>1, ToStore
    <3>3. Becomes(t, q)
      BY <2>5 DEF Stored
    <3>4. \A u \in busy' : thread'[u].route = "new" /\ thread'[u].name = n
                             => fresh(n, thread'[u].step)
      BY <1>1, <2>5, <3>3, StillFresh
    <3> QED BY <1>1, <2>1, <2>2, <3>1, <3>2, <3>4, NameKept
  <2>6. ASSUME NEW t \in Threads, Becomes(t, Idle), thread[t].step = "ask" \/ Store(t)
        PROVE  NameInv(n)'
    <3>1. \A u \in busy' : thread'[u].route = "new" /\ thread'[u].name = n
                             => fresh(n, thread'[u].step)
      BY <1>1, <2>6, IdleShape, StillFresh
    <3>2. /\ made(n)' <=> made(n)
          /\ \A id : going(id)' <=> going(id)
      <4>1. CASE thread[t].step = "store"
        <5>1. thread[t].route # "new" /\ thread[t].route # "delete"
          BY <1>4, <2>6, <4>1
          DEF Store, stores, connect_relay_to_group, disconnect_relay, group_state
        <5> QED BY <2>6, <4>1, <5>1, HasStored
      <4>2. CASE thread[t].step # "store"
        BY <2>6, <4>2, IdleShape, NothingStored
      <4> QED BY <4>1, <4>2
    <3> QED BY <1>1, <2>1, <2>2, <3>1, <3>2, NameKept
  <2> QED BY <2>3, <2>4, <2>5, <2>6, AnyThread
<1> QED BY <1>2, <1>3, <1>4
-----------------------------------------------------------------------------
(* Relays *)

\* r will be wired to a row that will be there and has the name.
linked(r, n) ==
  /\ ~leaving(r)
  /\ \E id \in DOMAIN rows : /\ rows[id].name = n /\ ~going(id)
                             /\ <<r, id>> \in wired \/ coming(r, id)

switched(r, n) == relays[r] \in Slots /\ groups[relays[r]].name = n
inDoubt(r) == \E n \in AllNames : linked(r, n) /\ n \in doubtful
dangling(r) == relays[r] \in Slots /\ ~groups[relays[r]].inUse

agrees(r) == \A n \in AllNames : linked(r, n) <=> switched(r, n)

\* A relay may keep to a group that is gone only if what it is linked to is in
\* doubt, and it is in doubt itself before that is deleted.
RelayInv(r) ==
  /\ agrees(r) \/ inDoubt(r)
  /\ dangling(r) => inDoubt(r)
  /\ \A t \in Threads : asks(t, "connect") /\ thread[t].relay = r => relays[r] = Free
  /\ \A t \in busy : thread[t].route = "delete" /\ linked(r, thread[t].name)
                       => thread[t].name \notin doubtful

RelaysInv == \A r \in Relays \ doubtful : RelayInv(r)

LEMMA LinkedName ==
  ASSUME TypeInv, NEW r, NEW n, linked(r, n)
  PROVE  n \in Names /\ n \in AllNames /\ n \notin Relays
BY ServerConstants DEF linked, TypeInv, TableInv, AllNames, ServerConstants

\* A relay that is linked to a name is connected to it, or a request about both
\* is under way.
LEMMA LinkedBy ==
  ASSUME TypeInv, ThreadInv, NEW r \in Relays, NEW n, linked(r, n)
  PROVE  \/ \A X : n \in X => r \in spread(X)
         \/ \E v \in Threads : /\ thread[v].step = "store" /\ thread[v].route = "connect"
                               /\ thread[v].about = {r, n}
<1>1. PICK id \in DOMAIN rows : rows[id].name = n /\ (<<r, id>> \in wired \/ coming(r, id))
  BY DEF linked
<1>2. CASE <<r, id>> \in wired
  BY <1>1, <1>2 DEF spread
<1>3. CASE coming(r, id)
  <2>1. PICK v \in Threads : stored(v, "connect") /\ thread[v].relay = r /\ thread[v].id = id
    BY <1>3 DEF coming
  <2>2. HasRow(thread[v]) /\ thread[v].about = {r, thread[v].name}
    BY <2>1 DEF stored, ThreadInv, busy, ofRow, TypeInv, Shape
  <2>3. thread[v].name = n
    BY <1>1, <2>1, <2>2 DEF HasRow
  <2> QED BY <2>1, <2>2, <2>3 DEF stored
<1> QED BY <1>1, <1>2, <1>3

\* Whoever is to delete what a relay not in doubt is linked to is not in doubt.
LEMMA DeletesStay ==
  ASSUME TypeInv, ThreadInv, [Next]_vars, NEW r \in Relays \ doubtful', RelayInv(r)
  PROVE  \A u \in busy' : thread'[u].route = "delete" /\ linked(r, thread'[u].name)
                            => thread'[u].name \notin doubtful'
<1>1. doubtful \subseteq doubtful' /\ r \notin doubtful
  BY Doubted
<1>2. ASSUME NEW u \in Threads, u \in busy, thread[u].route = "delete", linked(r, thread[u].name)
      PROVE  thread[u].name \notin doubtful'
  <2> DEFINE n == thread[u].name
  <2>1. n \notin doubtful /\ n \in thread[u].about /\ n \notin Relays
    BY <1>2, LinkedName DEF RelayInv, TypeInv, Shape, busy
  <2>2. PICK X : doubtful' = doubtful \cup spread(X)
    BY Doubted
  <2>3. n \in doubtful' => n \in X
    BY <2>1, <2>2, SpreadHas
  <2>4. CASE \A Y : n \in Y => r \in spread(Y)
    BY <2>2, <2>3, <2>4
  <2>5. ASSUME NEW v \in Threads, thread[v].step = "store", thread[v].route = "connect",
               thread[v].about = {r, n}
        PROVE  FALSE
    <3>1. v # u
      BY <1>2, <2>5
    <3> QED BY <1>1, <1>2, <2>1, <2>5, <3>1, Alone DEF busy
  <2> QED BY <1>2, <2>4, <2>5, LinkedBy
<1>3. ASSUME NEW t \in Threads, NEW q, NEW X, Asked(t, q, X), q.route = "delete",
             linked(r, q.name)
      PROVE  q.name \notin doubtful'
  <2>1. q.about = {q.name} /\ q.name \notin Relays /\ doubtful' = doubtful \cup spread(X)
    BY <1>3, LinkedName DEF Asked, Shape
  <2>2. q.name \in doubtful' => q.name \in X
    <3>1. q.name \in doubtful => q.name \in X
      BY <1>3, <2>1 DEF Asked
    <3> QED BY <2>1, <3>1, SpreadHas
  <2>3. CASE \A Y : q.name \in Y => r \in spread(Y)
    BY <2>1, <2>2, <2>3
  <2>4. ASSUME NEW v \in Threads, thread[v].step = "store", thread[v].about = {r, q.name}
        PROVE  FALSE
    <3>1. r \in tangled(q.about)
      BY <2>1, <2>4 DEF tangled, busy
    <3>2. r \in X
      BY <1>3, <3>1 DEF Asked
    <3> QED BY <2>1, <3>2, SpreadHas
  <2> QED BY <1>3, <2>3, <2>4, LinkedBy
<1>4. SUFFICES ASSUME NEW u \in busy', thread'[u].route = "delete", linked(r, thread'[u].name)
               PROVE  thread'[u].name \notin doubtful'
  OBVIOUS
<1>5. CASE thread' = thread
  BY <1>2, <1>4, <1>5 DEF busy
<1>6. ASSUME NEW t \in Threads, NEW q, NEW X, Asked(t, q, X)
      PROVE  thread'[u].name \notin doubtful'
  <2>1. thread'[t] = q /\ \A v \in Threads : v # t => thread'[v] = thread[v]
    BY <1>6, ThreadStep DEF Asked
  <2>2. CASE u = t
    BY <1>3, <1>4, <1>6, <2>1, <2>2
  <2>3. CASE u # t
    BY <1>2, <1>4, <2>1, <2>3 DEF busy
  <2> QED BY <2>2, <2>3
<1>7. ASSUME NEW t \in Threads, NEW q, Stored(t, q)
      PROVE  thread'[u].name \notin doubtful'
  <2>1. /\ thread'[t] = q /\ \A v \in Threads : v # t => thread'[v] = thread[v]
        /\ q.route = thread[t].route /\ q.name = thread[t].name /\ thread[t].step # "idle"
    BY <1>7, ThreadStep DEF Stored
  <2>2. u \in busy /\ thread'[u].route = thread[u].route /\ thread'[u].name = thread[u].name
    BY <1>4, <2>1 DEF busy
  <2> QED BY <1>2, <1>4, <2>2 DEF busy
<1>8. ASSUME NEW t \in Threads, Becomes(t, Idle)
      PROVE  thread'[u].name \notin doubtful'
  <2>1. u \in busy /\ thread'[u] = thread[u]
    BY <1>4, <1>8, ThreadStep, IdleShape DEF busy
  <2> QED BY <1>2, <1>4, <2>1 DEF busy
<1> QED BY <1>5, <1>6, <1>7, <1>8, AnyThread

\* A relay is not connected by the master while a request is to connect it.
LEMMA ConnectsStay ==
  ASSUME TypeInv, ThreadInv, [Next]_vars, NEW r \in Relays \ doubtful', RelayInv(r),
         relays[r] = Free => relays'[r] = Free
  PROVE  \A u \in Threads : asks(u, "connect")' /\ thread'[u].relay = r => relays'[r] = Free
<1>1. ASSUME NEW u \in Threads, asks(u, "connect"), thread[u].relay = r
      PROVE  relays'[r] = Free
  BY <1>1 DEF RelayInv
<1>2. ASSUME NEW t \in Threads, NEW q, NEW X, Asked(t, q, X), q.route = "connect", q.relay = r
      PROVE  relays'[r] = Free
  <2>1. relays[r] # Free => r \in doubtful'
    BY <1>2, SpreadHas DEF Asked
  <2> QED BY <2>1
<1>3. SUFFICES ASSUME NEW u \in Threads, asks(u, "connect")', thread'[u].relay = r
               PROVE  relays'[r] = Free
  OBVIOUS
<1>4. CASE thread' = thread
  BY <1>1, <1>3, <1>4 DEF asks
<1>5. ASSUME NEW t \in Threads, NEW q, NEW X, Asked(t, q, X)
      PROVE  relays'[r] = Free
  <2>1. thread'[t] = q /\ \A v \in Threads : v # t => thread'[v] = thread[v]
    BY <1>5, ThreadStep DEF Asked
  <2>2. CASE u = t
    BY <1>2, <1>3, <1>5, <2>1, <2>2 DEF asks
  <2>3. CASE u # t
    BY <1>1, <1>3, <2>1, <2>3 DEF asks
  <2> QED BY <2>2, <2>3
<1>6. ASSUME NEW t \in Threads, NEW q, Becomes(t, q), q.step # "ask"
      PROVE  relays'[r] = Free
  <2>1. u # t /\ thread'[u] = thread[u]
    BY <1>3, <1>6, ThreadStep DEF asks
  <2> QED BY <1>1, <1>3, <2>1 DEF asks
<1>7. ASSUME NEW t \in Threads, NEW q, Stored(t, q)
      PROVE  Becomes(t, q) /\ q.step # "ask"
  BY <1>7 DEF Stored
<1> QED BY <1>4, <1>5, <1>6, <1>7, IdleShape, AnyThread

\* The master switches a relay as before, or what it is linked to is in doubt,
\* but for the requests to connect, to disconnect and to delete.
LEMMA SwitchStays ==
  ASSUME TypeInv, [Next]_vars, NEW r \in Relays \ doubtful', RelayInv(r),
         \A t \in Threads : panelDeleteGroup(t) => Lost(t),
         \A t \in Threads : panelConnect(t) \/ panelDisconnect(t) => thread[t].relay # r
  PROVE  /\ (\A n \in AllNames : switched(r, n)' <=> switched(r, n)) \/ inDoubt(r)
         /\ dangling(r)' => dangling(r)
         /\ relays[r] = Free => relays'[r] = Free
<1> DEFINE Kept == /\ (\A n \in AllNames : switched(r, n)' <=> switched(r, n)) \/ inDoubt(r)
                   /\ dangling(r)' => dangling(r)
                   /\ relays[r] = Free => relays'[r] = Free
<1>1. GroupInv /\ relays \in [Relays -> Slots \cup {NoSlot, Free}]
  BY DEF TypeInv
<1>2. CASE groups' = groups /\ relays' = relays
  BY <1>2 DEF switched, dangling
<1>3. ASSUME relays' = relays, NEW k \in Slots, ~groups[k].inUse, groups'[k].inUse,
             \A i \in Slots : i # k => groups'[i] = groups[i]
      PROVE  /\ (\A n \in AllNames : switched(r, n)' <=> switched(r, n)) \/ inDoubt(r)
             /\ dangling(r)' => dangling(r)
  <2>1. CASE relays[r] = k
    BY <1>3, <2>1 DEF RelayInv, dangling
  <2>2. CASE relays[r] # k
    BY <1>3, <2>2 DEF switched, dangling
  <2> QED BY <2>1, <2>2
<1>4. ASSUME NEW t \in Threads, panelCreateGroup(t)
      PROVE  /\ (\A n \in AllNames : switched(r, n)' <=> switched(r, n)) \/ inDoubt(r)
             /\ dangling(r)' => dangling(r)
             /\ relays' = relays
  <2>1. CASE unused = {}
    BY <1>2, <1>4, <2>1 DEF panelCreateGroup
  <2>2. CASE unused # {}
    <3>1. least(unused) \in Slots /\ ~groups[least(unused)].inUse
      BY <2>2, Least DEF unused
    <3>2. /\ groups' = [groups EXCEPT ![least(unused)].name = thread[t].name,
                                      ![least(unused)].inUse = TRUE]
          /\ relays' = relays
      BY <1>4, <2>2 DEF panelCreateGroup
    <3>3. /\ groups'[least(unused)].inUse
          /\ \A i \in Slots : i # least(unused) => groups'[i] = groups[i]
      BY <1>1, <3>1, <3>2 DEF GroupInv, GroupFields
    <3> QED BY <1>3, <3>1, <3>2, <3>3
  <2> QED BY <2>1, <2>2
<1>5. ASSUME NEW t \in Threads, panelDeleteGroup(t)
      PROVE  /\ \A n \in AllNames : switched(r, n)' <=> switched(r, n)
             /\ dangling(r)' => dangling(r)
             /\ relays'[r] = relays[r]
  <2> DEFINE g == groupNumber(thread[t].name)
  <2>1. CASE slotsNamed(thread[t].name) = {}
    BY <1>5, <2>1 DEF panelDeleteGroup, groupNumber, master, switched, dangling
  <2>2. CASE slotsNamed(thread[t].name) # {}
    <3>1. g \in Slots /\ groups[g].name = thread[t].name
      BY <2>2, Least DEF groupNumber, slotsNamed
    <3>2. g # NoSlot
      BY <3>1, ServerConstants DEF Slots, NoSlot, ServerConstants
    <3>3. /\ groups' = [groups EXCEPT ![g].inUse = FALSE]
          /\ relays' = [s \in Relays |-> IF relays[s] = g THEN Free ELSE relays[s]]
      BY <1>5, <3>2 DEF panelDeleteGroup
    <3>4. relays[r] # g
      <4>1. thread[t].name \in thread[t].about
        BY <1>5 DEF panelDeleteGroup, asks, TypeInv, Shape
      <4>2. r \notin spread(thread[t].about)
        BY <1>5 DEF Lost
      <4> QED BY <3>1, <4>1, <4>2 DEF spread
    <3>5. relays'[r] = relays[r] /\ \A i \in Slots : i # g => groups'[i] = groups[i]
      BY <1>1, <3>1, <3>3, <3>4 DEF GroupInv
    <3> QED BY <3>4, <3>5 DEF switched, dangling
  <2> QED BY <2>1, <2>2
<1>6. ASSUME NEW t \in Threads, panelConnect(t) \/ panelDisconnect(t)
      PROVE  groups' = groups /\ relays'[r] = relays[r]
  BY <1>1, <1>6 DEF panelConnect, panelDisconnect
<1>7. ASSUME NEW t \in Threads, panelTurnGroup(t)
      PROVE  /\ \A i \in Slots : groups'[i].name = groups[i].name
                                 /\ (groups'[i].inUse <=> groups[i].inUse)
             /\ relays' = relays
  BY <1>1, <1>7 DEF panelTurnGroup, GroupInv, GroupFields
<1>8. ASSUME NEW i \in Slots, TurnGroup(i)
      PROVE  /\ \A j \in Slots : groups'[j].name = groups[j].name
                                 /\ (groups'[j].inUse <=> groups[j].inUse)
             /\ relays' = relays
  BY <1>1, <1>8 DEF TurnGroup, GroupInv, GroupFields
<1>9. ASSUME NEW i \in Slots, MenuDelete(i)
      PROVE  /\ \A n \in AllNames : switched(r, n)' <=> switched(r, n)
             /\ dangling(r)' => dangling(r)
             /\ relays' = relays
  <2>1. relays[r] # i
    <3>1. r \notin spread({groups[i].name})
      BY <1>9 DEF MenuDelete
    <3> QED BY <3>1 DEF spread
  <2>2. relays' = relays /\ \A j \in Slots : j # i => groups'[j] = groups[j]
    BY <1>1, <1>9 DEF MenuDelete, GroupInv
  <2> QED BY <2>1, <2>2 DEF switched, dangling
<1>10. ASSUME NEW m \in Names, MenuNew(m)
       PROVE  /\ (\A n \in AllNames : switched(r, n)' <=> switched(r, n)) \/ inDoubt(r)
              /\ dangling(r)' => dangling(r)
              /\ relays' = relays
  <2> DEFINE k == least(unused \ {1, 2})
  <2>1. k \in Slots /\ ~groups[k].inUse
    <3>1. unused \ {1, 2} \subseteq Slots /\ unused \ {1, 2} # {}
      BY <1>10 DEF unused, MenuNew
    <3>2. k \in unused \ {1, 2}
      BY <3>1, Least
    <3> QED BY <3>2 DEF unused
  <2>2. /\ groups'[k].inUse /\ relays' = relays
        /\ \A i \in Slots : i # k => groups'[i] = groups[i]
    BY <1>1, <1>10, <2>1 DEF MenuNew, GroupInv
  <2> QED BY <1>3, <2>1, <2>2
<1>11. ASSUME Restart
       PROVE  Kept
  <2>1. ASSUME relays[r] \in Slots, groups[relays[r]].inUse
        PROVE  relays[r] # 1 /\ kept(groups[relays[r]].name) = groups[relays[r]].name
    <3>1. r \notin spread(renamed)
      BY <1>11 DEF Restart
    <3>2. groups[relays[r]].name \notin renamed
      BY <2>1, <3>1 DEF spread
    <3> QED BY <2>1, <3>2 DEF renamed
  <2>2. PICK first : groups' = groupsRead(first)
    BY <1>11 DEF Restart
  <2>3. relays'[r] = IF relays[r] = NoSlot THEN Free ELSE relays[r]
    BY <1>11 DEF Restart, relaysRead
  <2>4. NoSlot \notin Slots /\ Free \notin Slots
    BY ServerConstants DEF Slots, NoSlot, Free, ServerConstants
  <2>5. CASE relays[r] \notin Slots
    BY <2>3, <2>4, <2>5 DEF switched, dangling
  <2>6. CASE relays[r] \in Slots /\ ~groups[relays[r]].inUse
    <3>1. inDoubt(r) /\ dangling(r) /\ relays'[r] = relays[r]
      BY <2>3, <2>4, <2>6 DEF RelayInv, dangling
    <3> QED BY <3>1
  <2>7. CASE relays[r] \in Slots /\ groups[relays[r]].inUse
    <3>1. /\ relays'[r] = relays[r] /\ relays[r] # 1
          /\ kept(groups[relays[r]].name) = groups[relays[r]].name
      BY <2>1, <2>3, <2>4, <2>7
    <3>2. groups'[relays[r]].name = groups[relays[r]].name
      BY <2>2, <2>7, <3>1 DEF groupsRead
    <3>3. groups'[relays[r]].inUse
      BY <2>2, <2>7, <3>1 DEF groupsRead
    <3> QED BY <2>7, <3>1, <3>2, <3>3 DEF switched, dangling
  <2>8. Kept
    BY <2>3, <2>4, <2>5, <2>6, <2>7
  <2> QED BY <2>8
<1>12. ASSUME groups' = groups \/ \A i \in Slots : /\ groups'[i].name = groups[i].name
                                                   /\ groups'[i].inUse <=> groups[i].inUse,
              relays'[r] = relays[r]
       PROVE  /\ \A n \in AllNames : switched(r, n)' <=> switched(r, n)
              /\ dangling(r)' => dangling(r)
  BY <1>12 DEF switched, dangling
<1>13. ASSUME NEW t \in Threads, Handle(t)
       PROVE  Kept
  <2>1. panelCreateGroup(t) \/ panelDeleteGroup(t) => Kept
    BY <1>4, <1>5
  <2>2. panelTurnGroup(t) \/ panelConnect(t) \/ panelDisconnect(t) => Kept
    BY <1>6, <1>7, <1>12
  <2>3. panelGroups(t) => Kept
    BY <1>2 DEF panelGroups, master
  <2> QED BY <1>13, <2>1, <2>2, <2>3 DEF Handle
<1>14. ASSUME NEW i \in Slots, TurnGroup(i) \/ MenuDelete(i)
       PROVE  Kept
  BY <1>8, <1>9, <1>12, <1>14
<1>15. ASSUME NEW n \in Names, MenuNew(n)
       PROVE  Kept
  BY <1>10, <1>15
<1>16. ASSUME UNCHANGED master
       PROVE  Kept
  BY <1>2, <1>16 DEF master
<1> HIDE DEF Kept
<1>17. \/ UNCHANGED master \/ Restart
       \/ \E t \in Threads : Handle(t)
       \/ \E i \in Slots : TurnGroup(i) \/ MenuDelete(i)
       \/ \E n \in Names : MenuNew(n)
  BY DEF vars, Next, Ask, Store, OpenPage, NotSent, AskNew, AskOfGroup, AskConnect,
      AskDisconnect, AskState, begin, stores, create_group, delete_group,
      connect_relay_to_group, disconnect_relay, group_state, master
<1>18. Kept
  BY <1>11, <1>13, <1>14, <1>15, <1>16, <1>17
<1> QED BY <1>18 DEF Kept

\* What a relay is linked to stays, but for these requests when they reach the
\* point where they store.
LEMMA LinkStays ==
  ASSUME TypeInv, ThreadInv, [Next]_vars, NEW r \in Relays \ doubtful',
         \A t \in Threads : panelDeleteGroup(t) => Lost(t),
         \A t \in Threads : panelConnect(t) \/ panelDisconnect(t) => thread[t].relay # r
  PROVE  \A n : linked(r, n)' <=> linked(r, n)
<1>1. TableInv /\ doubtful \subseteq doubtful' /\ r \notin doubtful
  BY Doubted DEF TypeInv
<1>2. ASSUME UNCHANGED <<rows, wired>>, leaving(r)' <=> leaving(r),
             \A id \in DOMAIN rows : /\ going(id)' <=> going(id)
                                     /\ coming(r, id)' <=> coming(r, id)
      PROVE  \A n : linked(r, n)' <=> linked(r, n)
  BY <1>2 DEF linked
<1>3. UNCHANGED <<rows, wired>> \/ \E t \in Threads : Store(t)
  BY DEF vars, tables, Next, Handle, Ask, OpenPage, NotSent, AskNew, AskOfGroup,
      AskConnect, AskDisconnect, AskState, begin, panelCreateGroup, panelDeleteGroup,
      panelTurnGroup, panelConnect, panelDisconnect, panelGroups, TurnGroup, MenuNew,
      MenuDelete, Restart
<1>4. ASSUME NEW t \in Threads, create_group(t)
      PROVE  \A n : linked(r, n)' <=> linked(r, n)
  <2>1. /\ thread[t].step = "store" /\ thread[t].route = "new" /\ Becomes(t, Idle)
        /\ wired' = wired
    BY <1>4 DEF create_group, stores, Becomes
  <2>2. /\ leaving(r)' <=> leaving(r)
        /\ \A id : (going(id)' <=> going(id)) /\ (coming(r, id)' <=> coming(r, id))
    BY <2>1, HasStored
  <2>3. <<r, nextId>> \notin wired /\ ~coming(r, nextId)
    <3>1. nextId \notin 1 .. nextId - 1
      BY <1>1 DEF TableInv
    <3>2. \A u \in Threads : stored(u, "connect") => thread[u].id \in 1 .. nextId - 1
      BY DEF stored, ThreadInv, busy, ofRow, HasRow
    <3> QED BY <1>1, <3>1, <3>2 DEF coming, TableInv
  <2>4. /\ DOMAIN rows' = DOMAIN rows \cup {nextId}
        /\ \A id \in DOMAIN rows : id # nextId /\ rows'[id] = rows[id]
    BY <1>1, <1>4 DEF create_group, TableInv
  <2> QED BY <2>1, <2>2, <2>3, <2>4 DEF linked
<1>5. ASSUME NEW t \in Threads, delete_group(t)
      PROVE  \A n : linked(r, n)' <=> linked(r, n)
  <2>1. /\ thread[t].step = "store" /\ thread[t].route = "delete" /\ Becomes(t, Idle)
        /\ wired' = {w \in wired : w[2] # thread[t].id}
        /\ DOMAIN rows' = DOMAIN rows \ {thread[t].id}
        /\ \A id \in DOMAIN rows' : rows'[id] = rows[id]
    BY <1>5 DEF delete_group, without, stores, Becomes
  <2>2. /\ leaving(r)' <=> leaving(r)
        /\ \A id : going(id) <=> going(id)' \/ id = thread[t].id
        /\ \A id : coming(r, id)' <=> coming(r, id)
    BY <2>1, HasStored
  <2>3. \A id \in DOMAIN rows' : <<r, id>> \in wired' <=> <<r, id>> \in wired
    BY <2>1
  <2> QED BY <2>1, <2>2, <2>3 DEF linked
<1>6. ASSUME NEW t \in Threads, connect_relay_to_group(t)
      PROVE  \A n : linked(r, n)' <=> linked(r, n)
  <2>1. /\ thread[t].step = "store" /\ thread[t].route = "connect" /\ Becomes(t, Idle)
        /\ wired' = wired \cup {<<thread[t].relay, thread[t].id>>} /\ rows' = rows
    BY <1>6 DEF connect_relay_to_group, stores, Becomes
  <2>2. /\ leaving(r)' <=> leaving(r)
        /\ \A id : going(id)' <=> going(id)
        /\ \A id : coming(r, id) <=> \/ coming(r, id)'
                                     \/ thread[t].relay = r /\ thread[t].id = id
    BY <2>1, HasStored
  <2>3. \A id : <<r, id>> \in wired' <=> \/ <<r, id>> \in wired
                                         \/ thread[t].relay = r /\ thread[t].id = id
    BY <2>1
  <2> QED BY <2>1, <2>2, <2>3 DEF linked
<1>7. ASSUME NEW t \in Threads, disconnect_relay(t)
      PROVE  \A n : linked(r, n)' <=> linked(r, n)
  <2>1. /\ thread[t].step = "store" /\ thread[t].route = "disconnect" /\ Becomes(t, Idle)
        /\ wired' = {w \in wired : w[1] # thread[t].relay} /\ rows' = rows
    BY <1>7 DEF disconnect_relay, stores, Becomes
  <2>2. /\ leaving(r) <=> leaving(r)' \/ thread[t].relay = r
        /\ \A id : (going(id)' <=> going(id)) /\ (coming(r, id)' <=> coming(r, id))
    BY <2>1, HasStored
  <2>3. CASE thread[t].relay # r
    <3>1. \A id : <<r, id>> \in wired' <=> <<r, id>> \in wired
      BY <2>1, <2>3
    <3> QED BY <2>1, <2>2, <2>3, <3>1 DEF linked
  <2>4. CASE thread[t].relay = r
    <3>1. ASSUME NEW id, coming(r, id)
          PROVE  FALSE
      <4>1. PICK u \in Threads : stored(u, "connect") /\ thread[u].relay = r
        BY <3>1 DEF coming
      <4>2. u # t /\ r \in thread[u].about /\ r \in thread[t].about
        BY <2>1, <2>4, <4>1 DEF stored, TypeInv, Shape
      <4> QED BY <1>1, <2>1, <4>1, <4>2, OnlyOne DEF stored
    <3>2. \A id : <<r, id>> \notin wired'
      BY <2>1, <2>4
    <3> QED BY <2>2, <2>4, <3>1, <3>2 DEF linked
  <2> QED BY <2>3, <2>4
<1>8. ASSUME NEW t \in Threads, group_state(t)
      PROVE  \A n : linked(r, n)' <=> linked(r, n)
  <2>1. /\ thread[t].step = "store" /\ thread[t].route = "state" /\ Becomes(t, Idle)
        /\ wired' = wired
    BY <1>8 DEF group_state, stores, Becomes
  <2>2. /\ leaving(r)' <=> leaving(r)
        /\ \A id : (going(id)' <=> going(id)) /\ (coming(r, id)' <=> coming(r, id))
    BY <2>1, HasStored
  <2>3. DOMAIN rows' = DOMAIN rows /\ \A id \in DOMAIN rows : rows'[id].name = rows[id].name
    BY <1>1, <1>8 DEF group_state, TableInv
  <2> QED BY <2>1, <2>2, <2>3 DEF linked
<1>9. CASE UNCHANGED <<rows, wired>>
  <2>1. CASE thread' = thread
    BY <1>2, <1>9, <2>1 DEF going, coming, leaving, stored
  <2>2. ASSUME NEW t \in Threads, NEW q, NEW X, Asked(t, q, X)
        PROVE  \A n : linked(r, n)' <=> linked(r, n)
    <3>1. Becomes(t, q) /\ thread[t].step # "store" /\ q.step # "store"
      BY <2>2 DEF Asked
    <3> QED BY <1>2, <1>9, <3>1, NothingStored
  <2>3. ASSUME NEW t \in Threads, thread[t].step = "ask", Becomes(t, Idle)
        PROVE  \A n : linked(r, n)' <=> linked(r, n)
    BY <1>2, <1>9, <2>3, IdleShape, NothingStored
  <2>4. ASSUME NEW t \in Threads, Handle(t), NEW q, Stored(t, q)
        PROVE  \A n : linked(r, n)' <=> linked(r, n)
    <3>1. thread[t].route # "delete"
      <4>1. ASSUME panelDeleteGroup(t)
            PROVE  FALSE
        BY <2>4, <4>1, ThreadStep, IdleShape DEF Lost, Stored
      <4> QED
        BY <2>4, <4>1
        DEF Handle, asks, panelCreateGroup, panelTurnGroup, panelConnect,
            panelDisconnect, panelGroups
    <3>2. thread[t].route \in {"connect", "disconnect"} => thread[t].relay # r
      BY <2>4
      DEF Handle, asks, panelCreateGroup, panelDeleteGroup, panelTurnGroup, panelGroups
    <3> QED BY <1>2, <1>9, <2>4, <3>1, <3>2, ToStore
  <2>5. ASSUME NEW t \in Threads, Store(t)
        PROVE  \A n : linked(r, n)' <=> linked(r, n)
    BY <1>4, <1>5, <1>6, <1>7, <1>8, <2>5 DEF Store
  <2> QED BY <2>1, <2>2, <2>3, <2>4, <2>5, AnyThread
<1> QED BY <1>3, <1>4, <1>5, <1>6, <1>7, <1>8, <1>9 DEF Store

LEMMA RelayKept ==
  ASSUME TypeInv, ThreadInv, [Next]_vars, NEW r \in Relays \ doubtful', RelayInv(r),
         \A t \in Threads : panelDeleteGroup(t) => Lost(t),
         \A t \in Threads : panelConnect(t) \/ panelDisconnect(t) => thread[t].relay # r
  PROVE  RelayInv(r)'
<1>1. /\ (\A n \in AllNames : switched(r, n)' <=> switched(r, n)) \/ inDoubt(r)
      /\ dangling(r)' => dangling(r)
      /\ relays[r] = Free => relays'[r] = Free
  BY SwitchStays
<1>2. \A n : linked(r, n)' <=> linked(r, n)
  BY LinkStays
<1>3. inDoubt(r) => inDoubt(r)'
  BY <1>2, Doubted DEF inDoubt
<1>4. agrees(r)' \/ inDoubt(r)'
  BY <1>1, <1>2, <1>3 DEF RelayInv, agrees
<1>5. dangling(r)' => inDoubt(r)'
  BY <1>1, <1>3 DEF RelayInv
<1>6. \A u \in Threads : asks(u, "connect")' /\ thread'[u].relay = r => relays'[r] = Free
  BY <1>1, ConnectsStay
<1>7. \A u \in busy' : thread'[u].route = "delete" /\ linked(r, thread[u].name)'
                         => thread'[u].name \notin doubtful'
  BY <1>2, DeletesStay
<1> QED BY <1>4, <1>5, <1>6, <1>7 DEF RelayInv

\* The relays of the group that goes are free, and it is all they were linked
\* to; a relay that pointed at an older group of the name is in doubt already.
LEMMA RelayOfDeleted ==
  ASSUME TypeInv, ThreadInv, NamesInv, [Next]_vars, NEW r \in Relays \ doubtful',
         RelayInv(r), NEW t \in Threads, panelDeleteGroup(t), ~Lost(t)
  PROVE  RelayInv(r)'
<1>0. PICK id, n : id = thread[t].id /\ n = thread[t].name
  OBVIOUS
<1>1. /\ GroupInv /\ relays \in [Relays -> Slots \cup {NoSlot, Free}]
      /\ doubtful \subseteq doubtful' /\ thread[t].step = "ask"
      /\ thread[t].route = "delete" /\ thread[t].about = {n} /\ t \in busy
      /\ n \in Names /\ rows' = rows /\ wired' = wired
  BY <1>0, Doubted DEF panelDeleteGroup, asks, TypeInv, Shape, busy, tables
<1>2. PICK q : Stored(t, q) /\ doubtful' = doubtful
  BY <1>1, AnswerStep DEF panelDeleteGroup
<1>3. /\ leaving(r)' <=> leaving(r)
      /\ \A jd : going(jd)' <=> going(jd) \/ jd = id
      /\ \A jd : coming(r, jd)' <=> coming(r, jd)
  BY <1>0, <1>1, <1>2, ToStore
<1>4. id \in DOMAIN rows => rows[id].name = n
  BY <1>0, <1>1 DEF ThreadInv, ofRow, HasRow
<1>5. \A m : m # n => (linked(r, m)' <=> linked(r, m))
  BY <1>1, <1>3, <1>4 DEF linked
<1>6. \A m : linked(r, m)' => linked(r, m)
  BY <1>1, <1>3 DEF linked
<1>7. n \in doubtful => ~linked(r, n)
  BY <1>0, <1>1 DEF RelayInv
<1>8. inDoubt(r) => inDoubt(r)'
  BY <1>2, <1>5, <1>7 DEF inDoubt
<1>9. relays'[r] = relays[r] \/ relays'[r] = Free
  BY <1>1 DEF panelDeleteGroup, master
<1> DEFINE g == groupNumber(n)
<1>10. /\ slotsNamed(n) # {} => g \in Slots /\ groups[g].name = n
       /\ slotsNamed(n) = {} => g = NoSlot
       /\ Free \notin Slots /\ NoSlot \notin Slots
  <2>1. Free \notin Slots /\ NoSlot \notin Slots
    BY ServerConstants DEF Slots, NoSlot, Free, ServerConstants
  <2>2. slotsNamed(n) # {} => g \in slotsNamed(n)
    BY Least DEF groupNumber, slotsNamed
  <2> QED BY <2>1, <2>2 DEF slotsNamed, groupNumber
<1>11. \/ g = NoSlot /\ groups' = groups /\ relays'[r] = relays[r]
       \/ /\ g \in Slots /\ \A i \in Slots : i # g => groups'[i] = groups[i]
          /\ relays'[r] = IF relays[r] = g THEN Free ELSE relays[r]
  <2>1. CASE g = NoSlot
    BY <1>0, <2>1 DEF panelDeleteGroup, master
  <2>2. CASE g # NoSlot
    <3>1. /\ groups' = [groups EXCEPT ![g].inUse = FALSE]
          /\ relays' = [s \in Relays |-> IF relays[s] = g THEN Free ELSE relays[s]]
      BY <1>0, <2>2 DEF panelDeleteGroup
    <3>2. g \in Slots
      BY <1>10, <2>2
    <3> HIDE DEF g
    <3> QED BY <1>1, <3>1, <3>2 DEF GroupInv
  <2> QED BY <2>1, <2>2
<1>12. n \notin doubtful => \A i \in Slots : groups[i].name = n /\ groups[i].inUse => i = g
  <2> SUFFICES ASSUME n \notin doubtful, NEW i \in Slots, groups[i].name = n, groups[i].inUse
               PROVE  i = g
    OBVIOUS
  <2>1. i \in slotsNamed(n) /\ slotsNamed(n) \subseteq Slots
    BY DEF slotsNamed
  <2>2. g \in slotsNamed(n) /\ g <= i
    BY <2>1, Least DEF groupNumber
  <2>3. i <= g
    BY <1>1, <2>1, <2>2 DEF NamesInv, NameInv
  <2>4. i \in Nat /\ g \in Nat
    BY <2>1, <2>2, ServerConstants DEF Slots, ServerConstants
  <2> HIDE DEF g
  <2> QED BY <2>2, <2>3, <2>4
<1>13. n \notin doubtful => ~linked(r, n)'
  <2>1. ASSUME n \notin doubtful, NEW jd \in DOMAIN rows, rows[jd].name = n
        PROVE  jd = id
    <3>1. id \in DOMAIN rows /\ rows[id].name = n
      BY <1>0, <1>1, <2>1 DEF ThreadInv, ofRow, HasRow
    <3> QED BY <1>1, <2>1, <3>1 DEF NamesInv, NameInv
  <2> QED BY <1>1, <1>3, <2>1 DEF linked
<1> HIDE DEF g
<1>14. agrees(r)' \/ inDoubt(r)'
  <2>1. CASE inDoubt(r)
    BY <1>8, <2>1
  <2>2. CASE agrees(r) /\ ~inDoubt(r)
    <3>1. ~dangling(r)
      BY <2>2 DEF RelayInv
    <3>2. \A m \in AllNames : m # n => (switched(r, m)' <=> switched(r, m))
      BY <1>10, <1>11 DEF switched
    <3>3. ~linked(r, n)' /\ ~switched(r, n)'
      <4>1. CASE n \in doubtful
        <5>1. ~linked(r, n) /\ ~switched(r, n)
          BY <1>1, <1>7, <2>2, <4>1 DEF agrees, AllNames
        <5> QED BY <1>6, <1>10, <1>11, <5>1 DEF switched
      <4>2. CASE n \notin doubtful
        BY <1>10, <1>11, <1>12, <1>13, <3>1, <4>2 DEF switched, dangling
      <4> QED BY <4>1, <4>2
    <3> QED BY <1>5, <2>2, <3>2, <3>3 DEF agrees
  <2> QED BY <2>1, <2>2 DEF RelayInv
<1>15. dangling(r)' => inDoubt(r)'
  <2>1. dangling(r)' => dangling(r)
    BY <1>10, <1>11 DEF dangling
  <2> QED BY <1>8, <2>1 DEF RelayInv
<1>16. \A u \in Threads : asks(u, "connect")' /\ thread'[u].relay = r => relays'[r] = Free
  BY <1>9, ConnectsStay
<1>17. \A u \in busy' : thread'[u].route = "delete" /\ linked(r, thread[u].name)'
                          => thread'[u].name \notin doubtful'
  BY <1>6, DeletesStay
<1> QED BY <1>14, <1>15, <1>16, <1>17 DEF RelayInv

\* A relay that is connected had no group, and is linked to the one it gets.
LEMMA RelayConnected ==
  ASSUME TypeInv, ThreadInv, NamesInv, [Next]_vars, NEW r \in Relays \ doubtful',
         RelayInv(r), NEW t \in Threads, panelConnect(t), thread[t].relay = r
  PROVE  RelayInv(r)'
<1>0. PICK id, n : id = thread[t].id /\ n = thread[t].name
  OBVIOUS
<1>1. /\ relays \in [Relays -> Slots \cup {NoSlot, Free}] /\ r \notin doubtful
      /\ doubtful \subseteq doubtful' /\ thread[t].step = "ask"
      /\ thread[t].route = "connect" /\ thread[t].about = {r, n} /\ t \in busy
      /\ n \in Names /\ rows' = rows /\ wired' = wired /\ groups' = groups
  BY <1>0, Doubted DEF panelConnect, asks, TypeInv, Shape, busy, tables
<1>2. PICK q : Stored(t, q) /\ doubtful' = doubtful
  <2>1. ~Lost(t)
    BY <1>1, SpreadHas DEF Lost
  <2> QED BY <1>1, <2>1, AnswerStep DEF panelConnect
<1>3. /\ leaving(r)' <=> leaving(r)
      /\ \A jd : going(jd)' <=> going(jd)
      /\ \A jd : coming(r, jd)' <=> coming(r, jd) \/ jd = id
  BY <1>0, <1>1, <1>2, ToStore
<1>4. id \in DOMAIN rows /\ rows[id].name = n
  <2>1. HasRow(thread[t]) /\ ~(thread[t].about \subseteq doubtful)
    BY <1>1 DEF ThreadInv, ofRow
  <2> QED BY <1>0, <2>1 DEF HasRow
<1>5. ASSUME NEW u \in Threads, u # t, thread[u].step # "idle"
      PROVE  r \notin thread[u].about /\ n \notin thread[u].about
  <2>1. ~(thread[t].about \subseteq doubtful)
    BY <1>1
  <2> QED BY <1>1, <1>5, <2>1, Alone DEF busy
<1>6. ~leaving(r) /\ ~going(id)
  <2>1. ASSUME NEW u \in Threads, stored(u, "disconnect"), thread[u].relay = r
        PROVE  FALSE
    BY <1>1, <1>5, <2>1 DEF stored, TypeInv, Shape
  <2>2. ASSUME NEW u \in Threads, stored(u, "delete"), thread[u].id = id
        PROVE  FALSE
    <3>1. n \in thread[u].about /\ u # t
      BY <1>1, <1>4, <2>2, GoingIsNamed DEF stored
    <3> QED BY <1>5, <2>2, <3>1 DEF stored
  <2> QED BY <2>1, <2>2 DEF leaving, going
<1>7. \A m : linked(r, m)' <=> linked(r, m) \/ m = n
  BY <1>1, <1>3, <1>4, <1>6 DEF linked
<1>8. inDoubt(r) => inDoubt(r)'
  BY <1>1, <1>7 DEF inDoubt
<1>9. n \in doubtful => inDoubt(r)'
  BY <1>1, <1>7 DEF inDoubt, AllNames
<1>10. \A m \in AllNames : ~switched(r, m)
  <2>1. relays[r] = Free /\ Free \notin Slots
    BY <1>1, ServerConstants DEF RelayInv, asks, Slots, Free, ServerConstants
  <2> QED BY <2>1 DEF switched
<1> DEFINE g == groupNumber(n)
<1>11. relays'[r] = g
  BY <1>0, <1>1 DEF panelConnect
<1>12. n \notin doubtful => g \in Slots /\ groups[g].name = n /\ groups[g].inUse
  <2> SUFFICES ASSUME n \notin doubtful
               PROVE  g \in Slots /\ groups[g].name = n /\ groups[g].inUse
    OBVIOUS
  <2>1. willBeRow(n) /\ NameInv(n)
    BY <1>1, <1>4, <1>6 DEF willBeRow, NamesInv
  <2>2. PICK i \in Slots : groups[i].inUse /\ groups[i].name = n
    BY <2>1 DEF NameInv, usesName
  <2>3. i \in slotsNamed(n) /\ slotsNamed(n) \subseteq Slots
    BY <2>2 DEF slotsNamed
  <2>4. g \in slotsNamed(n) /\ g <= i
    BY <2>3, Least DEF groupNumber
  <2>5. i <= g
    BY <2>1, <2>2, <2>3, <2>4 DEF NameInv
  <2>6. i \in Nat /\ g \in Nat
    BY <2>3, <2>4, ServerConstants DEF Slots, ServerConstants
  <2> HIDE DEF g
  <2>7. i = g
    BY <2>4, <2>5, <2>6
  <2> QED BY <2>2, <2>7
<1>13. \A m \in AllNames : n \notin doubtful => (switched(r, m)' <=> m = n)
  BY <1>1, <1>11, <1>12 DEF switched
<1>14. agrees(r)' \/ inDoubt(r)'
  <2>1. CASE inDoubt(r) \/ n \in doubtful
    BY <1>8, <1>9, <2>1
  <2>2. CASE agrees(r) /\ n \notin doubtful
    BY <1>7, <1>10, <1>13, <2>2 DEF agrees
  <2> QED BY <2>1, <2>2 DEF RelayInv
<1>15. dangling(r)' => inDoubt(r)'
  BY <1>1, <1>9, <1>11, <1>12 DEF dangling
<1>16. \A u \in Threads : asks(u, "connect")' => thread'[u].relay # r
  <2>1. /\ thread'[t] = q /\ q.step = "store"
        /\ \A u \in Threads : u # t => thread'[u] = thread[u]
    BY <1>2, ThreadStep DEF Stored
  <2>2. ASSUME NEW u \in Threads, u # t, asks(u, "connect"), thread[u].relay = r
        PROVE  FALSE
    BY <1>5, <2>2 DEF asks, TypeInv, Shape
  <2> QED BY <2>1, <2>2 DEF asks
<1>17. \A u \in busy' : thread'[u].route = "delete" /\ linked(r, thread[u].name)'
                          => thread'[u].name \notin doubtful'
  <2>1. ASSUME NEW u \in busy', thread'[u].route = "delete", thread'[u].name = n
        PROVE  FALSE
    <3>1. /\ thread'[t] = q /\ q.route = "connect"
          /\ \A v \in Threads : v # t => thread'[v] = thread[v]
      BY <1>1, <1>2, ThreadStep DEF Stored
    <3>2. u # t /\ u \in Threads /\ thread[u].step # "idle" /\ n \in thread[u].about
      BY <2>1, <3>1 DEF busy, TypeInv, Shape
    <3> QED BY <1>5, <3>2
  <2> QED BY <1>7, <2>1, DeletesStay
<1> QED BY <1>14, <1>15, <1>16, <1>17 DEF RelayInv

LEMMA RelayDisconnected ==
  ASSUME TypeInv, ThreadInv, [Next]_vars, NEW r \in Relays \ doubtful',
         RelayInv(r), NEW t \in Threads, panelDisconnect(t), thread[t].relay = r
  PROVE  RelayInv(r)'
<1>1. /\ relays \in [Relays -> Slots \cup {NoSlot, Free}]
      /\ thread[t].step = "ask" /\ thread[t].route = "disconnect" /\ r \in thread[t].about
      /\ relays'[r] = Free
  BY DEF panelDisconnect, asks, TypeInv, Shape
<1>2. PICK q : Stored(t, q)
  <2>1. ~Lost(t)
    BY <1>1, SpreadHas DEF Lost
  <2> QED BY <1>1, <2>1, AnswerStep DEF panelDisconnect
<1>3. leaving(r)'
  BY <1>1, <1>2, ToStore
<1>4. \A n : ~linked(r, n)'
  BY <1>3 DEF linked
<1>5. Free \notin Slots
  BY ServerConstants DEF Slots, Free, ServerConstants
<1>6. agrees(r)' /\ ~dangling(r)'
  BY <1>1, <1>4, <1>5 DEF agrees, switched, dangling
<1> QED BY <1>1, <1>4, <1>6 DEF RelayInv

LEMMA RelaysInvNext ==
  TypeInv /\ ThreadInv /\ NamesInv /\ RelaysInv /\ [Next]_vars => RelaysInv'
<1> SUFFICES ASSUME TypeInv, ThreadInv, NamesInv, RelaysInv, [Next]_vars,
                    NEW r \in Relays \ doubtful'
             PROVE  RelayInv(r)'
  BY DEF RelaysInv
<1>1. RelayInv(r)
  BY Doubted DEF RelaysInv
<1>2. ASSUME NEW t \in Threads, panelDeleteGroup(t), ~Lost(t)
      PROVE  RelayInv(r)'
  BY <1>1, <1>2, RelayOfDeleted
<1>3. ASSUME NEW t \in Threads, panelConnect(t), thread[t].relay = r
      PROVE  RelayInv(r)'
  BY <1>1, <1>3, RelayConnected
<1>4. ASSUME NEW t \in Threads, panelDisconnect(t), thread[t].relay = r
      PROVE  RelayInv(r)'
  BY <1>1, <1>4, RelayDisconnected
<1>5. CASE /\ \A t \in Threads : panelDeleteGroup(t) => Lost(t)
           /\ \A t \in Threads : panelConnect(t) \/ panelDisconnect(t)
                                   => thread[t].relay # r
  BY <1>1, <1>5, RelayKept
<1> QED BY <1>2, <1>3, <1>4, <1>5
-----------------------------------------------------------------------------
IInv == TypeInv /\ ThreadInv /\ NamesInv /\ RelaysInv

LEMMA IInvInit == Init => IInv
<1> SUFFICES ASSUME Init
             PROVE  IInv
  OBVIOUS
<1>1. /\ \A t \in Threads : thread[t].step = "idle"
      /\ busy = {} /\ DOMAIN rows = {} /\ {Default, Prefixed} \subseteq doubtful
  BY IdleShape DEF Init, busy
<1>2. ASSUME NEW n \in Names \ doubtful
      PROVE  NameInv(n)
  <2>1. n # Default /\ n # NoName
    BY <1>1, ServerConstants DEF ServerConstants
  <2>2. \A i \in Slots : groups[i].name # n
    BY <2>1 DEF Init
  <2>3. ~usesName(n) /\ ~willBeRow(n)
    BY <1>1, <2>2 DEF usesName, willBeRow, made, stored
  <2> QED BY <1>1, <2>2, <2>3 DEF NameInv, slotsNamed
<1>3. ASSUME NEW r \in Relays
      PROVE  RelayInv(r)
  <2>1. relays[r] = Free /\ Free \notin Slots
    BY ServerConstants DEF Init, Slots, Free, ServerConstants
  <2>2. \A n : ~linked(r, n) /\ ~switched(r, n)
    BY <1>1, <2>1 DEF linked, switched
  <2> QED BY <1>1, <2>1, <2>2 DEF RelayInv, agrees, dangling
<1> QED BY <1>2, <1>3, BasicsInit DEF IInv, NamesInv, RelaysInv

LEMMA IInvNext == IInv /\ [Next]_vars => IInv'
BY TypeNext, ThreadNext, NamesNext, RelaysInvNext DEF IInv

\* A group of the master that is in use has a row in the database, and each row
\* a group: whatever two requests do at once, whatever is not heard, done from
\* the menu or lost by a restart, for every name that none of it touched.
THEOREM RowsFollowGroups == Spec => []RowsAreGroups
<1>1. IInv => RowsAreGroups
  <2> SUFFICES ASSUME IInv, NEW n \in Names, settled(n)
               PROVE  inRows(n) <=> usesName(n)
    BY DEF RowsAreGroups
  <2>1. NameInv(n) /\ ~underWay(n)
    BY DEF IInv, NamesInv, settled
  <2>2. ~made(n)
    <3>1. ASSUME NEW t \in Threads, stored(t, "new"), thread[t].name = n
          PROVE  underWay(n)
      BY <3>1 DEF underWay, stored, IInv, TypeInv, Shape
    <3> QED BY <2>1, <3>1 DEF made
  <2>3. \A id \in DOMAIN rows : rows[id].name = n => ~going(id)
    <3>1. ASSUME NEW id \in DOMAIN rows, rows[id].name = n,
                 NEW t \in Threads, stored(t, "delete"), thread[t].id = id
          PROVE  underWay(n)
      BY <3>1, GoingIsNamed DEF IInv, underWay, stored
    <3> QED BY <2>1, <3>1 DEF going
  <2>4. willBeRow(n) <=> inRows(n)
    BY <2>2, <2>3 DEF willBeRow, inRows
  <2> QED BY <2>1, <2>4 DEF NameInv
<1> QED BY <1>1, IInvInit, IInvNext, PTL DEF Spec

\* A relay is wired in the database to the group the master switches it with,
\* and to no other, unless one of them is in doubt or being worked on.
THEOREM RelaysFollowGroups == Spec => []RelaysAgree
<1>1. IInv => RelaysAgree
  <2> SUFFICES ASSUME IInv, NEW r \in Relays,
                      \A a \in {r} \cup wiredTo(r) \cup switchedWith(r) : settled(a)
               PROVE  wiredTo(r) = switchedWith(r)
    BY DEF RelaysAgree
  <2>1. RelayInv(r) /\ ~underWay(r)
    BY DEF IInv, RelaysInv, settled
  <2>2. ~leaving(r) /\ \A id : ~coming(r, id)
    <3>1. ASSUME NEW t \in Threads, stored(t, "disconnect") \/ stored(t, "connect"),
                 thread[t].relay = r
          PROVE  underWay(r)
      BY <3>1 DEF underWay, stored, IInv, TypeInv, Shape
    <3> QED BY <2>1, <3>1 DEF leaving, coming
  <2>3. \A n : n \in wiredTo(r) <=>
          \E id \in DOMAIN rows : <<r, id>> \in wired /\ rows[id].name = n
    <3>1. \A w \in wired : w = <<w[1], w[2]>>
      BY DEF IInv, TypeInv, TableInv
    <3> QED BY <3>1 DEF wiredTo
  <2>4. ASSUME NEW id \in DOMAIN rows, <<r, id>> \in wired
        PROVE  ~going(id)
    <3>1. settled(rows[id].name)
      BY <2>3, <2>4
    <3>2. ASSUME NEW t \in Threads, stored(t, "delete"), thread[t].id = id
          PROVE  underWay(rows[id].name)
      BY <2>4, <3>2, GoingIsNamed DEF IInv, underWay, stored
    <3> QED BY <3>1, <3>2 DEF going, settled
  <2>5. \A n : n \in wiredTo(r) <=> linked(r, n)
    BY <2>2, <2>3, <2>4 DEF linked
  <2>6. ~inDoubt(r)
    BY <2>5 DEF inDoubt, settled
  <2>7. \A n : n \in switchedWith(r) <=> switched(r, n)
    BY DEF switchedWith, switched
  <2>8. \A n : n \in wiredTo(r) \/ n \in switchedWith(r) => n \in AllNames
    BY <2>5, <2>7, LinkedName DEF switched, IInv, TypeInv, GroupInv
  <2> QED BY <2>1, <2>5, <2>6, <2>7, <2>8 DEF RelayInv, agrees
<1> QED BY <1>1, IInvInit, IInvNext, PTL DEF Spec
=============================================================================
