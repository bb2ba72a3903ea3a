# SPU Energy Efficient System: specifications, checks and proofs

TLA+ specifications of the *Sistema de Poder Unificado* (SPU): a **master** (an
ESP8266 running `Master/Master.ino`) that switches lights and appliances, several
**slaves** (`Slave/Slave.ino`) with relays, presence sensors (PIR), temperature
sensors and infrared control, an LCD **menu** and a TCP **control panel** on the
master, and a **web server** (`index.py`, `node.py`) that talks to the masters.
Everything below cites the repository's files; `PROJECT.json` maps every definition
to the lines it translates.

Contents: [1 The system](#1-the-system) · [2 Modules](#2-modules) ·
[3 What is checked](#3-what-is-checked) · [4 What is proved](#4-what-is-proved) ·
[5 Where the code and its comments disagree](#5-where-the-code-and-its-comments-disagree) ·
[6 What is not modelled](#6-what-is-not-modelled) · [7 Plan](#7-plan)

## 1 The system

Both programs are single threaded: `loop()` runs the handlers one after another, and
alarms (`TimeAlarms`) fire only inside `Alarm.delay(0)`, which `loop()` calls once per
turn. So a handler is atomic with respect to the other handlers of its processor, and
the interleavings that matter are between processors, between handlers and alarms, and
between a handler and a power failure. The server is another matter: one listener, one
`checkTime` thread per connection and one thread per web request share its lists, its
sockets and a mutex.

| component | state it keeps | operations | talks to | here |
|---|---|---|---|---|
| **Node** (`libraries/Node`, queue of `Queue-master`) | `state`, FIFO `pendingPackets`, `timeSinceSent`, what the master believes of the slave's sensors, relays, IP | `sendMessage`, `sendPacket`, `sendAck`, `receiveAck`, `checkSentPackets`, `reconnect`, `clearMessages`, `connect…`/`disconnect…` | called by the master's handlers and timers; sends UDP datagrams to a slave | `Node` |
| **Master, node handling** (`Master.ino` 288–636) | `nodes`, `connectedNodes`, two repeating timers | `handlePacket`, `handleMessage`, `handleData`, `handleSensorInfo`, `checkNodeStatus`, `checkSentPackets`, broadcast of `turnOnGroup`/`turnOffGroup` | Node, groups, sensors | `NodeLink` |
| **Slave protocol** (`Slave.ino`) | `masterState`, `lastMessageSent`, `lastPacketSent`, `resendAlarm`, `timeSinceConnection`, EEPROM configuration | `connectToMaster`, `handleMessage`, `handleData`, `sendMessage`, `sendPacket`, `resendLastMessage`, `checkMasterStatus`, `checkConnection` | master, alarm pool, relays | `Slave`, `NodeLink` |
| **Groups and PIRs** (`Master.ino` 640–900, 1650–1990, 2110–2260) | `relayGroups[10]`, `sensors.pir`, `motionAlarm`, `enablePirAlarm`, `currentMotionTime`, EEPROM | panel commands, menu entries, calendar events, `checkPir`, `sleepGroups`, `enablePir`, `turnOnPir`, `turnOffPir`, `resetAlarms` | node handling (orders), alarm pool, calendar, menu, panel | `GroupPir` |
| **TimeAlarms** (`libraries/TimeAlarms`) | a pool of 12 alarms | `timerOnce`, `timerRepeat`, `free`, `delay` | called by both programs, calls back their handlers | in `Slave`, `GroupPir` |
| **Pairing and IP allocation** (`Master.ino` 540–580, 2024–2077; `Slave.ino` IP and WiFi handlers) | `baseIp`, EEPROM list of addresses, the SSID served | `startPairing`, `sendNewIP`, `storeIp`, `getBaseIp`, `initConnection` | node handling, EEPROM | `Pairing` |
| **Calendar** (`libraries/Calendar`) | `alarms[30]` with start, end, repetition, the `started` flag; their image in EEPROM | `add`, `removeAlarm`, `removeAlarmsWithEventAndId`, `checkCalendarAlarms`, `storeAlarms`, `readAlarms` | groups (its events), EEPROM, clock, the server's rows | `Calendar` |
| **Control panel** (`libraries/ControlPanel`) and its client (`node.py`) | the TCP connection, a command half read; threads, a mutex, the list of Nodes | `update`, `readPacket`, `sendAndReceive`, `listen`, `checkTime`, `getNode` | handlers of groups, sensors, nodes, calendar | `PanelLink` |
| **Server** (`index.py`, `database.py`, JS of the room page) | rows of groups, relays, alarms | one route per operation: read rows, ask the master, write rows | the panel of each master | `Server`, `Calendar` |
| **IR transfer** (`Master.ino`, `Slave.ino`, `IRControl`) | `irCode[220]`, recorded codes | chunked transmission of a code, its reassembly and emission | nodes, panel | – |
| **Menu** (`LCDMenu`, `SerialMenu`, `Encoder`, `LEDIndicator`) | the tree of items, selection, forms | navigation, forms that call the handlers above | groups, sensors, nodes | entries in `GroupPir`, `Server` |

### What is hard, and what makes each part correct

* **Link.** UDP loses datagrams; both sides repeat what was not answered; neither
  matches an answer with a question (the message number is written, never compared).
  Either side may restart; the master then knows no node, a slave believes itself
  connected. Correct means: group orders are obeyed in the order given; every
  question that is still open is repeated; a node that was given up returns; a slave
  that the master forgot is registered again.
* **Groups and PIRs.** A group is on, off or asleep; the alarm that puts groups to
  sleep is armed at four places, cancelled at four, and fires with the group chosen when it was
  armed, whatever happened since. The pool has twelve slots and an invalid id (255)
  that is not `ALARM_NOT_SET` (-1). Correct means: lights follow the users' orders;
  no alarm is lost and no stale id frees another's alarm; PIRs that are off disturb
  nobody; a disabled PIR is enabled again.
* **Pairing.** The master knows a slave by its address alone, changes a node's address
  before the slave has heard of it, empties queues without resetting states, and writes
  the addresses where it does not read them back. An address takes one
  byte of the counter. Correct means: no address is given
  twice, the table has one node per address, and a slave ends up connected.
* **Calendar.** Alarms live in slots that are reused with what they held; they are removed by
  number; start and end are single minutes; the started flag is not persisted, numbers
  are cut to a byte, and to two digits in answers. Correct means: a number finds its
  alarm and no other, now, after a restart, and from a row the server stored; what a
  calendar alarm turned on it turns off.
* **Panel.** Several threads share one socket whose answers carry no number; a timeout races a
  late answer; any thread may close the connection under the others; the master may hang
  in the middle of a command, or close in the middle of an answer. Correct means: an answer goes to its call, a command is executed
  at most once, and the mutex comes free again; it does, except when the master closes the connection in the middle of its answer.
* **Server.** A route reads rows, asks, writes rows, and is interleaved with others; the
  answer may be lost after the master acted; the menu changes the master behind the server's
  back; a name is the only key the two have in common, and the master cuts it to 15 bytes in its EEPROM, to 19 with its state in an
  answer, which the server splits at spaces. Correct means: the rows are the master's groups, and the page comes to show their state.

The hazards, each at its line and with the properties that cover it (or the reason
none does), are listed in `PROJECT.json`.

## 2 Modules

```
GroupOrders            what the radio link promises (abstract)
   ^ implemented by
NodeLink  = Node (master's object of a slave) + Slave (the slave's globals)
            + the handlers and timers of both programs + network and faults
Pairing   = Node + Slave, several slaves, addresses and networks
GroupPir               groups, PIRs and their alarms on the master
Calendar, MCCalendar   calendar alarms, their EEPROM image, the server's rows of them
PanelCalls             what a call of the server to its master promises (abstract)
   ^ implemented by
PanelLink              threads, sockets and mutex of node.py + ControlPanel
Server, MCServer       routes and tables of index.py + the panel handlers behind them

NodeLink_proofs <- NodeLinkOrder_proofs
GroupPir_proofs <- GroupPirLights_proofs
PanelLink_proofs    Pairing_proofs    Calendar_proofs    Server_proofs
```

A C++ function that changes an object or the globals is an **operator** from a state to
a state, named like the function; a handler, which calls several, is their composition
in the order of the calls; an **action** is one whole handler, timer callback, request or
fault. So a slip in one function shows up in every handler that calls it. (The
definitions marked *Slip* are such variants, used to test that the properties can fail;
no action refers to them.)

### Node, Slave, NodeLink

* `Node` is `class Node`: `push`/`pop` of a queue that drops when full, `sendPacket`,
  `receiveAck`, `checkSentPackets` with its three ages (repeat at each check, at
  every second one, give up). `timeSinceSent` saturates at `GiveUpAt`, beyond which
  the code no longer distinguishes ages. The temperature sensor stands for all
  sensors and relays whose `connect…`/`disconnect…` are written alike.
* `Slave` holds the slave's globals. `timers` is the set of pool slots armed with
  `resendLastMessage`, `resendAlarm` the id the program remembers: the two differ, and
  that is what several properties are about.
* `NodeLink` has the handlers of both sides. The slave's busy wait in
  `connectToMaster` is the mode `CONNECTING`: only `ConnectRetry`, `ConnectTimeout`
  (the reset) and the first datagram, whatever it is, happen there. `PowerFailsAfterAck`
  splits the one handler that answers before it acts. A datagram carries a code and,
  for `TURN`, the version of the group's state it brings about: versions are how a
  property can tell an order from a later equal one; the code has on and off only.
  Master and slave are the two ends of one radio hop; datagrams are lost but keep
  their order, duplicates are those of the resend timers.
* `GroupOrders` is the abstract service: orders are numbered, some are obeyed, never
  an older one after a newer one, and the relays show the last one obeyed or the
  power-on position. `NodeLink!Orders` is its instance under
  `asked <- version, obeyed <- applied, shown <- relay`.

### Pairing

Several slaves and the table `nodes` of the master, each entry a `Node` with the address it
is known by. While `pairing`, the access point has the default name; a slave with no name of
a network joins it, with the address its DHCP gives (`-s` for slave `s`), asks for the network's name
and then for an address; `SendNewIp` gives `baseIp + 1` and moves the node to it **at once**, before
the slave has heard of it, as `sendNewIP` does. The address is the `lastByte` of the counter (`IPAddress(192, 168, 0, baseIp)`);
`fresh` says that the master has neither restarted nor counted past it. Of addresses past it only that they repeat is modelled, not that one may be the master's own, the network's
or one of the DHCP's. `StoreNetwork` and `StoreIp` are the slave's two
messages, each of which ends in EEPROM; `StoreIp` resets the slave. `Restart` is a restart of the master:
what `storeIp` wrote is not read back, so `baseIp` is `FirstIp` again. Time is
abstracted as in `Prompt`: a datagram arrives or is lost before a timer counting seconds expires.
`MaxEvents` bounds losses, pairings and restarts together; a loss may swallow the second request of
a connection for free, so that one event can defeat a handshake.

### GroupPir

The state is one record `m`: `relayGroups`, `sensors.pir`, whether a slave's PIR is
known, the DHT, the pool and the two alarm ids. `lit` and `wanted` are history: the
last order broadcast for a group, and the last order of a user. Actions are the panel
commands (`panelTurnOnGroup`, `panelCreateGroup`, …), the menu's entries, the calendar's
events, `loop()`'s PIR part (`Loop`), `DetectSlaveMotion`, the alarms `SleepGroups`
and `EnablePir`, `resetAlarms` when the panel sets the clock, the sensors'
connections and a `Restart` that keeps what EEPROM keeps.

Two choices make the model wider than the program: an armed alarm may fire at any
time (only durations, not instants, are modelled), and a calendar event may come at
any time for any group the calendar may still know (`scheduled`). What lies at
`relayGroups[-1]`, which the code reads when no group is next, is any value;
writes there are not modelled, nor is `relayGroups[10]`, which `panelCreateGroup`
reads when every slot is taken (the action is disabled then). Slots of groups that are not
connected keep the fields the code leaves in them, among them the name: `groupNumber` finds a deleted group, so the panel may modify it, delete it again
or give it an alarm of the calendar (`named`, until a restart; `scheduled`, for good, since the calendar goes by number). `choosable` are the groups whose time is
within the 65535 with which `getNextSleepingGroup` begins its search (`LongestTime`; a time of exactly that is still chosen); a longer one, which the master
keeps until a restart truncates it, is never chosen, though it may be put to sleep with another. An alarm for a group that there never was (number -1) is not modelled.

### Calendar

`alarms` are the slots of `AlarmCalendar`, with the `used`, `started` and `id` each has even
when free: `removeAlarm` looks at the ids of free slots, `addAlarm` does not reset
`started`, and a slot not read by `readAlarms` holds whatever the stack held (`Junk`). An alarm's hours,
days and group are one `plan`. `image` is `storeAlarms` with its cut to a byte, `packings` the order
in which `readAlarms` packs it again. `CheckAlarms` is one `checkCalendarAlarms`, which visits the
slots in order: the last to touch a group decides it. `rows` are the server's, with the
number as the panel answers it, in two characters.
`lit[g]` says only that the calendar was the last to switch `g`, on; users may turn it off any time.
`Uses` names what else may happen: removal of alarms that run or not, deletion of their group,
restarts, minutes without a check, a clock set anywhere, answers lost.

### PanelCalls, PanelLink

`PanelLink` numbers the master's connections; a `Node` object of node.py is its number. Each thread
(the listener, one `checkTime` per connection, the web's) has a place in `sendAndReceive`:
`lock`, `send`, `recv`, `body`, `close`, `remove`, `release`; the steps between are where other threads run. `Cut`
loses a connection without either end noticing; the master's `Serve` reads one command, runs its
handler and answers; `ReadPart`/`ReadRest` are the command whose rest has not arrived, in
which the master's loop hangs (`readPacket` compares an unsigned char with -1). An answer comes whole (`Receive`) or in two parts (`ReceivePart`, then `Receive`). `End` is the master closing
in the middle of it: a thread that got the first part is `stuck` in the loop of `node.py:121-122`, whose `recv` then returns nothing without raising, and no action of its own is left,
with the mutex held. A sensor's reading that the master sends unasked (`Master.ino:654`) makes `int` raise: the call fails as in a timeout, though its answer may be on its way. `PanelCalls` is the
promise: calls are made one at a time, served at most once in their order, and one that returns
an answer has been served; one that returns `False` may or may not have been. Its variables
`told` and `served` are PanelLink's own.

### Server

The groups of the master (`groups`, `relays`) beside the rows of the database (`rows`, `wired`). A
route is three steps: `Ask…` reads the rows, `panel…` is the handler of `Master.ino` (atomic by `PanelLink`'s mutex
and the master's single thread), a step named like the route writes the rows if the answer was `ok`. `NotSent` is the
call that fails, done or not; `TurnGroup`, `MenuDelete`, `MenuNew` are the master's own menu, `Restart` reads groups and relays back from the EEPROM
(`initRelayGroups` appends the first group's stored name to the default one: `Prefixed` stands for the result). Names are abstract, and two functions on them say what the programs do to
their bytes: `KeptName[n]` is what `storeRelayGroupSettings` keeps, 15 bytes, which may be another group's name; `Entry[n][on]` is what `getGroupsInfo` makes of the 19 bytes of `panelGroups`: a name and a state, the
wrong ones for a long name or one with a space, or `NoState` if the state was cut off, at which the whole answer raises. The master's answer `no_groups` raises, too (`incomplete`). The theorems hold for any such functions; `MCServer` gives those of
a name of 17 bytes, one of 19 or more and one with a space. `doubtful` is history: the names
about which the code promises nothing, because two requests overlapped in them, a name was used twice, the master
acted without the server knowing, or a restart renamed the group (`renamed`: the first one, and each of a name that is not kept whole). The properties are about all the others.

## 3 What is checked

`tlc -config <cfg> <module>`; every run ends within minutes.

| run | properties | question |
|---|---|---|
| `NodeLink_order` | `TypeOK`, `IdleIsPolled`, `CommandsInOrder`, `ObeysInOrder` | are orders obeyed in order under loss, resending, faults, any timing; refinement of `GroupOrders` |
| `NodeLink_retry` | `MessageIsRetried` | is an unanswered message always repeated, with a pool of two slots that leaks |
| `NodeLink_live` | `ErrorRecovers`, `Registers` | do given-up nodes return and forgotten slaves register, once failures stop |
| `GroupPir_sleep` | `TypeOK`, `AlarmsAreOurs`, `OffIsQuiet`, `LightsFollowOrders`, `DeafIsTemporary` | two groups with different times, some too long to be searched for, fall asleep, wake, are created and modified in any order, with two alarms, the clock set and restarts |
| `GroupPir_sensors` | `AlarmsAreOurs`, `OffIsQuiet` | a group made, deleted and made again while on or asleep, PIRs and DHT come and go, times of zero, the pool runs out |
| `Calendar_store` (`MCCalendar`) | `TypeOK`, `NoShadow`, `ListedAlarmsExist`, `RestartKeepsAlarms` | does a number find its alarm, whatever was removed, restarted, missed or left in the slots |
| `Calendar_schedule` (`MCCalendar`) | `RowsNameTheirAlarms`, `OnSchedule`, `LitForAReason`, `RunningEnds` | do alarms that overlap or cross midnight run between their times, and end; do the web's rows name them |
| `PanelLink_calls` | `TypeOK`, `AnswersMatch`, `CallsAreKept`, `CallsReturn`, `ClosedLeave` | do concurrent calls get their own answers, are they served once, do all return but where an answer was broken off; refinement of `PanelCalls` |
| `Pairing_join` | `TypeOK`, `SharedAfterRestartOrWrap`, `KnowsItsNetwork`, `NodesAreDistinct`, `Joins` | do two slaves paired at once get addresses of their own, while the master runs and its counter fits a byte, and end up connected |
| `Server_rows` (`MCServer`) | `TypeOK`, `RowsAreGroups`, `RelaysAgree` | are the rows the master's groups but for the names that two requests, a failure or a restart's renaming touched |
| `Server_shown` (`MCServer`) | `StateIsShown` | does a page that asks for the state come to show that of a group heard under its own name |
| `Pairing_shared` | `NoSharedIp` (violated) | section 5 |

Every property of a passing run has a mutant in `PROJECT.json`: one function of the
code with a plausible slip (the *Slip* definitions), under which TLC finds the
property violated.

### Bounds, and why they are enough

* **order**: queue 2 (of 15), receive buffers 2 and 1, eager repetition to age 2 and giving
  up at 3 (5 and 16), one alarm slot, silence limit 1 (2), 3 versions, 1 crash, one group per slave. A queue of two is the
  least in which a resent head has something to overtake and in which `push` fails when full; a receive
  buffer of two holds an original and its duplicate, or two different orders; three
  versions make "older than the last but one" possible; ages 2 and 3 keep all three
  resend phases. Losses are not bounded.
* **retry**: two alarm slots (the least in which one leaks while another is armed), buffers of 1, give up at 2.
* **live**: queue 2, wire 3, silence limit 2, slave wire 2, 2 versions, one fault, `Prompt`.
* **sleep**: 2 groups with detection times 1, 2 and 3 (so one sleeps before the other, or both together, and 3 is beyond the 2 that stands for 65535), 2 pool slots (motion and
  enable; a third demand fails), inactivity 1, a time width of 3, at which restarts truncate.
* **sensors**: 1 group, times of zero, inactivity 0 and 1, 2 slots, which the DHT's alarms use up, all configuration changes. The
  product of all changes with two groups is too large; the theorems of section 4 cover it.
* **store**: 2 alarms, 1 group, a week and a year of one day, a day of 2 minutes, 3 numbers (one more than the slots, so that slots and numbers
  come apart), a byte and an answer that hold all three, two possible leftovers in a slot (one never a number, one that is given
  later), two plans, one of which ends before it begins.
* **schedule**: 2 alarms, weeks and years of 2 days, days of 3 minutes (before, between, after), a weekly alarm that crosses midnight beside a
  single one for every group that overlaps it, alarms removed while they do not run, answers lost. A check falls in every minute.
* **calls**: 2 connections of the master (the second makes the first stale), their two `checkTime` threads with up to two calls
  each, the listener's call, one web thread with two calls, so up to four threads at the mutex; any cut, hang, broken answer or unasked line.
* **join**, **shared**: 2 slaves, a table of 4 nodes (each slave may leave a stale one behind), 3 addresses, which fit the byte, one event
  (a loss, a further pairing or a restart), a queue of 3 (the messages of a handshake), one alarm slot.
* **rows**: 3 names, one of them the name the master gives its first group and one that the EEPROM cuts to the third, 3 slots, one relay, two threads (symmetric: no action tells them
  apart), 2 row ids, one answer unheard, menu change or restart. Two threads are what an interleaving takes; the slots
  suffice to fill the table.
* **shown**: one request at a time beside the page that asks, 4 names (a short one, one with a space that begins with it, one too long for its state, the default), 2 slots, one event. Polls that overlap
  with other requests are not in the run; with two threads and short names only, the property was checked once (932,454 states).

**Deadlock** is checked in every run but `calls`, where connections and calls are finitely many and
the system really stops when they are used up.

### Fairness

* *live*: `WF` of receiving: `loop()` polls the socket for ever.
  `SF` of the timers: `TimeAlarms` repeats them for ever; strong, because `Prompt`
  disables a timer while a datagram is in flight (timers run in seconds, a
  datagram in milliseconds), and traffic postpones a timer's step in the model but does
  not stop the clock. `WF` of `Settles`, after which nothing is lost and nobody
  crashes: no protocol delivers anything over a link that loses everything. Users
  are under no obligation to ask for anything.
* *join*: `WF` of `EndPairing` (its loop ends after a minute) and of each slave's arrivals, `SF` of each slave's timers, for the same
  reason as above: a timer of one slave runs on while the others' datagrams are in flight. Nothing is assumed of the master's timers.
* *schedule*: `WF` of `Tick` (time passes) and of `CheckAlarms` (a repeating timer, armed again whenever the clock is set).
* *calls*: `WF` of each thread's `Run`: its own steps (the scheduler, and `recv` ends at the latest by its timeout, or goes on for ever when `stuck`), taking the free mutex, and `List`. Calls
  are finite, so weak fairness is enough for the mutex. **Nothing** is assumed of the master: it may hang for ever.
* *shown*: `WF` of a request's steps once begun, `SF` of the page's polling (there is a thread for it again and again).

Safety is checked with no fairness. In *order* and *retry* `Prompt` is off: timers may expire at any time.

## 4 What is proved

TLAPS checks these for **every** value of the constants that satisfies the `ASSUME`s of the modules, hence for any
number of slaves, groups, alarms, threads, connections, calls and faults.

| theorem | statement | module |
|---|---|---|
| `TypeCorrect` | `Spec => []TypeOK` | `NodeLink_proofs` |
| `OrdersKeepTheirOrder` | `Spec => []CommandsInOrder` | `NodeLinkOrder_proofs` |
| `LinkObeysInOrder` | `Spec => ObeysInOrder` (refinement) | `NodeLinkOrder_proofs` |
| `IdleNodesArePolled` | `Spec => []IdleIsPolled` | `NodeLink_proofs` |
| `MessagesAreRetried` | `Spec => []MessageIsRetried` | `NodeLink_proofs` |
| `GroupTypes` | `Spec => []TypeOK` | `GroupPir_proofs` |
| `AlarmsStayOurs` | `Spec => []AlarmsAreOurs` | `GroupPir_proofs` |
| `OffStaysQuiet` | `Spec => []OffIsQuiet` | `GroupPir_proofs` |
| `DeafnessEnds` | no DHT; `SETTINGS` and `CLOCK` only without an inactivity time of 0: `Spec => []DeafIsTemporary` | `GroupPir_proofs` |
| `LightsAlwaysFollow` | `"DELETE" \notin Uses` implies `Spec => []LightsFollowOrders` | `GroupPirLights_proofs` |
| `TypeCorrect` | `Spec => []TypeOK` | `PanelLink_proofs` |
| `EachGetsItsAnswer` | `Spec => []AnswersMatch` | `PanelLink_proofs` |
| `LinkKeepsCalls` | `Spec => CallsAreKept` (refinement) | `PanelLink_proofs` |
| `TypeCorrect` | `Spec => []TypeOK` | `Pairing_proofs` |
| `NoSharing` | `Spec => []SharedAfterRestartOrWrap`: while the master has not restarted and `baseIp < ByteWidth` | `Pairing_proofs` |
| `NetworkBeforeAddress` | `Spec => []KnowsItsNetwork` | `Pairing_proofs` |
| `OneNodePerAddress` | `Spec => []NodesAreDistinct`, in the same states | `Pairing_proofs` |
| `TypeCorrect` | `Small` implies `Spec => []TypeOK` | `Calendar_proofs` |
| `NumbersFindAlarms` | `Small` implies `Spec => []NoShadow` | `Calendar_proofs` |
| `ListIsNotTooLong` | `Small` implies `Spec => []ListedAlarmsExist` | `Calendar_proofs` |
| `RestartReadsBack` | `Small` implies `Spec => RestartKeepsAlarms` | `Calendar_proofs` |
| `RowsNameAlarms` | `Small`, numbers below `TextLimit`, no restart: `Spec => []RowsNameTheirAlarms` | `Calendar_proofs` |
| `RunsOnSchedule` | `Small`, `NoneTaken`, no minute missed, no clock set: `Spec => []OnSchedule` | `Calendar_proofs` |
| `LitIsCovered` | `Small`, `NoneTaken`: `Spec => []LitForAReason` | `Calendar_proofs` |
| `TypeCorrect` | `Spec => []TypeOK` | `Server_proofs` |
| `RowsFollowGroups` | `Spec => []RowsAreGroups` | `Server_proofs` |
| `RelaysFollowGroups` | `Spec => []RelaysAgree` | `Server_proofs` |

`Small` is `SmallNumbers`, `MaxId < ByteWidth`: no alarm's number has exceeded the byte it is stored in. `NoneTaken` is: no alarm is removed while it
runs. The hypotheses are on constants, are those of the runs, and each is needed: section 5 says what happens without it.

### NodeLink

*Types.* `TypeOK` alone is not inductive: `resendLastMessage` sends whatever
`lastMessageSent` holds, whose initial value is a master's code. `TypeInv` adds that a
slave that is up would repeat only a slave's code; it holds because `setup` asks
for a connection before any alarm is armed. One lemma per operator of `Node` and
`Slave` gives the type of its result, so the step of each action is a composition.

*Order.* The invariant is `TypeInv` with `CommandsInOrder` and `applied <= version`.
Every operator of `Node` preserves "sorted, wire not after queue, all within
`applied .. version`": appending to the queue is safe because the new version is the
largest; sending the head because the head is not after any other; popping because the
next head is not before the wire. That is the argument why stop-and-wait without
acknowledgement numbers keeps the order although it loses orders. The refinement
follows from the invariant: a `TURN` that arrives lies in `applied .. version`.

*Retry.* `MessageIsRetried` needs that `setResendAlarm` leaves some slot armed even when
the pool is exhausted (then all slots are), and that freeing happens only where the
waiting ends.

### GroupPir

*Alarms.* For every pool up to 254 slots (ids are bytes, 255 is the invalid one) the three properties of
`GroupPir_proofs` are proved together, as `Sound`: none is
inductive alone. That `current` is natural needs that `sleepGroups` leaves no group awake with a time
up to that of its alarm (`SleepDue`); that an alarm which rings finds the PIRs on needs
`OffIsQuiet`; and that freeing by id frees the right slot needs `AlarmsAreOurs`. Handlers pass
through states in which the invariant does not hold (the slot of a ringing alarm is free while
`motionAlarm` still names it), so the lemmas of the operators state what each needs and gives:
`NoMotion`, `MotionIn`, or only `SameAlarms`.

*Deafness.* Four stages of falling asleep may each arm a timer to enable the PIRs over the id of the last, and any of
them may find the pool full. `Hears` says why one is armed all the same: `MotionIn` (from `Sound`) leaves one slot at most to the alarm
that puts groups to sleep, no DHT takes others, so with two slots or more `setEnablePirAlarm` finds a free one, or the others hold earlier timers that
enable the PIRs (`EnableAlarmHears`). The argument needs that no other handler takes a slot from such a timer: `KeepsHearing`, one lemma per operator. With a
DHT the pool fills up, and with an inactivity time of 0 the clock's reset arms nothing (`GroupPir_deaf`); such a time without the clock, or the clock without such a time, is within the theorem.

*Lights.* `Follows` is about the groups alone and holds of every state the operators pass
through: which alarms exist plays no part. The strengthening is that a group which is not connected
is off, has no name and has no alarms in the calendar; deletion breaks exactly that, by keeping `isOn`.

### PanelLink

The invariant says where a command may be. `Holder`: exactly the holder of the mutex is inside a call, its call is the
last made, and no other waits. `Wires`: of every connection but the master's last one nothing comes
any more. On that last one at most one command, answer or half-read command is on its way; while its socket is
open, that is the call of the holder at `recv`, `body` or `close`. A call that
times out leaves its answer behind, and the invariant is what shows that the answer dies with the connection, since the same thread
closes the socket before it lets the mutex go. The refinement maps `Lock` to `Call`, `Serve` and `ReadRest` to `Serve`, `Receive` and
`Remove` to `Return`, and every other step to a stutter; "served in order" follows because the one command there may be is of the last call.

### Pairing

The argument follows an address: from the counter into a packet, from there to the node, to the datagrams, to the slave that stores it
and to what the slave sends from it. For any family of sets `Ad[s]`, closed under that way, what is in one place for `s` comes from the place
before. The invariant uses this twice. With the sets of addresses *given to* each slave, disjoint and bounded by `baseIp`, it yields
`SharedAfterRestartOrWrap`: below `ByteWidth` the last byte of the counter is the counter itself, so a new address is above all that were given. Past it nothing is claimed, and `Pairing_wrap` shows why. With all addresses for slaves that know the network and none for those that do not, it yields `KnowsItsNetwork`: only
a slave that knows the network asks. That the table stays distinct rests on every new address being above all there are, and on
a slave's DHCP address being its own.

### Calendar

The numbers carry the argument. The numbers in use are below `nextId` (`Numbered`), and no slot before a used one has its number
(`NoShadow`): a new alarm takes the first free slot and a number never given, and a freed slot keeps its number. Hence the slots that
an ending alarm removes by number are exactly its own, hence the count never falls behind the list in the wrong direction
(`ListedAlarmsExist`), hence the image (`Mirrored`) reads back as the same alarms under the same numbers and the next number after a restart exceeds them all.
`RunsOnSchedule` and `LitIsCovered` add `Still`: only a used slot holds a started flag.

### Server

`RowsAreGroups` speaks of the names that are settled, which is not inductive: a request is half done between the master's
answer and the commit. `IInv` therefore counts a request that is about to store as done. `willBeRow` holds of a name with a row that no thread is
about to delete, or a row some thread is about to add; `linked` is the same for the wires of a relay. `NameInv`: a name that is not in doubt
has one row and one used slot at most, that slot is the first with its name (so `groupNumber` finds it, also
past the slots of deleted groups, which keep their names), and the row will be there exactly if the slot is used.
`RelayInv`: what will be linked to a relay is what the master switches it with, unless something of it is in doubt; a wire or a number whose row or
group has gone is always in doubt, since deleting a group spreads doubt to the relays linked to it.
A restart keeps the invariant because a slot's name changes only if the old and the new one are put in doubt (`KeptNames`). `ThreadInv` is what makes this
stable: two requests on one name or relay put it in doubt before either acts (`overlaps`, `again`, `tangled`), so the request that is alone finds
at `Handle` and `Store` what it saw at `Ask`. `RoomInv` bounds the numbers of rows to come, for the types only. The constants need what
the form of a new group guarantees, a name that is not empty (`templates/new-group.html:19`), and leave out that a user chooses the very name a restart
gives the first group.

### Only model-checked

Liveness (`ErrorRecovers`, `Registers`, `Joins`, `RunningEnds`, `CallsReturn`, `ClosedLeave`, `StateIsShown`) is out of the prover's
reach: every safety and action property of a passing run is a theorem, on the hypotheses the table gives, and the seven properties
above are what only TLC checks. Fairness, and so `Prompt` and the bounds on faults that liveness needs, plays no part in the proofs.

## 5 Where the code and its comments disagree

| run | property | what the code does |
|---|---|---|
| `Pairing_shared` | `NoSharedIp` | `storeIp` (`Master.ino:561`) writes at `baseIp-4+SLAVE_IP_DIR` with `baseIp` above 210, outside the 20 bytes `getBaseIp` reads and inside a group's record; after a restart the addresses are given out again |

The following are reproducible counterexamples of properties one might expect; their configurations are kept beside the runs but are
not part of them.

| configuration | property | what the code does |
|---|---|---|
| `NodeLink_answered` | `AnsweredWasHeard` | any data packet or late answer removes the head of the queue, heard or not |
| `NodeLink_belief` | `BeliefIsTrue` | a sensor is recorded when its message is queued; the message may be dropped, and nothing corrects the record before the slave connects again |
| `GroupPir_deaf` | `DeafIsTemporary` | inactivity set to 0 while the PIRs are disabled, then the clock set: nothing enables them again |
| `GroupPir_exhausted` | `SetMeansArmed` | each connection of the DHT keeps a slot; once none is left 255 passes for an armed alarm |
| `GroupPir_unwoken` | `SleepersCanBeWoken` | with no PIR anywhere a group turned on by the panel is put to sleep |
| `Pairing_wrap` | `AlwaysReserved` | the counter runs on past the byte of an address (`Master.ino:568`): the 46th address of an uptime is `.0`, and after 256 they repeat |
| `PanelLink_stuck` | `AllCallsReturn` | the master closes in the middle of an answer: `recv` returns nothing again and again (`node.py:121-122`), the mutex is never released, and every other thread waits for it |
| `Server_heard` (`MCServer`) | `AnyStateIsShown` | of "name state" 19 bytes are sent (`Master.ino:1649-1650`) and two words used (`node.py:192`): a name of 17 bytes is heard as off, and a group `sala 1` as an off `sala`, which turns the row of `sala` off |
| `GroupPir_nogroup` | `AlarmHasAGroup` | `checkPir` indexes `relayGroups` with -1 when every lit group ignores the PIRs |

Others met while modelling. Those of the first six groups are part of the models (or excluded from a run by its `Uses`, as said):

* **Link.** `setResendAlarm` (`Slave.ino:516`) overwrites the id of an armed alarm, and
  `connectToMaster` accepts the answer without freeing the alarm of its request, so
  messages already answered are repeated; `NodeLink_retry` shows it costs no
  repetition that is due. `resendLastMessage` (`Slave.ino:522`) repeats a data packet once, re-arming nothing: if the
  repetition is lost, too, the slave waits until the silence check reconnects it.
* **Groups.** A group told to ignore the PIRs may still be put to sleep by an alarm armed
  before (`Master.ino:848`), is forgotten by `turnOffPir`, and not woken by the next
  motion when it heeds the PIRs again. `turnOnEverythingEvent` turns the PIRs on for groups that ignore them, and turning
  those off one by one leaves the PIRs on (`Master.ino:1691`). `panelDeleteGroup` and `panelCreateGroup` leave `isOn`, so that a new group may be
  "on" with its relays off (`Master.ino:1704`); this is why `LightsFollowOrders` is claimed only while no group is deleted.
* **Pairing.** Nodes of handshakes that were lost stay in the table; with as many places as slaves a slave may find it full, and
  `Joins` fails. `startPairing` empties queues and leaves a node waiting for an answer, whom only the slave's own silence check brings back.
* **Calendar.** A reused slot keeps `started`, so an alarm removed while it runs makes the next in its slot end without having begun, and leaves its
  group on (excluded by `NoneTaken`). Deleting the row of an alarm that is gone counts it down again (`removeAlarm` looks at free slots). A restart forgets what was running. Numbers
  are cut to a byte in EEPROM and to two characters in answers (from 100 on the row names another alarm). Rows of ended alarms stay, and after a restart their number is
  given again: deleting them deletes another. A full calendar answers -1, of which the server makes a row. An end that falls in a pairing is missed. The year of a single
  alarm is never compared. An alarm that crosses midnight is ended on the day it began, that is, a week (or a year) later.
* **Names of groups.** The form for a new group has no maximal length. The EEPROM keeps 15 bytes of a name (`Master.ino:1543`), so after a restart a group of a longer name is not found under the name of its row. Of 18 bytes nothing of the state reaches the server, as of 17 too little; of
  19 or more the space is gone too, and `r.split(' ')[1]` raises an `IndexError` that is not caught: no state is shown at all while there is such a group. When the master has no group at all, `getGroupsInfo` returns a string, over whose characters `group_state`
  iterates: a `TypeError`, after which the page asks no more.
* **Server.** The master's default group is `g1`; after a restart `initRelayGroups` appends to the name, so the master has a group without a row, and `/group_state` ends in an
  `IndexError` (`index.py:713`) with the groups after it not updated. The page's polling stops for good after one error or timeout. Panel handlers answer `ok` to
  an unknown group and a full table. `groupNumber` finds groups that are no longer connected. A connect form that is out of date wires a relay twice. A group deleted in the
  menu keeps its relays and calendar alarms.
* **Panel.** `readPacket` compares an unsigned char with `(char)-1` and waits for the end of a command with the whole master (`ControlPanel.cpp:67`). Not modelled:
  a late final newline, or the four digits of a length that arrive in two parts, put `recv(4)` out of step; lengths are counted in bytes by the master and in characters by the server, so an answer with two or more characters outside ASCII is waited for until the
  timeout, and one cut inside such a character raises a `UnicodeDecodeError`, which is a `ValueError` and disconnects; there
  is no keep-alive; an exception in `createBucket` ends the listener (`node.py:40`); `resetMaster` raises a `ValueError` if the Node has left the list; the setup of a
  new master, when interrupted, is not tried again (`node.py:67`).
* **IR.** Nothing of it is modelled, see below.

## 6 What is not modelled

* Vendored libraries (`IRremote`, `IRremoteESP8266`, `Time`, `thinger.io`, `Rtc_3231`, DHT, LCD): third-party, and some four fifths of the repository's
  lines, which is why the share of all lines that the map covers is small; the programs' own code is about nine thousand lines.
  Of `Queue-master` and `TimeAlarms` what the programs rely on is modelled where it is
  used; the order in which several due alarms are serviced is not (they fire in any order).
* `Clear_eeprom*`, `Set_eeprom_*`, `RecvSPU*`, `SendAir*`, `thing-example`: bench sketches.
* `App`, `static` (but for the polling of the room page), templates: user interface. Menu, encoder, LEDs: user interface, whose entries that change groups are
  actions of `GroupPir` and `Server`.
* **IR transfer.** Chunks of a code are appended as they come and carry no number, so a repeated datagram shifts the code (`Slave.ino:276`); a transfer that is broken off
  leaves `irCodeLength`, and the next one is appended to it; the queue of 15 packets drops chunks of a long code; `getValues` truncates values from 10000 on; and `sendCode` emits a constant
  instead of the stored code. There is no state relation that the code keeps, hence nothing to check beyond these sentences.
* In `NodeLink`: more than one slave (slaves share nothing but the broadcast of orders; several are in `Pairing`), relay and IR messages (the former
  have the same shape as those modelled), the text of sensor readings, the message number that nobody reads.
* In `Pairing`: what an address past the byte runs into (the network's `.0`, the broadcast `.255`, the DHCP's, the master's own); orders to groups and sensor messages (in `NodeLink`); that `storeIp` damages a group's record; slaves reset by hand.
* In `GroupPir`: names of groups and relays, LEDs, the ambient temperature's own use of its alarm (its slots are counted).
* In `PanelLink`: the name and the arguments of a command (one of more than ten arguments, which only IR uses, calls its handler for every ten: `ControlPanel.cpp:42-45`), an answer cut within its length or before its newline, the setup of a new master. In `Server`: names with the `&` or the newline of the protocol in them, or with characters outside ASCII; several rooms, users, sensors, the settings of groups (which keep the name), routes of the relays of slaves and of IR codes: they follow the pattern of those modelled.

## 7 Plan

What would add most, in this order:

1. **GroupPir composed with NodeLink and Calendar**: `lit` is what `version` numbers, an order given by `GroupPir` is a `TURN` of `NodeLink`, through
   `GroupOrders`; the calendar's events restricted to those `Calendar` produces.
2. **Server**: the remaining routes.
3. **The setup of a new master** in `PanelLink`, as the listener's second call, and answers cut within their length.
4. **TimeAlarms** as a module: the order of alarms that are due at once.
