------------------------------ MODULE PanelLink -------------------------------
(***************************************************************************)
(* The TCP connection between the web server and its master: the listener, *)
(* the checkTime threads and the requests' threads of node.py, which share *)
(* the list of Node objects and one mutex, and the ControlPanel of the     *)
(* master (libraries/ControlPanel), which connects, serves the commands it *)
(* reads and connects again when the connection is gone.                   *)
(*                                                                         *)
(* Connections are numbered as the master makes them; a Node object is the *)
(* number of its connection.  A command is the number of its call, in the  *)
(* order the mutex was taken.  A connection that is cut delivers nothing   *)
(* more: the two ends notice on their own.  One that the master ends in    *)
(* the middle of an answer delivers the first part and then the end, which *)
(* the loop of sendAndReceive takes for an answer that is still coming.    *)
(*                                                                         *)
(* An answer is framed by its length and arrives whole or in two parts.    *)
(* Left out: an answer cut within the four digits of its length, or just   *)
(* before its newline, which the next call then reads first.               *)
(***************************************************************************)
EXTENDS Integers, Sequences

CONSTANTS
  MaxConnections,  \* bound on the connections the master makes
  WebThreads,      \* threads that serve the web's requests
  Calls,           \* bound on the calls each of them makes
  Uses             \* what may go wrong, of the set below

ASSUME PanelConstants ==
  /\ MaxConnections \in Nat \ {0}
  /\ WebThreads \in Nat
  /\ Calls \in Nat
  /\ Uses \subseteq {"CUT", "LONG", "END", "REPORT"}

Connections == 1 .. MaxConnections
Listener == 0
Checkers == Connections    \* checker c runs checkTime of connection c
Web == MaxConnections + 1 .. MaxConnections + WebThreads
Threads == {Listener} \cup Checkers \cup Web
Nobody == -1
NoCommand == 0

VARIABLES
  thread,    \* where each thread is, the Node it uses, its call, calls left
  mutex,     \* the thread that holds it
  devices,   \* the list of Nodes
  named,     \* the Nodes whose constructor got the master's name
  accepted,  \* how many connections accept() returned
  open,      \* the connections whose socket the server has not closed
  cut,       \* the connections that were cut or ended
  ended,     \* those the master ended in the middle of an answer
  commands,  \* commands[c]: sent on c and not read by the master
  answers,   \* answers[c]: sent on c and not read by the server
  client,    \* the connection of the master's WiFiClient
  partial,   \* the command readPacket holds a part of
  told,      \* told[r]: what call r returned
  served     \* the calls whose handler the master ran, in order

serverVars == <<thread, mutex, devices, named, accepted, told>>
masterVars == <<client, partial, served>>
netVars == <<open, cut, ended, commands, answers>>
vars == <<serverVars, masterVars, netVars>>

Places ==
  {"idle", "lock", "send", "recv", "body", "close", "remove", "release", "list"}

TypeOK ==
  /\ thread \in [Threads -> [at : Places, node : 0 .. MaxConnections,
                             call : Nat, left : 0 .. Calls + 2]]
  /\ mutex \in Threads \cup {Nobody}
  /\ devices \in Seq(Connections)
  /\ named \subseteq Connections /\ open \subseteq Connections
  /\ ended \subseteq cut /\ cut \subseteq Connections
  /\ accepted \in 0 .. MaxConnections
  /\ commands \in [Connections -> Seq([call : Nat, long : BOOLEAN])]
  /\ answers \in [Connections -> Seq(Nat)]
  /\ client \in 0 .. MaxConnections
  /\ partial \in Nat
  /\ told \in Seq({"none", "ok", "wrong", "failed"})
  /\ served \in Seq(Nat)

Init ==
  /\ thread = [t \in Threads |->
                 [at |-> "idle", node |-> 0, call |-> NoCommand,
                  left |-> IF t \in Web THEN Calls ELSE 0]]
  /\ mutex = Nobody /\ devices = <<>> /\ named = {} /\ accepted = 0
  /\ open = {} /\ cut = {} /\ ended = {}
  /\ commands = [c \in Connections |-> <<>>]
  /\ answers = [c \in Connections |-> <<>>]
  /\ client = 0 /\ partial = NoCommand
  /\ told = <<>> /\ served = <<>>

listed == {devices[i] : i \in DOMAIN devices}
goes(t, place) == [thread EXCEPT ![t].at = place]
-----------------------------------------------------------------------------
(* The master *)

\* connected(): established, or something left to read.
connected ==
  client # 0 /\ (client \in open \ cut \/ commands[client] # <<>>)

\* update: connect again, ten seconds after the last time.
Connect ==
  /\ partial = NoCommand /\ ~connected
  /\ client < MaxConnections
  /\ client' = client + 1
  /\ open' = open \cup {client + 1}
  /\ UNCHANGED <<serverVars, cut, ended, commands, answers, partial, served>>

\* call: the handler, and its answer.
answered(r) ==
  answers' = IF client \in open \ cut
             THEN [answers EXCEPT ![client] = Append(@, r)] ELSE answers

\* update: a command that arrived whole.  (One of more than ten arguments, which
\* only IR has, would call its handler for every ten.)
Serve ==
  /\ partial = NoCommand /\ connected
  /\ commands[client] # <<>> /\ ~Head(commands[client]).long
  /\ served' = Append(served, Head(commands[client]).call)
  /\ answered(Head(commands[client]).call)
  /\ commands' = [commands EXCEPT ![client] = Tail(@)]
  /\ UNCHANGED <<serverVars, open, cut, ended, client, partial>>

\* readPacket: of a long command the first segment is there; read() then
\* returns -1, which as a char that has no sign is not -1, and the loop goes on.
ReadPart ==
  /\ partial = NoCommand /\ connected
  /\ commands[client] # <<>> /\ Head(commands[client]).long
  /\ partial' = Head(commands[client]).call
  /\ commands' = [commands EXCEPT ![client] = Tail(@)]
  /\ UNCHANGED <<serverVars, open, cut, ended, answers, client, served>>

\* readPacket: the rest arrives.  The bytes read in between are in the command:
\* in its arguments, or in its name, which then no handler has.
ReadRest ==
  /\ partial # NoCommand /\ client \notin cut
  /\ \/ served' = Append(served, partial) /\ answered(partial)
     \/ UNCHANGED <<served, answers>>
  /\ partial' = NoCommand
  /\ UNCHANGED <<serverVars, open, cut, ended, commands, client>>

\* The connection is lost, with what is on its way in both directions; what the
\* master received it will still serve.
Cut(c) ==
  /\ "CUT" \in Uses
  /\ c <= client /\ c \notin cut
  /\ cut' = cut \cup {c}
  /\ commands' \in {commands, [commands EXCEPT ![c] = <<>>]}
  /\ answers' = [answers EXCEPT ![c] = <<>>]
  /\ UNCHANGED <<serverVars, open, ended, client, partial, served>>

\* The master closes its end in the middle of an answer: the first part has left.
End ==
  /\ "END" \in Uses
  /\ client \in open \ cut /\ answers[client] # <<>>
  /\ cut' = cut \cup {client} /\ ended' = ended \cup {client}
  /\ UNCHANGED <<serverVars, masterVars, open, commands, answers>>

\* The master is switched off and on.
Restart ==
  /\ "CUT" \in Uses /\ partial # NoCommand
  /\ cut' = cut \cup {client}
  /\ commands' = [commands EXCEPT ![client] = <<>>]
  /\ answers' = [answers EXCEPT ![client] = <<>>]
  /\ partial' = NoCommand
  /\ UNCHANGED <<serverVars, open, ended, client, served>>
-----------------------------------------------------------------------------
(* The server *)

\* Slip: accept does not wait for a connection.
AcceptSlip ==
  /\ thread[Listener].at = "idle"
  /\ accepted' = accepted + 1
  /\ thread' = [thread EXCEPT ![Listener] =
                  [@ EXCEPT !.at = "lock", !.node = accepted + 1]]
  /\ UNCHANGED <<mutex, devices, named, told, masterVars, netVars>>

\* listen: accept, and the constructor's getName.
Accept ==
  /\ thread[Listener].at = "idle" /\ accepted < client
  /\ accepted' = accepted + 1
  /\ thread' = [thread EXCEPT ![Listener] =
                  [@ EXCEPT !.at = "lock", !.node = accepted + 1]]
  /\ UNCHANGED <<mutex, devices, named, told, masterVars, netVars>>

\* getNodeByName: the first Node of that name, for a thread that will call it.
Lookup(t) ==
  /\ thread[t].at = "idle" /\ thread[t].left > 0
  /\ \E i \in DOMAIN devices :
       /\ devices[i] \in named
       /\ \A j \in 1 .. i - 1 : devices[j] \notin named
       /\ thread' = [thread EXCEPT ![t].at = "lock", ![t].node = devices[i],
                                   ![t].left = @ - 1]
  /\ UNCHANGED <<mutex, devices, named, accepted, told, masterVars, netVars>>

\* Slip: there is no mutex.
LockSlip(t) ==
  /\ thread[t].at = "lock"
  /\ mutex' = t
  /\ told' = Append(told, "none")
  /\ thread' = [thread EXCEPT ![t].at = "send", ![t].call = Len(told) + 1]
  /\ UNCHANGED <<devices, named, accepted, masterVars, netVars>>

\* mutex.acquire in sendAndReceive.
Lock(t) ==
  /\ thread[t].at = "lock" /\ mutex = Nobody
  /\ mutex' = t
  /\ told' = Append(told, "none")
  /\ thread' = [thread EXCEPT ![t].at = "send", ![t].call = Len(told) + 1]
  /\ UNCHANGED <<devices, named, accepted, masterVars, netVars>>

\* connection.send: on a socket another thread closed it raises; on one that was
\* cut it raises or the bytes are lost.
Send(t) ==
  LET c == thread[t].node IN
  /\ thread[t].at = "send"
  /\ \/ /\ c \in open /\ c \notin cut
        /\ \E long \in {FALSE} \cup {TRUE : u \in Uses \cap {"LONG"}} :
             /\ long => t \in Web
             /\ commands' = [commands EXCEPT
                  ![c] = Append(@, [call |-> thread[t].call, long |-> long])]
        /\ thread' = goes(t, "recv")
     \/ c \in cut \cap open /\ thread' = goes(t, "recv") /\ UNCHANGED commands
     \/ c \notin open \ cut /\ thread' = goes(t, "close") /\ UNCHANGED commands
  /\ UNCHANGED <<mutex, devices, named, accepted, told, masterVars,
                 open, cut, ended, answers>>

outcome(t, answer) == IF answer = thread[t].call THEN "ok" ELSE "wrong"

\* connection.recv: the length, and the part of the answer that is there.
ReceivePart(t) ==
  /\ thread[t].at = "recv" /\ thread[t].node \in open /\ answers[thread[t].node] # <<>>
  /\ thread' = goes(t, "body")
  /\ UNCHANGED <<mutex, devices, named, accepted, told, masterVars, netVars>>

\* The answer is there up to its length.
Receive(t) ==
  LET c == thread[t].node IN
  /\ thread[t].at \in {"recv", "body"} /\ c \in open \ ended /\ answers[c] # <<>>
  /\ told' = [told EXCEPT ![thread[t].call] = outcome(t, Head(answers[c]))]
  /\ answers' = [answers EXCEPT ![c] = Tail(@)]
  /\ named' = IF t = Listener THEN named \cup {c} ELSE named
  /\ thread' = goes(t, "release")
  /\ UNCHANGED <<mutex, devices, accepted, masterVars, open, cut, ended, commands>>

\* Slip: after a timeout the connection is kept.
TimeoutSlip(t) ==
  /\ thread[t].at = "recv" /\ answers[thread[t].node] = <<>>
  /\ told' = [told EXCEPT ![thread[t].call] = "failed"]
  /\ thread' = goes(t, "release")
  /\ UNCHANGED <<mutex, devices, named, accepted, masterVars, netVars>>

\* recv raises: an error, or five seconds without the answer or without the rest
\* of it, which the master may yet give; or int raises, on a sensor's data that
\* the master sends unasked.  At the end of a connection recv does not raise.
Timeout(t) ==
  LET c == thread[t].node IN
  /\ \/ thread[t].at = "recv" /\ (answers[c] = <<>> \/ "REPORT" \in Uses)
     \/ thread[t].at = "body" /\ c \notin ended
  /\ thread' = goes(t, "close")
  /\ UNCHANGED <<mutex, devices, named, accepted, told, masterVars, netVars>>

\* while len(response_string) < length: recv gives nothing, again and again, with
\* the mutex held.
stuck(t) == thread[t].at = "body" /\ thread[t].node \in ended

\* disconnect: connection.close.  What it had received is gone.
Close(t) ==
  /\ thread[t].at = "close"
  /\ open' = open \ {thread[t].node}
  /\ answers' = [answers EXCEPT ![thread[t].node] = <<>>]
  /\ thread' = goes(t, "remove")
  /\ UNCHANGED <<mutex, devices, named, accepted, told, masterVars,
                 cut, ended, commands>>

\* disconnect: devices.remove, which may not find it, and return False.
Remove(t) ==
  /\ thread[t].at = "remove"
  /\ \/ thread[t].node \notin listed /\ UNCHANGED devices
     \/ \E i \in DOMAIN devices :
          /\ devices[i] = thread[t].node
          /\ \A j \in 1 .. i - 1 : devices[j] # thread[t].node
          /\ devices' = SubSeq(devices, 1, i - 1)
                        \o SubSeq(devices, i + 1, Len(devices))
  /\ told' = [told EXCEPT ![thread[t].call] = "failed"]
  /\ thread' = goes(t, "release")
  /\ UNCHANGED <<mutex, named, accepted, masterVars, netVars>>

\* Slip: a call that fails returns with the mutex.
ReleaseSlip(t) ==
  /\ thread[t].at = "release"
  /\ mutex' = IF told[thread[t].call] = "failed" THEN mutex ELSE Nobody
  /\ IF t \in Checkers /\ thread[t].left > 0 /\ told[thread[t].call] # "failed"
     THEN thread' = [thread EXCEPT ![t].at = "lock", ![t].left = @ - 1]
     ELSE thread' = goes(t, IF t = Listener THEN "list" ELSE "idle")
  /\ UNCHANGED <<devices, named, accepted, told, masterVars, netVars>>

\* finally: mutex.release.  checkTime calls changeTime if getTime answered.
Release(t) ==
  /\ thread[t].at = "release"
  /\ mutex' = Nobody
  /\ IF t \in Checkers /\ thread[t].left > 0 /\ told[thread[t].call] # "failed"
     THEN thread' = [thread EXCEPT ![t].at = "lock", ![t].left = @ - 1]
     ELSE thread' = goes(t, IF t = Listener THEN "list" ELSE "idle")
  /\ UNCHANGED <<devices, named, accepted, told, masterVars, netVars>>

\* Slip: the time is checked on a Node with a name only.
ListSlip ==
  LET c == thread[Listener].node IN
  /\ thread[Listener].at = "list"
  /\ devices' = Append(devices, c)
  /\ thread' = [thread EXCEPT ![Listener].at = "idle",
                  ![c] = IF c \in named
                         THEN [@ EXCEPT !.at = "lock", !.node = c, !.left = 1]
                         ELSE @]
  /\ UNCHANGED <<mutex, named, accepted, told, masterVars, netVars>>

\* listen: devices.append, whether it has a name or not, and a checkTime thread.
List ==
  LET c == thread[Listener].node IN
  /\ thread[Listener].at = "list"
  /\ devices' = Append(devices, c)
  /\ thread' = [thread EXCEPT ![Listener].at = "idle",
                  ![c] = [@ EXCEPT !.at = "lock", !.node = c, !.left = 1]]
  /\ UNCHANGED <<mutex, named, accepted, told, masterVars, netVars>>
-----------------------------------------------------------------------------
Step(t) ==
  \/ Send(t) \/ ReceivePart(t) \/ Receive(t) \/ Timeout(t)
  \/ Close(t) \/ Remove(t) \/ Release(t)

\* What a thread does when it is let run.
Run(t) == Lock(t) \/ Step(t) \/ (t = Listener /\ List)

Next ==
  \/ Connect \/ Serve \/ ReadPart \/ ReadRest \/ End \/ Restart
  \/ \E c \in Connections : Cut(c)
  \/ Accept
  \/ \E t \in Web : Lookup(t)
  \/ \E t \in Threads : Run(t)

Spec == Init /\ [][Next]_vars

\* Threads run and recv returns or raises, if only by its timeout.  The calls are
\* finitely many, so a thread that waits for the mutex gets it in the end if it
\* is free again and again.  Nothing is assumed of the master.
FairSpec ==
  /\ Spec
  /\ \A t \in Threads : WF_vars(Run(t))
-----------------------------------------------------------------------------
\* An answer is given to the call it answers: no call takes the late answer of
\* the one before, whose connection is closed with it.
AnswersMatch == \A r \in DOMAIN told : told[r] # "wrong"

\* A Node whose socket is closed leaves the list, also one that was put there
\* without a name because its constructor got none; unless a call is stuck.
ClosedLeave ==
  \A c \in Connections :
    c \in listed /\ c \notin open ~>
      c \notin listed \/ \E t \in Threads : stuck(t)

\* Calls are served in order, at most once, and return what happened.
PanelCalls == INSTANCE PanelCalls
CallsAreKept == PanelCalls!Spec

\* Every call returns, with an answer or without, even if the master hangs in the
\* middle of a command or of an answer, or is gone.  The only exception is a call
\* that is stuck, and keeps all others waiting: the master closed the connection
\* in the middle of its answer.
CallsReturn ==
  \A t \in Threads :
    thread[t].at # "idle" ~>
      thread[t].at = "idle" \/ \E u \in Threads : stuck(u)

\* What the code does not give: that every call returns.
AllCallsReturn ==
  \A t \in Threads : thread[t].at # "idle" ~> thread[t].at = "idle"
=============================================================================
